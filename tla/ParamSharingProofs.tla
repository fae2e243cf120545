-------------------------- MODULE ParamSharingProofs --------------------------
(***************************************************************************)
(* For every document, of any number of paths and methods and in any order  *)
(* of the paths: sharing parameters changes the meaning of no operation,    *)
(* and each shared parameter is written once, before whatever refers to it. *)
(***************************************************************************)
EXTENDS ParamSharing, SequenceTheorems, FiniteSetTheorems, TLAPS

USE NoIdAssumption

\* The ids of the anchors and of the aliases.
Core == TypeOK /\ IdsBelow /\ UniqueIds /\ AliasNamesItsParam

-----------------------------------------------------------------------------
(* Ids.                                                                      *)

\* Appending a pointer keeps a list of slots one, and adds no alias.
LEMMA WithType ==
  ASSUME NEW list \in Seq(SlotType), NEW p \in Params
  PROVE  /\ With(list, p) \in Seq(SlotType)
         /\ \A i \in DOMAIN With(list, p) :
              With(list, p)[i].alias # NoId =>
                i \in DOMAIN list /\ With(list, p)[i] = list[i]
<1>1. Slot(p) \in SlotType BY DEF Slot, SlotType
<1>2. CASE HasParam(list, p) BY <1>2 DEF With
<1>3. CASE ~HasParam(list, p)
  <2>1. With(list, p) = Append(list, Slot(p)) BY <1>3 DEF With
  <2>2. Append(list, Slot(p)) \in Seq(SlotType) BY <1>1, AppendProperties
  <2>3. \A i \in 1..Len(list) : Append(list, Slot(p))[i] = list[i]
    BY <1>1, AppendProperties
  <2>4. Append(list, Slot(p))[Len(list) + 1] = Slot(p) BY <1>1, AppendProperties
  <2>5. DOMAIN Append(list, Slot(p)) = 1..(Len(list) + 1) /\ DOMAIN list = 1..Len(list)
        /\ Len(list) \in Nat
    BY <1>1, AppendProperties, LenProperties
  <2> QED BY <2>1, <2>2, <2>3, <2>4, <2>5 DEF Slot
<1> QED BY <1>2, <1>3

\* Aliasing keeps the list's length and type.
LEMMA AliasedType ==
  ASSUME NEW list \in Seq(SlotType), NEW p \in Params, TypeOK
  PROVE  Aliased(list, p) \in Seq(SlotType)
<1>1. DOMAIN list = 1..Len(list) /\ Len(list) \in Nat BY LenProperties
<1>2. [param |-> p, alias |-> anchor[p]] \in SlotType BY DEF SlotType, TypeOK
<1>3. \A i \in 1..Len(list) : list[i] \in SlotType BY <1>1, ElementOfSeq
<1>4. \A i \in 1..Len(list) : Aliased(list, p)[i] \in SlotType
  BY <1>1, <1>2, <1>3 DEF Aliased
<1>5. Aliased(list, p) = [i \in 1..Len(list) |-> Aliased(list, p)[i]]
  BY <1>1 DEF Aliased
<1> QED BY <1>1, <1>4, <1>5, IsASeq

\* Paths and methods being finite, the number of places is a number.
LEMMA PlacesCounted == ASSUME NEW p \in Params PROVE Cardinality(Places(p)) \in Nat
<1>1. IsFiniteSet(Paths \X Methods) BY PathsAssumption, FS_Product
<1> QED BY <1>1, FS_Subset, FS_CardinalityType DEF Places

\* Before assignAnchors runs, no parameter has an anchor and no slot is an alias.
LEMMA InitCore == Init => Core
<1> SUFFICES ASSUME Init PROVE Core OBVIOUS
<1>1. doc \in Documents BY DEF Init
<1>2. ASSUME NEW path \in Paths, NEW m \in DOMAIN ops[path]
      PROVE  /\ ops[path][m] \in Seq(SlotType)
             /\ \A i \in DOMAIN ops[path][m] : ops[path][m][i].alias = NoId
  <2>1. doc[path].ops[m] \in Seq(Params)
    BY <1>1, <1>2, DocumentsAssumption DEF Init, WalkedOps
  <2> DEFINE list == doc[path].ops[m]
  <2>2. list = [i \in 1..Len(list) |-> list[i]] /\ Len(list) \in Nat
        /\ \A i \in 1..Len(list) : list[i] \in Params
    BY <2>1, LenProperties, ElementOfSeq
  <2>3. ops[path][m] = [i \in 1..Len(list) |-> Slot(list[i])]
    BY <1>2, <2>1, LenProperties DEF Init, WalkedOps
  <2>4. \A i \in 1..Len(list) : Slot(list[i]) \in SlotType
    BY <2>2 DEF Slot, SlotType
  <2> QED BY <2>2, <2>3, <2>4, IsASeq DEF Slot
<1>3. TypeOK
  <2>1. \A path \in Paths : level[path] \in Seq(Params)
    BY <1>1, DocumentsAssumption DEF Init
  <2>2. level \in [Paths -> Seq(Params)] BY <2>1 DEF Init
  <2>3. DOMAIN ops = Paths /\ \A path \in Paths : DOMAIN ops[path] = DOMAIN doc[path].ops
    BY DEF Init, WalkedOps
  <2>4. at \in [path : Paths \cup {NoId}, method : 1..7, slot : Nat \ {0}]
    BY DEF Init, Idle
  <2>5. OpsTypeOK BY <1>2, <2>3 DEF OpsTypeOK
  <2> QED BY <1>1, <2>2, <2>4, <2>5 DEF Init, TypeOK
<1>4. IdsBelow /\ UniqueIds BY DEF Init, IdsBelow, UniqueIds
<1>5. AliasNamesItsParam BY <1>2 DEF AliasNamesItsParam
<1> QED BY <1>3, <1>4, <1>5 DEF Core

\* Pushing one path-level parameter into the operations creates no alias.
LEMMA PromoteCore == ASSUME NEW path \in Paths, Core, Promote(path) PROVE Core'
<1> USE DEF Core
<1>1. Head(level[path]) \in Params /\ Tail(level[path]) \in Seq(Params)
  BY HeadTailProperties DEF Promote, TypeOK
<1>2. \A q \in Paths : q # path => ops'[q] = ops[q]
  BY DEF Promote, TypeOK, OpsTypeOK
<1>3. DOMAIN ops'[path] = DOMAIN ops[path]
      /\ \A m \in DOMAIN ops[path] :
           ops'[path][m] = With(ops[path][m], Head(level[path]))
  BY DEF Promote, TypeOK, OpsTypeOK
<1>4. ASSUME NEW m \in DOMAIN ops[path]
      PROVE  /\ ops'[path][m] \in Seq(SlotType)
             /\ \A i \in DOMAIN ops'[path][m] : ops'[path][m][i].alias # NoId =>
                  i \in DOMAIN ops[path][m] /\ ops'[path][m][i] = ops[path][m][i]
  <2>1. ops[path][m] \in Seq(SlotType) BY DEF TypeOK, OpsTypeOK
  <2> DEFINE new == With(ops[path][m], Head(level[path]))
  <2>2. /\ new \in Seq(SlotType)
        /\ \A i \in DOMAIN new : new[i].alias # NoId =>
             i \in DOMAIN ops[path][m] /\ new[i] = ops[path][m][i]
    BY <1>1, <2>1, WithType
  <2>3. ops'[path][m] = new BY <1>3
  <2> HIDE DEF new
  <2> QED BY <2>2, <2>3
<1>5. TypeOK'
  <2>1. level' \in [Paths -> Seq(Params)] BY <1>1 DEF Promote, TypeOK
  <2>2. DOMAIN ops' = Paths BY DEF Promote, TypeOK, OpsTypeOK
  <2>3. OpsTypeOK'
    BY <1>2, <1>3, <1>4, <2>2 DEF Promote, TypeOK, OpsTypeOK
  <2> QED BY <2>1, <2>3 DEF Promote, TypeOK
<1>6. IdsBelow' /\ UniqueIds' BY DEF Promote, IdsBelow, UniqueIds
<1>7. AliasNamesItsParam'
  <2>1. anchor' = anchor /\ DOMAIN ops' = Paths BY DEF Promote, TypeOK, OpsTypeOK
  <2>2. ASSUME NEW q \in Paths, NEW m \in DOMAIN ops'[q], NEW i \in DOMAIN ops'[q][m],
               ops'[q][m][i].alias # NoId
        PROVE  ops'[q][m][i].alias = anchor[ops'[q][m][i].param]
    <3>1. CASE q # path BY <1>2, <2>2, <3>1 DEF AliasNamesItsParam
    <3>2. CASE q = path
      <4>1. i \in DOMAIN ops[path][m] /\ ops'[path][m][i] = ops[path][m][i]
        BY <1>3, <1>4, <2>2, <3>2
      <4> QED BY <1>3, <2>2, <3>2, <4>1 DEF AliasNamesItsParam
    <3> QED BY <3>1, <3>2
  <2> QED BY <2>1, <2>2 DEF AliasNamesItsParam
<1> QED BY <1>5, <1>6, <1>7

\* The cursor of the walk moves on and stays a number.
LEMMA NextSlotType ==
  ASSUME TypeOK, NextSlot
  PROVE  at' \in [path : Paths \cup {NoId}, method : 1..7, slot : Nat \ {0}]
BY DEF TypeOK, NextSlot

\* A fresh number is above every number in use, and no alias names the
\* parameter that gets it.
LEMMA NameSlotCore == ASSUME Core, NameSlot PROVE Core'
<1> USE DEF Core
<1> DEFINE p == ops[at.path][Here][at.slot].param
<1>1. at.path \in Paths /\ Here \in DOMAIN ops[at.path]
      /\ at.slot \in 1..Len(ops[at.path][Here])
  BY DEF NameSlot, InOperation, TypeOK, Idle
<1>2. p \in Params
  <2>1. ops[at.path][Here] \in Seq(SlotType) BY <1>1 DEF TypeOK, OpsTypeOK
  <2>2. ops[at.path][Here][at.slot] \in SlotType BY <1>1, <2>1, ElementOfSeq
  <2> QED BY <2>2 DEF SlotType
<1>3. anchor[p] = NoId /\ anchor' = [anchor EXCEPT ![p] = idx] /\ idx' = idx + 1
  BY DEF NameSlot
<1>4. TypeOK'
  <2>1. at' \in [path : Paths \cup {NoId}, method : 1..7, slot : Nat \ {0}]
    BY NextSlotType DEF NameSlot
  <2>2. OpsTypeOK' BY DEF NameSlot, TypeOK, OpsTypeOK
  <2>3. anchor' \in [Params -> Nat \cup {NoId}] /\ idx' \in Nat
    BY <1>2, <1>3 DEF TypeOK
  <2> QED BY <2>1, <2>2, <2>3 DEF NameSlot, TypeOK
<1>5. IdsBelow'
  BY <1>2, <1>3 DEF IdsBelow, TypeOK
<1>6. UniqueIds'
  BY <1>2, <1>3 DEF IdsBelow, UniqueIds, TypeOK
<1>7. AliasNamesItsParam'
  <2>1. ops' = ops BY DEF NameSlot
  <2>2. ASSUME NEW q \in Paths, NEW m \in DOMAIN ops[q], NEW i \in DOMAIN ops[q][m],
               ops[q][m][i].alias # NoId
        PROVE  ops[q][m][i].alias = anchor'[ops[q][m][i].param]
    <3>1. ops[q][m][i].alias = anchor[ops[q][m][i].param]
      BY <2>2 DEF AliasNamesItsParam
    <3>2. ops[q][m][i].param # p BY <1>3, <2>2, <3>1
    <3> QED BY <1>3, <3>1, <3>2 DEF TypeOK
  <2> QED BY <2>1, <2>2 DEF AliasNamesItsParam
<1> QED BY <1>4, <1>5, <1>6, <1>7

\* The slots that become aliases get the anchor their parameter has.
LEMMA AliasSlotCore == ASSUME Core, AliasSlot PROVE Core'
<1> USE DEF Core
<1> DEFINE path == at.path
           m == Here
           p == ops[path][m][at.slot].param
<1>1. path \in Paths /\ m \in DOMAIN ops[path] /\ at.slot \in 1..Len(ops[path][m])
  BY DEF AliasSlot, InOperation, TypeOK, Idle
<1>2. p \in Params
  <2>1. ops[path][m] \in Seq(SlotType) BY <1>1 DEF TypeOK, OpsTypeOK
  <2>2. ops[path][m][at.slot] \in SlotType BY <1>1, <2>1, ElementOfSeq
  <2> QED BY <2>2 DEF SlotType
<1>3. ops' = [ops EXCEPT ![path][m] = Aliased(ops[path][m], p)]
  BY DEF AliasSlot
<1>4. /\ \A q \in Paths : DOMAIN ops'[q] = DOMAIN ops[q]
      /\ \A q \in Paths : \A n \in DOMAIN ops[q] :
           (q # path \/ n # m) => ops'[q][n] = ops[q][n]
      /\ ops'[path][m] = Aliased(ops[path][m], p)
      /\ DOMAIN ops' = Paths
  BY <1>1, <1>3 DEF TypeOK, OpsTypeOK
<1>5. TypeOK'
  <2>1. ops'[path][m] \in Seq(SlotType)
    <3>1. ops[path][m] \in Seq(SlotType) BY <1>1 DEF TypeOK, OpsTypeOK
    <3> QED BY <1>2, <1>4, <3>1, AliasedType
  <2>2. OpsTypeOK'
    BY <1>4, <2>1 DEF AliasSlot, TypeOK, OpsTypeOK
  <2>3. at' \in [path : Paths \cup {NoId}, method : 1..7, slot : Nat \ {0}]
    BY NextSlotType DEF AliasSlot
  <2> QED BY <2>2, <2>3 DEF AliasSlot, TypeOK
<1>6. IdsBelow' /\ UniqueIds' BY DEF AliasSlot, IdsBelow, UniqueIds
<1>7. AliasNamesItsParam'
  <2>1. ASSUME NEW q \in Paths, NEW n \in DOMAIN ops'[q], NEW i \in DOMAIN ops'[q][n],
               ops'[q][n][i].alias # NoId
        PROVE  ops'[q][n][i].alias = anchor[ops'[q][n][i].param]
    <3>1. CASE ops'[q][n] = ops[q][n]
      BY <1>4, <2>1, <3>1 DEF AliasNamesItsParam
    <3>2. CASE q = path /\ n = m
      BY <1>1, <1>4, <2>1, <3>2 DEF Aliased, AliasNamesItsParam
    <3> QED BY <1>4, <2>1, <3>1, <3>2
  <2>2. anchor' = anchor BY DEF AliasSlot
  <2> QED BY <2>1, <2>2 DEF AliasNamesItsParam
<1> QED BY <1>5, <1>6, <1>7

\* The other steps touch neither slots nor anchors.
LEMMA MoveCore ==
  ASSUME Core,
         \/ CountPointers \/ LeaveOperation \/ SkipSlot \/ Finish \/ UNCHANGED vars
         \/ \E path \in Paths : EnterPath(path)
  PROVE  Core'
<1> USE DEF Core
<1>1. ops' = ops /\ anchor' = anchor /\ idx' = idx /\ doc' = doc /\ level' = level
  BY DEF CountPointers, LeaveOperation, SkipSlot, Finish, EnterPath, vars
<1>2. IdsBelow' /\ UniqueIds' /\ AliasNamesItsParam'
  BY <1>1 DEF IdsBelow, UniqueIds, AliasNamesItsParam
<1>3. OpsTypeOK' BY <1>1 DEF TypeOK, OpsTypeOK
<1>4. TypeOK'
  <2> DEFINE AtType == [path : Paths \cup {NoId}, method : 1..7, slot : Nat \ {0}]
  <2>1. CASE CountPointers
    <3>1. count' \in [Params -> Nat]
      BY <2>1, PlacesCounted DEF CountPointers
    <3> QED BY <1>1, <1>3, <2>1, <3>1 DEF CountPointers, TypeOK
  <2>2. CASE LeaveOperation
    <3>1. Len(WalkOrder) = 7 BY DEF WalkOrder
    <3>2. at' \in AtType BY <2>2, <3>1 DEF LeaveOperation, TypeOK, Idle
    <3> QED BY <1>1, <1>3, <2>2, <3>2 DEF LeaveOperation, TypeOK
  <2>3. CASE SkipSlot
    <3>1. at' \in AtType BY <2>3, NextSlotType DEF SkipSlot
    <3> QED BY <1>1, <1>3, <2>3, <3>1 DEF SkipSlot, TypeOK
  <2>4. CASE Finish BY <1>1, <1>3, <2>4 DEF Finish, TypeOK
  <2>5. CASE UNCHANGED vars BY <1>3, <2>5 DEF vars, TypeOK
  <2>6. ASSUME NEW path \in Paths, EnterPath(path) PROVE TypeOK'
    <3>1. at' \in AtType BY <2>6 DEF EnterPath
    <3> QED BY <1>1, <1>3, <2>6, <3>1 DEF EnterPath, TypeOK
  <2> QED BY <2>1, <2>2, <2>3, <2>4, <2>5, <2>6
<1> QED BY <1>2, <1>4

-----------------------------------------------------------------------------
(* The parameters of an operation.                                           *)

\* A list of slots names as many parameters as it has slots.
LEMMA NamedIs ==
  ASSUME NEW list \in Seq(SlotType)
  PROVE  /\ Named(list) \in Seq(Params)
         /\ Len(Named(list)) = Len(list)
         /\ \A i \in 1..Len(list) : Named(list)[i] = list[i].param
<1> DEFINE n == Len(list)
<1>1. n \in Nat /\ DOMAIN list = 1..n BY LenProperties
<1>2. \A i \in 1..n : list[i].param \in Params
  <2>1. \A i \in 1..n : list[i] \in SlotType BY ElementOfSeq
  <2> QED BY <2>1 DEF SlotType
<1>3. Named(list) = [i \in 1..n |-> list[i].param] BY <1>1 DEF Named
<1>4. [i \in 1..n |-> list[i].param] \in Seq(Params) BY <1>1, <1>2, IsASeq
<1> QED BY <1>1, <1>3, <1>4, LenProperties

\* What an operation is to have is a list without repetition.
LEMMA WantedOnce ==
  ASSUME TypeOK, NEW path \in Paths, NEW m \in DOMAIN doc[path].ops
  PROVE  /\ doc[path].ops[m] \in Seq(Params) /\ doc[path].level \in Seq(Params)
         /\ Wanted(path, m) \in Seq(Params)
         /\ Injective(Wanted(path, m))
         /\ m \in Methods
<1>1. /\ doc[path].level \in Seq(Params)
      /\ doc[path].ops[m] \in Seq(Params)
      /\ Injective(doc[path].ops[m] \o doc[path].level)
      /\ DOMAIN doc[path].ops \subseteq Methods
  BY DocumentsAssumption DEF TypeOK
<1> QED BY <1>1, ConcatProperties DEF Wanted

\* The slots of an operation stand for the first parameters of those it is to
\* have, each for one.
LEMMA SlotsTell ==
  ASSUME TypeOK, ParamsKept, NEW path \in Paths, NEW m \in DOMAIN ops[path]
  PROVE  /\ m \in DOMAIN doc[path].ops /\ m \in Methods
         /\ ops[path][m] \in Seq(SlotType)
         /\ Len(ops[path][m]) \in Nat /\ DOMAIN ops[path][m] = 1..Len(ops[path][m])
         /\ level[path] \in Seq(Params)
         /\ Len(Wanted(path, m)) = Len(ops[path][m]) + Len(level[path])
         /\ DOMAIN Wanted(path, m) = 1..Len(Wanted(path, m))
         /\ \A i \in DOMAIN ops[path][m] :
              ops[path][m][i].param = Wanted(path, m)[i]
         /\ \A i \in DOMAIN ops[path][m] : ops[path][m][i].param \in Params
         /\ level[path] # <<>> =>
              /\ Len(level[path]) >= 1
              /\ Wanted(path, m)[Len(ops[path][m]) + 1] = Head(level[path])
         /\ \A i, j \in DOMAIN ops[path][m] :
              ops[path][m][i].param = ops[path][m][j].param => i = j
<1> DEFINE list == ops[path][m]
           want == Wanted(path, m)
<1>1. m \in DOMAIN doc[path].ops /\ list \in Seq(SlotType) /\ level[path] \in Seq(Params)
  BY DEF TypeOK, OpsTypeOK
<1>2. m \in Methods /\ want \in Seq(Params) /\ Injective(want) BY <1>1, WantedOnce
<1>3. Len(list) \in Nat /\ DOMAIN list = 1..Len(list) BY <1>1, LenProperties
<1>4. Named(list) \o level[path] = want BY DEF ParamsKept
<1>5. /\ Named(list) \in Seq(Params) /\ Len(Named(list)) = Len(list)
      /\ \A i \in 1..Len(list) : Named(list)[i] = list[i].param
  BY <1>1, NamedIs
<1>6. Len(level[path]) \in Nat BY <1>1, LenProperties
<1> HIDE DEF list, want
<1>7. Len(want) = Len(list) + Len(level[path]) /\ DOMAIN want = 1..Len(want)
  <2>1. Len(Named(list) \o level[path]) = Len(Named(list)) + Len(level[path])
    BY <1>1, <1>5, ConcatProperties
  <2>2. DOMAIN want = 1..Len(want) BY <1>2, LenProperties
  <2> QED BY <1>4, <1>5, <2>1, <2>2
<1>8. \A i \in 1..Len(list) + Len(level[path]) :
        want[i] = IF i <= Len(list) THEN Named(list)[i] ELSE level[path][i - Len(list)]
  BY <1>1, <1>4, <1>5, ConcatProperties
<1>9. \A i \in DOMAIN list : list[i].param = want[i]
  BY <1>3, <1>5, <1>6, <1>8
<1>10. level[path] # <<>> =>
         Len(level[path]) >= 1 /\ want[Len(list) + 1] = Head(level[path])
  <2> SUFFICES ASSUME level[path] # <<>>
               PROVE  Len(level[path]) >= 1 /\ want[Len(list) + 1] = Head(level[path])
    OBVIOUS
  <2>1. Len(level[path]) >= 1 BY <1>1, <1>6, EmptySeq
  <2>2. Head(level[path]) = level[path][1] BY <1>1, HeadTailProperties
  <2>3. want[Len(list) + 1] = level[path][1] BY <1>3, <1>6, <1>8, <2>1
  <2> QED BY <2>1, <2>2, <2>3
<1>11. \A i, j \in DOMAIN list : list[i].param = list[j].param => i = j
  BY <1>2, <1>3, <1>6, <1>7, <1>9 DEF Injective
<1>12. \A i \in DOMAIN list : list[i].param \in Params
  <2>1. \A i \in 1..Len(list) : list[i] \in SlotType BY <1>1, ElementOfSeq
  <2> QED BY <1>3, <2>1 DEF SlotType
<1> QED BY <1>1, <1>2, <1>3, <1>7, <1>9, <1>10, <1>11, <1>12 DEF list, want

\* No parameter has two slots of one operation.
LEMMA OneSlotEach ==
  ASSUME TypeOK, ParamsKept, NEW path \in Paths, NEW m \in DOMAIN ops[path],
         NEW i \in DOMAIN ops[path][m], NEW j \in DOMAIN ops[path][m],
         ops[path][m][i].param = ops[path][m][j].param
  PROVE  i = j
BY SlotsTell

\* The parameter of a slot is the one wanted there.
LEMMA SlotWanted ==
  ASSUME TypeOK, ParamsKept, NEW path \in Paths, NEW m \in DOMAIN ops[path],
         NEW i \in DOMAIN ops[path][m]
  PROVE  /\ ops[path][m][i].param = Wanted(path, m)[i]
         /\ i \in DOMAIN Wanted(path, m)
<1>1. ops[path][m][i].param = Wanted(path, m)[i] BY SlotsTell
<1>2. /\ Len(ops[path][m]) \in Nat /\ DOMAIN ops[path][m] = 1..Len(ops[path][m])
      /\ Len(Wanted(path, m)) = Len(ops[path][m]) + Len(level[path])
      /\ DOMAIN Wanted(path, m) = 1..Len(Wanted(path, m))
      /\ level[path] \in Seq(Params)
  BY SlotsTell
<1>3. Len(level[path]) \in Nat BY <1>2, LenProperties
<1>4. i \in DOMAIN Wanted(path, m)
  <2> DEFINE a == Len(ops[path][m])
             b == Len(level[path])
             c == Len(Wanted(path, m))
  <2>1. a \in Nat /\ b \in Nat /\ i \in 1..a /\ c = a + b /\ DOMAIN Wanted(path, m) = 1..c
    BY <1>2, <1>3
  <2> HIDE DEF a, b, c
  <2>2. i \in 1..c BY <2>1
  <2> QED BY <2>1, <2>2
<1> QED BY <1>1, <1>4

\* It is one of the path's parameters.
LEMMA SlotOfPath ==
  ASSUME TypeOK, ParamsKept, NEW path \in Paths, NEW m \in DOMAIN ops[path],
         NEW i \in DOMAIN ops[path][m]
  PROVE  ops[path][m][i].param \in Pointers(doc[path])
<1> DEFINE own == doc[path].ops[m]
           lev == doc[path].level
           want == Wanted(path, m)
<1>1. m \in DOMAIN doc[path].ops BY SlotsTell
<1>2. own \in Seq(Params) /\ lev \in Seq(Params) /\ want = own \o lev /\ want \in Seq(Params)
  BY <1>1, WantedOnce DEF Wanted
<1>3. ops[path][m][i].param = want[i] /\ i \in DOMAIN want BY SlotWanted
<1>4. /\ Len(own) \in Nat /\ DOMAIN own = 1..Len(own)
      /\ Len(lev) \in Nat /\ DOMAIN lev = 1..Len(lev)
      /\ DOMAIN want = 1..Len(want)
  BY <1>2, LenProperties
<1> HIDE DEF own, lev, want
<1>5. /\ Len(want) = Len(own) + Len(lev)
      /\ \A k \in 1..Len(own) + Len(lev) :
           want[k] = IF k <= Len(own) THEN own[k] ELSE lev[k - Len(own)]
  BY <1>2, ConcatProperties
<1>6. i \in 1..Len(own) + Len(lev) BY <1>3, <1>4, <1>5
<1>7. CASE i <= Len(own)
  <2>1. i \in DOMAIN own /\ want[i] = own[i] BY <1>4, <1>5, <1>6, <1>7
  <2> QED BY <1>1, <1>3, <2>1 DEF Pointers, own
<1>8. CASE ~(i <= Len(own))
  <2>1. i - Len(own) \in DOMAIN lev /\ want[i] = lev[i - Len(own)]
    BY <1>4, <1>5, <1>6, <1>8
  <2> QED BY <1>3, <2>1 DEF Pointers, lev
<1> QED BY <1>7, <1>8

\* A parameter is under one path only.
LEMMA OnePath ==
  ASSUME TypeOK, ParamsKept,
         NEW path \in Paths, NEW m \in DOMAIN ops[path], NEW i \in DOMAIN ops[path][m],
         NEW other \in Paths, NEW n \in DOMAIN ops[other], NEW j \in DOMAIN ops[other][n],
         ops[path][m][i].param = ops[other][n][j].param
  PROVE  path = other
<1>1. /\ ops[path][m][i].param \in Pointers(doc[path])
      /\ ops[other][n][j].param \in Pointers(doc[other])
  BY SlotOfPath
<1>2. path # other => Pointers(doc[path]) \cap Pointers(doc[other]) = {}
  BY DocumentsAssumption DEF TypeOK
<1> QED BY <1>1, <1>2

\* Moving the first of t to the end of s.
LEMMA MoveHead ==
  ASSUME NEW S, NEW s \in Seq(S), NEW t \in Seq(S), t # <<>>
  PROVE  Append(s, Head(t)) \o Tail(t) = s \o t
<1>1. /\ Head(t) \in S /\ Tail(t) \in Seq(S) /\ Len(Tail(t)) = Len(t) - 1
      /\ \A i \in 1..Len(Tail(t)) : Tail(t)[i] = t[i + 1]
      /\ Head(t) = t[1]
  BY HeadTailProperties
<1>2. /\ Append(s, Head(t)) \in Seq(S) /\ Len(Append(s, Head(t))) = Len(s) + 1
      /\ \A i \in 1..Len(s) : Append(s, Head(t))[i] = s[i]
      /\ Append(s, Head(t))[Len(s) + 1] = Head(t)
  BY <1>1, AppendProperties
<1>3. Len(s) \in Nat /\ Len(t) \in Nat \ {0} BY LenProperties, EmptySeq
<1> DEFINE a == Append(s, Head(t))
           b == Tail(t)
           h == Head(t)
<1>4. /\ a \o b \in Seq(S) /\ Len(a \o b) = Len(a) + Len(b)
      /\ \A i \in 1..Len(a) + Len(b) : (a \o b)[i] = IF i <= Len(a) THEN a[i] ELSE b[i - Len(a)]
  BY <1>1, <1>2, ConcatProperties
<1>5. /\ s \o t \in Seq(S) /\ Len(s \o t) = Len(s) + Len(t)
      /\ \A i \in 1..Len(s) + Len(t) : (s \o t)[i] = IF i <= Len(s) THEN s[i] ELSE t[i - Len(s)]
  BY ConcatProperties
<1>6. Len(a) = Len(s) + 1 /\ Len(b) = Len(t) - 1 /\ Len(a) + Len(b) = Len(s) + Len(t)
  BY <1>1, <1>2, <1>3
<1>7. ASSUME NEW i \in 1..Len(a \o b) PROVE (a \o b)[i] = (s \o t)[i]
  <2>1. i \in Nat /\ i >= 1 /\ i <= Len(s) + Len(t) BY <1>3, <1>4, <1>6, <1>7
  <2>2. CASE i <= Len(s)
    <3>1. (s \o t)[i] = s[i] BY <1>3, <1>5, <2>1, <2>2
    <3>2. (a \o b)[i] = a[i] BY <1>3, <1>4, <1>6, <2>1, <2>2
    <3> QED BY <1>2, <1>3, <2>1, <2>2, <3>1, <3>2
  <2>3. CASE i = Len(s) + 1
    <3>1. (s \o t)[i] = t[1] BY <1>3, <1>5, <2>1, <2>3
    <3>2. (a \o b)[i] = a[Len(s) + 1] BY <1>3, <1>4, <1>6, <2>1, <2>3
    <3> QED BY <1>1, <1>2, <3>1, <3>2
  <2>4. CASE i > Len(s) + 1
    <3>1. (s \o t)[i] = t[i - Len(s)] BY <1>3, <1>5, <2>1, <2>4
    <3>2. (a \o b)[i] = b[i - Len(a)] BY <1>3, <1>4, <1>6, <2>1, <2>4
    <3>3. i - Len(a) \in 1..Len(b) /\ i - Len(a) + 1 = i - Len(s)
      BY <1>3, <1>6, <2>1, <2>4
    <3>4. b[i - Len(a)] = t[i - Len(a) + 1] BY <1>1, <3>3
    <3> QED BY <3>1, <3>2, <3>3, <3>4
  <2> QED BY <1>3, <2>1, <2>2, <2>3, <2>4
<1> HIDE DEF a, b
<1>8. a \o b = s \o t BY <1>4, <1>5, <1>6, <1>7, SeqEqual
<1> QED BY <1>8 DEF a, b

-----------------------------------------------------------------------------
(* Where the second loop is.                                                 *)

\* The loop knows every method there is, and meets each once.
LEMMA Ranks ==
  /\ \A m \in Methods : WalkRank(m) \in 1..7 /\ WalkOrder[WalkRank(m)] = m
  /\ \A k \in 1..7 : WalkRank(WalkOrder[k]) = k
<1>1. \A j, k \in 1..7 : WalkOrder[j] = WalkOrder[k] => j = k BY DEF WalkOrder
<1>2. ASSUME NEW m \in Methods PROVE \E k \in 1..7 : WalkOrder[k] = m
  <2>1. m \in {"get", "put", "post", "delete", "patch", "options", "head"}
    BY MethodsAssumption
  <2>2. /\ WalkOrder[1] = "get" /\ WalkOrder[2] = "put" /\ WalkOrder[3] = "post"
        /\ WalkOrder[4] = "delete" /\ WalkOrder[5] = "patch"
        /\ WalkOrder[6] = "options" /\ WalkOrder[7] = "head"
    BY DEF WalkOrder
  <2>3. /\ 1 \in 1..7 /\ 2 \in 1..7 /\ 3 \in 1..7 /\ 4 \in 1..7
        /\ 5 \in 1..7 /\ 6 \in 1..7 /\ 7 \in 1..7
    OBVIOUS
  <2> QED BY <2>1, <2>2, <2>3, Zenon
<1>3. ASSUME NEW m \in Methods PROVE WalkRank(m) \in 1..7 /\ WalkOrder[WalkRank(m)] = m
  BY <1>2, <1>3, Zenon DEF WalkRank
<1>4. ASSUME NEW k \in 1..7 PROVE WalkRank(WalkOrder[k]) = k
  <2> DEFINE r == CHOOSE j \in 1..7 : WalkOrder[j] = WalkOrder[k]
  <2>1. r \in 1..7 /\ WalkOrder[r] = WalkOrder[k] BY <1>4, Zenon
  <2>2. r = k BY <1>1, <1>4, <2>1, Zenon
  <2> QED BY <2>2 DEF WalkRank
<1> QED BY <1>3, <1>4

\* Before the second loop no slot is behind it, ...
LEMMA NothingBehind ==
  ASSUME CursorOK, phase = "promote", NEW path \in Paths, NEW m, NEW i
  PROVE  ~Behind(path, m, i)
BY DEF CursorOK, Behind

\* ... so that no slot is an alias yet.
LEMMA NoAliases ==
  ASSUME CursorOK, AliasesFollow, phase = "promote",
         NEW path \in Paths, NEW m \in DOMAIN ops[path], NEW i \in DOMAIN ops[path][m]
  PROVE  ops[path][m][i].alias = NoId
BY NothingBehind DEF AliasesFollow

\* After it every slot is.
LEMMA AllBehind ==
  ASSUME CursorOK, phase = "done", NEW path \in Paths, NEW m, NEW i
  PROVE  Behind(path, m, i)
BY NoIdAssumption DEF CursorOK, Behind

-----------------------------------------------------------------------------
(* promotePathParams.                                                        *)

\* A path-level parameter is none of the operation's.
LEMMA HeadIsNew ==
  ASSUME TypeOK, ParamsKept, NEW path \in Paths, NEW m \in DOMAIN ops[path],
         level[path] # <<>>
  PROVE  ~HasParam(ops[path][m], Head(level[path]))
<1> SUFFICES ASSUME NEW i \in DOMAIN ops[path][m], ops[path][m][i] = Slot(Head(level[path]))
             PROVE  FALSE
  BY DEF HasParam
<1> DEFINE n == Len(ops[path][m])
           want == Wanted(path, m)
<1>1. ops[path][m][i].param = Head(level[path]) BY DEF Slot
<1>2. want[i] = ops[path][m][i].param BY SlotWanted
<1>3. want[n + 1] = Head(level[path]) BY SlotsTell
<1>4. /\ n \in Nat /\ i \in 1..n
      /\ Len(want) = n + Len(level[path]) /\ DOMAIN want = 1..Len(want)
      /\ level[path] \in Seq(Params)
  BY SlotsTell
<1>5. Len(level[path]) >= 1 BY SlotsTell
<1>6. Len(level[path]) \in Nat BY <1>4, LenProperties
<1>7. m \in DOMAIN doc[path].ops BY SlotsTell
<1>8. Injective(want) BY <1>7, WantedOnce
<1> HIDE DEF want, n
<1>9. i \in DOMAIN want /\ n + 1 \in DOMAIN want BY <1>4, <1>5, <1>6
<1>10. i # n + 1 BY <1>4
<1> QED BY <1>1, <1>2, <1>3, <1>8, <1>9, <1>10 DEF Injective

\* So it moves from the one list to the end of the other.
LEMMA PromoteParams ==
  ASSUME NEW path \in Paths, TypeOK, ParamsKept, Promote(path)
  PROVE  ParamsKept'
<1> DEFINE h == Head(level[path])
<1>1. /\ level[path] # <<>> /\ phase = "promote" /\ phase' = phase /\ doc' = doc
      /\ level' = [level EXCEPT ![path] = Tail(level[path])]
      /\ ops' = [ops EXCEPT ![path] = [m \in DOMAIN ops[path] |-> With(ops[path][m], h)]]
  BY DEF Promote
<1>2. /\ level[path] \in Seq(Params) /\ DOMAIN level = Paths /\ DOMAIN ops = Paths
  BY DEF TypeOK, OpsTypeOK
<1>3. h \in Params BY <1>1, <1>2, HeadTailProperties
<1>4. ASSUME NEW q \in Paths, NEW m \in DOMAIN ops'[q]
      PROVE  Named(ops'[q][m]) \o level'[q] = Wanted(q, m)'
  <2>1. Wanted(q, m)' = Wanted(q, m) BY <1>1 DEF Wanted
  <2>2. CASE q # path
    <3>1. ops'[q] = ops[q] /\ level'[q] = level[q] BY <1>1, <1>2, <1>4, <2>2
    <3> QED BY <1>4, <2>1, <3>1 DEF ParamsKept
  <2>3. CASE q = path
    <3>1. level'[q] = Tail(level[path]) BY <1>1, <1>2, <2>3
    <3>2. m \in DOMAIN ops[path] /\ ops'[q][m] = With(ops[path][m], h)
      BY <1>1, <1>2, <1>4, <2>3
    <3> DEFINE list == ops[path][m]
    <3>3. ~HasParam(list, h) BY <1>1, <3>2, HeadIsNew
    <3>4. ops'[q][m] = Append(list, Slot(h)) BY <3>2, <3>3 DEF With
    <3>5. list \in Seq(SlotType) BY <3>2, SlotsTell
    <3>6. Slot(h) \in SlotType BY <1>3 DEF Slot, SlotType
    <3>7. Named(list) \o level[path] = Wanted(path, m) BY <3>2 DEF ParamsKept
    <3> HIDE DEF list, h
    <3>8. Named(Append(list, Slot(h))) = Append(Named(list), h)
      <4>1. /\ Append(list, Slot(h)) \in Seq(SlotType)
            /\ Len(Append(list, Slot(h))) = Len(list) + 1
            /\ \A i \in 1..Len(list) : Append(list, Slot(h))[i] = list[i]
            /\ Append(list, Slot(h))[Len(list) + 1] = Slot(h)
        BY <3>5, <3>6, AppendProperties
      <4> DEFINE longer == Append(list, Slot(h))
      <4>2. /\ Named(longer) \in Seq(Params) /\ Len(Named(longer)) = Len(list) + 1
            /\ \A i \in 1..Len(longer) : Named(longer)[i] = longer[i].param
        BY <4>1, NamedIs
      <4>3. /\ Named(list) \in Seq(Params) /\ Len(Named(list)) = Len(list)
            /\ \A i \in 1..Len(list) : Named(list)[i] = list[i].param
        BY <3>5, NamedIs
      <4> DEFINE names == Append(Named(list), h)
      <4>4. /\ names \in Seq(Params) /\ Len(names) = Len(list) + 1
            /\ \A i \in 1..Len(list) : names[i] = Named(list)[i]
            /\ names[Len(list) + 1] = h
        BY <1>3, <4>3, AppendProperties
      <4>5. Len(list) \in Nat BY <3>5, LenProperties
      <4>6. Slot(h).param = h BY DEF Slot
      <4>7. \A i \in 1..Len(list) + 1 : i \in 1..Len(list) \/ i = Len(list) + 1 BY <4>5
      <4>8. Len(longer) = Len(list) + 1
            /\ (\A i \in 1..Len(list) : longer[i] = list[i])
            /\ longer[Len(list) + 1] = Slot(h)
        BY <4>1
      <4> HIDE DEF longer, names
      <4>9. ASSUME NEW i \in 1..Len(list) + 1 PROVE Named(longer)[i] = names[i]
        <5>1. CASE i \in 1..Len(list)
          <6>1. i \in 1..Len(longer) BY <4>8, <4>9
          <6>2. Named(longer)[i] = longer[i].param BY <4>2, <6>1
          <6> QED BY <4>3, <4>4, <4>8, <5>1, <6>2
        <5>2. CASE i = Len(list) + 1
          <6>1. i \in 1..Len(longer) BY <4>8, <4>9
          <6>2. Named(longer)[i] = longer[i].param BY <4>2, <6>1
          <6> QED BY <4>4, <4>6, <4>8, <5>2, <6>2
        <5> QED BY <4>7, <4>9, <5>1, <5>2
      <4>10. Named(longer) = names BY <4>2, <4>4, <4>9, SeqEqual
      <4> QED BY <4>10 DEF longer, names
    <3>9. Append(Named(list), h) \o Tail(level[path]) = Named(list) \o level[path]
      <4>1. Named(list) \in Seq(Params) BY <3>5, NamedIs
      <4> QED BY <1>1, <1>2, <4>1, MoveHead DEF h
    <3> QED BY <2>1, <2>3, <3>1, <3>4, <3>7, <3>8, <3>9
  <2> QED BY <2>2, <2>3
<1>5. phase' = "promote" BY <1>1
<1> QED BY <1>4, <1>5 DEF ParamsKept

-----------------------------------------------------------------------------
(* One step of the second loop.                                              *)

\* The slot the loop is at.
Current(path, m, i) == path = at.path /\ m = Here /\ i = at.slot

LEMMA CurrentSlot ==
  ASSUME TypeOK, CursorOK, InOperation
  PROVE  /\ at.path \in Paths /\ at.path \notin unvisited
         /\ Here \in DOMAIN ops[at.path] /\ Here \in Methods
         /\ ops[at.path][Here] \in Seq(SlotType)
         /\ at.slot \in DOMAIN ops[at.path][Here] /\ at.slot \in Nat
         /\ ops[at.path][Here][at.slot] \in SlotType
         /\ at.method \in 1..7 /\ WalkRank(Here) = at.method
<1>1. /\ at.path \in Paths /\ at.slot \in Nat \ {0} /\ at.method \in 1..7
      /\ Here \in DOMAIN ops[at.path] /\ at.slot <= Len(ops[at.path][Here])
      /\ at.path \notin unvisited
  BY DEF TypeOK, CursorOK, InOperation
<1>2. ops[at.path][Here] \in Seq(SlotType) /\ Here \in DOMAIN doc[at.path].ops
  BY <1>1 DEF TypeOK, OpsTypeOK
<1>3. Here \in Methods BY <1>1, <1>2, WantedOnce
<1>4. /\ Len(ops[at.path][Here]) \in Nat
      /\ DOMAIN ops[at.path][Here] = 1..Len(ops[at.path][Here])
  BY <1>2, LenProperties
<1>5. at.slot \in 1..Len(ops[at.path][Here]) BY <1>1, <1>4
<1>6. ops[at.path][Here][at.slot] \in SlotType BY <1>2, <1>5, ElementOfSeq
<1>7. WalkRank(Here) = at.method BY <1>1, Ranks DEF Here
<1> QED BY <1>1, <1>2, <1>3, <1>4, <1>5, <1>6, <1>7

\* It is not behind the loop, and once the loop has moved on it is.
LEMMA Advance ==
  ASSUME TypeOK, CursorOK, InOperation, NextSlot, unvisited' = unvisited,
         NEW path \in Paths, NEW m \in Methods, NEW i \in Nat
  PROVE  /\ Behind(path, m, i)' <=> Behind(path, m, i) \/ Current(path, m, i)
         /\ Current(path, m, i) => ~Behind(path, m, i)
<1> DEFINE r == WalkRank(m)
<1>1. /\ at'.path = at.path /\ at'.method = at.method /\ at'.slot = at.slot + 1
  BY DEF NextSlot
<1>2. /\ at.path \in Paths /\ at.path \notin unvisited /\ at.slot \in Nat
      /\ at.method \in 1..7 /\ WalkRank(Here) = at.method
  BY CurrentSlot
<1>3. r \in 1..7 /\ WalkOrder[r] = m BY Ranks
<1>4. r = at.method <=> m = Here BY <1>2, <1>3 DEF Here
<1>5. Behind(path, m, i) <=>
        path \notin unvisited /\ (at.path = path => r < at.method \/ (r = at.method /\ i < at.slot))
  BY DEF Behind
<1>6. Behind(path, m, i)' <=>
        path \notin unvisited
        /\ (at.path = path => r < at.method \/ (r = at.method /\ i < at.slot + 1))
  BY <1>1 DEF Behind
<1>7. Current(path, m, i) <=> path = at.path /\ r = at.method /\ i = at.slot
  BY <1>4 DEF Current
<1> DEFINE s == at.slot
           k == at.method
<1>8. s \in Nat /\ k \in 1..7 BY <1>2
<1>9. /\ i < s + 1 <=> i < s \/ i = s
      /\ ~(s < s) /\ ~(k < k)
  BY <1>8
<1> HIDE DEF r, s, k
<1>10. Behind(path, m, i)' <=>
         path \notin unvisited /\ (at.path = path => r < k \/ (r = k /\ i < s + 1))
  BY <1>6 DEF s, k
<1>11. Behind(path, m, i) <=>
         path \notin unvisited /\ (at.path = path => r < k \/ (r = k /\ i < s))
  BY <1>5 DEF s, k
<1>12. Current(path, m, i) <=> path = at.path /\ r = k /\ i = s
  BY <1>7 DEF s, k
<1> QED BY <1>2, <1>9, <1>10, <1>11, <1>12

\* A slot of an operation is a place the loop comes to.
LEMMA SlotPlace ==
  ASSUME TypeOK, NEW path \in Paths, NEW m \in DOMAIN ops[path], NEW i \in DOMAIN ops[path][m]
  PROVE  m \in Methods /\ i \in Nat /\ ops[path][m][i] \in SlotType
<1>1. ops[path][m] \in Seq(SlotType) /\ m \in DOMAIN doc[path].ops
  BY DEF TypeOK, OpsTypeOK
<1>2. m \in Methods BY <1>1, WantedOnce
<1>3. Len(ops[path][m]) \in Nat /\ DOMAIN ops[path][m] = 1..Len(ops[path][m])
  BY <1>1, LenProperties
<1>4. i \in 1..Len(ops[path][m]) /\ i \in Nat BY <1>3
<1>5. ops[path][m][i] \in SlotType BY <1>1, <1>4, ElementOfSeq
<1> QED BY <1>2, <1>4, <1>5

\* Between two operations and at the beginning of a path, nothing falls behind.
LEMMA StillBehind ==
  ASSUME TypeOK, CursorOK, LeaveOperation \/ \E q \in Paths : EnterPath(q),
         NEW path \in Paths, NEW m \in DOMAIN ops[path], NEW i \in DOMAIN ops[path][m]
  PROVE  Behind(path, m, i)' <=> Behind(path, m, i)
<1> DEFINE r == WalkRank(m)
<1>1. m \in Methods /\ i \in Nat BY SlotPlace
<1>2. r \in 1..7 /\ WalkOrder[r] = m BY <1>1, Ranks
<1>3. Len(ops[path][m]) \in Nat /\ i \in 1..Len(ops[path][m])
  <2>1. ops[path][m] \in Seq(SlotType) BY DEF TypeOK, OpsTypeOK
  <2> QED BY <2>1, LenProperties
<1> HIDE DEF r
<1>4. ASSUME NEW q \in Paths, EnterPath(q) PROVE Behind(path, m, i)' <=> Behind(path, m, i)
  <2>1. /\ at.path = NoId /\ q \in unvisited /\ unvisited' = unvisited \ {q}
        /\ at'.path = q /\ at'.method = 1 /\ at'.slot = 1
    BY <1>4 DEF EnterPath
  <2>2. ~(r < 1) /\ ~(i < 1) BY <1>2, <1>3
  <2>3. path # NoId BY NoIdAssumption
  <2> QED BY <2>1, <2>2, <2>3 DEF Behind, r
<1>5. CASE LeaveOperation
  <2>1. /\ at.path # NoId /\ ~InOperation /\ unvisited' = unvisited
        /\ at' = IF at.method = Len(WalkOrder) THEN Idle
                 ELSE [path |-> at.path, method |-> at.method + 1, slot |-> 1]
    BY <1>5 DEF LeaveOperation
  <2>2. Len(WalkOrder) = 7 BY DEF WalkOrder
  <2>3. at.method \in 1..7 /\ at.slot \in Nat \ {0} /\ at.path \notin unvisited
    BY DEF TypeOK, CursorOK
  <2>4. CASE path # at.path
    <3>1. at'.path # path BY <2>1, <2>4, NoIdAssumption DEF Idle
    <3> QED BY <2>1, <2>4, <3>1 DEF Behind
  <2>5. CASE path = at.path
    <3>1. r = at.method => i < at.slot
      <4>1. SUFFICES ASSUME r = at.method PROVE i < at.slot OBVIOUS
      <4>2. Here = m BY <1>2, <4>1 DEF Here
      <4>3. ~(at.slot <= Len(ops[path][m])) BY <2>1, <2>5, <4>2 DEF InOperation
      <4> QED BY <1>3, <2>3, <4>3
    <3>2. Behind(path, m, i) <=> r <= at.method
      <4>1. Behind(path, m, i) <=> r < at.method \/ (r = at.method /\ i < at.slot)
        BY <2>3, <2>5 DEF Behind, r
      <4> QED BY <1>2, <2>3, <3>1, <4>1
    <3>3. CASE at.method = 7
      <4>1. at'.path = NoId BY <2>1, <2>2, <3>3 DEF Idle
      <4>2. Behind(path, m, i)' BY <2>1, <2>3, <2>5, <4>1, NoIdAssumption DEF Behind
      <4> QED BY <1>2, <3>2, <3>3, <4>2
    <3>4. CASE at.method # 7
      <4>1. at'.path = path /\ at'.method = at.method + 1 /\ at'.slot = 1
        BY <2>1, <2>2, <2>5, <3>4
      <4>2. Behind(path, m, i)' <=> r < at.method + 1 \/ (r = at.method + 1 /\ i < 1)
        BY <2>1, <2>3, <2>5, <4>1 DEF Behind, r
      <4>3. ~(i < 1) BY <1>3
      <4> QED BY <1>2, <2>3, <3>2, <4>2, <4>3
    <3> QED BY <3>3, <3>4
  <2> QED BY <2>4, <2>5
<1> QED BY <1>4, <1>5

-----------------------------------------------------------------------------
(* Who bears an anchor, and who follows.                                     *)

\* The lists are as long as they were.
SameShape ==
  \A path \in Paths :
    /\ DOMAIN ops'[path] = DOMAIN ops[path]
    /\ \A m \in DOMAIN ops[path] : DOMAIN ops'[path][m] = DOMAIN ops[path][m]

SameBearers ==
  \A path \in Paths : \A m \in DOMAIN ops[path] : \A i \in DOMAIN ops[path][m] :
    \A p \in Params : Bears(path, m, i, p)' <=> Bears(path, m, i, p)

\* A step that changes no bearer changes nothing that is said of them.
LEMMA BearersKept ==
  ASSUME AnchorsBorne, OneBearer, SameShape, SameBearers, anchor' = anchor
  PROVE  AnchorsBorne' /\ OneBearer'
<1>1. AnchorsBorne'
  <2> SUFFICES ASSUME NEW p \in Params
               PROVE  anchor'[p] # NoId <=>
                        \E path \in Paths : \E m \in DOMAIN ops'[path] :
                          \E i \in DOMAIN ops'[path][m] : Bears(path, m, i, p)'
    BY DEF AnchorsBorne
  <2>1. anchor[p] # NoId <=>
          \E path \in Paths : \E m \in DOMAIN ops[path] : \E i \in DOMAIN ops[path][m] :
            Bears(path, m, i, p)
    BY DEF AnchorsBorne
  <2> QED BY <2>1 DEF SameShape, SameBearers
<1>2. OneBearer'
  <2> SUFFICES ASSUME NEW path \in Paths, NEW m \in DOMAIN ops'[path],
                      NEW n \in DOMAIN ops'[path],
                      NEW i \in DOMAIN ops'[path][m], NEW j \in DOMAIN ops'[path][n],
                      NEW p \in Params,
                      Bears(path, m, i, p)', Bears(path, n, j, p)'
               PROVE  m = n /\ i = j
    BY DEF OneBearer
  <2>1. /\ m \in DOMAIN ops[path] /\ n \in DOMAIN ops[path]
        /\ i \in DOMAIN ops[path][m] /\ j \in DOMAIN ops[path][n]
    BY DEF SameShape
  <2>2. Bears(path, m, i, p) /\ Bears(path, n, j, p) BY <2>1 DEF SameBearers
  <2> QED BY <2>1, <2>2 DEF OneBearer
<1> QED BY <1>1, <1>2

\* Nor does it leave an alias without its anchor.
LEMMA FollowersKept ==
  ASSUME TypeOK, AliasesFollow, SameBearers, ops' = ops,
         \A path \in Paths : \A m \in DOMAIN ops[path] : \A i \in DOMAIN ops[path][m] :
           Behind(path, m, i) => Behind(path, m, i)'
  PROVE  AliasesFollow'
<1> SUFFICES ASSUME NEW path \in Paths, NEW m \in DOMAIN ops[path],
                    NEW i \in DOMAIN ops[path][m], ops[path][m][i].alias # NoId
             PROVE  /\ Behind(path, m, i)'
                    /\ \E n \in DOMAIN ops[path] : \E j \in DOMAIN ops[path][n] :
                         /\ Bears(path, n, j, ops[path][m][i].param)'
                         /\ WalkRank(n) < WalkRank(m) \/ (n = m /\ j < i)
  BY DEF AliasesFollow
<1>1. PICK p \in Params : p = ops[path][m][i].param BY SlotPlace DEF SlotType
<1>2. Behind(path, m, i) BY DEF AliasesFollow
<1>3. PICK n \in DOMAIN ops[path] : \E j \in DOMAIN ops[path][n] :
        /\ Bears(path, n, j, p)
        /\ WalkRank(n) < WalkRank(m) \/ (n = m /\ j < i)
  BY <1>1 DEF AliasesFollow
<1>4. PICK j \in DOMAIN ops[path][n] :
        /\ Bears(path, n, j, p)
        /\ WalkRank(n) < WalkRank(m) \/ (n = m /\ j < i)
  BY <1>3
<1>5. Bears(path, n, j, p)' BY <1>3, <1>4 DEF SameBearers
<1> QED BY <1>1, <1>2, <1>3, <1>4, <1>5

\* What the four parts say together.
Sharing == ParamsKept /\ Counted /\ CursorOK /\ AnchorsBorne /\ OneBearer /\ AliasesFollow

LEMMA InitSharing == Init => Sharing
<1> SUFFICES ASSUME Init PROVE Sharing OBVIOUS
<1>0. TypeOK BY InitCore DEF Core
<1>1. /\ doc \in Documents /\ phase = "promote" /\ unvisited = Paths /\ at.path = NoId
      /\ level = [path \in Paths |-> doc[path].level]
      /\ ops = WalkedOps(doc)
      /\ anchor = [p \in Params |-> NoId]
  BY DEF Init, Idle
<1>2. CursorOK BY <1>1, NoIdAssumption DEF CursorOK
<1>3. Counted BY <1>1 DEF Counted
<1>4. ASSUME NEW path \in Paths, NEW m \in DOMAIN ops[path]
      PROVE  /\ Named(ops[path][m]) \o level[path] = Wanted(path, m)
             /\ \A i \in DOMAIN ops[path][m] : ops[path][m][i].alias = NoId
  <2> DEFINE own == doc[path].ops[m]
  <2>1. m \in DOMAIN doc[path].ops BY <1>1, <1>4 DEF WalkedOps
  <2>2. ops[path][m] = [i \in DOMAIN own |-> Slot(own[i])] BY <1>1, <1>4, <2>1 DEF WalkedOps
  <2>3. own \in Seq(Params) BY <1>0, <2>1, WantedOnce
  <2> HIDE DEF own
  <2>4. own = [i \in DOMAIN own |-> own[i]] BY <2>3
  <2>5. Named(ops[path][m]) = own BY <2>2, <2>4 DEF Named, Slot
  <2>6. level[path] = doc[path].level BY <1>1
  <2>7. \A i \in DOMAIN ops[path][m] : ops[path][m][i].alias = NoId BY <2>2 DEF Slot
  <2> QED BY <2>5, <2>6, <2>7 DEF Wanted, own
<1>5. ParamsKept BY <1>1, <1>4 DEF ParamsKept
<1>6. \A path \in Paths : \A m, i : ~Behind(path, m, i) BY <1>1 DEF Behind
<1>7. AnchorsBorne BY <1>1, <1>6 DEF AnchorsBorne, Bears
<1>8. OneBearer BY <1>6 DEF OneBearer, Bears
<1>9. AliasesFollow BY <1>4 DEF AliasesFollow
<1> QED BY <1>2, <1>3, <1>5, <1>7, <1>8, <1>9 DEF Sharing

\* While path-level parameters are pushed down, nothing is named yet.
LEMMA PromoteSharing ==
  ASSUME NEW path \in Paths, TypeOK, Sharing, Promote(path)
  PROVE  Sharing'
<1> USE DEF Sharing
<1>1. /\ phase = "promote" /\ phase' = "promote" /\ unvisited' = unvisited /\ at' = at
      /\ anchor' = anchor /\ count' = count /\ doc' = doc
  BY DEF Promote
<1>2. ParamsKept' BY PromoteParams
<1>3. Counted' BY <1>1 DEF Counted
<1>4. CursorOK' BY <1>1 DEF CursorOK
<1>5. \A q \in Paths : \A m, i : ~Behind(q, m, i) /\ ~Behind(q, m, i)'
  BY <1>1 DEF CursorOK, Behind
<1>6. \A p \in Params : anchor[p] = NoId BY <1>5 DEF AnchorsBorne, Bears
<1>7. \A q \in Paths : \A m, i : \A p \in Params : ~Bears(q, m, i, p)' BY <1>5 DEF Bears
<1>8. AnchorsBorne' BY <1>1, <1>6, <1>7 DEF AnchorsBorne
<1>9. OneBearer' BY <1>7 DEF OneBearer
<1>10. AliasesFollow'
  <2> SUFFICES ASSUME NEW q \in Paths, NEW m \in DOMAIN ops'[q], NEW i \in DOMAIN ops'[q][m]
               PROVE  ops'[q][m][i].alias = NoId
    BY DEF AliasesFollow
  <2>1. CASE q # path
    <3>1. ops'[q] = ops[q] BY <2>1 DEF Promote, TypeOK, OpsTypeOK
    <3> QED BY <1>1, <3>1, NoAliases
  <2>2. CASE q = path
    <3> DEFINE list == ops[path][m]
               h == Head(level[path])
    <3>1. m \in DOMAIN ops[path] /\ ops'[path][m] = With(list, h)
      BY <2>2 DEF Promote, TypeOK, OpsTypeOK
    <3>2. list \in Seq(SlotType) BY <3>1 DEF TypeOK, OpsTypeOK
    <3>3. h \in Params BY HeadTailProperties DEF Promote, TypeOK
    <3>4. \A k \in DOMAIN With(list, h) :
            With(list, h)[k].alias # NoId => k \in DOMAIN list /\ With(list, h)[k] = list[k]
      <4> HIDE DEF list, h
      <4> QED BY <3>2, <3>3, WithType
    <3>5. \A k \in DOMAIN list : list[k].alias = NoId BY <1>1, <3>1, NoAliases
    <3> HIDE DEF list, h
    <3> QED BY <2>2, <3>1, <3>4, <3>5
  <2> QED BY <2>1, <2>2
<1> QED BY <1>2, <1>3, <1>4, <1>8, <1>9, <1>10

\* What is counted are the operations a parameter is wanted in.
LEMMA CountSharing == ASSUME TypeOK, Sharing, CountPointers PROVE Sharing'
<1> USE DEF Sharing
<1>1. /\ phase = "promote" /\ phase' = "assign" /\ \A path \in Paths : level[path] = <<>>
      /\ count' = [p \in Params |-> Cardinality(Places(p))]
      /\ unvisited' = unvisited /\ at' = at /\ level' = level /\ ops' = ops
      /\ anchor' = anchor /\ doc' = doc
  BY DEF CountPointers
<1>2. ParamsKept' BY <1>1 DEF ParamsKept, Wanted
<1>3. CursorOK' BY <1>1 DEF CursorOK
<1>4. ASSUME NEW p \in Params PROVE Places(p) = Users(p)
  <2>1. ASSUME NEW path \in Paths, NEW m \in Methods
        PROVE  (m \in DOMAIN ops[path] /\ HasParam(ops[path][m], p)) <=>
               (m \in DOMAIN doc[path].ops /\
                  \E i \in DOMAIN Wanted(path, m) : Wanted(path, m)[i] = p)
    <3>1. DOMAIN ops[path] = DOMAIN doc[path].ops BY DEF TypeOK, OpsTypeOK
    <3>2. SUFFICES ASSUME m \in DOMAIN ops[path]
                   PROVE  HasParam(ops[path][m], p) <=>
                            \E i \in DOMAIN Wanted(path, m) : Wanted(path, m)[i] = p
      BY <3>1
    <3>3. DOMAIN Wanted(path, m) = DOMAIN ops[path][m]
      <4>1. /\ Len(Wanted(path, m)) = Len(ops[path][m]) + Len(level[path])
            /\ DOMAIN Wanted(path, m) = 1..Len(Wanted(path, m))
            /\ Len(ops[path][m]) \in Nat /\ DOMAIN ops[path][m] = 1..Len(ops[path][m])
        BY <3>2, SlotsTell
      <4>2. Len(level[path]) = 0 BY <1>1, EmptySeq
      <4> QED BY <4>1, <4>2
    <3>4. ASSUME NEW i \in DOMAIN ops[path][m]
          PROVE  ops[path][m][i] = Slot(p) <=> Wanted(path, m)[i] = p
      <4>1. ops[path][m][i].alias = NoId BY <1>1, <3>2, <3>4, NoAliases
      <4>2. ops[path][m][i].param = Wanted(path, m)[i] BY <3>2, <3>4, SlotWanted
      <4>3. ops[path][m][i] \in SlotType BY <3>2, <3>4, SlotPlace
      <4> QED BY <4>1, <4>2, <4>3 DEF Slot, SlotType
    <3> QED BY <3>3, <3>4 DEF HasParam
  <2> QED BY <2>1 DEF Places, Users
<1>5. Counted'
  <2>1. ASSUME NEW p \in Params PROVE Users(p)' = Users(p) BY <1>1 DEF Users, Wanted
  <2> QED BY <1>1, <1>4, <2>1 DEF Counted
<1>6. \A q \in Paths : \A m, i : ~Behind(q, m, i) /\ ~Behind(q, m, i)'
  BY <1>1 DEF CursorOK, Behind
<1>7. SameBearers BY <1>6 DEF SameBearers, Bears
<1>8. SameShape BY <1>1 DEF SameShape
<1>9. AnchorsBorne' /\ OneBearer' BY <1>1, <1>7, <1>8, BearersKept
<1>10. AliasesFollow' BY <1>1, <1>6, <1>7, FollowersKept
<1> QED BY <1>2, <1>3, <1>5, <1>9, <1>10

\* Steps that only move the loop.
LEMMA MoveSharing ==
  ASSUME TypeOK, Sharing,
         \/ LeaveOperation \/ SkipSlot \/ Finish \/ UNCHANGED vars
         \/ \E path \in Paths : EnterPath(path)
  PROVE  Sharing'
<1> USE DEF Sharing
<1>1. ops' = ops /\ anchor' = anchor /\ count' = count /\ doc' = doc /\ level' = level
  BY DEF LeaveOperation, SkipSlot, Finish, EnterPath, vars
<1>2. phase' = phase \/ (phase = "assign" /\ phase' = "done")
  BY DEF LeaveOperation, SkipSlot, Finish, EnterPath, vars
<1>3. ParamsKept' BY <1>1, <1>2 DEF ParamsKept, Wanted
<1>4. Counted'
  <2>1. ASSUME NEW p \in Params PROVE Users(p)' = Users(p) BY <1>1 DEF Users, Wanted
  <2> QED BY <1>1, <1>2, <2>1 DEF Counted
<1>5. SameShape BY <1>1 DEF SameShape
<1> SUFFICES CursorOK' /\ SameBearers
             /\ \A path \in Paths : \A m \in DOMAIN ops[path] : \A i \in DOMAIN ops[path][m] :
                  Behind(path, m, i) => Behind(path, m, i)'
  BY <1>1, <1>3, <1>4, <1>5, BearersKept, FollowersKept
<1>6. CASE LeaveOperation \/ \E path \in Paths : EnterPath(path)
  <2>1. \A path \in Paths : \A m \in DOMAIN ops[path] : \A i \in DOMAIN ops[path][m] :
          Behind(path, m, i)' <=> Behind(path, m, i)
    BY <1>6, StillBehind
  <2>2. SameBearers BY <1>1, <2>1 DEF SameBearers, Bears
  <2>3. ASSUME NEW path \in Paths, EnterPath(path) PROVE CursorOK'
    BY <2>3, NoIdAssumption DEF CursorOK, EnterPath
  <2>4. ASSUME LeaveOperation PROVE CursorOK'
    <3>1. /\ at.path # NoId /\ unvisited' = unvisited /\ phase' = phase
          /\ at'.path = NoId \/ at'.path = at.path
      BY <2>4 DEF LeaveOperation, Idle
    <3>2. NoId \notin unvisited BY NoIdAssumption DEF TypeOK
    <3>3. phase # "promote" /\ phase # "done" /\ at.path \notin unvisited
      BY <3>1 DEF CursorOK
    <3>4. at'.path \notin unvisited' BY <3>1, <3>2, <3>3
    <3> QED BY <3>1, <3>3, <3>4 DEF CursorOK
  <2> QED BY <1>6, <2>1, <2>2, <2>3, <2>4
<1>7. CASE SkipSlot
  <2>1. /\ InOperation /\ NextSlot /\ unvisited' = unvisited /\ phase' = phase
        /\ Skip(ops[at.path][Here][at.slot])
    BY <1>7 DEF SkipSlot
  <2>2. CursorOK' BY <2>1 DEF CursorOK, NextSlot
  <2>3. ASSUME NEW path \in Paths, NEW m \in DOMAIN ops[path], NEW i \in DOMAIN ops[path][m]
        PROVE  /\ Behind(path, m, i)' <=> Behind(path, m, i) \/ Current(path, m, i)
               /\ Current(path, m, i) => ~Behind(path, m, i)
    BY <2>1, <2>3, SlotPlace, Advance
  <2>4. ASSUME NEW path \in Paths, NEW m \in DOMAIN ops[path], NEW i \in DOMAIN ops[path][m],
               NEW p \in Params
        PROVE  Bears(path, m, i, p)' <=> Bears(path, m, i, p)
    <3>1. CASE Current(path, m, i)
      <4>1. ops[path][m][i].alias = NoId BY <2>3, <2>4, <3>1 DEF AliasesFollow
      <4>2. Skip(ops[path][m][i]) BY <2>1, <3>1 DEF Current
      <4>3. ops[path][m][i] = Slot(p) => count[p] < 2 BY <4>1, <4>2 DEF Skip, Slot
      <4>4. count[p] \in Nat BY DEF TypeOK
      <4> QED BY <1>1, <4>3, <4>4 DEF Bears
    <3>2. CASE ~Current(path, m, i) BY <1>1, <2>3, <2>4, <3>2 DEF Bears
    <3> QED BY <3>1, <3>2
  <2> QED BY <2>2, <2>3, <2>4 DEF SameBearers
<1>8. CASE Finish \/ UNCHANGED vars
  <2>1. at' = at /\ unvisited' = unvisited BY <1>8 DEF Finish, vars
  <2>2. SameBearers BY <1>1, <2>1 DEF SameBearers, Bears, Behind
  <2>3. CursorOK' BY <1>8 DEF Finish, vars, CursorOK
  <2> QED BY <2>1, <2>2, <2>3 DEF Behind
<1> QED BY <1>6, <1>7, <1>8

\* The first slot of a parameter that several use bears its anchor.
LEMMA NameSharing == ASSUME TypeOK, Sharing, NameSlot PROVE Sharing'
<1> USE DEF Sharing
<1>1. /\ ops' = ops /\ count' = count /\ doc' = doc /\ level' = level /\ phase' = phase
      /\ InOperation /\ NextSlot /\ unvisited' = unvisited
      /\ ~Skip(ops[at.path][Here][at.slot])
      /\ anchor[ops[at.path][Here][at.slot].param] = NoId
      /\ anchor' = [anchor EXCEPT ![ops[at.path][Here][at.slot].param] = idx]
  BY DEF NameSlot
<1>2. ParamsKept' BY <1>1 DEF ParamsKept, Wanted
<1>3. Counted'
  <2>1. ASSUME NEW q \in Params PROVE Users(q)' = Users(q) BY <1>1 DEF Users, Wanted
  <2> QED BY <1>1, <2>1 DEF Counted
<1>4. CursorOK' BY <1>1 DEF CursorOK, NextSlot
<1>5. PICK path \in Paths : path = at.path BY <1>1, CurrentSlot
<1>6. PICK m \in DOMAIN ops[path] : m = Here BY <1>1, <1>5, CurrentSlot
<1>7. PICK k \in DOMAIN ops[path][m] : k = at.slot BY <1>1, <1>5, <1>6, CurrentSlot
<1>8. PICK p \in Params : p = ops[path][m][k].param BY <1>5, <1>6, <1>7, SlotPlace DEF SlotType
<1>9. ops[path][m][k] = Slot(p) /\ count[p] >= 2
  <2>1. ops[path][m][k] \in SlotType BY <1>5, <1>6, <1>7, SlotPlace
  <2>2. ops[path][m][k].alias = NoId /\ ~(count[p] < 2)
    BY <1>1, <1>5, <1>6, <1>7, <1>8 DEF Skip
  <2>3. count[p] \in Nat BY <1>8 DEF TypeOK
  <2> QED BY <1>8, <2>1, <2>2, <2>3 DEF SlotType, Slot
<1>10. anchor[p] = NoId /\ anchor' = [anchor EXCEPT ![p] = idx]
  BY <1>1, <1>5, <1>6, <1>7, <1>8
<1>11. \A q \in Params : anchor'[q] = IF q = p THEN idx ELSE anchor[q]
  BY <1>10 DEF TypeOK
<1>12. idx # NoId BY NoIdAssumption DEF TypeOK
<1>13. ASSUME NEW path2 \in Paths, NEW n \in DOMAIN ops[path2], NEW j \in DOMAIN ops[path2][n]
       PROVE  Behind(path2, n, j)' <=>
                Behind(path2, n, j) \/ (path2 = path /\ n = m /\ j = k)
  <2>1. Behind(path2, n, j)' <=> Behind(path2, n, j) \/ Current(path2, n, j)
    BY <1>1, <1>13, SlotPlace, Advance
  <2> QED BY <1>5, <1>6, <1>7, <2>1 DEF Current
\* Only p has a bearer more.
<1>14. ASSUME NEW path2 \in Paths, NEW n \in DOMAIN ops[path2], NEW j \in DOMAIN ops[path2][n],
              NEW q \in Params
       PROVE  Bears(path2, n, j, q)' <=>
                Bears(path2, n, j, q) \/ (q = p /\ path2 = path /\ n = m /\ j = k)
  <2>1. Bears(path2, n, j, q)' <=>
          ops[path2][n][j] = Slot(q) /\ count[q] >= 2 /\ Behind(path2, n, j)'
    BY <1>1 DEF Bears
  <2>2. ops[path][m][k] = Slot(q) <=> q = p BY <1>9 DEF Slot
  <2> QED BY <1>9, <1>13, <1>14, <2>1, <2>2 DEF Bears
<1>15. \A path2 \in Paths : \A n \in DOMAIN ops[path2] : \A j \in DOMAIN ops[path2][n] :
         ~Bears(path2, n, j, p)
  BY <1>8, <1>10 DEF AnchorsBorne
<1>16. AnchorsBorne'
  <2> SUFFICES ASSUME NEW q \in Params
               PROVE  anchor'[q] # NoId <=>
                        \E path2 \in Paths : \E n \in DOMAIN ops[path2] :
                          \E j \in DOMAIN ops[path2][n] : Bears(path2, n, j, q)'
    BY <1>1 DEF AnchorsBorne
  <2>1. CASE q = p
    <3>1. Bears(path, m, k, q)' BY <1>5, <1>6, <1>7, <1>8, <1>14, <2>1
    <3>2. anchor'[q] # NoId BY <1>11, <1>12, <2>1
    <3> QED BY <1>5, <1>6, <1>7, <3>1, <3>2
  <2>2. CASE q # p
    <3>1. anchor'[q] = anchor[q] BY <1>11, <2>2
    <3>2. \A path2 \in Paths : \A n \in DOMAIN ops[path2] : \A j \in DOMAIN ops[path2][n] :
            Bears(path2, n, j, q)' <=> Bears(path2, n, j, q)
      BY <1>14, <2>2
    <3>3. anchor[q] # NoId <=>
            \E path2 \in Paths : \E n \in DOMAIN ops[path2] :
              \E j \in DOMAIN ops[path2][n] : Bears(path2, n, j, q)
      BY DEF AnchorsBorne
    <3> QED BY <3>1, <3>2, <3>3
  <2> QED BY <2>1, <2>2
<1>17. OneBearer'
  <2> SUFFICES ASSUME NEW path2 \in Paths, NEW n \in DOMAIN ops[path2],
                      NEW n2 \in DOMAIN ops[path2],
                      NEW j \in DOMAIN ops[path2][n], NEW j2 \in DOMAIN ops[path2][n2],
                      NEW q \in Params,
                      Bears(path2, n, j, q)', Bears(path2, n2, j2, q)'
               PROVE  n = n2 /\ j = j2
    BY <1>1 DEF OneBearer
  <2>1. CASE q = p BY <1>14, <1>15, <2>1
  <2>2. CASE q # p
    <3>1. Bears(path2, n, j, q) /\ Bears(path2, n2, j2, q) BY <1>14, <2>2
    <3> QED BY <3>1 DEF OneBearer
  <2> QED BY <2>1, <2>2
<1>18. AliasesFollow'
  <2> SUFFICES ASSUME NEW path2 \in Paths, NEW n \in DOMAIN ops[path2],
                      NEW i \in DOMAIN ops[path2][n], ops[path2][n][i].alias # NoId
               PROVE  /\ Behind(path2, n, i)'
                      /\ \E n2 \in DOMAIN ops[path2] : \E j \in DOMAIN ops[path2][n2] :
                           /\ Bears(path2, n2, j, ops[path2][n][i].param)'
                           /\ WalkRank(n2) < WalkRank(n) \/ (n2 = n /\ j < i)
    BY <1>1 DEF AliasesFollow
  <2>1. PICK q \in Params : q = ops[path2][n][i].param BY SlotPlace DEF SlotType
  <2>2. Behind(path2, n, i) BY DEF AliasesFollow
  <2>3. PICK n2 \in DOMAIN ops[path2] : \E j \in DOMAIN ops[path2][n2] :
          /\ Bears(path2, n2, j, q)
          /\ WalkRank(n2) < WalkRank(n) \/ (n2 = n /\ j < i)
    BY <2>1 DEF AliasesFollow
  <2>4. PICK j \in DOMAIN ops[path2][n2] :
          /\ Bears(path2, n2, j, q)
          /\ WalkRank(n2) < WalkRank(n) \/ (n2 = n /\ j < i)
    BY <2>3
  <2>5. Bears(path2, n2, j, q)' BY <1>14, <2>1, <2>3, <2>4
  <2>6. Behind(path2, n, i)' BY <1>13, <2>2
  <2> QED BY <1>1, <2>1, <2>3, <2>4, <2>5, <2>6
<1> QED BY <1>2, <1>3, <1>4, <1>16, <1>17, <1>18

\* Aliasing turns the slot the loop is at into an alias, and no other.
LEMMA AliasedOne ==
  ASSUME TypeOK, ParamsKept, CursorOK, AliasSlot,
         NEW path \in Paths, path = at.path,
         NEW m \in DOMAIN ops[path], m = Here,
         NEW k \in DOMAIN ops[path][m], k = at.slot,
         NEW p \in Params, p = ops[path][m][k].param
  PROVE  /\ ops[path][m][k] = Slot(p) /\ anchor[p] # NoId
         /\ DOMAIN ops' = DOMAIN ops /\ SameShape
         /\ ops'[path][m][k] = [param |-> p, alias |-> anchor[p]]
         /\ \A q \in Paths : \A n \in DOMAIN ops[q] : \A i \in DOMAIN ops[q][n] :
              ~(q = path /\ n = m /\ i = k) => ops'[q][n][i] = ops[q][n][i]
<1> DEFINE list == ops[path][m]
<1>1. /\ ~Skip(list[k]) /\ anchor[p] # NoId
      /\ ops' = [ops EXCEPT ![path][m] = Aliased(list, p)]
  BY DEF AliasSlot
<1>2. list[k] \in SlotType BY SlotPlace
<1>3. list[k] = Slot(p) BY <1>1, <1>2 DEF Skip, Slot, SlotType
<1>4. \A i \in DOMAIN list : list[i] = Slot(p) => i = k
  <2> SUFFICES ASSUME NEW i \in DOMAIN list, list[i] = Slot(p) PROVE i = k OBVIOUS
  <2>1. ops[path][m][i].param = ops[path][m][k].param BY <1>3 DEF Slot
  <2> QED BY <2>1, OneSlotEach
<1>5. DOMAIN ops = Paths BY DEF TypeOK, OpsTypeOK
<1>6. ops' = [ops EXCEPT ![path] = [ops[path] EXCEPT ![m] = Aliased(list, p)]] BY <1>1
<1>7. /\ DOMAIN ops' = DOMAIN ops
      /\ \A q \in Paths : q # path => ops'[q] = ops[q]
      /\ ops'[path] = [ops[path] EXCEPT ![m] = Aliased(list, p)]
  BY <1>5, <1>6
<1>8. /\ DOMAIN ops'[path] = DOMAIN ops[path]
      /\ \A n \in DOMAIN ops[path] : n # m => ops'[path][n] = ops[path][n]
      /\ ops'[path][m] = Aliased(list, p)
  BY <1>7
<1>9. /\ DOMAIN Aliased(list, p) = DOMAIN list
      /\ \A i \in DOMAIN list : Aliased(list, p)[i] =
           IF list[i] = Slot(p) THEN [param |-> p, alias |-> anchor[p]] ELSE list[i]
  BY DEF Aliased
<1>10. SameShape BY <1>7, <1>8, <1>9 DEF SameShape
<1>11. ops'[path][m][k] = [param |-> p, alias |-> anchor[p]] BY <1>3, <1>8, <1>9
<1>12. ASSUME NEW q \in Paths, NEW n \in DOMAIN ops[q], NEW i \in DOMAIN ops[q][n],
              ~(q = path /\ n = m /\ i = k)
       PROVE  ops'[q][n][i] = ops[q][n][i]
  <2>1. CASE q # path BY <1>7, <1>12, <2>1
  <2>2. CASE q = path /\ n # m BY <1>8, <1>12, <2>2
  <2>3. CASE q = path /\ n = m /\ i # k
    <3>1. i \in DOMAIN list /\ list[i] # Slot(p) BY <1>4, <1>12, <2>3
    <3>2. Aliased(list, p)[i] = list[i] BY <1>9, <3>1
    <3> QED BY <1>8, <2>3, <3>2
  <2> QED BY <1>12, <2>1, <2>2, <2>3
<1> QED BY <1>1, <1>3, <1>7, <1>10, <1>11, <1>12

\* A later slot of that parameter becomes an alias, behind the one that bears
\* the anchor.
LEMMA AliasSharing == ASSUME TypeOK, Sharing, AliasSlot PROVE Sharing'
<1> USE DEF Sharing
<1>1. /\ anchor' = anchor /\ count' = count /\ doc' = doc /\ level' = level /\ phase' = phase
      /\ InOperation /\ NextSlot /\ unvisited' = unvisited
  BY DEF AliasSlot
<1>2. Counted'
  <2>1. ASSUME NEW q \in Params PROVE Users(q)' = Users(q) BY <1>1 DEF Users, Wanted
  <2> QED BY <1>1, <2>1 DEF Counted
<1>3. CursorOK' BY <1>1 DEF CursorOK, NextSlot
<1>4. PICK path \in Paths : path = at.path BY <1>1, CurrentSlot
<1>5. PICK m \in DOMAIN ops[path] : m = Here BY <1>1, <1>4, CurrentSlot
<1>6. PICK k \in DOMAIN ops[path][m] : k = at.slot BY <1>1, <1>4, <1>5, CurrentSlot
<1>7. PICK p \in Params : p = ops[path][m][k].param BY <1>4, <1>5, <1>6, SlotPlace DEF SlotType
<1>8. /\ ops[path][m][k] = Slot(p) /\ anchor[p] # NoId
      /\ DOMAIN ops' = DOMAIN ops /\ SameShape
      /\ ops'[path][m][k] = [param |-> p, alias |-> anchor[p]]
      /\ \A q \in Paths : \A n \in DOMAIN ops[q] : \A i \in DOMAIN ops[q][n] :
           ~(q = path /\ n = m /\ i = k) => ops'[q][n][i] = ops[q][n][i]
  BY <1>4, <1>5, <1>6, <1>7, AliasedOne
<1>9. \A q \in Paths : \A n \in DOMAIN ops[q] : \A i \in DOMAIN ops[q][n] :
         ops'[q][n][i].param = ops[q][n][i].param
  <2> SUFFICES ASSUME NEW q \in Paths, NEW n \in DOMAIN ops[q], NEW i \in DOMAIN ops[q][n]
               PROVE  ops'[q][n][i].param = ops[q][n][i].param
    OBVIOUS
  <2>1. CASE q = path /\ n = m /\ i = k
    <3>1. ops'[path][m][k].param = p BY <1>8
    <3> QED BY <1>7, <2>1, <3>1
  <2>2. CASE ~(q = path /\ n = m /\ i = k) BY <1>8, <2>2
  <2> QED BY <2>1, <2>2
<1>10. ParamsKept'
  <2>1. \A q \in Paths : DOMAIN ops'[q] = DOMAIN ops[q] BY <1>8 DEF SameShape
  <2>2. ASSUME NEW q \in Paths, NEW n \in DOMAIN ops[q]
        PROVE  Named(ops'[q][n]) = Named(ops[q][n])
    <3>1. DOMAIN ops'[q][n] = DOMAIN ops[q][n] BY <1>8, <2>2 DEF SameShape
    <3> QED BY <1>9, <2>2, <3>1 DEF Named
  <2>3. ASSUME NEW q \in Paths, NEW n \in DOMAIN ops[q]
        PROVE  Named(ops'[q][n]) \o level[q] = Wanted(q, n)'
    <3>1. Wanted(q, n)' = Wanted(q, n) BY <1>1 DEF Wanted
    <3> QED BY <2>2, <2>3, <3>1 DEF ParamsKept
  <2> QED BY <1>1, <2>1, <2>3 DEF ParamsKept
<1>11. ASSUME NEW q \in Paths, NEW n \in DOMAIN ops[q], NEW j \in DOMAIN ops[q][n]
       PROVE  /\ Behind(q, n, j)' <=> Behind(q, n, j) \/ (q = path /\ n = m /\ j = k)
              /\ (q = path /\ n = m /\ j = k) => ~Behind(q, n, j)
  <2>1. /\ Behind(q, n, j)' <=> Behind(q, n, j) \/ Current(q, n, j)
        /\ Current(q, n, j) => ~Behind(q, n, j)
    BY <1>1, <1>11, SlotPlace, Advance
  <2> QED BY <1>4, <1>5, <1>6, <2>1 DEF Current
<1>12. SameBearers
  <2> SUFFICES ASSUME NEW q \in Paths, NEW n \in DOMAIN ops[q], NEW j \in DOMAIN ops[q][n],
                      NEW r \in Params
               PROVE  Bears(q, n, j, r)' <=> Bears(q, n, j, r)
    BY DEF SameBearers
  <2>1. Bears(q, n, j, r)' <=> ops'[q][n][j] = Slot(r) /\ count[r] >= 2 /\ Behind(q, n, j)'
    BY <1>1 DEF Bears
  <2>2. Bears(q, n, j, r) <=> ops[q][n][j] = Slot(r) /\ count[r] >= 2 /\ Behind(q, n, j)
    BY DEF Bears
  <2>3. CASE q = path /\ n = m /\ j = k
    <3>1. ops'[q][n][j] # Slot(r) BY <1>8, <2>3 DEF Slot
    <3>2. ~Behind(q, n, j) BY <1>11, <2>3
    <3> QED BY <2>1, <2>2, <3>1, <3>2
  <2>4. CASE ~(q = path /\ n = m /\ j = k)
    <3>1. ops'[q][n][j] = ops[q][n][j] BY <1>8, <2>4
    <3>2. Behind(q, n, j)' <=> Behind(q, n, j) BY <1>11, <2>4
    <3> QED BY <2>1, <2>2, <3>1, <3>2
  <2> QED BY <2>3, <2>4
<1>13. AnchorsBorne' /\ OneBearer' BY <1>1, <1>8, <1>12, BearersKept
<1>14. AliasesFollow'
  <2> SUFFICES ASSUME NEW q \in Paths, NEW n \in DOMAIN ops'[q], NEW i \in DOMAIN ops'[q][n],
                      ops'[q][n][i].alias # NoId
               PROVE  /\ Behind(q, n, i)'
                      /\ \E n2 \in DOMAIN ops'[q] : \E j \in DOMAIN ops'[q][n2] :
                           /\ Bears(q, n2, j, ops[q][n][i].param)'
                           /\ WalkRank(n2) < WalkRank(n) \/ (n2 = n /\ j < i)
    BY DEF AliasesFollow
  <2>1. n \in DOMAIN ops[q] /\ i \in DOMAIN ops[q][n] BY <1>8 DEF SameShape
  <2>2. PICK r \in Params : r = ops[q][n][i].param BY <2>1, SlotPlace DEF SlotType
  <2>3. r = ops'[q][n][i].param BY <1>9, <2>1, <2>2
  <2>4. /\ Behind(q, n, i)'
        /\ \E n2 \in DOMAIN ops[q] : \E j \in DOMAIN ops[q][n2] :
             /\ Bears(q, n2, j, r)
             /\ WalkRank(n2) < WalkRank(n) \/ (n2 = n /\ j < i)
    <3>1. CASE q = path /\ n = m /\ i = k
      <4>1. Behind(q, n, i)' BY <1>11, <2>1, <3>1
      <4>2. r = p BY <1>7, <2>2, <3>1
      <4>3. PICK q2 \in Paths : \E n2 \in DOMAIN ops[q2] : \E j \in DOMAIN ops[q2][n2] :
              Bears(q2, n2, j, p)
        BY <1>7, <1>8 DEF AnchorsBorne
      <4>4. PICK n2 \in DOMAIN ops[q2] : \E j \in DOMAIN ops[q2][n2] : Bears(q2, n2, j, p)
        BY <4>3
      <4>5. PICK j \in DOMAIN ops[q2][n2] : Bears(q2, n2, j, p) BY <4>4
      <4>6. ops[q2][n2][j].param = ops[path][m][k].param
        BY <1>8, <4>5 DEF Bears, Slot
      <4>7. q2 = path
        BY <1>4, <1>5, <1>6, <4>3, <4>4, <4>5, <4>6, OnePath
      <4>8. WalkRank(n2) < WalkRank(m) \/ (n2 = m /\ j < k)
        <5>1. Behind(path, n2, j) BY <4>5, <4>7 DEF Bears
        <5>2. WalkRank(n2) < at.method \/ (WalkRank(n2) = at.method /\ j < at.slot)
          BY <1>4, <5>1 DEF Behind
        <5>3. WalkRank(m) = at.method BY <1>1, <1>5, CurrentSlot
        <5>4. n2 \in Methods /\ m \in Methods BY <1>4, <1>5, <4>3, <4>4, <4>5, <4>7, SlotsTell
        <5>5. WalkRank(n2) = WalkRank(m) => n2 = m BY <5>4, Ranks
        <5> QED BY <1>6, <5>2, <5>3, <5>5
      <4> QED BY <3>1, <4>1, <4>2, <4>4, <4>5, <4>7, <4>8
    <3>2. CASE ~(q = path /\ n = m /\ i = k)
      <4>1. ops'[q][n][i] = ops[q][n][i] BY <1>8, <2>1, <3>2
      <4>2. ops[q][n][i].alias # NoId BY <4>1
      <4>3. Behind(q, n, i) /\ \E n2 \in DOMAIN ops[q] : \E j \in DOMAIN ops[q][n2] :
              /\ Bears(q, n2, j, r)
              /\ WalkRank(n2) < WalkRank(n) \/ (n2 = n /\ j < i)
        BY <2>1, <2>2, <4>2 DEF AliasesFollow
      <4> QED BY <1>11, <2>1, <4>3
    <3> QED BY <3>1, <3>2
  <2>5. PICK n2 \in DOMAIN ops[q] : \E j \in DOMAIN ops[q][n2] :
          /\ Bears(q, n2, j, r)
          /\ WalkRank(n2) < WalkRank(n) \/ (n2 = n /\ j < i)
    BY <2>4
  <2>6. PICK j \in DOMAIN ops[q][n2] :
          /\ Bears(q, n2, j, r)
          /\ WalkRank(n2) < WalkRank(n) \/ (n2 = n /\ j < i)
    BY <2>5
  <2>7. Bears(q, n2, j, r)' BY <1>12, <2>2, <2>5, <2>6 DEF SameBearers
  <2>8. n2 \in DOMAIN ops'[q] /\ j \in DOMAIN ops'[q][n2] BY <1>8, <2>5, <2>6 DEF SameShape
  <2> QED BY <2>3, <2>4, <2>6, <2>7, <2>8
<1> QED BY <1>10, <1>2, <1>3, <1>13, <1>14

-----------------------------------------------------------------------------

\* The inductive invariant holds in every reachable state of the two passes
\* over the parameters.
THEOREM Invariance == Spec => []IInv
<1>1. IInv <=> Core /\ Sharing BY DEF IInv, Core, Sharing
<1>2. (Core /\ Sharing) /\ [Next]_vars => (Core /\ Sharing)'
  <2> SUFFICES ASSUME Core, Sharing, [Next]_vars PROVE Core' /\ Sharing' OBVIOUS
  <2>1. TypeOK BY DEF Core
  <2>2. ASSUME NEW path \in Paths, Promote(path) PROVE Core' /\ Sharing'
    BY <2>1, <2>2, PromoteCore, PromoteSharing
  <2>3. CASE CountPointers BY <2>1, <2>3, MoveCore, CountSharing
  <2>4. CASE \/ LeaveOperation \/ SkipSlot \/ Finish \/ UNCHANGED vars
             \/ \E path \in Paths : EnterPath(path)
    BY <2>1, <2>4, MoveCore, MoveSharing
  <2>5. CASE NameSlot BY <2>1, <2>5, NameSlotCore, NameSharing
  <2>6. CASE AliasSlot BY <2>1, <2>6, AliasSlotCore, AliasSharing
  <2> QED BY <2>2, <2>3, <2>4, <2>5, <2>6 DEF Next, Done
<1>3. Init => Core /\ Sharing BY InitCore, InitSharing
<1> QED BY <1>1, <1>2, <1>3, PTL DEF Spec

\* No document is rendered with one anchor id on two parameters.
THEOREM UniqueIdsAlways == Spec => []UniqueIds
BY Invariance, PTL DEF IInv

\* No alias names another parameter than the one it replaced.
THEOREM AliasNamesItsParamAlways == Spec => []AliasNamesItsParam
BY Invariance, PTL DEF IInv

-----------------------------------------------------------------------------
(* What is written.                                                          *)

\* At the end an operation has the parameters it is to have.
LEMMA AllNamed ==
  ASSUME TypeOK, Sharing, phase = "done", NEW path \in Paths, NEW m \in DOMAIN ops[path]
  PROVE  Named(ops[path][m]) = Wanted(path, m)
<1>1. ops[path][m] \in Seq(SlotType) BY DEF TypeOK, OpsTypeOK
<1>2. Named(ops[path][m]) \in Seq(Params) BY <1>1, NamedIs
<1>3. level[path] = <<>> BY DEF Sharing, ParamsKept
<1>4. Named(ops[path][m]) \o level[path] = Wanted(path, m) BY DEF Sharing, ParamsKept
<1> QED BY <1>2, <1>3, <1>4, ConcatEmptySeq

\* Reading an alias gives the parameter it replaced.
LEMMA ReadsItsParam ==
  ASSUME IInv, NEW path \in Paths, NEW m \in DOMAIN ops[path], NEW i \in DOMAIN ops[path][m]
  PROVE  Read(ops[path][m][i]) = ops[path][m][i].param
<1> DEFINE slot == ops[path][m][i]
<1>1. slot \in SlotType /\ slot.param \in Params BY SlotPlace DEF IInv, SlotType
<1>2. slot.alias # NoId => slot.alias = anchor[slot.param] BY DEF IInv, AliasNamesItsParam
<1>3. ASSUME slot.alias # NoId, NEW q \in Params, anchor[q] = slot.alias PROVE q = slot.param
  BY <1>1, <1>2, <1>3 DEF IInv, UniqueIds
<1> HIDE DEF slot
<1>4. CASE slot.alias = NoId BY <1>4 DEF Read, slot
<1>5. CASE slot.alias # NoId
  <2>1. \E q \in Params : anchor[q] = slot.alias BY <1>1, <1>2, <1>5
  <2>2. (CHOOSE q \in Params : anchor[q] = slot.alias) = slot.param
    BY <1>3, <1>5, <2>1
  <2>3. Read(slot) = CHOOSE q \in Params : anchor[q] = slot.alias BY <1>5 DEF Read
  <2> QED BY <2>2, <2>3 DEF slot
<1> QED BY <1>4, <1>5

LEMMA MeaningFollows == IInv => MeaningKept
<1> SUFFICES ASSUME IInv, phase = "done", NEW path \in Paths, NEW m \in DOMAIN ops[path]
             PROVE  [i \in DOMAIN ops[path][m] |-> Read(ops[path][m][i])] = Wanted(path, m)
  BY DEF MeaningKept
<1>1. \A i \in DOMAIN ops[path][m] : Read(ops[path][m][i]) = ops[path][m][i].param
  BY ReadsItsParam
<1>2. [i \in DOMAIN ops[path][m] |-> Read(ops[path][m][i])] = Named(ops[path][m])
  BY <1>1 DEF Named
<1>3. Named(ops[path][m]) = Wanted(path, m) BY AllNamed DEF IInv, Sharing
<1> QED BY <1>2, <1>3

\* Two of a set with less than two members are the same.
LEMMA FewerThanTwo ==
  ASSUME NEW S, IsFiniteSet(S), Cardinality(S) < 2, NEW x \in S, NEW y \in S
  PROVE  x = y
<1>1. Cardinality(S) \in Nat BY FS_CardinalityType
<1>2. Cardinality(S) # 0 BY FS_EmptySet
<1>3. Cardinality(S) = 1 BY <1>1, <1>2
<1>4. \E z : S = {z} BY <1>3, FS_Singleton
<1> QED BY <1>4

\* A slot of a path is at a method and a number.
LEMMA SlotIs ==
  ASSUME NEW path \in Paths, NEW s \in Slots(path)
  PROVE  /\ s = <<s[1], s[2]>>
         /\ s[1] \in DOMAIN ops[path] /\ s[2] \in DOMAIN ops[path][s[1]]
         /\ At(path, s) = ops[path][s[1]][s[2]]
<1>1. PICK m \in DOMAIN ops[path] : s \in {<<m, i>> : i \in DOMAIN ops[path][m]}
  BY DEF Slots
<1>2. PICK i \in DOMAIN ops[path][m] : s = <<m, i>> BY <1>1
<1> QED BY <1>1, <1>2 DEF At

LEMMA BodyFollows == IInv => BodyOnce
<1> SUFFICES ASSUME IInv, phase = "done", NEW path \in Paths,
                    NEW s \in Slots(path), NEW t \in Slots(path),
                    At(path, s).param = At(path, t).param,
                    At(path, s).alias = NoId, At(path, t).alias = NoId
             PROVE  s = t
  BY DEF BodyOnce
<1> USE DEF IInv
<1>1. PICK m \in DOMAIN ops[path] : m = s[1] BY SlotIs
<1>2. PICK n \in DOMAIN ops[path] : n = t[1] BY SlotIs
<1>3. PICK i \in DOMAIN ops[path][m] : i = s[2] BY <1>1, SlotIs
<1>4. PICK j \in DOMAIN ops[path][n] : j = t[2] BY <1>2, SlotIs
<1>5. s = <<m, i>> /\ t = <<n, j>> BY <1>1, <1>2, <1>3, <1>4, SlotIs
<1>6. /\ ops[path][m][i].param = ops[path][n][j].param
      /\ ops[path][m][i].alias = NoId /\ ops[path][n][j].alias = NoId
  BY <1>1, <1>2, <1>3, <1>4, SlotIs
<1>7. PICK p \in Params : p = ops[path][m][i].param
  BY <1>1, <1>3, SlotPlace DEF SlotType
<1>8. ops[path][m][i] = Slot(p) /\ ops[path][n][j] = Slot(p)
  <2>1. ops[path][m][i] \in SlotType /\ ops[path][n][j] \in SlotType
    BY <1>1, <1>2, <1>3, <1>4, SlotPlace
  <2> QED BY <1>6, <1>7, <2>1 DEF SlotType, Slot
<1>9. CASE count[p] >= 2
  <2>1. Behind(path, m, i) /\ Behind(path, n, j) BY AllBehind
  <2>2. Bears(path, m, i, p) /\ Bears(path, n, j, p) BY <1>8, <1>9, <2>1 DEF Bears
  <2> QED BY <1>1, <1>2, <1>3, <1>4, <1>5, <1>7, <2>2 DEF OneBearer
<1>10. CASE ~(count[p] >= 2)
  <2>1. count[p] \in Nat /\ count[p] = Cardinality(Users(p)) BY <1>7 DEF TypeOK, Counted
  <2>2. IsFiniteSet(Users(p))
    <3>1. IsFiniteSet(Paths \X Methods) BY PathsAssumption, FS_Product
    <3>2. Users(p) \in SUBSET (Paths \X Methods) BY DEF Users
    <3> QED BY <3>1, <3>2, FS_Subset
  <2>3. ASSUME NEW k \in DOMAIN ops[path], NEW x \in DOMAIN ops[path][k],
               ops[path][k][x].param = p
        PROVE  <<path, k>> \in Users(p)
    <3>1. k \in DOMAIN doc[path].ops /\ k \in Methods BY <2>3, SlotsTell
    <3>2. Wanted(path, k)[x] = p /\ x \in DOMAIN Wanted(path, k) BY <2>3, SlotWanted
    <3> QED BY <3>1, <3>2 DEF Users
  <2>4. <<path, m>> \in Users(p) BY <1>1, <1>3, <1>7, <2>3
  <2>5. <<path, n>> \in Users(p) BY <1>2, <1>4, <1>6, <1>7, <2>3
  <2>6. <<path, m>> = <<path, n>>
    <3>1. Cardinality(Users(p)) < 2 BY <1>10, <2>1
    <3> QED BY <2>2, <2>4, <2>5, <3>1, FewerThanTwo
  <2>7. m = n BY <2>6
  <2>8. i = j BY <1>1, <1>3, <1>4, <1>6, <2>7, OneSlotEach
  <2> QED BY <1>5, <2>7, <2>8
<1> QED BY <1>9, <1>10

\* encoding/json writes the methods in the order of the walk, unless PATCH occurs
\* together with OPTIONS or HEAD.
OrdersAgree == "patch" \in Methods => "options" \notin Methods /\ "head" \notin Methods

LEMMA EmitRanks ==
  /\ EmitRank("get") = 1 /\ EmitRank("put") = 2 /\ EmitRank("post") = 3
  /\ EmitRank("delete") = 4 /\ EmitRank("options") = 5 /\ EmitRank("head") = 6
  /\ EmitRank("patch") = 7
<1>1. Len(EmitOrder) = 7 BY DEF EmitOrder
<1>2. \A j, k \in 1..7 : EmitOrder[j] = EmitOrder[k] => j = k BY DEF EmitOrder
<1>3. ASSUME NEW k \in 1..7 PROVE EmitRank(EmitOrder[k]) = k
  <2> DEFINE r == CHOOSE j \in 1..7 : EmitOrder[j] = EmitOrder[k]
  <2>1. r \in 1..7 /\ EmitOrder[r] = EmitOrder[k] BY <1>3, Zenon
  <2>2. r = k BY <1>2, <1>3, <2>1, Zenon
  <2> QED BY <1>1, <2>2 DEF EmitRank
<1>4. /\ EmitOrder[1] = "get" /\ EmitOrder[2] = "put" /\ EmitOrder[3] = "post"
      /\ EmitOrder[4] = "delete" /\ EmitOrder[5] = "options" /\ EmitOrder[6] = "head"
      /\ EmitOrder[7] = "patch"
  BY DEF EmitOrder
<1> QED BY <1>3, <1>4

LEMMA SameOrder ==
  ASSUME OrdersAgree, NEW m \in Methods, NEW n \in Methods, WalkRank(m) < WalkRank(n)
  PROVE  EmitRank(m) < EmitRank(n)
<1>1. /\ WalkOrder[1] = "get" /\ WalkOrder[2] = "put" /\ WalkOrder[3] = "post"
      /\ WalkOrder[4] = "delete" /\ WalkOrder[5] = "patch"
      /\ WalkOrder[6] = "options" /\ WalkOrder[7] = "head"
  BY DEF WalkOrder
<1>2. /\ WalkRank("get") = 1 /\ WalkRank("put") = 2 /\ WalkRank("post") = 3
      /\ WalkRank("delete") = 4 /\ WalkRank("patch") = 5 /\ WalkRank("options") = 6
      /\ WalkRank("head") = 7
  BY <1>1, Ranks
<1>3. /\ m \in {"get", "put", "post", "delete", "patch", "options", "head"}
      /\ n \in {"get", "put", "post", "delete", "patch", "options", "head"}
  BY MethodsAssumption
<1>4. m = "patch" => n # "options" /\ n # "head" BY DEF OrdersAgree
<1>5. CASE m = "patch" BY <1>2, <1>3, <1>4, <1>5, EmitRanks
<1>6. CASE n = "patch" BY <1>2, <1>3, <1>6, EmitRanks
<1>7. CASE m # "patch" /\ n # "patch" BY <1>2, <1>3, <1>7, EmitRanks
<1> QED BY <1>5, <1>6, <1>7

LEMMA AnchorFollows == IInv /\ OrdersAgree => AnchorBeforeAlias
<1> SUFFICES ASSUME IInv, OrdersAgree, NEW path \in Paths, NEW t \in Slots(path),
                    Rendering(At(path, t)).form = "$$alias"
             PROVE  \E s \in Slots(path) :
                      /\ Precedes(s, t)
                      /\ Rendering(At(path, s)) = [form |-> "$$anchor", id |-> At(path, t).alias]
  BY DEF AnchorBeforeAlias
<1> USE DEF IInv
<1>1. At(path, t).alias # NoId
  <2>1. "body" # "$$alias" /\ "$$anchor" # "$$alias" BY Zenon
  <2> QED BY <2>1, Zenon DEF Rendering
<1>2. PICK m \in DOMAIN ops[path] : m = t[1] BY SlotIs
<1>3. PICK i \in DOMAIN ops[path][m] : i = t[2] BY <1>2, SlotIs
<1>4. At(path, t) = ops[path][m][i] BY <1>2, <1>3, SlotIs
<1>5. PICK p \in Params : p = ops[path][m][i].param
  BY <1>2, <1>3, SlotPlace DEF SlotType
<1>6. PICK n \in DOMAIN ops[path] : \E j \in DOMAIN ops[path][n] :
        /\ Bears(path, n, j, p)
        /\ WalkRank(n) < WalkRank(m) \/ (n = m /\ j < i)
  BY <1>1, <1>2, <1>3, <1>4, <1>5 DEF AliasesFollow
<1>7. PICK j \in DOMAIN ops[path][n] :
        /\ Bears(path, n, j, p)
        /\ WalkRank(n) < WalkRank(m) \/ (n = m /\ j < i)
  BY <1>6
<1> DEFINE s == <<n, j>>
<1>8. s \in Slots(path) BY <1>6, <1>7 DEF Slots
<1>9. Precedes(s, t)
  <2>1. m \in Methods /\ n \in Methods BY <1>2, <1>3, <1>6, <1>7, SlotPlace
  <2>2. EmitRank(n) < EmitRank(m) \/ (n = m /\ j < i) BY <1>7, <2>1, SameOrder
  <2> QED BY <1>2, <1>3, <2>2 DEF Precedes
<1>10. At(path, s) = Slot(p) BY <1>7 DEF At, Bears
<1>11. anchor[p] # NoId BY <1>5, <1>6, <1>7 DEF AnchorsBorne
<1>12. anchor[p] = At(path, t).alias
  BY <1>1, <1>2, <1>3, <1>4, <1>5 DEF AliasNamesItsParam
<1>13. Rendering(At(path, s)) = [form |-> "$$anchor", id |-> anchor[p]]
  <2>1. Slot(p).alias = NoId /\ Slot(p).param = p BY DEF Slot
  <2> QED BY <1>10, <1>11, <2>1, Zenon DEF Rendering
<1> HIDE DEF s
<1> QED BY <1>8, <1>9, <1>12, <1>13, Zenon

\* Reading the aliases back gives each operation its own parameters and those
\* of its path, each once and in order: sharing loses, doubles and mixes none.
THEOREM MeaningKeptAlways == Spec => []MeaningKept
BY Invariance, MeaningFollows, PTL

\* The body of a parameter that several operations share is written once.
THEOREM BodyOnceAlways == Spec => []BodyOnce
BY Invariance, BodyFollows, PTL

\* Where PATCH does not occur together with OPTIONS or HEAD, a YAML reader meets
\* each anchor before its aliases.
THEOREM AnchorBeforeAliasAlways == ASSUME OrdersAgree PROVE Spec => []AnchorBeforeAlias
BY Invariance, AnchorFollows, PTL
=============================================================================
