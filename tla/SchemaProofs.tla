----------------------------- MODULE SchemaProofs -----------------------------
(***************************************************************************)
(* NamedTypes, for any types and any number of data structures and          *)
(* operations: what is referred to is in the document, and each missing type *)
(* is reported once.  Normalize, for any schemas, however they are linked:   *)
(* the passes bring all that the walk reaches into the form of the target    *)
(* version, lose no reference and change no meaning.                         *)
(***************************************************************************)
EXTENDS NamedTypes, Normalize, SequenceTheorems, FiniteSetTheorems,
        WellFoundedInduction, TLAPS

USE ReservedAssumption

\* What a value's type may be, and where a value may be found.
Names == Types \cup {"Meta"}
Value == [place : Places \cup {"base"}, type : Names]

\* A schema is what its element was resolved to, with the complete registry.
Operation == {[of |-> e, schema |-> Resolve(e)] : e \in Element}

TypeOK ==
  /\ phase \in {"collect", "walk", "components", "done"}
  /\ DOMAIN registry \subseteq Types
  /\ \A t \in DOMAIN registry : registry[t] \in Element
  /\ ops \in Seq(Operation)
  /\ DOMAIN components \subseteq DOMAIN registry
  /\ \A t \in DOMAIN components : components[t] = Resolve(registry[t])

\* The registry is complete before anything is resolved with it.
CollectedFirst ==
  /\ phase = "collect" => ops = <<>>
  /\ phase \in {"collect", "walk"} => DOMAIN components = {}
  /\ phase = "done" => DOMAIN registry = Suppressed \cup DOMAIN components

\* A list of missing types without repetition, and the set of those in it.
ReportsOK(r) ==
  /\ r.errors \in Seq(Names)
  /\ \A i, j \in DOMAIN r.errors : r.errors[i] = r.errors[j] => i = j
  /\ {r.errors[i] : i \in DOMAIN r.errors} = r.seen

\* The resolver has seen missing what was looked up and is not defined.
Reported == [seen |-> seen, errors |-> errors]

SeenMissing ==
  /\ ReportsOK(Reported)
  /\ seen = (UNION {Visited(LookedUp(e)) : e \in Resolved}) \ DOMAIN registry

IInv == TypeOK /\ CollectedFirst /\ SeenMissing

-----------------------------------------------------------------------------
(* Induction over the natural numbers, for sets.                             *)

LEMMA LeastNatural ==
  ASSUME NEW T, T \subseteq Nat, T # {}
  PROVE  \E n \in T : \A m \in T : n <= m
<1> DEFINE R == {ss \in Nat \X Nat : ss[1] < ss[2]}
<1>1. OpToRel(<, Nat) = R BY DEF OpToRel
<1>2. IsWellFoundedOn(R, Nat) BY NatLessThanWellFounded, <1>1
<1>3. \E x \in T : \A y \in T : ~ (<<y, x>> \in R) BY <1>2, WFMin
<1>4. \A x, y \in Nat : y < x => <<y, x>> \in R OBVIOUS
<1> HIDE DEF R
<1>5. \A x, y \in Nat : ~(y < x) => x <= y OBVIOUS
<1> QED BY <1>3, <1>4, <1>5

\* A set that holds zero and with each number the next one holds them all.
LEMMA SetInduction ==
  ASSUME NEW T, 0 \in T, \A n \in Nat : n \in T => n + 1 \in T
  PROVE  \A n \in Nat : n \in T
<1> DEFINE U == {n \in Nat : n \notin T}
<1> SUFFICES ASSUME U # {} PROVE FALSE OBVIOUS
<1>1. PICK n \in U : \A m \in U : n <= m BY LeastNatural
<1>2. n \in Nat /\ n # 0 OBVIOUS
<1>3. n - 1 \in Nat /\ ~(n <= n - 1) /\ (n - 1) + 1 = n BY <1>2
<1>4. n - 1 \in T BY <1>1, <1>3
<1> QED BY <1>3, <1>4

-----------------------------------------------------------------------------
(* The loop that reports.                                                    *)

\* f[i] is what was reported after i of the values.
Loop(f, values, n) ==
  f = [i \in 0..n |-> IF i = 0 THEN Reported ELSE Report(f[i - 1], values[i])]

\* What the loop adds to the types seen missing after n of the values.
MissingIn(values, n) ==
  {values[i].type : i \in {i \in 1..n : values[i].place # "line"}} \ DOMAIN registry

\* One more value: a type is appended only when it is new.
LEMMA ReportStep ==
  ASSUME NEW r, r = [seen |-> r.seen, errors |-> r.errors], ReportsOK(r), NEW v \in Value
  PROVE  /\ ReportsOK(Report(r, v))
         /\ Report(r, v) = [seen |-> Report(r, v).seen, errors |-> Report(r, v).errors]
         /\ Report(r, v).seen =
              r.seen \cup (IF v.place = "line" THEN {} ELSE {v.type} \ DOMAIN registry)
<1>1. CASE v.place = "line" \/ v.type \in DOMAIN registry \cup r.seen
  BY <1>1 DEF Report
<1>2. CASE ~(v.place = "line" \/ v.type \in DOMAIN registry \cup r.seen)
  <2> DEFINE more == Append(r.errors, v.type)
  <2>1. Report(r, v) = [seen |-> r.seen \cup {v.type}, errors |-> more]
    BY <1>2 DEF Report
  <2>2. r.errors \in Seq(Names) /\ v.type \in Names BY DEF ReportsOK, Value
  <2>3. /\ more \in Seq(Names)
        /\ DOMAIN more = DOMAIN r.errors \cup {Len(r.errors) + 1}
        /\ Len(r.errors) + 1 \notin DOMAIN r.errors
        /\ more[Len(r.errors) + 1] = v.type
        /\ \A i \in DOMAIN r.errors : more[i] = r.errors[i]
    BY <2>2, AppendProperties, LenProperties
  <2> HIDE DEF more
  <2>4. \A i \in DOMAIN r.errors : r.errors[i] # v.type BY <1>2 DEF ReportsOK
  <2>5. \A i, j \in DOMAIN more : more[i] = more[j] => i = j
    BY <2>3, <2>4 DEF ReportsOK
  <2>6. {more[i] : i \in DOMAIN more} = r.seen \cup {v.type}
    BY <2>3 DEF ReportsOK
  <2> QED BY <1>2, <2>1, <2>3, <2>5, <2>6 DEF ReportsOK
<1> QED BY <1>1, <1>2

\* The loop runs over any list of values.
LEMMA LoopExists == \A n \in Nat : \A values : \E f : Loop(f, values, n)
<1> SUFFICES ASSUME NEW values PROVE \A n \in Nat : \E f : Loop(f, values, n) OBVIOUS
<1> DEFINE T == {n \in Nat : \E f : Loop(f, values, n)}
<1>1. 0 \in T
  <2> DEFINE f == [i \in 0..0 |-> Reported]
  <2>1. Loop(f, values, 0) BY DEF Loop
  <2> HIDE DEF f
  <2> QED BY <2>1
<1>2. ASSUME NEW n \in Nat, n \in T PROVE n + 1 \in T
  <2>1. PICK f : Loop(f, values, n) BY <1>2
  <2>2. \A i \in 0..n : f[i] = IF i = 0 THEN Reported ELSE Report(f[i - 1], values[i])
    BY <2>1 DEF Loop
  <2> DEFINE g == [i \in 0..(n + 1) |->
                     IF i = n + 1 THEN Report(f[n], values[n + 1]) ELSE f[i]]
  <2>3. /\ g = [i \in 0..(n + 1) |-> g[i]]
        /\ g[n + 1] = Report(f[n], values[n + 1]) /\ \A i \in 0..n : g[i] = f[i]
    OBVIOUS
  <2> HIDE DEF g
  <2>4. ASSUME NEW i \in 0..(n + 1)
        PROVE  g[i] = IF i = 0 THEN Reported ELSE Report(g[i - 1], values[i])
    <3>1. CASE i = n + 1
      <4>1. i - 1 = n /\ n \in 0..n /\ i # 0 BY <3>1
      <4>2. g[i - 1] = f[n] BY <2>3, <4>1
      <4> QED BY <2>3, <3>1, <4>1, <4>2
    <3>2. CASE i = 0
      <4>1. 0 \in 0..n OBVIOUS
      <4>2. f[0] = Reported BY <2>2, <4>1
      <4> QED BY <2>3, <3>2, <4>1, <4>2
    <3>3. CASE i # 0 /\ i # n + 1
      <4>1. i - 1 \in 0..n /\ i \in 0..n BY <3>3
      <4> QED BY <2>2, <2>3, <3>3, <4>1
    <3> QED BY <3>1, <3>2, <3>3
  <2>5. Loop(g, values, n + 1) BY <2>3, <2>4 DEF Loop
  <2> QED BY <2>5
<1> HIDE DEF T
<1>3. \A n \in Nat : n \in T BY <1>1, <1>2, SetInduction
<1> QED BY <1>3 DEF T

\* After each of its steps the reports are right.
LEMMA LoopRight ==
  ASSUME NEW values \in Seq(Value), ReportsOK(Reported), NEW f, Loop(f, values, Len(values))
  PROVE  \A n \in 0..Len(values) :
           ReportsOK(f[n]) /\ f[n].seen = seen \cup MissingIn(values, n)
<1> DEFINE Right(n) ==
             /\ f[n] = [seen |-> f[n].seen, errors |-> f[n].errors]
             /\ ReportsOK(f[n])
             /\ f[n].seen = seen \cup MissingIn(values, n)
           T == {n \in Nat : n <= Len(values) => Right(n)}
<1>1. Len(values) \in Nat BY LenProperties
<1>2. \A i \in 0..Len(values) :
        f[i] = IF i = 0 THEN Reported ELSE Report(f[i - 1], values[i])
  BY DEF Loop
<1>3. Right(0)
  <2>1. f[0] = Reported BY <1>1, <1>2
  <2>2. MissingIn(values, 0) = {} BY DEF MissingIn
  <2> QED BY <2>1, <2>2 DEF Reported
<1>4. ASSUME NEW n \in Nat, n + 1 <= Len(values), Right(n) PROVE Right(n + 1)
  <2> DEFINE v == values[n + 1]
  <2>1. f[n + 1] = Report(f[n], v)
    <3>1. n + 1 \in 0..Len(values) /\ n + 1 # 0 /\ (n + 1) - 1 = n BY <1>1, <1>4
    <3> QED BY <1>2, <3>1
  <2>2. v \in Value BY <1>1, <1>4, ElementOfSeq
  <2>3. MissingIn(values, n + 1) =
          MissingIn(values, n) \cup (IF v.place = "line" THEN {} ELSE {v.type} \ DOMAIN registry)
    BY DEF MissingIn
  <2> HIDE DEF v
  <2>4. /\ ReportsOK(Report(f[n], v))
        /\ Report(f[n], v) = [seen |-> Report(f[n], v).seen, errors |-> Report(f[n], v).errors]
        /\ Report(f[n], v).seen =
             f[n].seen \cup (IF v.place = "line" THEN {} ELSE {v.type} \ DOMAIN registry)
    BY <1>4, <2>2, ReportStep
  <2> QED BY <1>4, <2>1, <2>3, <2>4
<1>5. 0 \in T BY <1>3
<1> HIDE DEF Right
<1>6. \A n \in Nat : n \in T => n + 1 \in T BY <1>1, <1>4
<1> HIDE DEF T
<1>7. \A n \in Nat : n \in T BY <1>5, <1>6, SetInduction
<1>8. ASSUME NEW n \in 0..Len(values) PROVE Right(n)
  <2>1. n \in Nat /\ n <= Len(values) BY <1>1
  <2> QED BY <1>7, <2>1 DEF T
<1> QED BY <1>8 DEF Right

\* What the values of an element add to the reports.
LEMMA ReportsRight ==
  ASSUME NEW values \in Seq(Value), ReportsOK(Reported)
  PROVE  /\ ReportsOK(Reports(values))
         /\ Reports(values).seen = seen \cup (Visited(values) \ DOMAIN registry)
<1> DEFINE n == Len(values)
           after == CHOOSE f : Loop(f, values, n)
<1>1. n \in Nat /\ DOMAIN values = 1..n BY LenProperties
<1>2. Loop(after, values, n) BY <1>1, LoopExists
<1>3. Reports(values) = after[n] BY DEF Reports, Loop, Reported
<1> HIDE DEF after
<1>4. ReportsOK(after[n]) /\ after[n].seen = seen \cup MissingIn(values, n)
  BY <1>1, <1>2, LoopRight
<1>5. MissingIn(values, n) = Visited(values) \ DOMAIN registry
  BY <1>1 DEF MissingIn, Visited
<1> QED BY <1>3, <1>4, <1>5

-----------------------------------------------------------------------------
(* Looking up and resolving.                                                 *)

LEMMA LookedUpType == ASSUME NEW e \in Element PROVE LookedUp(e) \in Seq(Value)
<1>1. \A p \in Places : \A v \in In(p) : v \in Value BY DEF In, Value, Names
<1>2. Meta \in Value BY DEF Meta, Value, Names, Places
<1>3. e.holds \in Seq(Value)
  <2>1. \A v, w \in Value : <<>> \in Seq(Value) /\ <<v>> \in Seq(Value) /\ <<v, w>> \in Seq(Value)
    OBVIOUS
  <2>2. \/ e.holds = <<>>
        \/ \E v \in Value : e.holds = <<v>>
        \/ \E v, w \in Value : e.holds = <<v, w>>
    <3>1. "member" \in Places /\ "option" \in Places /\ "sample" \in Places BY DEF Places
    <3>2. CASE e \in [el : {"object"},
                      holds : {<<>>} \cup {<<v>> : v \in UNION {In(p) : p \in Places \ {"sample"}}}
                                     \cup {<<m, o>> : m \in In("member"), o \in In("option")}]
      BY <1>1, <3>1, <3>2
    <3>3. CASE e \in [el : {"array"},
                      holds : {<<>>} \cup {<<v>> : v \in In("sample")}
                                \cup {<<v, w>> : v \in In("sample"), w \in In("sample") \cup {Meta}}]
      BY <1>1, <1>2, <3>1, <3>3
    <3>4. CASE e \in [el : Types, holds : {<<>>} \cup {<<v>> : v \in In("member")}]
      BY <1>1, <3>1, <3>4
    <3> QED BY <3>2, <3>3, <3>4 DEF Element
  <2>3. ASSUME NEW v \in Value, e.holds = <<v>> PROVE e.holds \in Seq(Value)
    BY <2>1, <2>3
  <2>4. ASSUME NEW v \in Value, NEW w \in Value, e.holds = <<v, w>> PROVE e.holds \in Seq(Value)
    BY <2>4
  <2>5. <<>> \in Seq(Value) OBVIOUS
  <2> QED BY <2>2, <2>3, <2>4, <2>5
<1>4. CASE e.el = "object" BY <1>3, <1>4 DEF LookedUp
<1>5. CASE e.el = "array"
  <2>1. LookedUp(e) = SubSeq(e.holds, 1, IF e.holds = <<>> THEN 0 ELSE 1)
    BY <1>5 DEF LookedUp
  <2>2. CASE e.holds = <<>>
    <3>1. LookedUp(e) = <<>> BY <2>1, <2>2
    <3> QED BY <3>1
  <2>3. CASE e.holds # <<>>
    <3>1. Len(e.holds) \in Nat /\ Len(e.holds) >= 1 BY <1>3, <2>3, EmptySeq, LenProperties
    <3>2. \A i \in 1..1 : e.holds[i] \in Value BY <1>3, <3>1, ElementOfSeq
    <3> QED BY <1>3, <2>1, <2>3, <3>1, <3>2, SubSeqProperties
  <2> QED BY <2>2, <2>3
<1>6. CASE e.el \notin {"object", "array"}
  <2>1. e.el \in Types BY <1>6 DEF Element
  <2>2. [place |-> "base", type |-> e.el] \in Value BY <2>1 DEF Value, Names
  <2> QED BY <1>6, <2>2 DEF LookedUp
<1> QED BY <1>4, <1>5, <1>6

\* What an element is resolved to refers to defined types only.
LEMMA RefsDefined == ASSUME NEW e PROVE RefsOf(Resolve(e)) \subseteq DOMAIN registry
<1>1. \A t : \/ Named(t) = [form |-> "ref", to |-> t] /\ t \in DOMAIN registry
             \/ Named(t) = [form |-> "generic"]
  BY DEF Named, Ref, Generic
<1>2. \A t : Named(t).form = "ref" => Named(t).to \in DOMAIN registry BY <1>1
<1>3. CASE e.el = "object"
  <2>1. \A place : \A x \in At(e, place) : x.form = "ref" => x.to \in DOMAIN registry
    BY <1>2 DEF At
  <2>2. Resolve(e) = ObjectSchema(e) BY <1>3 DEF Resolve
  <2>3. RefsOf(ObjectSchema(e)) =
          {m.to : m \in {x \in (At(e, "member") \cup At(e, "line")) \cup At(e, "option") :
                           x.form = "ref"}}
    BY DEF RefsOf, ObjectSchema
  <2> QED BY <2>1, <2>2, <2>3
<1>4. CASE e.el = "array"
  <2>1. Resolve(e) = ArraySchema(e) BY <1>4 DEF Resolve
  <2>2. RefsOf(ArraySchema(e)) = {m.to : m \in {x \in ArraySchema(e).items : x.form = "ref"}}
    BY DEF RefsOf, ArraySchema
  <2>3. \A x \in ArraySchema(e).items : x = [form |-> "string"] \/ x = Named(e.holds[1].type)
    BY DEF ArraySchema
  <2> QED BY <1>2, <2>1, <2>2, <2>3
<1>5. CASE e.el \notin {"object", "array"}
  <2>1. Resolve(e) = Named(e.el) BY <1>5 DEF Resolve
  <2>2. CASE Named(e.el) = [form |-> "ref", to |-> e.el] /\ e.el \in DOMAIN registry
    BY <2>1, <2>2 DEF RefsOf
  <2>3. CASE Named(e.el) = [form |-> "generic"] BY <2>1, <2>3 DEF RefsOf
  <2> QED BY <1>1, <2>2, <2>3
<1> QED BY <1>3, <1>4, <1>5

\* Resolving an element that is not among the resolved keeps the reports right.
LEMMA ReportAllRight ==
  ASSUME SeenMissing, NEW e \in Element, ReportAll(e), UNCHANGED registry,
         Resolved' = Resolved \cup {e}
  PROVE  SeenMissing'
<1>1. /\ ReportsOK(Reports(LookedUp(e)))
      /\ Reports(LookedUp(e)).seen = seen \cup (Visited(LookedUp(e)) \ DOMAIN registry)
  BY LookedUpType, ReportsRight DEF SeenMissing
<1>2. ReportsOK(Reported)' BY <1>1 DEF ReportAll, ReportsOK, Reported
<1>3. seen' = seen \cup (Visited(LookedUp(e)) \ DOMAIN registry) BY <1>1 DEF ReportAll
<1>4. \A x : (Visited(LookedUp(x)))' = Visited(LookedUp(x)) BY DEF Visited, LookedUp
<1>5. (UNION {Visited(LookedUp(x)) : x \in Resolved})' =
        (UNION {Visited(LookedUp(x)) : x \in Resolved}) \cup Visited(LookedUp(e))
  BY <1>4
<1> QED BY <1>2, <1>3, <1>5 DEF SeenMissing

-----------------------------------------------------------------------------
LEMMA InitIInv == Init => IInv
<1> SUFFICES ASSUME Init PROVE IInv OBVIOUS
<1> USE DEF Init
<1>1. DOMAIN registry = {} /\ DOMAIN components = {} /\ DOMAIN ops = {} /\ DOMAIN errors = {}
  OBVIOUS
<1>2. TypeOK BY <1>1 DEF TypeOK
<1>3. CollectedFirst BY <1>1 DEF CollectedFirst
<1>4. Resolved = {} BY <1>1 DEF Resolved
<1>5. ReportsOK(Reported) BY <1>1 DEF ReportsOK, Reported
<1> QED BY <1>2, <1>3, <1>4, <1>5 DEF IInv, SeenMissing

\* The empty list has no positions.
LEMMA NothingIn == DOMAIN <<>> = {}
OBVIOUS

\* While the registry grows nothing has been resolved with it.
LEMMA CollectIInv ==
  ASSUME IInv, NEW id \in Types \cup {""}, NEW e \in Element, Collect(id, e)
  PROVE  IInv'
<1> USE DEF IInv
<1>1. /\ phase = "collect" /\ phase' = phase /\ ops = <<>> /\ ops' = ops
      /\ DOMAIN components = {} /\ components' = components
      /\ seen' = seen /\ errors' = errors
  BY DEF Collect, CollectedFirst
<1>2. DOMAIN registry' \subseteq Types /\ \A t \in DOMAIN registry' : registry'[t] \in Element
  <2>1. CASE UNCHANGED registry BY <2>1 DEF TypeOK
  <2>2. CASE /\ id # ""
             /\ registry' = [t \in DOMAIN registry \cup {id} |->
                               IF t = id THEN e ELSE registry[t]]
    BY <2>2 DEF TypeOK
  <2> QED BY <2>1, <2>2 DEF Collect
<1>3. TypeOK'
  <2>1. ops' \in Seq(Operation') BY <1>1, EmptySeq
  <2> QED BY <1>1, <1>2, <2>1 DEF TypeOK
<1>4. CollectedFirst' BY <1>1 DEF CollectedFirst
<1>5. Resolved = {} /\ Resolved' = {}
  <2>1. DOMAIN ops = {} BY <1>1, NothingIn, Zenon
  <2>2. DOMAIN ops' = {} /\ DOMAIN components' = {} BY <1>1, <2>1, Zenon
  <2> QED BY <1>1, <2>1, <2>2 DEF Resolved
<1>6. seen = {} BY <1>5 DEF SeenMissing
<1>7. ReportsOK(Reported)'
  <2>1. seen' = seen /\ errors' = errors BY <1>1
  <2> QED BY <2>1 DEF SeenMissing, ReportsOK, Reported
<1>8. (UNION {Visited(LookedUp(x)) : x \in Resolved})' = {}
  <2>1. \A S : S = {} => UNION {Visited(LookedUp(x))' : x \in S} = {} OBVIOUS
  <2> QED BY <1>5, <2>1
<1>9. SeenMissing' BY <1>1, <1>6, <1>7, <1>8 DEF SeenMissing
<1> QED BY <1>3, <1>4, <1>9

LEMMA ResolveIInv ==
  ASSUME IInv, NEW e \in Element, ResolveInOperation(e)
  PROVE  IInv'
<1> USE DEF IInv
<1> DEFINE op == [of |-> e, schema |-> Resolve(e)]
<1>1. /\ phase = "walk" /\ phase' = phase /\ registry' = registry
      /\ components' = components /\ ops' = Append(ops, op)
  BY DEF ResolveInOperation
<1>2. \A x : Resolve(x)' = Resolve(x)
  BY <1>1 DEF Resolve, ObjectSchema, ArraySchema, At, Named
<1>3. Operation' = Operation BY <1>2 DEF Operation
<1>4. op \in Operation /\ op.of = e BY DEF Operation
<1> HIDE DEF op
<1>5. /\ ops' \in Seq(Operation)
      /\ DOMAIN ops' = DOMAIN ops \cup {Len(ops) + 1}
      /\ ops'[Len(ops) + 1] = op
      /\ \A i \in DOMAIN ops : ops'[i] = ops[i]
  BY <1>1, <1>4, AppendProperties, LenProperties DEF TypeOK
<1>6. TypeOK' BY <1>1, <1>2, <1>3, <1>5 DEF TypeOK
<1>7. CollectedFirst' BY <1>1 DEF CollectedFirst
<1>8. Resolved' = Resolved \cup {e}
  <2>1. Len(ops) + 1 \notin DOMAIN ops BY LenProperties DEF TypeOK
  <2>2. {ops'[i].of : i \in DOMAIN ops'} = {ops[i].of : i \in DOMAIN ops} \cup {e}
    BY <1>4, <1>5, <2>1
  <2> QED BY <1>1, <2>2 DEF Resolved
<1>9. SeenMissing' BY <1>1, <1>8, ReportAllRight DEF ResolveInOperation
<1> QED BY <1>6, <1>7, <1>9

LEMMA AddIInv ==
  ASSUME IInv, NEW t \in Types, AddComponent(t)
  PROVE  IInv'
<1> USE DEF IInv
<1>1. /\ phase = "components" /\ phase' = phase /\ registry' = registry /\ ops' = ops
      /\ t \in DOMAIN registry /\ t \notin DOMAIN components
      /\ components' = [u \in DOMAIN components \cup {t} |->
                          IF u = t THEN Resolve(registry[t]) ELSE components[u]]
      /\ ReportAll(registry[t])
  BY DEF AddComponent, Add
<1>2. \A x : Resolve(x)' = Resolve(x)
  BY <1>1 DEF Resolve, ObjectSchema, ArraySchema, At, Named
<1>3. Operation' = Operation BY <1>2 DEF Operation
<1>4. DOMAIN components' = DOMAIN components \cup {t}
  BY <1>1
<1>5. \A u \in DOMAIN components' : components'[u] = Resolve(registry[u])
  BY <1>1 DEF TypeOK
<1>6. TypeOK' BY <1>1, <1>2, <1>3, <1>4, <1>5 DEF TypeOK
<1>7. CollectedFirst' BY <1>1 DEF CollectedFirst
<1>8. Resolved' = Resolved \cup {registry[t]} BY <1>1, <1>4 DEF Resolved
<1>9. registry[t] \in Element BY <1>1 DEF TypeOK
<1>10. SeenMissing' BY <1>1, <1>8, <1>9, ReportAllRight
<1> QED BY <1>6, <1>7, <1>10

\* A change of phase alone.
LEMMA PhaseIInv ==
  ASSUME IInv, UNCHANGED <<registry, ops, components, seen, errors>>,
         \/ phase' = phase
         \/ phase = "collect" /\ phase' = "walk"
         \/ phase = "walk" /\ phase' = "components"
         \/ /\ phase = "components" /\ phase' = "done"
            /\ DOMAIN registry = Suppressed \cup DOMAIN components
  PROVE  IInv'
<1> USE DEF IInv
<1>1. \A x : Resolve(x)' = Resolve(x)
  BY DEF Resolve, ObjectSchema, ArraySchema, At, Named
<1>2. Operation' = Operation BY <1>1 DEF Operation
<1>3. phase' \in {"collect", "walk", "components", "done"} BY DEF TypeOK
<1>4. TypeOK' BY <1>1, <1>2, <1>3 DEF TypeOK
<1>5. Suppressed' = Suppressed BY DEF Suppressed
<1>6. CollectedFirst' BY <1>5 DEF CollectedFirst
<1>7. ReportsOK(Reported)' BY DEF SeenMissing, ReportsOK, Reported
<1>8. \A x : Visited(LookedUp(x))' = Visited(LookedUp(x)) BY DEF Visited, LookedUp
<1>9. Resolved' = Resolved BY DEF Resolved
<1>10. SeenMissing' BY <1>7, <1>8, <1>9 DEF SeenMissing
<1> QED BY <1>4, <1>6, <1>10

LEMMA StepIInv == IInv /\ [Next]_vars => IInv'
<1> SUFFICES ASSUME IInv, [Next]_vars PROVE IInv' OBVIOUS
<1>1. ASSUME NEW id \in Types \cup {""}, NEW e \in Element, Collect(id, e) PROVE IInv'
  BY <1>1, CollectIInv
<1>2. CASE StartWalk BY <1>2, PhaseIInv DEF StartWalk
<1>3. ASSUME NEW e \in Element, ResolveInOperation(e) PROVE IInv' BY <1>3, ResolveIInv
<1>4. CASE StartComponents BY <1>4, PhaseIInv DEF StartComponents
<1>5. ASSUME NEW t \in Types, AddComponent(t) PROVE IInv' BY <1>5, AddIInv
<1>6. CASE Finish BY <1>6, PhaseIInv DEF Finish
<1>7. CASE UNCHANGED vars BY <1>7, PhaseIInv DEF vars
<1> QED BY <1>1, <1>2, <1>3, <1>4, <1>5, <1>6, <1>7 DEF Next, Done

\* What is resolved, and what was seen missing, is right in every state.
THEOREM Invariance == Spec => []IInv
<1> QED BY InitIInv, StepIInv, PTL DEF Spec

-----------------------------------------------------------------------------
\* Whatever a finished document refers to is in its components.schemas, except
\* for the reserved type: populateComponentsFromRegistry adds every type that
\* schemaForVisited can have named.
THEOREM RefsResolveAlways == Spec => []RefsResolve
<1>1. IInv => RefsResolve
  <2> SUFFICES ASSUME IInv, phase = "done", NEW s \in Schemas
               PROVE  RefsOf(s) \subseteq DOMAIN components \cup {Reserved}
    BY DEF RefsResolve
  <2> USE DEF IInv
  <2>1. \E e : s = Resolve(e)
    <3>1. CASE \E i \in DOMAIN ops : s = ops[i].schema
      <4>1. PICK i \in DOMAIN ops : s = ops[i].schema BY <3>1
      <4>2. ops[i] \in Operation BY LenProperties, ElementOfSeq DEF TypeOK
      <4>3. PICK e \in Element : ops[i] = [of |-> e, schema |-> Resolve(e)]
        BY <4>2 DEF Operation
      <4>4. s = Resolve(e) BY <4>1, <4>3
      <4> QED BY <4>4
    <3>2. CASE \E t \in DOMAIN components : s = components[t] BY <3>2 DEF TypeOK
    <3> QED BY <3>1, <3>2 DEF Schemas
  <2>2. RefsOf(s) \subseteq DOMAIN registry BY <2>1, RefsDefined
  <2>3. DOMAIN registry = Suppressed \cup DOMAIN components BY DEF CollectedFirst
  <2>4. Suppressed \subseteq {Reserved} BY DEF Suppressed
  <2> QED BY <2>2, <2>3, <2>4
<1> QED BY <1>1, Invariance, PTL

\* E006 is reported once for each type that something was resolved to and that no
\* data structure defines, and for no other: the resolver's seenMissing is shared
\* by the operations and the components.
THEOREM MissingReportedOnceAlways == Spec => []MissingReportedOnce
<1>1. IInv => MissingReportedOnce
  BY DEF IInv, SeenMissing, ReportsOK, Reported, MissingReportedOnce
<1> QED BY <1>1, Invariance, PTL

-----------------------------------------------------------------------------
(* Why the walk misses nothing and the passes lose nothing: the inductive    *)
(* invariant.                                                                *)

HeapOK ==
  /\ Untouched(source)
  /\ heap \in Seq(Schema) /\ Len(source.heap) <= Len(heap)
  /\ \A n \in DOMAIN heap : \A kid \in heap[n].kids : kid.node \in DOMAIN heap
  /\ pass \in Nat \ {0} /\ pass <= Len(Passes(version)) + 1
  /\ todo \subseteq DOMAIN heap /\ visited \subseteq DOMAIN heap

\* What a visited schema links to was visited or will be.
Frontier ==
  /\ source.roots \subseteq todo \cup visited
  /\ \A n \in visited : KidsOf(heap, n) \subseteq todo \cup visited

\* What a pass leaves of a schema.
Treated(name, n) ==
  CASE name = "refSiblings" -> heap[n].ref => ~HasSiblings(heap[n])
    [] name = "const" -> heap[n].const = {}
    [] name = "nullable" -> ~heap[n].nullable
    [] name = "examples" -> heap[n].example => HadBoth(n)

\* The running pass has treated what it visited, an earlier one all there is.
PassesTreat ==
  /\ Running => \A n \in visited : Treated(Passes(version)[pass], n)
  /\ \A p \in 1..(pass - 1) : \A n \in Reach(heap, Walked) : Treated(Passes(version)[p], n)

\* What the fields of one schema tell of one another.
FieldsFit ==
  \A n \in DOMAIN heap :
    /\ heap[n].nullable => heap[n].typeList = {}
    /\ heap[n].typeList # {} => "null" \in heap[n].typeList
    /\ heap[n].example /\ heap[n].examples => HadBoth(n)

\* A nullable reference has become a choice that null is an option of, or the
\* options are the author's.
NullOffered(n) ==
  /\ source.heap[n].nullable /\ ~heap[n].nullable
  /\ \E k \in Options(heap[n]) : heap[k] = NullSchema

SaysNull(s) == s.nullable \/ TypedNull(s)

OptionsKept(n) ==
  /\ Options(heap[n]) = Options(source.heap[n])
  /\ SaysNull(heap[n]) <=> SaysNull(source.heap[n])

\* At any time a schema means what it meant.
MeansTheSame ==
  \A n \in DOMAIN source.heap : Translatable(source.heap[n]) =>
    /\ heap[n].const # {} => heap[n].enum = {}
    /\ JSONSchema => Translatable(heap[n])
    /\ AcceptsLiterals(heap[n]) = AcceptsLiterals(source.heap[n])
    /\ OnlyNull(heap[n]) <=> OnlyNull(source.heap[n])
    /\ heap[n].doc = source.heap[n].doc
    /\ NullOffered(n) \/ OptionsKept(n)

\* References only move, and the walk does not leave the document.
RefsMove ==
  (JSONSchema => NullableRefsAlone(source.heap)) =>
    /\ JSONSchema => NullableRefsAlone(heap)
    /\ todo \cup visited \subseteq Reach(heap, Links)
    /\ Cardinality(Refs(heap)) = Cardinality(Refs(source.heap))

PassesInv == HeapOK /\ Frontier /\ PassesTreat /\ FieldsFit /\ MeansTheSame /\ RefsMove

-----------------------------------------------------------------------------
(* What a visit does to the heap.                                            *)

\* g is h with s at n and some schemas more.
Rewritten(h, g, n, s, more) ==
  /\ g \in Seq(Schema) /\ Len(g) = Len(h) + Len(more)
  /\ g[n] = s
  /\ \A x \in DOMAIN h \ {n} : g[x] = h[x]
  /\ \A i \in 1..Len(more) : g[Len(h) + i] = more[i]

LEMMA BlankType ==
  /\ Blank \in Schema /\ BareRef \in Schema /\ NullSchema \in Schema
BY DEF Blank, BareRef, NullSchema, Schema

LEMMA InPlace ==
  ASSUME NEW h \in Seq(Schema), NEW n \in DOMAIN h, NEW s \in Schema
  PROVE  Rewritten(h, [h EXCEPT ![n] = s], n, s, <<>>)
BY DEF Rewritten

LEMMA OneMore ==
  ASSUME NEW h \in Seq(Schema), NEW n \in DOMAIN h, NEW s \in Schema, NEW a \in Schema
  PROVE  Rewritten(h, Append([h EXCEPT ![n] = s], a), n, s, <<a>>)
BY DEF Rewritten

LEMMA TwoMore ==
  ASSUME NEW h \in Seq(Schema), NEW n \in DOMAIN h, NEW s \in Schema,
         NEW a \in Schema, NEW b \in Schema
  PROVE  Rewritten(h, [h EXCEPT ![n] = s] \o <<a, b>>, n, s, <<a, b>>)
BY DEF Rewritten

\* The record that is written in each case.
Moved(s, m) ==
  [s EXCEPT !.ref = FALSE, !.kids = @ \cup {[link |-> "allOf", node |-> m]}]

Choice(s, m) ==
  [Blank EXCEPT !.doc = s.doc,
                !.kids = {[link |-> "oneOf", node |-> m], [link |-> "oneOf", node |-> m + 1]}]

Listed(s) == [s EXCEPT !.typeList = {s.type, "null"} \ {""}, !.nullable = FALSE]

Promoted(s) == [s EXCEPT !.examples = TRUE, !.example = FALSE]

Enumerated(s) == [s EXCEPT !.enum = IF @ = {} THEN s.const ELSE @, !.const = {}]

LEMMA WrittenType ==
  ASSUME NEW s \in Schema, NEW m \in Nat
  PROVE  /\ Moved(s, m) \in Schema /\ Choice(s, m) \in Schema /\ Listed(s) \in Schema
         /\ Promoted(s) \in Schema /\ Enumerated(s) \in Schema
<1>1. /\ [link |-> "allOf", node |-> m] \in [link : Links, node : Nat]
      /\ [link |-> "oneOf", node |-> m] \in [link : Links, node : Nat]
      /\ [link |-> "oneOf", node |-> m + 1] \in [link : Links, node : Nat]
  BY DEF Links
<1>2. Moved(s, m) \in Schema BY <1>1 DEF Moved, Schema
<1>3. Choice(s, m) \in Schema BY <1>1 DEF Choice, Schema, Blank
<1>4. {s.type, "null"} \ {""} \in SUBSET {"string", "object", "null"} BY DEF Schema
<1>5. Listed(s) \in Schema BY <1>4 DEF Listed, Schema
<1>6. Promoted(s) \in Schema BY DEF Promoted, Schema
<1>7. Enumerated(s) \in Schema BY DEF Enumerated, Schema
<1> QED BY <1>2, <1>3, <1>5, <1>6, <1>7

\* One pass at one schema: nothing, or a record that says what it ought to.
LEMMA RefSiblingsIs ==
  ASSUME NEW h \in Seq(Schema), NEW n \in DOMAIN h
  PROVE  \/ RefSiblings(h, n) = h /\ (h[n].ref => ~HasSiblings(h[n]))
         \/ /\ h[n].ref
            /\ Rewritten(h, RefSiblings(h, n), n, Moved(h[n], Len(h) + 1), <<BareRef>>)
<1>1. h[n] \in Schema /\ Len(h) + 1 \in Nat OBVIOUS
<1>2. Moved(h[n], Len(h) + 1) \in Schema BY <1>1, WrittenType
<1>3. CASE h[n].ref /\ HasSiblings(h[n])
  <2>1. RefSiblings(h, n) = Append([h EXCEPT ![n] = Moved(h[n], Len(h) + 1)], BareRef)
    BY <1>1, <1>3, Zenon DEF RefSiblings, Moved
  <2> QED BY <1>2, <1>3, <2>1, BlankType, OneMore
<1>4. CASE ~(h[n].ref /\ HasSiblings(h[n])) BY <1>4 DEF RefSiblings
<1> QED BY <1>3, <1>4

LEMMA NullableIs ==
  ASSUME NEW h \in Seq(Schema), NEW n \in DOMAIN h
  PROVE  \/ Nullable(h, n) = h /\ ~h[n].nullable
         \/ /\ h[n].nullable /\ h[n].ref
            /\ Rewritten(h, Nullable(h, n), n, Choice(h[n], Len(h) + 1), <<BareRef, NullSchema>>)
         \/ /\ h[n].nullable /\ ~h[n].ref
            /\ Rewritten(h, Nullable(h, n), n, Listed(h[n]), <<>>)
<1>1. h[n] \in Schema /\ Len(h) + 1 \in Nat OBVIOUS
<1>2. Choice(h[n], Len(h) + 1) \in Schema /\ Listed(h[n]) \in Schema BY <1>1, WrittenType
<1>3. CASE h[n].nullable /\ h[n].ref
  <2>1. Len(h) + 1 + 1 = Len(h) + 2 OBVIOUS
  <2>2. Nullable(h, n) =
          [h EXCEPT ![n] = Choice(h[n], Len(h) + 1)] \o <<BareRef, NullSchema>>
    BY <1>3, <2>1 DEF Nullable, NullableRef, Choice
  <2> QED BY <1>2, <1>3, <2>2, BlankType, TwoMore
<1>4. CASE h[n].nullable /\ ~h[n].ref
  <2>1. Nullable(h, n) = [h EXCEPT ![n] = Listed(h[n])] BY <1>4 DEF Nullable, Listed
  <2> QED BY <1>2, <1>4, <2>1, InPlace
<1>5. CASE ~h[n].nullable BY <1>5 DEF Nullable
<1> QED BY <1>3, <1>4, <1>5

LEMMA ExamplesIs ==
  ASSUME NEW h \in Seq(Schema), NEW n \in DOMAIN h
  PROVE  \/ Examples(h, n) = h /\ (h[n].example => h[n].examples)
         \/ h[n].example /\ Rewritten(h, Examples(h, n), n, Promoted(h[n]), <<>>)
<1>1. h[n] \in Schema OBVIOUS
<1>2. Promoted(h[n]) \in Schema BY <1>1, WrittenType
<1>3. CASE h[n].example /\ ~h[n].examples
  <2>1. Examples(h, n) = [h EXCEPT ![n] = Promoted(h[n])] BY <1>3 DEF Examples, Promoted
  <2> QED BY <1>2, <1>3, <2>1, InPlace
<1>4. CASE ~(h[n].example /\ ~h[n].examples) BY <1>4 DEF Examples
<1> QED BY <1>3, <1>4

LEMMA ConstIs ==
  ASSUME NEW h \in Seq(Schema), NEW n \in DOMAIN h
  PROVE  \/ Const(h, n) = h /\ h[n].const = {}
         \/ h[n].const # {} /\ Rewritten(h, Const(h, n), n, Enumerated(h[n]), <<>>)
<1>1. h[n] \in Schema OBVIOUS
<1>2. Enumerated(h[n]) \in Schema BY <1>1, WrittenType
<1>3. CASE h[n].const # {}
  <2>1. Const(h, n) = [h EXCEPT ![n] = Enumerated(h[n])] BY <1>1, <1>3, Zenon DEF Const, Enumerated
  <2> QED BY <1>2, <1>3, <2>1, InPlace
<1>4. CASE h[n].const = {} BY <1>4 DEF Const
<1> QED BY <1>3, <1>4

-----------------------------------------------------------------------------
(* A visit.                                                                  *)

\* The names of the passes, and the versions they belong to.
LEMMA RunningPass ==
  ASSUME Running, pass \in Nat \ {0}
  PROVE  \/ version.line = "3.0" /\ pass = 1 /\ Passes(version) = <<"refSiblings", "const">>
         \/ version.line = "3.0" /\ pass = 2 /\ Passes(version) = <<"refSiblings", "const">>
         \/ JSONSchema /\ pass = 1 /\ Passes(version) = <<"nullable", "examples">>
         \/ JSONSchema /\ pass = 2 /\ Passes(version) = <<"nullable", "examples">>
<1>1. CASE version.line = "3.0" BY <1>1 DEF Running, Passes
<1>2. CASE version.line \in {"3.1", "3.2"}
  <2>1. Passes(version) = <<"nullable", "examples">> BY <1>2 DEF Passes
  <2>2. Len(Passes(version)) = 2 BY <2>1
  <2> QED BY <1>2, <2>1, <2>2 DEF Running, JSONSchema
<1>3. CASE version.line \notin {"3.0", "3.1", "3.2"}
  <2>1. Passes(version) = <<>> BY <1>3 DEF Passes
  <2>2. Len(Passes(version)) = 0 BY <2>1
  <2> QED BY <2>2 DEF Running
<1> QED BY <1>1, <1>2, <1>3

\* There was nothing for the pass to do.
Fits(name, s) ==
  /\ name = "refSiblings" => (s.ref => ~HasSiblings(s))
  /\ name = "const" => s.const = {}
  /\ name = "nullable" => ~s.nullable
  /\ name = "examples" => (s.example => s.examples)

Writes(name, h, n, s, more) ==
  \/ s = h[n] /\ more = <<>> /\ Fits(name, s)
  \/ /\ name = "refSiblings" /\ h[n].ref
     /\ s = Moved(h[n], Len(h) + 1) /\ more = <<BareRef>>
  \/ /\ name = "nullable" /\ h[n].nullable /\ h[n].ref
     /\ s = Choice(h[n], Len(h) + 1) /\ more = <<BareRef, NullSchema>>
  \/ /\ name = "nullable" /\ h[n].nullable /\ ~h[n].ref
     /\ s = Listed(h[n]) /\ more = <<>>
  \/ name = "examples" /\ h[n].example /\ s = Promoted(h[n]) /\ more = <<>>
  \/ name = "const" /\ h[n].const # {} /\ s = Enumerated(h[n]) /\ more = <<>>

LEMMA Unchanged ==
  ASSUME NEW h \in Seq(Schema), NEW n \in DOMAIN h
  PROVE  Rewritten(h, h, n, h[n], <<>>)
BY DEF Rewritten

LEMMA RewriteIs ==
  ASSUME NEW h \in Seq(Schema), NEW n \in DOMAIN h,
         NEW name \in {"refSiblings", "const", "nullable", "examples"}
  PROVE  \E s, more : Rewritten(h, Rewrite(name, h, n), n, s, more) /\ Writes(name, h, n, s, more)
<1>1. CASE name = "refSiblings"
  <2>1. Rewrite(name, h, n) = RefSiblings(h, n) BY <1>1 DEF Rewrite
  <2> QED BY <1>1, <2>1, RefSiblingsIs, Unchanged DEF Writes, Fits
<1>2. CASE name = "const"
  <2>1. Rewrite(name, h, n) = Const(h, n) BY <1>2 DEF Rewrite
  <2> QED BY <1>2, <2>1, ConstIs, Unchanged DEF Writes, Fits
<1>3. CASE name = "nullable"
  <2>1. Rewrite(name, h, n) = Nullable(h, n) BY <1>3 DEF Rewrite
  <2> QED BY <1>3, <2>1, NullableIs, Unchanged DEF Writes, Fits
<1>4. CASE name = "examples"
  <2>1. Rewrite(name, h, n) = Examples(h, n) BY <1>4 DEF Rewrite
  <2> QED BY <1>4, <2>1, ExamplesIs, Unchanged DEF Writes, Fits
<1> QED BY <1>1, <1>2, <1>3, <1>4

LEMMA VisitWrites ==
  ASSUME HeapOK, NEW n \in todo, Visit(n)
  PROVE  /\ n \in DOMAIN heap
         /\ \E s, more : /\ Rewritten(heap, heap', n, s, more)
                         /\ Writes(Passes(version)[pass], heap, n, s, more)
<1>1. n \in DOMAIN heap /\ heap \in Seq(Schema) BY DEF HeapOK
<1>2. Running /\ pass \in Nat \ {0} BY DEF HeapOK, Visit
<1>3. Passes(version)[pass] \in {"refSiblings", "const", "nullable", "examples"}
  BY <1>2, RunningPass
<1>4. heap' = Rewrite(Passes(version)[pass], heap, n) BY DEF Visit
<1> QED BY <1>1, <1>3, <1>4, RewriteIs

\* The new schemas, and who links to them.
NewNodes(h, g) == DOMAIN g \ DOMAIN h

Grown(h, g, n, old) ==
  /\ DOMAIN h \subseteq DOMAIN g
  /\ \A x \in DOMAIN h \ {n} : g[x] = h[x]
  /\ \A x \in NewNodes(h, g) : /\ g[x].kids = {}
                               /\ \E link \in Walked : [link |-> link, node |-> x] \in g[n].kids
  /\ old \subseteq g[n].kids
  /\ \A kid \in g[n].kids : kid \in old \/ kid.node \in NewNodes(h, g)

LEMMA Domains ==
  ASSUME NEW h \in Seq(Schema), NEW g, NEW n \in DOMAIN h, NEW s, NEW more,
         Rewritten(h, g, n, s, more), more \in {<<>>, <<BareRef>>, <<BareRef, NullSchema>>}
  PROVE  /\ DOMAIN h \subseteq DOMAIN g
         /\ more = <<>> => NewNodes(h, g) = {}
         /\ more = <<BareRef>> => /\ NewNodes(h, g) = {Len(h) + 1}
                                  /\ g[Len(h) + 1] = BareRef
         /\ more = <<BareRef, NullSchema>> =>
              /\ NewNodes(h, g) = {Len(h) + 1, Len(h) + 2}
              /\ g[Len(h) + 1] = BareRef /\ g[Len(h) + 2] = NullSchema
<1>1. CASE more = <<>> BY <1>1 DEF Rewritten, NewNodes
<1>2. CASE more = <<BareRef>>
  <2>1. Len(more) = 1 /\ more[1] = BareRef BY <1>2
  <2>2. Len(g) = Len(h) + 1 /\ g[Len(h) + 1] = BareRef BY <2>1 DEF Rewritten
  <2> QED BY <1>2, <2>2 DEF Rewritten, NewNodes
<1>3. CASE more = <<BareRef, NullSchema>>
  <2>1. Len(more) = 2 /\ more[1] = BareRef /\ more[2] = NullSchema BY <1>3
  <2>2. Len(g) = Len(h) + 2 /\ g[Len(h) + 1] = BareRef /\ g[Len(h) + 2] = NullSchema
    BY <2>1 DEF Rewritten
  <2>3. DOMAIN g = 1..(Len(h) + 2) /\ DOMAIN h = 1..Len(h) /\ Len(h) \in Nat
    BY <2>2 DEF Rewritten
  <2>4. NewNodes(h, g) = {Len(h) + 1, Len(h) + 2} BY <2>3 DEF NewNodes
  <2>5. DOMAIN h \subseteq DOMAIN g BY <2>3
  <2>6. more # <<BareRef>>
    <3>1. Len(<<BareRef>>) = 1 OBVIOUS
    <3> QED BY <2>1, <3>1
  <2>7. more # <<>>
    <3> SUFFICES ASSUME more = <<>> PROVE FALSE OBVIOUS
    <3>1. Len(more) = 0 OBVIOUS
    <3> QED BY <2>1, <3>1
  <2> QED BY <2>2, <2>4, <2>5, <2>6, <2>7
<1> QED BY <1>1, <1>2, <1>3

LEMMA NewKids == BareRef.kids = {} /\ NullSchema.kids = {}
BY DEF BareRef, NullSchema, Blank

\* The kids that a rewritten schema keeps: all but those of a nullable
\* reference that became a choice.
Lasting(name, h, n) == IF name = "nullable" /\ h[n].nullable /\ h[n].ref THEN {} ELSE h[n].kids

LEMMA WritesGrow ==
  ASSUME NEW h \in Seq(Schema), NEW g, NEW n \in DOMAIN h, NEW s, NEW more, NEW name,
         Rewritten(h, g, n, s, more), Writes(name, h, n, s, more)
  PROVE  Grown(h, g, n, Lasting(name, h, n))
<1>1. more \in {<<>>, <<BareRef>>, <<BareRef, NullSchema>>} BY DEF Writes
<1>2. g[n] = s /\ \A x \in DOMAIN h \ {n} : g[x] = h[x] BY DEF Rewritten
<1>3. h[n] \in Schema OBVIOUS
<1>4. CASE s = h[n] /\ more = <<>> /\ Fits(name, s)
  BY <1>1, <1>2, <1>4, Domains DEF Grown, Fits, Lasting
<1>5. CASE name = "refSiblings" /\ s = Moved(h[n], Len(h) + 1) /\ more = <<BareRef>>
  <2>1. s.kids = h[n].kids \cup {[link |-> "allOf", node |-> Len(h) + 1]}
    BY <1>3, <1>5 DEF Moved, Schema
  <2>2. NewNodes(h, g) = {Len(h) + 1} /\ g[Len(h) + 1].kids = {}
    BY <1>1, <1>5, Domains, NewKids
  <2>3. Lasting(name, h, n) = h[n].kids BY <1>5 DEF Lasting
  <2>4. DOMAIN h \subseteq DOMAIN g BY <1>1, Domains
  <2> QED BY <1>2, <2>1, <2>2, <2>3, <2>4 DEF Grown, Walked
<1>6. CASE /\ name = "nullable" /\ h[n].nullable /\ h[n].ref
           /\ s = Choice(h[n], Len(h) + 1) /\ more = <<BareRef, NullSchema>>
  <2>1. s.kids = {[link |-> "oneOf", node |-> Len(h) + 1], [link |-> "oneOf", node |-> Len(h) + 1 + 1]}
    BY <1>6 DEF Choice, Blank
  <2>2. NewNodes(h, g) = {Len(h) + 1, Len(h) + 2} /\ g[Len(h) + 1].kids = {} /\ g[Len(h) + 2].kids = {}
    BY <1>1, <1>6, Domains, NewKids
  <2>3. Lasting(name, h, n) = {} BY <1>6 DEF Lasting
  <2>4. DOMAIN h \subseteq DOMAIN g BY <1>1, Domains
  <2>5. Len(h) + 1 + 1 = Len(h) + 2 OBVIOUS
  <2> QED BY <1>2, <2>1, <2>2, <2>3, <2>4, <2>5 DEF Grown, Walked
<1>7. CASE /\ more = <<>>
           /\ \/ name = "nullable" /\ ~h[n].ref /\ s = Listed(h[n])
              \/ name = "examples" /\ s = Promoted(h[n])
              \/ name = "const" /\ s = Enumerated(h[n])
  <2>1. s.kids = h[n].kids BY <1>3, <1>7 DEF Listed, Promoted, Enumerated, Schema
  <2>2. NewNodes(h, g) = {} /\ DOMAIN h \subseteq DOMAIN g BY <1>1, <1>7, Domains
  <2>3. Lasting(name, h, n) = h[n].kids BY <1>7 DEF Lasting
  <2> QED BY <1>2, <2>1, <2>2, <2>3 DEF Grown
<1> QED BY <1>4, <1>5, <1>6, <1>7 DEF Writes

-----------------------------------------------------------------------------
(* What can be reached.                                                      *)

\* Links that stay within the heap.
Inside(h) == \A n \in DOMAIN h : \A kid \in h[n].kids : kid.node \in DOMAIN h

LEMMA ReachIn == ASSUME NEW h, NEW links PROVE Reach(h, links) \subseteq DOMAIN h
BY DEF Reach

LEMMA ReachRoots ==
  ASSUME NEW h, NEW links, source.roots \subseteq DOMAIN h
  PROVE  source.roots \subseteq Reach(h, links)
BY DEF Reach

LEMMA ReachLeast ==
  ASSUME NEW h, NEW links, NEW S \in SUBSET DOMAIN h,
         source.roots \subseteq S, Closed(h, links, S)
  PROVE  Reach(h, links) \subseteq S
BY DEF Reach

LEMMA ReachClosed ==
  ASSUME NEW h, NEW links, Inside(h)
  PROVE  Closed(h, links, Reach(h, links))
<1> SUFFICES ASSUME NEW n \in Reach(h, links), NEW kid \in h[n].kids, kid.link \in links
             PROVE  kid.node \in Reach(h, links)
  BY DEF Closed
<1>1. kid.node \in DOMAIN h BY ReachIn DEF Inside
<1>2. ASSUME NEW S \in SUBSET DOMAIN h, source.roots \subseteq S, Closed(h, links, S)
      PROVE  kid.node \in S
  <2>1. n \in S BY <1>2 DEF Reach
  <2> QED BY <1>2, <2>1 DEF Closed
<1> QED BY <1>1, <1>2 DEF Reach

\* Rewriting a schema without touching its links.
LEMMA ReachSame ==
  ASSUME NEW h, NEW g, NEW links, DOMAIN g = DOMAIN h, \A x \in DOMAIN h : g[x].kids = h[x].kids
  PROVE  Reach(g, links) = Reach(h, links)
<1>1. \A S \in SUBSET DOMAIN h : Closed(g, links, S) <=> Closed(h, links, S)
  BY DEF Closed
<1> QED BY <1>1 DEF Reach

\* walkSchemas knows every keyword but the neglected ones.
LEMMA WalkedLinks == Walked \subseteq Links /\ Links \ Neglected = Walked
BY DEF Links, Neglected, Walked

\* Rewriting a schema that was reached adds the new ones, and no more.
LEMMA ReachGrown ==
  ASSUME NEW h, NEW g, NEW n \in Reach(h, Links),
         Inside(h), source.roots \subseteq DOMAIN h, Grown(h, g, n, h[n].kids)
  PROVE  Reach(g, Links) = Reach(h, Links) \cup NewNodes(h, g)
<1> DEFINE R == Reach(h, Links) \cup NewNodes(h, g)
<1>1. n \in DOMAIN h /\ R \subseteq DOMAIN g BY ReachIn DEF NewNodes, Grown
<1>2. \A x \in DOMAIN h : \A kid \in h[x].kids : kid \in g[x].kids
  BY DEF Grown
<1>3. ASSUME NEW S \in SUBSET DOMAIN g, source.roots \subseteq S, Closed(g, Links, S)
      PROVE  R \subseteq S
  <2>1. Closed(h, Links, S \cap DOMAIN h)
    <3> SUFFICES ASSUME NEW x \in S \cap DOMAIN h, NEW kid \in h[x].kids, kid.link \in Links
                 PROVE  kid.node \in S \cap DOMAIN h
      BY DEF Closed
    <3>1. kid \in g[x].kids BY <1>2
    <3>2. kid.node \in S BY <1>3, <3>1 DEF Closed
    <3> QED BY <3>2 DEF Inside
  <2>2. S \cap DOMAIN h \in SUBSET DOMAIN h /\ source.roots \subseteq S \cap DOMAIN h BY <1>3
  <2>3. Reach(h, Links) \subseteq S BY <2>1, <2>2, ReachLeast
  <2>4. ASSUME NEW x \in NewNodes(h, g) PROVE x \in S
    <3>1. PICK link \in Walked : [link |-> link, node |-> x] \in g[n].kids BY DEF Grown
    <3>2. link \in Links BY WalkedLinks
    <3>3. n \in S BY <2>3
    <3>4. [link |-> link, node |-> x].link = link /\ [link |-> link, node |-> x].node = x OBVIOUS
    <3> QED BY <1>3, <3>1, <3>2, <3>3, <3>4 DEF Closed
  <2> QED BY <2>3, <2>4
<1>4. Closed(g, Links, R)
  <2> SUFFICES ASSUME NEW x \in R, NEW kid \in g[x].kids, kid.link \in Links
               PROVE  kid.node \in R
    BY DEF Closed
  <2>1. Closed(h, Links, Reach(h, Links)) BY ReachClosed
  <2>2. CASE x \in NewNodes(h, g) BY <2>2 DEF Grown
  <2>3. CASE x \in Reach(h, Links)
    <3>1. CASE kid \in h[x].kids BY <2>1, <2>3, <3>1 DEF Closed
    <3>2. CASE kid \notin h[x].kids
      <4>1. x = n BY <2>3, <3>2, ReachIn DEF Grown
      <4>2. kid.node \in NewNodes(h, g) BY <3>2, <4>1 DEF Grown
      <4> QED BY <4>2
    <3> QED BY <3>1, <3>2
  <2> QED BY <2>2, <2>3
<1>5. source.roots \subseteq R BY ReachRoots
<1>6. R \in SUBSET DOMAIN g BY <1>1
<1>7. Reach(g, Links) \subseteq R BY <1>4, <1>5, <1>6, ReachLeast
<1>8. R \subseteq Reach(g, Links) BY <1>3, <1>6 DEF Reach
<1> QED BY <1>7, <1>8

\* When nothing is left to do, everything was visited.
LEMMA AllVisited ==
  ASSUME HeapOK, Frontier, todo = {}
  PROVE  Reach(heap, Walked) \subseteq visited
<1>1. Closed(heap, Walked, visited)
  BY DEF Closed, Frontier, KidsOf
<1>2. source.roots \subseteq visited /\ visited \in SUBSET DOMAIN heap BY DEF Frontier, HeapOK
<1> QED BY <1>1, <1>2, ReachLeast

-----------------------------------------------------------------------------
(* The invariant: its beginning, and what a visit keeps.                     *)

LEMMA NormalizeInit == NormInit => PassesInv
<1> SUFFICES ASSUME NormInit PROVE PassesInv OBVIOUS
<1> USE DEF NormInit
<1>1. HeapOK
  <2>1. Len(Passes(version)) \in Nat BY DEF Passes
  <2> QED BY <2>1 DEF HeapOK, Untouched
<1>2. Frontier BY DEF Frontier
<1>3. PassesTreat BY DEF PassesTreat
<1>4. FieldsFit BY DEF FieldsFit, Untouched, HadBoth
<1>5. MeansTheSame
  BY DEF MeansTheSame, Translatable, OptionsKept
<1>6. RefsMove
  <2>1. source.roots \subseteq Reach(heap, Links) BY ReachRoots DEF Untouched
  <2> QED BY <2>1 DEF RefsMove
<1> QED BY <1>1, <1>2, <1>3, <1>4, <1>5, <1>6 DEF PassesInv

LEMMA InsideHeap == HeapOK => /\ Inside(heap) /\ heap \in Seq(Schema)
                              /\ source.roots \subseteq DOMAIN source.heap
                              /\ DOMAIN source.heap \subseteq DOMAIN heap
BY DEF HeapOK, Untouched, Inside

LEMMA LastingSmaller == ASSUME NEW name, NEW h, NEW n PROVE Lasting(name, h, n) \subseteq h[n].kids
BY DEF Lasting

LEMMA VisitGrows ==
  ASSUME HeapOK, NEW n \in todo, Visit(n)
  PROVE  /\ n \in DOMAIN heap /\ heap' \in Seq(Schema) /\ Len(heap) <= Len(heap')
         /\ Grown(heap, heap', n, Lasting(Passes(version)[pass], heap, n))
<1>1. PICK s, more : /\ Rewritten(heap, heap', n, s, more)
                     /\ Writes(Passes(version)[pass], heap, n, s, more)
  BY VisitWrites
<1>2. n \in DOMAIN heap /\ heap \in Seq(Schema) BY VisitWrites, InsideHeap
<1>3. more \in {<<>>, <<BareRef>>, <<BareRef, NullSchema>>} BY <1>1 DEF Writes
<1>4. DOMAIN heap \subseteq DOMAIN heap' BY <1>1, <1>2, <1>3, Domains
<1>5. heap' \in Seq(Schema) BY <1>1 DEF Rewritten
<1>6. Len(heap) <= Len(heap') BY <1>2, <1>4, <1>5
<1> QED BY <1>1, <1>2, <1>5, <1>6, WritesGrow

LEMMA VisitType ==
  ASSUME HeapOK, NEW n \in todo, Visit(n)
  PROVE  HeapOK'
<1>1. /\ n \in DOMAIN heap /\ heap' \in Seq(Schema) /\ Len(heap) <= Len(heap')
      /\ Grown(heap, heap', n, Lasting(Passes(version)[pass], heap, n))
  BY VisitGrows
<1>2. source' = source /\ pass' = pass /\ version' = version BY DEF Visit
<1>3. \A x \in DOMAIN heap' : \A kid \in heap'[x].kids : kid.node \in DOMAIN heap'
  <2> SUFFICES ASSUME NEW x \in DOMAIN heap', NEW kid \in heap'[x].kids
               PROVE  kid.node \in DOMAIN heap'
    OBVIOUS
  <2>1. CASE x \in DOMAIN heap \ {n} BY <1>1, <2>1, InsideHeap DEF Grown, Inside
  <2>2. CASE x = n
    <3>1. kid \in heap[n].kids \/ kid.node \in NewNodes(heap, heap')
      BY <1>1, <2>2, LastingSmaller DEF Grown
    <3> QED BY <1>1, <3>1, InsideHeap DEF Grown, Inside, NewNodes
  <2>3. CASE x \in NewNodes(heap, heap') BY <1>1, <2>3 DEF Grown
  <2> QED BY <2>1, <2>2, <2>3 DEF NewNodes
<1>4. visited' \subseteq DOMAIN heap'
  BY <1>1 DEF Visit, HeapOK, Grown
<1>5. todo' \subseteq DOMAIN heap'
  <2>1. KidsOf(heap', n) \subseteq DOMAIN heap' BY <1>1, <1>3 DEF KidsOf, Grown
  <2> QED BY <1>1, <2>1 DEF Visit, HeapOK, Grown
<1>6. Len(source.heap) <= Len(heap')
  BY <1>1 DEF HeapOK, Untouched
<1> QED BY <1>1, <1>2, <1>3, <1>4, <1>5, <1>6 DEF HeapOK, Untouched

LEMMA VisitFrontier ==
  ASSUME HeapOK, Frontier, NEW n \in todo, Visit(n)
  PROVE  Frontier'
<1>1. Grown(heap, heap', n, Lasting(Passes(version)[pass], heap, n)) BY VisitGrows
<1>2. /\ visited' = visited \cup {n} /\ source' = source
      /\ todo' = (todo \cup KidsOf(heap', n)) \ visited'
  BY DEF Visit
<1>3. ASSUME NEW x \in visited' PROVE KidsOf(heap', x) \subseteq todo' \cup visited'
  <2>1. CASE x = n BY <1>2, <2>1
  <2>2. CASE x # n
    <3>1. heap'[x] = heap[x] BY <1>1, <1>2, <2>2 DEF Grown, HeapOK
    <3>2. KidsOf(heap', x) = KidsOf(heap, x) BY <3>1 DEF KidsOf
    <3> QED BY <1>2, <2>2, <3>2 DEF Frontier
  <2> QED BY <2>1, <2>2
<1> QED BY <1>2, <1>3 DEF Frontier


-----------------------------------------------------------------------------
(* What a pass is done with stays so.                                        *)

\* Treated, of any schema; had: its author gave examples beside an example.
Good(name, s, had) ==
  /\ name = "refSiblings" => (s.ref => ~HasSiblings(s))
  /\ name = "const" => s.const = {}
  /\ name = "nullable" => ~s.nullable
  /\ name = "examples" => (s.example => had)

LEMMA TreatedIsGood ==
  ASSUME NEW name \in {"refSiblings", "const", "nullable", "examples"}, NEW n
  PROVE  Treated(name, n) <=> Good(name, heap[n], HadBoth(n))
BY DEF Treated, Good

LEMMA WritesGood ==
  ASSUME NEW h \in Seq(Schema), NEW n \in DOMAIN h, NEW s, NEW more, NEW name, NEW had \in BOOLEAN,
         Writes(name, h, n, s, more), h[n].example /\ h[n].examples => had
  PROVE  Good(name, s, had)
<1>1. h[n] \in Schema OBVIOUS
<1>2. CASE s = h[n] /\ Fits(name, s) BY <1>2 DEF Fits, Good
<1>3. CASE name = "refSiblings" /\ s = Moved(h[n], Len(h) + 1)
  <2>1. ~s.ref BY <1>1, <1>3 DEF Moved, Schema
  <2> QED BY <1>3, <2>1 DEF Good
<1>4. CASE name = "nullable" /\ s = Choice(h[n], Len(h) + 1)
  <2>1. ~s.nullable BY <1>4 DEF Choice, Blank
  <2> QED BY <1>4, <2>1 DEF Good
<1>5. CASE name = "nullable" /\ s = Listed(h[n])
  <2>1. ~s.nullable BY <1>1, <1>5 DEF Listed, Schema
  <2> QED BY <1>5, <2>1 DEF Good
<1>6. CASE name = "examples" /\ s = Promoted(h[n])
  <2>1. ~s.example BY <1>1, <1>6 DEF Promoted, Schema
  <2> QED BY <1>6, <2>1 DEF Good
<1>7. CASE name = "const" /\ s = Enumerated(h[n])
  <2>1. s.const = {} BY <1>1, <1>7 DEF Enumerated, Schema
  <2> QED BY <1>7, <2>1 DEF Good
<1> QED BY <1>2, <1>3, <1>4, <1>5, <1>6, <1>7 DEF Writes

\* The second pass of a version changes no link, and undoes nothing.
Second(first, name) ==
  \/ first = "refSiblings" /\ name = "const"
  \/ first = "nullable" /\ name = "examples"

LEMMA SecondKeeps ==
  ASSUME NEW h \in Seq(Schema), NEW n \in DOMAIN h, NEW s, NEW more, NEW name, NEW first,
         Writes(name, h, n, s, more), Second(first, name)
  PROVE  /\ more = <<>> /\ s.kids = h[n].kids
         /\ \A had \in BOOLEAN : Good(first, h[n], had) => Good(first, s, had)
<1>1. h[n] \in Schema OBVIOUS
<1>2. CASE s = h[n] /\ more = <<>> BY <1>2
<1>3. CASE name = "examples" /\ s = Promoted(h[n]) /\ more = <<>>
  <2>1. s.kids = h[n].kids /\ s.nullable = h[n].nullable
    BY <1>1, <1>3 DEF Promoted, Schema
  <2> QED BY <1>3, <2>1 DEF Second, Good
<1>4. CASE name = "const" /\ s = Enumerated(h[n]) /\ more = <<>>
  <2>1. s.kids = h[n].kids /\ s.ref = h[n].ref
    BY <1>1, <1>4 DEF Enumerated, Schema
  <2>2. ASSUME ~HasSiblings(h[n]) PROVE s = h[n]
    <3>1. h[n].const = {} /\ h[n].enum = {}
      <4>1. [h[n] EXCEPT !.ref = FALSE] = Blank BY <2>2 DEF HasSiblings
      <4>2. Blank.const = {} /\ Blank.enum = {} BY DEF Blank
      <4> QED BY <1>1, <4>1, <4>2 DEF Schema
    <3> QED BY <1>1, <1>4, <3>1 DEF Enumerated, Schema
  <2> QED BY <1>4, <2>1, <2>2 DEF Second, Good
<1> QED BY <1>2, <1>3, <1>4 DEF Writes, Second

LEMMA ReachNext ==
  ASSUME source' = source
  PROVE  /\ Reach(heap, Walked)' = Reach(heap', Walked)
         /\ Reach(heap, Links)' = Reach(heap', Links)
BY DEF Reach

LEMMA VisitPasses ==
  ASSUME HeapOK, PassesTreat, FieldsFit, NEW n \in todo, Visit(n)
  PROVE  PassesTreat'
<1>1. PICK s, more : /\ Rewritten(heap, heap', n, s, more)
                     /\ Writes(Passes(version)[pass], heap, n, s, more)
  BY VisitWrites
<1>2. n \in DOMAIN heap /\ heap \in Seq(Schema) /\ pass \in Nat \ {0}
  BY VisitWrites, InsideHeap DEF HeapOK
<1>3. /\ Running /\ source' = source /\ pass' = pass /\ version' = version
      /\ visited' = visited \cup {n}
  BY DEF Visit
<1>4. heap'[n] = s /\ \A x \in DOMAIN heap \ {n} : heap'[x] = heap[x] BY <1>1 DEF Rewritten
<1>5. Passes(version)' = Passes(version) BY <1>3 DEF Passes
<1>6. \A x : HadBoth(x)' <=> HadBoth(x) BY <1>3 DEF HadBoth
<1>8. Passes(version)[pass] \in {"refSiblings", "const", "nullable", "examples"}
  BY <1>2, <1>3, RunningPass
<1>9. ASSUME NEW x \in visited' PROVE Good(Passes(version)[pass], heap'[x], HadBoth(x))
  <2>1. CASE x = n
    <3>1. heap[n].example /\ heap[n].examples => HadBoth(n) BY <1>2 DEF FieldsFit
    <3>2. HadBoth(n) \in BOOLEAN
      BY <1>2 DEF HadBoth, HeapOK, Untouched, Schema
    <3>3. Good(Passes(version)[pass], s, HadBoth(n)) BY <1>1, <1>2, <3>1, <3>2, WritesGood
    <3> QED BY <1>4, <2>1, <3>3
  <2>2. CASE x # n
    <3>1. x \in visited /\ heap'[x] = heap[x] BY <1>3, <1>4, <2>2 DEF HeapOK
    <3>2. Treated(Passes(version)[pass], x) BY <1>3, <3>1 DEF PassesTreat
    <3> QED BY <1>8, <3>1, <3>2, TreatedIsGood
  <2> QED BY <2>1, <2>2
<1>10. ASSUME NEW p \in 1..(pass - 1), NEW x \in Reach(heap, Walked)'
       PROVE  Good(Passes(version)[p], heap'[x], HadBoth(x))
  <2>1. /\ p = 1 /\ pass = 2 /\ Second(Passes(version)[1], Passes(version)[pass])
        /\ Passes(version)[1] \in {"refSiblings", "nullable"}
    BY <1>2, <1>3, RunningPass DEF Second
  <2>2. more = <<>> /\ s.kids = heap[n].kids
    BY <1>1, <1>2, <2>1, SecondKeeps
  <2>3. DOMAIN heap' = DOMAIN heap
    BY <1>1, <1>2, <2>2 DEF Rewritten
  <2>4. \A y \in DOMAIN heap : heap'[y].kids = heap[y].kids BY <1>4, <2>2
  <2>5. x \in Reach(heap, Walked) BY <1>3, <2>3, <2>4, ReachSame, ReachNext
  <2>6. Treated(Passes(version)[1], x) BY <2>1, <2>5 DEF PassesTreat
  <2>7. CASE x = n
    <3>1. HadBoth(n) \in BOOLEAN
      BY <1>2 DEF HadBoth, HeapOK, Untouched, Schema
    <3>2. Good(Passes(version)[1], heap[n], HadBoth(n)) BY <2>1, <2>6, <2>7, TreatedIsGood
    <3>3. Good(Passes(version)[1], s, HadBoth(n))
      BY <1>1, <1>2, <2>1, <3>1, <3>2, SecondKeeps
    <3> QED BY <1>4, <2>1, <2>7, <3>3
  <2>8. CASE x # n
    <3>1. heap'[x] = heap[x] BY <1>4, <2>5, <2>8, ReachIn
    <3> QED BY <2>1, <2>6, <3>1, TreatedIsGood
  <2> QED BY <2>7, <2>8
<1>11. \A x : Treated(Passes(version)[pass], x)'
               <=> Good(Passes(version)[pass], heap'[x], HadBoth(x))
  BY <1>3, <1>5, <1>6, <1>8 DEF Treated, Good
<1>12. ASSUME NEW p \in 1..(pass - 1)
       PROVE  Passes(version)[p] \in {"refSiblings", "const", "nullable", "examples"}
  BY <1>2, <1>3, RunningPass
<1>13. \A p \in 1..(pass - 1) : \A x : Treated(Passes(version)[p], x)'
               <=> Good(Passes(version)[p], heap'[x], HadBoth(x))
  BY <1>3, <1>5, <1>6, <1>12 DEF Treated, Good
<1> QED BY <1>3, <1>5, <1>9, <1>10, <1>11, <1>13 DEF PassesTreat

LEMMA VisitFields ==
  ASSUME HeapOK, FieldsFit, NEW n \in todo, Visit(n)
  PROVE  FieldsFit'
<1>1. PICK s, more : /\ Rewritten(heap, heap', n, s, more)
                     /\ Writes(Passes(version)[pass], heap, n, s, more)
  BY VisitWrites
<1>2. n \in DOMAIN heap /\ heap \in Seq(Schema) /\ heap[n] \in Schema
  BY VisitWrites, InsideHeap
<1>3. heap'[n] = s /\ \A x \in DOMAIN heap \ {n} : heap'[x] = heap[x] BY <1>1 DEF Rewritten
<1>4. \A x : HadBoth(x)' <=> HadBoth(x) BY DEF Visit, HadBoth
<1> DEFINE Fine(t, x) == /\ t.nullable => t.typeList = {}
                         /\ t.typeList # {} => "null" \in t.typeList
                         /\ t.example /\ t.examples => HadBoth(x)
<1>5. \A x \in DOMAIN heap : Fine(heap[x], x) BY DEF FieldsFit
<1>6. Fine(s, n)
  <2>0. Fine(heap[n], n) BY <1>2, <1>5
  <2>1. CASE s = heap[n] BY <2>0, <2>1
  <2>2. CASE s = Moved(heap[n], Len(heap) + 1)
    BY <1>2, <2>0, <2>2 DEF Moved, Schema
  <2>3. CASE s = Choice(heap[n], Len(heap) + 1)
    BY <2>3 DEF Choice, Blank
  <2>4. CASE s = Listed(heap[n])
    BY <1>2, <2>0, <2>4 DEF Listed, Schema
  <2>5. CASE s = Promoted(heap[n])
    BY <1>2, <2>0, <2>5 DEF Promoted, Schema
  <2>6. CASE s = Enumerated(heap[n])
    BY <1>2, <2>0, <2>6 DEF Enumerated, Schema
  <2> QED BY <1>1, <2>1, <2>2, <2>3, <2>4, <2>5, <2>6 DEF Writes
<1>7. \A x \in NewNodes(heap, heap') : Fine(heap'[x], x)
  <2>2. more \in {<<>>, <<BareRef>>, <<BareRef, NullSchema>>} BY <1>1 DEF Writes
  <2>3. \A x \in NewNodes(heap, heap') : heap'[x] \in {BareRef, NullSchema}
    BY <1>1, <1>2, <2>2, Domains
  <2> QED BY <2>3 DEF BareRef, NullSchema, Blank
<1>8. \A x \in DOMAIN heap' : Fine(heap'[x], x)
  BY <1>3, <1>5, <1>6, <1>7 DEF NewNodes
<1> QED BY <1>4, <1>8 DEF FieldsFit

-----------------------------------------------------------------------------
(* What a schema means.                                                      *)

\* s means what t means; null may be said by a choice instead.
SameMeaning(s, t) ==
  /\ s.const # {} => s.enum = {}
  /\ AcceptsLiterals(s) = AcceptsLiterals(t)
  /\ OnlyNull(s) <=> OnlyNull(t)
  /\ s.doc = t.doc

SameOptions(s, t) ==
  /\ Options(s) = Options(t)
  /\ SaysNull(s) <=> SaysNull(t)
  /\ s.nullable => t.nullable

LEMMA MovedMeans ==
  ASSUME NEW t \in Schema, NEW m \in Nat, t.const # {} => t.enum = {}
  PROVE  SameMeaning(Moved(t, m), t) /\ SameOptions(Moved(t, m), t)
<1> DEFINE s == Moved(t, m)
<1>1. /\ s.const = t.const /\ s.enum = t.enum /\ s.type = t.type /\ s.typeList = t.typeList
      /\ s.nullable = t.nullable /\ s.doc = t.doc
      /\ s.kids = t.kids \cup {[link |-> "allOf", node |-> m]}
  BY DEF Moved, Schema
<1> HIDE DEF s
<1>2. {k \in s.kids : k.link = "oneOf"} = {k \in t.kids : k.link = "oneOf"} BY <1>1
<1>3. Options(s) = Options(t) BY <1>2 DEF Options
<1>4. AcceptsLiterals(s) = AcceptsLiterals(t) BY <1>1 DEF AcceptsLiterals
<1>5. SameMeaning(s, t) BY <1>1, <1>4 DEF SameMeaning, OnlyNull
<1>6. SameOptions(s, t) BY <1>1, <1>3 DEF SameOptions, SaysNull, TypedNull
<1> QED BY <1>5, <1>6 DEF s

LEMMA PromotedMeans ==
  ASSUME NEW t \in Schema, t.const # {} => t.enum = {}
  PROVE  /\ SameMeaning(Promoted(t), t) /\ SameOptions(Promoted(t), t)
         /\ Translatable(t) => Translatable(Promoted(t))
<1> DEFINE s == Promoted(t)
<1>1. /\ s.const = t.const /\ s.enum = t.enum /\ s.type = t.type /\ s.typeList = t.typeList
      /\ s.nullable = t.nullable /\ s.doc = t.doc /\ s.kids = t.kids /\ s.ref = t.ref
  BY DEF Promoted, Schema
<1> HIDE DEF s
<1>2. AcceptsLiterals(s) = AcceptsLiterals(t) BY <1>1 DEF AcceptsLiterals
<1>3. SameMeaning(s, t) BY <1>1, <1>2 DEF SameMeaning, OnlyNull
<1>4. SameOptions(s, t) BY <1>1 DEF SameOptions, SaysNull, TypedNull, Options
<1>5. Translatable(t) => Translatable(s) BY <1>1 DEF Translatable
<1> QED BY <1>3, <1>4, <1>5 DEF s

LEMMA EnumeratedMeans ==
  ASSUME NEW t \in Schema, t.const # {}, t.enum = {}
  PROVE  SameMeaning(Enumerated(t), t) /\ SameOptions(Enumerated(t), t)
<1> DEFINE s == Enumerated(t)
<1>1. /\ s.const = {} /\ s.enum = t.const /\ s.type = t.type /\ s.typeList = t.typeList
      /\ s.nullable = t.nullable /\ s.doc = t.doc /\ s.kids = t.kids
  BY DEF Enumerated, Schema
<1> HIDE DEF s
<1>2. AcceptsLiterals(s) = AcceptsLiterals(t) BY <1>1 DEF AcceptsLiterals
<1>3. SameMeaning(s, t) BY <1>1, <1>2 DEF SameMeaning, OnlyNull
<1>4. SameOptions(s, t) BY <1>1 DEF SameOptions, SaysNull, TypedNull, Options
<1> QED BY <1>3, <1>4 DEF s

LEMMA ListedMeans ==
  ASSUME NEW t \in Schema, t.nullable, ~t.ref, t.typeList = {}, Translatable(t)
  PROVE  /\ SameMeaning(Listed(t), t) /\ SameOptions(Listed(t), t)
         /\ Translatable(Listed(t))
<1> DEFINE s == Listed(t)
<1>1. /\ s.const = t.const /\ s.enum = t.enum /\ s.type = t.type
      /\ s.typeList = {t.type, "null"} \ {""}
      /\ s.nullable = FALSE /\ s.doc = t.doc /\ s.kids = t.kids /\ s.ref = t.ref
  BY DEF Listed, Schema
<1>2. t.type # "" /\ t.type \in {"string", "object", "null"} BY DEF Translatable, Schema
<1> HIDE DEF s
<1>3. s.typeList = {t.type, "null"} BY <1>1, <1>2
<1>4. AcceptsLiterals(s) = AcceptsLiterals(t) BY <1>1, <1>2, <1>3 DEF AcceptsLiterals
<1>5. OnlyNull(s) <=> OnlyNull(t) BY <1>2, <1>3 DEF OnlyNull
<1>6. SameMeaning(s, t) BY <1>1, <1>4, <1>5 DEF SameMeaning, Translatable
<1>7. SameOptions(s, t) BY <1>1, <1>3 DEF SameOptions, SaysNull, TypedNull, Options
<1>8. Translatable(s) BY <1>1 DEF Translatable
<1> QED BY <1>6, <1>7, <1>8 DEF s

LEMMA ChoiceMeans ==
  ASSUME NEW t \in Schema, NEW m \in Nat, t.nullable, t.ref, t.typeList = {}, Translatable(t)
  PROVE  /\ SameMeaning(Choice(t, m), t) /\ Translatable(Choice(t, m))
         /\ ~Choice(t, m).nullable /\ m + 1 \in Options(Choice(t, m))
<1> DEFINE s == Choice(t, m)
<1>1. /\ s.const = {} /\ s.enum = {} /\ s.type = "" /\ s.typeList = {} /\ s.doc = t.doc
      /\ s.nullable = FALSE /\ [link |-> "oneOf", node |-> m + 1] \in s.kids
  BY DEF Choice, Blank
<1>2. t.type = "" /\ t.const = {} /\ t.enum = {} BY DEF Translatable
<1> HIDE DEF s
<1>3. AcceptsLiterals(s) = AcceptsLiterals(t) BY <1>1, <1>2 DEF AcceptsLiterals
<1>4. SameMeaning(s, t) BY <1>1, <1>2, <1>3 DEF SameMeaning, OnlyNull
<1>5. Translatable(s) BY <1>1 DEF Translatable
<1> DEFINE null == [link |-> "oneOf", node |-> m + 1]
<1>6. null.link = "oneOf" /\ null.node = m + 1 OBVIOUS
<1>7. m + 1 \in Options(s) BY <1>1, <1>6 DEF Options
<1> QED BY <1>1, <1>4, <1>5, <1>7 DEF s

LEMMA NullStays ==
  ASSUME NEW h \in Seq(Schema), NEW n \in DOMAIN h, NEW s, NEW more, NEW name,
         Writes(name, h, n, s, more), h[n] = NullSchema
  PROVE  s = NullSchema
<1>1. /\ ~NullSchema.ref /\ ~NullSchema.nullable /\ ~NullSchema.example
      /\ NullSchema.const = {}
  BY DEF NullSchema, Blank
<1> QED BY <1>1 DEF Writes

\* A visit changes what the schema means no more than that.
LEMMA VisitMeans ==
  ASSUME HeapOK, FieldsFit, NEW n \in todo, Visit(n),
         heap[n].const # {} => heap[n].enum = {}, JSONSchema => Translatable(heap[n])
  PROVE  /\ SameMeaning(heap'[n], heap[n])
         /\ JSONSchema => Translatable(heap'[n])
         /\ \/ SameOptions(heap'[n], heap[n])
            \/ /\ JSONSchema /\ heap[n].nullable /\ heap[n].ref /\ ~heap'[n].nullable
               /\ \E k \in Options(heap'[n]) : heap'[k] = NullSchema
<1>1. PICK s, more : /\ Rewritten(heap, heap', n, s, more)
                     /\ Writes(Passes(version)[pass], heap, n, s, more)
  BY VisitWrites
<1>2. n \in DOMAIN heap /\ heap \in Seq(Schema) /\ heap[n] \in Schema /\ Len(heap) + 1 \in Nat
  BY VisitWrites, InsideHeap
<1>3. heap'[n] = s BY <1>1 DEF Rewritten
<1>4. Running /\ pass \in Nat \ {0} BY DEF HeapOK, Visit
<1>5. /\ Passes(version)[pass] = "refSiblings" => ~JSONSchema
      /\ Passes(version)[pass] = "const" => ~JSONSchema
      /\ Passes(version)[pass] = "nullable" => JSONSchema
  BY <1>4, RunningPass DEF JSONSchema
<1>6. heap[n].nullable => heap[n].typeList = {} BY <1>2 DEF FieldsFit
<1>7. CASE s = heap[n] BY <1>3, <1>7 DEF SameMeaning, SameOptions
<1>8. CASE Passes(version)[pass] = "refSiblings" /\ s = Moved(heap[n], Len(heap) + 1)
  BY <1>2, <1>3, <1>5, <1>8, MovedMeans
<1>9. CASE /\ Passes(version)[pass] = "nullable" /\ heap[n].nullable /\ heap[n].ref
           /\ s = Choice(heap[n], Len(heap) + 1) /\ more = <<BareRef, NullSchema>>
  <2>1. heap'[Len(heap) + 2] = NullSchema BY <1>1, <1>2, <1>9, Domains
  <2>2. Len(heap) + 1 + 1 = Len(heap) + 2 BY <1>2
  <2> QED BY <1>2, <1>3, <1>5, <1>6, <1>9, <2>1, <2>2, ChoiceMeans
<1>10. CASE /\ Passes(version)[pass] = "nullable" /\ heap[n].nullable /\ ~heap[n].ref
            /\ s = Listed(heap[n])
  BY <1>2, <1>3, <1>5, <1>6, <1>10, ListedMeans
<1>11. CASE s = Promoted(heap[n]) BY <1>2, <1>3, <1>11, PromotedMeans
<1>12. CASE Passes(version)[pass] = "const" /\ heap[n].const # {} /\ s = Enumerated(heap[n])
  BY <1>2, <1>3, <1>5, <1>12, EnumeratedMeans
<1> QED BY <1>1, <1>7, <1>8, <1>9, <1>10, <1>11, <1>12 DEF Writes

LEMMA VisitMeaning ==
  ASSUME HeapOK, FieldsFit, MeansTheSame, NEW n \in todo, Visit(n)
  PROVE  MeansTheSame'
<1>1. PICK s, more : /\ Rewritten(heap, heap', n, s, more)
                     /\ Writes(Passes(version)[pass], heap, n, s, more)
  BY VisitWrites
<1>2. n \in DOMAIN heap /\ heap \in Seq(Schema) BY VisitWrites, InsideHeap
<1>3. heap'[n] = s /\ \A x \in DOMAIN heap \ {n} : heap'[x] = heap[x] BY <1>1 DEF Rewritten
<1>4. source' = source /\ version' = version BY DEF Visit
<1>5. \A k \in DOMAIN heap : heap[k] = NullSchema => heap'[k] = NullSchema
  BY <1>1, <1>2, <1>3, NullStays
<1> SUFFICES ASSUME NEW x \in DOMAIN source.heap, Translatable(source.heap[x])
             PROVE  /\ heap'[x].const # {} => heap'[x].enum = {}
                    /\ JSONSchema => Translatable(heap'[x])
                    /\ AcceptsLiterals(heap'[x]) = AcceptsLiterals(source.heap[x])
                    /\ OnlyNull(heap'[x]) <=> OnlyNull(source.heap[x])
                    /\ heap'[x].doc = source.heap[x].doc
                    /\ NullOffered(x)' \/ OptionsKept(x)'
  BY <1>4 DEF MeansTheSame, JSONSchema
<1>6. /\ heap[x].const # {} => heap[x].enum = {}
      /\ JSONSchema => Translatable(heap[x])
      /\ AcceptsLiterals(heap[x]) = AcceptsLiterals(source.heap[x])
      /\ OnlyNull(heap[x]) <=> OnlyNull(source.heap[x])
      /\ heap[x].doc = source.heap[x].doc
      /\ NullOffered(x) \/ OptionsKept(x)
  BY DEF MeansTheSame
<1>7. x \in DOMAIN heap BY InsideHeap
<1>8. SameOptions(heap'[x], heap[x]) => NullOffered(x)' \/ OptionsKept(x)'
  <2>1. ASSUME SameOptions(heap'[x], heap[x]), NullOffered(x)
        PROVE  NullOffered(x)'
    <3>1. PICK k \in Options(heap[x]) : heap[k] = NullSchema BY <2>1 DEF NullOffered
    <3>2. k \in DOMAIN heap BY <1>7, InsideHeap DEF Options, Inside
    <3>3. heap'[k] = NullSchema /\ k \in Options(heap'[x])
      BY <1>5, <2>1, <3>1, <3>2 DEF SameOptions
    <3> QED BY <1>4, <2>1, <3>3 DEF NullOffered, SameOptions
  <2>2. ASSUME SameOptions(heap'[x], heap[x]), OptionsKept(x)
        PROVE  OptionsKept(x)'
    BY <1>4, <2>2 DEF OptionsKept, SameOptions
  <2> QED BY <1>6, <2>1, <2>2
<1>9. CASE x # n
  <2>1. heap'[x] = heap[x] BY <1>3, <1>7, <1>9
  <2>2. SameOptions(heap'[x], heap[x]) BY <2>1 DEF SameOptions
  <2> QED BY <1>6, <1>8, <2>1, <2>2
<1>10. CASE x = n
  <2>1. /\ SameMeaning(heap'[x], heap[x])
        /\ JSONSchema => Translatable(heap'[x])
        /\ \/ SameOptions(heap'[x], heap[x])
           \/ /\ JSONSchema /\ heap[x].nullable /\ heap[x].ref /\ ~heap'[x].nullable
              /\ \E k \in Options(heap'[x]) : heap'[k] = NullSchema
    BY <1>6, <1>10, VisitMeans
  <2>2. ASSUME JSONSchema, heap[x].nullable, heap[x].ref, ~heap'[x].nullable,
               \E k \in Options(heap'[x]) : heap'[k] = NullSchema
        PROVE  NullOffered(x)'
    <3>1. OptionsKept(x) BY <1>6, <2>2 DEF NullOffered
    <3>2. SaysNull(source.heap[x]) BY <2>2, <3>1 DEF OptionsKept, SaysNull
    <3>3. heap[x].type = "" /\ heap[x].typeList = {}
      BY <1>6, <1>7, <2>2 DEF Translatable, FieldsFit
    <3>4. source.heap[x].typeList = {} BY DEF HeapOK, Untouched
    <3>5. source.heap[x].type # "null" BY <1>6, <3>3, <3>4 DEF OnlyNull
    <3>6. source.heap[x].nullable BY <3>2, <3>4, <3>5 DEF SaysNull, TypedNull
    <3> QED BY <1>4, <2>2, <3>6 DEF NullOffered
  <2> QED BY <1>6, <1>8, <2>1, <2>2 DEF SameMeaning
<1> QED BY <1>9, <1>10

-----------------------------------------------------------------------------
(* References only move.                                                     *)

LEMMA WritesRef ==
  ASSUME NEW h \in Seq(Schema), NEW n \in DOMAIN h, NEW s, NEW more, NEW name,
         Writes(name, h, n, s, more)
  PROVE  /\ s.ref /\ s.nullable => h[n].ref /\ h[n].nullable /\ s.kids = h[n].kids
         /\ \/ more = <<>> /\ s.ref = h[n].ref
            \/ more \in {<<BareRef>>, <<BareRef, NullSchema>>} /\ h[n].ref /\ ~s.ref
<1>1. h[n] \in Schema OBVIOUS
<1>2. CASE s = h[n] /\ more = <<>> BY <1>2
<1>3. CASE h[n].ref /\ s = Moved(h[n], Len(h) + 1) /\ more = <<BareRef>>
  <2>1. s.ref = FALSE BY <1>1, <1>3 DEF Moved, Schema
  <2> QED BY <1>3, <2>1
<1>4. CASE h[n].ref /\ s = Choice(h[n], Len(h) + 1) /\ more = <<BareRef, NullSchema>>
  <2>1. s.ref = FALSE BY <1>4 DEF Choice, Blank
  <2> QED BY <1>4, <2>1
<1>5. CASE s = Listed(h[n]) /\ more = <<>>
  <2>1. s.ref = h[n].ref /\ s.nullable = FALSE BY <1>1, <1>5 DEF Listed, Schema
  <2> QED BY <1>5, <2>1
<1>6. CASE s = Promoted(h[n]) /\ more = <<>>
  <2>1. s.ref = h[n].ref /\ s.nullable = h[n].nullable /\ s.kids = h[n].kids
    BY <1>1, <1>6 DEF Promoted, Schema
  <2> QED BY <1>6, <2>1
<1>7. CASE s = Enumerated(h[n]) /\ more = <<>>
  <2>1. s.ref = h[n].ref /\ s.nullable = h[n].nullable /\ s.kids = h[n].kids
    BY <1>1, <1>7 DEF Enumerated, Schema
  <2> QED BY <1>7, <2>1
<1> QED BY <1>2, <1>3, <1>4, <1>5, <1>6, <1>7 DEF Writes

LEMMA VisitLasting ==
  ASSUME HeapOK, NEW n \in todo, Visit(n), JSONSchema => NullableRefsAlone(heap)
  PROVE  Lasting(Passes(version)[pass], heap, n) = heap[n].kids
<1>1. Running /\ pass \in Nat \ {0} BY DEF HeapOK, Visit
<1>2. Passes(version)[pass] = "nullable" => JSONSchema
  BY <1>1, RunningPass
<1>3. n \in DOMAIN heap BY DEF HeapOK
<1> QED BY <1>2, <1>3 DEF Lasting, NullableRefsAlone

LEMMA RefsSwapped ==
  ASSUME NEW S, IsFiniteSet(S), NEW n \in S, NEW m, m \notin S
  PROVE  Cardinality((S \ {n}) \cup {m}) = Cardinality(S)
<1>1. IsFiniteSet(S \ {n}) /\ Cardinality(S \ {n}) = Cardinality(S) - 1
  BY FS_RemoveElement
<1>2. Cardinality((S \ {n}) \cup {m}) = Cardinality(S \ {n}) + 1
  BY <1>1, FS_AddElement
<1>3. Cardinality(S) \in Nat BY FS_CardinalityType
<1> QED BY <1>1, <1>2, <1>3

LEMMA VisitRefs ==
  ASSUME HeapOK, RefsMove, NEW n \in todo, Visit(n)
  PROVE  RefsMove'
<1>1. source' = source /\ version' = version BY DEF Visit
<1> SUFFICES ASSUME JSONSchema => NullableRefsAlone(source.heap)
             PROVE  /\ JSONSchema => NullableRefsAlone(heap')
                    /\ todo' \cup visited' \subseteq Reach(heap', Links)
                    /\ Cardinality(Refs(heap')) = Cardinality(Refs(source.heap))
  <2>1. JSONSchema' <=> JSONSchema BY <1>1 DEF JSONSchema
  <2>2. NullableRefsAlone(source.heap)' <=> NullableRefsAlone(source.heap)
    BY <1>1 DEF NullableRefsAlone
  <2>3. NullableRefsAlone(heap)' <=> NullableRefsAlone(heap') BY DEF NullableRefsAlone
  <2>4. Reach(heap, Links)' = Reach(heap', Links) BY <1>1, ReachNext
  <2>5. Refs(heap)' = Refs(heap') /\ Refs(source.heap)' = Refs(source.heap)
    BY <1>1 DEF Refs, Reach
  <2> QED BY <2>1, <2>2, <2>3, <2>4, <2>5 DEF RefsMove
<1>2. /\ JSONSchema => NullableRefsAlone(heap)
      /\ todo \cup visited \subseteq Reach(heap, Links)
      /\ Cardinality(Refs(heap)) = Cardinality(Refs(source.heap))
  BY DEF RefsMove
<1>3. PICK s, more : /\ Rewritten(heap, heap', n, s, more)
                     /\ Writes(Passes(version)[pass], heap, n, s, more)
  BY VisitWrites
<1>4. n \in DOMAIN heap /\ heap \in Seq(Schema) /\ n \in Reach(heap, Links)
  BY <1>2, VisitWrites, InsideHeap
<1>5. heap'[n] = s /\ \A x \in DOMAIN heap \ {n} : heap'[x] = heap[x] BY <1>3 DEF Rewritten
<1>6. Grown(heap, heap', n, heap[n].kids) BY <1>2, VisitGrows, VisitLasting
<1>7. Reach(heap', Links) = Reach(heap, Links) \cup NewNodes(heap, heap')
  BY <1>4, <1>6, InsideHeap, ReachGrown
<1>8. HeapOK' BY VisitType
<1>9. Inside(heap') BY <1>8 DEF HeapOK, Inside
<1>10. ASSUME JSONSchema PROVE NullableRefsAlone(heap')
  <2> SUFFICES ASSUME NEW x \in DOMAIN heap', heap'[x].ref, heap'[x].nullable
               PROVE  heap'[x].kids = {}
    BY DEF NullableRefsAlone
  <2>1. CASE x = n BY <1>2, <1>3, <1>4, <1>5, <1>10, <2>1, WritesRef DEF NullableRefsAlone
  <2>2. CASE x \in DOMAIN heap \ {n} BY <1>2, <1>5, <1>10, <2>2 DEF NullableRefsAlone
  <2>3. CASE x \in NewNodes(heap, heap') BY <1>6, <2>3 DEF Grown
  <2> QED BY <2>1, <2>2, <2>3 DEF NewNodes
<1>11. todo' \cup visited' \subseteq Reach(heap', Links)
  <2>1. KidsOf(heap', n) \subseteq Reach(heap', Links)
    <3>1. Closed(heap', Links, Reach(heap', Links)) BY <1>9, ReachClosed
    <3>2. n \in Reach(heap', Links) BY <1>4, <1>7
    <3> QED BY <3>1, <3>2, WalkedLinks DEF Closed, KidsOf
  <2> QED BY <1>2, <1>4, <1>7, <2>1 DEF Visit
<1>12. Cardinality(Refs(heap')) = Cardinality(Refs(heap))
  <2>1. CASE more = <<>> /\ s.ref = heap[n].ref
    <3>1. NewNodes(heap, heap') = {} BY <1>3, <1>4, <2>1, Domains
    <3>2. \A x \in DOMAIN heap : heap'[x].ref = heap[x].ref BY <1>5, <2>1
    <3>3. Refs(heap') = Refs(heap) BY <1>7, <3>1, <3>2, ReachIn DEF Refs
    <3> QED BY <3>3
  <2>2. CASE more \in {<<BareRef>>, <<BareRef, NullSchema>>} /\ heap[n].ref /\ ~s.ref
    <3> DEFINE m == Len(heap) + 1
    <3>1. BareRef.ref /\ ~NullSchema.ref BY DEF BareRef, NullSchema, Blank
    <3>2. /\ m \in NewNodes(heap, heap') /\ heap'[m].ref
          /\ \A x \in NewNodes(heap, heap') \ {m} : ~heap'[x].ref
      BY <1>3, <1>4, <2>2, <3>1, Domains
    <3>3. m \notin Reach(heap, Links) BY <3>2, ReachIn DEF NewNodes
    <3>4. Refs(heap') = (Refs(heap) \ {n}) \cup {m}
      <4>1. \A x \in Reach(heap, Links) : x # n => heap'[x] = heap[x] BY <1>5, ReachIn
      <4>2. ~heap'[n].ref BY <1>5, <2>2
      <4> HIDE DEF m
      <4> QED BY <1>7, <3>2, <3>3, <4>1, <4>2 DEF Refs
    <3>5. n \in Refs(heap) /\ m \notin Refs(heap) BY <1>4, <2>2, <3>3 DEF Refs
    <3>6. IsFiniteSet(Refs(heap))
      <4>1. DOMAIN heap = 1..Len(heap) /\ Len(heap) \in Nat BY <1>4
      <4>2. Refs(heap) \subseteq 1..Len(heap) BY <4>1, ReachIn DEF Refs
      <4>3. IsFiniteSet(1..Len(heap)) BY <4>1, FS_Interval
      <4> QED BY <4>2, <4>3, FS_Subset
    <3> HIDE DEF m
    <3> QED BY <3>4, <3>5, <3>6, RefsSwapped
  <2> QED BY <1>3, <1>4, <2>1, <2>2, WritesRef
<1> QED BY <1>2, <1>10, <1>11, <1>12

-----------------------------------------------------------------------------
(* The invariant holds.                                                      *)

LEMMA VisitKeeps == ASSUME PassesInv, NEW n \in todo, Visit(n) PROVE PassesInv'
BY VisitType, VisitFrontier, VisitPasses, VisitFields, VisitMeaning, VisitRefs DEF PassesInv

\* When a walk ends, its pass has treated all there is.
LEMMA NextPassKeeps == ASSUME PassesInv, NextPass PROVE PassesInv'
<1> USE DEF PassesInv
<1>1. /\ Running /\ todo = {} /\ pass' = pass + 1 /\ todo' = source.roots /\ visited' = {}
      /\ version' = version /\ source' = source /\ heap' = heap
  BY DEF NextPass
<1>2. pass \in Nat \ {0} /\ Len(Passes(version)) \in Nat BY DEF HeapOK, Passes
<1>3. HeapOK'
  <2>1. source.roots \subseteq DOMAIN heap BY InsideHeap
  <2>2. pass + 1 <= Len(Passes(version)) + 1 BY <1>1, <1>2 DEF Running
  <2>3. Passes(version)' = Passes(version) BY <1>1 DEF Passes
  <2> QED BY <1>1, <1>2, <2>1, <2>2, <2>3 DEF HeapOK, Untouched
<1>4. Frontier' BY <1>1 DEF Frontier
<1>5. PassesTreat'
  <2>1. Reach(heap, Walked)' = Reach(heap, Walked) BY <1>1 DEF Reach
  <2>2. Reach(heap, Walked) \subseteq visited BY <1>1, AllVisited
  <2>3. ASSUME NEW p \in 1..pass, NEW x \in Reach(heap, Walked)
        PROVE  Treated(Passes(version)[p], x)
    <3>1. CASE p = pass BY <1>1, <2>2, <3>1 DEF PassesTreat
    <3>2. CASE p # pass
      <4>1. p \in 1..(pass - 1) BY <1>2, <3>2
      <4> QED BY <4>1 DEF PassesTreat
    <3> QED BY <3>1, <3>2
  <2>4. Passes(version)' = Passes(version) BY <1>1 DEF Passes
  <2>5. \A name, x : Treated(name, x)' <=> Treated(name, x) BY <1>1 DEF Treated, HadBoth
  <2>6. pass' - 1 = pass BY <1>1, <1>2
  <2> QED BY <1>1, <2>1, <2>3, <2>4, <2>5, <2>6 DEF PassesTreat
<1>6. FieldsFit' BY <1>1 DEF FieldsFit, HadBoth
<1>7. MeansTheSame'
  BY <1>1 DEF MeansTheSame, JSONSchema, NullOffered, OptionsKept
<1>8. RefsMove'
  <2>1. source.roots \subseteq Reach(heap, Links) BY InsideHeap, ReachRoots
  <2>2. Reach(heap, Links)' = Reach(heap, Links) BY <1>1 DEF Reach
  <2>3. Refs(heap)' = Refs(heap) /\ Refs(source.heap)' = Refs(source.heap)
    BY <1>1 DEF Refs, Reach
  <2> QED BY <1>1, <2>1, <2>2, <2>3 DEF RefsMove, JSONSchema, NullableRefsAlone
<1> QED BY <1>3, <1>4, <1>5, <1>6, <1>7, <1>8

LEMMA StutterKeeps == ASSUME PassesInv, UNCHANGED normVars PROVE PassesInv'
<1>1. /\ version' = version /\ source' = source /\ heap' = heap /\ pass' = pass
      /\ todo' = todo /\ visited' = visited
  BY DEF normVars
<1> USE <1>1 DEF PassesInv
<1>2. Passes(version)' = Passes(version) BY DEF Passes
<1>3. /\ Reach(heap, Walked)' = Reach(heap, Walked)
      /\ Reach(heap, Links)' = Reach(heap, Links)
  BY DEF Reach
<1>4. HeapOK' BY <1>2 DEF HeapOK, Untouched
<1>5. Frontier' BY DEF Frontier, KidsOf
<1>6. PassesTreat'
  <2>1. \A name, x : Treated(name, x)' <=> Treated(name, x) BY DEF Treated, HadBoth
  <2> QED BY <1>2, <1>3, <2>1 DEF PassesTreat, Running
<1>7. FieldsFit' BY DEF FieldsFit, HadBoth
<1>8. MeansTheSame' BY DEF MeansTheSame, JSONSchema, NullOffered, OptionsKept
<1>9. RefsMove'
  <2>1. Refs(heap)' = Refs(heap) /\ Refs(source.heap)' = Refs(source.heap) BY DEF Refs, Reach
  <2> QED BY <1>3, <2>1 DEF RefsMove, JSONSchema, NullableRefsAlone
<1> QED BY <1>4, <1>5, <1>6, <1>7, <1>8, <1>9

LEMMA NormalizeStep == PassesInv /\ [NormNext]_normVars => PassesInv'
BY VisitKeeps, NextPassKeeps, StutterKeeps DEF NormNext, NormDone

\* The inductive invariant of the passes holds for any documents, whatever their
\* schemas link to, and for any order in which a walk visits them.
THEOREM NormalizeInvariance == NormSpec => []PassesInv
BY NormalizeInit, NormalizeStep, PTL DEF NormSpec

-----------------------------------------------------------------------------
(* What it says at the end.                                                  *)

\* When no pass runs, those of the version have all treated what is reached.
LEMMA AtTheEnd ==
  ASSUME PassesInv, ~Running, NEW n \in Reach(heap, Walked)
  PROVE  /\ version.line = "3.0" => (heap[n].ref => ~HasSiblings(heap[n])) /\ heap[n].const = {}
         /\ JSONSchema => ~heap[n].nullable /\ (heap[n].example => HadBoth(n))
<1>1. \A p \in 1..(pass - 1) : Treated(Passes(version)[p], n) BY DEF PassesInv, PassesTreat
<1>2. pass \in Nat /\ pass > Len(Passes(version)) /\ Len(Passes(version)) \in Nat
  BY DEF PassesInv, HeapOK, Running, Passes
<1>3. CASE version.line = "3.0"
  <2>1. Passes(version) = <<"refSiblings", "const">> BY <1>3 DEF Passes
  <2>2. 1 \in 1..(pass - 1) /\ 2 \in 1..(pass - 1) BY <1>2, <2>1
  <2>3. Treated("refSiblings", n) /\ Treated("const", n) BY <1>1, <2>1, <2>2
  <2> QED BY <1>3, <2>3 DEF Treated, JSONSchema
<1>4. CASE JSONSchema
  <2>1. Passes(version) = <<"nullable", "examples">> BY <1>4 DEF Passes, JSONSchema
  <2>2. 1 \in 1..(pass - 1) /\ 2 \in 1..(pass - 1) BY <1>2, <2>1
  <2>3. Treated("nullable", n) /\ Treated("examples", n) BY <1>1, <2>1, <2>2
  <2> QED BY <1>4, <2>3 DEF Treated, JSONSchema
<1> QED BY <1>3, <1>4

LEMMA RenderedFields ==
  ASSUME NEW s \in Schema
  PROVE  /\ Rendered(s).ref = s.ref /\ Rendered(s).const = s.const /\ Rendered(s).enum = s.enum
         /\ Rendered(s).example = s.example /\ Rendered(s).kids = s.kids
         /\ Rendered(s).typeList = s.typeList
         /\ s.typeList = {} => Rendered(s) = s
         /\ s.typeList # {} => Rendered(s).type = "" /\ Rendered(s).nullable = FALSE
         /\ Rendered(s).nullable => s.nullable
         /\ ~HasSiblings(s) => ~HasSiblings(Rendered(s))
<1>1. CASE s.typeList = {} BY <1>1 DEF Rendered
<1>2. CASE s.typeList # {}
  <2>1. HasSiblings(s)
    <3>1. [s EXCEPT !.ref = FALSE].typeList # Blank.typeList BY <1>2 DEF Schema, Blank
    <3> QED BY <3>1 DEF HasSiblings
  <2> QED BY <1>2, <2>1 DEF Rendered, Schema
<1> QED BY <1>1, <1>2

LEMMA FormFollows == PassesInv => InTargetForm
<1> SUFFICES ASSUME PassesInv, ~Running, NEW n \in Reach(heap, Walked)
             PROVE  TargetForm(Rendered(heap[n]), n)
  BY WalkedLinks DEF InTargetForm
<1>1. n \in DOMAIN heap /\ heap \in Seq(Schema) BY ReachIn, InsideHeap DEF PassesInv
<1>2. heap[n] \in Schema BY <1>1
<1> QED BY <1>2, AtTheEnd, RenderedFields DEF TargetForm

\* Null is allowed after the passes where it was allowed before.
LEMMA NullKept ==
  ASSUME PassesInv, ~Running, NEW n \in DOMAIN source.heap, n \in Reach(heap, Walked),
         Translatable(source.heap[n]),
         \A k \in Options(source.heap[n]) : Translatable(source.heap[k])
  PROVE  AllowsNull(heap, n, ~JSONSchema) <=> AllowsNull(source.heap, n, TRUE)
<1> DEFINE s == heap[n]
           o == source.heap[n]
<1> USE DEF PassesInv
<1>1. /\ s \in Schema /\ o \in Schema /\ n \in DOMAIN heap
  BY InsideHeap DEF HeapOK, Untouched
<1>2. NullOffered(n) \/ OptionsKept(n) BY DEF MeansTheSame
<1>3. o.typeList = {} /\ Rendered(o) = o BY <1>1, RenderedFields DEF HeapOK, Untouched
<1>4. Rendered(s).kids = s.kids /\ Options(Rendered(s)) = Options(s)
  BY <1>1, RenderedFields DEF Options
<1>5. JSONSchema => ~s.nullable BY AtTheEnd
<1>6. (Rendered(s).nullable \/ TypedNull(Rendered(s))) <=> SaysNull(s)
  BY <1>1, RenderedFields DEF FieldsFit, SaysNull, TypedNull
<1>7. (~JSONSchema /\ Rendered(s).nullable) <=> Rendered(s).nullable
  BY <1>1, <1>5, RenderedFields
<1>8. AllowsNull(heap, n, ~JSONSchema)
        <=> SaysNull(s) \/ \E k \in Options(s) : OnlyNull(heap[k])
  BY <1>4, <1>6, <1>7 DEF AllowsNull
<1>9. AllowsNull(source.heap, n, TRUE)
        <=> SaysNull(o) \/ \E k \in Options(o) : OnlyNull(source.heap[k])
  BY <1>3 DEF AllowsNull, SaysNull
<1>10. CASE NullOffered(n)
  <2>1. SaysNull(o) BY <1>10 DEF NullOffered, SaysNull
  <2>2. OnlyNull(NullSchema) BY DEF OnlyNull, NullSchema, Blank
  <2> QED BY <1>8, <1>9, <1>10, <2>1, <2>2 DEF NullOffered
<1>11. CASE OptionsKept(n)
  <2>1. Options(o) \subseteq DOMAIN source.heap BY DEF Options, HeapOK, Untouched
  <2>2. \A k \in Options(o) : OnlyNull(heap[k]) <=> OnlyNull(source.heap[k])
    BY <2>1 DEF MeansTheSame
  <2> QED BY <1>8, <1>9, <1>11, <2>2 DEF OptionsKept
<1> QED BY <1>2, <1>10, <1>11

LEMMA MeaningFollows == PassesInv => MeaningKept
BY NullKept, WalkedLinks DEF PassesInv, MeansTheSame, MeaningKept

LEMMA RefsFollow == PassesInv => RefsKept
BY DEF PassesInv, RefsMove, RefsKept

\* When the passes are done, every schema that can be reached without not, if,
\* then or else has the form of the target version: those behind shared and
\* cyclic links and those that a pass has made included.
THEOREM InTargetFormAlways == NormSpec => []InTargetForm
BY NormalizeInvariance, FormFollows, PTL

\* The passes lose and double no $ref, at any moment of a walk; on 3.1 and 3.2 in
\* documents whose nullable references hold no schemas.
THEOREM RefsKeptAlways == NormSpec => []RefsKept
BY NormalizeInvariance, RefsFollow, PTL

\* A schema accepts after the passes the literals it accepted before them, says
\* of null what it said, and keeps its description, whatever the order of the
\* visits, where the target has words for it.
THEOREM MeaningKeptAlways == NormSpec => []MeaningKept
BY NormalizeInvariance, MeaningFollows, PTL
=============================================================================
