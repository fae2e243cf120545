---------------------------- MODULE ParamSharing ----------------------------
(***************************************************************************)
(* The last structural passes of RefractToOASWithOptions over parameters:   *)
(* promotePathParams pushes the path-level parameters into the operations   *)
(* as shared pointers, assignAnchors turns a pointer met more than once     *)
(* into one anchored body and aliases, and Marshal writes the result.       *)
(* doc.Paths is a Go map, so each pass visits the paths in any order.       *)
(***************************************************************************)
EXTENDS Naturals, Sequences, FiniteSets

CONSTANTS
  Paths,      \* keys of doc.Paths
  Methods,    \* the methods that occur
  Params,     \* the parameters, as pointers
  NoId,       \* the empty AnchorID / AliasID
  Documents   \* the documents the walk may hand over

\* Slip: pathOperations lists head before the method it belongs to.
WalkOrderHeadFirst == <<"head", "get", "put", "post", "delete", "patch", "options">>

\* The order of pathOperations, which both passes follow.
WalkOrder == <<"get", "put", "post", "delete", "patch", "options", "head">>

\* The order of the fields of oas.PathItem, which encoding/json follows.
EmitOrder == <<"get", "put", "post", "delete", "options", "head", "patch">>

ASSUME MethodsAssumption ==
  Methods \subseteq {"get", "put", "post", "delete", "patch", "options", "head"}

ASSUME PathsAssumption == IsFiniteSet(Paths) /\ IsFiniteSet(Methods)

ASSUME NoIdAssumption == NoId \notin Nat \cup Paths \cup Params

\* What the walk leaves under a path: PathItem.Parameters, and the Parameters
\* of each operation there is.  No list holds a pointer twice, and a pointer
\* is under one path only.
Injective(s) == \A i, j \in DOMAIN s : s[i] = s[j] => i = j

Pointers(item) ==
  {item.level[i] : i \in DOMAIN item.level} \cup
  UNION {{item.ops[m][i] : i \in DOMAIN item.ops[m]} : m \in DOMAIN item.ops}

ASSUME DocumentsAssumption ==
  \A d \in Documents :
    /\ DOMAIN d = Paths
    /\ \A path \in Paths :
         /\ d[path].level \in Seq(Params)
         /\ DOMAIN d[path].ops \subseteq Methods
         /\ \A m \in DOMAIN d[path].ops :
              /\ d[path].ops[m] \in Seq(Params)
              /\ Injective(d[path].ops[m] \o d[path].level)
    /\ \A path, other \in Paths :
         path # other => Pointers(d[path]) \cap Pointers(d[other]) = {}

VARIABLES
  doc,       \* the document as the walk left it
  phase,     \* "promote", "assign" or "done"
  unvisited, \* the paths assignAnchors' second loop has not come to yet
  at,        \* where assignAnchors' second loop is
  level,     \* level[path]: PathItem.Parameters
  ops,       \* ops[path][method]: Operation.Parameters, as slots
  count,     \* count[p]: what assignAnchors' first loop counted
  anchor,    \* anchor[p]: AnchorID of the parameter p points to
  idx        \* number of the next ref_N

vars == <<doc, phase, unvisited, at, level, ops, count, anchor, idx>>

\* A slot of Operation.Parameters holds a pointer of the walk (alias NoId) or
\* a copy of its target made by assignAnchors, with an AliasID.
Slot(p) == [param |-> p, alias |-> NoId]

Idle == [path |-> NoId, method |-> 1, slot |-> 1]

\* The walk's operations, every parameter as a pointer.
WalkedOps(d) ==
  [path \in Paths |-> [m \in DOMAIN d[path].ops |->
     [i \in DOMAIN d[path].ops[m] |-> Slot(d[path].ops[m][i])]]]

Init ==
  /\ doc \in Documents
  /\ phase = "promote"
  /\ unvisited = Paths
  /\ at = Idle
  /\ level = [path \in Paths |-> doc[path].level]
  /\ ops = WalkedOps(doc)
  /\ count = [p \in Params |-> 0]
  /\ anchor = [p \in Params |-> NoId]
  /\ idx = 0

-----------------------------------------------------------------------------
(* promotePathParams.                                                        *)

HasParam(list, p) == \E i \in DOMAIN list : list[i] = Slot(p)

\* Slip: the path's parameters are put in front of the operation's.
WithInFront(list, p) == IF HasParam(list, p) THEN list ELSE <<Slot(p)>> \o list

With(list, p) == IF HasParam(list, p) THEN list ELSE Append(list, Slot(p))

\* The next path-level parameter of a path goes to all of its operations;
\* the code's loops are the other way round and clear the list at the end,
\* which nobody can see.
Promote(path) ==
  /\ phase = "promote"
  /\ level[path] # <<>>
  /\ ops' = [ops EXCEPT ![path] =
               [m \in DOMAIN ops[path] |-> With(ops[path][m], Head(level[path]))]]
  /\ level' = [level EXCEPT ![path] = Tail(@)]
  /\ UNCHANGED <<doc, phase, unvisited, at, count, anchor, idx>>

-----------------------------------------------------------------------------
(* assignAnchors: a loop that counts, a loop that names.                     *)

Places(p) ==
  {pm \in Paths \X Methods :
     pm[2] \in DOMAIN ops[pm[1]] /\ HasParam(ops[pm[1]][pm[2]], p)}

CountPointers ==
  /\ phase = "promote"
  /\ \A path \in Paths : level[path] = <<>>
  /\ phase' = "assign"
  /\ count' = [p \in Params |-> Cardinality(Places(p))]
  /\ UNCHANGED <<doc, unvisited, at, level, ops, anchor, idx>>

EnterPath(path) ==
  /\ phase = "assign"
  /\ at.path = NoId
  /\ path \in unvisited
  /\ unvisited' = unvisited \ {path}
  /\ at' = [path |-> path, method |-> 1, slot |-> 1]
  /\ UNCHANGED <<doc, phase, level, ops, count, anchor, idx>>

Here == WalkOrder[at.method]

\* The inner loop is at a slot of an operation that exists.
InOperation ==
  /\ at.path # NoId
  /\ Here \in DOMAIN ops[at.path]
  /\ at.slot <= Len(ops[at.path][Here])

LeaveOperation ==
  /\ at.path # NoId
  /\ ~InOperation
  /\ at' = IF at.method = Len(WalkOrder) THEN Idle
           ELSE [path |-> at.path, method |-> at.method + 1, slot |-> 1]
  /\ UNCHANGED <<doc, phase, unvisited, level, ops, count, anchor, idx>>

\* Every slot of the operation that holds p becomes an alias of it.
Aliased(list, p) ==
  [i \in DOMAIN list |->
     IF list[i] = Slot(p) THEN [param |-> p, alias |-> anchor[p]] ELSE list[i]]

NextSlot == at' = [path |-> at.path, method |-> at.method, slot |-> at.slot + 1]

\* Slip: sharing starts at the third use.
SkipPairs(slot) == slot.alias # NoId \/ count[slot.param] < 3

\* A slot that an earlier replacement turned into an alias counts zero.
Skip(slot) == slot.alias # NoId \/ count[slot.param] < 2

SkipSlot ==
  /\ InOperation
  /\ Skip(ops[at.path][Here][at.slot])
  /\ NextSlot
  /\ UNCHANGED <<doc, phase, unvisited, level, ops, count, anchor, idx>>

\* Slip: the number is not advanced.
NameSlotSame ==
  /\ InOperation
  /\ LET slot == ops[at.path][Here][at.slot] IN
       /\ ~Skip(slot)
       /\ anchor[slot.param] = NoId
       /\ anchor' = [anchor EXCEPT ![slot.param] = idx]
  /\ NextSlot
  /\ UNCHANGED <<doc, phase, unvisited, level, ops, count, idx>>

NameSlot ==
  /\ InOperation
  /\ LET slot == ops[at.path][Here][at.slot] IN
       /\ ~Skip(slot)
       /\ anchor[slot.param] = NoId
       /\ anchor' = [anchor EXCEPT ![slot.param] = idx]
       /\ idx' = idx + 1
  /\ NextSlot
  /\ UNCHANGED <<doc, phase, unvisited, level, ops, count>>

AliasSlot ==
  /\ InOperation
  /\ LET slot == ops[at.path][Here][at.slot] IN
       /\ ~Skip(slot)
       /\ anchor[slot.param] # NoId
       /\ ops' = [ops EXCEPT ![at.path][Here] = Aliased(@, slot.param)]
  /\ NextSlot
  /\ UNCHANGED <<doc, phase, unvisited, level, count, anchor, idx>>

Finish ==
  /\ phase = "assign"
  /\ at.path = NoId
  /\ unvisited = {}
  /\ phase' = "done"
  /\ UNCHANGED <<doc, unvisited, at, level, ops, count, anchor, idx>>

Done == phase = "done" /\ UNCHANGED vars

Next ==
  \/ \E path \in Paths : Promote(path) \/ EnterPath(path)
  \/ CountPointers \/ LeaveOperation \/ SkipSlot \/ NameSlot \/ AliasSlot
  \/ Finish \/ Done

Spec == Init /\ [][Next]_vars

-----------------------------------------------------------------------------
(* What Marshal writes.                                                      *)

\* How Parameter.MarshalJSON renders a slot, which jsonToYAML turns into
\* "*ref_N", "&ref_N ..." or a plain body, and the JSON output keeps.
Rendering(slot) ==
  IF slot.alias # NoId THEN [form |-> "$$alias", id |-> slot.alias]
  ELSE IF anchor[slot.param] # NoId THEN [form |-> "$$anchor", id |-> anchor[slot.param]]
  ELSE [form |-> "body", id |-> NoId]

EmitRank(m) == CHOOSE k \in 1..Len(EmitOrder) : EmitOrder[k] = m

\* Every slot of a path, as <<method, index>>.
Slots(path) == UNION {{<<m, i>> : i \in DOMAIN ops[path][m]} : m \in DOMAIN ops[path]}

At(path, s) == ops[path][s[1]][s[2]]

\* Slot s of a path is written before slot t of the same path.
Precedes(s, t) ==
  \/ EmitRank(s[1]) < EmitRank(t[1])
  \/ s[1] = t[1] /\ s[2] < t[2]

-----------------------------------------------------------------------------
(* Properties.                                                               *)

SlotType == [param : Params, alias : Nat \cup {NoId}]

OpsTypeOK ==
  /\ DOMAIN ops = Paths
  /\ \A path \in Paths :
       /\ DOMAIN ops[path] = DOMAIN doc[path].ops
       /\ \A m \in DOMAIN ops[path] : ops[path][m] \in Seq(SlotType)

TypeOK ==
  /\ doc \in Documents
  /\ phase \in {"promote", "assign", "done"}
  /\ unvisited \subseteq Paths
  /\ at \in [path : Paths \cup {NoId}, method : 1..7, slot : Nat \ {0}]
  /\ level \in [Paths -> Seq(Params)]
  /\ OpsTypeOK
  /\ count \in [Params -> Nat]
  /\ anchor \in [Params -> Nat \cup {NoId}]
  /\ idx \in Nat

\* No two parameters are ever given the same ref_N, so that an alias can be
\* read in one way only.
UniqueIds ==
  \A p, q \in Params : anchor[p] = anchor[q] /\ anchor[p] # NoId => p = q

\* An alias always carries the anchor of the parameter it stands for.
AliasNamesItsParam ==
  \A path \in Paths : \A m \in DOMAIN ops[path] : \A i \in DOMAIN ops[path][m] :
    LET slot == ops[path][m][i]
    IN  slot.alias # NoId => slot.alias = anchor[slot.param]

\* What an operation is to have: its own parameters, then those of its path.
Wanted(path, m) == doc[path].ops[m] \o doc[path].level

\* When the passes are over, reading the aliases back gives every operation
\* its own parameters followed by those of its path, each once, in order.
Read(slot) ==
  IF slot.alias = NoId THEN slot.param
  ELSE CHOOSE p \in Params : anchor[p] = slot.alias

MeaningKept ==
  phase = "done" =>
    \A path \in Paths : \A m \in DOMAIN ops[path] :
      [i \in DOMAIN ops[path][m] |-> Read(ops[path][m][i])]
        = Wanted(path, m)

\* A shared parameter's body is written in exactly one place of the document.
BodyOnce ==
  phase = "done" =>
    \A path \in Paths : \A s, t \in Slots(path) :
      /\ At(path, s).param = At(path, t).param
      /\ At(path, s).alias = NoId
      /\ At(path, t).alias = NoId
      => s = t

\* In the text that is written, an alias comes after the anchor it names: a
\* YAML reader that meets it earlier rejects the document.
AnchorBeforeAlias ==
  phase = "done" =>
    \A path \in Paths : \A t \in Slots(path) :
      Rendering(At(path, t)).form = "$$alias" =>
        \E s \in Slots(path) :
          /\ Precedes(s, t)
          /\ Rendering(At(path, s)) = [form |-> "$$anchor", id |-> At(path, t).alias]
-----------------------------------------------------------------------------
(* Why ids are unique and nothing is lost: the inductive invariant.          *)

\* Numbers are handed out in increasing order, so none comes back.
IdsBelow == \A p \in Params : anchor[p] # NoId => anchor[p] \in Nat /\ anchor[p] < idx

\* The passes change what a slot says, never which parameter it stands for.
Named(list) == [i \in DOMAIN list |-> list[i].param]

ParamsKept ==
  /\ \A path \in Paths : \A m \in DOMAIN ops[path] :
       Named(ops[path][m]) \o level[path] = Wanted(path, m)
  /\ phase # "promote" => \A path \in Paths : level[path] = <<>>

\* The operations that use a parameter, by the document the walk left.
Users(p) ==
  {pm \in Paths \X Methods :
     /\ pm[2] \in DOMAIN doc[pm[1]].ops
     /\ \E i \in DOMAIN Wanted(pm[1], pm[2]) : Wanted(pm[1], pm[2])[i] = p}

Counted == phase # "promote" => \A p \in Params : count[p] = Cardinality(Users(p))

\* The second loop has been at slot i of a path's method m.
WalkRank(m) == CHOOSE k \in 1..7 : WalkOrder[k] = m

Behind(path, m, i) ==
  /\ path \notin unvisited
  /\ at.path = path => \/ WalkRank(m) < at.method
                       \/ WalkRank(m) = at.method /\ i < at.slot

CursorOK ==
  /\ at.path \notin unvisited
  /\ phase = "promote" => at.path = NoId /\ unvisited = Paths
  /\ phase = "done" => at.path = NoId /\ unvisited = {}

\* The slot that the anchor of parameter p is written at.
Bears(path, m, i, p) ==
  /\ ops[path][m][i] = Slot(p)
  /\ count[p] >= 2
  /\ Behind(path, m, i)

AnchorsBorne ==
  \A p \in Params : anchor[p] # NoId <=>
    \E path \in Paths : \E m \in DOMAIN ops[path] : \E i \in DOMAIN ops[path][m] :
      Bears(path, m, i, p)

OneBearer ==
  \A path \in Paths : \A m, n \in DOMAIN ops[path] :
    \A i \in DOMAIN ops[path][m] : \A j \in DOMAIN ops[path][n] : \A p \in Params :
      Bears(path, m, i, p) /\ Bears(path, n, j, p) => m = n /\ i = j

\* A slot is an alias only when the loop has been there, and its anchor is at a
\* slot where it had been before.
AliasesFollow ==
  \A path \in Paths : \A m \in DOMAIN ops[path] : \A i \in DOMAIN ops[path][m] :
    ops[path][m][i].alias # NoId =>
      /\ Behind(path, m, i)
      /\ \E n \in DOMAIN ops[path] : \E j \in DOMAIN ops[path][n] :
           /\ Bears(path, n, j, ops[path][m][i].param)
           /\ WalkRank(n) < WalkRank(m) \/ (n = m /\ j < i)

IInv ==
  /\ TypeOK
  /\ IdsBelow /\ UniqueIds /\ AliasNamesItsParam
  /\ ParamsKept /\ Counted /\ CursorOK
  /\ AnchorsBorne /\ OneBearer /\ AliasesFollow

=============================================================================
