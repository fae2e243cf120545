------------------------- MODULE ResourceWalkProofs -------------------------
(***************************************************************************)
(* For any groups, resources and actions, and documents of any length: what *)
(* the walk puts into the document, where, and what it says about the rest. *)
(***************************************************************************)
EXTENDS ResourceWalk, Texts, SequenceTheorems, FiniteSetTheorems,
        WellFoundedInduction, TLAPS

Level == [tag : Groups \cup {None}, parent : Groups \cup {None}, hook : BOOLEAN]

TypeOK ==
  /\ stack \in Seq(Level) /\ stack # <<>>
  /\ order \in Seq(Groups \cup {None})
  /\ elements \in Nat
  /\ over \in BOOLEAN
  /\ IsFiniteSet(DOMAIN doc)
  /\ \A at \in DOMAIN doc :
       /\ at # None
       /\ doc[at] = [level |-> doc[at].level, ops |-> doc[at].ops]
       /\ DOMAIN doc[at].ops \subseteq Slots

\* A category is of a webhook group exactly when one around it is.
HooksInherited ==
  \A i \in DOMAIN stack : stack[i].hook <=> (\E j \in 1..i : stack[j].tag \in Hooks)

\* The resource being walked is where its group belongs, and its group is a tag.
InResource ==
  current # None =>
    /\ current.number \in 1..elements
    /\ current.at # None => /\ current.at \in DOMAIN doc
                            /\ current.at[1] = Scope
    /\ current.at = None => \/ <<"E002", current.number>> \in diags
                            \/ SplitTemplate(current.href).query # <<>>
                            \/ current.href = <<>>
    /\ Ctx.tag # None => Seen(Ctx.tag)

\* What holds of an action from the moment it is taken.
TakenRight(t) ==
  /\ t.number \in 1..elements
  /\ t.at # None => (t.at[1] = "webhooks" <=> WantHooks /\ t.within \cap Hooks # {})
  /\ t.group # None => Seen(t.group)
  /\ t.at = None => \/ <<"E002", t.of>> \in diags
                    \/ SplitTemplate(t.href).query # <<>>
                    \/ t.href = <<>>
  /\ t.at = None \/ t.method \in Slots \cup {None, "trace"} \/ <<"E001", t.number>> \in diags

TakenOnce == \A t, u \in taken : t.number = u.number => t = u

\* An action that has a slot is in the document, or a later one of its slot is.
TakenHeld ==
  \A t \in taken : t.at # None /\ t.method \in Slots =>
    t.at \in DOMAIN doc /\ t.method \in DOMAIN doc[t.at].ops

\* t is the last action of its slot, and the one that op was made of.
Holds(op, t) ==
  /\ t.number = op.number /\ t.id = op.id
  /\ \A u \in taken : u.at = t.at /\ u.method = t.method => u.number <= t.number

DocHeld ==
  \A at \in DOMAIN doc : \A m \in DOMAIN doc[at].ops :
    \E t \in taken : t.at = at /\ t.method = m /\ Holds(doc[at].ops[m], t)

\* The parameters: located ones, shared ones, those of a resource, and those of
\* an operation.
Placed == [name : Text, place : {"path", "query", "header", "cookie"}, owner : Nat]

Unique(ps) ==
  \A i, k \in DOMAIN ps : ps[i].name = ps[k].name /\ ps[i].place = ps[k].place => i = k

Shared == {p \in Placed : p.place = "path"}

OfResource(path, href, number) ==
  {p \in Placed : /\ p.place # "path" /\ p.owner = number
                  /\ (PathHas(path, p.name) /\ p.place = "query") => p.name \in Asked(href)}

AskedAgain(owner, name) == \E t \in taken : t.of = owner /\ name \in Asked(t.href)

OfOperation(path, owner, number) ==
  {p \in Placed : /\ p.place # "path" /\ p.owner \in {owner, number}
                  /\ (PathHas(path, p.name) /\ p.place = "query") =>
                       p.owner = number \/ AskedAgain(owner, p.name)}

DocParams ==
  \A at \in DOMAIN doc :
    /\ doc[at].level \in Seq(Shared) /\ Unique(doc[at].level)
    /\ \A m \in DOMAIN doc[at].ops :
         LET op == doc[at].ops[m]
         IN  op.params \in Seq(OfOperation(at[2], op.owner, op.number)) /\ Unique(op.params)

ResourceParams ==
  (current # None /\ current.at # None) =>
    current.params \in Seq(OfResource(current.at[2], current.href, current.number))

\* No duplicate is reported before the end, and then each id that has two sites.
DuplicatesCounted ==
  IF over
  THEN \A id \in {t.id : t \in taken} \ {None} :
         ReportedTwice(id) <=> (Cardinality(Sites(id)) > 1)
  ELSE \A d \in diags : d[1] \notin {"E005", "W005"}

AllTaken == \A t \in taken : TakenRight(t)

IInv ==
  /\ TypeOK /\ HooksInherited /\ InResource
  /\ AllTaken /\ TakenOnce /\ TakenHeld /\ DocHeld
  /\ DocParams /\ ResourceParams /\ DuplicatesCounted

-----------------------------------------------------------------------------
(* The stack of categories and the tags.                                     *)

LEMMA CtxType == ASSUME TypeOK PROVE Len(stack) \in Nat \ {0} /\ Ctx \in Level
<1>1. Len(stack) \in Nat \ {0} BY EmptySeq DEF TypeOK
<1>2. Len(stack) \in 1..Len(stack) BY <1>1
<1> QED BY <1>1, <1>2, ElementOfSeq DEF TypeOK, Ctx

\* A tag is recorded once and stays.
LEMMA RecordSeen ==
  ASSUME TypeOK, NEW tag \in Groups \cup {None}, NEW parent, Record(tag, parent)
  PROVE  /\ order' \in Seq(Groups \cup {None})
         /\ \A g : Seen(g) => Seen(g)'
         /\ tag # None => Seen(tag)'
<1>1. CASE tag = None \/ Seen(tag)
  <2>1. order' = order BY <1>1 DEF Record
  <2> QED BY <1>1, <2>1 DEF TypeOK, Seen
<1>2. CASE ~(tag = None \/ Seen(tag))
  <2>1. order' = Append(order, tag) BY <1>2 DEF Record
  <2>2. /\ order' \in Seq(Groups \cup {None})
        /\ DOMAIN order' = DOMAIN order \cup {Len(order) + 1}
        /\ order'[Len(order) + 1] = tag
        /\ \A i \in DOMAIN order : order'[i] = order[i]
    BY <2>1, AppendProperties, LenProperties DEF TypeOK
  <2> QED BY <2>2 DEF Seen
<1> QED BY <1>1, <1>2

\* What was taken and what the document holds stays right in a step that adds
\* nothing to either.
LEMMA StillRight ==
  ASSUME IInv, UNCHANGED <<doc, taken, over, target>>,
         elements' \in Nat, elements <= elements',
         diags \subseteq diags', \A d \in diags' : d \in diags \/ d[1] \notin {"E005", "W005"},
         \A g : Seen(g) => Seen(g)'
  PROVE  AllTaken' /\ TakenOnce' /\ TakenHeld' /\ DocHeld' /\ DocParams' /\ DuplicatesCounted'
<1> USE DEF IInv
<1>1. \A t \in taken : TakenRight(t)'
  <2> TAKE t \in taken
  <2>1. TakenRight(t) BY DEF AllTaken
  <2>2. t.number \in 1..elements' BY <2>1 DEF TakenRight, TypeOK
  <2>3. WantHooks' = WantHooks BY DEF WantHooks
  <2> QED BY <2>1, <2>2, <2>3 DEF TakenRight
<1>2. AllTaken' BY <1>1 DEF AllTaken
<1>3. TakenOnce' /\ TakenHeld' BY DEF TakenOnce, TakenHeld
<1>4. \A op, t : Holds(op, t)' <=> Holds(op, t) BY DEF Holds
<1>5. DocHeld' BY <1>4 DEF DocHeld
<1>6. \A path, owner, number : OfOperation(path, owner, number)' = OfOperation(path, owner, number)
  BY DEF OfOperation, AskedAgain
<1>7. DocParams' BY <1>6 DEF DocParams
<1>8. \A id : Sites(id)' = Sites(id) BY DEF Sites
<1>9. DuplicatesCounted'
  <2>1. CASE over
    <3>1. \A c, id : <<c, id>>[1] = c OBVIOUS
    <3>2. \A id : ReportedTwice(id)' <=> ReportedTwice(id) BY <3>1 DEF ReportedTwice
    <3> QED BY <1>8, <2>1, <3>2 DEF DuplicatesCounted
  <2>2. CASE ~over BY <2>2 DEF DuplicatesCounted
  <2> QED BY <2>1, <2>2
<1> QED BY <1>2, <1>3, <1>5, <1>7, <1>9

LEMMA EnterCategoryIInv ==
  ASSUME IInv, target' = target, NEW title \in Groups \cup {None}, EnterCategory(title)
  PROVE  IInv'
<1> USE DEF IInv
<1> DEFINE new == IF title = None THEN Ctx
                  ELSE [tag |-> title, parent |-> Ctx.tag, hook |-> Ctx.hook \/ title \in Hooks]
           n == Len(stack)
<1>1. /\ stack' = Append(stack, new) /\ elements' = elements + 1
      /\ current = None /\ current' = None
      /\ UNCHANGED <<doc, order, diags, over, taken>>
  BY DEF EnterCategory, Take
<1>2. n \in Nat \ {0} /\ Ctx \in Level BY CtxType
<1>3. new \in Level BY <1>2 DEF Level
<1>4. new.hook <=> Ctx.hook \/ (title # None /\ title \in Hooks) BY <1>2 DEF Level
<1>5. new.tag = IF title = None THEN Ctx.tag ELSE title OBVIOUS
<1> HIDE DEF new
<1>6. /\ stack' \in Seq(Level) /\ Len(stack') = n + 1
      /\ DOMAIN stack' = 1..(n + 1) /\ DOMAIN stack = 1..n
      /\ stack'[n + 1] = new
      /\ \A i \in 1..n : stack'[i] = stack[i]
  BY <1>1, <1>3, AppendProperties, LenProperties DEF TypeOK
<1>7. stack' # <<>> BY <1>2, <1>6, EmptySeq
<1>8. elements' \in Nat /\ elements <= elements' BY <1>1 DEF TypeOK
<1>9. TypeOK' BY <1>1, <1>6, <1>7, <1>8 DEF TypeOK
<1>10. HooksInherited'
  <2>1. ASSUME NEW i \in 1..(n + 1)
        PROVE  stack'[i].hook <=> \E j \in 1..i : stack'[j].tag \in Hooks
    <3>1. CASE i \in 1..n
      <4>1. \A j \in 1..i : stack'[j] = stack[j] BY <1>2, <1>6, <3>1
      <4> QED BY <1>6, <3>1, <4>1 DEF HooksInherited
    <3>2. CASE i = n + 1
      <4>1. Ctx.hook <=> \E j \in 1..n : stack[j].tag \in Hooks
        BY <1>2, <1>6 DEF HooksInherited, Ctx
      <4>2. (\E j \in 1..i : stack'[j].tag \in Hooks) <=>
              (\E j \in 1..n : stack[j].tag \in Hooks) \/ new.tag \in Hooks
        BY <1>2, <1>6, <3>2
      <4>3. Ctx.tag \in Hooks => \E j \in 1..n : stack[j].tag \in Hooks BY <1>2 DEF Ctx
      <4>4. stack'[i] = new BY <1>6, <3>2
      <4> QED BY <1>4, <1>5, <4>1, <4>2, <4>3, <4>4
    <3> QED BY <1>2, <3>1, <3>2
  <2> QED BY <1>6, <2>1 DEF HooksInherited
<1>11. InResource' /\ ResourceParams' BY <1>1 DEF InResource, ResourceParams
<1>12. \A g : Seen(g) => Seen(g)' BY <1>1 DEF Seen
<1> QED BY <1>1, <1>8, <1>9, <1>10, <1>11, <1>12, StillRight

LEMMA LeaveCategoryIInv ==
  ASSUME IInv, target' = target, LeaveCategory
  PROVE  IInv'
<1> USE DEF IInv
<1> DEFINE n == Len(stack)
<1>1. /\ stack' = SubSeq(stack, 1, n - 1) /\ n > 1
      /\ current = None /\ current' = None
      /\ UNCHANGED <<doc, order, diags, elements, over, taken>>
  BY DEF LeaveCategory
<1>2. n \in Nat BY CtxType
<1>3. n - 1 \in Nat \ {0}
  <2>1. n > 1 BY <1>1
  <2> HIDE DEF n
  <2> QED BY <1>2, <2>1
<1>4. /\ stack' \in Seq(Level) /\ Len(stack') = n - 1
      /\ DOMAIN stack' = 1..(n - 1) /\ DOMAIN stack = 1..n
      /\ \A i \in 1..(n - 1) : stack'[i] = stack[i]
  <2>1. stack \in Seq(Level) /\ \A i \in 1..(n - 1) : i \in 1..n BY <1>2 DEF TypeOK
  <2>2. \A i \in 1..(n - 1) : stack[i] \in Level BY <2>1, ElementOfSeq
  <2> QED BY <1>1, <1>2, <1>3, <2>1, <2>2, SubSeqProperties, LenProperties
<1>5. stack' # <<>> BY <1>3, <1>4, EmptySeq
<1>6. TypeOK' BY <1>1, <1>4, <1>5 DEF TypeOK
<1>7. HooksInherited'
  <2>1. ASSUME NEW i \in 1..(n - 1)
        PROVE  stack'[i].hook <=> \E j \in 1..i : stack'[j].tag \in Hooks
    <3>1. i \in 1..n /\ \A j \in 1..i : stack'[j] = stack[j] BY <1>2, <1>4
    <3> QED BY <1>4, <3>1 DEF HooksInherited
  <2> QED BY <1>4, <2>1 DEF HooksInherited
<1>8. InResource' /\ ResourceParams' BY <1>1 DEF InResource, ResourceParams
<1>9. \A g : Seen(g) => Seen(g)' BY <1>1 DEF Seen
<1>10. elements' \in Nat /\ elements <= elements' BY <1>1 DEF TypeOK
<1> QED BY <1>1, <1>6, <1>7, <1>8, <1>9, <1>10, StillRight

-----------------------------------------------------------------------------
(* Induction over the natural numbers, for sets, and loops.                  *)

LEMMA LeastNatural ==
  ASSUME NEW T, T \subseteq Nat, T # {}
  PROVE  \E n \in T : \A m \in T : n <= m
<1> DEFINE R == {ss \in Nat \X Nat : ss[1] < ss[2]}
<1>1. OpToRel(<, Nat) = R BY DEF OpToRel
<1>2. IsWellFoundedOn(R, Nat) BY NatLessThanWellFounded, <1>1
<1>3. \E x \in T : \A y \in T : ~ (<<y, x>> \in R) BY <1>2, WFMin
<1>4. \A x, y \in Nat : y < x => <<y, x>> \in R OBVIOUS
<1> HIDE DEF R
<1>5. \A x, y \in Nat : ~(y < x) => x <= y OBVIOUS
<1> QED BY <1>3, <1>4, <1>5

LEMMA SetInduction ==
  ASSUME NEW T, 0 \in T, \A n \in Nat : n \in T => n + 1 \in T
  PROVE  \A n \in Nat : n \in T
<1> DEFINE U == {n \in Nat : n \notin T}
<1> SUFFICES ASSUME U # {} PROVE FALSE OBVIOUS
<1>1. PICK n \in U : \A m \in U : n <= m BY LeastNatural
<1>2. n \in Nat /\ n # 0 OBVIOUS
<1>3. n - 1 \in Nat /\ ~(n <= n - 1) /\ (n - 1) + 1 = n BY <1>2
<1>4. n - 1 \in T BY <1>1, <1>3
<1> QED BY <1>3, <1>4

\* f[i] is what a loop has after i of its n steps; no step leaves S.
StaysIn(S, f, n) == f[0] \in S /\ \A i \in 1..n : f[i - 1] \in S => f[i] \in S

LEMMA LoopStays ==
  ASSUME NEW S, NEW n \in Nat, NEW f, StaysIn(S, f, n)
  PROVE  \A i \in 0..n : f[i] \in S
<1> USE DEF StaysIn
<1> DEFINE T == {i \in Nat : i <= n => f[i] \in S}
<1>1. 0 \in T OBVIOUS
<1>2. ASSUME NEW i \in Nat, i \in T PROVE i + 1 \in T
  <2> SUFFICES ASSUME i + 1 <= n PROVE f[i + 1] \in S OBVIOUS
  <2>1. i + 1 \in 1..n /\ (i + 1) - 1 = i /\ i <= n OBVIOUS
  <2>2. f[i] \in S BY <1>2, <2>1
  <2> QED BY <2>1, <2>2
<1> HIDE DEF T
<1>3. \A i \in Nat : i \in T BY <1>1, <1>2, SetInduction
<1>4. ASSUME NEW i \in 0..n PROVE f[i] \in S
  <2>1. i \in Nat /\ i <= n OBVIOUS
  <2> QED BY <1>3, <2>1 DEF T
<1> QED BY <1>4

\* A loop whose steps map S to S can be run.
Closed(S, step, n) == \A x \in S : \A i \in 1..n : step[<<x, i>>] \in S

IsRun(f, S, b, step, n) ==
  /\ DOMAIN f = 0..n /\ f[0] = b
  /\ \A i \in 1..n : f[i - 1] \in S /\ f[i] = step[<<f[i - 1], i>>]

LEMMA LoopRuns ==
  ASSUME NEW S, NEW b \in S, NEW n \in Nat, NEW step, Closed(S, step, n)
  PROVE  \E f : IsRun(f, S, b, step, n)
<1> USE DEF Closed, IsRun
<1> DEFINE Run(f, k) == IsRun(f, S, b, step, k)
           T == {k \in Nat : k <= n => \E f : Run(f, k) /\ f[k] \in S}
<1>1. 0 \in T
  <2> DEFINE f == [i \in 0..0 |-> b]
  <2>1. DOMAIN f = 0..0 /\ f[0] = b /\ 1..0 = {} OBVIOUS
  <2> HIDE DEF f
  <2> QED BY <2>1
<1>2. ASSUME NEW k \in Nat, k \in T PROVE k + 1 \in T
  <2> SUFFICES ASSUME k + 1 <= n PROVE \E f : Run(f, k + 1) /\ f[k + 1] \in S OBVIOUS
  <2>1. k <= n /\ k + 1 \in 1..n OBVIOUS
  <2>2. PICK f : Run(f, k) /\ f[k] \in S BY <1>2, <2>1
  <2> DEFINE g == [i \in 0..(k + 1) |-> IF i = k + 1 THEN step[<<f[k], k + 1>>] ELSE f[i]]
  <2>3. /\ DOMAIN g = 0..(k + 1)
        /\ g[k + 1] = step[<<f[k], k + 1>>]
        /\ \A i \in 0..k : g[i] = f[i]
    OBVIOUS
  <2> HIDE DEF g
  <2>4. 0 \in 0..k /\ k \in 0..k OBVIOUS
  <2>5. ASSUME NEW i \in 1..(k + 1)
        PROVE  g[i - 1] \in S /\ g[i] = step[<<g[i - 1], i>>]
    <3>1. CASE i = k + 1
      <4>1. i - 1 = k BY <3>1
      <4> QED BY <2>2, <2>3, <2>4, <3>1, <4>1
    <3>2. CASE i # k + 1
      <4>1. i \in 1..k /\ i \in 0..k /\ i - 1 \in 0..k BY <3>2
      <4>2. f[i - 1] \in S /\ f[i] = step[<<f[i - 1], i>>] BY <2>2, <4>1
      <4> QED BY <2>3, <4>1, <4>2
    <3> QED BY <3>1, <3>2
  <2>6. g[0] = b BY <2>2, <2>3, <2>4
  <2>7. g[k + 1] \in S BY <2>1, <2>2, <2>3
  <2>8. Run(g, k + 1) BY <2>3, <2>5, <2>6
  <2> QED BY <2>7, <2>8
<1>3. n \in T
  <2> HIDE DEF T
  <2> QED BY <1>1, <1>2, SetInduction
<1> QED BY <1>3

-----------------------------------------------------------------------------
(* The lists of parameters.                                                  *)

LEMMA AddUniqueRight ==
  ASSUME NEW S, NEW ps \in Seq(S), Unique(ps), NEW p \in S
  PROVE  AddUnique(ps, p) \in Seq(S) /\ Unique(AddUnique(ps, p))
<1>1. CASE \E i \in DOMAIN ps : ps[i].name = p.name /\ ps[i].place = p.place
  BY <1>1 DEF AddUnique
<1>2. CASE ~ \E i \in DOMAIN ps : ps[i].name = p.name /\ ps[i].place = p.place
  <2> DEFINE more == Append(ps, p)
  <2>1. AddUnique(ps, p) = more BY <1>2 DEF AddUnique
  <2>2. /\ more \in Seq(S)
        /\ DOMAIN more = DOMAIN ps \cup {Len(ps) + 1}
        /\ more[Len(ps) + 1] = p
        /\ \A i \in DOMAIN ps : more[i] = ps[i]
    BY AppendProperties, LenProperties
  <2> HIDE DEF more
  <2>3. Unique(more) BY <1>2, <2>2 DEF Unique
  <2> QED BY <2>1, <2>2, <2>3
<1> QED BY <1>1, <1>2

\* Whatever is added to a list without repetition, it stays one.
LEMMA AddAllRight ==
  ASSUME NEW S, NEW ps \in Seq(S), Unique(ps), NEW new \in Seq(S)
  PROVE  AddAll(ps, new) \in Seq(S) /\ Unique(AddAll(ps, new))
<1> DEFINE n == Len(new)
           U == {q \in Seq(S) : Unique(q)}
           step == [x \in U \X (1..n) |-> AddUnique(x[1], new[x[2]])]
           Loop(f) == f = [i \in 0..n |-> IF i = 0 THEN ps ELSE AddUnique(f[i - 1], new[i])]
           added == CHOOSE f : Loop(f)
<1>1. n \in Nat BY LenProperties
<1>2. \A i \in 1..n : new[i] \in S BY ElementOfSeq
<1>3. \A x \in U : \A i \in 1..n : AddUnique(x, new[i]) \in U BY <1>2, AddUniqueRight
<1>4. \A x \in U : \A i \in 1..n : step[<<x, i>>] = AddUnique(x, new[i]) OBVIOUS
<1>5. ps \in U OBVIOUS
<1>6. AddAll(ps, new) = added[n] BY DEF AddAll
<1> HIDE DEF step, U, n
<1>7. PICK f : IsRun(f, U, ps, step, n)
  <2>1. Closed(U, step, n) BY <1>3, <1>4 DEF Closed
  <2> QED BY <1>1, <1>5, <2>1, LoopRuns
<1> DEFINE g == [i \in 0..n |-> f[i]]
<1> USE DEF IsRun
<1>8. Loop(g)
  <2>1. \A i \in 0..n : g[i] = f[i] OBVIOUS
  <2>2. ASSUME NEW i \in 0..n
        PROVE  g[i] = IF i = 0 THEN ps ELSE AddUnique(g[i - 1], new[i])
    <3>1. CASE i = 0 BY <1>7, <2>1, <3>1
    <3>2. CASE i # 0
      <4>1. i \in 1..n /\ i - 1 \in 0..n BY <1>1, <3>2
      <4>2. f[i] = AddUnique(f[i - 1], new[i]) BY <1>4, <1>7, <4>1
      <4> QED BY <2>1, <3>2, <4>1, <4>2
    <3> QED BY <3>1, <3>2
  <2>3. g = [i \in 0..n |-> g[i]] OBVIOUS
  <2> HIDE DEF g
  <2> QED BY <2>2, <2>3
<1> HIDE DEF g
<1>9. Loop(added) BY <1>8
<1>10. \A i \in 0..n : added[i] = IF i = 0 THEN ps ELSE AddUnique(added[i - 1], new[i])
  BY <1>9
<1> HIDE DEF added, Loop
<1>11. added[0] \in U
  <2>1. added[0] = ps BY <1>1, <1>10
  <2> QED BY <1>5, <2>1
<1>12. \A i \in 1..n : added[i - 1] \in U => added[i] \in U
  <2> TAKE i \in 1..n
  <2>1. added[i] = AddUnique(added[i - 1], new[i]) BY <1>1, <1>10
  <2> QED BY <1>3, <2>1
<1>13. added[n] \in U
  <2>1. StaysIn(U, added, n) BY <1>11, <1>12 DEF StaysIn
  <2> QED BY <1>1, <2>1, LoopStays
<1> QED BY <1>6, <1>13 DEF U

\* What is chosen is of the kind that it is chosen for.
LEMMA ChosenRight ==
  ASSUME NEW S, NEW K, NEW ps \in Seq(S), NEW positions,
         \A i \in DOMAIN ps : i \in positions => ps[i] \in K
  PROVE  Chosen(ps, positions) \in Seq(K)
<1> DEFINE n == Len(ps)
           Next1(q, i) == IF i \in positions THEN Append(q, ps[i]) ELSE q
           step == [x \in Seq(K) \X (1..n) |-> Next1(x[1], x[2])]
           Loop(f) == f = [i \in 0..n |-> IF i = 0 THEN <<>>
                                          ELSE IF i \in positions THEN Append(f[i - 1], ps[i])
                                          ELSE f[i - 1]]
           kept == CHOOSE f : Loop(f)
<1>1. n \in Nat /\ DOMAIN ps = 1..n BY LenProperties
<1>2. ASSUME NEW x \in Seq(K), NEW i \in 1..n PROVE Next1(x, i) \in Seq(K)
  BY <1>1, AppendProperties
<1>3. \A x \in Seq(K) : \A i \in 1..n : step[<<x, i>>] = Next1(x, i) OBVIOUS
<1>4. <<>> \in Seq(K) BY EmptySeq
<1>5. Chosen(ps, positions) = kept[n] BY DEF Chosen
<1> HIDE DEF step, n
<1>6. PICK f : IsRun(f, Seq(K), <<>>, step, n)
  <2> HIDE DEF Next1
  <2>1. Closed(Seq(K), step, n) BY <1>2, <1>3 DEF Closed
  <2> QED BY <1>1, <1>4, <2>1, LoopRuns
<1> DEFINE g == [i \in 0..n |-> f[i]]
<1> USE DEF IsRun
<1>7. Loop(g)
  <2>1. \A i \in 0..n : g[i] = f[i] OBVIOUS
  <2>2. ASSUME NEW i \in 0..n
        PROVE  g[i] = IF i = 0 THEN <<>>
                      ELSE IF i \in positions THEN Append(g[i - 1], ps[i]) ELSE g[i - 1]
    <3>1. CASE i = 0 BY <1>6, <2>1, <3>1
    <3>2. CASE i # 0
      <4>1. i \in 1..n /\ i - 1 \in 0..n BY <1>1, <3>2
      <4>2. f[i] = Next1(f[i - 1], i) BY <1>3, <1>6, <4>1
      <4> QED BY <2>1, <3>2, <4>1, <4>2
    <3> QED BY <3>1, <3>2
  <2>3. g = [i \in 0..n |-> g[i]] OBVIOUS
  <2> HIDE DEF g
  <2> QED BY <2>2, <2>3
<1> HIDE DEF g
<1>8. Loop(kept) BY <1>7
<1>9. \A i \in 0..n : kept[i] = IF i = 0 THEN <<>> ELSE Next1(kept[i - 1], i) BY <1>8
<1> HIDE DEF kept, Loop, Next1
<1>10. kept[0] \in Seq(K)
  <2>1. kept[0] = <<>> BY <1>1, <1>9
  <2> QED BY <1>4, <2>1
<1>11. \A i \in 1..n : kept[i - 1] \in Seq(K) => kept[i] \in Seq(K)
  <2> TAKE i \in 1..n
  <2>1. kept[i] = Next1(kept[i - 1], i) BY <1>1, <1>9
  <2> QED BY <1>2, <2>1
<1>12. kept[n] \in Seq(K)
  <2>1. StaysIn(Seq(K), kept, n) BY <1>10, <1>11 DEF StaysIn
  <2>2. \A i \in 0..n : kept[i] \in Seq(K) BY <1>1, <2>1, LoopStays
  <2>3. n \in 0..n BY <1>1
  <2> QED BY <2>2, <2>3
<1> QED BY <1>5, <1>12

-----------------------------------------------------------------------------
(* The templates: what the two scanners of UriTemplate make of a text.       *)

\* A text has at least one name, and each of them is a text.
Names == {names \in Seq(Text) : Len(names) >= 1}

LEMMA NextCharType ==
  ASSUME NEW names \in Names, NEW c \in STRING
  PROVE  NextChar(names, c) \in Names
<1> DEFINE n == Len(names)
<1>1. names \in Seq(Text) /\ n \in Nat /\ n >= 1 BY LenProperties DEF Names
<1>2. <<>> \in Text BY EmptySeq DEF Text
<1>3. CASE c = Comma
  <2>1. NextChar(names, c) = Append(names, <<>>) BY <1>3 DEF NextChar
  <2>2. Append(names, <<>>) \in Seq(Text) /\ Len(Append(names, <<>>)) = n + 1
    BY <1>1, <1>2, AppendProperties
  <2> HIDE DEF n
  <2> QED BY <1>1, <2>1, <2>2 DEF Names
<1>4. CASE c # Comma
  <2> DEFINE last == Append(names[n], c)
             more == [names EXCEPT ![n] = last]
  <2>1. NextChar(names, c) = more BY <1>4 DEF NextChar
  <2>2. n \in 1..n BY <1>1
  <2>3. names[n] \in Text BY <1>1, <2>2, ElementOfSeq
  <2>4. last \in Text BY <2>3, AppendProperties DEF Text
  <2> HIDE DEF last
  <2>5. more \in Seq(Text) /\ Len(more) = n BY <1>1, <2>2, <2>4, ExceptSeq
  <2> QED BY <1>1, <2>1, <2>5 DEF Names
<1> QED BY <1>3, <1>4

\* A run of strings.Split(body, ",").
NamesFound(names, body) ==
  /\ \A i \in 0..Len(body) : names[i] \in Names
  /\ names[0] = << <<>> >>
  /\ \A i \in 1..Len(body) : names[i] = NextChar(names[i - 1], body[i])
  /\ SplitNames(body) = names[Len(body)]

LEMMA NamesRun == ASSUME NEW body \in Text PROVE \E names : NamesFound(names, body)
<1> DEFINE n == Len(body)
           step == [x \in Names \X (1..n) |-> NextChar(x[1], body[x[2]])]
           Loop(f) == f = [i \in 0..n |-> IF i = 0 THEN << <<>> >>
                                          ELSE NextChar(f[i - 1], body[i])]
           names == CHOOSE f : Loop(f)
<1>1. n \in Nat BY LenProperties DEF Text
<1>2. \A i \in 1..n : body[i] \in STRING BY ElementOfSeq DEF Text
<1>3. \A x \in Names : \A i \in 1..n : NextChar(x, body[i]) \in Names
  BY <1>2, NextCharType
<1>4. \A x \in Names : \A i \in 1..n : step[<<x, i>>] = NextChar(x, body[i]) OBVIOUS
<1>5. << <<>> >> \in Names
  <2>1. <<>> \in Text BY EmptySeq DEF Text
  <2> QED BY <2>1 DEF Names
<1>6. SplitNames(body) = names[n] BY DEF SplitNames
<1> HIDE DEF step, n
<1>7. PICK f : IsRun(f, Names, << <<>> >>, step, n)
  <2>1. Closed(Names, step, n) BY <1>3, <1>4 DEF Closed
  <2> QED BY <1>1, <1>5, <2>1, LoopRuns
<1> DEFINE g == [i \in 0..n |-> f[i]]
<1>8. Loop(g)
  <2>1. \A i \in 0..n : g[i] = f[i] OBVIOUS
  <2>2. ASSUME NEW i \in 0..n
        PROVE  g[i] = IF i = 0 THEN << <<>> >> ELSE NextChar(g[i - 1], body[i])
    <3>1. CASE i = 0 BY <1>7, <2>1, <3>1 DEF IsRun
    <3>2. CASE i # 0
      <4>1. i \in 1..n /\ i - 1 \in 0..n BY <1>1, <3>2
      <4>2. f[i] = NextChar(f[i - 1], body[i]) BY <1>4, <1>7, <4>1 DEF IsRun
      <4> QED BY <2>1, <3>2, <4>1, <4>2
    <3> QED BY <3>1, <3>2
  <2>3. g = [i \in 0..n |-> g[i]] OBVIOUS
  <2> HIDE DEF g
  <2> QED BY <2>2, <2>3
<1> HIDE DEF g
<1>9. Loop(names) BY <1>8
<1>10. \A i \in 0..n : names[i] = IF i = 0 THEN << <<>> >> ELSE NextChar(names[i - 1], body[i])
  BY <1>9
<1> HIDE DEF names, Loop
<1>11. names[0] = << <<>> >> BY <1>1, <1>10
<1>12. \A i \in 1..n : names[i] = NextChar(names[i - 1], body[i]) BY <1>1, <1>10
<1>13. StaysIn(Names, names, n) BY <1>3, <1>5, <1>11, <1>12 DEF StaysIn
<1>14. \A i \in 0..n : names[i] \in Names BY <1>1, <1>13, LoopStays
<1> QED BY <1>6, <1>11, <1>12, <1>14 DEF NamesFound, n

LEMMA SplitNamesType ==
  ASSUME NEW body \in Text
  PROVE  SplitNames(body) \in Names
<1>1. Len(body) \in Nat BY LenProperties DEF Text
<1> QED BY <1>1, NamesRun DEF NamesFound

\* A run of the loop over the names of a query expression.
Asking(asked, query, names) ==
  /\ \A i \in 0..Len(names) : asked[i] \in Seq(Text)
  /\ asked[0] = query
  /\ \A i \in 1..Len(names) :
       asked[i] = IF names[i] = <<>> THEN asked[i - 1] ELSE Append(asked[i - 1], names[i])
  /\ AskedIn(query, names) = asked[Len(names)]

LEMMA AskedRun ==
  ASSUME NEW query \in Seq(Text), NEW names \in Names
  PROVE  \E asked : Asking(asked, query, names)
<1> DEFINE n == Len(names)
           K == Seq(Text)
           Next1(q, i) == IF names[i] = <<>> THEN q ELSE Append(q, names[i])
           step == [x \in K \X (1..n) |-> Next1(x[1], x[2])]
           Loop(f) == f = [i \in 0..n |-> IF i = 0 THEN query
                                          ELSE IF names[i] = <<>> THEN f[i - 1]
                                          ELSE Append(f[i - 1], names[i])]
           asked == CHOOSE f : Loop(f)
<1>1. n \in Nat /\ names \in Seq(Text) BY LenProperties DEF Names
<1>2. \A i \in 1..n : names[i] \in Text BY <1>1, ElementOfSeq
<1>3. \A x \in K : \A i \in 1..n : Next1(x, i) \in K BY <1>2, AppendProperties
<1>4. \A x \in K : \A i \in 1..n : step[<<x, i>>] = Next1(x, i) OBVIOUS
<1>5. query \in K OBVIOUS
<1>6. AskedIn(query, names) = asked[n] BY DEF AskedIn
<1> HIDE DEF step, n, K
<1>7. PICK f : IsRun(f, K, query, step, n)
  <2> HIDE DEF Next1
  <2>1. Closed(K, step, n) BY <1>3, <1>4 DEF Closed
  <2> QED BY <1>1, <1>5, <2>1, LoopRuns
<1> DEFINE g == [i \in 0..n |-> f[i]]
<1>8. Loop(g)
  <2>1. \A i \in 0..n : g[i] = f[i] OBVIOUS
  <2>2. ASSUME NEW i \in 0..n
        PROVE  g[i] = IF i = 0 THEN query
                      ELSE IF names[i] = <<>> THEN g[i - 1] ELSE Append(g[i - 1], names[i])
    <3>1. CASE i = 0 BY <1>7, <2>1, <3>1 DEF IsRun
    <3>2. CASE i # 0
      <4>1. i \in 1..n /\ i - 1 \in 0..n BY <1>1, <3>2
      <4>2. f[i] = Next1(f[i - 1], i) BY <1>4, <1>7, <4>1 DEF IsRun
      <4> QED BY <2>1, <3>2, <4>1, <4>2
    <3> QED BY <3>1, <3>2
  <2>3. g = [i \in 0..n |-> g[i]] OBVIOUS
  <2> HIDE DEF g
  <2> QED BY <2>2, <2>3
<1> HIDE DEF g
<1>9. Loop(asked) BY <1>8
<1>10. \A i \in 0..n : asked[i] = IF i = 0 THEN query ELSE Next1(asked[i - 1], i) BY <1>9
<1> HIDE DEF asked, Loop, Next1
<1>11. asked[0] = query /\ \A i \in 1..n : asked[i] = Next1(asked[i - 1], i) BY <1>1, <1>10
<1>12. StaysIn(K, asked, n) BY <1>3, <1>5, <1>11 DEF StaysIn
<1>13. \A i \in 0..n : asked[i] \in K BY <1>1, <1>12, LoopStays
<1> QED BY <1>6, <1>11, <1>13 DEF Asking, Next1, K, n

\* What a round of the split has: the rest, and the path and the names so far.
Splitting == [rest : Text, path : Text, query : Seq(Text)]

LEMMA SegmentType ==
  ASSUME NEW s \in Splitting
  PROVE  Segment(s) \in Splitting
<1> DEFINE r == s.rest
           n == Len(r)
           open == {k \in DOMAIN r : r[k] = Brace /\ \A j \in 1..(k - 1) : r[j] # Brace}
           close == {k \in DOMAIN r :
                       r[k] = EndBrace /\ \E o \in open : o < k /\ \A j \in o..(k - 1) : r[j] # EndBrace}
           o == CHOOSE o \in open : TRUE
           c == CHOOSE c \in close : TRUE
           seg == SubSeq(r, o + 1, c - 1)
           asks == seg # <<>> /\ Head(seg) \in QueryOperators
           asked == AskedIn(s.query, SplitNames(Tail(seg)))
           e == IF asks THEN o - 1 ELSE c
           before == SubSeq(r, 1, e)
<1>1. /\ r \in Seq(STRING) /\ s.path \in Seq(STRING) /\ s.query \in Seq(Text)
      /\ n \in Nat /\ DOMAIN r = 1..n
  BY LenProperties DEF Splitting, Text
<1>2. CASE close = {}
  <2>1. Segment(s) = [rest |-> <<>>, path |-> s.path \o r, query |-> s.query]
    BY <1>2 DEF Segment
  <2>2. s.path \o r \in Seq(STRING) BY <1>1, ConcatProperties
  <2>3. <<>> \in Text BY EmptySeq DEF Text
  <2> HIDE DEF r
  <2> QED BY <1>1, <2>1, <2>2, <2>3 DEF Splitting, Text
<1>3. CASE close # {}
  <2>1. c \in close BY <1>3
  <2>2. Segment(s) =
          [rest |-> SubSeq(r, c + 1, n), path |-> s.path \o before,
           query |-> IF asks THEN asked ELSE s.query]
    BY <1>3 DEF Segment
  <2>3. c \in 1..n BY <1>1, <2>1
  <2>4. o \in 1..n
    <3>1. open # {} BY <2>1
    <3>2. o \in open BY <3>1
    <3> QED BY <1>1, <3>2
  <2> HIDE DEF r, n, open, close, o, c
  <2>5. \A i \in 1..n : r[i] \in STRING BY <1>1, ElementOfSeq
  <2>6. seg \in Seq(STRING)
    <3>1. o + 1 \in Int /\ c - 1 \in Int /\ \A i \in (o + 1)..(c - 1) : i \in 1..n
      BY <1>1, <2>3, <2>4
    <3> QED BY <2>5, <3>1, SubSeqProperties
  <2>7. s.path \o before \in Seq(STRING)
    <3>1. (asks => e = o - 1) /\ (~asks => e = c) OBVIOUS
    <3> HIDE DEF e, asks
    <3>2. e \in Int /\ 1 \in Int /\ \A i \in 1..e : i \in 1..n BY <1>1, <2>3, <2>4, <3>1
    <3>3. before \in Seq(STRING) BY <2>5, <3>2, SubSeqProperties
    <3> HIDE DEF before
    <3> QED BY <1>1, <3>3, ConcatProperties
  <2>8. SubSeq(r, c + 1, n) \in Seq(STRING)
    <3>1. c + 1 \in Int /\ n \in Int /\ \A i \in (c + 1)..n : i \in 1..n BY <1>1, <2>3
    <3> QED BY <2>5, <3>1, SubSeqProperties
  <2>9. asks => asked \in Seq(Text)
    <3> HIDE DEF seg
    <3>1. asks => Tail(seg) \in Text BY <2>6, HeadTailProperties DEF Text
    <3>2. asks => SplitNames(Tail(seg)) \in Names BY <3>1, SplitNamesType
    <3> HIDE DEF asks
    <3> DEFINE names == SplitNames(Tail(seg))
    <3>3. ASSUME names \in Names PROVE AskedIn(s.query, names) \in Seq(Text)
      <4> HIDE DEF names
      <4>1. PICK f : Asking(f, s.query, names) BY <1>1, <3>3, AskedRun
      <4>2. Len(names) \in Nat BY <3>3, LenProperties DEF Names
      <4> QED BY <4>1, <4>2 DEF Asking
    <3> QED BY <3>2, <3>3
  <2> HIDE DEF seg, asked, before, asks
  <2> QED BY <1>1, <2>2, <2>7, <2>8, <2>9 DEF Splitting, Text
<1> QED BY <1>2, <1>3

\* A run of splitURITemplate.
Rounds(href) == Len(href) \div 2 + 1

Split(after, href) ==
  /\ \A i \in 0..Rounds(href) : after[i] \in Splitting
  /\ after[0] = [rest |-> href, path |-> <<>>, query |-> <<>>]
  /\ \A i \in 1..Rounds(href) : after[i] = Segment(after[i - 1])
  /\ SplitTemplate(href).path = after[Rounds(href)].path
  /\ SplitTemplate(href).query = after[Rounds(href)].query

LEMMA SplitRun == ASSUME NEW href \in Text PROVE \E after : Split(after, href)
<1> DEFINE n == Len(href) \div 2 + 1
           first == [rest |-> href, path |-> <<>>, query |-> <<>>]
           step == [x \in Splitting \X (1..n) |-> Segment(x[1])]
           Loop(f) == f = [i \in 0..n |-> IF i = 0 THEN first ELSE Segment(f[i - 1])]
           after == CHOOSE f : Loop(f)
<1>1. n \in Nat
  <2>1. Len(href) \in Nat BY LenProperties DEF Text
  <2> QED BY <2>1
<1>2. first \in Splitting
  <2>1. <<>> \in Text /\ <<>> \in Seq(Text) BY EmptySeq DEF Text
  <2> QED BY <2>1 DEF Splitting
<1>3. \A x \in Splitting : Segment(x) \in Splitting BY SegmentType
<1>4. \A x \in Splitting : \A i \in 1..n : step[<<x, i>>] = Segment(x) OBVIOUS
<1>5. SplitTemplate(href) = [path |-> after[n].path, query |-> after[n].query]
  BY DEF SplitTemplate
<1> HIDE DEF step, n, first
<1>6. PICK f : IsRun(f, Splitting, first, step, n)
  <2>1. Closed(Splitting, step, n) BY <1>3, <1>4 DEF Closed
  <2> QED BY <1>1, <1>2, <2>1, LoopRuns
<1> DEFINE g == [i \in 0..n |-> f[i]]
<1>7. Loop(g)
  <2>1. \A i \in 0..n : g[i] = f[i] OBVIOUS
  <2>2. ASSUME NEW i \in 0..n
        PROVE  g[i] = IF i = 0 THEN first ELSE Segment(g[i - 1])
    <3>1. CASE i = 0 BY <1>6, <2>1, <3>1 DEF IsRun
    <3>2. CASE i # 0
      <4>1. i \in 1..n /\ i - 1 \in 0..n BY <1>1, <3>2
      <4>2. f[i] = Segment(f[i - 1]) BY <1>4, <1>6, <4>1 DEF IsRun
      <4> QED BY <2>1, <3>2, <4>1, <4>2
    <3> QED BY <3>1, <3>2
  <2>3. g = [i \in 0..n |-> g[i]] OBVIOUS
  <2> HIDE DEF g
  <2> QED BY <2>2, <2>3
<1> HIDE DEF g
<1>8. Loop(after) BY <1>7
<1>9. \A i \in 0..n : after[i] = IF i = 0 THEN first ELSE Segment(after[i - 1]) BY <1>8
<1> HIDE DEF after, Loop
<1>10. after[0] = first /\ \A i \in 1..n : after[i] = Segment(after[i - 1]) BY <1>1, <1>9
<1>11. StaysIn(Splitting, after, n) BY <1>2, <1>3, <1>10 DEF StaysIn
<1>12. \A i \in 0..n : after[i] \in Splitting BY <1>1, <1>11, LoopStays
<1> QED BY <1>5, <1>10, <1>12 DEF Split, Rounds, n, first

LEMMA SplitType == ASSUME NEW href \in Text PROVE SplitTemplate(href).query \in Seq(Text)
<1>1. Rounds(href) \in Nat
  <2>1. Len(href) \in Nat BY LenProperties DEF Text
  <2> QED BY <2>1 DEF Rounds
<1>2. PICK after : Split(after, href) BY SplitRun
<1>3. after[Rounds(href)] \in Splitting BY <1>1, <1>2 DEF Split
<1> QED BY <1>2, <1>3 DEF Split, Splitting

\* What validateURITemplate has after some characters.
Kinds == {"empty", "nameless", "unnamed", "nested", "unopened"}

Scanning == [open : BOOLEAN, seg : Text, bad : SUBSET Kinds]

LEMMA ScanRight ==
  ASSUME NEW s \in Scanning, NEW c \in STRING
  PROVE  Scan(s, c) \in Scanning /\ s.bad \subseteq Scan(s, c).bad
<1>1. <<>> \in Text BY EmptySeq DEF Text
<1>2. Append(s.seg, c) \in Text BY AppendProperties DEF Text, Scanning
<1>3. Problems(s.seg) \subseteq Kinds
  <2>1. {"empty"} \subseteq Kinds BY Zenon DEF Kinds
  <2>2. {"nameless"} \subseteq Kinds BY Zenon DEF Kinds
  <2>3. {"unnamed"} \subseteq Kinds BY Zenon DEF Kinds
  <2> QED BY <2>1, <2>2, <2>3 DEF Problems
<1>4. CASE c = Brace
  <2>1. \/ Scan(s, c) = [open |-> TRUE, seg |-> <<>>, bad |-> s.bad \cup {"nested"}]
        \/ Scan(s, c) = [open |-> TRUE, seg |-> <<>>, bad |-> s.bad]
    <3>1. c # EndBrace BY <1>4, Zenon DEF Brace, EndBrace
    <3> QED BY <1>4, <3>1 DEF Scan
  <2>2. {"nested"} \subseteq Kinds BY Zenon DEF Kinds
  <2>3. s.bad \subseteq Kinds BY DEF Scanning
  <2> DEFINE kind == {"nested"}
  <2>4. kind \subseteq Kinds BY <2>2
  <2>5. \/ Scan(s, c) = [open |-> TRUE, seg |-> <<>>, bad |-> s.bad \cup kind]
        \/ Scan(s, c) = [open |-> TRUE, seg |-> <<>>, bad |-> s.bad]
    BY <2>1
  <2> HIDE DEF kind
  <2>6. CASE Scan(s, c) = [open |-> TRUE, seg |-> <<>>, bad |-> s.bad \cup kind]
    BY <1>1, <2>3, <2>4, <2>6 DEF Scanning
  <2>7. CASE Scan(s, c) = [open |-> TRUE, seg |-> <<>>, bad |-> s.bad]
    BY <1>1, <2>3, <2>7 DEF Scanning
  <2> QED BY <2>5, <2>6, <2>7
<1>5. CASE c = EndBrace /\ c # Brace
  <2>1. CASE s.open
    BY <1>1, <1>3, <1>5, <2>1 DEF Scan, Scanning
  <2>2. CASE ~s.open
    <3> DEFINE kind == {"unopened"}
    <3>1. kind \subseteq Kinds BY Zenon DEF Kinds
    <3>2. s = [open |-> s.open, seg |-> s.seg, bad |-> s.bad] BY DEF Scanning
    <3>3. Scan(s, c) = [s EXCEPT !.bad = s.bad \cup kind] BY <1>5, <2>2 DEF Scan
    <3> HIDE DEF kind
    <3>4. Scan(s, c) = [open |-> s.open, seg |-> s.seg, bad |-> s.bad \cup kind]
      BY <3>2, <3>3
    <3> QED BY <3>1, <3>4 DEF Scanning
  <2> QED BY <2>1, <2>2
<1>6. CASE c # EndBrace /\ c # Brace
  BY <1>2, <1>6 DEF Scan, Scanning
<1> QED BY <1>4, <1>5, <1>6

\* A run of validateURITemplate.
Scanned(after, href) ==
  /\ \A i \in 0..Len(href) : after[i] \in Scanning
  /\ ~after[0].open /\ after[0].bad = {}
  /\ \A i \in 1..Len(href) : after[i] = Scan(after[i - 1], href[i])
  /\ after[Len(href)].bad \subseteq Malformed(href)
  /\ Malformed(href) = {} <=> after[Len(href)].bad = {} /\ ~after[Len(href)].open

LEMMA ScanRun == ASSUME NEW href \in Text PROVE \E after : Scanned(after, href)
<1> DEFINE n == Len(href)
           first == [open |-> FALSE, seg |-> <<>>, bad |-> {}]
           step == [x \in Scanning \X (1..n) |-> Scan(x[1], href[x[2]])]
           Loop(f) == f = [i \in 0..n |-> IF i = 0 THEN first ELSE Scan(f[i - 1], href[i])]
           after == CHOOSE f : Loop(f)
           kind == {"unclosed"}
<1>1. n \in Nat /\ href \in Seq(STRING) BY LenProperties DEF Text
<1>2. \A i \in 1..n : href[i] \in STRING BY <1>1, ElementOfSeq
<1>3. first \in Scanning
  <2>1. <<>> \in Text BY EmptySeq DEF Text
  <2> QED BY <2>1 DEF Scanning
<1>4. \A x \in Scanning : \A i \in 1..n : Scan(x, href[i]) \in Scanning
  BY <1>2, ScanRight
<1>5. \A x \in Scanning : \A i \in 1..n : step[<<x, i>>] = Scan(x, href[i]) OBVIOUS
<1>6. ~first.open /\ first.bad = {} OBVIOUS
<1>7. Malformed(href) = IF after[n].open THEN after[n].bad \cup kind ELSE after[n].bad
  BY DEF Malformed
<1>8. kind # {} OBVIOUS
<1> HIDE DEF step, n, first, kind
<1>9. PICK f : IsRun(f, Scanning, first, step, n)
  <2>1. Closed(Scanning, step, n) BY <1>4, <1>5 DEF Closed
  <2> QED BY <1>1, <1>3, <2>1, LoopRuns
<1> DEFINE g == [i \in 0..n |-> f[i]]
<1>10. Loop(g)
  <2>1. \A i \in 0..n : g[i] = f[i] OBVIOUS
  <2>2. ASSUME NEW i \in 0..n
        PROVE  g[i] = IF i = 0 THEN first ELSE Scan(g[i - 1], href[i])
    <3>1. CASE i = 0 BY <1>9, <2>1, <3>1 DEF IsRun
    <3>2. CASE i # 0
      <4>1. i \in 1..n /\ i - 1 \in 0..n BY <1>1, <3>2
      <4>2. f[i] = Scan(f[i - 1], href[i]) BY <1>5, <1>9, <4>1 DEF IsRun
      <4> QED BY <2>1, <3>2, <4>1, <4>2
    <3> QED BY <3>1, <3>2
  <2>3. g = [i \in 0..n |-> g[i]] OBVIOUS
  <2> HIDE DEF g
  <2> QED BY <2>2, <2>3
<1> HIDE DEF g
<1>11. Loop(after) BY <1>10
<1>12. \A i \in 0..n : after[i] = IF i = 0 THEN first ELSE Scan(after[i - 1], href[i])
  BY <1>11
<1> HIDE DEF after, Loop
<1>13. after[0] = first BY <1>1, <1>12
<1>14. \A i \in 1..n : after[i] = Scan(after[i - 1], href[i]) BY <1>1, <1>12
<1>15. \A i \in 0..n : after[i] \in Scanning
  <2>1. StaysIn(Scanning, after, n) BY <1>3, <1>4, <1>13, <1>14 DEF StaysIn
  <2> QED BY <1>1, <2>1, LoopStays
<1>16. /\ after[n].bad \subseteq Malformed(href)
       /\ Malformed(href) = {} <=> after[n].bad = {} /\ ~after[n].open
  <2>1. CASE after[n].open
    <3>1. Malformed(href) = after[n].bad \cup kind BY <1>7, <2>1
    <3> QED BY <1>8, <2>1, <3>1
  <2>2. CASE ~after[n].open
    <3>1. Malformed(href) = after[n].bad BY <1>7, <2>2
    <3> QED BY <2>2, <3>1
  <2> QED BY <2>1, <2>2
<1> QED BY <1>6, <1>13, <1>14, <1>15, <1>16 DEF Scanned, n

-----------------------------------------------------------------------------
(* validateURITemplate finds fault with exactly the texts that have one.     *)

LEMMA Characters ==
  /\ Brace # EndBrace /\ Comma # EndBrace /\ Comma # Brace
  /\ EndBrace \notin Operators /\ Comma \notin Operators
  /\ QueryOperators \subseteq Operators
<1>1. Brace # EndBrace BY Zenon DEF Brace, EndBrace
<1>2. Comma # EndBrace BY Zenon DEF Comma, EndBrace
<1>3. Comma # Brace BY Zenon DEF Comma, Brace
<1>4. EndBrace \notin Operators BY Zenon DEF EndBrace, Operators
<1>5. Comma \notin Operators BY Zenon DEF Comma, Operators
<1>6. QueryOperators \subseteq Operators BY Zenon DEF QueryOperators, Operators
<1> QED BY <1>1, <1>2, <1>3, <1>4, <1>5, <1>6

\* Between two places where a name begins or ends there is none, seen from i.
GapAt(body, i) ==
  /\ i = 0 \/ body[i] = Comma
  /\ i = Len(body) \/ body[i + 1] = Comma

\* What one character makes of the last name and of those before it.
LEMMA NextCharCases ==
  ASSUME NEW names \in Names, NEW c \in STRING
  PROVE  LET more == NextChar(names, c)
             last == Len(names)
         IN  /\ c = Comma => /\ Len(more) = last + 1 /\ more[last + 1] = <<>>
                             /\ \A i \in 1..last : more[i] = names[i]
             /\ c # Comma => /\ Len(more) = last /\ more[last] # <<>>
                             /\ \A i \in 1..(last - 1) : more[i] = names[i]
<1> DEFINE n == Len(names)
<1>1. names \in Seq(Text) /\ n \in Nat /\ n >= 1 /\ DOMAIN names = 1..n
  BY LenProperties DEF Names
<1>2. CASE c = Comma
  <2>1. NextChar(names, c) = Append(names, <<>>) BY <1>2 DEF NextChar
  <2>2. <<>> \in Text BY EmptySeq DEF Text
  <2>3. /\ Len(Append(names, <<>>)) = n + 1 /\ Append(names, <<>>)[n + 1] = <<>>
        /\ \A i \in 1..n : Append(names, <<>>)[i] = names[i]
    BY <1>1, <2>2, AppendProperties
  <2> QED BY <1>2, <2>1, <2>3
<1>3. CASE c # Comma
  <2> DEFINE e == Append(names[n], c)
             more == [names EXCEPT ![n] = e]
  <2>1. NextChar(names, c) = more BY <1>3 DEF NextChar
  <2>2. n \in 1..n BY <1>1
  <2>3. names[n] \in Text BY <1>1, <2>2, ElementOfSeq
  <2>4. e \in Text /\ e # <<>> BY <2>3, AppendProperties DEF Text
  <2> HIDE DEF e
  <2>5. Len(more) = n BY <1>1, <2>2, <2>4, ExceptSeq
  <2>6. more[n] = e /\ \A i \in 1..(n - 1) : more[i] = names[i]
    <3> HIDE DEF n
    <3>1. \A i \in 1..(n - 1) : i \in DOMAIN names /\ i # n BY <1>1
    <3>2. n \in DOMAIN names BY <1>1
    <3> QED BY <3>1, <3>2
  <2> HIDE DEF more
  <2> QED BY <1>3, <2>1, <2>4, <2>5, <2>6
<1> QED BY <1>2, <1>3

\* A name of a list is empty where a comma follows the beginning or another
\* comma, or ends the text.
LEMMA EmptyNames ==
  ASSUME NEW body \in Text
  PROVE  EmptyName(SplitNames(body)) <=> \E i \in 0..Len(body) : GapAt(body, i)
<1> DEFINE n == Len(body)
           Last(k) == k = 0 \/ body[k] = Comma
           Gap(i) == Last(i) /\ body[i + 1] = Comma
<1>1. n \in Nat /\ \A i \in 1..n : body[i] \in STRING
  BY LenProperties, ElementOfSeq DEF Text
<1>2. PICK names : NamesFound(names, body) BY NamesRun
<1> DEFINE End(k) == Len(names[k])
           Right(k) == /\ names[k][End(k)] = <<>> <=> Last(k)
                       /\ (\E j \in 1..(End(k) - 1) : names[k][j] = <<>>)
                            <=> (\E i \in 0..(k - 1) : Gap(i))
           T == {k \in Nat : k <= n => Right(k)}
<1>3. \A k \in 0..n : names[k] \in Names BY <1>2 DEF NamesFound
<1>4. 0 \in T
  <2>1. names[0] = << <<>> >> BY <1>2 DEF NamesFound
  <2>2. End(0) = 1 /\ names[0][1] = <<>> BY <2>1
  <2>3. Right(0) BY <2>2
  <2> HIDE DEF Right
  <2> QED BY <2>3
<1>5. ASSUME NEW k \in Nat, k \in T PROVE k + 1 \in T
  <2> SUFFICES ASSUME k + 1 <= n PROVE Right(k + 1)
    <3> HIDE DEF Right
    <3> QED OBVIOUS
  <2> DEFINE c == body[k + 1]
             e == End(k)
  <2>1. Right(k)
    <3> HIDE DEF Right
    <3> QED BY <1>1, <1>5
  <2>2. k \in 0..n /\ k + 1 \in 1..n /\ (k + 1) - 1 = k BY <1>1
  <2>3. names[k + 1] = NextChar(names[k], c) BY <1>2, <2>2 DEF NamesFound
  <2>4. names[k] \in Names /\ c \in STRING BY <1>1, <1>3, <2>2
  <2>5. e \in Nat /\ e >= 1 BY <2>4, LenProperties DEF Names
  <2>6. /\ c = Comma => /\ End(k + 1) = e + 1 /\ names[k + 1][e + 1] = <<>>
                        /\ \A i \in 1..e : names[k + 1][i] = names[k][i]
        /\ c # Comma => /\ End(k + 1) = e /\ names[k + 1][e] # <<>>
                        /\ \A i \in 1..(e - 1) : names[k + 1][i] = names[k][i]
    <3> DEFINE m == names[k]
               more == names[k + 1]
    <3>1. m \in Names /\ more = NextChar(m, c) BY <2>3, <2>4
    <3> HIDE DEF c, m, more
    <3>2. /\ c = Comma => /\ Len(more) = Len(m) + 1 /\ more[Len(m) + 1] = <<>>
                          /\ \A i \in 1..Len(m) : more[i] = m[i]
          /\ c # Comma => /\ Len(more) = Len(m) /\ more[Len(m)] # <<>>
                          /\ \A i \in 1..(Len(m) - 1) : more[i] = m[i]
      BY <2>4, <3>1, NextCharCases
    <3> QED BY <3>2 DEF m, more
  <2>7. CASE c = Comma
    <3>1. names[k + 1][End(k + 1)] = <<>> /\ Last(k + 1) BY <2>6, <2>7
    <3>2. (\E j \in 1..(End(k + 1) - 1) : names[k + 1][j] = <<>>)
            <=> (\E j \in 1..(e - 1) : names[k][j] = <<>>) \/ names[k][e] = <<>>
      <4>1. End(k + 1) - 1 = e BY <2>5, <2>6, <2>7
      <4>2. \A j \in 1..e : j \in 1..(e - 1) \/ j = e BY <2>5
      <4>3. e \in 1..e /\ \A j \in 1..(e - 1) : j \in 1..e BY <2>5
      <4>4. \A j \in 1..e : names[k + 1][j] = names[k][j] BY <2>6, <2>7
      <4> HIDE DEF e, End, Last, c
      <4> QED BY <4>1, <4>2, <4>3, <4>4
    <3>3. (\E i \in 0..k : Gap(i)) <=> (\E i \in 0..(k - 1) : Gap(i)) \/ Last(k)
      <4>1. Gap(k) <=> Last(k) BY <2>7
      <4>2. k \in 0..k /\ (\A i \in 0..k : i \in 0..(k - 1) \/ i = k) BY <2>2
      <4>3. \A i \in 0..(k - 1) : i \in 0..k BY <2>2
      <4> HIDE DEF Gap, Last
      <4> QED BY <4>1, <4>2, <4>3
    <3> HIDE DEF Gap, Last, End, c
    <3> QED BY <2>1, <2>2, <3>1, <3>2, <3>3 DEF e
  <2>8. CASE c # Comma
    <3>1. names[k + 1][End(k + 1)] # <<>> /\ ~Last(k + 1) BY <2>2, <2>6, <2>8
    <3>2. (\E j \in 1..(End(k + 1) - 1) : names[k + 1][j] = <<>>)
            <=> (\E j \in 1..(e - 1) : names[k][j] = <<>>)
      BY <2>6, <2>8
    <3>3. (\E i \in 0..k : Gap(i)) <=> (\E i \in 0..(k - 1) : Gap(i))
      <4>1. ~Gap(k) BY <2>8
      <4>2. \A i \in 0..k : i \in 0..(k - 1) \/ i = k BY <2>2
      <4>3. \A i \in 0..(k - 1) : i \in 0..k BY <2>2
      <4> HIDE DEF Gap
      <4> QED BY <4>1, <4>2, <4>3
    <3> HIDE DEF Gap, Last, End, c
    <3> QED BY <2>1, <2>2, <3>1, <3>2, <3>3 DEF e
  <2> QED BY <2>7, <2>8
<1>6. \A k \in Nat : k \in T
  <2> HIDE DEF T
  <2> QED BY <1>4, <1>5, SetInduction
<1>7. Right(n)
  <2> HIDE DEF Right
  <2> QED BY <1>1, <1>6
<1>8. EmptyName(SplitNames(body))
        <=> (\E j \in 1..(End(n) - 1) : names[n][j] = <<>>) \/ names[n][End(n)] = <<>>
  <2> DEFINE e == End(n)
  <2>1. SplitNames(body) = names[n] BY <1>2 DEF NamesFound
  <2>2. names[n] \in Names BY <1>1, <1>3
  <2>3. e \in Nat /\ e >= 1 /\ DOMAIN names[n] = 1..e BY <2>2, LenProperties DEF Names
  <2>4. (\A j \in 1..e : j \in 1..(e - 1) \/ j = e) /\ e \in 1..e /\ \A j \in 1..(e - 1) : j \in 1..e
    BY <2>3
  <2> HIDE DEF e
  <2>5. (\E j \in DOMAIN names[n] : names[n][j] = <<>>)
          <=> (\E j \in 1..(e - 1) : names[n][j] = <<>>) \/ names[n][e] = <<>>
    BY <2>3, <2>4
  <2> QED BY <2>1, <2>5 DEF EmptyName, e
<1>9. (\E i \in 0..n : GapAt(body, i)) <=> (\E i \in 0..(n - 1) : Gap(i)) \/ Last(n)
  <2>1. \A i \in 0..(n - 1) : i \in 0..n /\ i # n BY <1>1
  <2>2. n \in 0..n /\ \A i \in 0..n : i \in 0..(n - 1) \/ i = n BY <1>1
  <2>3. \A i \in 0..(n - 1) : GapAt(body, i) <=> Gap(i) BY <2>1 DEF GapAt
  <2>4. GapAt(body, n) <=> Last(n) BY DEF GapAt
  <2> HIDE DEF Gap, Last, n
  <2> QED BY <2>1, <2>2, <2>3, <2>4
<1> HIDE DEF Gap, Last, End, n
<1> QED BY <1>7, <1>8, <1>9 DEF n

\* The text between two positions.
LEMMA Stretch ==
  ASSUME NEW h \in Text, NEW a \in Nat, NEW b \in Nat, a <= b, b <= Len(h)
  PROVE  LET seg == SubSeq(h, a + 1, b)
         IN  /\ seg \in Text /\ Len(seg) = b - a /\ DOMAIN seg = 1..(b - a)
             /\ \A i \in 1..(b - a) : seg[i] = h[a + i]
<1>1. h \in Seq(STRING) /\ Len(h) \in Nat /\ \A i \in 1..Len(h) : h[i] \in STRING
  BY LenProperties, ElementOfSeq DEF Text
<1>2. /\ a + 1 \in Int /\ b \in Int
      /\ (IF a + 1 <= b THEN b - (a + 1) + 1 ELSE 0) = b - a
      /\ b - (a + 1) + 1 = b - a
      /\ \A i \in (a + 1)..b : i \in 1..Len(h)
  BY <1>1
<1>3. /\ SubSeq(h, a + 1, b) \in Seq(STRING)
      /\ Len(SubSeq(h, a + 1, b)) = b - a
      /\ \A i \in 1..(b - a) : SubSeq(h, a + 1, b)[i] = h[(a + 1) + i - 1]
  BY <1>1, <1>2, SubSeqProperties
<1>4. \A i \in 1..(b - a) : (a + 1) + i - 1 = a + i OBVIOUS
<1>5. DOMAIN SubSeq(h, a + 1, b) = 1..(b - a) BY <1>3, LenProperties
<1> QED BY <1>3, <1>4, <1>5 DEF Text

\* What is wrong with the text of an expression is that a name is missing.
LEMMA ExpressionProblems ==
  ASSUME NEW h \in Text, NEW o, NEW c, Expression(h, o, c)
  PROVE  Problems(SubSeq(h, o + 1, c - 1)) = {} <=> NamesGiven(h, o, c)
<1> DEFINE seg == SubSeq(h, o + 1, c - 1)
           operator == seg # <<>> /\ Head(seg) \in Operators
           body == IF operator THEN Tail(seg) ELSE seg
           p == IF operator THEN o + 1 ELSE o
           n == Len(body)
<1>1. /\ Len(h) \in Nat /\ DOMAIN h = 1..Len(h)
      /\ o \in 1..Len(h) /\ c \in 1..Len(h) /\ o < c
      /\ h[c] = EndBrace
      /\ \A j \in (o + 1)..(c - 1) : h[j] # Brace /\ h[j] # EndBrace
  BY LenProperties DEF Text, Expression
<1>2. /\ seg \in Text /\ Len(seg) = c - 1 - o
      /\ \A i \in 1..(c - 1 - o) : seg[i] = h[o + i]
  <2>1. o \in Nat /\ c - 1 \in Nat /\ o <= c - 1 /\ c - 1 <= Len(h) /\ c - 1 - o = (c - 1) - o
    BY <1>1
  <2> QED BY <2>1, Stretch
<1>3. seg = <<>> <=> c = o + 1
  <2>1. seg = <<>> <=> Len(seg) = 0 BY <1>2, EmptySeq DEF Text
  <2> HIDE DEF seg
  <2> QED BY <1>1, <1>2, <2>1
<1>4. operator => /\ o + 1 < c /\ h[o + 1] \in Operators
                  /\ Tail(seg) \in Text /\ Len(Tail(seg)) = c - 1 - (o + 1)
                  /\ \A i \in 1..(c - 1 - (o + 1)) : Tail(seg)[i] = h[(o + 1) + i]
  <2> SUFFICES ASSUME operator
               PROVE  /\ o + 1 < c /\ h[o + 1] \in Operators
                      /\ Tail(seg) \in Text /\ Len(Tail(seg)) = c - 1 - (o + 1)
                      /\ \A i \in 1..(c - 1 - (o + 1)) : Tail(seg)[i] = h[(o + 1) + i]
    OBVIOUS
  <2>1. o + 1 < c BY <1>1, <1>3
  <2>2. h \in Seq(STRING) /\ o + 1 \in 1..Len(h) /\ c - 1 \in (o + 1)..Len(h)
    BY <1>1, <2>1 DEF Text
  <2>3. Head(seg) = h[o + 1] /\ Tail(seg) = SubSeq(h, (o + 1) + 1, c - 1)
    BY <2>2, HeadTailOfSubSeq
  <2>4. o + 1 \in Nat /\ c - 1 \in Nat /\ o + 1 <= c - 1 /\ c - 1 <= Len(h) BY <1>1, <2>1
  <2> DEFINE q == o + 1
             rest == SubSeq(h, q + 1, c - 1)
  <2> HIDE DEF q
  <2>5. /\ rest \in Text /\ Len(rest) = c - 1 - q
        /\ \A i \in 1..(c - 1 - q) : rest[i] = h[q + i]
    BY <2>1, <2>4, Stretch DEF q
  <2>6. Tail(seg) = rest BY <2>3 DEF q
  <2>7. q = o + 1 BY DEF q
  <2>8. h[o + 1] \in Operators BY <2>3
  <2> HIDE DEF seg, rest, operator
  <2> QED BY <2>1, <2>5, <2>6, <2>7, <2>8
<1>5. ~operator /\ o + 1 < c => h[o + 1] \notin Operators
  <2> SUFFICES ASSUME ~operator, o + 1 < c PROVE h[o + 1] \notin Operators OBVIOUS
  <2>1. h \in Seq(STRING) /\ o + 1 \in 1..Len(h) /\ c - 1 \in (o + 1)..Len(h)
    BY <1>1 DEF Text
  <2>2. Head(seg) = h[o + 1] BY <2>1, HeadTailOfSubSeq
  <2> QED BY <1>1, <1>3, <2>2
<1>6. /\ body \in Text /\ p \in {o, o + 1} /\ p < c /\ n = c - 1 - p
      /\ \A i \in 1..n : body[i] = h[p + i]
      /\ p = o + 1 => h[o + 1] \in Operators
      /\ p = o /\ o + 1 < c => h[o + 1] \notin Operators
  <2>1. CASE operator
    <3>1. body = Tail(seg) /\ p = o + 1 BY <2>1
    <3>2. p # o BY <1>1, <3>1
    <3> HIDE DEF operator, body, p, seg
    <3> QED BY <1>4, <2>1, <3>1, <3>2
  <2>2. CASE ~operator
    <3>1. body = seg /\ p = o BY <2>2
    <3>2. p # o + 1 BY <1>1, <3>1
    <3> HIDE DEF operator, body, p, seg
    <3> QED BY <1>1, <1>2, <1>5, <2>2, <3>1, <3>2
  <2> QED BY <2>1, <2>2
<1>7. Problems(seg) = {} <=> ~ \E i \in 0..n : GapAt(body, i)
  <2> DEFINE e == {"empty"}
             l == {"nameless"}
             u == {"unnamed"}
             unnamed == body # <<>> /\ EmptyName(SplitNames(body))
  <2>1. Problems(seg) = CASE seg = <<>> -> e
                              [] seg # <<>> /\ body = <<>> -> l
                              [] unnamed -> u
                              [] OTHER -> {}
    BY DEF Problems
  <2>2. e # {} /\ l # {} /\ u # {} OBVIOUS
  <2>3. seg = <<>> => body = <<>> OBVIOUS
  <2>4. EmptyName(SplitNames(body)) <=> \E i \in 0..n : GapAt(body, i)
    <3> HIDE DEF body
    <3> QED BY <1>6, EmptyNames
  <2>5. body = <<>> => \E i \in 0..n : GapAt(body, i)
    <3> SUFFICES ASSUME body = <<>> PROVE \E i \in 0..n : GapAt(body, i) OBVIOUS
    <3> HIDE DEF body
    <3>1. n = 0 BY EmptySeq
    <3> QED BY <3>1 DEF GapAt
  <2> HIDE DEF e, l, u, body, seg
  <2>6. Problems(seg) = {} <=> body # <<>> /\ ~unnamed BY <2>1, <2>2, <2>3
  <2> QED BY <2>4, <2>5, <2>6
<1> HIDE DEF seg, operator, body, p
<1> DEFINE Missing(j) == NameDue(h, o, j) /\ h[j + 1] \in {Comma, EndBrace}
<1>8. ASSUME NEW i \in 0..n PROVE GapAt(body, i) <=> Missing(p + i)
  <2>0. n \in Nat /\ n = c - 1 - p /\ p \in Nat /\ o \in Nat BY <1>1, <1>6
  <2>1. NameDue(h, o, p + i) <=> i = 0 \/ body[i] = Comma
    <3>1. CASE i = 0
      <4>1. p + i = o \/ (p + i = o + 1 /\ h[p + i] \in Operators) BY <1>6, <2>0, <3>1
      <4> QED BY <3>1, <4>1 DEF NameDue
    <3>2. CASE i # 0
      <4>1. i \in 1..n /\ p + i # o /\ (p + i = o + 1 => p = o /\ o + 1 < c)
        BY <1>1, <1>6, <2>0, <3>2
      <4>2. body[i] = h[p + i] BY <1>6, <4>1
      <4>3. ~(p + i = o + 1 /\ h[p + i] \in Operators) BY <1>6, <4>1
      <4> QED BY <3>2, <4>1, <4>2, <4>3 DEF NameDue
    <3> QED BY <3>1, <3>2
  <2>2. h[(p + i) + 1] \in {Comma, EndBrace} <=> i = n \/ body[i + 1] = Comma
    <3>1. CASE i = n
      <4>1. (p + i) + 1 = c BY <1>1, <2>0, <3>1
      <4> QED BY <1>1, <3>1, <4>1
    <3>2. CASE i # n
      <4>1. i + 1 \in 1..n /\ (p + i) + 1 = p + (i + 1) /\ p + (i + 1) \in (o + 1)..(c - 1)
        BY <1>1, <1>6, <2>0, <3>2
      <4>2. body[i + 1] = h[p + (i + 1)] BY <1>6, <4>1
      <4>3. h[p + (i + 1)] # EndBrace BY <1>1, <4>1
      <4> QED BY <3>2, <4>1, <4>2, <4>3
    <3> QED BY <3>1, <3>2
  <2> QED BY <2>1, <2>2 DEF GapAt
<1>9. NamesGiven(h, o, c) <=> ~ \E j \in o..(c - 1) : Missing(j)
  BY DEF NamesGiven
<1>10. (\E i \in 0..n : GapAt(body, i)) <=> \E j \in o..(c - 1) : Missing(j)
  <2>0. n \in Nat /\ n = c - 1 - p /\ p \in Nat /\ o \in Nat /\ c \in Nat BY <1>1, <1>6
  <2>1. ASSUME NEW i \in 0..n, GapAt(body, i) PROVE \E j \in o..(c - 1) : Missing(j)
    <3>1. p + i \in o..(c - 1) BY <1>6, <2>0
    <3>2. Missing(p + i) BY <1>8, <2>1
    <3> HIDE DEF Missing
    <3> QED BY <3>1, <3>2
  <2>2. ASSUME NEW j \in o..(c - 1), Missing(j) PROVE \E i \in 0..n : GapAt(body, i)
    <3>1. p <= j
      <4> SUFFICES ASSUME ~(p <= j) PROVE FALSE OBVIOUS
      <4>1. j = o /\ p = o + 1 BY <1>6, <2>0
      <4>2. h[j + 1] \in Operators BY <1>6, <4>1
      <4>3. h[j + 1] \in {Comma, EndBrace} BY <2>2
      <4> QED BY <4>2, <4>3, Characters
    <3>2. j - p \in 0..n /\ p + (j - p) = j BY <2>0, <3>1
    <3>3. GapAt(body, j - p) BY <1>8, <2>2, <3>2
    <3> QED BY <3>2, <3>3
  <2> HIDE DEF Missing
  <2> QED BY <2>1, <2>2
<1> HIDE DEF Missing
<1> QED BY <1>7, <1>9, <1>10 DEF seg

\* After k characters the expression that begins at o has not ended.
Pending(h, k, o) ==
  /\ o \in 1..k /\ h[o] = Brace
  /\ \A j \in (o + 1)..k : h[j] # Brace /\ h[j] # EndBrace

\* Nothing is wrong with the k-th character.
Fits(h, k) ==
  /\ h[k] = Brace => \A o : ~Pending(h, k - 1, o)
  /\ h[k] = EndBrace => \E o : Pending(h, k - 1, o) /\ NamesGiven(h, o, k)

LEMMA PendingStep ==
  ASSUME NEW h, NEW k \in Nat \ {0}, NEW o
  PROVE  Pending(h, k, o) <=>
           \/ o = k /\ h[k] = Brace
           \/ Pending(h, k - 1, o) /\ h[k] # Brace /\ h[k] # EndBrace
<1>1. CASE o = k
  <2>1. ~Pending(h, k - 1, o) BY <1>1 DEF Pending
  <2>2. Pending(h, k, o) <=> h[k] = Brace BY <1>1 DEF Pending
  <2> QED BY <1>1, <2>1, <2>2
<1>2. CASE o # k
  <2>1. o \in 1..k <=> o \in 1..(k - 1) BY <1>2
  <2>2. ASSUME o \in 1..(k - 1)
        PROVE  /\ k \in (o + 1)..k
               /\ \A j \in (o + 1)..k : j = k \/ j \in (o + 1)..(k - 1)
               /\ \A j \in (o + 1)..(k - 1) : j \in (o + 1)..k
    BY <2>2
  <2> QED BY <1>2, <2>1, <2>2 DEF Pending
<1> QED BY <1>1, <1>2

\* One expression at most is pending.
LEMMA OnePending ==
  ASSUME NEW h, NEW k \in Nat, NEW o, NEW p, Pending(h, k, o), Pending(h, k, p)
  PROVE  o = p
<1>1. o \in 1..k /\ p \in 1..k BY DEF Pending
<1>2. ASSUME o < p PROVE FALSE
  <2>1. p \in (o + 1)..k BY <1>1, <1>2
  <2> QED BY <2>1 DEF Pending
<1>3. ASSUME p < o PROVE FALSE
  <2>1. o \in (p + 1)..k BY <1>1, <1>3
  <2> QED BY <2>1 DEF Pending
<1> QED BY <1>1, <1>2, <1>3

LEMMA PendingEnds ==
  ASSUME NEW h \in Text, NEW o, NEW c \in 1..Len(h)
  PROVE  Expression(h, o, c) <=> Pending(h, c - 1, o) /\ h[c] = EndBrace
<1>1. DOMAIN h = 1..Len(h) /\ Len(h) \in Nat BY LenProperties DEF Text
<1> QED BY <1>1 DEF Expression, Pending

\* What one character does to the scanner.
LEMMA ScanCases ==
  ASSUME NEW s \in Scanning, NEW c \in STRING
  PROVE  /\ c = Brace => /\ Scan(s, c).open /\ Scan(s, c).seg = <<>>
                         /\ Scan(s, c).bad = {} <=> s.bad = {} /\ ~s.open
         /\ c = EndBrace => /\ ~Scan(s, c).open
                            /\ Scan(s, c).bad = {} <=>
                                 s.bad = {} /\ s.open /\ Problems(s.seg) = {}
         /\ c # Brace /\ c # EndBrace =>
              /\ Scan(s, c).open <=> s.open
              /\ s.open => Scan(s, c).seg = Append(s.seg, c)
              /\ Scan(s, c).bad = s.bad
<1>0. s = [open |-> s.open, seg |-> s.seg, bad |-> s.bad] BY DEF Scanning
<1>1. CASE c = Brace
  <2>1. c # EndBrace BY <1>1, Characters
  <2> DEFINE kind == {"nested"}
             bad == IF s.open THEN s.bad \cup kind ELSE s.bad
  <2>2. Scan(s, c) = [open |-> TRUE, seg |-> <<>>, bad |-> bad]
    BY <1>1, <2>1 DEF Scan
  <2>3. kind # {} OBVIOUS
  <2> HIDE DEF kind
  <2>4. bad = {} <=> s.bad = {} /\ ~s.open
    <3>1. CASE s.open
      <4>1. bad = s.bad \cup kind BY <3>1
      <4> HIDE DEF bad
      <4> QED BY <2>3, <3>1, <4>1
    <3>2. CASE ~s.open BY <3>2
    <3> QED BY <3>1, <3>2
  <2> HIDE DEF bad
  <2> QED BY <1>1, <2>1, <2>2, <2>4
<1>2. CASE c = EndBrace
  <2>1. c # Brace BY <1>2, Characters
  <2> DEFINE kind == {"unopened"}
  <2>2. CASE s.open
    <3>1. Scan(s, c) = [open |-> FALSE, seg |-> <<>>, bad |-> s.bad \cup Problems(s.seg)]
      BY <1>2, <2>1, <2>2 DEF Scan
    <3> QED BY <1>2, <2>1, <2>2, <3>1
  <2>3. CASE ~s.open
    <3>1. Scan(s, c) = [s EXCEPT !.bad = s.bad \cup kind] BY <1>2, <2>1, <2>3 DEF Scan
    <3>2. kind # {} OBVIOUS
    <3> HIDE DEF kind
    <3>3. Scan(s, c) = [open |-> s.open, seg |-> s.seg, bad |-> s.bad \cup kind]
      BY <1>0, <3>1
    <3> QED BY <1>2, <2>1, <2>3, <3>2, <3>3
  <2> QED BY <2>2, <2>3
<1>3. CASE c # Brace /\ c # EndBrace
  <2>1. CASE s.open
    <3>1. Scan(s, c) = [s EXCEPT !.seg = Append(s.seg, c)] BY <1>3, <2>1 DEF Scan
    <3>2. Scan(s, c) = [open |-> s.open, seg |-> Append(s.seg, c), bad |-> s.bad]
      BY <1>0, <3>1
    <3> QED BY <1>3, <2>1, <3>2
  <2>2. CASE ~s.open
    <3>1. Scan(s, c) = s BY <1>3, <2>2 DEF Scan
    <3> QED BY <1>3, <2>2, <3>1
  <2> QED BY <2>1, <2>2
<1> QED BY <1>1, <1>2, <1>3

\* The scanner after k characters: it is in the pending expression, and has found
\* nothing wrong as long as there was nothing.
ScannedTo(after, h, k) ==
  /\ after.open <=> \E o : Pending(h, k, o)
  /\ \A o : Pending(h, k, o) => after.seg = SubSeq(h, o + 1, k)
  /\ after.bad = {} <=> \A i \in 1..k : Fits(h, i)

LEMMA ScannedNext ==
  ASSUME NEW h \in Text, NEW k \in 1..Len(h), NEW s \in Scanning, ScannedTo(s, h, k - 1)
  PROVE  ScannedTo(Scan(s, h[k]), h, k)
<1> DEFINE c == h[k]
           t == Scan(s, c)
<1>1. h \in Seq(STRING) /\ Len(h) \in Nat /\ c \in STRING
  BY LenProperties, ElementOfSeq DEF Text
<1>2. k \in Nat \ {0} /\ k - 1 \in Nat BY <1>1
<1>3. (\A i \in 1..k : Fits(h, i)) <=> (\A i \in 1..(k - 1) : Fits(h, i)) /\ Fits(h, k)
  <2>1. k \in 1..k /\ (\A i \in 1..k : i = k \/ i \in 1..(k - 1)) /\ (\A i \in 1..(k - 1) : i \in 1..k)
    BY <1>2
  <2> QED BY <2>1
<1>4. CASE c = Brace
  <2>1. t.open /\ t.seg = <<>> /\ (t.bad = {} <=> s.bad = {} /\ ~s.open)
    BY <1>1, <1>4, ScanCases
  <2>2. c # EndBrace BY <1>4, Characters
  <2>3. \A o : Pending(h, k, o) <=> o = k BY <1>2, <1>4, PendingStep
  <2>4. SubSeq(h, k + 1, k) = <<>> BY <1>2, SubSeqEmpty
  <2>5. Fits(h, k) <=> \A o : ~Pending(h, k - 1, o) BY <1>4, <2>2 DEF Fits
  <2>6. \A o : Pending(h, k, o) => t.seg = SubSeq(h, o + 1, k) BY <2>1, <2>3, <2>4
  <2> HIDE DEF t
  <2>7. t.open <=> \E o : Pending(h, k, o) BY <2>1, <2>3
  <2>8. t.bad = {} <=> \A i \in 1..k : Fits(h, i) BY <1>3, <2>1, <2>5 DEF ScannedTo
  <2> QED BY <2>6, <2>7, <2>8 DEF ScannedTo, t
<1>5. CASE c = EndBrace
  <2>1. ~t.open /\ (t.bad = {} <=> s.bad = {} /\ s.open /\ Problems(s.seg) = {})
    BY <1>1, <1>5, ScanCases
  <2>2. c # Brace BY <1>5, Characters
  <2>3. \A o : ~Pending(h, k, o) BY <1>2, <1>5, <2>2, PendingStep
  <2>4. Fits(h, k) <=> \E o : Pending(h, k - 1, o) /\ NamesGiven(h, o, k)
    BY <1>5, <2>2 DEF Fits
  <2>5. ASSUME NEW o, Pending(h, k - 1, o)
        PROVE  Problems(s.seg) = {} <=> NamesGiven(h, o, k)
    <3>1. Expression(h, o, k) BY <1>5, <2>5, PendingEnds
    <3>2. s.seg = SubSeq(h, o + 1, k - 1) BY <2>5 DEF ScannedTo
    <3> QED BY <3>1, <3>2, ExpressionProblems
  <2>6. Fits(h, k) <=> s.open /\ Problems(s.seg) = {}
    <3>1. s.open <=> \E o : Pending(h, k - 1, o) BY DEF ScannedTo
    <3> QED BY <2>4, <2>5, <3>1
  <2> HIDE DEF t
  <2>7. t.bad = {} <=> \A i \in 1..k : Fits(h, i) BY <1>3, <2>1, <2>6 DEF ScannedTo
  <2> QED BY <2>1, <2>3, <2>7 DEF ScannedTo, t
<1>6. CASE c # Brace /\ c # EndBrace
  <2>1. /\ t.open <=> s.open
        /\ s.open => t.seg = Append(s.seg, c)
        /\ t.bad = s.bad
    BY <1>1, <1>6, ScanCases
  <2>2. \A o : Pending(h, k, o) <=> Pending(h, k - 1, o)
    <3>1. \A o : Pending(h, k - 1, o) => o # k BY <1>2 DEF Pending
    <3> QED BY <1>2, <1>6, PendingStep
  <2>3. Fits(h, k) BY <1>6 DEF Fits
  <2>4. ASSUME NEW o, Pending(h, k, o) PROVE t.seg = SubSeq(h, o + 1, k)
    <3>1. Pending(h, k - 1, o) BY <2>2, <2>4
    <3>2. s.open /\ s.seg = SubSeq(h, o + 1, k - 1) BY <3>1 DEF ScannedTo
    <3>3. o \in 1..(k - 1) BY <3>1 DEF Pending
    <3>4. /\ o + 1 \in 1..Len(h) /\ k - 1 \in ((o + 1) - 1)..(Len(h) - 1) /\ (k - 1) + 1 = k
          /\ k \in (o + 1)..Len(h)
      BY <1>1, <3>3
    <3>5. SubSeq(h, o + 1, k) = SubSeq(h, o + 1, k - 1) \o <<h[k]>>
      BY <1>1, <3>4, SubSeqRecursiveSecond
    <3>6. s.seg \in Seq(STRING) BY DEF Scanning, Text
    <3>7. Append(s.seg, c) = s.seg \o <<c>> BY <1>1, <3>6, AppendIsConcat
    <3> QED BY <2>1, <3>2, <3>5, <3>7
  <2> HIDE DEF t
  <2>5. t.open <=> \E o : Pending(h, k, o) BY <2>1, <2>2 DEF ScannedTo
  <2>6. t.bad = {} <=> \A i \in 1..k : Fits(h, i) BY <1>3, <2>1, <2>3 DEF ScannedTo
  <2> QED BY <2>4, <2>5, <2>6 DEF ScannedTo, t
<1> QED BY <1>4, <1>5, <1>6

LEMMA ScannedRight ==
  ASSUME NEW h \in Text
  PROVE  Malformed(h) = {} <=>
           (\A k \in 1..Len(h) : Fits(h, k)) /\ (\A o : ~Pending(h, Len(h), o))
<1> DEFINE n == Len(h)
<1>1. n \in Nat BY LenProperties DEF Text
<1>2. PICK after : Scanned(after, h) BY ScanRun
<1> DEFINE T == {k \in Nat : k <= n => ScannedTo(after[k], h, k)}
<1>3. 0 \in T
  <2>1. \A o : ~Pending(h, 0, o) BY DEF Pending
  <2>2. ScannedTo(after[0], h, 0) BY <1>2, <2>1 DEF Scanned, ScannedTo
  <2> QED BY <2>2
<1>4. ASSUME NEW k \in Nat, k \in T PROVE k + 1 \in T
  <2> SUFFICES ASSUME k + 1 <= n PROVE ScannedTo(after[k + 1], h, k + 1) OBVIOUS
  <2>1. k + 1 \in 1..n /\ (k + 1) - 1 = k /\ k \in 0..n BY <1>1
  <2>2. ScannedTo(after[k], h, k) /\ after[k] \in Scanning BY <1>1, <1>2, <1>4, <2>1 DEF Scanned
  <2>3. after[k + 1] = Scan(after[k], h[k + 1]) BY <1>2, <2>1 DEF Scanned
  <2> QED BY <2>1, <2>2, <2>3, ScannedNext
<1>5. \A k \in Nat : k \in T
  <2> HIDE DEF T
  <2> QED BY <1>3, <1>4, SetInduction
<1>6. ScannedTo(after[n], h, n) BY <1>1, <1>5
<1> QED BY <1>2, <1>6 DEF Scanned, ScannedTo

\* For any text: validateURITemplate reports something exactly if some brace is
\* not one of an expression, or a name is missing in one; it says nothing of a
\* template that could be expanded, and is silent about no other.
THEOREM MalformedExactly ==
  \A href \in Text : Malformed(href) = {} <=> WellFormed(href)
<1> SUFFICES ASSUME NEW h \in Text
             PROVE  Malformed(h) = {} <=> WellFormed(h)
  OBVIOUS
<1> DEFINE n == Len(h)
<1>1. n \in Nat /\ DOMAIN h = 1..n BY LenProperties DEF Text
<1>2. ASSUME \A k \in 1..n : Fits(h, k), \A o : ~Pending(h, n, o)
      PROVE  WellFormed(h)
  <2>1. ASSUME NEW o \in 1..n, h[o] = Brace
        PROVE  \E c \in 1..n : Expression(h, o, c)
    <3> DEFINE S == {j \in (o + 1)..n : h[j] = Brace \/ h[j] = EndBrace}
    <3>1. S # {} /\ S \subseteq Nat
      <4>1. ~Pending(h, n, o) BY <1>2
      <4> QED BY <1>1, <2>1, <4>1 DEF Pending
    <3>2. PICK c \in S : \A j \in S : c <= j
      <4> HIDE DEF S
      <4> QED BY <3>1, LeastNatural
    <3>3. c \in (o + 1)..n /\ c \in 1..n /\ (h[c] = Brace \/ h[c] = EndBrace)
      BY <1>1, <3>2
    <3>4. Pending(h, c - 1, o)
      <4>1. ASSUME NEW j \in (o + 1)..(c - 1)
            PROVE  h[j] # Brace /\ h[j] # EndBrace
        <5>1. j \in (o + 1)..n /\ ~(c <= j) BY <1>1, <3>3
        <5>2. j \notin S BY <3>2, <5>1
        <5> QED BY <5>1, <5>2
      <4> HIDE DEF S
      <4>2. o \in 1..(c - 1) BY <1>1, <3>3
      <4> QED BY <2>1, <4>1, <4>2 DEF Pending
    <3> HIDE DEF S
    <3>5. h[c] # Brace BY <1>2, <3>3, <3>4 DEF Fits
    <3>6. Expression(h, o, c) BY <3>3, <3>4, <3>5, PendingEnds
    <3> QED BY <3>3, <3>6
  <2>2. ASSUME NEW c \in 1..n, h[c] = EndBrace
        PROVE  \E o \in 1..n : Expression(h, o, c)
    <3>1. PICK o : Pending(h, c - 1, o) BY <1>2, <2>2 DEF Fits
    <3>2. Expression(h, o, c) BY <2>2, <3>1, PendingEnds
    <3>3. o \in 1..n BY <1>1, <3>1 DEF Pending
    <3> QED BY <3>2, <3>3
  <2>3. ASSUME NEW o \in 1..n, NEW c \in 1..n, Expression(h, o, c)
        PROVE  NamesGiven(h, o, c)
    <3>1. Pending(h, c - 1, o) /\ h[c] = EndBrace BY <2>3, PendingEnds
    <3>2. PICK p : Pending(h, c - 1, p) /\ NamesGiven(h, p, c) BY <1>2, <3>1 DEF Fits
    <3>3. o = p
      <4>1. c - 1 \in Nat BY <1>1
      <4> QED BY <3>1, <3>2, <4>1, OnePending
    <3> QED BY <3>2, <3>3
  <2> HIDE DEF n
  <2> QED BY <1>1, <2>1, <2>2, <2>3 DEF WellFormed
<1>3. ASSUME WellFormed(h)
      PROVE  (\A k \in 1..n : Fits(h, k)) /\ (\A o : ~Pending(h, n, o))
  <2>1. \A o \in 1..n : h[o] = Brace => \E c \in 1..n : Expression(h, o, c)
    BY <1>1, <1>3 DEF WellFormed
  <2>2. ASSUME NEW o, NEW k \in 0..n, Pending(h, k, o)
        PROVE  /\ k # n
               /\ \A i \in 1..n : i = k + 1 => h[i] # Brace
    <3>1. o \in 1..k /\ o \in 1..n /\ h[o] = Brace BY <1>1, <2>2 DEF Pending
    <3>2. PICK c \in 1..n : Expression(h, o, c) BY <2>1, <3>1
    <3>3. Pending(h, c - 1, o) /\ h[c] = EndBrace BY <3>2, PendingEnds
    <3>4. o \in 1..(c - 1) BY <3>3 DEF Pending
    <3>5. k < c
      <4> SUFFICES ASSUME ~(k < c) PROVE FALSE OBVIOUS
      <4>1. c \in (o + 1)..k BY <1>1, <3>1, <3>4
      <4> QED BY <2>2, <3>3, <4>1 DEF Pending
    <3>6. ASSUME NEW i \in 1..n, i = k + 1 PROVE h[i] # Brace
      <4>1. i = c \/ i \in (o + 1)..(c - 1) BY <1>1, <3>1, <3>4, <3>5, <3>6
      <4> QED BY <3>3, <4>1, Characters DEF Pending
    <3>7. k # n
      <4>1. c \in 1..n /\ k \in 0..n /\ n \in Nat BY <1>1, <3>2
      <4> HIDE DEF n
      <4> QED BY <3>5, <4>1
    <3> QED BY <3>6, <3>7
  <2>3. ASSUME NEW k \in 1..n PROVE Fits(h, k)
    <3>1. k - 1 \in 0..n /\ (k - 1) + 1 = k BY <1>1
    <3>2. h[k] = Brace => \A o : ~Pending(h, k - 1, o) BY <2>2, <3>1
    <3>3. ASSUME h[k] = EndBrace
          PROVE  \E o : Pending(h, k - 1, o) /\ NamesGiven(h, o, k)
      <4>1. PICK o \in 1..n : Expression(h, o, k) BY <1>1, <1>3, <3>3 DEF WellFormed
      <4>2. NamesGiven(h, o, k) BY <1>1, <1>3, <4>1 DEF WellFormed
      <4>3. Pending(h, k - 1, o) BY <4>1, PendingEnds
      <4> QED BY <4>2, <4>3
    <3> QED BY <3>2, <3>3 DEF Fits
  <2>4. \A o : ~Pending(h, n, o)
    <3>1. n \in 0..n BY <1>1
    <3> QED BY <2>2, <3>1
  <2> QED BY <2>3, <2>4
<1> QED BY <1>2, <1>3, ScannedRight

-----------------------------------------------------------------------------
(* splitURITemplate takes the other texts apart without losing a character.  *)

\* A run of Picked.
Picking(f, what, S, n) ==
  /\ f[0] = <<>>
  /\ \A i \in 1..n : f[i] = IF i \in S THEN Append(f[i - 1], what[i]) ELSE f[i - 1]
  /\ f[n] = Picked(what, S, n)

LEMMA PickingRun ==
  ASSUME NEW K, NEW what, NEW S, NEW n \in Nat, \A i \in 1..n : i \in S => what[i] \in K
  PROVE  \E f : Picking(f, what, S, n) /\ \A i \in 0..n : f[i] \in Seq(K)
<1> DEFINE Next1(q, i) == IF i \in S THEN Append(q, what[i]) ELSE q
           step == [x \in Seq(K) \X (1..n) |-> Next1(x[1], x[2])]
           Loop(f) == f = [i \in 0..n |-> IF i = 0 THEN <<>>
                                          ELSE IF i \in S THEN Append(f[i - 1], what[i])
                                          ELSE f[i - 1]]
           picked == CHOOSE f : Loop(f)
<1>1. ASSUME NEW x \in Seq(K), NEW i \in 1..n PROVE Next1(x, i) \in Seq(K)
  BY AppendProperties
<1>2. \A x \in Seq(K) : \A i \in 1..n : step[<<x, i>>] = Next1(x, i) OBVIOUS
<1>3. <<>> \in Seq(K) BY EmptySeq
<1>4. Picked(what, S, n) = picked[n] BY DEF Picked
<1> HIDE DEF step
<1>5. PICK f : IsRun(f, Seq(K), <<>>, step, n)
  <2>1. ASSUME NEW x \in Seq(K), NEW i \in 1..n PROVE step[<<x, i>>] \in Seq(K)
    <3>1. step[<<x, i>>] = Next1(x, i) BY <1>2
    <3> QED BY <1>1, <3>1
  <2>2. Closed(Seq(K), step, n) BY <2>1, Zenon DEF Closed
  <2> HIDE DEF Next1
  <2> QED BY <1>3, <2>2, LoopRuns
<1> DEFINE g == [i \in 0..n |-> f[i]]
<1> USE DEF IsRun
<1>6. Loop(g)
  <2>1. \A i \in 0..n : g[i] = f[i] OBVIOUS
  <2>2. ASSUME NEW i \in 0..n
        PROVE  g[i] = IF i = 0 THEN <<>>
                      ELSE IF i \in S THEN Append(g[i - 1], what[i]) ELSE g[i - 1]
    <3>1. CASE i = 0 BY <1>5, <2>1, <3>1
    <3>2. CASE i # 0
      <4>1. i \in 1..n /\ i - 1 \in 0..n BY <3>2
      <4>2. f[i] = Next1(f[i - 1], i) BY <1>2, <1>5, <4>1
      <4> QED BY <2>1, <3>2, <4>1, <4>2
    <3> QED BY <3>1, <3>2
  <2>3. g = [i \in 0..n |-> g[i]] OBVIOUS
  <2> HIDE DEF g
  <2> QED BY <2>2, <2>3
<1> HIDE DEF g
<1>7. Loop(picked) BY <1>6
<1>8. \A i \in 0..n : picked[i] = IF i = 0 THEN <<>> ELSE Next1(picked[i - 1], i) BY <1>7
<1> HIDE DEF picked, Loop, Next1
<1>9. picked[0] = <<>> /\ \A i \in 1..n : picked[i] = Next1(picked[i - 1], i) BY <1>8
<1>10. StaysIn(Seq(K), picked, n) BY <1>1, <1>3, <1>9 DEF StaysIn
<1>11. \A i \in 0..n : picked[i] \in Seq(K) BY <1>10, LoopStays
<1> QED BY <1>4, <1>9, <1>11 DEF Picking, Next1

\* Where no position is to be picked, nothing is.
LEMMA PickedNone ==
  ASSUME NEW f, NEW what, NEW S, NEW n \in Nat, Picking(f, what, S, n),
         NEW a \in 0..n, NEW b \in a..n, \A i \in (a + 1)..b : i \notin S
  PROVE  f[b] = f[a]
<1> DEFINE T == {k \in Nat : a + k <= b => f[a + k] = f[a]}
<1>1. 0 \in T OBVIOUS
<1>2. ASSUME NEW k \in Nat, k \in T PROVE k + 1 \in T
  <2> SUFFICES ASSUME a + (k + 1) <= b PROVE f[a + (k + 1)] = f[a] OBVIOUS
  <2>1. a + (k + 1) \in (a + 1)..b /\ a + (k + 1) \in 1..n /\ (a + (k + 1)) - 1 = a + k
        /\ a + k <= b
    OBVIOUS
  <2>2. f[a + (k + 1)] = f[a + k] BY <2>1 DEF Picking
  <2> QED BY <1>2, <2>1, <2>2
<1>3. \A k \in Nat : k \in T
  <2> HIDE DEF T
  <2> QED BY <1>1, <1>2, SetInduction
<1>4. b - a \in Nat /\ a + (b - a) = b /\ b <= b OBVIOUS
<1> QED BY <1>3, <1>4

\* Where every position of a text is to be picked, the text between is.
LEMMA PickedAll ==
  ASSUME NEW f, NEW h \in Text, NEW S, Picking(f, h, S, Len(h)),
         \A i \in 0..Len(h) : f[i] \in Text,
         NEW a \in 0..Len(h), NEW b \in a..Len(h), \A i \in (a + 1)..b : i \in S
  PROVE  f[b] = f[a] \o SubSeq(h, a + 1, b)
<1> DEFINE n == Len(h)
           T == {k \in Nat : a + k <= b => f[a + k] = f[a] \o SubSeq(h, a + 1, a + k)}
<1>1. n \in Nat /\ h \in Seq(STRING) /\ f[a] \in Seq(STRING) BY LenProperties DEF Text
<1>2. 0 \in T
  <2>1. SubSeq(h, a + 1, a) = <<>> BY SubSeqEmpty
  <2>2. f[a] \o <<>> = f[a] BY <1>1, ConcatEmptySeq
  <2>3. a + 0 = a OBVIOUS
  <2> QED BY <2>1, <2>2, <2>3
<1>3. ASSUME NEW k \in Nat, k \in T PROVE k + 1 \in T
  <2> SUFFICES ASSUME a + (k + 1) <= b
               PROVE  f[a + (k + 1)] = f[a] \o SubSeq(h, a + 1, a + (k + 1))
    <3>1. k + 1 \in Nat OBVIOUS
    <3> QED BY <3>1
  <2> DEFINE j == a + (k + 1)
             seg == SubSeq(h, a + 1, j - 1)
  <2>1. /\ j \in (a + 1)..b /\ j \in 1..n /\ j - 1 = a + k /\ a + k <= b
        /\ a + 1 \in 1..n /\ j \in (a + 1)..n /\ a \in Nat /\ j - 1 \in Nat /\ a <= j - 1 /\ j - 1 <= n
    BY <1>1
  <2> HIDE DEF j
  <2>2. f[j] = Append(f[j - 1], h[j]) BY <2>1 DEF Picking
  <2>3. f[j - 1] = f[a] \o seg BY <1>3, <2>1
  <2>4. SubSeq(h, a + 1, j) = seg \o <<h[j]>> BY <1>1, <2>1, SubSeqRecursiveSecond
  <2>5. seg \in Seq(STRING) BY <2>1, Stretch DEF Text
  <2>6. h[j] \in STRING BY <1>1, <2>1, ElementOfSeq
  <2>7. f[a] \o seg \in Seq(STRING) BY <1>1, <2>5, ConcatProperties
  <2> HIDE DEF seg
  <2>8. Append(f[a] \o seg, h[j]) = (f[a] \o seg) \o <<h[j]>> BY <2>6, <2>7, AppendIsConcat
  <2>9. (f[a] \o seg) \o <<h[j]>> = f[a] \o (seg \o <<h[j]>>)
    <3> DEFINE q == f[a]
               one == <<h[j]>>
    <3>1. q \in Seq(STRING) /\ one \in Seq(STRING) BY <1>1, <2>6
    <3> HIDE DEF q, one
    <3>2. (q \o seg) \o one = q \o (seg \o one) BY <2>5, <3>1, ConcatAssociative
    <3> QED BY <3>2 DEF q, one
  <2> QED BY <2>2, <2>3, <2>4, <2>8, <2>9 DEF j
<1>4. \A k \in Nat : k \in T
  <2> HIDE DEF T
  <2> QED BY <1>2, <1>3, SetInduction
<1>5. b - a \in Nat /\ a + (b - a) = b /\ b <= b OBVIOUS
<1> QED BY <1>4, <1>5

\* A position is in one expression at most.
LEMMA OneExpression ==
  ASSUME NEW h \in Text, NEW o, NEW c, NEW p, NEW d, NEW i \in Nat,
         Expression(h, o, c), Expression(h, p, d),
         i \in o..c, i \in p..d
  PROVE  o = p /\ c = d
<1>1. /\ {o, c, p, d} \subseteq Nat /\ o < c /\ p < d
      /\ h[o] = Brace /\ h[c] = EndBrace /\ h[p] = Brace /\ h[d] = EndBrace
      /\ \A j \in (o + 1)..(c - 1) : h[j] # Brace /\ h[j] # EndBrace
      /\ \A j \in (p + 1)..(d - 1) : h[j] # Brace /\ h[j] # EndBrace
  BY LenProperties DEF Text, Expression
<1>2. ASSUME o < p PROVE FALSE
  <2>1. p = c \/ p \in (o + 1)..(c - 1) BY <1>1, <1>2
  <2> QED BY <1>1, <2>1, Characters
<1>3. ASSUME p < o PROVE FALSE
  <2>1. o = d \/ o \in (p + 1)..(d - 1) BY <1>1, <1>3
  <2> QED BY <1>1, <2>1, Characters
<1>4. ~(c < d)
  <2> SUFFICES ASSUME c < d PROVE FALSE OBVIOUS
  <2>1. c \in (p + 1)..(d - 1) BY <1>1, <1>2, <1>3
  <2> QED BY <1>1, <2>1
<1>5. ~(d < c)
  <2> SUFFICES ASSUME d < c PROVE FALSE OBVIOUS
  <2>1. d \in (o + 1)..(c - 1) BY <1>1, <1>2, <1>3
  <2> QED BY <1>1, <2>1
<1> QED BY <1>1, <1>2, <1>3, <1>4, <1>5

\* When no name is empty, the loop over them takes them all.
LEMMA AskedAll ==
  ASSUME NEW query \in Seq(Text), NEW names \in Names, ~EmptyName(names)
  PROVE  AskedIn(query, names) = query \o names
<1> DEFINE n == Len(names)
<1>1. n \in Nat /\ n >= 1 /\ names \in Seq(Text) /\ DOMAIN names = 1..n
  BY LenProperties DEF Names
<1>2. PICK asked : Asking(asked, query, names) BY AskedRun
<1> DEFINE T == {k \in Nat : k <= n => asked[k] = query \o SubSeq(names, 1, k)}
<1>3. 0 \in T
  <2>1. SubSeq(names, 1, 0) = <<>> BY SubSeqEmpty
  <2>2. query \o <<>> = query BY ConcatEmptySeq
  <2> QED BY <1>2, <2>1, <2>2 DEF Asking
<1>4. ASSUME NEW k \in Nat, k \in T PROVE k + 1 \in T
  <2> SUFFICES ASSUME k + 1 <= n PROVE asked[k + 1] = query \o SubSeq(names, 1, k + 1)
    OBVIOUS
  <2> DEFINE j == k + 1
             e == names[j]
             some == SubSeq(names, 1, k)
             one == <<e>>
  <2>1. j \in 1..n /\ j - 1 = k /\ 1 \in 1..n /\ k <= n /\ k \in 0..n BY <1>1
  <2>2. e \in Text /\ e # <<>> BY <1>1, <2>1, ElementOfSeq DEF EmptyName
  <2>3. asked[j] = Append(asked[k], e) BY <1>2, <2>1, <2>2 DEF Asking
  <2>4. asked[k] = query \o some /\ asked[k] \in Seq(Text) BY <1>2, <1>4, <2>1 DEF Asking
  <2>5. SubSeq(names, 1, j) = some \o one BY <1>1, <2>1, SubSeqRecursiveSecond
  <2>6. some \in Seq(Text)
    <3>1. \A i \in 1..k : names[i] \in Text BY <1>1, <2>1, ElementOfSeq
    <3> QED BY <3>1, SubSeqProperties
  <2>7. one \in Seq(Text) BY <2>2
  <2> HIDE DEF e, some
  <2>8. Append(asked[k], e) = asked[k] \o one BY <2>2, <2>4, AppendIsConcat
  <2> HIDE DEF one, j
  <2>9. (query \o some) \o one = query \o (some \o one) BY <2>6, <2>7, ConcatAssociative
  <2> QED BY <2>3, <2>4, <2>5, <2>8, <2>9 DEF j
<1>5. \A k \in Nat : k \in T
  <2> HIDE DEF T
  <2> QED BY <1>3, <1>4, SetInduction
<1>6. SubSeq(names, 1, n) = names BY <1>1, SubSeqFull
<1> QED BY <1>1, <1>2, <1>5, <1>6 DEF Asking

\* One character, seen from the last name.
LEMMA NextCharOn ==
  ASSUME NEW F \in Seq(Text), NEW x \in Text, NEW c \in STRING
  PROVE  /\ F \o <<x>> \in Seq(Text)
         /\ c = Comma => NextChar(F \o <<x>>, c) = (F \o <<x>>) \o << <<>> >>
         /\ c # Comma => NextChar(F \o <<x>>, c) = F \o <<Append(x, c)>>
<1> DEFINE one == <<x>>
           names == F \o one
           y == Append(x, c)
           other == <<y>>
           n == Len(F)
<1>1. one \in Seq(Text) /\ Len(one) = 1 /\ one[1] = x OBVIOUS
<1>2. y \in Text /\ y # <<>> BY AppendProperties DEF Text
<1> HIDE DEF y
<1>3. other \in Seq(Text) /\ Len(other) = 1 /\ other[1] = y BY <1>2
<1>4. n \in Nat BY LenProperties
<1> HIDE DEF one, other, n
<1>5. ASSUME NEW z \in Seq(Text), Len(z) = 1
      PROVE  /\ F \o z \in Seq(Text) /\ Len(F \o z) = n + 1
             /\ \A i \in 1..(n + 1) : (F \o z)[i] = IF i <= n THEN F[i] ELSE z[i - n]
  <2>1. /\ F \o z \in Seq(Text) /\ Len(F \o z) = Len(F) + Len(z)
        /\ \A i \in 1..(Len(F) + Len(z)) : (F \o z)[i] = IF i <= Len(F) THEN F[i] ELSE z[i - Len(F)]
    BY ConcatProperties
  <2>2. Len(F) + Len(z) = n + 1 BY <1>5 DEF n
  <2>3. Len(F) = n BY DEF n
  <2> QED BY <2>1, <2>2, <2>3
<1>6. /\ names \in Seq(Text) /\ Len(names) = n + 1
      /\ \A i \in 1..(n + 1) : names[i] = IF i <= n THEN F[i] ELSE one[i - n]
  BY <1>1, <1>5
<1>7. /\ F \o other \in Seq(Text) /\ Len(F \o other) = n + 1
      /\ \A i \in 1..(n + 1) : (F \o other)[i] = IF i <= n THEN F[i] ELSE other[i - n]
  BY <1>3, <1>5
<1> HIDE DEF names
<1>8. CASE c = Comma
  <2>1. NextChar(names, c) = Append(names, <<>>) BY <1>8 DEF NextChar
  <2>2. <<>> \in Text BY EmptySeq DEF Text
  <2>3. Append(names, <<>>) = names \o << <<>> >> BY <1>6, <2>2, AppendIsConcat
  <2> QED BY <1>6, <1>8, <2>1, <2>3 DEF names, one
<1>9. CASE c # Comma
  <2> DEFINE more == [names EXCEPT ![n + 1] = y]
  <2>1. names[n + 1] = x
    <3>1. n + 1 \in 1..(n + 1) /\ ~(n + 1 <= n) /\ (n + 1) - n = 1 BY <1>4
    <3> QED BY <1>1, <1>6, <3>1
  <2>2. NextChar(names, c) = more BY <1>6, <1>9, <2>1 DEF NextChar, y
  <2>3. n + 1 \in 1..Len(names) BY <1>4, <1>6
  <2>4. /\ more \in Seq(Text) /\ Len(more) = n + 1
        /\ \A i \in 1..(n + 1) : more[i] = IF i = n + 1 THEN y ELSE names[i]
    <3>1. /\ more \in Seq(Text) /\ Len(more) = Len(names)
          /\ \A i \in 1..Len(names) : more[i] = IF i = n + 1 THEN y ELSE names[i]
      BY <1>2, <1>6, <2>3, ExceptSeq
    <3> HIDE DEF more
    <3> QED BY <1>6, <3>1
  <2> HIDE DEF more
  <2>5. ASSUME NEW i \in 1..(n + 1) PROVE more[i] = (F \o other)[i]
    <3>1. CASE i = n + 1
      <4>1. ~(i <= n) /\ i - n = 1 BY <1>4, <3>1
      <4> QED BY <1>3, <1>7, <2>4, <3>1, <4>1
    <3>2. CASE i # n + 1
      <4>1. i <= n BY <1>4, <3>2
      <4> QED BY <1>6, <1>7, <2>4, <3>2, <4>1
    <3> QED BY <3>1, <3>2
  <2>6. more = F \o other
    <3> DEFINE o == F \o other
    <3>1. o \in Seq(Text) /\ Len(o) = n + 1 /\ \A i \in 1..(n + 1) : more[i] = o[i]
      BY <1>7, <2>5
    <3> HIDE DEF o
    <3>2. more = o BY <2>4, <3>1, SeqEqual
    <3> QED BY <3>2 DEF o
  <2> QED BY <1>6, <1>9, <2>2, <2>6 DEF names, one, other, y
<1> QED BY <1>8, <1>9

\* Inside of a query expression a name begins after the operator and after each
\* comma.
LEMMA StartsWithin ==
  ASSUME NEW h \in Text, NEW o, NEW c, QueryExpression(h, o, c), NEW i \in o..c
  PROVE  i \in NameStarts(h) <=>
           i - 1 \in (o + 1)..(c - 1) /\ (i - 1 = o + 1 \/ h[i - 1] = Comma)
<1>1. /\ Expression(h, o, c) /\ h[o + 1] \in QueryOperators
      /\ DOMAIN h = 1..Len(h) /\ Len(h) \in Nat
      /\ o \in DOMAIN h /\ c \in DOMAIN h /\ i \in DOMAIN h /\ i \in Nat
  BY LenProperties DEF Text, QueryExpression, Expression
<1>2. ASSUME i \in NameStarts(h)
      PROVE  i - 1 \in (o + 1)..(c - 1) /\ NameDue(h, o, i - 1)
  <2>1. PICK p \in DOMAIN h, d \in DOMAIN h :
          /\ QueryExpression(h, p, d)
          /\ i - 1 \in (p + 1)..(d - 1) /\ NameDue(h, p, i - 1)
    BY <1>2 DEF NameStarts
  <2>2. i \in p..d BY <1>1, <2>1
  <2>3. o = p /\ c = d BY <1>1, <2>1, <2>2, OneExpression DEF QueryExpression
  <2> QED BY <2>1, <2>3
<1>3. ASSUME i - 1 \in (o + 1)..(c - 1), NameDue(h, o, i - 1)
      PROVE  i \in NameStarts(h)
  BY <1>1, <1>3 DEF NameStarts
<1>4. ASSUME i - 1 \in (o + 1)..(c - 1)
      PROVE  NameDue(h, o, i - 1) <=> i - 1 = o + 1 \/ h[i - 1] = Comma
  <2>1. i - 1 # o BY <1>1, <1>4
  <2>2. h[o + 1] \in Operators BY <1>1, Characters
  <2> QED BY <2>1, <2>2 DEF NameDue
<1> QED BY <1>2, <1>3, <1>4

\* A name ends before the first comma or "}".
LEMMA NameAtIs ==
  ASSUME NEW h \in Text, NEW i \in Nat, NEW e \in i..Len(h),
         h[e] \in {Comma, EndBrace},
         \A j \in i..(e - 1) : h[j] \notin {Comma, EndBrace}
  PROVE  NameAt(h, i) = SubSeq(h, i, e - 1)
<1> DEFINE Ends(c) == /\ h[c] \in {Comma, EndBrace}
                      /\ \A j \in i..(c - 1) : h[j] \notin {Comma, EndBrace}
           end == CHOOSE c \in i..Len(h) : Ends(c)
<1>1. Len(h) \in Nat BY LenProperties DEF Text
<1>2. end \in i..Len(h) /\ Ends(end)
  <2>1. Ends(e) OBVIOUS
  <2> HIDE DEF Ends
  <2> QED BY <2>1
<1>3. NameAt(h, i) = SubSeq(h, i, end - 1) BY DEF NameAt
<1> HIDE DEF end
<1>4. ~(end < e)
  <2> SUFFICES ASSUME end < e PROVE FALSE OBVIOUS
  <2>1. end \in i..(e - 1) BY <1>1, <1>2
  <2> QED BY <1>2, <2>1
<1>5a. ~(e < end)
  <2> SUFFICES ASSUME e < end PROVE FALSE OBVIOUS
  <2>1. e \in i..(end - 1) BY <1>1, <1>2
  <2> QED BY <1>2, <2>1
<1>6. end = e BY <1>1, <1>2, <1>4, <1>5a
<1> QED BY <1>3, <1>6

\* One name more.
LEMMA NameAdded ==
  ASSUME NEW u \in Seq(Text), NEW v \in Seq(Text), NEW y \in Text
  PROVE  /\ Append(u \o v, y) = u \o (v \o <<y>>)
         /\ v \o <<y>> \in Seq(Text)
<1> DEFINE one == <<y>>
<1>1. one \in Seq(Text) OBVIOUS
<1>2. u \o v \in Seq(Text) BY ConcatProperties
<1>3. Append(u \o v, y) = (u \o v) \o one BY <1>2, AppendIsConcat
<1> HIDE DEF one
<1>4. (u \o v) \o one = u \o (v \o one) BY <1>1, ConcatAssociative
<1>5. v \o one \in Seq(Text) BY <1>1, ConcatProperties
<1> QED BY <1>3, <1>4, <1>5 DEF one

\* One character more of a text.
LEMMA StretchMore ==
  ASSUME NEW h \in Text, NEW a \in Nat, NEW b \in Nat, a <= b, b + 1 <= Len(h)
  PROVE  SubSeq(h, a + 1, b + 1) = Append(SubSeq(h, a + 1, b), h[b + 1])
<1> DEFINE seg == SubSeq(h, a + 1, b)
<1>1. h \in Seq(STRING) /\ Len(h) \in Nat BY LenProperties DEF Text
<1>2. h[b + 1] \in STRING
  <2>1. b + 1 \in 1..Len(h) BY <1>1
  <2> QED BY <1>1, <2>1, ElementOfSeq
<1>3. seg \in Seq(STRING)
  <2>1. b <= Len(h) BY <1>1
  <2> QED BY <2>1, Stretch DEF Text
<1>4. a + 1 \in 1..Len(h) /\ b + 1 \in (a + 1)..Len(h) /\ (b + 1) - 1 = b BY <1>1
<1>5. SubSeq(h, a + 1, b + 1) = SubSeq(h, a + 1, (b + 1) - 1) \o <<h[b + 1]>>
  <2> DEFINE p == a + 1
             q == b + 1
  <2>1. p \in 1..Len(h) /\ q \in p..Len(h) BY <1>4
  <2> HIDE DEF p, q
  <2>2. SubSeq(h, p, q) = SubSeq(h, p, q - 1) \o <<h[q]>> BY <1>1, <2>1, SubSeqRecursiveSecond
  <2> QED BY <2>2 DEF p, q
<1> HIDE DEF seg
<1>6. Append(seg, h[b + 1]) = seg \o <<h[b + 1]>> BY <1>2, <1>3, AppendIsConcat
<1> QED BY <1>4, <1>5, <1>6 DEF seg

\* The names of the query expressions, each at its place.
AskedNames(h) == [i \in NameStarts(h) |-> NameAt(h, i)]

LEMMA NameAtType ==
  ASSUME NEW h \in Text, NEW i \in NameStarts(h)
  PROVE  AskedNames(h)[i] \in Text
<1>1. PICK o \in DOMAIN h, c \in DOMAIN h :
        QueryExpression(h, o, c) /\ i - 1 \in (o + 1)..(c - 1)
  BY DEF NameStarts
<1>2. /\ Len(h) \in Nat /\ o \in 1..Len(h) /\ c \in 1..Len(h) /\ h[c] = EndBrace
      /\ i \in 1..Len(h)
  BY <1>1, LenProperties DEF Text, QueryExpression, Expression, NameStarts
<1> DEFINE S == {j \in i..Len(h) : h[j] \in {Comma, EndBrace}}
<1>3. S # {} /\ S \subseteq Nat
  <2>1. c \in S BY <1>1, <1>2
  <2> QED BY <1>2, <2>1
<1>4. PICK e \in S : \A j \in S : e <= j
  <2> HIDE DEF S
  <2> QED BY <1>3, LeastNatural
<1>5. e \in i..Len(h) /\ h[e] \in {Comma, EndBrace} OBVIOUS
<1>6. ASSUME NEW j \in i..(e - 1) PROVE h[j] \notin {Comma, EndBrace}
  <2>1. j \in i..Len(h) /\ ~(e <= j) BY <1>2, <1>5
  <2>2. j \notin S BY <1>4, <2>1
  <2> QED BY <2>1, <2>2
<1> HIDE DEF S
<1>7. NameAt(h, i) = SubSeq(h, i, e - 1) BY <1>2, <1>5, <1>6, NameAtIs
<1>8. SubSeq(h, i, e - 1) \in Text
  <2> DEFINE a == i - 1
  <2>1. a \in Nat /\ e - 1 \in Nat /\ a <= e - 1 /\ e - 1 <= Len(h) /\ a + 1 = i BY <1>2, <1>5
  <2> HIDE DEF a
  <2>2. SubSeq(h, a + 1, e - 1) \in Text BY <2>1, Stretch
  <2> QED BY <2>1, <2>2
<1> QED BY <1>7, <1>8 DEF AskedNames

\* A run over the names of the query expressions.
KeptNames(f, h) ==
  /\ Picking(f, AskedNames(h), NameStarts(h), Len(h))
  /\ \A i \in 0..Len(h) : f[i] \in Seq(Text)

\* From where a name begins to where it ends, it is what is taken.
LEMMA NameTaken ==
  ASSUME NEW h \in Text, NEW f, KeptNames(f, h),
         NEW o, NEW c, QueryExpression(h, o, c),
         NEW l \in (o + 1)..(c - 1), l = o + 1 \/ h[l] = Comma,
         NEW e \in (l + 1)..c, h[e] \in {Comma, EndBrace},
         \A j \in (l + 1)..(e - 1) : h[j] \notin {Comma, EndBrace}
  PROVE  f[e] = Append(f[l], SubSeq(h, l + 1, e - 1))
<1> DEFINE n == Len(h)
           S == NameStarts(h)
           what == AskedNames(h)
<1>1. n \in Nat /\ o \in 1..n /\ c \in 1..n /\ o < c
  BY LenProperties DEF Text, QueryExpression, Expression
<1>2. /\ l \in Nat /\ l + 1 \in Nat /\ l + 1 \in 1..n /\ l \in 0..n /\ e \in (l + 1)..n
      /\ l + 1 \in o..c /\ (l + 1) - 1 = l /\ l + 1 \in 0..n
  BY <1>1
<1>3. l + 1 \in S BY <1>2, StartsWithin
<1>4. ASSUME NEW i \in ((l + 1) + 1)..e PROVE i \notin S
  <2>1. i \in o..c /\ i - 1 \in (l + 1)..(e - 1) /\ i - 1 # o + 1 BY <1>1, <1>2
  <2> QED BY <2>1, StartsWithin
<1>5. f[l + 1] = Append(f[l], what[l + 1])
  <2> HIDE DEF n, S, what
  <2>1. Picking(f, what, S, n) BY DEF KeptNames, n, S, what
  <2> QED BY <1>2, <1>3, <2>1 DEF Picking
<1>6. f[e] = f[l + 1]
  <2> DEFINE a == l + 1
  <2>1. a \in 0..n /\ e \in a..n /\ \A i \in (a + 1)..e : i \notin S BY <1>2, <1>4
  <2> HIDE DEF a, n, S, what
  <2>2. Picking(f, what, S, n) BY DEF KeptNames, n, S, what
  <2>3. f[e] = f[a] BY <1>1, <2>1, <2>2, PickedNone
  <2> QED BY <2>3 DEF a
<1>7. what[l + 1] = SubSeq(h, l + 1, e - 1)
  <2>1. NameAt(h, l + 1) = SubSeq(h, l + 1, e - 1) BY <1>2, NameAtIs
  <2> QED BY <1>3, <2>1 DEF AskedNames
<1> QED BY <1>5, <1>6, <1>7

\* After k characters of a list of names: the last one begins after l, and those
\* before are taken.
NamesSoFar(h, f, p, q, names, l, F) ==
  /\ l \in p..q /\ F \in Seq(Text)
  /\ l = p \/ h[l] = Comma
  /\ \A j \in (l + 1)..q : h[j] # Comma
  /\ names = F \o <<SubSeq(h, l + 1, q)>>
  /\ f[l] = f[p] \o F

LEMMA NamesTaken ==
  ASSUME NEW h \in Text, NEW f, KeptNames(f, h),
         NEW o, NEW c, QueryExpression(h, o, c)
  PROVE  f[c] = f[o - 1] \o SplitNames(SubSeq(h, o + 2, c - 1))
<1> DEFINE n == Len(h)
           p == o + 1
           body == SubSeq(h, p + 1, c - 1)
           m == Len(body)
<1>1. /\ n \in Nat /\ o \in 1..n /\ c \in 1..n /\ p \in 1..(c - 1)
      /\ h[c] = EndBrace
      /\ \A j \in p..(c - 1) : h[j] # Brace /\ h[j] # EndBrace
  <2>1. /\ n \in Nat /\ o \in 1..n /\ c \in 1..n /\ o < c
        /\ h[c] = EndBrace
        /\ \A j \in (o + 1)..(c - 1) : h[j] # Brace /\ h[j] # EndBrace
    BY LenProperties DEF Text, QueryExpression, Expression
  <2>2. o + 1 # c BY <2>1, Characters DEF QueryExpression
  <2>3. p \in 1..(c - 1)
    <3> HIDE DEF n
    <3> QED BY <2>1, <2>2
  <2> QED BY <2>1, <2>3
<1> HIDE DEF p
<1>2. /\ p \in Nat /\ c - 1 \in Nat /\ p <= c - 1 /\ c - 1 <= n
  BY <1>1
<1>3. body \in Text /\ m = c - 1 - p /\ \A i \in 1..(c - 1 - p) : body[i] = h[p + i]
  BY <1>2, Stretch
<1>4. m \in Nat /\ p + m = c - 1 /\ (c - 1) + 1 = c /\ m = c - 1 - p
  <2> HIDE DEF m
  <2> QED BY <1>1, <1>3
<1> HIDE DEF body
<1>5. PICK names : NamesFound(names, body) BY <1>3, NamesRun
<1>6. \A i \in 0..n : f[i] \in Seq(Text) BY DEF KeptNames
<1>7. f[p] = f[o - 1]
  <2> DEFINE S == NameStarts(h)
             a == o - 1
  <2>1. a \in 0..n /\ p \in a..n BY <1>1, <1>2 DEF p
  <2>2. ASSUME NEW i \in (a + 1)..p PROVE i \notin S
    <3>1. i \in o..c /\ i - 1 \notin (o + 1)..(c - 1) BY <1>1 DEF p
    <3> QED BY <3>1, StartsWithin
  <2>3. Picking(f, AskedNames(h), S, n) BY DEF KeptNames
  <2> HIDE DEF S, a, n
  <2>4. f[p] = f[a] BY <1>1, <2>1, <2>2, <2>3, PickedNone
  <2> QED BY <2>4 DEF a
<1> DEFINE Right(k) == \E l, F : NamesSoFar(h, f, p, p + k, names[k], l, F)
           T == {k \in Nat : k <= m => Right(k)}
<1>8. 0 \in T
  <2> DEFINE F == <<>>
  <2>1. names[0] = << <<>> >> BY <1>5 DEF NamesFound
  <2>2. SubSeq(h, p + 1, p) = <<>> BY <1>2, SubSeqEmpty
  <2>3. F \in Seq(Text) /\ F \o << <<>> >> = << <<>> >>
    <3> DEFINE one == << <<>> >>
    <3>1. one \in Seq(Text)
      <4>1. <<>> \in Text BY EmptySeq DEF Text
      <4> QED BY <4>1
    <3> HIDE DEF one
    <3>2. F \o one = one BY <3>1, ConcatEmptySeq
    <3> QED BY <3>2, EmptySeq DEF one
  <2>4. f[p] \in Seq(Text)
    <3>1. p \in 0..n BY <1>2
    <3> QED BY <1>6, <3>1
  <2>5. f[p] \o F = f[p] BY <2>4, ConcatEmptySeq
  <2> HIDE DEF F
  <2>6. p \in p..p /\ p + 0 = p /\ \A j \in (p + 1)..p : h[j] # Comma BY <1>2
  <2>7. NamesSoFar(h, f, p, p + 0, names[0], p, F)
    BY <2>1, <2>2, <2>3, <2>5, <2>6 DEF NamesSoFar
  <2> HIDE DEF NamesSoFar
  <2>8. Right(0) BY <2>7
  <2> HIDE DEF Right
  <2> QED BY <2>8
<1>9. ASSUME NEW k \in Nat, k \in T PROVE k + 1 \in T
  <2> SUFFICES ASSUME k + 1 <= m PROVE Right(k + 1)
    <3> HIDE DEF Right
    <3> QED OBVIOUS
  <2> DEFINE q == p + k
             x == h[q + 1]
  <2>1. Right(k)
    <3> HIDE DEF Right
    <3> QED BY <1>4, <1>9
  <2>2. PICK l, F : NamesSoFar(h, f, p, q, names[k], l, F) BY <2>1
  <2>3. /\ q \in Nat /\ q + 1 \in p..(c - 1) /\ p + (k + 1) = q + 1 /\ q + 1 <= n
        /\ k + 1 \in 1..m /\ (k + 1) - 1 = k /\ k + 1 \in 1..(c - 1 - p) /\ q + 1 \in 1..n
    BY <1>1, <1>2, <1>4
  <2>4. names[k + 1] = NextChar(names[k], x)
    <3>1. names[k + 1] = NextChar(names[k], body[k + 1]) BY <1>5, <2>3 DEF NamesFound
    <3> QED BY <1>3, <2>3, <3>1
  <2>5. x # EndBrace /\ x \in STRING
    <3>1. h \in Seq(STRING) BY DEF Text
    <3> QED BY <1>1, <2>3, <3>1, ElementOfSeq
  <2>6. /\ l \in Nat /\ l \in p..q /\ F \in Seq(Text) /\ l <= q /\ q <= n /\ l \in 0..n
        /\ (l = p \/ h[l] = Comma) /\ f[l] = f[p] \o F
        /\ \A j \in (l + 1)..q : h[j] # Comma
    <3>1. l \in p..q BY <2>2 DEF NamesSoFar
    <3>2. l \in Nat /\ l <= q /\ q <= n /\ l \in 0..n BY <1>2, <2>3, <3>1
    <3> QED BY <2>2, <3>1, <3>2 DEF NamesSoFar
  <2> DEFINE y == SubSeq(h, l + 1, q)
  <2>7. y \in Text BY <2>3, <2>6, Stretch
  <2>8. names[k] = F \o <<y>> BY <2>2 DEF NamesSoFar
  <2> HIDE DEF x, y, q
  <2>9. CASE x # Comma
    <3>1. names[k + 1] = F \o <<Append(y, x)>> BY <2>4, <2>5, <2>6, <2>7, <2>8, <2>9, NextCharOn
    <3>2. Append(y, x) = SubSeq(h, l + 1, q + 1) BY <2>3, <2>6, StretchMore DEF x, y
    <3>3. l \in p..(q + 1) BY <1>2, <2>3, <2>6
    <3>4. ASSUME NEW j \in (l + 1)..(q + 1) PROVE h[j] # Comma
      <4>1. j \in (l + 1)..q \/ j = q + 1 BY <2>3, <2>6
      <4> QED BY <2>6, <2>9, <4>1 DEF x
    <3>5. NamesSoFar(h, f, p, q + 1, names[k + 1], l, F)
      BY <2>6, <3>1, <3>2, <3>3, <3>4 DEF NamesSoFar
    <3>6. \E l1, F1 : NamesSoFar(h, f, p, q + 1, names[k + 1], l1, F1)
      <4> HIDE DEF NamesSoFar
      <4> QED BY <3>5
    <3> QED BY <2>3, <3>6
  <2>10. CASE x = Comma
    <3> DEFINE G == F \o <<y>>
               e == q + 1
    <3>1. names[k + 1] = G \o << <<>> >>
      <4>1. NextChar(F \o <<y>>, x) = (F \o <<y>>) \o << <<>> >>
        BY <2>5, <2>6, <2>7, <2>10, NextCharOn
      <4> QED BY <2>4, <2>8, <4>1
    <3>2. SubSeq(h, e + 1, e) = <<>> BY <2>3, SubSeqEmpty
    <3>3. f[e] = Append(f[l], y)
      <4>1. /\ l \in (o + 1)..(c - 1) /\ (l = o + 1 \/ h[l] = Comma)
            /\ e \in (l + 1)..c /\ e - 1 = q
        BY <1>1, <2>3, <2>6 DEF p
      <4>2. h[e] \in {Comma, EndBrace} BY <2>10 DEF x
      <4>3. ASSUME NEW j \in (l + 1)..(e - 1) PROVE h[j] \notin {Comma, EndBrace}
        <5>1. j \in (l + 1)..q /\ j \in p..(c - 1) BY <1>1, <2>3, <2>6
        <5> QED BY <1>1, <2>6, <5>1
      <4> HIDE DEF e
      <4>4. f[e] = Append(f[l], SubSeq(h, l + 1, e - 1)) BY <4>1, <4>2, <4>3, NameTaken
      <4> QED BY <4>1, <4>4 DEF y
    <3>4. f[p] \in Seq(Text)
      <4>1. p \in 0..n BY <1>2
      <4> QED BY <1>6, <4>1
    <3>5. f[e] = f[p] \o G /\ G \in Seq(Text)
      <4> DEFINE a == f[p]
      <4>1. a \in Seq(Text) /\ f[l] = a \o F BY <2>6, <3>4
      <4> HIDE DEF a, e
      <4>2. Append(a \o F, y) = a \o (F \o <<y>>) /\ F \o <<y>> \in Seq(Text)
        BY <2>6, <2>7, <4>1, NameAdded
      <4> QED BY <3>3, <4>1, <4>2 DEF a
    <3>6. e \in p..e /\ h[e] = Comma /\ \A j \in (e + 1)..e : h[j] # Comma
      <4>1. e \in p..e /\ \A j \in (e + 1)..e : FALSE BY <1>2, <2>3
      <4>2. h[e] = Comma BY <2>10 DEF x
      <4> QED BY <4>1, <4>2
    <3> HIDE DEF G
    <3>7. NamesSoFar(h, f, p, e, names[k + 1], e, G)
      BY <3>1, <3>2, <3>5, <3>6 DEF NamesSoFar
    <3>8. \E l1, F1 : NamesSoFar(h, f, p, e, names[k + 1], l1, F1)
      <4> HIDE DEF NamesSoFar, e
      <4> QED BY <3>7
    <3> QED BY <2>3, <3>8
  <2> QED BY <2>9, <2>10
<1>10. \A k \in Nat : k \in T
  <2> HIDE DEF T
  <2> QED BY <1>8, <1>9, SetInduction
<1>11. Right(m)
  <2> HIDE DEF Right
  <2>1. m <= m BY <1>4
  <2> QED BY <1>4, <1>10, <2>1
<1>12. PICK l, F : NamesSoFar(h, f, p, c - 1, names[m], l, F) BY <1>4, <1>11
<1> DEFINE y == SubSeq(h, l + 1, c - 1)
<1>13. /\ l \in p..(c - 1) /\ l \in Nat /\ F \in Seq(Text) /\ names[m] = F \o <<y>>
       /\ (l = p \/ h[l] = Comma) /\ f[l] = f[p] \o F
       /\ \A j \in (l + 1)..(c - 1) : h[j] # Comma
  <2>1. l \in p..(c - 1) BY <1>12 DEF NamesSoFar
  <2>2. l \in Nat BY <1>2, <2>1
  <2> QED BY <1>12, <2>1, <2>2 DEF NamesSoFar
<1>14. y \in Text BY <1>2, <1>13, Stretch
<1>15. f[c] = Append(f[l], y)
  <2>1. /\ l \in (o + 1)..(c - 1) /\ (l = o + 1 \/ h[l] = Comma)
        /\ c \in (l + 1)..c /\ h[c] \in {Comma, EndBrace}
    BY <1>1, <1>13 DEF p
  <2>2. ASSUME NEW j \in (l + 1)..(c - 1) PROVE h[j] \notin {Comma, EndBrace}
    <3>1. j \in p..(c - 1) BY <1>1, <1>13
    <3> QED BY <1>1, <1>13, <3>1
  <2> QED BY <2>1, <2>2, NameTaken
<1> HIDE DEF y
<1>16. f[p] \in Seq(Text)
  <2>1. p \in 0..n BY <1>2
  <2> QED BY <1>6, <2>1
<1>17. f[c] = f[p] \o names[m]
  <2> DEFINE u == f[p]
  <2>1. u \in Seq(Text) /\ F \in Seq(Text) BY <1>13, <1>16
  <2>2. f[l] = u \o F BY <1>13
  <2> HIDE DEF u
  <2>3. Append(u \o F, y) = u \o (F \o <<y>>) BY <1>14, <2>1, NameAdded
  <2> QED BY <1>13, <1>15, <2>2, <2>3 DEF u
<1>18. SplitNames(body) = names[m] BY <1>5 DEF NamesFound
<1>19. p + 1 = o + 2 BY <1>1 DEF p
<1> QED BY <1>7, <1>17, <1>18, <1>19 DEF body

\* The positions that the path is made of.
Plain(h) == {i \in DOMAIN h : ~InQuery(h, i)}

\* Where no expression is pending and none begins, all is path and no name.
LEMMA Outside ==
  ASSUME NEW h \in Text, NEW m \in 0..Len(h), \A o : ~Pending(h, m, o),
         NEW b \in m..Len(h), \A j \in (m + 1)..b : h[j] # Brace,
         NEW i \in (m + 1)..b
  PROVE  i \in Plain(h) /\ i \notin NameStarts(h)
<1>1. Len(h) \in Nat /\ DOMAIN h = 1..Len(h) /\ i \in 1..Len(h) BY LenProperties DEF Text
<1>2. ASSUME NEW o, NEW c, Expression(h, o, c), i \in o..c PROVE FALSE
  <2>1. /\ o \in 1..Len(h) /\ c \in 1..Len(h) /\ h[o] = Brace
        /\ \A j \in (o + 1)..(c - 1) : h[j] # Brace /\ h[j] # EndBrace
    BY <1>1, <1>2 DEF Expression
  <2>2. o \notin (m + 1)..b BY <2>1
  <2>3. o \in 1..m /\ \A j \in (o + 1)..m : j \in (o + 1)..(c - 1) BY <1>1, <1>2, <2>1, <2>2
  <2>4. Pending(h, m, o) BY <2>1, <2>3 DEF Pending
  <2> QED BY <2>4
<1>3. ~InQuery(h, i)
  <2> SUFFICES ASSUME NEW o \in 1..i, NEW c \in i..Len(h), QueryExpression(h, o, c)
               PROVE  FALSE
    BY DEF InQuery
  <2>1. i \in o..c BY <1>1
  <2> QED BY <1>2, <2>1 DEF QueryExpression
<1>4. i \notin NameStarts(h)
  <2> SUFFICES ASSUME NEW o \in DOMAIN h, NEW c \in DOMAIN h, QueryExpression(h, o, c),
                      i - 1 \in (o + 1)..(c - 1)
               PROVE  FALSE
    BY DEF NameStarts
  <2>1. i \in o..c BY <1>1
  <2> QED BY <1>2, <2>1 DEF QueryExpression
<1> QED BY <1>1, <1>3, <1>4 DEF Plain

\* In an expression all is path and no name, or all is of the query.
LEMMA Inside ==
  ASSUME NEW h \in Text, NEW o, NEW c, Expression(h, o, c), NEW i \in o..c
  PROVE  /\ i \in Plain(h) <=> h[o + 1] \notin QueryOperators
         /\ h[o + 1] \notin QueryOperators => i \notin NameStarts(h)
<1>1. /\ Len(h) \in Nat /\ DOMAIN h = 1..Len(h) /\ i \in 1..Len(h)
      /\ o \in 1..Len(h) /\ c \in 1..Len(h)
  BY LenProperties DEF Text, Expression
<1>2. ASSUME NEW p, NEW d, QueryExpression(h, p, d), i \in p..d
      PROVE  h[o + 1] \in QueryOperators
  <2>1. Expression(h, p, d) /\ h[p + 1] \in QueryOperators
    BY <1>2 DEF QueryExpression
  <2>2. i \in Nat BY <1>1
  <2>3. o = p /\ c = d BY <1>2, <2>1, <2>2, OneExpression
  <2> QED BY <2>1, <2>3
<1>3. InQuery(h, i) <=> h[o + 1] \in QueryOperators
  <2>1. ASSUME InQuery(h, i) PROVE h[o + 1] \in QueryOperators
    <3>1. PICK p \in 1..i, d \in i..Len(h) : QueryExpression(h, p, d)
      BY <2>1 DEF InQuery
    <3>2. i \in p..d BY <1>1
    <3> QED BY <1>2, <3>1, <3>2
  <2>2. ASSUME h[o + 1] \in QueryOperators PROVE InQuery(h, i)
    <3>1. QueryExpression(h, o, c) BY <2>2 DEF QueryExpression
    <3>2. o \in 1..i /\ c \in i..Len(h) BY <1>1
    <3> QED BY <3>1, <3>2 DEF InQuery
  <2> QED BY <2>1, <2>2
<1>4. ASSUME i \in NameStarts(h) PROVE h[o + 1] \in QueryOperators
  <2>1. PICK p \in DOMAIN h, d \in DOMAIN h :
          QueryExpression(h, p, d) /\ i - 1 \in (p + 1)..(d - 1)
    BY <1>4 DEF NameStarts
  <2>2. i \in p..d BY <1>1, <2>1
  <2> QED BY <1>2, <2>1, <2>2
<1> QED BY <1>1, <1>3, <1>4 DEF Plain

\* A stretch of what is left after m characters.
LEMMA StretchOfRest ==
  ASSUME NEW h \in Text, NEW m \in 0..Len(h),
         NEW a \in Nat, NEW b \in Nat, a <= b, m + b <= Len(h)
  PROVE  SubSeq(SubSeq(h, m + 1, Len(h)), a + 1, b) = SubSeq(h, (m + a) + 1, m + b)
<1> DEFINE n == Len(h)
           r == SubSeq(h, m + 1, n)
           u == SubSeq(r, a + 1, b)
           v == SubSeq(h, (m + a) + 1, m + b)
<1>1. n \in Nat /\ m \in Nat /\ m <= n BY LenProperties DEF Text
<1>2. /\ r \in Text /\ Len(r) = n - m /\ \A i \in 1..(n - m) : r[i] = h[m + i]
  BY <1>1, Stretch
<1> HIDE DEF n, r
<1>3. b <= Len(r) BY <1>1, <1>2 DEF n
<1>4. u \in Text /\ Len(u) = b - a /\ \A i \in 1..(b - a) : u[i] = r[a + i]
  BY <1>2, <1>3, Stretch
<1>5. v \in Text /\ Len(v) = b - a /\ \A i \in 1..(b - a) : v[i] = h[(m + a) + i]
  <2> DEFINE p == m + a
             q == m + b
  <2>1. p \in Nat /\ q \in Nat /\ p <= q /\ q <= Len(h) /\ q - p = b - a BY <1>1
  <2> HIDE DEF p, q
  <2>2. /\ SubSeq(h, p + 1, q) \in Text /\ Len(SubSeq(h, p + 1, q)) = q - p
        /\ \A i \in 1..(q - p) : SubSeq(h, p + 1, q)[i] = h[p + i]
    BY <2>1, Stretch
  <2> QED BY <2>1, <2>2 DEF p, q
<1> HIDE DEF u, v
<1>6. ASSUME NEW i \in 1..(b - a) PROVE u[i] = v[i]
  <2>1. a + i \in 1..(n - m) /\ m + (a + i) = (m + a) + i BY <1>1 DEF n
  <2> QED BY <1>2, <1>4, <1>5, <2>1
<1>7. u = v
  <2>1. u \in Seq(STRING) /\ v \in Seq(STRING) BY <1>4, <1>5 DEF Text
  <2> QED BY <1>4, <1>5, <1>6, <2>1, SeqEqual
<1> QED BY <1>7 DEF u, v, r, n

\* What a round of splitURITemplate leaves off m characters of a text: no
\* expression is pending, and what they give is taken.
SplitTo(s, h, path, query, m) ==
  /\ m \in 0..Len(h) /\ \A o : ~Pending(h, m, o)
  /\ s.rest = SubSeq(h, m + 1, Len(h))
  /\ s.path = path[m] /\ s.query = query[m]

\* A run over the characters of the path.
KeptPath(f, h) ==
  /\ Picking(f, h, Plain(h), Len(h))
  /\ \A i \in 0..Len(h) : f[i] \in Text

\* A round that meets no brace takes all.
LEMMA LastSegment ==
  ASSUME NEW h \in Text, NEW path, KeptPath(path, h), NEW query, KeptNames(query, h),
         NEW s \in Splitting, NEW m, SplitTo(s, h, path, query, m),
         \A j \in (m + 1)..Len(h) : h[j] # Brace
  PROVE  SplitTo(Segment(s), h, path, query, Len(h))
<1> DEFINE n == Len(h)
           r == s.rest
           open == {k \in DOMAIN r : r[k] = Brace /\ \A j \in 1..(k - 1) : r[j] # Brace}
           close == {k \in DOMAIN r :
                       r[k] = EndBrace /\ \E o \in open : o < k /\ \A j \in o..(k - 1) : r[j] # EndBrace}
<1>1. /\ n \in Nat /\ m \in 0..n /\ m \in Nat /\ m <= n /\ n \in m..n /\ n \in 0..n
      /\ \A o : ~Pending(h, m, o)
      /\ r = SubSeq(h, m + 1, n) /\ s.path = path[m] /\ s.query = query[m]
  BY LenProperties DEF SplitTo, Text
<1>2. DOMAIN r = 1..(n - m) /\ \A i \in 1..(n - m) : r[i] = h[m + i]
  <2> HIDE DEF n, r
  <2>1. n <= Len(h) BY DEF n
  <2> QED BY <1>1, <2>1, Stretch
<1>3. open = {}
  <2> SUFFICES ASSUME NEW k \in DOMAIN r, r[k] = Brace PROVE FALSE OBVIOUS
  <2>1. m + k \in (m + 1)..n BY <1>1, <1>2
  <2> QED BY <1>2, <2>1
<1>4. close = {}
  <2> HIDE DEF open
  <2> QED BY <1>3
<1>5. Segment(s) = [rest |-> <<>>, path |-> s.path \o r, query |-> s.query]
  BY <1>4 DEF Segment
<1> HIDE DEF open, close, r
<1>6. \A i \in (m + 1)..n : i \in Plain(h) /\ i \notin NameStarts(h)
  <2> HIDE DEF n
  <2>1. n = Len(h) BY DEF n
  <2> QED BY <1>1, <2>1, Outside
<1>7. path[n] = path[m] \o r BY <1>1, <1>6, PickedAll DEF KeptPath
<1>8. query[n] = query[m] BY <1>1, <1>6, PickedNone DEF KeptNames
<1>9. SubSeq(h, n + 1, n) = <<>> BY <1>1, SubSeqEmpty
<1>10. \A o : ~Pending(h, n, o)
  <2> SUFFICES ASSUME NEW o, Pending(h, n, o) PROVE FALSE OBVIOUS
  <2>1. /\ o \in 1..n /\ h[o] = Brace
        /\ \A j \in (o + 1)..n : h[j] # Brace /\ h[j] # EndBrace
    BY DEF Pending
  <2>2. o \in 1..m BY <1>1, <2>1
  <2>3. Pending(h, m, o) BY <1>1, <2>1, <2>2 DEF Pending
  <2> QED BY <1>1, <2>3
<1> DEFINE t == Segment(s)
<1>11. t.rest = <<>> /\ t.path = s.path \o r /\ t.query = s.query BY <1>5
<1> HIDE DEF t
<1>12. SplitTo(t, h, path, query, n)
  BY <1>1, <1>7, <1>8, <1>9, <1>10, <1>11 DEF SplitTo
<1> QED BY <1>12 DEF t

\* A round that meets a brace takes off an expression and what is before it.
LEMMA NextSegment ==
  ASSUME NEW h \in Text, WellFormed(h),
         NEW path, KeptPath(path, h), NEW query, KeptNames(query, h),
         NEW s \in Splitting, NEW m, SplitTo(s, h, path, query, m),
         NEW o \in (m + 1)..Len(h), h[o] = Brace,
         \A j \in (m + 1)..(o - 1) : h[j] # Brace
  PROVE  \E c \in (m + 2)..Len(h) : SplitTo(Segment(s), h, path, query, c)
<1> DEFINE n == Len(h)
           r == s.rest
           open == {k \in DOMAIN r : r[k] = Brace /\ \A j \in 1..(k - 1) : r[j] # Brace}
           close == {k \in DOMAIN r :
                       r[k] = EndBrace /\ \E a \in open : a < k /\ \A j \in a..(k - 1) : r[j] # EndBrace}
<1>1. /\ n \in Nat /\ m \in 0..n /\ m \in Nat /\ m <= n /\ DOMAIN h = 1..n
      /\ o \in 1..n /\ o \in Nat /\ m < o
      /\ \A p : ~Pending(h, m, p)
      /\ r = SubSeq(h, m + 1, n) /\ s.path = path[m] /\ s.query = query[m]
  BY LenProperties DEF SplitTo, Text
<1>2. DOMAIN r = 1..(n - m) /\ Len(r) = n - m /\ \A i \in 1..(n - m) : r[i] = h[m + i]
  <2> HIDE DEF n, r
  <2>1. n <= Len(h) BY DEF n
  <2> QED BY <1>1, <2>1, Stretch
<1>3. PICK c \in 1..n : Expression(h, o, c)
  BY <1>1 DEF WellFormed
<1>4. /\ c \in Nat /\ o < c /\ c <= n /\ h[c] = EndBrace /\ c \in (m + 2)..n
      /\ \A j \in (o + 1)..(c - 1) : h[j] # Brace /\ h[j] # EndBrace
  BY <1>1, <1>3 DEF Expression
<1> DEFINE a == o - m
           b == c - m
<1>5. /\ a \in 1..(n - m) /\ b \in 1..(n - m) /\ a < b /\ m + a = o /\ m + b = c
      /\ a - 1 \in Nat /\ b - 1 \in Nat /\ a \in Nat /\ b \in Nat
  BY <1>1, <1>4
<1>6. open = {a}
  <2> HIDE DEF a
  <2>1. a \in open
    <3>1. r[a] = Brace BY <1>2, <1>5
    <3>2. ASSUME NEW j \in 1..(a - 1) PROVE r[j] # Brace
      <4>1. m + j \in (m + 1)..(o - 1) /\ j \in 1..(n - m) BY <1>1, <1>5
      <4> QED BY <1>2, <4>1
    <3> QED BY <1>2, <1>5, <3>1, <3>2
  <2>2. ASSUME NEW k \in open PROVE k = a
    <3>1. k \in 1..(n - m) BY <1>2
    <3>2. ~(k < a)
      <4> SUFFICES ASSUME k < a PROVE FALSE OBVIOUS
      <4>1. k \in 1..(a - 1) BY <1>5, <3>1
      <4> QED BY <2>1, <4>1
    <3>3. ~(a < k)
      <4> SUFFICES ASSUME a < k PROVE FALSE OBVIOUS
      <4>1. a \in 1..(k - 1) BY <1>5, <3>1
      <4> QED BY <2>1, <4>1
    <3> HIDE DEF open
    <3> QED BY <1>1, <1>5, <3>1, <3>2, <3>3
  <2> HIDE DEF open
  <2> QED BY <2>1, <2>2
<1>7. close = {b}
  <2> HIDE DEF open, a, b
  <2> DEFINE Closes(k) == r[k] = EndBrace /\ a < k /\ \A j \in a..(k - 1) : r[j] # EndBrace
  <2>1. close = {k \in 1..(n - m) : Closes(k)}
    <3>1. close = {k \in 1..(n - m) :
                     r[k] = EndBrace /\ \E x \in {a} : x < k /\ \A j \in x..(k - 1) : r[j] # EndBrace}
      BY <1>2, <1>6
    <3> HIDE DEF close
    <3> QED BY <3>1
  <2> HIDE DEF close
  <2>2. Closes(b)
    <3>1. r[b] = EndBrace BY <1>2, <1>4, <1>5
    <3>2. ASSUME NEW j \in a..(b - 1) PROVE r[j] # EndBrace
      <4>1. j \in 1..(n - m) /\ (m + j = o \/ m + j \in (o + 1)..(c - 1)) BY <1>1, <1>4, <1>5
      <4> QED BY <1>2, <1>4, <4>1, Characters
    <3> QED BY <1>5, <3>1, <3>2
  <2>3. ASSUME NEW k \in 1..(n - m), Closes(k) PROVE k = b
    <3>1. ~(k < b)
      <4> SUFFICES ASSUME k < b PROVE FALSE OBVIOUS
      <4>1. k \in a..(b - 1) BY <1>5, <2>3
      <4> QED BY <2>2, <2>3, <4>1
    <3>2. ~(b < k)
      <4> SUFFICES ASSUME b < k PROVE FALSE OBVIOUS
      <4>1. b \in a..(k - 1) BY <1>5
      <4> QED BY <2>2, <2>3, <4>1
    <3> HIDE DEF Closes
    <3> QED BY <1>1, <1>5, <3>1, <3>2
  <2> HIDE DEF Closes
  <2> QED BY <1>5, <2>1, <2>2, <2>3

<1> DEFINE seg == SubSeq(r, a + 1, b - 1)
           asks == seg # <<>> /\ Head(seg) \in QueryOperators
           t == Segment(s)
<1>8. /\ t.rest = SubSeq(r, b + 1, Len(r))
      /\ asks => /\ t.path = s.path \o SubSeq(r, 1, a - 1)
                 /\ t.query = AskedIn(s.query, SplitNames(Tail(seg)))
      /\ ~asks => t.path = s.path \o SubSeq(r, 1, b) /\ t.query = s.query
  <2> DEFINE a1 == CHOOSE k \in open : TRUE
             b1 == CHOOSE k \in close : TRUE
             seg1 == SubSeq(r, a1 + 1, b1 - 1)
             asks1 == seg1 # <<>> /\ Head(seg1) \in QueryOperators
  <2>1. close # {}
    <3> HIDE DEF close
    <3> QED BY <1>7
  <2>2. t = [rest |-> SubSeq(r, b1 + 1, Len(r)),
             path |-> s.path \o SubSeq(r, 1, IF asks1 THEN a1 - 1 ELSE b1),
             query |-> IF asks1 THEN AskedIn(s.query, SplitNames(Tail(seg1)))
                       ELSE s.query]
    BY <2>1 DEF Segment
  <2>3. a1 = a /\ b1 = b
    <3> HIDE DEF open, close, a, b
    <3> QED BY <1>6, <1>7
  <2> HIDE DEF a1, b1, a, b, t, r
  <2> QED BY <2>2, <2>3
<1> HIDE DEF open, close, t
<1>9. seg = SubSeq(h, o + 1, c - 1)
  <2> HIDE DEF a
  <2> DEFINE e == b - 1
  <2>1. e \in Nat /\ a <= e /\ m + e <= n /\ m + e = c - 1 BY <1>1, <1>4, <1>5
  <2> HIDE DEF e
  <2>2. SubSeq(SubSeq(h, m + 1, Len(h)), a + 1, e) = SubSeq(h, (m + a) + 1, m + e)
    BY <1>1, <1>5, <2>1, StretchOfRest
  <2> QED BY <1>1, <1>5, <2>1, <2>2 DEF e
<1>10. t.rest = SubSeq(h, c + 1, n)
  <2> HIDE DEF b
  <2> DEFINE e == n - m
  <2>1. e \in Nat /\ b <= e /\ m + e <= n /\ m + e = n BY <1>1, <1>4, <1>5
  <2> HIDE DEF e
  <2>2. SubSeq(SubSeq(h, m + 1, Len(h)), b + 1, e) = SubSeq(h, (m + b) + 1, m + e)
    BY <1>1, <1>5, <2>1, StretchOfRest
  <2>3. Len(r) = e BY <1>2 DEF e
  <2> HIDE DEF r
  <2> QED BY <1>1, <1>5, <1>8, <2>1, <2>2, <2>3
<1>11. ASSUME NEW e \in Nat, m + e <= n
       PROVE  SubSeq(r, 1, e) = SubSeq(h, m + 1, m + e)
  <2> DEFINE z == 0
  <2>1. z \in Nat /\ z <= e /\ z + 1 = 1 /\ m + z = m BY <1>1
  <2> HIDE DEF z
  <2>2. SubSeq(SubSeq(h, m + 1, Len(h)), z + 1, e) = SubSeq(h, (m + z) + 1, m + e)
    BY <1>1, <1>11, <2>1, StretchOfRest
  <2> QED BY <1>1, <2>1, <2>2
<1>12. /\ SubSeq(r, 1, a - 1) = SubSeq(h, m + 1, o - 1)
       /\ SubSeq(r, 1, b) = SubSeq(h, m + 1, c)
  <2>1. a - 1 \in Nat /\ m + (a - 1) <= n /\ m + (a - 1) = o - 1 BY <1>1, <1>5
  <2>2. b \in Nat /\ m + b <= n /\ m + b = c BY <1>4, <1>5
  <2> HIDE DEF a, b, r
  <2> QED BY <1>11, <2>1, <2>2
<1>13. asks <=> h[o + 1] \in QueryOperators
  <2> HIDE DEF a, b
  <2>1. CASE c = o + 1
    <3>1. SubSeq(h, o + 1, c - 1) = <<>>
      <4>1. c - 1 < o + 1 /\ o + 1 \in Int /\ c - 1 \in Int BY <1>1, <1>4, <2>1
      <4> QED BY <4>1, SubSeqEmpty
    <3>2. h[o + 1] \notin QueryOperators BY <1>4, <2>1, Characters
    <3> QED BY <1>9, <3>1, <3>2
  <2>2. CASE c # o + 1
    <3>1. h \in Seq(STRING) /\ o + 1 \in 1..n /\ c - 1 \in (o + 1)..n BY <1>1, <1>4, <2>2 DEF Text
    <3>2. Head(SubSeq(h, o + 1, c - 1)) = h[o + 1] BY <3>1, HeadTailOfSubSeq
    <3>3. Len(SubSeq(h, o + 1, c - 1)) = c - 1 - o
      <4>1. c - 1 \in Nat /\ o <= c - 1 /\ c - 1 <= n BY <1>1, <1>4
      <4> QED BY <1>1, <4>1, Stretch
    <3>4. SubSeq(h, o + 1, c - 1) # <<>>
      <4>1. c - 1 - o # 0 BY <1>1, <1>4, <2>2
      <4> QED BY <3>3, <4>1, EmptySeq
    <3> QED BY <1>9, <3>2, <3>4
  <2> QED BY <2>1, <2>2
<1> HIDE DEF a, b, asks
<1>14. /\ o - 1 \in m..n /\ c \in (o - 1)..n /\ m \in 0..n /\ o - 1 \in 0..n /\ c \in m..n
       /\ (o - 1) + 1 = o
  BY <1>1, <1>4
<1>15. \A i \in (m + 1)..(o - 1) : i \in Plain(h) /\ i \notin NameStarts(h)
  BY <1>1, <1>14, Outside
<1>16. query[o - 1] = query[m]
  BY <1>1, <1>14, <1>15, PickedNone DEF KeptNames
<1>17. path[o - 1] = path[m] \o SubSeq(h, m + 1, o - 1)
  <2> DEFINE p == o - 1
             S == Plain(h)
  <2>1. m \in 0..n /\ p \in m..n /\ \A i \in (m + 1)..p : i \in S BY <1>14, <1>15
  <2>2. Picking(path, h, S, n) /\ \A i \in 0..n : path[i] \in Text BY DEF KeptPath
  <2> HIDE DEF p, S
  <2>3. path[p] = path[m] \o SubSeq(h, m + 1, p) BY ONLY h \in Text, <2>1, <2>2, PickedAll
  <2> QED BY <2>3 DEF p
<1>18. \A p : ~Pending(h, c, p)
  <2>1. c \in Nat \ {0} /\ h[c] # Brace BY <1>3, <1>4, Characters
  <2> QED BY <1>4, <2>1, PendingStep
<1>19. CASE asks
  <2> DEFINE names == SplitNames(Tail(seg))
             p == o - 1
  <2>1. \A i \in (p + 1)..c : i \notin Plain(h)
    BY <1>3, <1>13, <1>14, <1>19, Inside
  <2>2. path[c] = path[p]
    <3> HIDE DEF p
    <3>1. p \in 0..n /\ c \in p..n BY <1>14 DEF p
    <3> QED BY <1>1, <2>1, <3>1, PickedNone DEF KeptPath
  <2>3. QueryExpression(h, o, c) BY <1>3, <1>13, <1>19 DEF QueryExpression
  <2>4. query[c] = query[o - 1] \o SplitNames(SubSeq(h, o + 2, c - 1))
    <3>1. \A x, y : QueryExpression(h, x, y) =>
            query[y] = query[x - 1] \o SplitNames(SubSeq(h, x + 2, y - 1))
      BY NamesTaken, Zenon
    <3> QED BY <2>3, <3>1, Zenon
  <2>5. Tail(seg) = SubSeq(h, o + 2, c - 1) /\ seg \in Text
    <3>1. o + 1 # c BY <1>4, <1>13, <1>19, Characters
    <3>2. /\ h \in Seq(STRING) /\ o + 1 \in 1..n /\ c - 1 \in (o + 1)..n /\ (o + 1) + 1 = o + 2
          /\ c - 1 \in Nat /\ o <= c - 1 /\ c - 1 <= n
      BY <1>1, <1>4, <3>1 DEF Text
    <3>3. Tail(SubSeq(h, o + 1, c - 1)) = SubSeq(h, o + 2, c - 1)
      BY <3>2, HeadTailOfSubSeq
    <3>4. SubSeq(h, o + 1, c - 1) \in Text BY <1>1, <3>2, Stretch
    <3> QED BY <1>9, <3>3, <3>4
  <2>6. ~EmptyName(names)
    <3>1. Problems(seg) = {}
      <4>1. NamesGiven(h, o, c) BY <1>1, <1>3 DEF WellFormed
      <4> QED BY <1>3, <1>9, <4>1, ExpressionProblems
    <3>2. seg # <<>> /\ Head(seg) \in Operators BY <1>19, Characters DEF asks
    <3> HIDE DEF seg
    <3> SUFFICES ASSUME EmptyName(names) PROVE FALSE OBVIOUS
    <3> DEFINE body == Tail(seg)
               l == {"nameless"}
               u == {"unnamed"}
    <3>3. Problems(seg) = CASE body = <<>> -> l [] body # <<>> -> u
      BY <3>2 DEF Problems
    <3>4. l # {} /\ u # {} OBVIOUS
    <3> HIDE DEF body, l, u
    <3> QED BY <3>1, <3>3, <3>4
  <2>7. names \in Names
    <3> HIDE DEF seg
    <3>1. Tail(seg) \in Seq(STRING)
      <4>1. seg \in Seq(STRING) /\ seg # <<>> BY <1>19, <2>5 DEF asks, Text
      <4> QED BY <4>1, HeadTailProperties
    <3> QED BY <3>1, SplitNamesType DEF Text
  <2>8. s.query \in Seq(Text) BY DEF Splitting
  <2>9. AskedIn(s.query, names) = s.query \o names
    <3> HIDE DEF names
    <3> QED BY <2>6, <2>7, <2>8, AskedAll
  <2>10. t.path = path[c] /\ t.query = query[c]
    <3> HIDE DEF seg, r
    <3> QED BY <1>1, <1>8, <1>12, <1>16, <1>17, <1>19, <2>2, <2>4, <2>5, <2>9
  <2>11. SplitTo(t, h, path, query, c) BY <1>10, <1>14, <1>18, <2>10 DEF SplitTo
  <2> HIDE DEF SplitTo
  <2> QED BY <1>4, <2>11 DEF t
<1>20. CASE ~asks
  <2>1. \A i \in (m + 1)..c : i \in Plain(h) /\ i \notin NameStarts(h)
    <3>1. ASSUME NEW i \in (m + 1)..c PROVE i \in (m + 1)..(o - 1) \/ i \in o..c
      BY <1>1, <1>4
    <3>2. ASSUME NEW i \in o..c PROVE i \in Plain(h) /\ i \notin NameStarts(h)
      <4> DEFINE asked == h[o + 1] \in QueryOperators
      <4>1. ~asked BY <1>13, <1>20
      <4>2. /\ i \in Plain(h) <=> ~asked
            /\ ~asked => i \notin NameStarts(h)
        BY <1>3, Inside
      <4> HIDE DEF asked
      <4> QED BY <4>1, <4>2
    <3> QED BY <1>15, <3>1, <3>2
  <2>2. query[c] = query[m]
    <3> DEFINE S == NameStarts(h)
    <3>1. m \in 0..n /\ c \in m..n /\ \A i \in (m + 1)..c : i \notin S BY <1>14, <2>1
    <3>2. Picking(query, AskedNames(h), S, n) BY DEF KeptNames
    <3> HIDE DEF S
    <3> QED BY <3>1, <3>2, PickedNone
  <2>3. path[c] = path[m] \o SubSeq(h, m + 1, c)
    <3> DEFINE S == Plain(h)
    <3>1. m \in 0..n /\ c \in m..n /\ \A i \in (m + 1)..c : i \in S BY <1>14, <2>1
    <3>2. Picking(path, h, S, n) /\ \A i \in 0..n : path[i] \in Text BY DEF KeptPath
    <3> HIDE DEF S
    <3> QED BY ONLY h \in Text, <3>1, <3>2, PickedAll
  <2>4. t.path = path[c] /\ t.query = query[c]
    <3> HIDE DEF seg, r
    <3> QED BY <1>1, <1>8, <1>12, <1>20, <2>2, <2>3
  <2>5. SplitTo(t, h, path, query, c) BY <1>10, <1>14, <1>18, <2>4 DEF SplitTo
  <2> HIDE DEF SplitTo
  <2> QED BY <1>4, <2>5 DEF t
<1> QED BY <1>19, <1>20

\* For any text that is well formed, splitURITemplate puts what is outside of its
\* query expressions into the path, and their names into the query, in their order.
LEMMA SplitExactly ==
  ASSUME NEW h \in Text, WellFormed(h),
         NEW path, KeptPath(path, h), NEW query, KeptNames(query, h)
  PROVE  /\ SplitTemplate(h).path = path[Len(h)]
         /\ SplitTemplate(h).query = query[Len(h)]
<1> DEFINE n == Len(h)
           rounds == Rounds(h)
<1>1. n \in Nat /\ h \in Seq(STRING) BY LenProperties DEF Text
<1>2. rounds \in Nat /\ n < 2 * rounds
  <2> HIDE DEF n
  <2>1. rounds = n \div 2 + 1 BY DEF Rounds, n
  <2> HIDE DEF rounds
  <2> QED BY <1>1, <2>1
<1>3. PICK after : Split(after, h) BY SplitRun
<1> HIDE DEF rounds
<1> DEFINE Right(i, m) == SplitTo(after[i], h, path, query, m) /\ (m = n \/ m >= 2 * i)
           T == {i \in Nat : i <= rounds => \E m \in 0..n : Right(i, m)}
<1>4. 0 \in T
  <2>1. \A o : ~Pending(h, 0, o) BY DEF Pending
  <2>2. SubSeq(h, 0 + 1, n) = h
    <3>1. SubSeq(h, 1, Len(h)) = h BY <1>1, SubSeqFull
    <3> QED BY <3>1
  <2>3. path[0] = <<>> /\ query[0] = <<>> BY DEF KeptPath, KeptNames, Picking
  <2>4. after[0].rest = h /\ after[0].path = <<>> /\ after[0].query = <<>>
    BY <1>3 DEF Split
  <2>5. 0 \in 0..n /\ 0 >= 2 * 0 BY <1>1
  <2>6. SplitTo(after[0], h, path, query, 0) BY <2>1, <2>2, <2>3, <2>4, <2>5 DEF SplitTo
  <2> QED BY <2>5, <2>6
<1>5. ASSUME NEW i \in Nat, i \in T PROVE i + 1 \in T
  <2> SUFFICES ASSUME i + 1 <= rounds PROVE \E m \in 0..n : Right(i + 1, m)
    <3> HIDE DEF Right
    <3> QED OBVIOUS
  <2>1. i \in 0..rounds /\ i + 1 \in 1..rounds /\ (i + 1) - 1 = i BY <1>2
  <2>2. PICK m \in 0..n : Right(i, m)
    <3> HIDE DEF Right
    <3> QED BY <1>2, <1>5, <2>1
  <2>3. after[i] \in Splitting /\ after[i + 1] = Segment(after[i])
    BY <1>3, <2>1 DEF Split, rounds
  <2>4. \E c \in 0..n : SplitTo(after[i + 1], h, path, query, c) /\ (c = n \/ c >= m + 2)
    <3> DEFINE S == {j \in (m + 1)..n : h[j] = Brace}
    <3>1. CASE S = {}
      <4>1. \A j \in (m + 1)..Len(h) : h[j] # Brace BY <3>1
      <4>2. SplitTo(after[i + 1], h, path, query, n) BY <2>2, <2>3, <4>1, LastSegment
      <4>3. n \in 0..n BY <1>1
      <4> HIDE DEF SplitTo
      <4> QED BY <4>2, <4>3
    <3>2. CASE S # {}
      <4>1. S \subseteq Nat BY <1>1
      <4>2. PICK o \in S : \A j \in S : o <= j
        <5> HIDE DEF S
        <5> QED BY <3>2, <4>1, LeastNatural
      <4>3. o \in (m + 1)..Len(h) /\ h[o] = Brace OBVIOUS
      <4>4. ASSUME NEW j \in (m + 1)..(o - 1) PROVE h[j] # Brace
        <5>1. j \in (m + 1)..n /\ ~(o <= j) BY <1>1, <4>3
        <5>2. j \notin S BY <4>2, <5>1
        <5> QED BY <5>1, <5>2
      <4> HIDE DEF S
      <4>5. PICK c \in (m + 2)..Len(h) : SplitTo(Segment(after[i]), h, path, query, c)
        BY <2>2, <2>3, <4>3, <4>4, NextSegment
      <4>6. c \in 0..n /\ c >= m + 2 BY <1>1, <4>5
      <4> HIDE DEF SplitTo
      <4> QED BY <2>3, <4>5, <4>6
    <3> QED BY <3>1, <3>2
  <2>5. PICK c \in 0..n : SplitTo(after[i + 1], h, path, query, c) /\ (c = n \/ c >= m + 2)
    BY <2>4
  <2>6. c = n \/ c >= 2 * (i + 1) BY <1>1, <2>2, <2>5
  <2> HIDE DEF SplitTo
  <2> QED BY <2>5, <2>6
<1>6. \A i \in Nat : i \in T
  <2> HIDE DEF T
  <2> QED BY <1>4, <1>5, SetInduction
<1>7. PICK m \in 0..n : Right(rounds, m)
  <2> HIDE DEF Right
  <2> QED BY <1>2, <1>6
<1>8. m = n BY <1>1, <1>2, <1>7
<1>9. after[rounds].path = path[n] /\ after[rounds].query = query[n]
  BY <1>7, <1>8 DEF SplitTo
<1> QED BY <1>3, <1>9 DEF Split, rounds

LEMMA KeptRuns ==
  ASSUME NEW h \in Text
  PROVE  /\ \E path : KeptPath(path, h)
         /\ \E query : KeptNames(query, h)
<1>1. Len(h) \in Nat BY LenProperties DEF Text
<1>2. \E path : KeptPath(path, h)
  <2>1. \A i \in 1..Len(h) : h[i] \in STRING BY ElementOfSeq DEF Text
  <2>2. \E f : Picking(f, h, Plain(h), Len(h)) /\ \A i \in 0..Len(h) : f[i] \in Seq(STRING)
    BY <1>1, <2>1, PickingRun
  <2> QED BY <2>2 DEF KeptPath, Text
<1>3. \E query : KeptNames(query, h)
  <2>1. \A i \in 1..Len(h) : i \in NameStarts(h) => AskedNames(h)[i] \in Text
    BY NameAtType
  <2>2. \E f : /\ Picking(f, AskedNames(h), NameStarts(h), Len(h))
               /\ \A i \in 0..Len(h) : f[i] \in Seq(Text)
    BY <1>1, <2>1, PickingRun
  <2> QED BY <2>2 DEF KeptNames
<1> QED BY <1>2, <1>3

\* For any text: validateURITemplate finds nothing exactly in the texts that are
\* well formed, and of these splitURITemplate, which checks nothing and finds the
\* braces in another way, makes what they mean: the path is what is outside of the
\* query expressions, and the query their names, each once and in their order.
THEOREM TemplatesExact == \A href \in Text : SplitsExactly(href)
<1> SUFFICES ASSUME NEW h \in Text PROVE SplitsExactly(h) OBVIOUS
<1>1. Malformed(h) = {} <=> WellFormed(h) BY MalformedExactly
<1>2. ASSUME WellFormed(h)
      PROVE  /\ SplitTemplate(h).path =
                  Picked(h, {i \in DOMAIN h : ~InQuery(h, i)}, Len(h))
             /\ SplitTemplate(h).query =
                  Picked([i \in NameStarts(h) |-> NameAt(h, i)],
                         NameStarts(h), Len(h))
  <2>1. PICK path : KeptPath(path, h) BY KeptRuns
  <2>2. PICK query : KeptNames(query, h) BY KeptRuns
  <2>3. /\ SplitTemplate(h).path = path[Len(h)]
        /\ SplitTemplate(h).query = query[Len(h)]
    BY <1>2, <2>1, <2>2, SplitExactly
  <2>4. path[Len(h)] = Picked(h, Plain(h), Len(h)) BY <2>1 DEF KeptPath, Picking
  <2>5. query[Len(h)] = Picked(AskedNames(h), NameStarts(h), Len(h))
    BY <2>2 DEF KeptNames, Picking
  <2> QED BY <2>3, <2>4, <2>5 DEF Plain, AskedNames
<1> QED BY <1>1, <1>2 DEF SplitsExactly

\* So it is of every href that is written.
THEOREM TemplatesSplitExactlyAlways == TextsSpec => []TemplatesSplitExactly
<1> DEFINE Inv == genre = "href" => written \in Text
<1>1. TextsInit => Inv BY SymbolsAssumption DEF TextsInit, Text
<1>2. Inv /\ [TextsNext]_textVars => Inv'
  <2> SUFFICES ASSUME Inv, [TextsNext]_textVars, genre' = "href" PROVE written' \in Text
    OBVIOUS
  <2>1. CASE \E symbol \in Alphabet[genre] : Write(symbol)
    <3>1. PICK symbol \in Alphabet[genre] : Write(symbol) BY <2>1
    <3>2. genre = "href" /\ written' = Append(written, symbol) BY <3>1 DEF Write
    <3>3. symbol \in STRING BY <3>1, <3>2, SymbolsAssumption
    <3> QED BY <3>2, <3>3, AppendProperties DEF Text
  <2>2. CASE genre = "value" /\ \E v \in Containers(written) : Wrap(v)
    BY <2>2 DEF Wrap
  <2>3. CASE UNCHANGED textVars BY <2>3 DEF textVars
  <2> QED BY <2>1, <2>2, <2>3 DEF TextsNext
<1>3. Inv => TemplatesSplitExactly BY TemplatesExact DEF TemplatesSplitExactly
<1> QED BY <1>1, <1>2, <1>3, PTL DEF TextsSpec

\* What stands at some position is not lost.
LEMMA PickedSome ==
  ASSUME NEW K, NEW f, NEW what, NEW S, NEW n \in Nat, Picking(f, what, S, n),
         \A i \in 0..n : f[i] \in Seq(K), \A i \in 1..n : i \in S => what[i] \in K,
         NEW i \in 1..n, i \in S
  PROVE  f[n] # <<>>
<1> DEFINE T == {k \in Nat : i + k <= n => f[i + k] # <<>>}
<1>1. ASSUME NEW j \in 1..n, j \in S \/ f[j - 1] # <<>> PROVE f[j] # <<>>
  <2>1. f[j] = IF j \in S THEN Append(f[j - 1], what[j]) ELSE f[j - 1] BY DEF Picking
  <2>2. j - 1 \in 0..n OBVIOUS
  <2>3. ASSUME j \in S PROVE Append(f[j - 1], what[j]) # <<>>
    BY <2>2, <2>3, AppendProperties
  <2> QED BY <1>1, <2>1, <2>3
<1>2. 0 \in T
  <2>1. i + 0 = i /\ f[i] # <<>> BY <1>1
  <2> QED BY <2>1
<1>3. ASSUME NEW k \in Nat, k \in T PROVE k + 1 \in T
  <2> SUFFICES ASSUME i + (k + 1) <= n PROVE f[i + (k + 1)] # <<>> OBVIOUS
  <2>1. i + (k + 1) \in 1..n /\ (i + (k + 1)) - 1 = i + k /\ i + k <= n OBVIOUS
  <2> QED BY <1>1, <1>3, <2>1
<1>4. \A k \in Nat : k \in T
  <2> HIDE DEF T
  <2> QED BY <1>2, <1>3, SetInduction
<1>5. n - i \in Nat /\ i + (n - i) = n /\ n <= n OBVIOUS
<1> QED BY <1>4, <1>5

\* A resource that is dropped is reported, asks for something, or has no href.
LEMMA DroppedTold ==
  ASSUME NEW href \in Text, SplitTemplate(href).path = <<>>
  PROVE  \/ Malformed(href) # {}
         \/ SplitTemplate(href).query # <<>>
         \/ href = <<>>
<1> DEFINE n == Len(href)
<1> SUFFICES ASSUME Malformed(href) = {}, href # <<>>
             PROVE  SplitTemplate(href).query # <<>>
  OBVIOUS
<1>1. n \in Nat /\ n # 0 /\ href \in Seq(STRING) BY LenProperties, EmptySeq DEF Text
<1>2. 1 \in 1..n BY <1>1
<1>3. WellFormed(href) BY MalformedExactly
<1>4. PICK path : KeptPath(path, href) BY KeptRuns
<1>5. PICK query : KeptNames(query, href) BY KeptRuns
<1>6. path[n] = <<>> /\ SplitTemplate(href).query = query[n]
  BY <1>3, <1>4, <1>5, SplitExactly
<1>7. 1 \notin Plain(href)
  <2> SUFFICES ASSUME 1 \in Plain(href) PROVE FALSE OBVIOUS
  <2>1. \A i \in 1..n : href[i] \in STRING BY <1>1, ElementOfSeq
  <2>2. /\ Picking(path, href, Plain(href), n)
        /\ \A i \in 0..n : path[i] \in Seq(STRING)
    BY <1>4 DEF KeptPath, Text
  <2>3. path[n] # <<>> BY <1>1, <1>2, <2>1, <2>2, PickedSome
  <2> QED BY <1>6, <2>3
<1>8. PICK o \in 1..1, c \in 1..n : QueryExpression(href, o, c)
  <2>1. 1 \in DOMAIN href BY <1>1, <1>2
  <2>2. InQuery(href, 1) BY <1>7, <2>1 DEF Plain
  <2> QED BY <2>2 DEF InQuery
<1>9. 3 \in NameStarts(href) /\ 3 \in 1..n
  <2>1. /\ o = 1 /\ c \in 2..n /\ href[c] = EndBrace /\ href[o + 1] \in QueryOperators
    BY <1>1, <1>8 DEF QueryExpression, Expression
  <2>2. c # 2 BY <2>1, Characters
  <2>3. 3 \in o..c /\ 3 - 1 \in (o + 1)..(c - 1) /\ 3 - 1 = o + 1 /\ 3 \in 1..n
    BY <1>1, <2>1, <2>2
  <2> QED BY <1>8, <2>3, StartsWithin
<1>10. query[n] # <<>>
  <2>1. \A i \in 1..n : i \in NameStarts(href) => AskedNames(href)[i] \in Text
    BY NameAtType
  <2>2. /\ Picking(query, AskedNames(href), NameStarts(href), n)
        /\ \A i \in 0..n : query[i] \in Seq(Text)
    BY <1>5 DEF KeptNames
  <2> QED BY <1>1, <1>9, <2>1, <2>2, PickedSome
<1> QED BY <1>6, <1>10

-----------------------------------------------------------------------------
(* The steps of addResource.                                                 *)

\* Where paramsFromHrefVariables puts a parameter.
LEMMA LocatedRight ==
  ASSUME elements \in Nat, NEW p \in Declared, NEW path, NEW default \in {"path", "query"}
  PROVE  /\ Located(p, path, default) \in Placed
         /\ Located(p, path, default).owner = elements + 1
         /\ Located(p, path, default).place = "query" /\ default = "path" =>
              ~PathHas(path, Located(p, path, default).name)
         /\ default = "query" => Located(p, path, default).place # "path"
<1> DEFINE place == IF p.loc # "" THEN p.loc
                    ELSE IF ~PathHas(path, p.name) THEN "query" ELSE default
<1>1. p.name \in Text /\ p.loc \in {"", "header", "cookie"} BY Zenon DEF Declared
<1>2. place \in {"path", "query", "header", "cookie"} BY <1>1, Zenon
<1>3. place = "query" /\ default = "path" => ~PathHas(path, p.name)
  <2>1. ~("header" = "query") /\ ~("cookie" = "query") /\ ~("path" = "query") BY Zenon
  <2> QED BY <1>1, <2>1, Zenon
<1>11. default = "query" => place # "path"
  <2>1. ~("header" = "path") /\ ~("cookie" = "path") /\ ~("query" = "path") BY Zenon
  <2> QED BY <1>1, <2>1, Zenon
<1>4. Located(p, path, default) = [name |-> p.name, owner |-> elements + 1, place |-> place]
  BY Zenon DEF Located
<1> HIDE DEF place
<1>5. p.name \in Text BY <1>1
<1>6. elements + 1 \in Nat OBVIOUS
<1> DEFINE name == p.name
           number == elements + 1
<1>7. name \in Text /\ number \in Nat BY <1>5, <1>6
<1>8. Located(p, path, default) = [name |-> name, owner |-> number, place |-> place] BY <1>4
<1>9. place = "query" /\ default = "path" => ~PathHas(path, name) BY <1>3
<1> HIDE DEF name, number
<1>10. /\ Located(p, path, default) \in Placed
       /\ Located(p, path, default).owner = number
       /\ Located(p, path, default).place = place
       /\ Located(p, path, default).name = name
  BY <1>2, <1>7, <1>8 DEF Placed
<1> QED BY <1>9, <1>10, <1>11 DEF number

LEMMA ItemRight ==
  ASSUME IInv, NEW at
  PROVE  /\ Item(at) = [level |-> Item(at).level, ops |-> Item(at).ops]
         /\ Item(at).level \in Seq(Shared) /\ Unique(Item(at).level)
         /\ at \in DOMAIN doc => Item(at) = doc[at]
         /\ at \notin DOMAIN doc => DOMAIN Item(at).ops = {}
         /\ DOMAIN Item(at).ops \subseteq Slots
<1> USE DEF IInv
<1>1. CASE at \in DOMAIN doc
  BY <1>1 DEF Item, TypeOK, DocParams
<1>2. CASE at \notin DOMAIN doc
  <2>1. Item(at) = [level |-> <<>>, ops |-> <<>>] BY <1>2 DEF Item, NewItem
  <2>2. <<>> \in Seq(Shared) /\ DOMAIN <<>> = {} BY EmptySeq
  <2>3. Unique(<<>>) BY <2>2 DEF Unique
  <2> QED BY <1>2, <2>1, <2>2, <2>3
<1> QED BY <1>1, <1>2

\* A step that adds no operation and takes no action.
LEMMA GrowsRight ==
  ASSUME IInv, UNCHANGED <<taken, over, target>>, ~over,
         elements' \in Nat, elements <= elements',
         diags \subseteq diags', \A d \in diags' : d \in diags \/ d[1] \notin {"E005", "W005"},
         \A g : Seen(g) => Seen(g)',
         DOMAIN doc \subseteq DOMAIN doc',
         \A at \in DOMAIN doc : doc'[at].ops = doc[at].ops,
         \A at \in DOMAIN doc' : at \notin DOMAIN doc => DOMAIN doc'[at].ops = {},
         \A at \in DOMAIN doc' : doc'[at].level \in Seq(Shared) /\ Unique(doc'[at].level)
  PROVE  AllTaken' /\ TakenOnce' /\ TakenHeld' /\ DocHeld' /\ DocParams' /\ DuplicatesCounted'
<1> USE DEF IInv
<1>1. \A t \in taken : TakenRight(t)'
  <2> TAKE t \in taken
  <2>1. TakenRight(t) BY DEF AllTaken
  <2>2. t.number \in 1..elements' BY <2>1 DEF TakenRight, TypeOK
  <2>3. WantHooks' = WantHooks BY DEF WantHooks
  <2> QED BY <2>1, <2>2, <2>3 DEF TakenRight
<1>2. AllTaken' BY <1>1 DEF AllTaken
<1>3. TakenOnce' BY DEF TakenOnce
<1>4. TakenHeld' BY DEF TakenHeld
<1>5. \A op, t : Holds(op, t)' <=> Holds(op, t) BY DEF Holds
<1>6. DocHeld'
  <2> SUFFICES ASSUME NEW at \in DOMAIN doc', NEW m \in DOMAIN doc'[at].ops
               PROVE  \E t \in taken : t.at = at /\ t.method = m /\ Holds(doc'[at].ops[m], t)
    BY <1>5 DEF DocHeld
  <2>1. at \in DOMAIN doc OBVIOUS
  <2> QED BY <2>1 DEF DocHeld
<1>7. \A path, owner, number : OfOperation(path, owner, number)' = OfOperation(path, owner, number)
  BY DEF OfOperation, AskedAgain
<1>8. DocParams'
  <2> SUFFICES ASSUME NEW at \in DOMAIN doc', NEW m \in DOMAIN doc'[at].ops
               PROVE  LET op == doc'[at].ops[m]
                      IN  op.params \in Seq(OfOperation(at[2], op.owner, op.number)) /\ Unique(op.params)
    BY <1>7 DEF DocParams
  <2>1. at \in DOMAIN doc OBVIOUS
  <2> QED BY <2>1 DEF DocParams
<1>9. DuplicatesCounted' BY DEF DuplicatesCounted
<1> QED BY <1>2, <1>3, <1>4, <1>6, <1>8, <1>9

\* What CheckHref reports.
LEMMA Checked ==
  ASSUME NEW r \in Resources, CheckHref(r)
  PROVE  /\ diags \subseteq diags' /\ \A d \in diags' : d \in diags \/ d[1] \notin {"E005", "W005"}
         /\ Malformed(r.href) # {} => <<"E002", elements + 1>> \in diags'
<1>1. CASE Malformed(r.href) = {} BY <1>1 DEF CheckHref
<1>2. CASE Malformed(r.href) # {}
  <2>1. diags' = diags \cup {<<"E002", elements + 1>>} BY <1>2 DEF CheckHref
  <2>2. <<"E002", elements + 1>>[1] \notin {"E005", "W005"} OBVIOUS
  <2> QED BY <1>2, <2>1, <2>2
<1> QED BY <1>1, <1>2

LEMMA SkipResourceIInv ==
  ASSUME IInv, target' = target, NEW r \in Resources, SkipResource(r)
  PROVE  IInv'
<1> USE DEF IInv
<1>1. /\ elements' = elements + 1 /\ ~over
      /\ SplitTemplate(r.href).path = <<>>
      /\ Record(Ctx.tag, Ctx.parent) /\ CheckHref(r)
      /\ current' = [at |-> None, href |-> r.href, number |-> elements + 1, titled |-> r.titled]
      /\ UNCHANGED <<stack, doc, over, taken>>
  BY DEF SkipResource, Take
<1>2. Ctx \in Level /\ Ctx' = Ctx BY <1>1, CtxType DEF Ctx
<1>3. /\ order' \in Seq(Groups \cup {None})
      /\ \A g : Seen(g) => Seen(g)'
      /\ Ctx.tag # None => Seen(Ctx.tag)'
  BY <1>1, <1>2, RecordSeen DEF Level
<1>4. /\ elements' \in Nat /\ elements <= elements' /\ elements + 1 \in 1..elements'
  BY <1>1 DEF TypeOK
<1>5. TypeOK' BY <1>1, <1>3, <1>4 DEF TypeOK
<1>6. HooksInherited' BY <1>1 DEF HooksInherited
<1>7. r.href \in Text BY ResourcesAssumption
<1>8. \/ <<"E002", elements + 1>> \in diags'
      \/ SplitTemplate(r.href).query # <<>>
      \/ r.href = <<>>
  BY <1>1, <1>7, DroppedTold, Checked
<1>9. InResource'
  <2>1. current'.at = None /\ current'.number = elements + 1 /\ current'.href = r.href BY <1>1
  <2>2. (Ctx.tag # None => Seen(Ctx.tag))' BY <1>2, <1>3
  <2> QED BY <1>4, <1>8, <2>1, <2>2 DEF InResource
<1>10. ResourceParams' BY <1>1 DEF ResourceParams
<1> QED BY <1>1, <1>3, <1>4, <1>5, <1>6, <1>9, <1>10, Checked, StillRight

LEMMA EnterResourceIInv ==
  ASSUME IInv, target' = target, NEW r \in Resources, EnterResource(r)
  PROVE  IInv'
<1> USE DEF IInv
<1> DEFINE split == SplitTemplate(r.href)
           number == elements + 1
           own == [i \in DOMAIN r.params |-> Located(r.params[i], split.path, "path")]
           stubs == [i \in DOMAIN split.query |->
                       [name |-> split.query[i], place |-> "query", owner |-> number]]
           declared == {own[i].name : i \in {i \in DOMAIN own : own[i].place = "query"}}
           undeclared == {i \in DOMAIN stubs : stubs[i].name \notin declared}
           at == <<Scope, split.path>>
           level == AddAll(Item(at).level, Chosen(own, InPath(own)))
           item == [Item(at) EXCEPT !.level = level]
           params == Chosen(own, NotInPath(own)) \o Chosen(stubs, undeclared)
<1>1. /\ elements' = number /\ ~over
      /\ Record(Ctx.tag, Ctx.parent) /\ CheckHref(r)
      /\ doc' = [a \in DOMAIN doc \cup {at} |-> IF a = at THEN item ELSE doc[a]]
      /\ current' = [at |-> at, href |-> r.href, number |-> number, titled |-> r.titled,
                     params |-> params]
      /\ UNCHANGED <<stack, over, taken>>
  BY DEF EnterResource, Take, PutItem
<1>2. Ctx \in Level /\ Ctx' = Ctx BY <1>1, CtxType DEF Ctx
<1>3. /\ order' \in Seq(Groups \cup {None})
      /\ \A g : Seen(g) => Seen(g)'
      /\ Ctx.tag # None => Seen(Ctx.tag)'
  BY <1>1, <1>2, RecordSeen DEF Level
<1>4. /\ number \in Nat /\ elements' \in Nat /\ elements <= elements' /\ number \in 1..elements'
  <2>1. elements \in Nat BY DEF TypeOK
  <2>2. elements' = elements + 1 BY <1>1
  <2> QED BY <2>1, <2>2
<1>5. r.href \in Text /\ r.params \in Seq(Declared) BY ResourcesAssumption
<1>6. /\ own \in Seq(Placed)
      /\ \A i \in DOMAIN own :
           own[i].owner = number
           /\ (own[i].place = "query" => ~PathHas(split.path, own[i].name))
  <2> HIDE DEF split, number
  <2>1. elements \in Nat BY DEF TypeOK
  <2>2. \A i \in DOMAIN r.params : r.params[i] \in Declared BY <1>5, ElementOfSeq, LenProperties
  <2>3. \A i \in DOMAIN r.params :
          LET p == Located(r.params[i], split.path, "path")
          IN  /\ p \in Placed /\ p.owner = number
              /\ p.place = "query" => ~PathHas(split.path, p.name)
    <3>1. "path" \in {"path", "query"} OBVIOUS
    <3> QED BY <2>1, <2>2, <3>1, LocatedRight DEF number
  <2>4. Len(r.params) \in Nat /\ DOMAIN r.params = 1..Len(r.params) BY <1>5, LenProperties
  <2>5. own \in [1..Len(r.params) -> Placed] BY <2>3, <2>4
  <2>6. own \in Seq(Placed) BY <2>4, <2>5
  <2> QED BY <2>3, <2>6
<1>7. split.query \in Seq(Text) BY <1>5, SplitType
<1>8. /\ stubs \in Seq(Placed)
      /\ \A i \in DOMAIN stubs :
           stubs[i] = [name |-> split.query[i], place |-> "query", owner |-> number]
  <2> DEFINE query == split.query
  <2>1. query \in Seq(Text) BY <1>7
  <2>2. stubs = [i \in DOMAIN query |-> [name |-> query[i], place |-> "query", owner |-> number]]
    OBVIOUS
  <2> HIDE DEF stubs, query, number
  <2>3. Len(query) \in Nat /\ DOMAIN query = 1..Len(query) BY <2>1, LenProperties
  <2>4. \A i \in DOMAIN query : query[i] \in Text BY <2>1, <2>3, ElementOfSeq
  <2>5. \A i \in DOMAIN query : [name |-> query[i], place |-> "query", owner |-> number] \in Placed
    BY <1>4, <2>4 DEF Placed
  <2>6. stubs \in [1..Len(query) -> Placed] BY <2>2, <2>3, <2>5
  <2>7. stubs \in Seq(Placed) BY <2>3, <2>6
  <2> QED BY <2>2, <2>7 DEF query
<1>9. at # None /\ at[1] = Scope /\ at[2] = split.path
  <2>1. Scope \in {"paths", "webhooks"} BY DEF Scope
  <2> QED BY <2>1, NoneAssumption
<1> DEFINE ours == OfResource(split.path, r.href, number)
<1>10. params \in Seq(ours)
  <2> DEFINE first == Chosen(own, NotInPath(own))
             second == Chosen(stubs, undeclared)
  <2>1. \A i \in DOMAIN own : i \in NotInPath(own) => own[i] \in ours
    <3> TAKE i \in DOMAIN own
    <3>1. own[i] \in Placed BY <1>6, ElementOfSeq, LenProperties
    <3> HIDE DEF own, number, split
    <3> QED BY <1>6, <3>1 DEF NotInPath, OfResource
  <2>2. \A i \in DOMAIN stubs : stubs[i] \in ours
    <3> TAKE i \in DOMAIN stubs
    <3>1. stubs[i] \in Placed BY <1>8, ElementOfSeq, LenProperties
    <3>2. i \in DOMAIN split.query OBVIOUS
    <3> DEFINE query == split.query
    <3>3. query[i] \in Asked(r.href) BY <3>2 DEF Asked
    <3>4. stubs[i] = [name |-> query[i], place |-> "query", owner |-> number] BY <1>8
    <3> HIDE DEF stubs, number, query, split
    <3>5. stubs[i].name = query[i] /\ stubs[i].place = "query" /\ stubs[i].owner = number
      BY <3>4
    <3> QED BY <3>1, <3>3, <3>5 DEF OfResource
  <2> HIDE DEF own, stubs, ours, undeclared
  <2>3. first \in Seq(ours) BY <1>6, <2>1, ChosenRight
  <2>4. second \in Seq(ours) BY <1>8, <2>2, ChosenRight
  <2> HIDE DEF first, second
  <2>5. first \o second \in Seq(ours) BY <2>3, <2>4, ConcatProperties
  <2> QED BY <2>5 DEF first, second
<1>11. level \in Seq(Shared) /\ Unique(level)
  <2> DEFINE shared == Chosen(own, InPath(own))
  <2>1. \A i \in DOMAIN own : i \in InPath(own) => own[i] \in Shared
    <3> TAKE i \in DOMAIN own
    <3>1. own[i] \in Placed BY <1>6, ElementOfSeq, LenProperties
    <3> HIDE DEF own
    <3> QED BY <3>1 DEF InPath, Shared
  <2> HIDE DEF own
  <2>2. shared \in Seq(Shared) BY <1>6, <2>1, ChosenRight
  <2> HIDE DEF shared
  <2>3. Item(at).level \in Seq(Shared) /\ Unique(Item(at).level) BY ItemRight
  <2> HIDE DEF at
  <2>4. AddAll(Item(at).level, shared) \in Seq(Shared) /\ Unique(AddAll(Item(at).level, shared))
    BY <2>2, <2>3, AddAllRight
  <2> QED BY <2>4 DEF shared
<1> HIDE DEF split, own, stubs, declared, undeclared, at, level, params, ours
<1>12. item = [level |-> level, ops |-> Item(at).ops]
  <2>1. Item(at) = [level |-> Item(at).level, ops |-> Item(at).ops] BY ItemRight
  <2> QED BY <2>1
<1>13. item.level = level /\ item.ops = Item(at).ops
       /\ item = [level |-> item.level, ops |-> item.ops]
  BY <1>12
<1> HIDE DEF item
<1>14. /\ DOMAIN doc' = DOMAIN doc \cup {at}
       /\ doc'[at] = item
       /\ \A a \in DOMAIN doc : a # at => doc'[a] = doc[a]
  BY <1>1
<1>15. \A a \in DOMAIN doc : doc'[a].ops = doc[a].ops
  BY <1>13, <1>14, ItemRight
<1>16. \A a \in DOMAIN doc' : a \notin DOMAIN doc => DOMAIN doc'[a].ops = {}
  BY <1>13, <1>14, ItemRight
<1>17. \A a \in DOMAIN doc' : doc'[a].level \in Seq(Shared) /\ Unique(doc'[a].level)
  BY <1>11, <1>13, <1>14 DEF DocParams
<1>18. TypeOK'
  <2>1. \A a \in DOMAIN doc' : /\ a # None
                               /\ doc'[a] = [level |-> doc'[a].level, ops |-> doc'[a].ops]
                               /\ DOMAIN doc'[a].ops \subseteq Slots
    BY <1>9, <1>13, <1>14, ItemRight DEF TypeOK
  <2>2. IsFiniteSet(DOMAIN doc')
    BY <1>14, FS_AddElement DEF TypeOK
  <2> QED BY <1>1, <1>3, <1>4, <2>1, <2>2 DEF TypeOK
<1>19. HooksInherited' BY <1>1 DEF HooksInherited
<1>20. /\ current'.at = at /\ current'.number = number /\ current'.params = params
       /\ current'.href = r.href
  BY <1>1
<1>21. InResource'
  <2>1. (Ctx.tag # None => Seen(Ctx.tag))' BY <1>2, <1>3
  <2>2. Scope' = Scope BY <1>2 DEF Scope, WantHooks
  <2> QED BY <1>4, <1>9, <1>14, <1>20, <2>1, <2>2 DEF InResource
<1>22. ResourceParams'
  <2>1. \A path, href, k : OfResource(path, href, k)' = OfResource(path, href, k) OBVIOUS
  <2>2. params \in Seq(OfResource(at[2], r.href, number)) BY <1>9, <1>10 DEF ours
  <2> QED BY <1>20, <2>1, <2>2 DEF ResourceParams
<1>23. DOMAIN doc \subseteq DOMAIN doc' BY <1>14
<1>24. diags \subseteq diags' /\ \A d \in diags' : d \in diags \/ d[1] \notin {"E005", "W005"} BY <1>1, Checked
<1> HIDE DEF number
<1> QED BY <1>1, <1>3, <1>4, <1>15, <1>16, <1>17, <1>18, <1>19, <1>21, <1>22, <1>23, <1>24, GrowsRight

\* The action as it is remembered.
TakenOf(a) ==
  [number |-> elements + 1, at |-> current.at, href |-> current.href,
   of |-> current.number, method |-> a.method,
   id |-> IF a.id # None THEN a.id ELSE a.title, group |-> Ctx.tag,
   within |-> {stack[i].tag : i \in DOMAIN stack}]

LEMMA SeqGrows ==
  ASSUME NEW S, NEW T, S \subseteq T, NEW q \in Seq(S)
  PROVE  q \in Seq(T)
<1>1. Len(q) \in Nat /\ DOMAIN q = 1..Len(q) /\ q = [i \in 1..Len(q) |-> q[i]] BY LenProperties
<1>2. \A i \in 1..Len(q) : q[i] \in T BY <1>1, ElementOfSeq
<1>3. q \in [1..Len(q) -> T] BY <1>1, <1>2
<1> QED BY <1>1, <1>3

\* What holds of an action when it is taken, and of those taken before.
LEMMA NewTaken ==
  ASSUME IInv, target' = target, NEW a \in Actions, TakeAction(a),
         UNCHANGED <<stack, order>>, diags \subseteq diags',
         current.at = None \/ a.method \in Slots \cup {None, "trace"}
           \/ <<"E001", elements + 1>> \in diags',
         NEW t, t = TakenOf(a)
  PROVE  /\ taken' = taken \cup {t}
         /\ t.number = elements + 1 /\ t.at = current.at /\ t.method = a.method
         /\ t.of = current.number /\ t.href = current.href
         /\ t.id = IF a.id # None THEN a.id ELSE a.title
         /\ \A u \in taken : u.number < t.number
         /\ AllTaken' /\ TakenOnce'
<1> USE DEF IInv
<1>1. /\ taken' = taken \cup {t} /\ elements' = elements + 1 /\ current # None
  BY DEF TakeAction, TakenOf, Take
<1>2. /\ t.number = elements + 1 /\ t.at = current.at /\ t.method = a.method
      /\ t.of = current.number /\ t.href = current.href
      /\ t.id = IF a.id # None THEN a.id ELSE a.title
      /\ t.group = Ctx.tag /\ t.within = {stack[i].tag : i \in DOMAIN stack}
  BY DEF TakenOf
<1>3. elements \in Nat BY DEF TypeOK
<1>4. \A u \in taken : u.number \in 1..elements BY DEF AllTaken, TakenRight
<1>5. \A u \in taken : u.number < t.number BY <1>2, <1>3, <1>4
<1>6. WantHooks' = WantHooks /\ \A g : Seen(g)' <=> Seen(g) BY DEF WantHooks, Seen
<1>7. \A u \in taken : TakenRight(u)'
  <2> TAKE u \in taken
  <2>1. TakenRight(u) BY DEF AllTaken
  <2>2. u.number \in 1..elements' BY <1>1, <1>3, <1>4
  <2> QED BY <1>6, <2>1, <2>2 DEF TakenRight
<1>8. TakenRight(t)'
  <2>1. t.number \in 1..elements' BY <1>1, <1>2, <1>3
  <2>2. t.group # None => Seen(t.group) BY <1>1, <1>2 DEF InResource
  <2>3. t.at = None => \/ <<"E002", t.of>> \in diags'
                       \/ SplitTemplate(t.href).query # <<>>
                       \/ t.href = <<>>
    BY <1>1, <1>2 DEF InResource
  <2>4. ASSUME t.at # None
        PROVE  t.at[1] = "webhooks" <=> WantHooks /\ t.within \cap Hooks # {}
    <3>1. t.at[1] = Scope BY <1>1, <1>2, <2>4 DEF InResource
    <3>2. Ctx.hook <=> \E j \in 1..Len(stack) : stack[j].tag \in Hooks
      <4>1. Len(stack) \in Nat \ {0} /\ DOMAIN stack = 1..Len(stack)
        BY CtxType, LenProperties DEF TypeOK
      <4> QED BY <4>1 DEF HooksInherited, Ctx
    <3>3. DOMAIN stack = 1..Len(stack) BY LenProperties DEF TypeOK
    <3>4. t.within \cap Hooks # {} <=> Ctx.hook BY <1>2, <3>2, <3>3
    <3> QED BY <3>1, <3>4 DEF Scope
  <2>5. t.at = None \/ t.method \in Slots \cup {None, "trace"} \/ <<"E001", t.number>> \in diags'
    BY <1>2
  <2> QED BY <1>6, <2>1, <2>2, <2>3, <2>4, <2>5 DEF TakenRight
<1>9. AllTaken' BY <1>1, <1>7, <1>8 DEF AllTaken
<1>10. TakenOnce' BY <1>1, <1>4, <1>5, <1>2, <1>3 DEF TakenOnce
<1> QED BY <1>1, <1>2, <1>5, <1>9, <1>10

\* What an operation had before the action is taken, it may have afterwards.
LEMMA ParamsKept ==
  ASSUME NEW t, taken' = taken \cup {t}, NEW path, NEW owner, NEW number,
         NEW params \in Seq(OfOperation(path, owner, number))
  PROVE  params \in Seq(OfOperation(path, owner, number)')
<1>1. \A name : AskedAgain(owner, name) => AskedAgain(owner, name)' BY DEF AskedAgain
<1>2. OfOperation(path, owner, number) \subseteq OfOperation(path, owner, number)'
  BY <1>1 DEF OfOperation
<1> QED BY <1>2, SeqGrows

\* An action without a slot leaves the document as it was.
LEMMA NotHeld ==
  ASSUME IInv, target' = target, NEW a \in Actions, TakeAction(a),
         UNCHANGED <<stack, order, current, over, doc>>, diags \subseteq diags',
         \A d \in diags' : d \in diags \/ d[1] \notin {"E005", "W005"},
         current.at = None \/ a.method \notin Slots,
         current.at = None \/ a.method \in Slots \cup {None, "trace"}
           \/ <<"E001", elements + 1>> \in diags'
  PROVE  IInv'
<1> USE DEF IInv
<1> DEFINE t == TakenOf(a)
<1>1. /\ taken' = taken \cup {t} /\ t.at = current.at /\ t.method = a.method
      /\ \A u \in taken : u.number < t.number
      /\ AllTaken' /\ TakenOnce'
  BY NewTaken
<1> HIDE DEF t
<1>2. ~over /\ elements' = elements + 1 /\ elements \in Nat BY DEF TakeAction, Take, TypeOK
<1>3. TypeOK' BY <1>2 DEF TypeOK
<1>4. HooksInherited' BY DEF HooksInherited
<1>5. InResource'
  <2>1. Ctx' = Ctx /\ Scope' = Scope BY DEF Ctx, Scope, WantHooks
  <2>2. \A g : Seen(g)' <=> Seen(g) BY DEF Seen
  <2>3. current # None => current.number \in 1..elements' BY <1>2 DEF InResource
  <2> QED BY <2>1, <2>2, <2>3 DEF InResource
<1>6. TakenHeld' BY <1>1 DEF TakenHeld
<1>7. DocHeld'
  <2> SUFFICES ASSUME NEW at \in DOMAIN doc, NEW m \in DOMAIN doc[at].ops
               PROVE  \E u \in taken' : u.at = at /\ u.method = m /\ Holds(doc[at].ops[m], u)'
    BY DEF DocHeld
  <2>1. PICK u \in taken : u.at = at /\ u.method = m /\ Holds(doc[at].ops[m], u) BY DEF DocHeld
  <2>2. at # None /\ m \in Slots BY DEF TypeOK
  <2>3. ~(t.at = at /\ t.method = m) BY <1>1, <2>2
  <2>4. Holds(doc[at].ops[m], u)' BY <1>1, <2>1, <2>3 DEF Holds
  <2> QED BY <1>1, <2>1, <2>4
<1>8. DocParams'
  <2>1. \A at \in DOMAIN doc : doc[at].level \in Seq(Shared) /\ Unique(doc[at].level) BY DEF DocParams
  <2>2. ASSUME NEW at \in DOMAIN doc, NEW m \in DOMAIN doc[at].ops, NEW op, op = doc[at].ops[m]
        PROVE  op.params \in Seq(OfOperation(at[2], op.owner, op.number)') /\ Unique(op.params)
    <3>1. op.params \in Seq(OfOperation(at[2], op.owner, op.number)) /\ Unique(op.params)
      BY <2>2 DEF DocParams
    <3> QED BY <1>1, <3>1, ParamsKept
  <2> QED BY <2>1, <2>2 DEF DocParams
<1>9. ResourceParams' BY DEF ResourceParams, OfResource
<1>10. DuplicatesCounted' BY <1>2 DEF DuplicatesCounted
<1> QED BY <1>1, <1>3, <1>4, <1>5, <1>6, <1>7, <1>8, <1>9, <1>10

LEMMA SkipActionIInv ==
  ASSUME IInv, target' = target, NEW a \in Actions, SkipAction(a)
  PROVE  IInv'
<1>1. \A d \in diags : d \in diags \/ d[1] \notin {"E005", "W005"} OBVIOUS
<1>2. /\ TakeAction(a) /\ current.at = None /\ UNCHANGED <<stack, order, current, over, doc>>
      /\ diags' = diags
  BY DEF SkipAction
<1> QED BY <1>1, <1>2, NotHeld

\* The parameters of an operation: its own and those of its resource.
LEMMA OperationRight ==
  ASSUME IInv, current # None, current.at # None, NEW a \in Actions,
         NEW t, taken' = taken \cup {t}, t.of = current.number, t.href = current.href,
         NEW path, path = current.at[2], NEW op, op = Operation(a)
  PROVE  /\ op.number = elements + 1 /\ op.id = IF a.id # None THEN a.id ELSE a.title
         /\ op.params \in Seq(OfOperation(path, op.owner, op.number)')
         /\ Unique(op.params)
<1> USE DEF IInv
<1> DEFINE number == op.number
           owner == op.owner
           headers == HeaderParams(a)
           own == [i \in DOMAIN a.params |-> Located(a.params[i], current.at[2], "query")]
           params == AddAll(<<>>, headers \o own \o current.params)
           id == IF a.id # None THEN a.id ELSE a.title
<1>1. op = [number |-> elements + 1, owner |-> current.number, id |-> id, tags |-> OpTags(a),
           params |-> params]
  BY DEF Operation
<1>3. a.headers \in Seq(Text) /\ a.params \in Seq(Declared) BY ActionsAssumption
<1> HIDE DEF params, id
<1>4. /\ number = elements + 1 /\ owner = current.number /\ op.id = id /\ op.params = params
  BY <1>1
<1>2. elements \in Nat /\ number \in Nat BY <1>4 DEF TypeOK
<1> DEFINE K(o, k) ==
             {p \in Placed :
                /\ p.place # "path" /\ p.owner \in {o, k}
                /\ (PathHas(path, p.name) /\ p.place = "query") =>
                     p.owner = k \/ AskedAgain(o, p.name)'}
<1>5. OfOperation(path, owner, number)' = K(owner, number) BY DEF OfOperation
<1> SUFFICES params \in Seq(K(owner, number)) /\ Unique(params)
  <2> HIDE DEF K
  <2> QED BY <1>4, <1>5 DEF id
<1>6. headers \in Seq(K(owner, number))
  <2>1. headers = [i \in DOMAIN a.headers |->
                     [name |-> a.headers[i], place |-> "header", owner |-> number]]
    BY <1>4 DEF HeaderParams
  <2>2. Len(a.headers) \in Nat /\ DOMAIN a.headers = 1..Len(a.headers) BY <1>3, LenProperties
  <2>3. \A i \in DOMAIN a.headers : a.headers[i] \in Text BY <1>3, <2>2, ElementOfSeq
  <2> HIDE DEF number, owner
  <2>4. \A x \in Text : [name |-> x, place |-> "header", owner |-> number] \in K(owner, number)
    BY <1>2 DEF Placed
  <2> HIDE DEF K
  <2>5. headers \in [1..Len(a.headers) -> K(owner, number)] BY <2>1, <2>2, <2>3, <2>4
  <2> QED BY <2>2, <2>5
<1>7. own \in Seq(K(owner, number))
  <2>1. Len(a.params) \in Nat /\ DOMAIN a.params = 1..Len(a.params) BY <1>3, LenProperties
  <2>2. \A i \in DOMAIN a.params : a.params[i] \in Declared BY <1>3, <2>1, ElementOfSeq
  <2>3. \A p \in Declared : Located(p, current.at[2], "query") \in K(owner, number)
    <3> TAKE p \in Declared
    <3> DEFINE l == Located(p, current.at[2], "query")
    <3>1. "query" \in {"path", "query"} OBVIOUS
    <3>2. l \in Placed /\ l.owner = number /\ l.place # "path"
      BY <1>2, <1>4, <3>1, LocatedRight
    <3> HIDE DEF l, number, owner
    <3>3. l \in K(owner, number) BY <3>2
    <3> QED BY <3>3 DEF l, number, owner
  <2> HIDE DEF K, number, owner
  <2>4. own \in [1..Len(a.params) -> K(owner, number)] BY <2>1, <2>2, <2>3
  <2> QED BY <2>1, <2>4
<1>8. current.params \in Seq(K(owner, number))
  <2>1. current.params \in Seq(OfResource(path, current.href, owner))
    BY <1>4 DEF ResourceParams
  <2>2. \A p \in OfResource(path, current.href, owner) : p \in K(owner, number)
    <3> TAKE p \in OfResource(path, current.href, owner)
    <3>1. /\ p \in Placed /\ p.place # "path" /\ p.owner = owner
          /\ (PathHas(path, p.name) /\ p.place = "query") => p.name \in Asked(t.href)
      BY DEF OfResource
    <3>2. p.name \in Asked(t.href) => AskedAgain(owner, p.name)'
      <4>1. t \in taken' /\ t.of = owner BY <1>4
      <4> QED BY <4>1 DEF AskedAgain
    <3> QED BY <3>1, <3>2
  <2> HIDE DEF K, number, owner
  <2> QED BY <2>1, <2>2, SeqGrows
<1> HIDE DEF K, number, owner, headers, own
<1>9. headers \o own \o current.params \in Seq(K(owner, number))
  <2>1. headers \o own \in Seq(K(owner, number)) BY <1>6, <1>7, ConcatProperties
  <2> QED BY <1>8, <2>1, ConcatProperties
<1>10. <<>> \in Seq(K(owner, number)) /\ Unique(<<>>)
  <2>1. DOMAIN <<>> = {} OBVIOUS
  <2> QED BY <2>1, EmptySeq DEF Unique
<1> QED BY <1>9, <1>10, AddAllRight DEF params

\* An action with a slot replaces what the slot held.
LEMMA HeldNow ==
  ASSUME IInv, target' = target, NEW a \in Actions, TakeAction(a),
         UNCHANGED <<stack, order, current, over, diags>>,
         current.at # None, a.method \in Slots,
         NEW ops, ops = Item(current.at).ops,
         NEW op, op = Operation(a),
         PutItem(current.at, [Item(current.at) EXCEPT
           !.ops = [m \in DOMAIN ops \cup {a.method} |-> IF m = a.method THEN op ELSE ops[m]]])
  PROVE  IInv'
<1> USE DEF IInv
<1> DEFINE t == TakenOf(a)
           at == current.at
           now == [m \in DOMAIN ops \cup {a.method} |-> IF m = a.method THEN op ELSE ops[m]]
<1>1. /\ taken' = taken \cup {t} /\ t.at = at /\ t.method = a.method
      /\ t.number = elements + 1 /\ t.of = current.number /\ t.href = current.href
      /\ t.id = IF a.id # None THEN a.id ELSE a.title
      /\ \A u \in taken : u.number < t.number
      /\ AllTaken' /\ TakenOnce'
  BY NewTaken
<1> HIDE DEF t
<1>2. /\ current # None /\ ~over /\ elements' = elements + 1 /\ elements \in Nat
  BY DEF TakeAction, Take, TypeOK
<1>3. at \in DOMAIN doc BY <1>2 DEF InResource
<1>4. /\ doc[at] = [level |-> doc[at].level, ops |-> ops]
      /\ Item(at) = doc[at] /\ DOMAIN ops \subseteq Slots /\ doc[at].ops = ops
  BY <1>3, ItemRight
<1>5. /\ DOMAIN now = DOMAIN ops \cup {a.method} /\ now[a.method] = op
      /\ \A m \in DOMAIN ops : m # a.method => now[m] = ops[m]
  OBVIOUS
<1>6. doc' = [x \in DOMAIN doc \cup {at} |-> IF x = at THEN [Item(at) EXCEPT !.ops = now] ELSE doc[x]]
  BY DEF PutItem
<1> HIDE DEF at, now
<1>7. [Item(at) EXCEPT !.ops = now] = [level |-> doc[at].level, ops |-> now] BY <1>4
<1> DEFINE level == doc[at].level
           item == [level |-> level, ops |-> now]
<1>8. item.level = level /\ item.ops = now /\ item = [level |-> item.level, ops |-> item.ops]
  <2> HIDE DEF level
  <2> QED OBVIOUS
<1>9. DOMAIN doc' = DOMAIN doc /\ doc'[at] = item /\ \A x \in DOMAIN doc : x # at => doc'[x] = doc[x]
  BY <1>3, <1>6, <1>7
<1> HIDE DEF item
<1>10. /\ DOMAIN doc' = DOMAIN doc
       /\ \A x \in DOMAIN doc : doc'[x].level = doc[x].level
       /\ \A x \in DOMAIN doc : x # at => doc'[x].ops = doc[x].ops
       /\ doc'[at].ops = now
  BY <1>8, <1>9
<1>11. TypeOK'
  <2>1. \A x \in DOMAIN doc' : /\ x # None
                               /\ doc'[x] = [level |-> doc'[x].level, ops |-> doc'[x].ops]
                               /\ DOMAIN doc'[x].ops \subseteq Slots
    BY <1>4, <1>5, <1>8, <1>9 DEF TypeOK
  <2> QED BY <1>2, <1>10, <2>1 DEF TypeOK
<1>12. HooksInherited' BY DEF HooksInherited
<1>13. InResource'
  <2>1. Ctx' = Ctx /\ Scope' = Scope BY DEF Ctx, Scope, WantHooks
  <2>2. \A g : Seen(g)' <=> Seen(g) BY DEF Seen
  <2>3. current.number \in 1..elements' BY <1>2 DEF InResource
  <2> QED BY <1>10, <2>1, <2>2, <2>3 DEF InResource
<1>14. TakenHeld'
  <2> SUFFICES ASSUME NEW u \in taken', u.at # None, u.method \in Slots
               PROVE  u.at \in DOMAIN doc' /\ u.method \in DOMAIN doc'[u.at].ops
    BY DEF TakenHeld
  <2>1. CASE u = t BY <1>1, <1>3, <1>5, <1>10, <2>1
  <2>2. CASE u \in taken
    <3>1. u.at \in DOMAIN doc /\ u.method \in DOMAIN doc[u.at].ops BY <2>2 DEF TakenHeld
    <3> QED BY <1>4, <1>5, <1>10, <3>1
  <2> QED BY <1>1, <2>1, <2>2
<1>15. op.number = elements + 1 /\ (op.id = IF a.id # None THEN a.id ELSE a.title) /\ Unique(op.params)
       /\ op.params \in Seq(OfOperation(at[2], op.owner, op.number)')
  <2>1. \A path : path = at[2] =>
          /\ op.number = elements + 1 /\ (op.id = IF a.id # None THEN a.id ELSE a.title)
          /\ Unique(op.params)
          /\ op.params \in Seq(OfOperation(path, op.owner, op.number)')
    BY <1>1, <1>2, OperationRight DEF at
  <2>2. at' = at BY DEF at
  <2> QED BY <2>1, <2>2
<1>16. DocHeld'
  <2> SUFFICES ASSUME NEW x \in DOMAIN doc', NEW m \in DOMAIN doc'[x].ops,
                      NEW o, o = doc'[x].ops[m]
               PROVE  \E u \in taken' : u.at = x /\ u.method = m /\ Holds(o, u)'
    BY DEF DocHeld
  <2>1. CASE x = at /\ m = a.method
    <3>1. o = op BY <1>5, <1>10, <2>1
    <3>2. \A u \in taken' : u.number <= t.number
      <4>1. \A u \in taken : u.number \in 1..elements BY DEF AllTaken, TakenRight
      <4>2. \A u \in taken : u.number \in Nat BY <1>2, <4>1
      <4>3. t.number \in Nat BY <1>1, <1>2
      <4> QED BY <1>1, <4>2, <4>3
    <3>3. t.number = o.number /\ t.id = o.id BY <1>1, <1>15, <3>1
    <3>4. t \in taken' /\ t.at = x /\ t.method = m BY <1>1, <2>1
    <3>5. PICK u \in taken' : /\ u.number = o.number /\ u.id = o.id /\ u.at = x /\ u.method = m
                              /\ \A v \in taken' : v.number <= u.number
      BY <3>2, <3>3, <3>4
    <3>6. Holds(o, u)' BY <3>5 DEF Holds
    <3> QED BY <3>5, <3>6
  <2>2. CASE ~(x = at /\ m = a.method)
    <3>1. x \in DOMAIN doc /\ m \in DOMAIN doc[x].ops /\ o = doc[x].ops[m]
      BY <1>4, <1>5, <1>10, <2>2
    <3>2. PICK u \in taken : u.at = x /\ u.method = m /\ Holds(o, u)
      BY <3>1 DEF DocHeld
    <3>3. Holds(o, u)' BY <1>1, <2>2, <3>2 DEF Holds
    <3> QED BY <1>1, <3>2, <3>3
  <2> QED BY <2>1, <2>2
<1>17. DocParams'
  <2>1. \A x \in DOMAIN doc' : doc'[x].level \in Seq(Shared) /\ Unique(doc'[x].level)
    BY <1>10 DEF DocParams
  <2>2. ASSUME NEW x \in DOMAIN doc', NEW m \in DOMAIN doc'[x].ops, NEW o, o = doc'[x].ops[m]
        PROVE  o.params \in Seq(OfOperation(x[2], o.owner, o.number)') /\ Unique(o.params)
    <3>1. CASE x = at /\ m = a.method
      <4>1. o = op BY <1>5, <1>10, <2>2, <3>1
      <4>2. at' = at BY DEF at
      <4> QED BY <1>15, <3>1, <4>1, <4>2
    <3>2. CASE ~(x = at /\ m = a.method)
      <4>1. x \in DOMAIN doc /\ m \in DOMAIN doc[x].ops /\ o = doc[x].ops[m]
        BY <1>4, <1>5, <1>10, <2>2, <3>2
      <4>2. o.params \in Seq(OfOperation(x[2], o.owner, o.number)) /\ Unique(o.params)
        BY <4>1 DEF DocParams
      <4>3. \E y : taken' = taken \cup {y} BY <1>1
      <4> QED BY <4>2, <4>3, ParamsKept
    <3> QED BY <3>1, <3>2
  <2> QED BY <2>1, <2>2 DEF DocParams
<1>18. ResourceParams' BY DEF ResourceParams, OfResource
<1>19. DuplicatesCounted' BY <1>2 DEF DuplicatesCounted
<1> QED BY <1>1, <1>11, <1>12, <1>13, <1>14, <1>16, <1>17, <1>18, <1>19

LEMMA AddActionIInv ==
  ASSUME IInv, target' = target, NEW a \in Actions, AddAction(a)
  PROVE  IInv'
<1>1. /\ TakeAction(a) /\ current.at # None /\ UNCHANGED <<stack, order, current, over>>
      /\ diags' = IF a.method # None /\ a.method \notin Accepted
                  THEN diags \cup {<<"E001", elements + 1>>} ELSE diags
  BY DEF AddAction
<1>2. Accepted \subseteq Slots \cup {"trace"} /\ Slots \subseteq Accepted BY DEF Accepted, Slots
<1>3. CASE a.method \in Slots
  <2>1. diags' = diags BY <1>1, <1>2, <1>3
  <2>2. ASSUME NEW ops, ops = Item(current.at).ops, NEW op, op = Operation(a) PROVE IInv'
    <3>1. PutItem(current.at, [Item(current.at) EXCEPT
            !.ops = [m \in DOMAIN ops \cup {a.method} |-> IF m = a.method THEN op ELSE ops[m]]])
      BY <1>3, <2>2 DEF AddAction
    <3> QED BY <1>1, <1>3, <2>1, <2>2, <3>1, HeldNow
  <2> QED BY <2>2
<1>4. CASE a.method \notin Slots
  <2>1. doc' = doc BY <1>4 DEF AddAction
  <2>2. <<"E001", elements + 1>>[1] \notin {"E005", "W005"} OBVIOUS
  <2>3. diags \subseteq diags' /\ \A d \in diags' : d \in diags \/ d[1] \notin {"E005", "W005"} BY <1>1, <2>2
  <2>4. a.method \in Slots \cup {None, "trace"} \/ <<"E001", elements + 1>> \in diags' BY <1>1, <1>2
  <2> QED BY <1>1, <1>4, <2>1, <2>3, <2>4, NotHeld
<1> QED BY <1>3, <1>4

LEMMA LeaveResourceIInv ==
  ASSUME IInv, target' = target, LeaveResource
  PROVE  IInv'
<1> USE DEF IInv
<1>1. current' = None /\ UNCHANGED <<stack, doc, order, elements, over, taken>> BY DEF LeaveResource
<1>2. diags \subseteq diags' /\ \A d \in diags' : d \in diags \/ d[1] \notin {"E005", "W005"}
  <2>1. diags' = diags \/ diags' = diags \cup {<<"W006", current.number>>} BY DEF LeaveResource
  <2>2. <<"W006", current.number>>[1] \notin {"E005", "W005"} OBVIOUS
  <2> QED BY <2>1, <2>2
<1>3. TypeOK' BY <1>1 DEF TypeOK
<1>4. HooksInherited' BY <1>1 DEF HooksInherited
<1>5. InResource' /\ ResourceParams' BY <1>1 DEF InResource, ResourceParams
<1>6. elements' \in Nat /\ elements <= elements' BY <1>1 DEF TypeOK
<1>7. \A g : Seen(g) => Seen(g)' BY <1>1 DEF Seen
<1> QED BY <1>1, <1>2, <1>3, <1>4, <1>5, <1>6, <1>7, StillRight

LEMMA FinishIInv ==
  ASSUME IInv, target' = target, Finish
  PROVE  IInv'
<1> USE DEF IInv
<1> DEFINE ids == {id \in {t.id : t \in taken} \ {None} : Cardinality(Sites(id)) > 1}
<1>1. /\ ~over /\ over' = TRUE /\ current = None
      /\ diags' = diags \cup {<<"E005", id>> : id \in ids}
      /\ UNCHANGED <<stack, current, doc, order, elements, taken>>
  BY DEF Finish
<1>2. TypeOK' BY <1>1 DEF TypeOK
<1>3. HooksInherited' BY <1>1 DEF HooksInherited
<1>4. InResource' /\ ResourceParams' BY <1>1 DEF InResource, ResourceParams
<1>5. WantHooks' = WantHooks /\ \A g : Seen(g)' <=> Seen(g) BY <1>1 DEF WantHooks, Seen
<1>6. \A t \in taken : TakenRight(t)'
  <2> TAKE t \in taken
  <2>1. TakenRight(t) BY DEF AllTaken
  <2> QED BY <1>1, <1>5, <2>1 DEF TakenRight
<1>7. AllTaken' BY <1>1, <1>6 DEF AllTaken
<1>8. TakenOnce' /\ TakenHeld' BY <1>1 DEF TakenOnce, TakenHeld
<1>9. \A op, t : Holds(op, t)' <=> Holds(op, t) BY <1>1 DEF Holds
<1>10. DocHeld' BY <1>1, <1>9 DEF DocHeld
<1>11. \A path, owner, number : OfOperation(path, owner, number)' = OfOperation(path, owner, number)
  BY <1>1 DEF OfOperation, AskedAgain
<1>12. DocParams' BY <1>1, <1>11 DEF DocParams
<1>13. \A id : Sites(id)' = Sites(id) BY <1>1 DEF Sites
<1>14. \A id : ReportedTwice(id)' <=> id \in ids
  <2>1. \A c, id : <<c, id>>[1] = c /\ <<c, id>>[2] = id OBVIOUS
  <2>2. \A id : ~ReportedTwice(id) BY <1>1, <2>1 DEF DuplicatesCounted, ReportedTwice
  <2> HIDE DEF ids
  <2> QED BY <1>1, <2>1, <2>2 DEF ReportedTwice
<1>15. DuplicatesCounted' BY <1>1, <1>13, <1>14 DEF DuplicatesCounted
<1> QED BY <1>2, <1>3, <1>4, <1>7, <1>8, <1>10, <1>12, <1>15

-----------------------------------------------------------------------------

LEMMA InitIInv == Init => IInv
<1> SUFFICES ASSUME Init PROVE IInv OBVIOUS
<1> USE DEF Init
<1>1. stack \in Seq(Level) /\ stack # <<>> /\ DOMAIN stack = 1..1 /\ stack[1].tag = None /\ stack[1].hook = FALSE
  <2>1. Root \in Level BY DEF Root, Level
  <2>2. Root.tag = None /\ Root.hook = FALSE BY DEF Root
  <2> QED BY <2>1, <2>2
<1>2. DOMAIN doc = {} /\ DOMAIN order = {} OBVIOUS
<1>3. TypeOK
  <2>1. order \in Seq(Groups \cup {None}) BY EmptySeq
  <2>2. IsFiniteSet(DOMAIN doc) BY <1>2, FS_EmptySet
  <2> QED BY <1>1, <1>2, <2>1, <2>2 DEF TypeOK
<1>4. HooksInherited BY <1>1, NoneAssumption DEF HooksInherited
<1>5. InResource /\ ResourceParams BY DEF InResource, ResourceParams
<1>6. AllTaken /\ TakenOnce /\ TakenHeld BY DEF AllTaken, TakenOnce, TakenHeld
<1>7. DocHeld /\ DocParams BY <1>2 DEF DocHeld, DocParams
<1>8. DuplicatesCounted BY DEF DuplicatesCounted
<1> QED BY <1>3, <1>4, <1>5, <1>6, <1>7, <1>8 DEF IInv

LEMMA StepIInv == IInv /\ [Next]_vars => IInv'
<1> SUFFICES ASSUME IInv, [Next]_vars PROVE IInv' OBVIOUS
<1>1. ASSUME UNCHANGED vars PROVE IInv'
  <2>1. UNCHANGED <<target, stack, current, doc, order, parents, diags, elements, over, taken>>
    BY <1>1 DEF vars, walkVars
  <2>2. \A d \in diags : d \in diags \/ d[1] \notin {"E005", "W005"} OBVIOUS
  <2>3. elements' \in Nat /\ elements <= elements' BY <2>1 DEF IInv, TypeOK
  <2>4. \A g : Seen(g) => Seen(g)' BY <2>1 DEF Seen
  <2>5. TypeOK' /\ HooksInherited' BY <2>1 DEF IInv, TypeOK, HooksInherited
  <2>6. InResource'
    <3>1. Ctx' = Ctx /\ Scope' = Scope BY <2>1 DEF Ctx, Scope, WantHooks
    <3>2. \A g : Seen(g)' <=> Seen(g) BY <2>1 DEF Seen
    <3> QED BY <2>1, <3>1, <3>2 DEF IInv, InResource
  <2>7. ResourceParams' BY <2>1 DEF IInv, ResourceParams, OfResource
  <2> QED BY <2>1, <2>2, <2>3, <2>4, <2>5, <2>6, <2>7, StillRight DEF IInv
<1>2. ASSUME Next PROVE IInv'
  <2>1. target' = target BY <1>2 DEF Next
  <2>2. CASE \E title \in Groups \cup {None} : EnterCategory(title) BY <2>1, <2>2, EnterCategoryIInv
  <2>3. CASE LeaveCategory BY <2>1, <2>3, LeaveCategoryIInv
  <2>4. CASE \E r \in Resources : SkipResource(r) \/ EnterResource(r)
    BY <2>1, <2>4, SkipResourceIInv, EnterResourceIInv
  <2>5. CASE \E a \in Actions : SkipAction(a) \/ AddAction(a)
    BY <2>1, <2>5, SkipActionIInv, AddActionIInv
  <2>6. CASE LeaveResource BY <2>1, <2>6, LeaveResourceIInv
  <2>7. CASE Finish BY <2>1, <2>7, FinishIInv
  <2>8. CASE Done BY <1>1, <2>8 DEF Done
  <2> QED BY <1>2, <2>2, <2>3, <2>4, <2>5, <2>6, <2>7, <2>8 DEF Next
<1> QED BY <1>1, <1>2

\* The inductive invariant, from which the properties follow.
THEOREM Invariance == Spec => []IInv
<1>1. Init => IInv BY InitIInv
<1>2. IInv /\ [Next]_vars => IInv' BY StepIInv
<1> QED BY <1>1, <1>2, PTL DEF Spec

\* GroupsObeyed: an action is under doc.Webhooks exactly when a webhook group is
\* around it and the target has webhooks, and its group is a tag
\* (src/internal/convert/convert.go, walkResources and addResource).
THEOREM GroupsObeyedAlways == Spec => []GroupsObeyed
<1>1. IInv => GroupsObeyed BY DEF IInv, AllTaken, TakenRight, GroupsObeyed
<1> QED BY <1>1, Invariance, PTL

\* NoActionLost: each slot of the document holds the last action written for it,
\* and what has no slot, or no path, was reported, or is one of the exceptions
\* that the property names, for documents of any length.
THEOREM NoActionLostAlways == Spec => []NoActionLost
<1>1. ASSUME IInv PROVE NoActionLost
  <2> USE <1>1 DEF IInv
  <2>1. ASSUME NEW at \in DOMAIN doc \cup ({t.at : t \in taken} \ {None}), NEW m \in Slots
        PROVE  LET putThere == {t \in taken : t.at = at /\ t.method = m}
                   held == IF at \in DOMAIN doc THEN DOMAIN doc[at].ops ELSE {}
               IN  IF putThere = {} THEN m \notin held
                   ELSE m \in held /\ doc[at].ops[m].number = (CHOOSE t \in putThere :
                                         \A u \in putThere : u.number <= t.number).number
    <3> DEFINE putThere == {t \in taken : t.at = at /\ t.method = m}
               held == IF at \in DOMAIN doc THEN DOMAIN doc[at].ops ELSE {}
               Last(t) == \A u \in putThere : u.number <= t.number
    <3>1. at # None BY DEF TypeOK
    <3>2. ASSUME m \in held
          PROVE  \E t \in putThere : Last(t) /\ t.number = doc[at].ops[m].number
      <4>1. at \in DOMAIN doc /\ m \in DOMAIN doc[at].ops BY <3>2
      <4>2. PICK t \in taken : t.at = at /\ t.method = m /\ Holds(doc[at].ops[m], t)
        BY <4>1 DEF DocHeld
      <4> QED BY <4>2 DEF Holds
    <3>3. CASE putThere = {} BY <3>2, <3>3
    <3>4. CASE putThere # {}
      <4>1. m \in held BY <3>1, <3>4 DEF TakenHeld
      <4>2. PICK t \in putThere : Last(t) /\ t.number = doc[at].ops[m].number BY <3>2, <4>1
      <4> DEFINE last == CHOOSE w \in putThere : Last(w)
      <4>3. last \in putThere /\ Last(last) BY <4>2
      <4> HIDE DEF last
      <4>4. t.number <= last.number /\ last.number <= t.number
        <5> HIDE DEF putThere
        <5> QED BY <4>2, <4>3
      <4>5. t.number \in Nat /\ last.number \in Nat
        <5>1. t.number \in 1..elements /\ last.number \in 1..elements /\ elements \in Nat
          BY <4>3 DEF AllTaken, TakenRight, TypeOK
        <5> QED BY <5>1
      <4>6. last.number = doc[at].ops[m].number
        <5>1. t.number = last.number BY <4>4, <4>5
        <5> QED BY <4>2, <5>1
      <4> QED BY <3>4, <4>1, <4>6 DEF last
    <3> QED BY <3>3, <3>4
  <2>2. \A t \in taken : TakenRight(t) BY DEF AllTaken
  <2> QED BY <2>1, <2>2 DEF NoActionLost, TakenRight
<1> QED BY <1>1, Invariance, PTL

\* ParamsStayHome: only path parameters are shared through a path item; any other
\* one is of the resource that declared it or of the action.
THEOREM ParamsStayHomeAlways == Spec => []ParamsStayHome
<1>1. ASSUME IInv PROVE ParamsStayHome
  <2> USE <1>1 DEF IInv
  <2>1. ASSUME NEW at \in DOMAIN doc, NEW i \in DOMAIN doc[at].level
        PROVE  doc[at].level[i].place = "path"
    <3>1. doc[at].level \in Seq(Shared) BY DEF DocParams
    <3>2. doc[at].level[i] \in Shared BY <3>1, ElementOfSeq, LenProperties
    <3> QED BY <3>2 DEF Shared
  <2>2. ASSUME NEW at \in DOMAIN doc, NEW m \in DOMAIN doc[at].ops,
               NEW op, op = doc[at].ops[m], NEW i \in DOMAIN op.params
        PROVE  LET p == op.params[i]
               IN  /\ p.owner \in {op.owner, op.number}
                   /\ PathHas(at[2], p.name) /\ p.place = "query" =>
                        \/ p.owner = op.number
                        \/ \E t \in taken : t.of = op.owner /\ p.name \in Asked(t.href)
    <3>1. op.params \in Seq(OfOperation(at[2], op.owner, op.number)) BY <2>2 DEF DocParams
    <3>2. op.params[i] \in OfOperation(at[2], op.owner, op.number) BY <3>1, ElementOfSeq, LenProperties
    <3> QED BY <3>2 DEF OfOperation, AskedAgain
  <2> QED BY <2>1, <2>2 DEF ParamsStayHome
<1> QED BY <1>1, Invariance, PTL

\* ParamsUnique: no operation has two parameters of one name in one place, those
\* of its path included.
THEOREM ParamsUniqueAlways == Spec => []ParamsUnique
<1>1. ASSUME IInv PROVE ParamsUnique
  <2> USE <1>1 DEF IInv
  <2> SUFFICES ASSUME NEW at \in DOMAIN doc, NEW m \in DOMAIN doc[at].ops
               PROVE  Unique(doc[at].ops[m].params \o doc[at].level)
    BY DEF ParamsUnique, Unique
  <2> DEFINE own == doc[at].ops[m].params
             shared == doc[at].level
             o == Len(own)
             s == Len(shared)
  <2>1. /\ own \in Seq(OfOperation(at[2], doc[at].ops[m].owner, doc[at].ops[m].number))
        /\ shared \in Seq(Shared) /\ Unique(own) /\ Unique(shared)
    BY DEF DocParams
  <2>2. /\ own \in Seq(Placed) /\ \A i \in DOMAIN own : own[i].place # "path"
        /\ shared \in Seq(Placed) /\ \A i \in DOMAIN shared : shared[i].place = "path"
    <3>1. \A i \in DOMAIN own :
            own[i] \in OfOperation(at[2], doc[at].ops[m].owner, doc[at].ops[m].number)
      BY <2>1, ElementOfSeq, LenProperties
    <3>2. \A i \in DOMAIN shared : shared[i] \in Shared BY <2>1, ElementOfSeq, LenProperties
    <3>3. OfOperation(at[2], doc[at].ops[m].owner, doc[at].ops[m].number) \subseteq Placed
      BY DEF OfOperation
    <3>4. Shared \subseteq Placed BY DEF Shared
    <3> HIDE DEF own, shared
    <3> QED BY <2>1, <3>1, <3>2, <3>3, <3>4, SeqGrows DEF OfOperation, Shared
  <2> HIDE DEF own, shared
  <2>3. o \in Nat /\ s \in Nat /\ DOMAIN own = 1..o /\ DOMAIN shared = 1..s BY <2>2, LenProperties
  <2> DEFINE all == own \o shared
  <2>4. /\ all \in Seq(Placed) /\ Len(all) = o + s
        /\ \A i \in 1..(o + s) : all[i] = IF i <= o THEN own[i] ELSE shared[i - o]
    BY <2>2, ConcatProperties
  <2>5. DOMAIN all = 1..(o + s) BY <2>4, LenProperties
  <2> HIDE DEF all, o, s
  <2>6. ASSUME NEW i \in DOMAIN all, NEW k \in DOMAIN all,
               all[i].name = all[k].name, all[i].place = all[k].place
        PROVE  i = k
    <3>1. CASE i <= o /\ k <= o
      <4>1. i \in DOMAIN own /\ k \in DOMAIN own /\ all[i] = own[i] /\ all[k] = own[k]
        BY <2>3, <2>4, <2>5, <3>1
      <4> QED BY <2>1, <2>6, <4>1 DEF Unique
    <3>2. CASE ~(i <= o) /\ ~(k <= o)
      <4>1. /\ i - o \in DOMAIN shared /\ k - o \in DOMAIN shared
            /\ all[i] = shared[i - o] /\ all[k] = shared[k - o]
        BY <2>3, <2>4, <2>5, <3>2
      <4>2. i - o = k - o BY <2>1, <2>6, <4>1 DEF Unique
      <4> QED BY <2>3, <2>5, <4>2
    <3>3. CASE i <= o /\ ~(k <= o)
      <4>1. i \in DOMAIN own /\ k - o \in DOMAIN shared /\ all[i] = own[i] /\ all[k] = shared[k - o]
        BY <2>3, <2>4, <2>5, <3>3
      <4> QED BY <2>2, <2>6, <4>1
    <3>4. CASE ~(i <= o) /\ k <= o
      <4>1. i - o \in DOMAIN shared /\ k \in DOMAIN own /\ all[i] = shared[i - o] /\ all[k] = own[k]
        BY <2>3, <2>4, <2>5, <3>4
      <4> QED BY <2>2, <2>6, <4>1
    <3> QED BY <3>1, <3>2, <3>3, <3>4
  <2>7. Unique(all) BY <2>6 DEF Unique
  <2> QED BY <2>7 DEF all, own, shared
<1> QED BY <1>1, Invariance, PTL

\* More than one element is two of them.
LEMMA TwoOrMore ==
  ASSUME NEW S, IsFiniteSet(S)
  PROVE  Cardinality(S) > 1 <=> \E x, y \in S : x # y
<1>1. Cardinality(S) \in Nat BY FS_CardinalityType
<1>2. (Cardinality(S) = 0 <=> S = {}) /\ (Cardinality(S) = 1 <=> \E x : S = {x})
  BY FS_EmptySet, FS_Singleton
<1>3. ASSUME Cardinality(S) > 1 PROVE \E x, y \in S : x # y
  <2>0. Cardinality(S) # 0 /\ Cardinality(S) # 1 BY <1>1, <1>3
  <2>1. S # {} /\ ~\E x : S = {x} BY <1>2, <2>0, Zenon
  <2>2. PICK x \in S : TRUE BY <2>1
  <2>3. S # {x} BY <2>1
  <2> QED BY <2>2, <2>3
<1>4. ASSUME NEW x \in S, NEW y \in S, x # y PROVE Cardinality(S) > 1
  <2>1. Cardinality(S) # 0 /\ Cardinality(S) # 1 BY <1>2, <1>4
  <2> QED BY <1>1, <2>1
<1> QED BY <1>3, <1>4

\* DuplicatesReported: the ids reported as duplicates, under whichever code, are
\* exactly those that two of the operations that stayed have
\* (src/internal/convert/convert.go, checkDuplicateOperationIDs).
THEOREM DuplicatesReportedAlways == Spec => []DuplicatesReported
<1>1. ASSUME IInv PROVE DuplicatesReported
  <2> USE <1>1 DEF IInv
  <2> DEFINE Stays(t) == \A u \in taken : u.at = t.at /\ u.method = t.method => u.number <= t.number
             final == {t \in taken : t.at # None /\ t.method \in Slots /\ Stays(t)}
  <2> SUFFICES ASSUME over, NEW id \in {t.id : t \in taken} \ {None}
               PROVE  ReportedTwice(id) <=> \E t, u \in final : t # u /\ t.id = id /\ u.id = id
    BY DEF DuplicatesReported
  <2>1. ReportedTwice(id) <=> Cardinality(Sites(id)) > 1 BY DEF DuplicatesCounted
  <2>2. IsFiniteSet(Sites(id))
    <3>1. IsFiniteSet(Slots)
      <4>1. Slots = (((((({} \cup {"get"}) \cup {"put"}) \cup {"post"}) \cup {"delete"})
                      \cup {"patch"}) \cup {"options"}) \cup {"head"}
        BY DEF Slots
      <4> QED BY <4>1, FS_EmptySet, FS_AddElement
    <3>2. IsFiniteSet((DOMAIN doc) \X Slots) BY <3>1, FS_Product DEF TypeOK
    <3>3. Sites(id) \in SUBSET ((DOMAIN doc) \X Slots) BY DEF Sites
    <3> QED BY <3>2, <3>3, FS_Subset
  <2>3. \A u \in taken : u.number \in Nat
    <3>1. \A u \in taken : u.number \in 1..elements /\ elements \in Nat
      BY DEF AllTaken, TakenRight, TypeOK
    <3> QED BY <3>1
  <2>4. ASSUME NEW t \in final, t.id = id PROVE <<t.at, t.method>> \in Sites(id)
    <3>1. t.at \in DOMAIN doc /\ t.method \in DOMAIN doc[t.at].ops BY DEF TakenHeld
    <3>2. PICK u \in taken : u.at = t.at /\ u.method = t.method /\ Holds(doc[t.at].ops[t.method], u)
      BY <3>1 DEF DocHeld
    <3>3. t.number <= u.number /\ u.number <= t.number BY <3>2 DEF Holds
    <3>4. u = t BY <2>3, <3>2, <3>3 DEF TakenOnce
    <3>5. doc[t.at].ops[t.method].id = id BY <2>4, <3>2, <3>4 DEF Holds
    <3> QED BY <3>1, <3>5 DEF Sites
  <2>5. ASSUME NEW s \in Sites(id)
        PROVE  \E t \in final : t.id = id /\ t.at = s[1] /\ t.method = s[2]
    <3>1. /\ s = <<s[1], s[2]>> /\ s[1] \in DOMAIN doc /\ s[2] \in Slots
          /\ s[2] \in DOMAIN doc[s[1]].ops /\ doc[s[1]].ops[s[2]].id = id
      BY DEF Sites
    <3>2. PICK t \in taken : t.at = s[1] /\ t.method = s[2] /\ Holds(doc[s[1]].ops[s[2]], t)
      BY <3>1 DEF DocHeld
    <3>3. t.at # None BY <3>1, <3>2 DEF TypeOK
    <3> QED BY <3>1, <3>2, <3>3 DEF Holds
  <2>6. ASSUME NEW t \in final, NEW u \in final, t # u, t.id = id, u.id = id
        PROVE  \E x, y \in Sites(id) : x # y
    <3>1. <<t.at, t.method>> \in Sites(id) /\ <<u.at, u.method>> \in Sites(id) BY <2>4, <2>6
    <3>2. <<t.at, t.method>> # <<u.at, u.method>>
      <4> SUFFICES ASSUME t.at = u.at, t.method = u.method PROVE FALSE OBVIOUS
      <4>1. t.number <= u.number /\ u.number <= t.number OBVIOUS
      <4>2. t.number = u.number BY <2>3, <4>1
      <4> QED BY <2>6, <4>2 DEF TakenOnce
    <3> QED BY <3>1, <3>2
  <2>7. ASSUME NEW x \in Sites(id), NEW y \in Sites(id), x # y
        PROVE  \E t, u \in final : t # u /\ t.id = id /\ u.id = id
    <3>1. PICK t \in final : t.id = id /\ t.at = x[1] /\ t.method = x[2] BY <2>5
    <3>2. PICK u \in final : u.id = id /\ u.at = y[1] /\ u.method = y[2] BY <2>5
    <3>3. x = <<x[1], x[2]>> /\ y = <<y[1], y[2]>> BY DEF Sites
    <3>4. t # u BY <2>7, <3>1, <3>2, <3>3
    <3> QED BY <3>1, <3>2, <3>4
  <2> HIDE DEF final
  <2> QED BY <2>1, <2>2, <2>6, <2>7, TwoOrMore
<1> QED BY <1>1, Invariance, PTL
=============================================================================
