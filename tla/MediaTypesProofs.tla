-------------------------- MODULE MediaTypesProofs --------------------------
(***************************************************************************)
(* For any content types, statuses, titles and bodies, and any number of     *)
(* payloads: what the media types of an action show, and what its responses *)
(* say.                                                                     *)
(***************************************************************************)
EXTENDS MediaTypes, FiniteSetTheorems, WellFoundedInduction, TLAPS

\* The keys of examples are <<name, i>>; a value is there once.
Shows(mt, bodies) ==
  /\ mt = [schema |-> mt.schema, example |-> mt.example, examples |-> mt.examples]
  /\ IsFiniteSet(DOMAIN mt.examples)
  /\ {mt.examples[n] : n \in DOMAIN mt.examples} \cup ({mt.example} \ {Nothing}) = bodies
  /\ \A m, n \in DOMAIN mt.examples : mt.examples[m] = mt.examples[n] => m = n
  /\ mt.example = Nothing \/ DOMAIN mt.examples = {}

TypeOK ==
  /\ split \in BOOLEAN
  /\ counts \in [Keys -> Nat]
  /\ IsFiniteSet(given)

\* What came is of a media type that there is, and was counted.
GivenKnown == \A g \in given : g.key \in DOMAIN media

CountsTell == \A k \in Keys : counts[k] = 0 => Given(k) = {}

AllShown == \A k \in DOMAIN media : Shows(media[k], Given(k))

SchemasFit ==
  \A k \in DOMAIN media :
    /\ Given(k) # {} => media[k].schema # Nothing
    /\ media[k].schema = "inferred" =>
         \E g \in given : g.key = k /\ g.body # Nothing /\ g.schema = Nothing

\* What was told is of a response that there is, and described it.
ResponsesTold == \A d \in told : d[1] \in DOMAIN resp

IInv ==
  /\ TypeOK /\ GivenKnown /\ CountsTell /\ AllShown /\ SchemasFit
  /\ ResponsesTold /\ DescribedByAuthor

-----------------------------------------------------------------------------
(* Names and sizes.                                                          *)

LEMMA LeastNatural ==
  ASSUME NEW T, T \subseteq Nat, T # {}
  PROVE  \E n \in T : \A m \in T : n <= m
<1>1. IsWellFoundedOn(OpToRel(<, Nat), Nat) BY NatLessThanWellFounded
<1>2. PICK n \in T : \A m \in Nat : <<m, n>> \in OpToRel(<, Nat) => m \notin T
  BY <1>1, WFMin
<1>3. \A m \in T : ~(m < n) BY <1>2 DEF OpToRel
<1>4. \A m \in T : n <= m BY <1>3
<1> QED BY <1>4

\* A name that is not in use is found as long as there are no more than
\* MaxPayloads of them.
LEMMA FreshName ==
  ASSUME NEW used, IsFiniteSet(used), Cardinality(used) <= MaxPayloads, NEW name
  PROVE  UniqueName(used, name) \notin used
<1> DEFINE N == MaxPayloads + 1
           free == {i \in 1..N : <<name, i>> \notin used}
           f == [i \in 1..N |-> <<name, i>>]
           Least(i) == \A j \in free : i <= j
           i == CHOOSE i \in free : Least(i)
<1>1. MaxPayloads \in Nat BY BoundAssumption
<1>2. free # {}
  <2> SUFFICES ASSUME free = {} PROVE FALSE OBVIOUS
  <2>1. \A k \in 1..N : <<name, k>> \in used OBVIOUS
  <2>2. f \in [1..N -> used] BY <2>1
  <2>3. \A k, m \in 1..N : f[k] = f[m] => k = m OBVIOUS
  <2>4. f \in Injection(1..N, used)
    <3> HIDE DEF f
    <3> QED BY <2>2, <2>3 DEF Injection, IsInjective
  <2> HIDE DEF f, N, free
  <2>5. Cardinality(1..N) <= Cardinality(used) BY <2>4, FS_Injection
  <2>6. Cardinality(1..N) = N
    <3>1. 1 \in Int /\ N \in Int /\ ~(1 > N) /\ N - 1 + 1 = N BY <1>1 DEF N
    <3> QED BY <3>1, FS_Interval
  <2>7. Cardinality(used) \in Nat BY FS_CardinalityType
  <2> QED BY <1>1, <2>5, <2>6, <2>7 DEF N
<1>3. free \subseteq Nat BY <1>1
<1>4. \E k \in free : Least(k)
  <2> HIDE DEF free
  <2> QED BY <1>2, <1>3, LeastNatural
<1>5. i \in free
  <2> HIDE DEF Least, free
  <2> QED BY <1>4
<1>6. UniqueName(used, name) = <<name, i>> BY DEF UniqueName
<1> HIDE DEF i
<1> QED BY <1>5, <1>6

\* As many names as bodies.
LEMMA SizesAgree ==
  ASSUME NEW mt, NEW bodies, Shows(mt, bodies), Nothing \notin bodies
  PROVE  /\ IsFiniteSet(bodies)
         /\ Cardinality(DOMAIN mt.examples)
              + (IF mt.example = Nothing THEN 0 ELSE 1) = Cardinality(bodies)
<1> DEFINE names == DOMAIN mt.examples
           f == [n \in names |-> mt.examples[n]]
<1>1. IsFiniteSet(names) BY DEF Shows
<1>2. CASE mt.example = Nothing
  <2>1. {mt.examples[n] : n \in names} = bodies BY <1>2 DEF Shows
  <2>2. f \in [names -> bodies] /\ \A b \in bodies : \E n \in names : f[n] = b BY <2>1
  <2>3. \A m, n \in names : f[m] = f[n] => m = n BY DEF Shows
  <2> HIDE DEF f, names
  <2>4. f \in Bijection(names, bodies)
    BY <2>2, <2>3 DEF Bijection, Injection, Surjection, IsInjective
  <2>5. IsFiniteSet(bodies) /\ Cardinality(bodies) = Cardinality(names)
    BY <1>1, <2>4, FS_Bijection DEF ExistsBijection
  <2>6. Cardinality(names) \in Nat BY <1>1, FS_CardinalityType
  <2> QED BY <1>2, <2>5, <2>6 DEF names
<1>3. CASE mt.example # Nothing
  <2>1. names = {} BY <1>3 DEF Shows
  <2>2. bodies = {mt.example} BY <1>3, <2>1 DEF Shows
  <2>3. Cardinality(names) = 0 BY <2>1, FS_EmptySet
  <2>4. IsFiniteSet(bodies) /\ Cardinality(bodies) = 1 BY <2>2, FS_Singleton
  <2> QED BY <1>3, <2>3, <2>4
<1> QED BY <1>2, <1>3

-----------------------------------------------------------------------------
(* addExample.                                                               *)

\* A body that is new is shown beside those shown before, under a name that is
\* not in use.
LEMMA WithExampleRight ==
  ASSUME NEW mt, NEW bodies, Shows(mt, bodies), Nothing \notin bodies,
         Cardinality(bodies) <= MaxPayloads,
         NEW v, v \notin bodies, v # Nothing,
         NEW idx, idx = 1 => bodies = {}, NEW title
  PROVE  /\ Shows(WithExample(mt, idx, title, v), bodies \cup {v})
         /\ WithExample(mt, idx, title, v).schema = mt.schema
<1> DEFINE first == <<AutoNames[1], 1>>
           moved == IF mt.example = Nothing THEN mt.examples
                    ELSE With(mt.examples, first, mt.example)
           auto == AutoNames[idx]
           name == IF title = Nothing THEN auto ELSE title
           free == UniqueName(DOMAIN moved, name)
           more == With(moved, free, v)
           schema == mt.schema
<1>1. /\ mt = [schema |-> schema, example |-> mt.example, examples |-> mt.examples]
      /\ IsFiniteSet(DOMAIN mt.examples)
      /\ {mt.examples[n] : n \in DOMAIN mt.examples} \cup ({mt.example} \ {Nothing}) = bodies
      /\ \A m, n \in DOMAIN mt.examples : mt.examples[m] = mt.examples[n] => m = n
      /\ mt.example = Nothing \/ DOMAIN mt.examples = {}
  BY DEF Shows
<1> HIDE DEF first, auto, schema
<1>2. CASE idx = 1 /\ title = Nothing
  <2>1. bodies = {} BY <1>2
  <2>2. mt.example = Nothing /\ DOMAIN mt.examples = {} BY <1>1, <2>1
  <2>3. WithExample(mt, idx, title, v) = [mt EXCEPT !.example = v] BY <1>2, <2>2 DEF WithExample
  <2> DEFINE examples == mt.examples
             new == [schema |-> schema, example |-> v, examples |-> examples]
  <2>4. WithExample(mt, idx, title, v) = new BY <1>1, <2>3
  <2>5. DOMAIN examples = {} /\ IsFiniteSet(DOMAIN examples) BY <1>1, <2>2
  <2> HIDE DEF examples
  <2>6. new.schema = schema /\ new.example = v /\ new.examples = examples
        /\ new = [schema |-> new.schema, example |-> new.example, examples |-> new.examples]
    OBVIOUS
  <2> HIDE DEF new
  <2>7. Shows(new, bodies \cup {v}) BY <2>1, <2>5, <2>6 DEF Shows
  <2> QED BY <2>4, <2>6, <2>7 DEF schema
<1>3. CASE ~(idx = 1 /\ title = Nothing)
  <2>1. WithExample(mt, idx, title, v) = [schema |-> schema, example |-> Nothing, examples |-> more]
    BY <1>3 DEF WithExample, first, auto, schema
  <2>2. /\ IsFiniteSet(DOMAIN moved)
        /\ {moved[n] : n \in DOMAIN moved} = bodies
        /\ \A m, n \in DOMAIN moved : moved[m] = moved[n] => m = n
        /\ Cardinality(DOMAIN moved) <= MaxPayloads
    <3>1. CASE mt.example = Nothing
      <4>1. moved = mt.examples BY <3>1
      <4>2. Cardinality(DOMAIN mt.examples) = Cardinality(bodies)
        <5>1. Cardinality(DOMAIN mt.examples) \in Nat BY <1>1, FS_CardinalityType
        <5> QED BY <3>1, <5>1, SizesAgree
      <4> HIDE DEF moved
      <4>3. {mt.examples[n] : n \in DOMAIN mt.examples} = bodies BY <1>1, <3>1
      <4> QED BY <1>1, <4>1, <4>2, <4>3
    <3>2. CASE mt.example # Nothing
      <4>1. DOMAIN mt.examples = {} /\ bodies = {mt.example} BY <1>1, <3>2
      <4>2. moved = With(mt.examples, first, mt.example) BY <3>2
      <4>3. DOMAIN moved = {first} /\ moved[first] = mt.example BY <4>1, <4>2 DEF With
      <4>4. IsFiniteSet({first}) /\ Cardinality({first}) = 1 /\ Cardinality(bodies) = 1
        BY <4>1, FS_Singleton
      <4> HIDE DEF moved
      <4> QED BY <4>1, <4>3, <4>4
    <3> QED BY <3>1, <3>2
  <2> HIDE DEF moved, name
  <2>3. free \notin DOMAIN moved BY <2>2, FreshName
  <2> HIDE DEF free
  <2>4. /\ DOMAIN more = DOMAIN moved \cup {free} /\ more[free] = v
        /\ \A n \in DOMAIN moved : more[n] = moved[n]
    BY <2>3 DEF With
  <2> HIDE DEF more
  <2> DEFINE new == [schema |-> schema, example |-> Nothing, examples |-> more]
  <2>5. WithExample(mt, idx, title, v) = new BY <2>1
  <2>6. new.schema = schema /\ new.example = Nothing /\ new.examples = more
        /\ new = [schema |-> new.schema, example |-> new.example, examples |-> new.examples]
    OBVIOUS
  <2> HIDE DEF new
  <2>7. IsFiniteSet(DOMAIN more) BY <2>2, <2>4, FS_AddElement
  <2>8. {more[n] : n \in DOMAIN more} = bodies \cup {v}
    <3>1. \A n \in DOMAIN more : more[n] \in bodies \cup {v} BY <2>2, <2>4
    <3>2. \A b \in bodies : \E n \in DOMAIN more : more[n] = b BY <2>2, <2>4
    <3>3. \E n \in DOMAIN more : more[n] = v BY <2>4
    <3> QED BY <3>1, <3>2, <3>3
  <2>9. \A m, n \in DOMAIN more : more[m] = more[n] => m = n
    <3>1. \A n \in DOMAIN moved : more[n] # v BY <2>2, <2>4
    <3> QED BY <2>2, <2>4, <3>1
  <2>10. Shows(new, bodies \cup {v}) BY <2>6, <2>7, <2>8, <2>9 DEF Shows
  <2> QED BY <2>5, <2>6, <2>10 DEF schema
<1> QED BY <1>2, <1>3

-----------------------------------------------------------------------------
(* A payload reaches a media type.                                           *)

\* There are no more bodies than payloads.
LEMMA GivenSmall ==
  ASSUME IsFiniteSet(given), NEW k
  PROVE  Cardinality(Given(k)) <= Taken
<1> DEFINE H == {g \in given : g.key = k /\ g.body # Nothing}
           f == [g \in H |-> g.body]
<1>1. H \in SUBSET given OBVIOUS
<1> HIDE DEF H
<1>2. IsFiniteSet(H) /\ Cardinality(H) <= Taken BY <1>1, FS_Subset DEF Taken
<1>3. Given(k) = {g.body : g \in H} BY DEF Given, H
<1>4. f \in Surjection(H, Given(k)) BY <1>3 DEF Surjection
<1> HIDE DEF f
<1>5. IsFiniteSet(Given(k)) /\ Cardinality(Given(k)) <= Cardinality(H)
  BY <1>2, <1>4, FS_Surjection
<1>6. Cardinality(H) \in Nat /\ Cardinality(Given(k)) \in Nat BY <1>2, <1>5, FS_CardinalityType
<1>7. Taken \in Nat BY FS_CardinalityType DEF Taken
<1> QED BY <1>2, <1>5, <1>6, <1>7

\* What is under k before a payload comes, or what a new media type has.
OldMedia(k) == IF k \in DOMAIN media THEN media[k] ELSE NewMedia

LEMMA OldMediaRight ==
  ASSUME IInv, NEW k
  PROVE  /\ Shows(OldMedia(k), Given(k))
         /\ Given(k) # {} => OldMedia(k).schema # Nothing
         /\ OldMedia(k).schema = "inferred" => k \in DOMAIN media /\ media[k].schema = "inferred"
<1> USE DEF IInv
<1>1. CASE k \in DOMAIN media BY <1>1 DEF OldMedia, AllShown, SchemasFit
<1>2. CASE k \notin DOMAIN media
  <2>1. Given(k) = {} BY <1>2 DEF Given, GivenKnown
  <2> DEFINE none == <<>>
  <2>2. OldMedia(k) = [schema |-> Nothing, example |-> Nothing, examples |-> none]
    BY <1>2 DEF OldMedia, NewMedia
  <2>3. DOMAIN none = {} /\ IsFiniteSet(DOMAIN none)
    <3>1. DOMAIN none = {} OBVIOUS
    <3> QED BY <3>1, FS_EmptySet
  <2> HIDE DEF none
  <2>4. Shows(OldMedia(k), {}) BY <2>2, <2>3 DEF Shows
  <2>5. OldMedia(k).schema = Nothing /\ Nothing # "inferred"
    <3>1. Nothing # "inferred" BY NothingAssumption DEF Sources
    <3> QED BY <2>2, <3>1
  <2> QED BY <2>1, <2>4, <2>5
<1> QED BY <1>1, <1>2

\* Another schema shows the same.
LEMMA SchemaSet ==
  ASSUME NEW mt, NEW bodies, Shows(mt, bodies), NEW schema
  PROVE  /\ Shows([mt EXCEPT !.schema = schema], bodies)
         /\ [mt EXCEPT !.schema = schema].schema = schema
         /\ [mt EXCEPT !.schema = schema].example = mt.example
         /\ [mt EXCEPT !.schema = schema].examples = mt.examples
<1> DEFINE e == mt.example
           x == mt.examples
           old == mt.schema
           new == [mt EXCEPT !.schema = schema]
<1>1. mt = [schema |-> old, example |-> e, examples |-> x] BY DEF Shows
<1> HIDE DEF e, x, old
<1>2. new = [schema |-> schema, example |-> e, examples |-> x] BY <1>1
<1>3. new.schema = schema /\ new.example = e /\ new.examples = x BY <1>2
<1> HIDE DEF new
<1>4. new = [schema |-> new.schema, example |-> new.example, examples |-> new.examples]
  BY <1>2, <1>3
<1>5. Shows(new, bodies) BY <1>3, <1>4 DEF Shows, e, x
<1> QED BY <1>3, <1>5 DEF new, e, x

\* exampleAlreadyPresent looks among what is shown.
LEMMA PresentIsShown ==
  ASSUME NEW mt, NEW bodies, Shows(mt, bodies), NEW v, v # Nothing
  PROVE  AlreadyPresent(mt, v) <=> v \in bodies
BY DEF AlreadyPresent, Shows

LEMMA ReceivedRight ==
  ASSUME IInv, Taken < MaxPayloads, NEW k \in Keys, NEW schema, schema # "inferred", NEW p,
         NEW bodies, bodies = Given(k) \cup ({p.body} \ {Nothing})
  PROVE  /\ Shows(Received(k, schema, p), bodies)
         /\ bodies # {} => Received(k, schema, p).schema # Nothing
         /\ Received(k, schema, p).schema = "inferred" =>
              \/ k \in DOMAIN media /\ media[k].schema = "inferred"
              \/ p.body # Nothing /\ schema = Nothing
         /\ Counted(k, p) \in Nat
         /\ Counted(k, p) = 0 => bodies = {}
<1> USE DEF IInv
<1> DEFINE before == Given(k)
           old == OldMedia(k)
           typed == IF old.schema = Nothing THEN [old EXCEPT !.schema = schema] ELSE old
           adds == p.body # Nothing /\ ~AlreadyPresent(typed, p.body)
           with == WithExample(typed, counts[k] + 1, p.title, p.body)
           shown == IF adds THEN with ELSE typed
           r == IF p.body # Nothing /\ shown.schema = Nothing
                THEN [shown EXCEPT !.schema = "inferred"] ELSE shown
<1>1. Received(k, schema, p) = r BY DEF Received, OldMedia
<1>2. /\ Shows(old, before)
      /\ before # {} => old.schema # Nothing
      /\ old.schema = "inferred" => k \in DOMAIN media /\ media[k].schema = "inferred"
  BY OldMediaRight
<1>3. counts[k] \in Nat /\ (counts[k] = 0 => before = {}) BY DEF TypeOK, CountsTell
<1>4. Nothing \notin before BY DEF Given
<1>5. Cardinality(before) <= MaxPayloads
  <2>1. Cardinality(before) <= Taken BY GivenSmall DEF TypeOK
  <2>2. Taken \in Nat BY FS_CardinalityType DEF TypeOK, Taken
  <2>3. IsFiniteSet(before) BY <1>2, <1>4, SizesAgree
  <2>4. Cardinality(before) \in Nat BY <2>3, FS_CardinalityType
  <2>5. MaxPayloads \in Nat BY BoundAssumption
  <2> HIDE DEF before
  <2> QED BY <2>1, <2>2, <2>4, <2>5
<1>6. bodies = before \cup ({p.body} \ {Nothing}) OBVIOUS
<1> HIDE DEF before, old
<1>7. /\ Shows(typed, before)
      /\ before # {} => typed.schema # Nothing
      /\ typed.schema = "inferred" => old.schema = "inferred"
  BY <1>2, SchemaSet
<1>8. typed.schema = Nothing => schema = Nothing BY <1>2, SchemaSet
<1> HIDE DEF typed
<1>9. adds <=> p.body # Nothing /\ p.body \notin before BY <1>7, PresentIsShown
<1>10. adds => Shows(with, before \cup {p.body}) /\ with.schema = typed.schema
  <2> DEFINE idx == counts[k] + 1
  <2>1. idx = 1 => before = {} BY <1>3
  <2> HIDE DEF idx, adds
  <2> QED BY <1>4, <1>5, <1>7, <1>9, <2>1, WithExampleRight DEF idx
<1>11. Shows(shown, bodies) /\ shown.schema = typed.schema
  <2>1. CASE adds
    <3>1. bodies = before \cup {p.body} BY <1>6, <1>9, <2>1
    <3> QED BY <1>10, <2>1, <3>1
  <2>2. CASE ~adds
    <3>1. bodies = before BY <1>6, <1>9, <2>2
    <3> QED BY <1>7, <2>2, <3>1
  <2> QED BY <2>1, <2>2
<1> HIDE DEF adds, with, shown
<1>12. /\ Shows(r, bodies)
       /\ bodies # {} => r.schema # Nothing
       /\ r.schema = "inferred" => typed.schema = "inferred" \/ (p.body # Nothing /\ schema = Nothing)
  <2>1. Nothing # "inferred" BY NothingAssumption DEF Sources
  <2>2. CASE p.body # Nothing /\ shown.schema = Nothing
    <3>1. Shows(r, bodies) /\ r.schema = "inferred" BY <1>11, <2>2, SchemaSet
    <3>2. schema = Nothing BY <1>8, <1>11, <2>2
    <3> HIDE DEF r
    <3> QED BY <2>1, <2>2, <3>1, <3>2
  <2>3. CASE ~(p.body # Nothing /\ shown.schema = Nothing)
    <3>1. r = shown BY <2>3
    <3>2. bodies # {} => shown.schema # Nothing BY <1>6, <1>7, <1>11, <2>3
    <3> HIDE DEF r
    <3> QED BY <1>11, <3>1, <3>2
  <2> QED BY <2>2, <2>3
<1>13. Counted(k, p) \in Nat /\ (Counted(k, p) = 0 => bodies = {})
  <2> DEFINE present == k \in DOMAIN media /\ AlreadyPresent(media[k], p.body)
  <2>1. CASE p.body # Nothing /\ ~present
    <3>1. Counted(k, p) = counts[k] + 1 BY <2>1 DEF Counted
    <3>2. counts[k] + 1 \in Nat /\ counts[k] + 1 # 0 BY <1>3
    <3> QED BY <3>1, <3>2
  <2>2. CASE ~(p.body # Nothing /\ ~present)
    <3>1. Counted(k, p) = counts[k] BY <2>2 DEF Counted
    <3>2. p.body # Nothing => p.body \in before
      <4> SUFFICES ASSUME p.body # Nothing PROVE p.body \in before OBVIOUS
      <4>1. present BY <2>2
      <4>2. Shows(media[k], before) BY <4>1 DEF AllShown, before
      <4> QED BY <4>1, <4>2, PresentIsShown
    <3>3. bodies = before BY <1>6, <3>2
    <3> QED BY <1>3, <3>1, <3>3
  <2> QED BY <2>1, <2>2
<1> QED BY <1>1, <1>2, <1>7, <1>12, <1>13

\* What is given for each key once another payload is.
LEMMA GivenMore ==
  ASSUME NEW g, given' = given \cup {g}
  PROVE  /\ Given(g.key)' = Given(g.key) \cup ({g.body} \ {Nothing})
         /\ \A j : j # g.key => Given(j)' = Given(j)
BY DEF Given

MediaInv == TypeOK /\ GivenKnown /\ CountsTell /\ AllShown /\ SchemasFit

LEMMA ReceiveRight ==
  ASSUME IInv, Taken < MaxPayloads, split' = split,
         NEW k \in Keys, NEW schema, schema # "inferred", NEW p, Receive(k, schema, p)
  PROVE  MediaInv'
<1> USE DEF IInv
<1> DEFINE bodies == Given(k) \cup ({p.body} \ {Nothing})
           r == Received(k, schema, p)
           n == Counted(k, p)
           g == [key |-> k, body |-> p.body, title |-> p.title, schema |-> schema]
<1>1. /\ media' = With(media, k, r)
      /\ counts' = [counts EXCEPT ![k] = n]
      /\ given' = given \cup {g}
  BY DEF Receive
<1>2. g.key = k /\ g.body = p.body /\ g.schema = schema OBVIOUS
<1>3. /\ Shows(r, bodies)
      /\ bodies # {} => r.schema # Nothing
      /\ r.schema = "inferred" => \/ k \in DOMAIN media /\ media[k].schema = "inferred"
                                  \/ p.body # Nothing /\ schema = Nothing
      /\ n \in Nat
      /\ n = 0 => bodies = {}
  BY ReceivedRight
<1> HIDE DEF r, n, g
<1>4. Given(k)' = bodies /\ \A j : j # k => Given(j)' = Given(j)
  BY <1>1, <1>2, GivenMore
<1>5. /\ DOMAIN media' = DOMAIN media \cup {k} /\ media'[k] = r
      /\ \A j \in DOMAIN media : j # k => media'[j] = media[j]
  BY <1>1 DEF With
<1> HIDE DEF bodies
<1>6. TypeOK'
  <2>1. IsFiniteSet(given') BY <1>1, FS_AddElement DEF TypeOK
  <2>2. counts' \in [Keys -> Nat] BY <1>1, <1>3 DEF TypeOK
  <2> QED BY <2>1, <2>2 DEF TypeOK
<1>7. GivenKnown' BY <1>1, <1>2, <1>5 DEF GivenKnown
<1>8. CountsTell'
  <2>1. \A j \in Keys : counts'[j] = IF j = k THEN n ELSE counts[j] BY <1>1 DEF TypeOK
  <2>2. \A j : (j = k => Given(j)' = bodies) /\ (j # k => Given(j)' = Given(j)) BY <1>4
  <2>3. ASSUME NEW j \in Keys, counts'[j] = 0 PROVE Given(j)' = {}
    BY <1>3, <2>1, <2>2, <2>3 DEF CountsTell
  <2> QED BY <2>3 DEF CountsTell
<1>9. AllShown'
  <2>1. \A mt, bs : Shows(mt, bs)' <=> Shows(mt, bs) OBVIOUS
  <2>2. ASSUME NEW j \in DOMAIN media', NEW mt, mt = media'[j] PROVE Shows(mt, Given(j)')
    <3>1. CASE j = k BY <1>3, <1>4, <1>5, <2>2, <3>1
    <3>2. CASE j # k BY <1>4, <1>5, <2>2, <3>2 DEF AllShown
    <3> QED BY <3>1, <3>2
  <2> QED BY <2>2 DEF AllShown
<1>10. SchemasFit'
  <2>1. ASSUME NEW j \in DOMAIN media'
        PROVE  /\ Given(j)' # {} => media'[j].schema # Nothing
               /\ media'[j].schema = "inferred" =>
                    \E h \in given' : h.key = j /\ h.body # Nothing /\ h.schema = Nothing
    <3>1. CASE j = k
      <4>1. ASSUME r.schema = "inferred"
            PROVE  \E h \in given' : h.key = j /\ h.body # Nothing /\ h.schema = Nothing
        <5>1. CASE k \in DOMAIN media /\ media[k].schema = "inferred"
          BY <1>1, <3>1, <5>1 DEF SchemasFit
        <5>2. CASE p.body # Nothing /\ schema = Nothing
          BY <1>1, <1>2, <3>1, <5>2
        <5> QED BY <1>3, <4>1, <5>1, <5>2
      <4> QED BY <1>3, <1>4, <1>5, <3>1, <4>1
    <3>2. CASE j # k BY <1>1, <1>4, <1>5, <3>2 DEF SchemasFit
    <3> QED BY <3>1, <3>2
  <2> QED BY <2>1 DEF SchemasFit
<1> QED BY <1>6, <1>7, <1>8, <1>9, <1>10 DEF MediaInv

\* A type that is declared without a body adds an empty media type at most.
LEMMA DeclaredRight ==
  ASSUME IInv, NEW k, k \notin DOMAIN media, media' = With(media, k, NewMedia),
         UNCHANGED <<split, counts, given>>
  PROVE  MediaInv'
<1> USE DEF IInv
<1>1. /\ DOMAIN media' = DOMAIN media \cup {k} /\ media'[k] = OldMedia(k)
      /\ \A j \in DOMAIN media : media'[j] = media[j]
  BY DEF With, OldMedia
<1>2. \A j : Given(j)' = Given(j) BY DEF Given
<1>3. \A j \in DOMAIN media' : media'[j] = OldMedia(j) BY <1>1 DEF OldMedia
<1>4. TypeOK' BY DEF TypeOK
<1>5. GivenKnown' BY <1>1 DEF GivenKnown
<1>6. CountsTell' BY <1>2 DEF CountsTell
<1>7. AllShown' BY <1>2, <1>3, OldMediaRight DEF AllShown
<1>8. SchemasFit'
  <2>1. ASSUME NEW j \in DOMAIN media'
        PROVE  /\ Given(j)' # {} => media'[j].schema # Nothing
               /\ media'[j].schema = "inferred" =>
                    \E h \in given' : h.key = j /\ h.body # Nothing /\ h.schema = Nothing
    BY <1>2, <1>3, OldMediaRight DEF SchemasFit
  <2> QED BY <2>1 DEF SchemasFit
<1> QED BY <1>4, <1>5, <1>6, <1>7, <1>8 DEF MediaInv

LEMMA MediaStays ==
  ASSUME IInv, UNCHANGED <<split, media, counts, given>>
  PROVE  MediaInv'
<1> USE DEF IInv
<1>1. \A j : Given(j)' = Given(j) BY DEF Given
<1>2. TypeOK' /\ GivenKnown' BY DEF TypeOK, GivenKnown
<1>3. CountsTell' BY <1>1 DEF CountsTell
<1>4. AllShown' BY <1>1 DEF AllShown
<1>5. SchemasFit' BY <1>1 DEF SchemasFit
<1> QED BY <1>2, <1>3, <1>4, <1>5 DEF MediaInv

-----------------------------------------------------------------------------
(* The steps.                                                                *)

LEMMA TypeOfRight ==
  ASSUME NEW p \in Payload, NEW schema
  PROVE  TypeOf(p, schema) \in Types \cup {"json", "octet"}
BY DEF TypeOf, Payload

LEMMA TakeRequestIInv ==
  ASSUME IInv, Taken < MaxPayloads, NEW p \in Payload, TakeRequest(p)
  PROVE  IInv'
<1> DEFINE schema == IF p.schema # Nothing THEN p.schema
                     ELSE IF "action" \in defaults THEN "action" ELSE Nothing
<1>1. Receive(<<Request, TypeOf(p, schema)>>, schema, p) /\ UNCHANGED <<split, resp, told>>
  BY DEF TakeRequest
<1>2. schema # "inferred"
  <2>1. p.schema \in {"attributes", "raw", Nothing} BY DEF Payload
  <2>2. Nothing # "inferred" BY NothingAssumption DEF Sources
  <2> QED BY <2>1, <2>2
<1>3. <<Request, TypeOf(p, schema)>> \in Keys
  <2> HIDE DEF schema
  <2> QED BY TypeOfRight DEF Keys
<1> HIDE DEF schema
<1>4. MediaInv' BY <1>1, <1>2, <1>3, ReceiveRight
<1>5. ResponsesTold' /\ DescribedByAuthor' BY <1>1 DEF IInv, ResponsesTold, DescribedByAuthor
<1> QED BY <1>4, <1>5 DEF IInv, MediaInv

\* What applyBody does to the media types.
LEMMA TakeBodyRight ==
  ASSUME IInv, Taken < MaxPayloads, split' = split,
         NEW status \in Statuses, NEW p \in Payload, TakeBody(status, p)
  PROVE  MediaInv'
<1> DEFINE schema == IF p.schema # Nothing THEN p.schema
                     ELSE IF "resource" \in defaults /\ Success(status) /\ p.type # Nothing
                          THEN "resource" ELSE Nothing
           k == <<status, TypeOf(p, schema)>>
<1>1. schema # "inferred"
  <2>1. p.schema \in {"attributes", "raw", Nothing} BY DEF Payload
  <2>2. Nothing # "inferred" BY NothingAssumption DEF Sources
  <2> QED BY <2>1, <2>2
<1>2. k \in Keys
  <2> HIDE DEF schema
  <2> QED BY TypeOfRight DEF Keys
<1>3. CASE p.body # Nothing \/ schema # Nothing
  <2>1. Receive(k, schema, p) BY <1>3 DEF TakeBody
  <2> HIDE DEF schema, k
  <2> QED BY <1>1, <1>2, <2>1, ReceiveRight
<1>4. CASE ~(p.body # Nothing \/ schema # Nothing)
  <2>1. /\ media' = IF p.type # Nothing /\ k \notin DOMAIN media
                    THEN With(media, k, NewMedia) ELSE media
        /\ UNCHANGED <<counts, given>>
    BY <1>4 DEF TakeBody
  <2> HIDE DEF schema, k
  <2>2. CASE p.type # Nothing /\ k \notin DOMAIN media BY <2>1, <2>2, DeclaredRight
  <2>3. CASE ~(p.type # Nothing /\ k \notin DOMAIN media) BY <2>1, <2>3, MediaStays
  <2> QED BY <2>2, <2>3
<1> QED BY <1>3, <1>4

\* A response after one of its transactions, given what was told before.
LEMMA DescribedRight ==
  ASSUME IInv, NEW status, NEW title, NEW prose \in BOOLEAN,
         NEW titled \in BOOLEAN, titled <=> <<status, "title">> \in told \/ title # Nothing,
         NEW prosed \in BOOLEAN, prosed <=> <<status, "prose">> \in told \/ prose,
         NEW r, r = Described(status, title, prose)
  PROVE  /\ r.description = "default" <=> ~prosed /\ (split \/ ~titled)
         /\ r.summary # Nothing <=> split /\ titled
<1> DEFINE d == IF ~split /\ title # Nothing THEN "title" ELSE IF prose THEN "prose" ELSE "default"
           s == IF split /\ title # Nothing THEN title ELSE Nothing
<1>1. d = "default" <=> ~prose /\ (split \/ title = Nothing) BY DEF IInv, TypeOK
<1>2. s # Nothing <=> split /\ title # Nothing OBVIOUS
<1>3. CASE status \notin DOMAIN resp
  <2>1. r = [summary |-> s, description |-> d] BY <1>3 DEF Described
  <2>2. <<status, "title">> \notin told /\ <<status, "prose">> \notin told
    <3>1. \A x : <<status, x>>[1] = status OBVIOUS
    <3> QED BY <1>3, <3>1 DEF IInv, ResponsesTold
  <2> HIDE DEF s, d
  <2>3. r.summary = s /\ r.description = d BY <2>1
  <2> QED BY <1>1, <1>2, <2>2, <2>3
<1>4. CASE status \in DOMAIN resp
  <2> DEFINE old == resp[status]
             better == IF ~split /\ title # Nothing THEN "title"
                       ELSE IF prose THEN "prose" ELSE old.description
             summary == IF old.summary = Nothing THEN s ELSE old.summary
             description == IF old.description = "default" THEN better ELSE old.description
  <2>1. r = [summary |-> summary, description |-> description] BY <1>4 DEF Described
  <2>2. /\ old.description = "default" <=>
             <<status, "prose">> \notin told /\ (split \/ <<status, "title">> \notin told)
        /\ old.summary # Nothing <=> split /\ <<status, "title">> \in told
    BY <1>4 DEF IInv, DescribedByAuthor
  <2>3. old.description = "default" => better = d OBVIOUS
  <2> HIDE DEF old, better, s, d
  <2>4. description = "default" <=> old.description = "default" /\ d = "default" BY <2>3
  <2>5. summary # Nothing <=> old.summary # Nothing \/ s # Nothing OBVIOUS
  <2> HIDE DEF summary, description
  <2>6. r.summary = summary /\ r.description = description BY <2>1
  <2>7. r.description = "default" <=> ~prosed /\ (split \/ ~titled)
    BY <1>1, <2>2, <2>4, <2>6, Zenon
  <2>8. r.summary # Nothing <=> split /\ titled
    BY <1>2, <2>2, <2>5, <2>6, Zenon
  <2> QED BY <2>7, <2>8
<1> QED BY <1>3, <1>4

LEMMA TakeResponseIInv ==
  ASSUME IInv, Taken < MaxPayloads, NEW p \in Payload, NEW status \in Statuses,
         NEW title \in Titles \cup {Nothing}, NEW prose \in BOOLEAN,
         TakeResponse(status, p, title, prose)
  PROVE  IInv'
<1> DEFINE r == Described(status, title, prose)
           new == (IF title = Nothing THEN {} ELSE {<<status, "title">>})
                    \cup (IF prose THEN {<<status, "prose">>} ELSE {})
<1>1. /\ resp' = With(resp, status, r)
      /\ told' = told \cup new
      /\ TakeBody(status, p) /\ split' = split
  <2>1. told \cup new = told \cup (IF title = Nothing THEN {} ELSE {<<status, "title">>})
                             \cup (IF prose THEN {<<status, "prose">>} ELSE {})
    BY Zenon
  <2> HIDE DEF new
  <2> QED BY <2>1 DEF TakeResponse
<1>2. MediaInv' BY <1>1, TakeBodyRight
<1>3. /\ DOMAIN resp' = DOMAIN resp \cup {status} /\ resp'[status] = r
      /\ \A s \in DOMAIN resp : s # status => resp'[s] = resp[s]
  <2> HIDE DEF r
  <2> QED BY <1>1 DEF With
<1>4. /\ \A s, x : <<s, x>> \in told' <=>
           \/ <<s, x>> \in told
           \/ s = status /\ x = "title" /\ title # Nothing
           \/ s = status /\ x = "prose" /\ prose
      /\ \A d \in told' : d \in told \/ d[1] = status
  <2>1. \A s, x : <<s, x>> \in new <=> \/ s = status /\ x = "title" /\ title # Nothing
                                       \/ s = status /\ x = "prose" /\ prose
    OBVIOUS
  <2>2. \A d \in new : d[1] = status OBVIOUS
  <2> HIDE DEF new
  <2> QED BY <1>1, <2>1, <2>2
<1>5. ResponsesTold' BY <1>3, <1>4 DEF IInv, ResponsesTold
<1>6. DescribedByAuthor'
  <2>1. ASSUME NEW s \in DOMAIN resp'
        PROVE  /\ resp'[s].description = "default" <=>
                    <<s, "prose">> \notin told' /\ (split \/ <<s, "title">> \notin told')
               /\ resp'[s].summary # Nothing <=> split /\ <<s, "title">> \in told'
    <3>1. CASE s = status
      <4> DEFINE titled == <<s, "title">> \in told'
                 prosed == <<s, "prose">> \in told'
      <4>1. titled <=> <<status, "title">> \in told \/ title # Nothing BY <1>4, <3>1
      <4>2. prosed <=> <<status, "prose">> \in told \/ prose BY <1>4, <3>1
      <4>3. titled \in BOOLEAN /\ prosed \in BOOLEAN OBVIOUS
      <4> HIDE DEF titled, prosed, r
      <4>4. /\ r.description = "default" <=> ~prosed /\ (split \/ ~titled)
            /\ r.summary # Nothing <=> split /\ titled
        BY <4>1, <4>2, <4>3, DescribedRight DEF r
      <4>5. resp'[s] = r BY <1>3, <3>1
      <4> QED BY <4>4, <4>5 DEF titled, prosed
    <3>2. CASE s # status
      <4>1. s \in DOMAIN resp /\ resp'[s] = resp[s] BY <1>3, <3>2
      <4>2. \A x : <<s, x>> \in told' <=> <<s, x>> \in told BY <1>4, <3>2
      <4> QED BY <4>1, <4>2 DEF IInv, DescribedByAuthor
    <3> QED BY <3>1, <3>2
  <2> QED BY <1>1, <2>1 DEF DescribedByAuthor
<1> QED BY <1>2, <1>5, <1>6 DEF IInv, MediaInv

LEMMA InitIInv == Init => IInv
<1> SUFFICES ASSUME Init PROVE IInv OBVIOUS
<1> USE DEF Init
<1>1. DOMAIN media = {} /\ DOMAIN resp = {} OBVIOUS
<1>2. TypeOK BY FS_EmptySet DEF TypeOK
<1>3. GivenKnown /\ ResponsesTold BY DEF GivenKnown, ResponsesTold
<1>4. CountsTell BY DEF CountsTell, Given
<1>5. AllShown /\ SchemasFit /\ DescribedByAuthor
  BY <1>1 DEF AllShown, SchemasFit, DescribedByAuthor
<1> QED BY <1>2, <1>3, <1>4, <1>5 DEF IInv

LEMMA StepIInv == IInv /\ [Next]_vars => IInv'
<1> SUFFICES ASSUME IInv, [Next]_vars PROVE IInv' OBVIOUS
<1>1. CASE UNCHANGED vars
  <2>1. MediaInv' BY <1>1, MediaStays DEF vars
  <2>2. ResponsesTold' /\ DescribedByAuthor'
    BY <1>1 DEF vars, IInv, ResponsesTold, DescribedByAuthor
  <2> QED BY <2>1, <2>2 DEF IInv, MediaInv
<1>2. CASE Next
  <2>1. PICK p \in Payload :
          \/ TakeRequest(p)
          \/ \E status \in Statuses, title \in Titles \cup {Nothing}, prose \in BOOLEAN :
               TakeResponse(status, p, title, prose)
    BY <1>2 DEF Next
  <2>2. Taken < MaxPayloads BY <1>2 DEF Next
  <2> QED BY <2>1, <2>2, TakeRequestIInv, TakeResponseIInv
<1> QED BY <1>1, <1>2

-----------------------------------------------------------------------------

\* The inductive invariant, from which the properties follow.
THEOREM Invariance == Spec => []IInv
<1>1. Init => IInv BY InitIInv
<1>2. IInv /\ [Next]_vars => IInv' BY StepIInv
<1> QED BY <1>1, <1>2, PTL DEF Spec

\* EveryBodyShownOnce: each distinct body that came for a media type is shown in
\* it under one name, and nothing else is (src/internal/convert/convert.go,
\* addExample and uniqueExampleName).
THEOREM EveryBodyShownOnceAlways == Spec => []EveryBodyShownOnce
<1>1. ASSUME IInv PROVE EveryBodyShownOnce
  <2> SUFFICES ASSUME NEW k \in DOMAIN media
               PROVE  /\ Shown(k) = Given(k)
                      /\ Cardinality(DOMAIN media[k].examples)
                           + (IF media[k].example = Nothing THEN 0 ELSE 1) = Cardinality(Given(k))
                      /\ media[k].example = Nothing \/ DOMAIN media[k].examples = {}
    BY DEF EveryBodyShownOnce
  <2>1. Shows(media[k], Given(k)) BY <1>1 DEF IInv, AllShown
  <2>2. Nothing \notin Given(k) BY DEF Given
  <2>3. Shown(k) = Given(k) BY <2>1 DEF Shown, Shows
  <2> QED BY <2>1, <2>2, <2>3, SizesAgree DEF Shows
<1> QED BY <1>1, Invariance, PTL

\* DescribedByAuthor: a response has its author's words as soon as one of its
\* transactions brings them (operationFromTransition).
THEOREM DescribedByAuthorAlways == Spec => []DescribedByAuthor
<1>1. IInv => DescribedByAuthor BY DEF IInv
<1> QED BY <1>1, Invariance, PTL

\* InferenceFillsIn: what has an example has a schema, and it is inferred only
\* where a body came without one (applyBody).
THEOREM InferenceFillsInAlways == Spec => []InferenceFillsIn
<1>1. ASSUME IInv PROVE InferenceFillsIn
  <2>1. \A k \in DOMAIN media : Shown(k) = Given(k)
    BY <1>1 DEF IInv, AllShown, Shown, Shows
  <2> QED BY <1>1, <2>1 DEF IInv, SchemasFit, InferenceFillsIn
<1> QED BY <1>1, Invariance, PTL
=============================================================================
