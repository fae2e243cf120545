---------------------------- MODULE MetaTextProofs ----------------------------
(***************************************************************************)
(* For copies of any length: the + Meta block and the description share out *)
(* the lines of a copy, nothing is skipped with a consumed copy, and the    *)
(* first block that holds a key decides it (MetaText).  And for texts of    *)
(* any length, as they are written (Texts): each entry of the metadata      *)
(* fills one part, or is one of several for the same place (Metadata); the  *)
(* lines of an object's description are recovered as the members, options   *)
(* and prose they were, and none of them twice (MemberLines).               *)
(***************************************************************************)
EXTENDS MetaText, Texts, SequenceTheorems, FiniteSetTheorems, WellFoundedInduction, TLAPS

-----------------------------------------------------------------------------
(* The metadata of the document (Metadata).                                 *)

LEMMA LeastNatural ==
  ASSUME NEW T, T \subseteq Nat, T # {}
  PROVE  \E n \in T : \A m \in T : n <= m
<1> DEFINE R == {ss \in Nat \X Nat : ss[1] < ss[2]}
<1>1. OpToRel(<, Nat) = R BY DEF OpToRel
<1>2. IsWellFoundedOn(R, Nat) BY NatLessThanWellFounded, <1>1
<1>3. \E x \in T : \A y \in T : ~ (<<y, x>> \in R) BY <1>2, WFMin
<1>4. \A x, y \in Nat : y < x => <<y, x>> \in R OBVIOUS
<1> HIDE DEF R
<1>5. \A x, y \in Nat : ~(y < x) => x <= y OBVIOUS
<1> QED BY <1>3, <1>4, <1>5

\* Of some entries one is the first, and one the last.
LEMMA FirstLatest ==
  ASSUME NEW n \in Nat, NEW S, S \subseteq 1..n, S # {}
  PROVE  /\ \E i \in S : Meta!First(S) = {i} /\ \A j \in S : i <= j
         /\ \E i \in S : Meta!Latest(S) = {i} /\ \A j \in S : j <= i
<1>1. \A i \in S : i \in Nat /\ i <= n OBVIOUS
<1>2. PICK f \in S : \A j \in S : f <= j
  <2>1. S \subseteq Nat OBVIOUS
  <2> QED BY <2>1, LeastNatural
<1>3. Meta!First(S) = {f}
  <2>1. \A i \in S : (\A j \in S : i <= j) => i = f BY <1>1, <1>2
  <2> QED BY <1>2, <2>1 DEF Meta!First
<1> DEFINE T == {n - i : i \in S}
<1>4. T \subseteq Nat /\ T # {} BY <1>1
<1>5. PICK t \in T : \A u \in T : t <= u
  <2> HIDE DEF T
  <2> QED BY <1>4, LeastNatural
<1>6. PICK l \in S : t = n - l OBVIOUS
<1>7. ASSUME NEW j \in S PROVE j <= l
  <2>1. t <= n - j BY <1>5
  <2> QED BY <1>1, <1>6, <2>1
<1>8. Meta!Latest(S) = {l}
  <2>1. \A i \in S : (\A j \in S : j <= i) => i = l BY <1>1, <1>7
  <2> QED BY <1>7, <2>1 DEF Meta!Latest
<1> QED BY <1>2, <1>3, <1>7, <1>8

\* The part that an entry fills, if it fills any.
Home(e) ==
  IF e.key \in Meta!Versions THEN "version"
  ELSE IF e.key \in {"host", "server"} THEN "servers"
  ELSE IF e.key = "summary" THEN "summary"
  ELSE IF e.key = "security" THEN "security"
  ELSE IF e.key = "webhook_groups" THEN "webhooks"
  ELSE IF e.key = "license" THEN "license"
  ELSE IF e.key = "license-id" THEN "identifier"
  ELSE IF e.key = "license-url" THEN "url"
  ELSE IF e.root THEN "root" ELSE "info"

LEMMA EntriesType ==
  ASSUME NEW entries \in Meta!Entries
  PROVE  /\ Len(entries) \in Nat /\ DOMAIN entries = 1..Len(entries)
         /\ \A i \in DOMAIN entries : entries[i] \in Meta!EntryType
<1>1. entries \in Seq(Meta!EntryType) BY DEF Meta!Entries, Meta!EntryType
<1> QED BY <1>1, LenProperties, ElementOfSeq

\* No entry fills another part than its home.
LEMMA FillsHome ==
  ASSUME NEW entries, NEW i \in DOMAIN entries,
         NEW p \in DOMAIN Meta!Document(entries), i \in Meta!Document(entries)[p]
  PROVE  p = Home(entries[i])
<1> DEFINE doc == Meta!Document(entries)
           e == entries[i]
<1>1. /\ p \in {"version", "servers", "summary", "security", "webhooks", "license",
                "identifier", "url", "info", "root"}
      /\ doc.version = Meta!VersionOf(entries) /\ doc.servers = Meta!Servers(entries)
      /\ doc.summary = Meta!Summary(entries) /\ doc.security = Meta!DocumentSecurity(entries)
      /\ doc.webhooks = Meta!WebhookGroups(entries)
      /\ doc.license = Meta!License(entries, "license")
      /\ doc.identifier = Meta!License(entries, "license-id")
      /\ doc.url = Meta!License(entries, "license-url")
      /\ doc.info = Meta!Extensions(entries, FALSE) /\ doc.root = Meta!Extensions(entries, TRUE)
  BY DEF Meta!Document
<1>2. i \in doc[p] OBVIOUS
<1> HIDE DEF doc
<1> USE DEF Meta!MetadataValuesAll, Meta!Valued, Meta!Named, Meta!First
<1>3. CASE p = "version"
  BY <1>1, <1>2, <1>3 DEF Meta!VersionOf, Meta!Latest, Home
<1>4. CASE p = "servers"
  BY <1>1, <1>2, <1>4 DEF Meta!Servers, Meta!Versions, Home
<1>5. CASE p = "summary"
  BY <1>1, <1>2, <1>5 DEF Meta!Summary, Meta!FirstMetadataValue, Meta!Versions, Home
<1>6. CASE p = "security"
  BY <1>1, <1>2, <1>6 DEF Meta!DocumentSecurity, Meta!MetadataValueIfPresent, Meta!Versions, Home
<1>7. CASE p = "webhooks"
  BY <1>1, <1>2, <1>7 DEF Meta!WebhookGroups, Meta!MetadataValue, Meta!Versions, Home
<1>8. CASE p \in {"license", "identifier", "url"}
  BY <1>1, <1>2, <1>8 DEF Meta!License, Meta!FirstMetadataValue, Meta!Versions, Home
<1>9. CASE p \in {"info", "root"}
  BY <1>1, <1>2, <1>9 DEF Meta!Extensions, Meta!Recognised, Meta!Versions, Home
<1> QED BY <1>1, <1>3, <1>4, <1>5, <1>6, <1>7, <1>8, <1>9

\* What is left to say of an entry is that some entry with its meaning fills a
\* part.
LEMMA RoutedIf ==
  ASSUME NEW entries \in Meta!Entries, NEW i \in DOMAIN entries,
         NEW j \in DOMAIN entries, NEW p \in DOMAIN Meta!Document(entries),
         j \in Meta!Document(entries)[p], Meta!SameMeaning(entries[i], entries[j]),
         i # j /\ entries[i].key \in Meta!Versions => Meta!MultipleVersions(entries)
  PROVE  LET doc == Meta!Document(entries)
             In(k) == {q \in DOMAIN doc : k \in doc[q]}
         IN  \/ \E q \in DOMAIN doc : In(i) = {q}
             \/ /\ In(i) = {}
                /\ \E k \in DOMAIN entries : In(k) # {} /\ Meta!SameMeaning(entries[i], entries[k])
                /\ entries[i].key \in Meta!Versions => Meta!MultipleVersions(entries)
<1> DEFINE doc == Meta!Document(entries)
           In(k) == {q \in DOMAIN doc : k \in doc[q]}
<1>1. \A k \in DOMAIN entries, q \in DOMAIN doc : k \in doc[q] => q = Home(entries[k])
  BY FillsHome
<1>2. p \in In(j) OBVIOUS
<1>3. CASE In(i) = {}
  <2>1. i # j BY <1>2, <1>3
  <2> HIDE DEF In, doc
  <2> QED BY <1>2, <1>3, <2>1 DEF doc, In
<1>4. CASE In(i) # {}
  <2>1. PICK q \in DOMAIN doc : i \in doc[q] BY <1>4
  <2>2. In(i) = {q} BY <1>1, <2>1
  <2> QED BY <2>1, <2>2
<1> QED BY <1>3, <1>4

\* A lookup that one entry fits yields the first that fits, or the last.
LEMMA LookupFinds ==
  ASSUME NEW entries \in Meta!Entries, NEW S, S \subseteq DOMAIN entries, NEW i \in S
  PROVE  /\ \E j \in S : j \in Meta!First(S)
         /\ \E j \in S : j \in Meta!Latest(S)
<1>1. Len(entries) \in Nat /\ DOMAIN entries = 1..Len(entries) BY EntriesType
<1>2. S \subseteq 1..Len(entries) /\ S # {} BY <1>1
<1> QED BY <1>1, <1>2, FirstLatest

LEMMA DocumentFields ==
  ASSUME NEW entries
  PROVE  LET doc == Meta!Document(entries)
         IN  /\ {"version", "servers", "summary", "security", "webhooks", "license",
                 "identifier", "url", "info", "root"} = DOMAIN doc
             /\ doc["version"] = Meta!VersionOf(entries)
             /\ doc["servers"] = Meta!Servers(entries)
             /\ doc["summary"] = Meta!Summary(entries)
             /\ doc["security"] = Meta!DocumentSecurity(entries)
             /\ doc["webhooks"] = Meta!WebhookGroups(entries)
             /\ doc["license"] = Meta!License(entries, "license")
             /\ doc["identifier"] = Meta!License(entries, "license-id")
             /\ doc["url"] = Meta!License(entries, "license-url")
             /\ doc["info"] = Meta!Extensions(entries, FALSE)
             /\ doc["root"] = Meta!Extensions(entries, TRUE)
BY DEF Meta!Document

\* Every lookup that the entry fits finds an entry of the same meaning.
LEMMA SomeFills ==
  ASSUME NEW entries \in Meta!Entries, NEW i \in DOMAIN entries,
         entries[i].value, ~Meta!PassedOver(entries, i)
  PROVE  \E j \in DOMAIN entries, p \in DOMAIN Meta!Document(entries) :
           /\ j \in Meta!Document(entries)[p] /\ Meta!SameMeaning(entries[i], entries[j])
           /\ i # j /\ entries[i].key \in Meta!Versions => Meta!MultipleVersions(entries)
<1> DEFINE e == entries[i]
           doc == Meta!Document(entries)
<1>1. \A j \in DOMAIN entries : entries[j] \in Meta!EntryType BY EntriesType
<1>2. /\ e.key # "format"
      /\ e.key \in Meta!Foreign => ~e.root
      /\ e.key = "webhook_groups" => e.upper
  BY DEF Meta!PassedOver
<1>3. ASSUME NEW j \in DOMAIN entries, entries[j].key = e.key, entries[j].root = e.root
      PROVE  Meta!SameMeaning(e, entries[j])
  BY <1>3 DEF Meta!SameMeaning
<1> HIDE DEF doc
<1>4. CASE e.key \in Meta!Versions
  <2> DEFINE S == Meta!MetadataValuesAll(entries, Meta!Versions)
  <2>1. i \in S /\ S \subseteq DOMAIN entries
    BY <1>2, <1>4 DEF Meta!MetadataValuesAll, Meta!Valued, Meta!Named, Meta!Foreign
  <2>2. PICK j \in S : j \in Meta!Latest(S)
    <3> HIDE DEF S
    <3> QED BY <2>1, LookupFinds
  <2>3. j \in DOMAIN entries /\ entries[j].key \in Meta!Versions /\ ~entries[j].root
    BY DEF Meta!MetadataValuesAll, Meta!Valued, Meta!Named
  <2>4. Meta!SameMeaning(e, entries[j])
    <3>1. entries[j].root = FALSE /\ entries[i].root = FALSE
      BY <1>1, <1>2, <1>4, <2>3 DEF Meta!Foreign, Meta!EntryType
    <3> QED BY <1>4, <2>3, <3>1 DEF Meta!SameMeaning
  <2>5. i # j => Meta!MultipleVersions(entries) BY <2>1 DEF Meta!MultipleVersions
  <2>6. "version" \in DOMAIN doc /\ j \in doc["version"]
    BY <2>2, DocumentFields DEF doc, Meta!VersionOf
  <2> QED BY <2>3, <2>4, <2>5, <2>6 DEF doc
<1>5. CASE e.key \in {"host", "server"}
  <2>1. "servers" \in DOMAIN doc /\ i \in doc["servers"]
    BY <1>2, <1>5, DocumentFields
    DEF doc, Meta!Servers, Meta!MetadataValuesAll, Meta!Valued, Meta!Named, Meta!Foreign
  <2> QED BY <1>3, <2>1 DEF doc
<1>6. CASE e.key \in {"summary", "license", "license-id", "license-url"}
  <2> DEFINE S == Meta!MetadataValuesAll(entries, {e.key})
  <2>1. i \in S /\ S \subseteq DOMAIN entries
    BY <1>2, <1>6 DEF Meta!MetadataValuesAll, Meta!Valued, Meta!Named, Meta!Foreign
  <2>2. PICK j \in S : j \in Meta!First(S)
    <3> HIDE DEF S
    <3> QED BY <2>1, LookupFinds
  <2>3. j \in DOMAIN entries /\ entries[j].key = e.key /\ ~entries[j].root
    BY DEF Meta!MetadataValuesAll, Meta!Valued, Meta!Named
  <2>4. e.key \notin Meta!Versions BY <1>6 DEF Meta!Versions
  <2>5. j \in Meta!FirstMetadataValue(entries, e.key) BY <2>2 DEF Meta!FirstMetadataValue
  <2> HIDE DEF e
  <2>6. \E p \in DOMAIN doc : j \in doc[p]
    <3>1. CASE e.key = "summary"
      <4>1. "summary" \in DOMAIN doc /\ j \in doc["summary"]
        BY <2>5, <3>1, DocumentFields DEF doc, Meta!Summary
      <4> QED BY <4>1
    <3>2. CASE e.key = "license"
      <4>1. "license" \in DOMAIN doc /\ j \in doc["license"]
        BY <2>5, <3>2, DocumentFields DEF doc, Meta!License
      <4> QED BY <4>1
    <3>3. CASE e.key = "license-id"
      <4>1. "identifier" \in DOMAIN doc /\ j \in doc["identifier"]
        BY <2>5, <3>3, DocumentFields DEF doc, Meta!License
      <4> QED BY <4>1
    <3>4. CASE e.key = "license-url"
      <4>1. "url" \in DOMAIN doc /\ j \in doc["url"]
        BY <2>5, <3>4, DocumentFields DEF doc, Meta!License
      <4> QED BY <4>1
    <3> QED BY <1>6, <3>1, <3>2, <3>3, <3>4 DEF e
  <2>7. ~e.root BY <1>2, <1>6 DEF Meta!Foreign
  <2>8. Meta!SameMeaning(e, entries[j]) BY <2>3, <2>7, <1>1, <1>3 DEF Meta!EntryType, e
  <2> QED BY <2>3, <2>4, <2>6, <2>8 DEF doc, e
<1>7. CASE e.key = "security"
  <2> DEFINE S == Meta!Named(entries, {"security"})
  <2>1. i \in S /\ S \subseteq DOMAIN entries
    BY <1>2, <1>7 DEF Meta!Named, Meta!Foreign
  <2>2. PICK j \in S : j \in Meta!First(S)
    <3> HIDE DEF S
    <3> QED BY <2>1, LookupFinds
  <2>3. "security" \in DOMAIN doc /\ j \in doc["security"]
    BY <2>2, DocumentFields DEF doc, Meta!DocumentSecurity, Meta!MetadataValueIfPresent
  <2>4. /\ j \in DOMAIN entries /\ entries[j].key = e.key
        /\ entries[j].root = FALSE /\ entries[i].root = FALSE
    BY <1>1, <1>7, <2>1 DEF Meta!Named, Meta!EntryType
  <2>5. e.key \notin Meta!Versions BY <1>7 DEF Meta!Versions
  <2> QED BY <1>3, <2>3, <2>4, <2>5 DEF doc
<1>8. CASE e.key = "webhook_groups"
  <2> DEFINE Groups(f) == f.key = "webhook_groups" /\ f.upper /\ ~f.root
             S == {k \in Meta!Named(entries, {"webhook_groups"}) : entries[k].upper}
  <2>1. S = {k \in DOMAIN entries : Groups(entries[k])} BY DEF Meta!Named
  <2>2. i \in S BY <1>2, <1>8, <2>1 DEF Meta!Foreign
  <2>3. PICK j \in S : j \in Meta!First(S)
    <3>1. S \subseteq DOMAIN entries BY <2>1
    <3> HIDE DEF S
    <3> QED BY <2>2, <3>1, LookupFinds
  <2>4. /\ j \in DOMAIN entries /\ entries[j].key = e.key
        /\ entries[j].root = FALSE /\ entries[i].root = FALSE
    BY <1>1, <2>1, <2>2 DEF Meta!EntryType
  <2>5. entries[j].value
    <3> SUFFICES ASSUME ~entries[j].value PROVE FALSE OBVIOUS
    <3>1. \A k \in S : j <= k
      <4> HIDE DEF S
      <4> QED BY <2>3 DEF Meta!First
    <3>2. /\ Len(entries) \in Nat /\ i \in 1..Len(entries) /\ j \in 1..Len(entries)
          /\ DOMAIN entries = 1..Len(entries)
      BY <2>4, EntriesType
    <3>3. j \in 1..(i - 1) BY <2>2, <3>1, <3>2
    <3>4. ASSUME NEW k \in 1..j PROVE Groups(entries[k]) <=> k = j
      <4>1. k \in DOMAIN entries BY <3>2
      <4>2. k \in S => k = j BY <3>1, <3>2
      <4> HIDE DEF Groups
      <4> QED BY <2>1, <4>1, <4>2
    <3>5. Groups(e) BY <2>1, <2>2
    <3> HIDE DEF S
    <3> QED BY <3>3, <3>4, <3>5 DEF Meta!PassedOver
  <2>6. "webhooks" \in DOMAIN doc /\ j \in doc["webhooks"]
    BY <2>3, <2>5, DocumentFields DEF doc, Meta!WebhookGroups, Meta!MetadataValue, Meta!Valued
  <2>7. e.key \notin Meta!Versions BY <1>8 DEF Meta!Versions
  <2> QED BY <1>3, <2>4, <2>6, <2>7 DEF doc
<1>9. CASE e.key \notin Meta!Recognised
  <2> DEFINE at == {k \in DOMAIN entries : entries[k].root = e.root /\ entries[k].value
                                             /\ entries[k].key \notin Meta!Recognised}
             S == {k \in at : Meta!ExtensionKey(entries[k].key) = Meta!ExtensionKey(e.key)}
  <2>1. i \in S /\ S \subseteq DOMAIN entries BY <1>9
  <2>2. PICK j \in S : j \in Meta!Latest(S)
    <3> HIDE DEF S
    <3> QED BY <2>1, LookupFinds
  <2>3. j \in Meta!Extensions(entries, e.root) BY <2>2 DEF Meta!Extensions, Meta!Latest
  <2>4. e.root \in BOOLEAN BY <1>1 DEF Meta!EntryType
  <2>5. Meta!SameMeaning(e, entries[j]) /\ j \in DOMAIN entries BY DEF Meta!SameMeaning
  <2>6. e.key \notin Meta!Versions BY <1>9 DEF Meta!Versions, Meta!Recognised
  <2> HIDE DEF e
  <2>7. \E p \in DOMAIN doc : j \in doc[p]
    <3>1. CASE e.root = TRUE
      <4>1. "root" \in DOMAIN doc /\ j \in doc["root"]
        BY <2>3, <3>1, DocumentFields DEF doc
      <4> QED BY <4>1
    <3>2. CASE e.root = FALSE
      <4>1. "info" \in DOMAIN doc /\ j \in doc["info"]
        BY <2>3, <3>2, DocumentFields DEF doc
      <4> QED BY <4>1
    <3> QED BY <2>4, <3>1, <3>2
  <2> QED BY <2>5, <2>6, <2>7 DEF doc, e
<1>10. \/ e.key \in Meta!Versions
       \/ e.key \in {"host", "server"}
       \/ e.key \in {"summary", "license", "license-id", "license-url"}
       \/ e.key = "security"
       \/ e.key = "webhook_groups"
       \/ e.key \notin Meta!Recognised
  BY <1>2 DEF Meta!Versions, Meta!Recognised
<1> QED BY <1>4, <1>5, <1>6, <1>7, <1>8, <1>9, <1>10

\* However many entries there are and whatever their keys: each that has a value
\* fills one part of the document, or another that fills the same place does.
THEOREM EntriesRouted == \A entries \in Meta!Entries : Meta!Routed(entries)
<1> SUFFICES ASSUME NEW entries \in Meta!Entries, NEW i \in DOMAIN entries,
                    entries[i].value, ~Meta!PassedOver(entries, i)
             PROVE  LET doc == Meta!Document(entries)
                        In(k) == {q \in DOMAIN doc : k \in doc[q]}
                    IN  \/ \E q \in DOMAIN doc : In(i) = {q}
                        \/ /\ In(i) = {}
                           /\ \E k \in DOMAIN entries :
                                In(k) # {} /\ Meta!SameMeaning(entries[i], entries[k])
                           /\ entries[i].key \in Meta!Versions => Meta!MultipleVersions(entries)
  BY DEF Meta!Routed
<1>1. PICK j \in DOMAIN entries, p \in DOMAIN Meta!Document(entries) :
        /\ j \in Meta!Document(entries)[p] /\ Meta!SameMeaning(entries[i], entries[j])
        /\ i # j /\ entries[i].key \in Meta!Versions => Meta!MultipleVersions(entries)
  BY SomeFills
<1> QED BY <1>1, RoutedIf

-----------------------------------------------------------------------------
(* Loops over the lines of a text.                                           *)

LEMMA SetInduction ==
  ASSUME NEW T, 0 \in T, \A n \in Nat : n \in T => n + 1 \in T
  PROVE  \A n \in Nat : n \in T
<1> DEFINE U == {n \in Nat : n \notin T}
<1> SUFFICES ASSUME U # {} PROVE FALSE OBVIOUS
<1>1. PICK n \in U : \A m \in U : n <= m BY LeastNatural
<1>2. n \in Nat /\ n # 0 OBVIOUS
<1>3. n - 1 \in Nat /\ ~(n <= n - 1) /\ (n - 1) + 1 = n BY <1>2
<1>4. n - 1 \in T BY <1>1, <1>3
<1> QED BY <1>3, <1>4

\* A loop whose steps map S to S can be run.
Closed(S, step, n) == \A x \in S : \A i \in 1..n : step[<<x, i>>] \in S

IsRun(f, S, b, step, n) ==
  /\ DOMAIN f = 0..n /\ f[0] = b
  /\ \A i \in 1..n : f[i - 1] \in S /\ f[i] = step[<<f[i - 1], i>>]

LEMMA LoopRuns ==
  ASSUME NEW S, NEW b \in S, NEW n \in Nat, NEW step, Closed(S, step, n)
  PROVE  \E f : IsRun(f, S, b, step, n)
<1> USE DEF Closed, IsRun
<1> DEFINE Run(f, k) == IsRun(f, S, b, step, k)
           T == {k \in Nat : k <= n => \E f : Run(f, k) /\ f[k] \in S}
<1>1. 0 \in T
  <2> DEFINE f == [i \in 0..0 |-> b]
  <2>1. DOMAIN f = 0..0 /\ f[0] = b /\ 1..0 = {} OBVIOUS
  <2> HIDE DEF f
  <2> QED BY <2>1
<1>2. ASSUME NEW k \in Nat, k \in T PROVE k + 1 \in T
  <2> SUFFICES ASSUME k + 1 <= n PROVE \E f : Run(f, k + 1) /\ f[k + 1] \in S OBVIOUS
  <2>1. k <= n /\ k + 1 \in 1..n OBVIOUS
  <2>2. PICK f : Run(f, k) /\ f[k] \in S BY <1>2, <2>1
  <2> DEFINE g == [i \in 0..(k + 1) |-> IF i = k + 1 THEN step[<<f[k], k + 1>>] ELSE f[i]]
  <2>3. /\ DOMAIN g = 0..(k + 1)
        /\ g[k + 1] = step[<<f[k], k + 1>>]
        /\ \A i \in 0..k : g[i] = f[i]
    OBVIOUS
  <2> HIDE DEF g
  <2>4. 0 \in 0..k /\ k \in 0..k OBVIOUS
  <2>5. ASSUME NEW i \in 1..(k + 1)
        PROVE  g[i - 1] \in S /\ g[i] = step[<<g[i - 1], i>>]
    <3>1. CASE i = k + 1
      <4>1. i - 1 = k BY <3>1
      <4> QED BY <2>2, <2>3, <2>4, <3>1, <4>1
    <3>2. CASE i # k + 1
      <4>1. i \in 1..k /\ i \in 0..k /\ i - 1 \in 0..k BY <3>2
      <4>2. f[i - 1] \in S /\ f[i] = step[<<f[i - 1], i>>] BY <2>2, <4>1
      <4> QED BY <2>3, <4>1, <4>2
    <3> QED BY <3>1, <3>2
  <2>6. g[0] = b BY <2>2, <2>3, <2>4
  <2>7. g[k + 1] \in S BY <2>1, <2>2, <2>3
  <2>8. Run(g, k + 1) BY <2>3, <2>5, <2>6
  <2> QED BY <2>7, <2>8
<1>3. n \in T
  <2> HIDE DEF T
  <2> QED BY <1>1, <1>2, SetInduction
<1> QED BY <1>3

LEMMA LoopInduction ==
  ASSUME NEW n \in Nat, NEW T, 0 \in T, \A i \in 1..n : i - 1 \in T => i \in T
  PROVE  \A i \in 0..n : i \in T
<1> DEFINE U == {i \in Nat : i <= n => i \in T}
<1>1. 0 \in U OBVIOUS
<1>2. ASSUME NEW i \in Nat, i \in U PROVE i + 1 \in U
  <2> SUFFICES ASSUME i + 1 <= n PROVE i + 1 \in T OBVIOUS
  <2>1. i + 1 \in 1..n /\ (i + 1) - 1 = i /\ i <= n OBVIOUS
  <2> QED BY <1>2, <2>1
<1> HIDE DEF U
<1>3. \A i \in Nat : i \in U BY <1>1, <1>2, SetInduction
<1> QED BY <1>3 DEF U

-----------------------------------------------------------------------------
(* The lines of a description (MemberLines).                                *)

\* t is a description, and N are some of its lines.
IsText(t) ==
  /\ Len(t) \in Nat /\ DOMAIN t = 1..Len(t)
  /\ \A i \in DOMAIN t : t[i].indent \in Nat

LEMMA DescriptionsAreTexts == \A t \in Desc!Descriptions : IsText(t)
<1> SUFFICES ASSUME NEW t \in Seq(Desc!LineType) PROVE IsText(t) BY DEF Desc!Descriptions
<1>1. \A l \in Desc!LineType : l.indent \in Nat BY DEF Desc!LineType
<1>2. \A i \in DOMAIN t : t[i] \in Desc!LineType BY LenProperties, ElementOfSeq
<1> QED BY <1>1, <1>2, LenProperties DEF IsText

LEMMA KindsOfLines ==
  \A t \in Desc!Descriptions : \A i \in DOMAIN t : t[i].kind \in Desc!Kinds
<1> SUFFICES ASSUME NEW t \in Seq(Desc!LineType), NEW i \in DOMAIN t
             PROVE  t[i].kind \in Desc!Kinds
  BY DEF Desc!Descriptions
<1>1. \A l \in Desc!LineType : l.kind \in Desc!Kinds BY DEF Desc!LineType
<1>2. t[i] \in Desc!LineType BY LenProperties, ElementOfSeq
<1> QED BY <1>1, <1>2

\* The block of a line goes on up to its end.
LEMMA BlockWhole ==
  ASSUME NEW t, IsText(t), NEW N, N \subseteq DOMAIN t, NEW p \in DOMAIN t,
         NEW j \in Desc!Following(t, N, p), NEW i \in N, p < i, i <= j
  PROVE  /\ i \in Desc!Following(t, N, p)
         /\ j \in Desc!CollectSubLines(t, N, p) => i \in Desc!CollectSubLines(t, N, p)
<1>1. \A k \in N : k \in Nat BY DEF IsText
<1>2. p \in Nat /\ j \in N BY DEF IsText, Desc!Following
<1>3. i \in Desc!Following(t, N, p) BY <1>1, <1>2 DEF Desc!Following
<1>4. ASSUME j \in Desc!CollectSubLines(t, N, p) PROVE i \in Desc!CollectSubLines(t, N, p)
  <2>1. PICK m \in Desc!Following(t, N, p) : j <= m /\ Desc!Text(t, m)
    BY <1>4 DEF Desc!CollectSubLines
  <2>2. m \in N BY DEF Desc!Following
  <2>3. i <= m BY <1>1, <1>2, <2>1, <2>2
  <2> QED BY <1>3, <2>1, <2>3 DEF Desc!CollectSubLines
<1> QED BY <1>3, <1>4

LEMMA BlockLines ==
  ASSUME NEW t, IsText(t), NEW N, N \subseteq DOMAIN t, NEW p \in DOMAIN t
  PROVE  /\ Desc!CollectSubLines(t, N, p) \subseteq Desc!Following(t, N, p)
         /\ Desc!Following(t, N, p) \subseteq N
         /\ \A j \in Desc!Following(t, N, p) : p < j /\ Desc!Deeper(t, j, t[p].indent)
BY DEF Desc!CollectSubLines, Desc!Following, IsText

\* The block of a line in a block is in it, and is the same among its lines as
\* among all.
LEMMA BlockInBlock ==
  ASSUME NEW t, IsText(t), NEW N, N \subseteq DOMAIN t, NEW p \in DOMAIN t,
         NEW i \in Desc!CollectSubLines(t, N, p), Desc!Text(t, i)
  PROVE  LET block == Desc!CollectSubLines(t, N, p)
         IN  /\ Desc!CollectSubLines(t, N, i) \subseteq block
             /\ Desc!CollectSubLines(t, block, i) = Desc!CollectSubLines(t, N, i)
<1> DEFINE block == Desc!CollectSubLines(t, N, p)
<1>1. \A k \in DOMAIN t : k \in Nat /\ t[k].indent \in Nat BY DEF IsText
<1>2. i \in Desc!Following(t, N, p) /\ i \in N /\ p < i BY BlockLines
<1>3. t[i].indent > t[p].indent
  <2>1. Desc!Deeper(t, i, t[p].indent) BY <1>2, BlockLines
  <2> QED BY <2>1 DEF Desc!Deeper, Desc!Text
<1>4. ASSUME NEW j \in Desc!Following(t, N, i) PROVE j \in Desc!Following(t, N, p)
  <2>1. j \in N /\ i < j BY <1>2, BlockLines
  <2>2. ASSUME NEW m \in N, p < m, m <= j PROVE Desc!Deeper(t, m, t[p].indent)
    <3>1. CASE m <= i BY <1>2, <2>2, <3>1 DEF Desc!Following
    <3>2. CASE i < m
      <4>1. Desc!Deeper(t, m, t[i].indent) BY <2>2, <3>2 DEF Desc!Following
      <4> QED BY <1>1, <1>2, <1>3, <4>1 DEF Desc!Deeper
    <3> QED BY <1>1, <1>2, <3>1, <3>2
  <2>3. p < j BY <1>1, <1>2, <2>1
  <2> QED BY <2>1, <2>2, <2>3 DEF Desc!Following
<1>5. ASSUME NEW j \in Desc!CollectSubLines(t, N, i) PROVE j \in block
  BY <1>4 DEF Desc!CollectSubLines
<1>6. block \subseteq N BY BlockLines
<1>7. Desc!Following(t, block, i) = Desc!Following(t, N, i) \cap block
  <2>1. ASSUME NEW j \in Desc!Following(t, block, i) PROVE j \in Desc!Following(t, N, i)
    <3>1. j \in block /\ i < j BY DEF Desc!Following
    <3>2. ASSUME NEW m \in N, i < m, m <= j PROVE m \in block
      <4>1. p < m BY <1>1, <1>2, <3>2
      <4>2. j \in Desc!Following(t, N, p) BY <3>1, BlockLines
      <4> QED BY <3>1, <3>2, <4>1, <4>2, BlockWhole
    <3> QED BY <1>6, <3>1, <3>2 DEF Desc!Following
  <2>2. ASSUME NEW j \in Desc!Following(t, N, i), j \in block
        PROVE  j \in Desc!Following(t, block, i)
    BY <1>6, <2>2 DEF Desc!Following
  <2>3. Desc!Following(t, block, i) \subseteq block BY DEF Desc!Following
  <2> QED BY <2>1, <2>2, <2>3
<1>8. Desc!CollectSubLines(t, block, i) \subseteq Desc!CollectSubLines(t, N, i)
  BY <1>7 DEF Desc!CollectSubLines
<1>9. ASSUME NEW j \in Desc!CollectSubLines(t, N, i)
      PROVE  j \in Desc!CollectSubLines(t, block, i)
  <2>1. PICK m \in Desc!Following(t, N, i) : j <= m /\ Desc!Text(t, m)
    BY DEF Desc!CollectSubLines
  <2>2. m <= m BY <1>1, <1>2, BlockLines
  <2>3. m \in Desc!CollectSubLines(t, N, i) BY <2>1, <2>2 DEF Desc!CollectSubLines
  <2>4. m \in Desc!Following(t, block, i) BY <1>5, <1>7, <2>3
  <2>5. j \in Desc!Following(t, block, i) BY <1>5, <1>7 DEF Desc!CollectSubLines
  <2> QED BY <2>1, <2>4, <2>5 DEF Desc!CollectSubLines
<1> QED BY <1>5, <1>8, <1>9

-----------------------------------------------------------------------------
(* The blocks that are taken out.                                            *)

StripState == [in : BOOLEAN, indent : Nat, kept : SUBSET Nat]

StripStart == [in |-> FALSE, indent |-> 0, kept |-> {}]

LEMMA StripLineType ==
  ASSUME NEW t, IsText(t), NEW kind, NEW s \in StripState, NEW i \in DOMAIN t
  PROVE  /\ Desc!StripLine(t, kind, s, i) \in StripState
         /\ Desc!StripLine(t, kind, s, i).kept \subseteq s.kept \cup {i}
<1>1. i \in Nat /\ t[i].indent \in Nat BY DEF IsText
<1>2. s.in \in BOOLEAN BY DEF StripState
<1> DEFINE ends == [s EXCEPT !.in = FALSE, !.kept = @ \cup {i}]
           starts == [s EXCEPT !.in = TRUE, !.indent = t[i].indent]
           keeps == [s EXCEPT !.kept = @ \cup {i}]
<1>3. ends \in StripState /\ starts \in StripState /\ keeps \in StripState
  BY <1>1 DEF StripState
<1>4. /\ ends.kept = s.kept \cup {i} /\ starts.kept = s.kept /\ keeps.kept = s.kept \cup {i}
  BY DEF StripState
<1>5. Desc!StripLine(t, kind, s, i) \in {s, ends, starts, keeps} BY <1>2 DEF Desc!StripLine
<1> HIDE DEF ends, starts, keeps
<1> QED BY <1>3, <1>4, <1>5

\* The scanner that takes out the blocks of a kind, line after line.
StripRun(t, N, kind, f) ==
  /\ f[0] = StripStart
  /\ \A i \in 1..Len(t) :
       /\ f[i - 1] \in StripState
       /\ f[i] = IF i \in N THEN Desc!StripLine(t, kind, f[i - 1], i) ELSE f[i - 1]

LEMMA StripRuns ==
  ASSUME NEW t, IsText(t), NEW N, NEW kind
  PROVE  \E f : StripRun(t, N, kind, f) /\ Desc!StripBlocks(t, N, kind) = f[Len(t)].kept
<1> DEFINE n == Len(t)
           Step(s, i) == IF i \in N THEN Desc!StripLine(t, kind, s, i) ELSE s
           step == [x \in StripState \X (1..n) |-> Step(x[1], x[2])]
           Loop(f) == f = [i \in 0..n |->
                             IF i = 0 THEN [in |-> FALSE, indent |-> 0, kept |-> {}]
                             ELSE IF i \in N THEN Desc!StripLine(t, kind, f[i - 1], i)
                             ELSE f[i - 1]]
           after == CHOOSE f : Loop(f)
<1>1. n \in Nat /\ DOMAIN t = 1..n BY DEF IsText
<1>2. StripStart \in StripState BY DEF StripStart, StripState
<1>3. \A s \in StripState : \A i \in 1..n : step[<<s, i>>] = Step(s, i) OBVIOUS
<1>4. Closed(StripState, step, n)
  <2> SUFFICES ASSUME NEW s \in StripState, NEW i \in 1..n PROVE Step(s, i) \in StripState
    BY <1>3 DEF Closed
  <2> QED BY <1>1, StripLineType
<1>5. Desc!StripBlocks(t, N, kind) = after[n].kept BY DEF Desc!StripBlocks
<1> HIDE DEF step, n
<1>6. PICK f : IsRun(f, StripState, StripStart, step, n) BY <1>1, <1>2, <1>4, LoopRuns
<1> DEFINE g == [i \in 0..n |-> f[i]]
<1>7. Loop(g)
  <2>1. \A i \in 0..n : g[i] = f[i] OBVIOUS
  <2>2. ASSUME NEW i \in 0..n
        PROVE  g[i] = IF i = 0 THEN [in |-> FALSE, indent |-> 0, kept |-> {}]
                      ELSE IF i \in N THEN Desc!StripLine(t, kind, g[i - 1], i) ELSE g[i - 1]
    <3>1. CASE i = 0 BY <1>6, <2>1, <3>1 DEF IsRun, StripStart
    <3>2. CASE i # 0
      <4>1. i \in 1..n /\ i - 1 \in 0..n BY <1>1, <3>2
      <4>2. f[i] = Step(f[i - 1], i) BY <1>3, <1>6, <4>1 DEF IsRun
      <4> QED BY <2>1, <3>2, <4>1, <4>2
    <3> QED BY <3>1, <3>2
  <2>3. g = [i \in 0..n |-> g[i]] OBVIOUS
  <2> HIDE DEF g
  <2> QED BY <2>2, <2>3
<1> HIDE DEF g
<1>8. Loop(after) BY <1>7
<1>9. \A i \in 0..n :
        after[i] = IF i = 0 THEN [in |-> FALSE, indent |-> 0, kept |-> {}]
                   ELSE IF i \in N THEN Desc!StripLine(t, kind, after[i - 1], i)
                   ELSE after[i - 1]
  BY <1>8
<1> HIDE DEF after, Loop
<1>10. after[0] = StripStart BY <1>1, <1>9 DEF StripStart
<1>11. \A i \in 1..n : i # 0 /\ i \in 0..n /\ i - 1 \in 0..n BY <1>1
<1>12. \A i \in 1..n : after[i] = Step(after[i - 1], i) BY <1>9, <1>11
<1>13. \A i \in 0..n : after[i] \in StripState
  <2> DEFINE T == {i \in 0..n : after[i] \in StripState}
  <2>1. 0 \in T BY <1>1, <1>2, <1>10
  <2>2. \A i \in 1..n : i - 1 \in T => i \in T
    <3> SUFFICES ASSUME NEW i \in 1..n, after[i - 1] \in StripState
                 PROVE  after[i] \in StripState
      BY <1>11
    <3>1. i \in DOMAIN t BY <1>1
    <3> QED BY <1>12, <3>1, StripLineType
  <2> HIDE DEF T
  <2>3. \A i \in 0..n : i \in T BY <1>1, <2>1, <2>2, LoopInduction
  <2> QED BY <2>3 DEF T
<1>14. StripRun(t, N, kind, after) BY <1>10, <1>11, <1>12, <1>13 DEF StripRun, n
<1> QED BY <1>5, <1>14 DEF n

\* What stays is without the first block.
LEMMA StripTakes ==
  ASSUME NEW t, IsText(t), NEW N, N \subseteq DOMAIN t, NEW kind
  PROVE  /\ Desc!StripBlocks(t, N, kind) \subseteq N
         /\ Desc!StripBlocks(t, N, kind) \cap Desc!FirstBlock(t, N, kind) = {}
<1>1. PICK f : StripRun(t, N, kind, f) /\ Desc!StripBlocks(t, N, kind) = f[Len(t)].kept
  BY StripRuns
<1> DEFINE n == Len(t)
<1>2. n \in Nat /\ DOMAIN t = 1..n BY DEF IsText
<1>3. ASSUME NEW i \in 1..n
      PROVE  /\ i \in Nat /\ i - 1 \in 0..n /\ i - 1 \in Nat
             /\ f[i - 1] \in StripState /\ f[i - 1].in \in BOOLEAN
             /\ f[i] = IF i \in N THEN Desc!StripLine(t, kind, f[i - 1], i) ELSE f[i - 1]
  BY <1>1, <1>2 DEF StripRun, StripState
<1>4. f[0].kept = {} /\ f[0].in = FALSE BY <1>1 DEF StripRun, StripStart
<1>5. \A i \in 1..n : f[i].kept \subseteq f[i - 1].kept \cup ({i} \cap N)
  <2> TAKE i \in 1..n
  <2>1. CASE i \in N BY <1>2, <1>3, <2>1, StripLineType
  <2>2. CASE i \notin N BY <1>3, <2>2
  <2> QED BY <2>1, <2>2
<1>6. \A i \in 0..n : f[i].kept \subseteq N \cap (1..i)
  <2> DEFINE T == {i \in 0..n : f[i].kept \subseteq N \cap (1..i)}
  <2>1. 0 \in T BY <1>2, <1>4
  <2>2. ASSUME NEW i \in 1..n, i - 1 \in T PROVE i \in T
    <3>1. 1..(i - 1) \subseteq 1..i /\ i \in 1..i BY <1>3
    <3> QED BY <1>5, <2>2, <3>1
  <2> HIDE DEF T
  <2>3. \A i \in 0..n : i \in T BY <1>2, <2>1, <2>2, LoopInduction
  <2> QED BY <2>3 DEF T
<1>7. ASSUME NEW h \in Desc!First(t, N, kind)
      PROVE  f[n].kept \cap Desc!Following(t, N, h) = {}
  <2> DEFINE F == Desc!Following(t, N, h)
  <2>1. h \in N /\ t[h].kind = kind /\ \A j \in N : j < h => t[j].kind # kind
    BY DEF Desc!First
  <2>2. h \in 1..n /\ F \subseteq N /\ \A j \in F : h < j BY <1>2, <2>1, BlockLines
  \* Before h nothing is taken out; after it the block of h is, up to its end.
  <2> DEFINE In(i) == \A m \in N : h < m /\ m <= i => m \in F
             Right(i) == /\ i < h => f[i].in = FALSE
                         /\ h <= i => f[i].kept \cap F = {}
                         /\ h <= i /\ In(i) => f[i].in = TRUE /\ f[i].indent = t[h].indent
             T == {i \in 0..n : Right(i)}
  <2>3. 0 \in T BY <1>2, <1>4, <2>2
  <2>4. ASSUME NEW i \in 1..n, i - 1 \in T PROVE i \in T
    <3>1. Right(i - 1) /\ i \in 0..n BY <1>3, <2>4
    <3>2. CASE i < h
      <4>1. f[i - 1].in = FALSE BY <1>3, <2>2, <3>1, <3>2
      <4>2. i \in N => t[i].kind # kind BY <2>1, <3>2
      <4>3. f[i].in = FALSE BY <1>3, <4>1, <4>2 DEF Desc!StripLine, StripState
      <4> QED BY <1>3, <2>2, <3>1, <3>2, <4>3
    <3>3. CASE i = h
      <4>1. f[i - 1].in = FALSE BY <1>3, <2>2, <3>1, <3>3
      <4>2. f[i] = [f[i - 1] EXCEPT !.in = TRUE, !.indent = t[h].indent]
        BY <1>3, <2>1, <3>3, <4>1 DEF Desc!StripLine
      <4>3. f[i].in = TRUE /\ f[i].indent = t[h].indent /\ f[i].kept = f[i - 1].kept
        BY <1>3, <4>2 DEF StripState
      <4>4. \A j \in f[i].kept : j \in 1..(i - 1) BY <1>3, <1>6, <4>3
      <4>5. f[i].kept \cap F = {}
        <5>1. \A j \in F : j \notin 1..(i - 1) BY <1>2, <1>3, <2>2, <3>3
        <5> QED BY <4>4, <5>1
      <4> HIDE DEF F
      <4> QED BY <1>3, <3>1, <3>3, <4>3, <4>5
    <3>4. CASE h < i
      <4>1. f[i - 1].kept \cap F = {} /\ h <= i - 1 BY <1>3, <2>2, <3>1, <3>4
      <4>2. In(i) => In(i - 1) BY <1>2, <1>3
      <4>3. CASE i \notin N
        <5>1. f[i] = f[i - 1] BY <1>3, <4>3
        <5>2. \A m \in N : m <= i => m <= i - 1 BY <1>2, <1>3, <4>3
        <5>3. In(i - 1) => f[i - 1].in = TRUE /\ f[i - 1].indent = t[h].indent
          BY <3>1, <4>1
        <5> HIDE DEF F, In
        <5> QED BY <1>3, <2>2, <3>1, <3>4, <4>1, <4>2, <5>1, <5>3
      <4>4. CASE i \in N /\ i \in F
        <5>1. Desc!Deeper(t, i, t[h].indent) BY <1>2, <2>2, <4>4, BlockLines
        <5>2. ASSUME NEW m \in N, h < m, m <= i - 1 PROVE m \in F
          <6>1. m <= i BY <1>2, <1>3, <5>2
          <6> QED BY <1>2, <2>2, <4>4, <5>2, <6>1, BlockWhole
        <5>3. f[i - 1].in = TRUE /\ f[i - 1].indent = t[h].indent
          BY <3>1, <4>1, <5>2
        <5>4. f[i] = f[i - 1] BY <1>3, <4>4, <5>1, <5>3 DEF Desc!StripLine
        <5> HIDE DEF F
        <5> QED BY <1>3, <2>2, <3>1, <3>4, <4>1, <5>3, <5>4
      <4>5. CASE i \in N /\ i \notin F
        <5>1. ~In(i) BY <1>3, <3>4, <4>5
        <5>2. f[i].kept \cap F = {} BY <1>5, <4>1, <4>5
        <5> HIDE DEF F, In
        <5> QED BY <1>3, <2>2, <3>1, <3>4, <5>1, <5>2
      <4> QED BY <4>3, <4>4, <4>5
    <3>5. i < h \/ i = h \/ h < i BY <1>3, <2>2
    <3> HIDE DEF Right
    <3> QED BY <3>2, <3>3, <3>4, <3>5
  <2>5. n \in 0..n BY <1>2
  <2> HIDE DEF T
  <2>6. n \in T BY <1>2, <2>3, <2>4, <2>5, LoopInduction
  <2> QED BY <1>2, <2>2, <2>6 DEF T
<1>8. f[n].kept \subseteq N BY <1>2, <1>6
<1> QED BY <1>1, <1>7, <1>8 DEF Desc!FirstBlock

\* Pairs, the body of a patch and what is left have no line in common.
LEMMA ExtractDivides ==
  ASSUME NEW t, IsText(t)
  PROVE  LET x == Desc!Extract(t)
         IN  /\ x.rest \subseteq DOMAIN t
             /\ x.meta \cap x.rest = {} /\ x.patch \cap x.rest = {} /\ x.meta \cap x.patch = {}
<1> DEFINE pairs == Desc!MetaPairs(t, DOMAIN t)
           rest == IF pairs # {} THEN Desc!StripBlocks(t, DOMAIN t, "meta") ELSE DOMAIN t
           patch == Desc!PatchBody(t, rest)
           left == IF patch # {} THEN Desc!StripBlocks(t, rest, "patch") ELSE rest
<1>1. pairs \cap rest = {} /\ rest \subseteq DOMAIN t
  <2>1. pairs \subseteq Desc!FirstBlock(t, DOMAIN t, "meta") BY DEF Desc!MetaPairs
  <2> HIDE DEF pairs
  <2> QED BY <2>1, StripTakes
<1> HIDE DEF pairs, rest
<1>2. patch \subseteq Desc!FirstBlock(t, rest, "patch") BY DEF Desc!PatchBody
<1>3. patch \subseteq rest BY <1>2 DEF Desc!FirstBlock, Desc!Following
<1>4. patch \cap left = {} /\ left \subseteq rest
  <2> HIDE DEF patch
  <2> QED BY <1>1, <1>2, StripTakes
<1>5. Desc!Extract(t) = [meta |-> pairs, patch |-> patch, rest |-> left]
  BY DEF Desc!Extract, pairs, rest
<1> HIDE DEF patch, left
<1> QED BY <1>1, <1>3, <1>4, <1>5

-----------------------------------------------------------------------------
(* The members of one object.                                                *)

MembersType == [props : SUBSET Nat, required : SUBSET Nat]

LEMMA AddType ==
  ASSUME NEW t, NEW m \in MembersType, NEW i \in Nat
  PROVE  Desc!Add(t, m, i) \in MembersType
BY DEF Desc!Add, MembersType

\* A line that is added after all others.
LEMMA AddOne ==
  ASSUME NEW t, NEW S \in SUBSET Nat, NEW i \in Nat, \A j \in S : j < i,
         NEW m, Desc!MembersAre(t, m, S)
  PROVE  Desc!MembersAre(t, Desc!Add(t, m, i), S \cup {i})
<1> DEFINE more == Desc!Add(t, m, i)
           R == S \cup {i}
<1>1. /\ m.props = {k \in S : \A j \in S : Desc!Name(t, j) = Desc!Name(t, k) => j <= k}
      /\ m.required = {k \in S : t[k].required}
  BY DEF Desc!MembersAre
<1>2. /\ more.props = {j \in m.props : Desc!Name(t, j) # Desc!Name(t, i)} \cup {i}
      /\ more.required = IF t[i].required THEN m.required \cup {i} ELSE m.required
  BY DEF Desc!Add
<1>3. more.required = {k \in R : t[k].required} BY <1>1, <1>2
<1>4. \A j \in R : j \in Nat /\ j <= i /\ (j = i \/ (j \in S /\ j < i)) OBVIOUS
<1>5. ASSUME NEW k \in R
      PROVE  k \in more.props <=>
               \A j \in R : Desc!Name(t, j) = Desc!Name(t, k) => j <= k
  <2> HIDE DEF more
  <2>1. CASE k = i BY <1>2, <1>4, <2>1
  <2>2. CASE k # i
    <3>1. k \in S /\ ~(i <= k) BY <1>4, <2>2
    <3> QED BY <1>1, <1>2, <3>1
  <2> QED BY <2>1, <2>2
<1>6. more.props \subseteq R BY <1>1, <1>2
<1> HIDE DEF more, R
<1>7. more.props = {k \in R : \A j \in R : Desc!Name(t, j) = Desc!Name(t, k) => j <= k}
  BY <1>5, <1>6
<1> QED BY <1>3, <1>7 DEF Desc!MembersAre, more, R

LEMMA NoneAre == \A t : Desc!MembersAre(t, Desc!NoMembers, {})
BY DEF Desc!MembersAre, Desc!NoMembers

\* Added one after the other, the members are the last ones of each name.
LEMMA AddAllAre ==
  ASSUME NEW t, IsText(t), NEW lines \in SUBSET DOMAIN t
  PROVE  Desc!MembersAre(t, Desc!AddAll(t, lines), lines)
<1> DEFINE n == Len(t)
           Step(m, i) == IF i \in lines THEN Desc!Add(t, m, i) ELSE m
           step == [x \in MembersType \X (1..n) |-> Step(x[1], x[2])]
           Loop(f) == f = [i \in 0..n |->
                             IF i = 0 THEN Desc!NoMembers
                             ELSE IF i \in lines THEN Desc!Add(t, f[i - 1], i) ELSE f[i - 1]]
           after == CHOOSE f : Loop(f)
<1>1. n \in Nat /\ DOMAIN t = 1..n BY DEF IsText
<1>2. Desc!NoMembers \in MembersType BY DEF Desc!NoMembers, MembersType
<1>3. \A m \in MembersType : \A i \in 1..n : step[<<m, i>>] = Step(m, i) OBVIOUS
<1>4. Closed(MembersType, step, n)
  <2> SUFFICES ASSUME NEW m \in MembersType, NEW i \in 1..n PROVE Step(m, i) \in MembersType
    BY <1>3 DEF Closed
  <2> QED BY <1>1, AddType
<1>5. Desc!AddAll(t, lines) = after[n] BY DEF Desc!AddAll
<1>6. \A i \in 1..n : i \in Nat /\ i # 0 /\ i \in 0..n /\ i - 1 \in 0..n BY <1>1
<1> HIDE DEF step, n
<1>7. PICK f : IsRun(f, MembersType, Desc!NoMembers, step, n) BY <1>1, <1>2, <1>4, LoopRuns
<1> DEFINE g == [i \in 0..n |-> f[i]]
<1>8. Loop(g)
  <2>1. \A i \in 0..n : g[i] = f[i] OBVIOUS
  <2>2. ASSUME NEW i \in 0..n
        PROVE  g[i] = IF i = 0 THEN Desc!NoMembers
                      ELSE IF i \in lines THEN Desc!Add(t, g[i - 1], i) ELSE g[i - 1]
    <3>1. CASE i = 0 BY <1>7, <2>1, <3>1 DEF IsRun
    <3>2. CASE i # 0
      <4>1. i \in 1..n /\ i - 1 \in 0..n BY <1>1, <3>2
      <4>2. f[i] = Step(f[i - 1], i) BY <1>3, <1>7, <4>1 DEF IsRun
      <4> QED BY <2>1, <3>2, <4>1, <4>2
    <3> QED BY <3>1, <3>2
  <2>3. g = [i \in 0..n |-> g[i]] OBVIOUS
  <2> HIDE DEF g
  <2> QED BY <2>2, <2>3
<1> HIDE DEF g
<1>9. Loop(after) BY <1>8
<1>10. \A i \in 0..n :
         after[i] = IF i = 0 THEN Desc!NoMembers
                    ELSE IF i \in lines THEN Desc!Add(t, after[i - 1], i) ELSE after[i - 1]
  BY <1>9
<1> HIDE DEF after, Loop
<1> DEFINE So(i) == {j \in lines : j <= i}
           T == {i \in 0..n : Desc!MembersAre(t, after[i], So(i))}
<1>11. 0 \in T
  <2>1. So(0) = {} BY <1>1
  <2>2. after[0] = Desc!NoMembers /\ 0 \in 0..n BY <1>1, <1>10
  <2> QED BY <2>1, <2>2, NoneAre
<1>12. ASSUME NEW i \in 1..n, i - 1 \in T PROVE i \in T
  <2>1. CASE i \in lines
    <3>1. So(i) = So(i - 1) \cup {i} BY <1>1, <1>6, <2>1
    <3>2. So(i - 1) \in SUBSET Nat /\ \A j \in So(i - 1) : j < i BY <1>1, <1>6
    <3>3. after[i] = Desc!Add(t, after[i - 1], i) BY <1>6, <1>10, <2>1
    <3>4. Desc!MembersAre(t, after[i - 1], So(i - 1)) BY <1>12
    <3> HIDE DEF So
    <3>5. Desc!MembersAre(t, after[i], So(i)) BY <1>6, <3>1, <3>2, <3>3, <3>4, AddOne
    <3> QED BY <1>6, <3>5
  <2>2. CASE i \notin lines
    <3>1. So(i) = So(i - 1) BY <1>1, <1>6, <2>2
    <3>2. after[i] = after[i - 1] BY <1>6, <1>10, <2>2
    <3> HIDE DEF So
    <3> QED BY <1>6, <1>12, <3>1, <3>2
  <2> QED BY <2>1, <2>2
<1>13. So(n) = lines BY <1>1
<1>14. n \in T
  <2> HIDE DEF T
  <2> QED BY <1>1, <1>11, <1>12, LoopInduction
<1> HIDE DEF So
<1> QED BY <1>5, <1>13, <1>14

-----------------------------------------------------------------------------
(* What the member scanner has after some lines.                             *)

OptionType == [header : Nat, lines : SUBSET Nat]

RecoverState ==
  [passed : SUBSET Nat, top : SUBSET Nat, inProse : BOOLEAN, inOneOf : BOOLEAN,
   prose : SUBSET Nat, members : MembersType, option : SUBSET OptionType,
   blocks : SUBSET OptionType, patch : SUBSET Nat]

RecoverStart ==
  [passed |-> {}, top |-> {}, inProse |-> TRUE, inOneOf |-> FALSE, prose |-> {},
   members |-> Desc!NoMembers, option |-> {}, blocks |-> {}, patch |-> {}]

\* What a line does: it is skipped, or else read as the header of a One Of, as a
\* line of one, as a member line, or as prose.
LEMMA Skipped ==
  ASSUME NEW t, NEW N, NEW s, NEW i, i \in s.passed \/ t[i].kind = "blank"
  PROVE  Desc!RecoverLine(t, N, s, i) = s
<1>1. CASE i \in s.passed BY <1>1 DEF Desc!RecoverLine
<1>2. CASE t[i].kind = "blank" BY <1>2 DEF Desc!RecoverLine, Desc!HasPrefix
<1> QED BY <1>1, <1>2

LEMMA OneOfHeader ==
  ASSUME NEW t, NEW N, NEW s, NEW i, i \notin s.passed, t[i].kind = "oneof"
  PROVE  Desc!RecoverLine(t, N, s, i) =
           [s EXCEPT !.inProse = FALSE, !.inOneOf = TRUE, !.option = {},
                     !.top = Desc!Top(t, s, i)]
BY DEF Desc!RecoverLine

LEMMA OneOfLine ==
  ASSUME NEW t, NEW N, NEW s, NEW i, i \notin s.passed, t[i].kind \notin {"blank", "oneof"},
         s.inOneOf
  PROVE  Desc!RecoverLine(t, N, s, i) = Desc!AdvanceOneOf(t, s, i)
<1>1. t[i].kind # "blank" /\ t[i].kind # "oneof" OBVIOUS
<1> DEFINE r == Desc!AdvanceOneOf(t, s, i)
<1>2. r = Desc!AdvanceOneOf(t, s, i) OBVIOUS
<1> HIDE DEF r
<1> QED BY <1>1, <1>2 DEF Desc!RecoverLine

LEMMA PrefixLine ==
  ASSUME NEW t, NEW N, NEW s, NEW i, i \notin s.passed, t[i].kind # "oneof",
         Desc!HasPrefix(t, i), ~s.inOneOf
  PROVE  LET here == [s EXCEPT !.top = Desc!Top(t, s, i)]
         IN  Desc!RecoverLine(t, N, s, i) =
               IF \E n \in here.top : t[i].indent > n THEN here
               ELSE Desc!ProcessMemberLine(t, N, here, i)
<1>1. t[i].kind # "blank" BY DEF Desc!HasPrefix
<1> QED BY <1>1 DEF Desc!RecoverLine

LEMMA ProseLine ==
  ASSUME NEW t, NEW N, NEW s, NEW i, i \notin s.passed, t[i].kind = "text", ~s.inOneOf
  PROVE  Desc!RecoverLine(t, N, s, i) =
           IF s.inProse THEN [s EXCEPT !.prose = @ \cup {i}] ELSE s
BY DEF Desc!RecoverLine, Desc!HasPrefix

LEMMA TopType ==
  ASSUME NEW t, NEW s \in RecoverState, NEW i, t[i].indent \in Nat
  PROVE  /\ Desc!Top(t, s, i) \in SUBSET Nat /\ Desc!Top(t, s, i) # {}
         /\ [s EXCEPT !.top = Desc!Top(t, s, i)] \in RecoverState
<1>1. Desc!Top(t, s, i) \in SUBSET Nat /\ Desc!Top(t, s, i) # {}
  BY DEF Desc!Top, RecoverState
<1> QED BY <1>1 DEF RecoverState

LEMMA AdvanceType ==
  ASSUME NEW t, NEW s \in RecoverState, NEW i \in Nat
  PROVE  Desc!AdvanceOneOf(t, s, i) \in RecoverState
<1>1. CASE t[i].kind = "properties"
  <2> DEFINE opened == {[header |-> i, lines |-> {}]}
  <2>1. opened \in SUBSET OptionType BY DEF OptionType
  <2>2. Desc!AdvanceOneOf(t, s, i) = [s EXCEPT !.option = opened, !.blocks = @ \cup s.option]
    BY <1>1 DEF Desc!AdvanceOneOf
  <2> HIDE DEF opened
  <2> QED BY <2>1, <2>2 DEF RecoverState
<1>2. CASE t[i].kind # "properties" /\ Desc!IsMember(t, i)
  <2> DEFINE longer == {[header |-> o.header, lines |-> o.lines \cup {i}] : o \in s.option}
  <2>1. longer \in SUBSET OptionType BY DEF OptionType, RecoverState
  <2>2. Desc!AdvanceOneOf(t, s, i) = [s EXCEPT !.option = longer]
    BY <1>2 DEF Desc!AdvanceOneOf
  <2> HIDE DEF longer
  <2> QED BY <2>1, <2>2 DEF RecoverState
<1>3. CASE t[i].kind # "properties" /\ ~Desc!IsMember(t, i)
  BY <1>3 DEF Desc!AdvanceOneOf
<1> QED BY <1>1, <1>2, <1>3

LEMMA ProcessType ==
  ASSUME NEW t, IsText(t), NEW N, N \subseteq DOMAIN t, NEW s \in RecoverState,
         NEW i \in DOMAIN t
  PROVE  Desc!ProcessMemberLine(t, N, s, i) \in RecoverState
<1>1. i \in Nat /\ N \subseteq Nat BY DEF IsText
<1>2. /\ Desc!Following(t, N, i) \in SUBSET Nat
      /\ Desc!CollectSubLines(t, N, i) \in SUBSET Nat
      /\ {j \in Desc!Following(t, N, i) : Desc!Text(t, j)} \in SUBSET Nat
  BY <1>1, BlockLines
<1>3. s.members \in MembersType BY DEF RecoverState
<1>4. Desc!Add(t, s.members, i) \in MembersType BY <1>1, <1>3, AddType
<1>5. CASE t[i].kind = "patch"
  <2>1. Desc!ProcessMemberLine(t, N, s, i) =
          [s EXCEPT !.inProse = FALSE, !.passed = @ \cup Desc!Following(t, N, i),
                    !.patch = @ \cup {j \in Desc!Following(t, N, i) : Desc!Text(t, j)}]
    BY <1>5 DEF Desc!ProcessMemberLine
  <2> QED BY <1>2, <2>1 DEF RecoverState
<1>6. CASE t[i].kind # "patch" /\ Desc!IsMember(t, i)
  <2>1. Desc!ProcessMemberLine(t, N, s, i) =
          [s EXCEPT !.inProse = FALSE, !.passed = @ \cup Desc!CollectSubLines(t, N, i),
                    !.members = Desc!Add(t, s.members, i)]
    BY <1>6 DEF Desc!ProcessMemberLine
  <2> QED BY <1>2, <1>4, <2>1 DEF RecoverState
<1>7. CASE t[i].kind # "patch" /\ ~Desc!IsMember(t, i)
  BY <1>7 DEF Desc!ProcessMemberLine
<1> QED BY <1>5, <1>6, <1>7

LEMMA RecoverLineType ==
  ASSUME NEW t, IsText(t), NEW N, N \subseteq DOMAIN t, NEW s \in RecoverState,
         NEW i \in DOMAIN t
  PROVE  Desc!RecoverLine(t, N, s, i) \in RecoverState
<1>1. i \in Nat /\ t[i].indent \in Nat BY DEF IsText
<1>2. s.inOneOf \in BOOLEAN /\ s.inProse \in BOOLEAN BY DEF RecoverState
<1>3. CASE i \in s.passed \/ t[i].kind = "blank" BY <1>3, Skipped
<1>4. CASE i \notin s.passed /\ t[i].kind = "oneof"
  <2> DEFINE top == Desc!Top(t, s, i)
             r == [s EXCEPT !.inProse = FALSE, !.inOneOf = TRUE, !.option = {}, !.top = top]
  <2>1. top \in SUBSET Nat BY <1>1, TopType
  <2>2. Desc!RecoverLine(t, N, s, i) = r
    <3>1. i \notin s.passed /\ t[i].kind = "oneof" BY <1>4
    <3> QED BY <3>1 DEF Desc!RecoverLine
  <2> HIDE DEF top
  <2>3. r \in RecoverState BY <2>1 DEF RecoverState
  <2> QED BY <2>2, <2>3
<1>5. CASE i \notin s.passed /\ t[i].kind \notin {"blank", "oneof"} /\ s.inOneOf
  BY <1>1, <1>5, OneOfLine, AdvanceType
<1>6. CASE i \notin s.passed /\ t[i].kind # "oneof" /\ Desc!HasPrefix(t, i) /\ ~s.inOneOf
  <2> DEFINE here == [s EXCEPT !.top = Desc!Top(t, s, i)]
  <2>1. here \in RecoverState BY <1>1, TopType
  <2>2. Desc!RecoverLine(t, N, s, i) \in {here, Desc!ProcessMemberLine(t, N, here, i)}
    BY <1>6, PrefixLine
  <2> HIDE DEF here
  <2> QED BY <2>1, <2>2, ProcessType
<1>7. CASE i \notin s.passed /\ t[i].kind = "text" /\ ~s.inOneOf
  <2>1. [s EXCEPT !.prose = @ \cup {i}] \in RecoverState BY <1>1 DEF RecoverState
  <2>2. Desc!RecoverLine(t, N, s, i) \in {s, [s EXCEPT !.prose = @ \cup {i}]}
    BY <1>7, ProseLine
  <2> QED BY <2>1, <2>2
<1> QED BY <1>2, <1>3, <1>4, <1>5, <1>6, <1>7 DEF Desc!HasPrefix

RecoverRun(t, N, f) ==
  /\ f[0] = RecoverStart
  /\ \A i \in 1..Len(t) :
       /\ f[i - 1] \in RecoverState
       /\ f[i] = IF i \in N THEN Desc!RecoverLine(t, N, f[i - 1], i) ELSE f[i - 1]
  /\ f[Len(t)] \in RecoverState

LEMMA RecoverRuns ==
  ASSUME NEW t, IsText(t), NEW N, N \subseteq DOMAIN t
  PROVE  \E f : /\ RecoverRun(t, N, f)
                /\ LET end == f[Len(t)]
                   IN  Desc!Recover(t, N) = [end EXCEPT !.blocks = @ \cup end.option]
<1> DEFINE n == Len(t)
           Step(s, i) == IF i \in N THEN Desc!RecoverLine(t, N, s, i) ELSE s
           step == [x \in RecoverState \X (1..n) |-> Step(x[1], x[2])]
           Loop(f) == f = [i \in 0..n |->
                             IF i = 0
                             THEN [passed |-> {}, top |-> {}, inProse |-> TRUE,
                                   inOneOf |-> FALSE, prose |-> {}, members |-> Desc!NoMembers,
                                   option |-> {}, blocks |-> {}, patch |-> {}]
                             ELSE IF i \in N THEN Desc!RecoverLine(t, N, f[i - 1], i)
                             ELSE f[i - 1]]
           after == CHOOSE f : Loop(f)
<1>1. n \in Nat /\ DOMAIN t = 1..n BY DEF IsText
<1>2. RecoverStart \in RecoverState
  BY DEF RecoverStart, RecoverState, Desc!NoMembers, MembersType
<1>3. \A s \in RecoverState : \A i \in 1..n : step[<<s, i>>] = Step(s, i) OBVIOUS
<1>4. Closed(RecoverState, step, n)
  <2> SUFFICES ASSUME NEW s \in RecoverState, NEW i \in 1..n PROVE Step(s, i) \in RecoverState
    BY <1>3 DEF Closed
  <2> QED BY <1>1, RecoverLineType
<1>5. Desc!Recover(t, N) = [after[n] EXCEPT !.blocks = @ \cup after[n].option]
  BY DEF Desc!Recover
<1>6. \A i \in 1..n : i \in Nat /\ i # 0 /\ i \in 0..n /\ i - 1 \in 0..n BY <1>1
<1> HIDE DEF step, n
<1>7. PICK f : IsRun(f, RecoverState, RecoverStart, step, n) BY <1>1, <1>2, <1>4, LoopRuns
<1> DEFINE g == [i \in 0..n |-> f[i]]
<1>8. Loop(g)
  <2>1. \A i \in 0..n : g[i] = f[i] OBVIOUS
  <2>2. ASSUME NEW i \in 0..n
        PROVE  g[i] = IF i = 0 THEN RecoverStart
                      ELSE IF i \in N THEN Desc!RecoverLine(t, N, g[i - 1], i) ELSE g[i - 1]
    <3>1. CASE i = 0 BY <1>7, <2>1, <3>1 DEF IsRun
    <3>2. CASE i # 0
      <4>1. i \in 1..n /\ i - 1 \in 0..n BY <1>1, <3>2
      <4>2. f[i] = Step(f[i - 1], i) BY <1>3, <1>7, <4>1 DEF IsRun
      <4> QED BY <2>1, <3>2, <4>1, <4>2
    <3> QED BY <3>1, <3>2
  <2>3. g = [i \in 0..n |-> g[i]] OBVIOUS
  <2> HIDE DEF g
  <2> QED BY <2>2, <2>3 DEF RecoverStart
<1> HIDE DEF g
<1>9. Loop(after) BY <1>8
<1>10. \A i \in 0..n :
         after[i] = IF i = 0 THEN RecoverStart
                    ELSE IF i \in N THEN Desc!RecoverLine(t, N, after[i - 1], i)
                    ELSE after[i - 1]
  BY <1>9 DEF RecoverStart
<1> HIDE DEF after, Loop
<1>11. after[0] = RecoverStart /\ 0 \in 0..n /\ n \in 0..n BY <1>1, <1>10
<1>12. \A i \in 1..n : after[i] = Step(after[i - 1], i) BY <1>6, <1>10
<1>13. \A i \in 0..n : after[i] \in RecoverState
  <2> DEFINE T == {i \in 0..n : after[i] \in RecoverState}
  <2>1. 0 \in T BY <1>2, <1>11
  <2>2. ASSUME NEW i \in 1..n, i - 1 \in T PROVE i \in T
    <3>1. i \in DOMAIN t BY <1>1
    <3> QED BY <1>6, <1>12, <2>2, <3>1, RecoverLineType
  <2> HIDE DEF T
  <2>3. \A i \in 0..n : i \in T BY <1>1, <2>1, <2>2, LoopInduction
  <2> QED BY <2>3 DEF T
<1>14. RecoverRun(t, N, after) BY <1>6, <1>11, <1>12, <1>13 DEF RecoverRun, n
<1> QED BY <1>5, <1>14 DEF n

-----------------------------------------------------------------------------
(* No line is put to two uses.                                               *)

Options(s) == s.blocks \cup s.option

\* After line i, what was made of the lines so far has none in common, and what
\* is passed over goes on, if it does, without a gap.
MembersApart(t, N, s, i) ==
  /\ s.passed \subseteq N
  /\ \A j \in s.passed, k \in N : i < k /\ k <= j => k \in s.passed
  /\ s.patch \subseteq s.passed
  /\ s.prose \subseteq N /\ \A j \in s.prose : j <= i /\ j \notin s.passed
  /\ s.members.props \subseteq N
  /\ \A m \in s.members.props :
       /\ m <= i /\ m \notin s.passed /\ m \notin s.prose /\ Desc!IsMember(t, m)
       /\ Desc!CollectSubLines(t, N, m) \subseteq s.passed \ s.patch

OptionsApart(t, N, s, i) ==
  /\ \A o \in Options(s) :
       /\ o.header <= i /\ o.lines \subseteq N
       /\ \A j \in o.lines : j <= i /\ j \notin s.passed \cup s.prose \cup s.members.props
  /\ \A o, q \in Options(s) : o # q => o.header # q.header /\ o.lines \cap q.lines = {}
  /\ \A o, q \in s.option : o = q
  /\ s.option \cap s.blocks = {}

ApartInv(t, N, s, i) == MembersApart(t, N, s, i) /\ OptionsApart(t, N, s, i)

LEMMA ApartLater ==
  ASSUME NEW t, NEW N \in SUBSET Nat, NEW s \in RecoverState, NEW i \in Nat \ {0},
         ApartInv(t, N, s, i - 1)
  PROVE  ApartInv(t, N, s, i)
<1>1. \A j \in Nat : j <= i - 1 => j <= i OBVIOUS
<1>2. \A k \in N : i < k => i - 1 < k OBVIOUS
<1>3. \A o \in Options(s) : o.header \in Nat BY DEF Options, RecoverState, OptionType
<1>4. MembersApart(t, N, s, i) BY <1>1, <1>2 DEF ApartInv, MembersApart
<1>5. OptionsApart(t, N, s, i) BY <1>1, <1>3 DEF ApartInv, OptionsApart
<1> QED BY <1>4, <1>5 DEF ApartInv

LEMMA ApartSame ==
  ASSUME NEW t, NEW N, NEW s, NEW i, ApartInv(t, N, s, i), NEW r,
         r.passed = s.passed, r.patch = s.patch, r.prose = s.prose, r.members = s.members,
         r.option = s.option, r.blocks = s.blocks
  PROVE  ApartInv(t, N, r, i)
BY DEF ApartInv, MembersApart, OptionsApart, Options

\* When a line is not passed over, everything that was read is above it.
LEMMA ReadAbove ==
  ASSUME NEW t, NEW N \in SUBSET Nat, NEW s \in RecoverState, NEW i \in N, i # 0,
         ApartInv(t, N, s, i - 1), i \notin s.passed
  PROVE  /\ \A j \in s.passed \cup s.prose \cup s.members.props : j \in N /\ j < i
         /\ \A o \in Options(s) : o.header < i /\ \A j \in o.lines : j \in N /\ j < i
<1>1. i \in Nat /\ i - 1 < i /\ \A k \in Nat : k <= i - 1 => k < i OBVIOUS
<1>2. \A k \in N : k \in Nat OBVIOUS
<1>3. \A j \in s.passed : j \in N /\ j < i
  <2> TAKE j \in s.passed
  <2>1. j \in N BY DEF ApartInv, MembersApart
  <2>2. ~(i <= j) BY <1>1 DEF ApartInv, MembersApart
  <2> QED BY <1>2, <2>1, <2>2
<1>4. \A j \in s.prose \cup s.members.props : j \in N /\ j < i
  BY <1>1, <1>2 DEF ApartInv, MembersApart
<1>5. \A o \in Options(s) : o.header \in Nat BY DEF Options, RecoverState, OptionType
<1>6. \A o \in Options(s) : o.header < i /\ \A j \in o.lines : j \in N /\ j < i
  BY <1>1, <1>2, <1>5 DEF ApartInv, OptionsApart
<1> QED BY <1>3, <1>4, <1>6

LEMMA AdvanceApart ==
  ASSUME NEW t, NEW N \in SUBSET Nat, NEW s \in RecoverState, NEW i \in N, i # 0,
         ApartInv(t, N, s, i - 1), i \notin s.passed
  PROVE  ApartInv(t, N, Desc!AdvanceOneOf(t, s, i), i)
<1> DEFINE r == Desc!AdvanceOneOf(t, s, i)
<1>1. ApartInv(t, N, s, i) BY ApartLater
<1>2. i \in Nat /\ i <= i OBVIOUS
<1>3. /\ \A j \in s.passed \cup s.prose \cup s.members.props : j < i
      /\ \A o \in Options(s) : o.header < i /\ \A j \in o.lines : j < i
  BY ReadAbove
<1>4. i \notin s.passed \cup s.prose \cup s.members.props
  BY <1>2, <1>3
<1>5. \A o \in Options(s) : o.header # i /\ i \notin o.lines BY <1>2, <1>3
<1>6. CASE t[i].kind = "properties"
  <2> DEFINE new == [header |-> i, lines |-> {}]
  <2>1. r = [s EXCEPT !.option = {new}, !.blocks = @ \cup s.option]
    BY <1>6 DEF Desc!AdvanceOneOf
  <2>2. /\ r.passed = s.passed /\ r.patch = s.patch /\ r.prose = s.prose
        /\ r.members = s.members /\ r.option = {new} /\ r.blocks = s.blocks \cup s.option
    BY <2>1 DEF RecoverState
  <2>3. new.header = i /\ new.lines = {} OBVIOUS
  <2> HIDE DEF r, new
  <2>4. MembersApart(t, N, r, i) BY <1>1, <2>2 DEF ApartInv, MembersApart
  <2>5. Options(r) = Options(s) \cup {new} /\ r.blocks = Options(s)
    BY <2>2 DEF Options
  <2>6. new \notin Options(s) BY <1>5, <2>3
  <2>7. OptionsApart(t, N, r, i)
    <3>1. \A o \in Options(r) :
            /\ o.header <= i /\ o.lines \subseteq N
            /\ \A j \in o.lines : j <= i /\ j \notin r.passed \cup r.prose \cup r.members.props
      BY <1>1, <1>2, <2>2, <2>3, <2>5 DEF ApartInv, OptionsApart
    <3>2. \A o, q \in Options(r) : o # q => o.header # q.header /\ o.lines \cap q.lines = {}
      BY <1>1, <1>5, <2>3, <2>5 DEF ApartInv, OptionsApart
    <3> QED BY <2>2, <2>5, <2>6, <3>1, <3>2 DEF OptionsApart
  <2> QED BY <2>4, <2>7 DEF ApartInv, r
<1>7. CASE t[i].kind # "properties" /\ Desc!IsMember(t, i)
  <2> DEFINE Longer(o) == [header |-> o.header, lines |-> o.lines \cup {i}]
             longer == {Longer(o) : o \in s.option}
  <2>1. r = [s EXCEPT !.option = longer] BY <1>7 DEF Desc!AdvanceOneOf
  <2>2. /\ r.passed = s.passed /\ r.patch = s.patch /\ r.prose = s.prose
        /\ r.members = s.members /\ r.option = longer /\ r.blocks = s.blocks
    BY <2>1 DEF RecoverState
  <2>3. \A o \in longer : \E q \in s.option :
          o.header = q.header /\ o.lines = q.lines \cup {i} /\ o = Longer(q)
    OBVIOUS
  <2> HIDE DEF r, longer
  <2>4. MembersApart(t, N, r, i) BY <1>1, <2>2 DEF ApartInv, MembersApart
  <2>5. s.blocks \subseteq Options(s) /\ s.option \subseteq Options(s) BY DEF Options
  <2>6. \A o \in longer :
          /\ o.header <= i /\ o.lines \subseteq N
          /\ \A j \in o.lines : j <= i /\ j \notin s.passed \cup s.prose \cup s.members.props
    <3> TAKE o \in longer
    <3>1. PICK q \in s.option : o.header = q.header /\ o.lines = q.lines \cup {i} BY <2>3
    <3> QED BY <1>1, <1>2, <1>4, <2>5, <3>1 DEF ApartInv, OptionsApart
  <2>7. \A o \in longer, b \in s.blocks :
          o.header # b.header /\ o.lines \cap b.lines = {} /\ b.lines \cap o.lines = {}
    <3> TAKE o \in longer, b \in s.blocks
    <3>1. PICK q \in s.option : o.header = q.header /\ o.lines = q.lines \cup {i} BY <2>3
    <3>2. q # b BY <1>1 DEF ApartInv, OptionsApart
    <3>3. q.header # b.header /\ q.lines \cap b.lines = {} /\ i \notin b.lines
      BY <1>1, <1>5, <2>5, <3>2 DEF ApartInv, OptionsApart
    <3> QED BY <3>1, <3>3
  <2>8. \A o, q \in longer : o = q
    <3> TAKE o \in longer, q \in longer
    <3>1. PICK o1 \in s.option : o = Longer(o1) BY <2>3
    <3>2. PICK q1 \in s.option : q = Longer(q1) BY <2>3
    <3>3. o1 = q1 BY <1>1 DEF ApartInv, OptionsApart
    <3> QED BY <3>1, <3>2, <3>3
  <2>9. Options(r) = s.blocks \cup longer BY <2>2 DEF Options
  <2>10. OptionsApart(t, N, r, i)
    <3>1. \A o \in s.blocks :
            /\ o.header <= i /\ o.lines \subseteq N
            /\ \A j \in o.lines : j <= i /\ j \notin s.passed \cup s.prose \cup s.members.props
      BY <1>1, <2>5 DEF ApartInv, OptionsApart
    <3>2. \A o, q \in s.blocks : o # q => o.header # q.header /\ o.lines \cap q.lines = {}
      BY <1>1, <2>5 DEF ApartInv, OptionsApart
    <3>3. \A o \in longer : o \notin s.blocks BY <2>7
    <3>4. \A o, q \in Options(r) : o # q => o.header # q.header /\ o.lines \cap q.lines = {}
      BY <2>7, <2>8, <2>9, <3>2
    <3> QED BY <2>2, <2>6, <2>8, <2>9, <3>1, <3>3, <3>4 DEF OptionsApart
  <2> QED BY <2>4, <2>10 DEF ApartInv, r
<1>8. CASE t[i].kind # "properties" /\ ~Desc!IsMember(t, i)
  <2>1. r = s BY <1>8 DEF Desc!AdvanceOneOf
  <2> QED BY <1>1, <2>1
<1> QED BY <1>6, <1>7, <1>8


LEMMA ProcessApart ==
  ASSUME NEW t, IsText(t), NEW N, N \subseteq DOMAIN t, NEW s \in RecoverState,
         NEW i \in N, ApartInv(t, N, s, i - 1), i \notin s.passed
  PROVE  ApartInv(t, N, Desc!ProcessMemberLine(t, N, s, i), i)
<1> DEFINE r == Desc!ProcessMemberLine(t, N, s, i)
           F == Desc!Following(t, N, i)
           B == Desc!CollectSubLines(t, N, i)
<1>1. N \in SUBSET Nat /\ i \in DOMAIN t /\ i \in Nat /\ i # 0 /\ i <= i BY DEF IsText
<1>2. ApartInv(t, N, s, i) BY <1>1, ApartLater
<1>3. /\ \A j \in s.passed \cup s.prose \cup s.members.props : j < i
      /\ \A o \in Options(s) : o.header < i /\ \A j \in o.lines : j < i
  BY <1>1, ReadAbove
<1>4. /\ B \subseteq F /\ F \subseteq N
      /\ \A j \in F : i < j /\ \A k \in N : i < k /\ k <= j => k \in F /\ (j \in B => k \in B)
  BY <1>1, BlockLines, BlockWhole
\* Whatever lines below line i are passed over next, they were not read yet.
<1>5. ASSUME NEW block, block \subseteq F,
             \A j \in block : \A k \in N : i < k /\ k <= j => k \in block
      PROVE  /\ s.passed \cup block \subseteq N
             /\ block \cap (s.passed \cup s.prose \cup s.members.props \cup {i}) = {}
             /\ \A j \in s.passed \cup block, k \in N :
                  i < k /\ k <= j => k \in s.passed \cup block
             /\ \A o \in Options(s) : o.lines \cap block = {}
  <2>1. \A j \in block : j \in N /\ i < j BY <1>4, <1>5
  <2>2. \A j \in N : i < j => ~(j < i) /\ j # i BY <1>1
  <2>3. s.passed \subseteq N BY <1>2 DEF ApartInv, MembersApart
  <2>4. \A j \in s.passed, k \in N : i < k /\ k <= j => k \in s.passed
    BY <1>2 DEF ApartInv, MembersApart
  <2> HIDE DEF F
  <2>5. \A j \in block : j \notin s.passed \cup s.prose \cup s.members.props \cup {i}
    BY <1>3, <2>1, <2>2
  <2>6. \A o \in Options(s) : o.lines \cap block = {} BY <1>3, <2>1, <2>2
  <2>7. s.passed \cup block \subseteq N BY <2>1, <2>3
  <2>8. \A j \in s.passed \cup block, k \in N :
          i < k /\ k <= j => k \in s.passed \cup block
    BY <1>5, <2>4
  <2> QED BY <2>5, <2>6, <2>7, <2>8
<1>6. CASE t[i].kind = "patch"
  <2> DEFINE body == {j \in F : Desc!Text(t, j)}
  <2>1. r = [s EXCEPT !.inProse = FALSE, !.passed = @ \cup F, !.patch = @ \cup body]
    BY <1>6 DEF Desc!ProcessMemberLine
  <2>2. /\ r.passed = s.passed \cup F /\ r.patch = s.patch \cup body /\ r.prose = s.prose
        /\ r.members = s.members /\ r.option = s.option /\ r.blocks = s.blocks
    BY <2>1 DEF RecoverState
  <2>3. body \subseteq F OBVIOUS
  <2> HIDE DEF F
  <2>4. /\ s.passed \cup F \subseteq N
        /\ F \cap (s.passed \cup s.prose \cup s.members.props) = {}
        /\ \A j \in s.passed \cup F, k \in N : i < k /\ k <= j => k \in s.passed \cup F
        /\ \A o \in Options(s) : o.lines \cap F = {}
    <3>1. \A j \in F : \A k \in N : i < k /\ k <= j => k \in F BY <1>4
    <3> QED BY <1>5, <3>1
  <2> HIDE DEF r, body
  <2>5. MembersApart(t, N, r, i) BY <1>2, <2>2, <2>3, <2>4 DEF ApartInv, MembersApart
  <2>6. Options(r) = Options(s) BY <2>2 DEF Options
  <2>7. OptionsApart(t, N, r, i) BY <1>2, <2>2, <2>4, <2>6 DEF ApartInv, OptionsApart
  <2> QED BY <2>5, <2>7 DEF ApartInv, r
<1>7. CASE t[i].kind # "patch" /\ Desc!IsMember(t, i)
  <2> DEFINE more == Desc!Add(t, s.members, i)
  <2>1. r = [s EXCEPT !.inProse = FALSE, !.passed = @ \cup B, !.members = more]
    BY <1>7 DEF Desc!ProcessMemberLine
  <2>2. /\ r.passed = s.passed \cup B /\ r.patch = s.patch /\ r.prose = s.prose
        /\ r.members = more /\ r.option = s.option /\ r.blocks = s.blocks
    BY <2>1 DEF RecoverState
  <2>3. more.props \subseteq s.members.props \cup {i} BY DEF Desc!Add
  <2>4. /\ s.passed \cup B \subseteq N
        /\ B \cap (s.passed \cup s.prose \cup s.members.props \cup {i}) = {}
        /\ \A j \in s.passed \cup B, k \in N : i < k /\ k <= j => k \in s.passed \cup B
        /\ \A o \in Options(s) : o.lines \cap B = {}
    BY <1>4, <1>5
  <2>5. /\ i \notin s.passed \cup s.prose
        /\ \A o \in Options(s) : i \notin o.lines
    BY <1>1, <1>3
  <2>6. s.patch \subseteq s.passed BY <1>2 DEF ApartInv, MembersApart
  <2>7. B \subseteq r.passed \ r.patch BY <2>2, <2>4, <2>6
  <2>8. ASSUME NEW m \in r.members.props
        PROVE  /\ m \in N /\ m <= i /\ m \notin r.passed /\ m \notin r.prose
               /\ Desc!IsMember(t, m)
               /\ Desc!CollectSubLines(t, N, m) \subseteq r.passed \ r.patch
    <3>1. CASE m = i
      <4> HIDE DEF r, B
      <4> QED BY <1>1, <1>7, <2>2, <2>4, <2>5, <2>7, <3>1 DEF B
    <3>2. CASE m \in s.members.props
      <4>1. /\ m \in N /\ m <= i /\ m \notin s.passed /\ m \notin s.prose
            /\ Desc!IsMember(t, m)
            /\ Desc!CollectSubLines(t, N, m) \subseteq s.passed \ s.patch
        BY <1>2, <3>2 DEF ApartInv, MembersApart
      <4> HIDE DEF r, B
      <4> QED BY <2>2, <2>4, <3>2, <4>1
    <3> QED BY <2>2, <2>3, <2>8, <3>1, <3>2
  <2> HIDE DEF r, B, more
  <2>9. MembersApart(t, N, r, i)
    <3>1. r.prose \subseteq N /\ \A j \in r.prose : j <= i /\ j \notin r.passed
      BY <1>2, <2>2, <2>4 DEF ApartInv, MembersApart
    <3>2. r.patch \subseteq r.passed BY <2>2, <2>6
    <3> QED BY <2>2, <2>4, <2>8, <3>1, <3>2 DEF MembersApart
  <2>10. Options(r) = Options(s) BY <2>2 DEF Options
  <2>11. OptionsApart(t, N, r, i)
    BY <1>2, <2>2, <2>3, <2>4, <2>5, <2>10 DEF ApartInv, OptionsApart
  <2> QED BY <2>9, <2>11 DEF ApartInv, r
<1>8. CASE t[i].kind # "patch" /\ ~Desc!IsMember(t, i)
  <2>1. r = s BY <1>8 DEF Desc!ProcessMemberLine
  <2> QED BY <1>2, <2>1
<1> QED BY <1>6, <1>7, <1>8

LEMMA RecoverLineApart ==
  ASSUME NEW t, IsText(t), NEW N, N \subseteq DOMAIN t, NEW s \in RecoverState,
         NEW i \in N, ApartInv(t, N, s, i - 1)
  PROVE  ApartInv(t, N, Desc!RecoverLine(t, N, s, i), i)
<1> DEFINE r == Desc!RecoverLine(t, N, s, i)
<1>1. N \in SUBSET Nat /\ i \in DOMAIN t /\ i \in Nat /\ i # 0 /\ i <= i
      /\ t[i].indent \in Nat
  BY DEF IsText
<1>2. ApartInv(t, N, s, i) BY <1>1, ApartLater
<1>3. s.inOneOf \in BOOLEAN /\ s.inProse \in BOOLEAN BY DEF RecoverState
<1>4. CASE i \in s.passed \/ t[i].kind = "blank" BY <1>2, <1>4, Skipped
<1>5. CASE i \notin s.passed /\ t[i].kind = "oneof"
  <2> DEFINE top == Desc!Top(t, s, i)
  <2>1. r = [s EXCEPT !.inProse = FALSE, !.inOneOf = TRUE, !.option = {}, !.top = top]
    <3>1. i \notin s.passed /\ t[i].kind = "oneof" BY <1>5
    <3> QED BY <3>1 DEF Desc!RecoverLine
  <2> HIDE DEF top
  <2>2. /\ r.passed = s.passed /\ r.patch = s.patch /\ r.prose = s.prose
        /\ r.members = s.members /\ r.option = {} /\ r.blocks = s.blocks
    BY <2>1 DEF RecoverState
  <2> HIDE DEF r
  <2>3. Options(r) \subseteq Options(s) BY <2>2 DEF Options
  <2>4. MembersApart(t, N, r, i) BY <1>2, <2>2 DEF ApartInv, MembersApart
  <2>5. OptionsApart(t, N, r, i) BY <1>2, <2>2, <2>3 DEF ApartInv, OptionsApart
  <2> QED BY <2>4, <2>5 DEF ApartInv, r
<1>6. CASE i \notin s.passed /\ t[i].kind \notin {"blank", "oneof"} /\ s.inOneOf
  BY <1>1, <1>6, OneOfLine, AdvanceApart
<1>7. CASE i \notin s.passed /\ t[i].kind # "oneof" /\ Desc!HasPrefix(t, i) /\ ~s.inOneOf
  <2> DEFINE here == [s EXCEPT !.top = Desc!Top(t, s, i)]
  <2>1. here \in RecoverState BY <1>1, TopType
  <2>2. /\ here.passed = s.passed /\ here.patch = s.patch /\ here.prose = s.prose
        /\ here.members = s.members /\ here.option = s.option /\ here.blocks = s.blocks
    BY DEF RecoverState
  <2>3. r \in {here, Desc!ProcessMemberLine(t, N, here, i)} BY <1>7, PrefixLine
  <2> HIDE DEF here
  <2>4. ApartInv(t, N, here, i - 1) /\ ApartInv(t, N, here, i) BY <1>2, <2>2, ApartSame
  <2>5. ApartInv(t, N, Desc!ProcessMemberLine(t, N, here, i), i)
    BY <1>7, <2>1, <2>2, <2>4, ProcessApart
  <2> QED BY <2>3, <2>4, <2>5
<1>8. CASE i \notin s.passed /\ t[i].kind = "text" /\ ~s.inOneOf
  <2>1. r = IF s.inProse THEN [s EXCEPT !.prose = @ \cup {i}] ELSE s BY <1>8, ProseLine
  <2>2. CASE ~s.inProse BY <1>2, <2>1, <2>2
  <2>3. CASE s.inProse
    <3>1. r = [s EXCEPT !.prose = @ \cup {i}] BY <2>1, <2>3
    <3>2. /\ r.passed = s.passed /\ r.patch = s.patch /\ r.prose = s.prose \cup {i}
          /\ r.members = s.members /\ r.option = s.option /\ r.blocks = s.blocks
      BY <3>1 DEF RecoverState
    <3> HIDE DEF r
    <3>3. \A j \in s.members.props : j # i
      BY <1>1, <1>8, ReadAbove
    <3>4. \A o \in Options(s) : i \notin o.lines BY <1>1, <1>8, ReadAbove
    <3>5. MembersApart(t, N, r, i) BY <1>1, <1>2, <1>8, <3>2, <3>3 DEF ApartInv, MembersApart
    <3>6. Options(r) = Options(s) BY <3>2 DEF Options
    <3>7. OptionsApart(t, N, r, i) BY <1>2, <3>2, <3>4, <3>6 DEF ApartInv, OptionsApart
    <3> QED BY <3>5, <3>7 DEF ApartInv, r
  <2> QED BY <1>3, <2>2, <2>3
<1> QED BY <1>3, <1>4, <1>5, <1>6, <1>7, <1>8 DEF Desc!HasPrefix

LEMMA RecoverApart ==
  ASSUME NEW t, IsText(t), NEW N, N \subseteq DOMAIN t
  PROVE  LET r == Desc!Recover(t, N)
         IN  \E s \in RecoverState :
               /\ ApartInv(t, N, s, Len(t))
               /\ r.patch = s.patch /\ r.prose = s.prose /\ r.members = s.members
               /\ r.blocks = Options(s)
<1> DEFINE n == Len(t)
<1>1. PICK f : /\ RecoverRun(t, N, f)
               /\ LET end == f[n]
                  IN  Desc!Recover(t, N) = [end EXCEPT !.blocks = @ \cup end.option]
  BY RecoverRuns
<1>2. n \in Nat /\ DOMAIN t = 1..n /\ N \in SUBSET Nat /\ N \subseteq 1..n BY DEF IsText
<1>3. f[0] = RecoverStart /\ f[n] \in RecoverState BY <1>1 DEF RecoverRun
<1>4. ASSUME NEW i \in 1..n
      PROVE  /\ i \in Nat \ {0} /\ f[i - 1] \in RecoverState
             /\ f[i] = IF i \in N THEN Desc!RecoverLine(t, N, f[i - 1], i) ELSE f[i - 1]
  BY <1>1, <1>2 DEF RecoverRun
<1> DEFINE T == {i \in 0..n : ApartInv(t, N, f[i], i)}
<1>5. 0 \in T
  <2>1. /\ f[0].passed = {} /\ f[0].patch = {} /\ f[0].prose = {} /\ f[0].members.props = {}
        /\ f[0].option = {} /\ f[0].blocks = {}
    BY <1>3 DEF RecoverStart, Desc!NoMembers
  <2>2. Options(f[0]) = {} BY <2>1 DEF Options
  <2>3. MembersApart(t, N, f[0], 0) BY <2>1 DEF MembersApart
  <2>4. OptionsApart(t, N, f[0], 0) BY <2>1, <2>2 DEF OptionsApart
  <2> QED BY <1>2, <2>3, <2>4 DEF ApartInv
<1>6. ASSUME NEW i \in 1..n, i - 1 \in T PROVE i \in T
  <2>1. ApartInv(t, N, f[i - 1], i - 1) /\ i \in 0..n BY <1>2, <1>6
  <2>2. CASE i \in N BY <1>4, <2>1, <2>2, RecoverLineApart
  <2>3. CASE i \notin N BY <1>2, <1>4, <2>1, <2>3, ApartLater
  <2> QED BY <2>2, <2>3
<1>7. n \in T
  <2> HIDE DEF T
  <2> QED BY <1>2, <1>5, <1>6, LoopInduction
<1> DEFINE end == f[n]
           r == [end EXCEPT !.blocks = @ \cup end.option]
<1>8. /\ r.patch = end.patch /\ r.prose = end.prose /\ r.members = end.members
      /\ r.blocks = Options(end)
  BY <1>3 DEF RecoverState, Options
<1>9. Desc!Recover(t, N) = r BY <1>1
<1> HIDE DEF r
<1> QED BY <1>3, <1>7, <1>8, <1>9

\* The members of a member are lines of its block.
LEMMA NestedLines ==
  ASSUME NEW t, IsText(t), NEW N, N \subseteq DOMAIN t, NEW i \in DOMAIN t
  PROVE  Desc!MemberSchema(t, N, i).props \subseteq
           {j \in Desc!CollectSubLines(t, N, i) : Desc!IsMember(t, j)}
<1> DEFINE B == Desc!CollectSubLines(t, N, i)
           lines == {k \in B : /\ Desc!IsMember(t, k)
                               /\ \E f \in B :
                                    /\ Desc!HasPrefix(t, f) /\ t[k].indent = t[f].indent
                                    /\ \A j \in B : j < f => ~Desc!HasPrefix(t, j)}
<1>1. B \subseteq DOMAIN t BY BlockLines
<1>2. Desc!RecoverNested(t, B) = Desc!AddAll(t, lines) BY DEF Desc!RecoverNested
<1>3. lines \subseteq {j \in B : Desc!IsMember(t, j)} OBVIOUS
<1> HIDE DEF B, lines
<1>4. Desc!AddAll(t, lines).props \subseteq lines
  BY <1>1, <1>3, AddAllAre DEF Desc!MembersAre
<1>5. Desc!MemberSchema(t, N, i) \in {Desc!AddAll(t, lines), Desc!NoMembers}
  BY <1>2 DEF Desc!MemberSchema, B
<1>6. Desc!NoMembers.props = {} BY DEF Desc!NoMembers
<1> QED BY <1>3, <1>4, <1>5, <1>6 DEF B

LEMMA PropertyLinesIn ==
  ASSUME NEW t, IsText(t), NEW s, NEW P, s.members.props \subseteq P,
         \A p \in P : s.nested[p].props \subseteq P
  PROVE  Desc!PropertyLines(t, s) \subseteq P
<1> DEFINE n == Len(t)
           S == SUBSET P
           More(R, i) == IF i \in s.members.props \/ \E p \in R : i \in s.nested[p].props
                         THEN R \cup {i} ELSE R
           step == [x \in S \X (1..n) |-> More(x[1], x[2])]
           Loop(f) == f = [i \in 0..n |->
                             IF i = 0 THEN {}
                             ELSE IF i \in s.members.props
                                     \/ \E p \in f[i - 1] : i \in s.nested[p].props
                             THEN f[i - 1] \cup {i} ELSE f[i - 1]]
           reached == CHOOSE f : Loop(f)
<1>1. n \in Nat BY DEF IsText
<1>2. ASSUME NEW R \in S, NEW i \in 1..n
      PROVE  step[<<R, i>>] = More(R, i) /\ More(R, i) \in S
  <2>1. step[<<R, i>>] = More(R, i) OBVIOUS
  <2>2. CASE i \in s.members.props BY <2>1, <2>2
  <2>3. CASE \E p \in R : i \in s.nested[p].props BY <2>1, <2>3
  <2>4. CASE ~(i \in s.members.props \/ \E p \in R : i \in s.nested[p].props) BY <2>1, <2>4
  <2> QED BY <2>2, <2>3, <2>4
<1>3. Closed(S, step, n) BY <1>2 DEF Closed
<1>4. Desc!PropertyLines(t, s) = reached[n] BY DEF Desc!PropertyLines
<1>5. \A i \in 1..n : i \in Nat /\ i # 0 /\ i \in 0..n /\ i - 1 \in 0..n BY <1>1
<1>6. {} \in S OBVIOUS
<1> HIDE DEF step, n, S
<1>7. PICK f : IsRun(f, S, {}, step, n) BY <1>1, <1>3, <1>6, LoopRuns
<1> DEFINE g == [i \in 0..n |-> f[i]]
<1>8. Loop(g)
  <2>1. \A i \in 0..n : g[i] = f[i] OBVIOUS
  <2>2. ASSUME NEW i \in 0..n
        PROVE  g[i] = IF i = 0 THEN {}
                      ELSE IF i \in s.members.props \/ \E p \in g[i - 1] : i \in s.nested[p].props
                      THEN g[i - 1] \cup {i} ELSE g[i - 1]
    <3>1. CASE i = 0 BY <1>7, <2>1, <3>1 DEF IsRun
    <3>2. CASE i # 0
      <4>1. i \in 1..n /\ i - 1 \in 0..n BY <1>1, <3>2
      <4>2. f[i] = More(f[i - 1], i) BY <1>2, <1>7, <4>1 DEF IsRun
      <4> HIDE DEF g
      <4>3. f[i - 1] = g[i - 1] /\ f[i] = g[i] BY <2>1, <4>1
      <4> QED BY <3>2, <4>2, <4>3
    <3> QED BY <3>1, <3>2
  <2>3. g = [i \in 0..n |-> g[i]] OBVIOUS
  <2> HIDE DEF g
  <2> QED BY <2>2, <2>3
<1> HIDE DEF g
<1>9. Loop(reached) BY <1>8
<1>10. \A i \in 0..n :
         reached[i] = IF i = 0 THEN {}
                      ELSE IF i \in s.members.props
                              \/ \E p \in reached[i - 1] : i \in s.nested[p].props
                      THEN reached[i - 1] \cup {i} ELSE reached[i - 1]
  BY <1>9
<1> HIDE DEF reached, Loop
<1> DEFINE T == {i \in 0..n : reached[i] \subseteq P}
<1>11. 0 \in T
  <2>1. 0 \in 0..n BY <1>1
  <2>2. reached[0] = {} BY <1>10, <2>1
  <2> QED BY <2>1, <2>2
<1>12. ASSUME NEW i \in 1..n, i - 1 \in T PROVE i \in T
  <2>1. reached[i - 1] \subseteq P BY <1>12
  <2>2. reached[i] = More(reached[i - 1], i) BY <1>5, <1>10
  <2> QED BY <1>5, <2>1, <2>2
<1>13. n \in T
  <2> HIDE DEF T
  <2> QED BY <1>1, <1>11, <1>12, LoopInduction
<1> QED BY <1>4, <1>13

\* No line of a description, of any length, is put to two uses: not a line that
\* was read as a constraint or as part of a patch for prose or a property too,
\* and not a property of the object for one of an option.
\* (extractConstraintsFromDescription and recoverMembersFromDescription)
THEOREM NoLineUsedTwice == \A t \in Desc!Descriptions : Desc!UsedOnce(t)
<1> SUFFICES ASSUME NEW t, IsText(t) PROVE Desc!UsedOnce(t) BY DescriptionsAreTexts
<1> DEFINE x == Desc!Extract(t)
           N == x.rest
           r == Desc!Recover(t, N)
           s == Desc!ObjectSchema(t)
<1>1. /\ N \subseteq DOMAIN t /\ x.meta \cap N = {} /\ x.patch \cap N = {}
      /\ x.meta \cap x.patch = {}
  BY ExtractDivides
<1>2. /\ s.meta = x.meta /\ s.patch = x.patch \cup r.patch /\ s.prose = r.prose
      /\ s.members = r.members
      /\ s.nested = [i \in DOMAIN t |-> Desc!MemberSchema(t, N, i)]
      /\ s.oneOf = {[header |-> o.header, members |-> Desc!AddAll(t, o.lines)] : o \in r.blocks}
  BY DEF Desc!ObjectSchema
<1> HIDE DEF x, r, s
<1>3. PICK q \in RecoverState :
        /\ ApartInv(t, N, q, Len(t))
        /\ r.patch = q.patch /\ r.prose = q.prose /\ r.members = q.members
        /\ r.blocks = Options(q)
  BY <1>1, RecoverApart DEF r
<1>4. MembersApart(t, N, q, Len(t)) /\ OptionsApart(t, N, q, Len(t)) BY <1>3 DEF ApartInv
<1> DEFINE M == q.members.props
           Blocks == {j \in N : Desc!IsMember(t, j) /\
                        \E m \in M : j \in Desc!CollectSubLines(t, N, m)}
           P == M \cup Blocks
<1>5. P \subseteq N /\ M \subseteq N BY <1>4 DEF MembersApart
<1>6. ASSUME NEW p \in P PROVE s.nested[p].props \subseteq P
  <2>1. p \in DOMAIN t BY <1>1, <1>5
  <2>2. s.nested[p] = Desc!MemberSchema(t, N, p) BY <1>2, <2>1
  <2>3. \A j \in s.nested[p].props :
          j \in Desc!CollectSubLines(t, N, p) /\ Desc!IsMember(t, j) /\ j \in N
    BY <1>1, <2>1, <2>2, NestedLines, BlockLines
  <2>4. CASE p \in M BY <2>3, <2>4
  <2>5. CASE p \in Blocks
    <3>1. PICK m \in M : p \in Desc!CollectSubLines(t, N, m) BY <2>5
    <3>2. Desc!Text(t, p) BY <2>5 DEF Desc!Text, Desc!IsMember
    <3>3. m \in DOMAIN t BY <1>1, <1>5
    <3>4. Desc!CollectSubLines(t, N, p) \subseteq Desc!CollectSubLines(t, N, m)
      BY <1>1, <3>1, <3>2, <3>3, BlockInBlock
    <3> QED BY <2>3, <3>1, <3>4
  <2> QED BY <2>4, <2>5
<1> DEFINE R == Desc!PropertyLines(t, s)
<1>7. R \subseteq P
  <2> HIDE DEF P
  <2>1. s.members.props \subseteq P BY <1>2, <1>3 DEF P
  <2> QED BY <1>6, <2>1, PropertyLinesIn
<1>8. Blocks \subseteq q.passed \ q.patch BY <1>4 DEF MembersApart
<1>9. \A j \in P : j \notin q.patch /\ j \notin q.prose
  BY <1>4, <1>8 DEF MembersApart
<1>10. q.patch \subseteq N /\ q.prose \subseteq N /\ q.patch \cap q.prose = {}
  BY <1>4 DEF MembersApart
<1>11. \A j \in P \cup q.patch : j \in q.passed \/ j \in M
  BY <1>4, <1>8 DEF MembersApart
<1> HIDE DEF P, Blocks, M, R
<1>12. /\ s.meta \cap s.patch = {} /\ s.meta \cap s.prose = {} /\ s.meta \cap R = {}
       /\ s.patch \cap s.prose = {} /\ s.patch \cap R = {} /\ s.prose \cap R = {}
  BY <1>1, <1>2, <1>3, <1>5, <1>7, <1>9, <1>10
<1>13. ASSUME NEW o \in s.oneOf
       PROVE  \E b \in Options(q) : /\ o = [header |-> b.header,
                                             members |-> Desc!AddAll(t, b.lines)]
                                    /\ o.members.props \subseteq b.lines
  <2>1. PICK b \in Options(q) : o = [header |-> b.header, members |-> Desc!AddAll(t, b.lines)]
    BY <1>2, <1>3
  <2>2. b.lines \subseteq DOMAIN t BY <1>1, <1>4 DEF OptionsApart
  <2>3. Desc!AddAll(t, b.lines).props \subseteq b.lines BY <2>2, AddAllAre DEF Desc!MembersAre
  <2> QED BY <2>1, <2>3
<1>14. ASSUME NEW o \in s.oneOf
       PROVE  /\ s.meta \cap o.members.props = {} /\ s.patch \cap o.members.props = {}
              /\ s.prose \cap o.members.props = {} /\ R \cap o.members.props = {}
  <2>1. PICK b \in Options(q) : o.members.props \subseteq b.lines BY <1>13
  <2>2. \A j \in b.lines : j \in N /\ j \notin q.passed \cup q.prose \cup q.members.props
    BY <1>4 DEF OptionsApart
  <2> QED BY <1>1, <1>2, <1>3, <1>7, <1>11, <2>1, <2>2 DEF M
<1>15. ASSUME NEW o \in s.oneOf, NEW p \in s.oneOf, o # p
       PROVE  o.members.props \cap p.members.props = {}
  <2>1. PICK b \in Options(q) : /\ o = [header |-> b.header,
                                        members |-> Desc!AddAll(t, b.lines)]
                                /\ o.members.props \subseteq b.lines
    BY <1>13
  <2>2. PICK c \in Options(q) : /\ p = [header |-> c.header,
                                        members |-> Desc!AddAll(t, c.lines)]
                                /\ p.members.props \subseteq c.lines
    BY <1>13
  <2>3. b # c BY <1>15, <2>1, <2>2
  <2>4. b.lines \cap c.lines = {} BY <1>4, <2>3 DEF OptionsApart
  <2> QED BY <2>1, <2>2, <2>4
<1> DEFINE uses == <<s.meta, s.patch, s.prose, R>>
<1>16. /\ DOMAIN uses = {1, 2, 3, 4}
       /\ uses[1] = s.meta /\ uses[2] = s.patch /\ uses[3] = s.prose /\ uses[4] = R
  OBVIOUS
<1> HIDE DEF uses
<1>17. \A i, j \in DOMAIN uses : i < j => uses[i] \cap uses[j] = {}
  <2> SUFFICES ASSUME NEW i \in {1, 2, 3, 4}, NEW j \in {1, 2, 3, 4}, i < j
               PROVE  uses[i] \cap uses[j] = {}
    BY <1>16
  <2>1. \/ i = 1 /\ j \in {2, 3, 4}
        \/ i = 2 /\ j \in {3, 4}
        \/ i = 3 /\ j = 4
    OBVIOUS
  <2> QED BY <1>12, <1>16, <2>1
<1>18. \A o \in s.oneOf : \A i \in DOMAIN uses : uses[i] \cap o.members.props = {}
  BY <1>14, <1>16
<1> QED BY <1>15, <1>17, <1>18 DEF Desc!UsedOnce, uses, R, s

-----------------------------------------------------------------------------
(* The outline of a tidy description.                                        *)

LEMMA NothingToExtract ==
  ASSUME NEW t, IsText(t), \A i \in DOMAIN t : t[i].kind \notin {"meta", "patch"}
  PROVE  Desc!Extract(t) = [meta |-> {}, patch |-> {}, rest |-> DOMAIN t]
<1>1. \A i \in DOMAIN t : t[i].kind # "meta" /\ t[i].kind # "patch" OBVIOUS
<1>2. Desc!First(t, DOMAIN t, "meta") = {} /\ Desc!First(t, DOMAIN t, "patch") = {}
  BY <1>1 DEF Desc!First
<1>3. Desc!FirstBlock(t, DOMAIN t, "meta") = {} /\ Desc!FirstBlock(t, DOMAIN t, "patch") = {}
  BY <1>2 DEF Desc!FirstBlock
<1>4. Desc!MetaPairs(t, DOMAIN t) = {} /\ Desc!PatchBody(t, DOMAIN t) = {}
  BY <1>3 DEF Desc!MetaPairs, Desc!PatchBody
<1> QED BY <1>4 DEF Desc!Extract

Members(t) == Desc!Lines(t, "member")

LEMMA MemberLine ==
  ASSUME NEW t, IsText(t), NEW i \in Members(t)
  PROVE  i \in DOMAIN t /\ i \in Nat /\ t[i].indent \in Nat /\ t[i].kind = "member"
BY DEF Members, Desc!Lines, IsText

\* A line has no two parents.
LEMMA OneParent ==
  ASSUME NEW t, IsText(t), NEW i \in Members(t), NEW p \in Desc!Parent(t, i)
  PROVE  Desc!Parent(t, i) = {p}
<1>1. ASSUME NEW q \in Desc!Parent(t, i) PROVE q = p
  <2>1. p \in Members(t) /\ q \in Members(t) BY DEF Desc!Parent, Desc!Nearest, Members
  <2>2. p \in Nat /\ q \in Nat /\ t[p].indent \in Nat /\ t[q].indent \in Nat
        /\ t[i].indent \in Nat
    BY <2>1, MemberLine
  <2>3. ~(p < q) BY <2>1, <2>2 DEF Desc!Parent, Desc!Nearest, Members
  <2>4. ~(q < p) BY <2>1, <2>2 DEF Desc!Parent, Desc!Nearest, Members
  <2> QED BY <2>2, <2>3, <2>4
<1> QED BY <1>1

IsTidy(t) ==
  /\ \A i \in DOMAIN t : t[i].kind \in {"member", "text", "blank"}
  /\ \A i, j \in Members(t) :
       Desc!Parent(t, i) = Desc!Parent(t, j) => t[i].indent = t[j].indent
  /\ \A i \in Desc!Lines(t, "text"), j \in Members(t) : i < j

\* The members in the block of member p: those below it, down to one that is not
\* indented more than p.
LEMMA MembersOfBlock ==
  ASSUME NEW t, IsText(t), IsTidy(t), NEW p \in Members(t), NEW i \in Members(t)
  PROVE  i \in Desc!CollectSubLines(t, DOMAIN t, p) <=>
           /\ p < i
           /\ \A m \in Members(t) : p < m /\ m <= i => t[p].indent < t[m].indent
<1> DEFINE B == Desc!CollectSubLines(t, DOMAIN t, p)
           F == Desc!Following(t, DOMAIN t, p)
<1>1. /\ \A k \in Members(t) : /\ k \in DOMAIN t /\ k \in Nat /\ t[k].indent \in Nat
                               /\ t[k].kind = "member"
      /\ \A k \in DOMAIN t : k \in Nat
  BY MemberLine DEF IsText
<1>2. ASSUME i \in B
      PROVE  p < i /\ \A m \in Members(t) : p < m /\ m <= i => t[p].indent < t[m].indent
  <2>1. i \in F /\ p < i BY <1>1, <1>2, BlockLines
  <2>2. ASSUME NEW m \in Members(t), p < m, m <= i PROVE t[p].indent < t[m].indent
    <3>1. m \in F BY <1>1, <2>1, <2>2, BlockWhole
    <3>2. Desc!Deeper(t, m, t[p].indent) BY <1>1, <3>1, BlockLines
    <3> QED BY <1>1, <3>2 DEF Desc!Deeper
  <2> QED BY <2>1, <2>2
<1>3. ASSUME p < i, \A m \in Members(t) : p < m /\ m <= i => t[p].indent < t[m].indent
      PROVE  i \in B
  <2>1. ASSUME NEW m \in DOMAIN t, p < m, m <= i PROVE Desc!Deeper(t, m, t[p].indent)
    <3>1. CASE t[m].kind = "member"
      <4>1. m \in Members(t) BY <3>1 DEF Members, Desc!Lines
      <4> QED BY <1>1, <1>3, <2>1, <4>1 DEF Desc!Deeper
    <3>2. CASE t[m].kind = "blank" BY <3>2 DEF Desc!Deeper
    <3>3. CASE t[m].kind = "text"
      <4>1. m < p BY <3>3 DEF IsTidy, Desc!Lines
      <4> QED BY <1>1, <2>1, <4>1
    <3> QED BY <3>1, <3>2, <3>3 DEF IsTidy
  <2>2. i \in F BY <1>1, <1>3, <2>1 DEF Desc!Following
  <2>3. Desc!Text(t, i) /\ i <= i BY <1>1 DEF Desc!Text
  <2> QED BY <2>2, <2>3 DEF Desc!CollectSubLines
<1> QED BY <1>2, <1>3

\* What a member with less indentation than all members between it and p, itself
\* indented more than p, is nested in.
LEMMA ParentIs ==
  ASSUME NEW t, IsText(t), NEW p \in Members(t), NEW i \in Members(t), p < i,
         t[p].indent < t[i].indent,
         \A m \in Members(t) : p < m /\ m < i => t[i].indent <= t[m].indent
  PROVE  Desc!Parent(t, i) = {p}
<1>1. \A k \in Members(t) : t[k].indent \in Nat BY MemberLine
<1>2. p \in Desc!Parent(t, i) BY <1>1 DEF Desc!Parent, Desc!Nearest, Members
<1> QED BY <1>2, OneParent

\* The lines that recoverMembersNested takes from the block of a member are the
\* members nested in it.
LEMMA NestedKids ==
  ASSUME NEW t, IsText(t), IsTidy(t), NEW p \in Members(t)
  PROVE  LET B == Desc!CollectSubLines(t, DOMAIN t, p)
         IN  {i \in B : /\ Desc!IsMember(t, i)
                        /\ \E f \in B : /\ Desc!HasPrefix(t, f) /\ t[i].indent = t[f].indent
                                        /\ \A j \in B : j < f => ~Desc!HasPrefix(t, j)} =
             {i \in Members(t) : Desc!Parent(t, i) = {p}}
<1> DEFINE B == Desc!CollectSubLines(t, DOMAIN t, p)
           First(f) == Desc!HasPrefix(t, f) /\ \A j \in B : j < f => ~Desc!HasPrefix(t, j)
           InB(i) == /\ p < i
                     /\ \A m \in Members(t) : p < m /\ m <= i => t[p].indent < t[m].indent
<1>1. /\ \A k \in Members(t) : /\ k \in DOMAIN t /\ k \in Nat /\ t[k].indent \in Nat
                               /\ t[k].kind = "member"
      /\ \A k \in DOMAIN t : k \in Nat
  BY MemberLine DEF IsText
<1>2. B \subseteq DOMAIN t BY <1>1, BlockLines
<1>3. \A k \in DOMAIN t : /\ Desc!IsMember(t, k) <=> k \in Members(t)
                          /\ Desc!HasPrefix(t, k) <=> k \in Members(t)
  BY DEF IsTidy, Members, Desc!Lines, Desc!IsMember, Desc!HasPrefix
<1>4. \A i \in Members(t) : i \in B <=> InB(i) BY MembersOfBlock
<1> HIDE DEF B
<1>5. ASSUME NEW f \in B, First(f) PROVE f \in Members(t) /\ Desc!Parent(t, f) = {p}
  <2>1. f \in Members(t) BY <1>2, <1>3, <1>5
  <2>2. InB(f) BY <1>4, <2>1
  <2>3. t[p].indent < t[f].indent BY <1>1, <2>1, <2>2
  <2>4. ASSUME NEW m \in Members(t), p < m, m < f PROVE FALSE
    <3>1. InB(m) BY <1>1, <2>1, <2>2, <2>4
    <3>2. m \in B BY <1>4, <3>1
    <3> QED BY <1>1, <1>3, <1>5, <2>4, <3>2
  <2> QED BY <2>1, <2>2, <2>3, <2>4, ParentIs
<1>6. ASSUME NEW i \in Members(t), Desc!Parent(t, i) = {p}
      PROVE  i \in B /\ \E f \in B : First(f) /\ t[i].indent = t[f].indent
  <2>1. /\ p < i /\ t[p].indent < t[i].indent
        /\ \A m \in Members(t) : p < m /\ m < i => t[i].indent <= t[m].indent
    <3>1. p \in Desc!Parent(t, i) BY <1>6
    <3> QED BY <1>1, <3>1 DEF Desc!Parent, Desc!Nearest, Members
  <2>2. InB(i)
    <3> SUFFICES ASSUME NEW m \in Members(t), p < m, m <= i PROVE t[p].indent < t[m].indent
      BY <2>1
    <3>1. CASE m = i BY <2>1, <3>1
    <3>2. CASE m < i BY <1>1, <2>1, <3>2
    <3> QED BY <1>1, <3>1, <3>2
  <2>3. i \in B BY <1>4, <2>2
  <2> DEFINE T == {k \in B : k \in Members(t)}
  <2>4. T \subseteq Nat /\ i \in T BY <1>1, <2>3
  <2>5. PICK f \in T : \A k \in T : f <= k
    <3> HIDE DEF T
    <3> QED BY <2>4, LeastNatural
  <2>6. First(f)
    <3>1. \A j \in B : j < f => j \notin T BY <1>1, <1>2, <2>5
    <3> QED BY <1>2, <1>3, <2>5, <3>1
  <2>7. Desc!Parent(t, f) = {p} BY <1>5, <2>6
  <2>8. t[i].indent = t[f].indent BY <1>6, <2>7 DEF IsTidy
  <2> QED BY <2>3, <2>6, <2>8
<1>7. ASSUME NEW i \in B, i \in Members(t), NEW f \in B, First(f), t[i].indent = t[f].indent
      PROVE  Desc!Parent(t, i) = {p}
  <2>1. f \in Members(t) /\ Desc!Parent(t, f) = {p} BY <1>5, <1>7
  <2>2. InB(i) BY <1>4, <1>7
  <2>3. t[p].indent < t[i].indent BY <1>1, <1>7, <2>2
  <2> DEFINE T == {m \in Members(t) : p < m /\ m < i /\ t[m].indent < t[i].indent}
  <2>4. T = {}
    <3> SUFFICES ASSUME T # {} PROVE FALSE OBVIOUS
    <3>1. T \subseteq Nat BY <1>1
    <3>2. PICK m \in T : \A k \in T : m <= k
      <4> HIDE DEF T
      <4> QED BY <3>1, LeastNatural
    <3>3. m \in Members(t) /\ p < m /\ m < i /\ t[m].indent < t[i].indent BY <3>2
    <3>4. t[p].indent < t[m].indent BY <1>1, <1>7, <2>2, <3>3
    <3>5. ASSUME NEW k \in Members(t), p < k, k < m PROVE t[m].indent <= t[k].indent
      <4>1. k \notin T BY <1>1, <3>2, <3>3, <3>5
      <4>2. k < i BY <1>1, <1>7, <3>3, <3>5
      <4>3. ~(t[k].indent < t[i].indent) BY <3>5, <4>1, <4>2
      <4> QED BY <1>1, <1>7, <3>3, <4>3
    <3>6. Desc!Parent(t, m) = {p} BY <3>3, <3>4, <3>5, ParentIs
    <3>7. t[m].indent = t[f].indent BY <2>1, <3>3, <3>6 DEF IsTidy
    <3> QED BY <1>1, <1>7, <3>3, <3>7
  <2>5. \A m \in Members(t) : p < m /\ m < i => t[i].indent <= t[m].indent
    BY <1>1, <1>7, <2>4
  <2> QED BY <1>7, <2>2, <2>3, <2>5, ParentIs
<1>8. ASSUME NEW i \in Members(t), Desc!Parent(t, i) = {p} PROVE i \in B
  BY <1>6, <1>8
<1> HIDE DEF First, InB
<1>9. \A i \in B : Desc!IsMember(t, i) => i \in Members(t) BY <1>2, <1>3
<1>10. {i \in B : Desc!IsMember(t, i) /\ \E f \in B : First(f) /\ t[i].indent = t[f].indent} =
         {i \in Members(t) : Desc!Parent(t, i) = {p}}
  <2>1. ASSUME NEW i \in B, Desc!IsMember(t, i),
               \E f \in B : First(f) /\ t[i].indent = t[f].indent
        PROVE  i \in Members(t) /\ Desc!Parent(t, i) = {p}
    BY <1>7, <1>9, <2>1
  <2>2. ASSUME NEW i \in Members(t), Desc!Parent(t, i) = {p}
        PROVE  /\ i \in B /\ Desc!IsMember(t, i)
               /\ \E f \in B : First(f) /\ t[i].indent = t[f].indent
    BY <1>1, <1>3, <1>6, <2>2
  <2> QED BY <2>1, <2>2
<1>11. \A i : (\E f \in B : First(f) /\ t[i].indent = t[f].indent) <=>
              (\E f \in B : /\ Desc!HasPrefix(t, f) /\ t[i].indent = t[f].indent
                            /\ \A j \in B : j < f => ~Desc!HasPrefix(t, j))
  BY DEF First
<1> QED BY <1>10, <1>11 DEF B

\* The members of the object itself are those that are indented least, like the
\* first.
IsBase(t, base) ==
  /\ base \in Nat
  /\ \A m \in Members(t) :
       /\ base <= t[m].indent
       /\ Desc!Parent(t, m) = {} <=> t[m].indent = base
       /\ (\A k \in Members(t) : m <= k) => t[m].indent = base

LEMMA BaseExists ==
  ASSUME NEW t, IsText(t), IsTidy(t)
  PROVE  \E base : IsBase(t, base)
<1>1. \A k \in Members(t) : k \in Nat /\ t[k].indent \in Nat BY MemberLine
<1>2. CASE Members(t) = {}
  <2>1. IsBase(t, 0) BY <1>2 DEF IsBase
  <2> QED BY <2>1
<1>3. CASE Members(t) # {}
  <2>1. PICK f \in Members(t) : \A k \in Members(t) : f <= k
    <3>1. Members(t) \subseteq Nat BY <1>1
    <3> QED BY <1>3, <3>1, LeastNatural
  <2>2. \A m \in Members(t) : (\A k \in Members(t) : t[m].indent <= t[k].indent \/ m <= k)
                                => Desc!Parent(t, m) = {}
    BY <1>1 DEF Desc!Parent, Desc!Nearest, Members
  <2>3. Desc!Parent(t, f) = {} BY <2>1, <2>2
  <2> DEFINE T == {m \in Members(t) : t[m].indent < t[f].indent}
  <2>4. T = {}
    <3> SUFFICES ASSUME T # {} PROVE FALSE OBVIOUS
    <3>1. T \subseteq Nat BY <1>1
    <3>2. PICK m \in T : \A k \in T : m <= k
      <4> HIDE DEF T
      <4> QED BY <3>1, LeastNatural
    <3>3. ASSUME NEW k \in Members(t) PROVE t[m].indent <= t[k].indent \/ m <= k
      BY <1>1, <3>2
    <3>4. Desc!Parent(t, m) = {} BY <2>2, <3>2, <3>3
    <3>5. t[m].indent = t[f].indent BY <2>3, <3>2, <3>4 DEF IsTidy
    <3> QED BY <1>1, <3>2, <3>5
  <2>5. \A m \in Members(t) : t[f].indent <= t[m].indent BY <1>1, <2>4
  <2>6. ASSUME NEW m \in Members(t) PROVE Desc!Parent(t, m) = {} <=> t[m].indent = t[f].indent
    <3>1. Desc!Parent(t, m) = {} => t[m].indent = t[f].indent BY <2>3 DEF IsTidy
    <3>2. t[m].indent = t[f].indent => Desc!Parent(t, m) = {} BY <2>2, <2>5
    <3> QED BY <3>1, <3>2
  <2>7. ASSUME NEW m \in Members(t), \A k \in Members(t) : m <= k PROVE m = f
    BY <1>1, <2>1, <2>7
  <2>8. IsBase(t, t[f].indent) BY <1>1, <2>5, <2>6, <2>7 DEF IsBase
  <2> QED BY <2>8
<1> QED BY <1>2, <1>3

\* What the scanner of members has after line i of a tidy description.
TidyInv(t, base, s, i) ==
  /\ s.inOneOf = FALSE /\ s.option = {} /\ s.blocks = {} /\ s.patch = {}
  /\ s.top \subseteq {base}
  /\ s.top = {} => \A m \in Members(t) : i < m
  /\ (\A m \in Members(t) : i < m) => s.inProse = TRUE
  /\ s.prose = {j \in Desc!Lines(t, "text") : j <= i}
  /\ \A j \in s.passed :
       j \notin Desc!Lines(t, "text") /\ (j \in Members(t) => base < t[j].indent)
  /\ Desc!MembersAre(t, s.members, {j \in Members(t) : Desc!Parent(t, j) = {} /\ j <= i})

LEMMA TidyStep ==
  ASSUME NEW t, IsText(t), IsTidy(t), NEW base, IsBase(t, base), NEW s \in RecoverState,
         NEW i \in DOMAIN t, TidyInv(t, base, s, i - 1)
  PROVE  TidyInv(t, base, Desc!RecoverLine(t, DOMAIN t, s, i), i)
<1> DEFINE r == Desc!RecoverLine(t, DOMAIN t, s, i)
           Texts == Desc!Lines(t, "text")
           Kids(k) == {j \in Members(t) : Desc!Parent(t, j) = {} /\ j <= k}
           Prose(k) == {j \in Texts : j <= k}
<1>1. /\ i \in Nat /\ i - 1 \in Nat /\ base \in Nat
      /\ \A k \in Members(t) : /\ k \in DOMAIN t /\ k \in Nat /\ t[k].indent \in Nat
                               /\ t[k].kind = "member"
      /\ \A k \in DOMAIN t : k \in Nat
      /\ \A j \in Texts : j \in DOMAIN t /\ t[j].kind = "text"
  BY MemberLine DEF IsText, IsBase, Desc!Lines
<1>2. /\ \A k \in Nat : k <= i <=> k <= i - 1 \/ k = i
      /\ \A k \in Nat : i < k => i - 1 < k
      /\ \A k \in Nat : i - 1 < k /\ k # i => i < k
  BY <1>1
<1>3. /\ i \in Members(t) <=> t[i].kind = "member"
      /\ i \in Texts <=> t[i].kind = "text"
  BY DEF Members, Desc!Lines
<1>4. /\ i \notin Texts => Prose(i) = Prose(i - 1)
      /\ i \in Texts => Prose(i) = Prose(i - 1) \cup {i}
      /\ ~(i \in Members(t) /\ Desc!Parent(t, i) = {}) => Kids(i) = Kids(i - 1)
      /\ i \in Members(t) /\ Desc!Parent(t, i) = {} => Kids(i) = Kids(i - 1) \cup {i}
  <2>1. \A j \in Texts \cup Members(t) : j \in Nat BY <1>1
  <2> HIDE DEF Texts
  <2> QED BY <1>2, <2>1
<1>5. /\ s.inOneOf = FALSE /\ s.option = {} /\ s.blocks = {} /\ s.patch = {}
      /\ s.top \subseteq {base}
      /\ s.top = {} => \A m \in Members(t) : i - 1 < m
      /\ (\A m \in Members(t) : i - 1 < m) => s.inProse = TRUE
      /\ s.prose = Prose(i - 1)
      /\ \A j \in s.passed : j \notin Texts /\ (j \in Members(t) => base < t[j].indent)
      /\ Desc!MembersAre(t, s.members, Kids(i - 1))
  BY DEF TidyInv
<1> HIDE DEF Kids, Prose, Texts
\* Lines that change nothing.
<1>6. ASSUME t[i].kind = "blank" \/ i \in s.passed PROVE TidyInv(t, base, r, i)
  <2>1. r = s BY <1>6, Skipped
  <2>2. i \notin Texts BY <1>3, <1>5, <1>6
  <2>3. ~(i \in Members(t) /\ Desc!Parent(t, i) = {})
    <3> SUFFICES ASSUME i \in Members(t), Desc!Parent(t, i) = {} PROVE FALSE OBVIOUS
    <3>1. t[i].indent = base BY DEF IsBase
    <3>2. i \in s.passed BY <1>3, <1>6
    <3>3. base < t[i].indent BY <1>5, <3>2
    <3> QED BY <1>1, <3>1, <3>3
  <2>4. Prose(i) = Prose(i - 1) /\ Kids(i) = Kids(i - 1) BY <1>4, <2>2, <2>3
  <2>5. ASSUME s.top = {}, NEW m \in Members(t) PROVE i < m
    <3>1. i - 1 < m BY <1>5, <2>5
    <3>2. m # i
      <4> SUFFICES ASSUME m = i PROVE FALSE OBVIOUS
      <4>1. i \in s.passed /\ i \in Members(t) BY <1>3, <1>6
      <4>2. base < t[i].indent BY <1>5, <4>1
      <4>3. \A k \in Members(t) : i <= k BY <1>1, <1>5, <2>5
      <4>4. t[i].indent = base BY <4>1, <4>3 DEF IsBase
      <4> QED BY <1>1, <4>2, <4>4
    <3> QED BY <1>1, <1>2, <3>1, <3>2
  <2>6. (\A m \in Members(t) : i < m) => s.inProse = TRUE BY <1>1, <1>2, <1>5
  <2> HIDE DEF r
  <2> QED BY <1>5, <2>1, <2>4, <2>5, <2>6 DEF TidyInv, Kids, Prose, Texts
<1>7. ASSUME t[i].kind = "text", i \notin s.passed PROVE TidyInv(t, base, r, i)
  <2>1. i \in Texts BY <1>3, <1>7
  <2>2. \A m \in Members(t) : i < m /\ i - 1 < m BY <1>1, <1>2, <2>1 DEF IsTidy, Texts
  <2>3. s.inProse = TRUE BY <1>5, <2>2
  <2>4. r = [s EXCEPT !.prose = @ \cup {i}] 
    <3>1. ~s.inOneOf BY <1>5
    <3>2. r = IF s.inProse THEN [s EXCEPT !.prose = @ \cup {i}] ELSE s
      BY <1>7, <3>1, ProseLine
    <3> QED BY <2>3, <3>2
  <2>5. /\ r.passed = s.passed /\ r.top = s.top /\ r.inProse = s.inProse
        /\ r.inOneOf = s.inOneOf /\ r.prose = s.prose \cup {i} /\ r.members = s.members
        /\ r.option = s.option /\ r.blocks = s.blocks /\ r.patch = s.patch
    BY <2>4 DEF RecoverState
  <2>6. i \notin Members(t) BY <1>3, <1>7
  <2>7. Prose(i) = Prose(i - 1) \cup {i} /\ Kids(i) = Kids(i - 1) BY <1>4, <2>1, <2>6
  <2> HIDE DEF r
  <2> QED BY <1>5, <2>2, <2>3, <2>5, <2>7 DEF TidyInv, Kids, Prose, Texts
<1>8. ASSUME t[i].kind = "member", i \notin s.passed PROVE TidyInv(t, base, r, i)
  <2> DEFINE here == [s EXCEPT !.top = Desc!Top(t, s, i)]
             B == Desc!CollectSubLines(t, DOMAIN t, i)
  <2>1. i \in Members(t) /\ i \notin Texts BY <1>3, <1>8
  <2>2. Desc!HasPrefix(t, i) /\ Desc!IsMember(t, i) BY <1>8 DEF Desc!HasPrefix, Desc!IsMember
  <2>3. Desc!Top(t, s, i) = {base}
    <3>1. CASE s.top = {}
      <4>1. \A k \in Members(t) : i <= k BY <1>1, <1>5, <3>1
      <4>2. t[i].indent = base BY <2>1, <4>1 DEF IsBase
      <4> QED BY <3>1, <4>2 DEF Desc!Top
    <3>2. CASE s.top # {} BY <1>5, <3>2 DEF Desc!Top
    <3> QED BY <3>1, <3>2
  <2>4. /\ here.passed = s.passed /\ here.top = {base} /\ here.inProse = s.inProse
        /\ here.inOneOf = s.inOneOf /\ here.prose = s.prose /\ here.members = s.members
        /\ here.option = s.option /\ here.blocks = s.blocks /\ here.patch = s.patch
    BY <2>3 DEF RecoverState
  <2>5. here \in RecoverState BY <1>1, <2>1, TopType
  <2>6. r = IF \E n \in here.top : t[i].indent > n THEN here
            ELSE Desc!ProcessMemberLine(t, DOMAIN t, here, i)
    BY <1>5, <1>8, <2>2, PrefixLine
  <2> HIDE DEF here
  <2>7. ~\A m \in Members(t) : i < m BY <1>1, <2>1
  <2>8. Prose(i) = Prose(i - 1) BY <1>4, <2>1
  <2>9. base <= t[i].indent BY <2>1 DEF IsBase
  <2>10. CASE t[i].indent > base
    <3>1. r = here BY <2>4, <2>6, <2>10
    <3>2. Desc!Parent(t, i) # {} BY <1>1, <2>1, <2>10 DEF IsBase
    <3>3. Kids(i) = Kids(i - 1) BY <1>4, <3>2
    <3> HIDE DEF r
    <3> QED BY <1>5, <2>4, <2>7, <2>8, <3>1, <3>3 DEF TidyInv, Kids, Prose, Texts
  <2>11. CASE t[i].indent = base
    <3>1. r = Desc!ProcessMemberLine(t, DOMAIN t, here, i) BY <1>1, <2>4, <2>6, <2>11
    <3>2. r = [here EXCEPT !.inProse = FALSE, !.passed = @ \cup B,
                           !.members = Desc!Add(t, here.members, i)]
      BY <1>8, <2>2, <3>1 DEF Desc!ProcessMemberLine
    <3>3. /\ r.passed = here.passed \cup B /\ r.top = here.top /\ r.inProse = FALSE
          /\ r.inOneOf = here.inOneOf /\ r.prose = here.prose
          /\ r.members = Desc!Add(t, here.members, i)
          /\ r.option = here.option /\ r.blocks = here.blocks /\ r.patch = here.patch
      BY <2>5, <3>2 DEF RecoverState
    <3>4. \A j \in B : /\ j \in DOMAIN t /\ i < j
                       /\ Desc!Deeper(t, j, t[i].indent)
      BY BlockLines
    <3>5. \A j \in B : j \notin Texts /\ (j \in Members(t) => base < t[j].indent)
      <4> SUFFICES ASSUME NEW j \in B
                   PROVE  j \notin Texts /\ (j \in Members(t) => base < t[j].indent)
        OBVIOUS
      <4>1. j \in DOMAIN t /\ i < j /\ Desc!Deeper(t, j, t[i].indent) BY <3>4
      <4>2. j \notin Texts
        <5>1. j \in Texts => j < i BY <2>1 DEF IsTidy, Texts
        <5> QED BY <1>1, <4>1, <5>1
      <4>3. j \in Members(t) => base < t[j].indent BY <1>1, <2>11, <4>1 DEF Desc!Deeper
      <4> QED BY <4>2, <4>3
    <3>6. Desc!Parent(t, i) = {} BY <2>1, <2>11 DEF IsBase
    <3>7. Kids(i) = Kids(i - 1) \cup {i} BY <1>4, <2>1, <3>6
    <3>8. Kids(i - 1) \in SUBSET Nat /\ \A j \in Kids(i - 1) : j < i
      <4>1. \A j \in Kids(i - 1) : j \in Nat /\ j <= i - 1 BY <1>1 DEF Kids
      <4> QED BY <1>1, <4>1
    <3>9. Desc!MembersAre(t, r.members, Kids(i))
      BY <1>1, <1>5, <2>4, <3>3, <3>7, <3>8, AddOne
    <3> HIDE DEF r, B
    <3> QED BY <1>5, <2>4, <2>7, <2>8, <3>3, <3>5, <3>9 DEF TidyInv, Kids, Prose, Texts
  <2> QED BY <1>1, <2>1, <2>9, <2>10, <2>11
<1> QED BY <1>6, <1>7, <1>8 DEF IsTidy

\* However long a tidy description is and however deep its members are nested,
\* each member is in the object it stands under, of two with one name the later
\* one stays, and the prose above them is all that stays.
\* (recoverMembersFromDescription and recoverMembersNested)
THEOREM OutlineOfAnyDepth ==
  \A t \in Desc!Descriptions : Desc!Tidy(t) => Desc!SameOutline(t)
<1> SUFFICES ASSUME NEW t, IsText(t), IsTidy(t) PROVE Desc!SameOutline(t)
  BY DescriptionsAreTexts DEF Desc!Tidy, IsTidy, Members
<1> DEFINE D == DOMAIN t
           r == Desc!Recover(t, D)
           s == Desc!ObjectSchema(t)
           Kids(parent) == {i \in Members(t) : Desc!Parent(t, i) = parent}
           n == Len(t)
<1>1. n \in Nat /\ D = 1..n BY DEF IsText
<1>2. \A i \in D : t[i].kind \notin {"meta", "patch"} BY DEF IsTidy
<1>3. Desc!Extract(t) = [meta |-> {}, patch |-> {}, rest |-> D] BY <1>2, NothingToExtract
<1>4. /\ s.meta = {} /\ s.patch = r.patch /\ s.prose = r.prose /\ s.members = r.members
      /\ s.nested = [i \in D |-> Desc!MemberSchema(t, D, i)]
      /\ s.oneOf = {[header |-> o.header, members |-> Desc!AddAll(t, o.lines)] : o \in r.blocks}
  BY <1>3 DEF Desc!ObjectSchema
<1> HIDE DEF s
<1>5. PICK base : IsBase(t, base) BY BaseExists
<1>6. PICK f : /\ RecoverRun(t, D, f)
               /\ LET end == f[n] IN r = [end EXCEPT !.blocks = @ \cup end.option]
  BY RecoverRuns
<1>7. f[0] = RecoverStart /\ f[n] \in RecoverState BY <1>6 DEF RecoverRun
<1>8. \A i \in 1..n : f[i - 1] \in RecoverState /\ f[i] = Desc!RecoverLine(t, D, f[i - 1], i)
  BY <1>1, <1>6 DEF RecoverRun
<1> HIDE DEF r
<1>9. \A m \in Members(t) : m \in D /\ m \in Nat /\ 0 < m /\ m <= n BY <1>1, MemberLine
<1>10. \A j \in Desc!Lines(t, "text") : j \in Nat /\ ~(j <= 0) /\ j <= n
  BY <1>1 DEF Desc!Lines
<1> DEFINE T == {i \in 0..n : TidyInv(t, base, f[i], i)}
<1>11. 0 \in T
  <2>1. {j \in Desc!Lines(t, "text") : j <= 0} = {} BY <1>10
  <2>2. {j \in Members(t) : Desc!Parent(t, j) = {} /\ j <= 0} = {} BY <1>9
  <2>3. /\ f[0].passed = {} /\ f[0].top = {} /\ f[0].inProse = TRUE /\ f[0].inOneOf = FALSE
        /\ f[0].prose = {} /\ f[0].members = Desc!NoMembers
        /\ f[0].option = {} /\ f[0].blocks = {} /\ f[0].patch = {}
    BY <1>7 DEF RecoverStart
  <2>4. Desc!MembersAre(t, f[0].members,
          {j \in Members(t) : Desc!Parent(t, j) = {} /\ j <= 0})
    BY <2>2, <2>3, NoneAre
  <2>5. TidyInv(t, base, f[0], 0) BY <1>9, <2>1, <2>3, <2>4 DEF TidyInv
  <2> QED BY <1>1, <2>5
<1>12. ASSUME NEW i \in 1..n, i - 1 \in T PROVE i \in T
  <2>1. TidyInv(t, base, f[i - 1], i - 1) /\ i \in D /\ i \in 0..n BY <1>1, <1>12
  <2>2. TidyInv(t, base, f[i], i) BY <1>5, <1>8, <2>1, TidyStep
  <2> QED BY <2>1, <2>2
<1>13. n \in T
  <2> HIDE DEF T
  <2> QED BY <1>1, <1>11, <1>12, LoopInduction
<1>14. TidyInv(t, base, f[n], n) BY <1>13
<1>15. /\ r.patch = f[n].patch /\ r.prose = f[n].prose /\ r.members = f[n].members
       /\ r.blocks = f[n].blocks \cup f[n].option
  BY <1>6, <1>7 DEF RecoverState
<1>16. r.patch = {} /\ r.blocks = {} BY <1>14, <1>15 DEF TidyInv
<1>17. {j \in Desc!Lines(t, "text") : j <= n} = Desc!Lines(t, "text") BY <1>10
<1>18. {j \in Members(t) : Desc!Parent(t, j) = {} /\ j <= n} = Kids({}) BY <1>9
<1>19. r.prose = Desc!Lines(t, "text") BY <1>14, <1>15, <1>17 DEF TidyInv
<1>20. Desc!MembersAre(t, r.members, Kids({})) BY <1>14, <1>15, <1>18 DEF TidyInv
<1>21. s.oneOf = {} BY <1>4, <1>16
<1>22. ASSUME NEW p \in Members(t)
       PROVE  Desc!MembersAre(t, s.nested[p], IF t[p].object THEN Kids({p}) ELSE {})
  <2>1. s.nested[p] = Desc!MemberSchema(t, D, p) BY <1>4, <1>9
  <2>2. CASE t[p].object
    <3>1. s.nested[p] = Desc!RecoverNested(t, Desc!CollectSubLines(t, D, p))
      BY <2>1, <2>2 DEF Desc!MemberSchema
    <3>2. Desc!RecoverNested(t, Desc!CollectSubLines(t, D, p)) = Desc!AddAll(t, Kids({p}))
      BY NestedKids DEF Desc!RecoverNested
    <3>3. Kids({p}) \in SUBSET DOMAIN t BY <1>9
    <3> HIDE DEF Kids
    <3> QED BY <2>2, <3>1, <3>2, <3>3, AddAllAre
  <2>3. CASE ~t[p].object
    <3>1. s.nested[p] = Desc!NoMembers BY <2>1, <2>3 DEF Desc!MemberSchema
    <3> QED BY <2>3, <3>1, NoneAre
  <2> QED BY <2>2, <2>3
<1> QED BY <1>4, <1>16, <1>19, <1>20, <1>21, <1>22 DEF Desc!SameOutline, Members, s

-----------------------------------------------------------------------------
(* The options of a One Of.                                                  *)

OptionHeaders(t) == Desc!Lines(t, "properties")

\* A description with one One Of, on line o.
IsOneOf(t, o) ==
  /\ o \in DOMAIN t /\ t[o].kind = "oneof"
  /\ \A i \in DOMAIN t :
       /\ t[i].kind \in {"blank", "text", "member", "oneof", "properties"}
       /\ t[i].kind = "oneof" => i = o
  /\ \A i \in OptionHeaders(t) : o < i
  /\ \A i \in Members(t) : i < o => t[i].indent >= t[o].indent

\* The members of the option with this header among the first lines.
OptionLines(t, header, i) ==
  {m \in Members(t) : header < m /\ m <= i /\ \A h \in OptionHeaders(t) : header < h => m < h}

\* What the scanner of members has after line i.
OptionsInv(t, o, s, i) ==
  /\ \A j \in s.passed : j < o
  /\ i < o => s.inOneOf = FALSE /\ s.option = {} /\ s.blocks = {}
  /\ o <= i =>
       /\ s.inOneOf = TRUE
       /\ {q.header : q \in Options(s)} = {h \in OptionHeaders(t) : h <= i}
       /\ \A q \in Options(s) : q.lines = OptionLines(t, q.header, i)
       /\ \A q \in s.option : \A h \in OptionHeaders(t) : h <= i => h <= q.header
       /\ \A q \in s.blocks : \E h \in OptionHeaders(t) : h <= i /\ q.header < h

\* Above the One Of nothing but members, whose blocks end before it, and prose.
LEMMA AboveOneOf ==
  ASSUME NEW t, IsText(t), NEW o, IsOneOf(t, o), NEW s \in RecoverState,
         NEW i \in DOMAIN t, i < o, OptionsInv(t, o, s, i - 1)
  PROVE  OptionsInv(t, o, Desc!RecoverLine(t, DOMAIN t, s, i), i)
<1> DEFINE r == Desc!RecoverLine(t, DOMAIN t, s, i)
           B == Desc!CollectSubLines(t, DOMAIN t, i)
<1>1. i \in Nat /\ o \in DOMAIN t /\ o \in Nat /\ t[i].indent \in Nat /\ t[o].indent \in Nat
      /\ \A k \in DOMAIN t : k \in Nat
  BY DEF IsText, IsOneOf
<1>2. i - 1 < o /\ ~(o <= i) BY <1>1
<1>3. /\ s.inOneOf = FALSE /\ ~s.inOneOf /\ s.option = {} /\ s.blocks = {}
      /\ \A j \in s.passed : j < o
  BY <1>2 DEF OptionsInv
<1>4. SUFFICES /\ r.inOneOf = FALSE /\ r.option = {} /\ r.blocks = {}
               /\ \A j \in r.passed : j < o
  BY <1>2 DEF OptionsInv
<1>5. t[i].kind \in {"blank", "text", "member"}
  <2>1. t[i].kind \in {"blank", "text", "member", "oneof", "properties"} BY DEF IsOneOf
  <2>2. t[i].kind # "oneof" BY <1>1 DEF IsOneOf
  <2>3. t[i].kind # "properties"
    <3>1. i \notin OptionHeaders(t) BY <1>1 DEF IsOneOf
    <3> QED BY <3>1 DEF OptionHeaders, Desc!Lines
  <2> QED BY <2>1, <2>2, <2>3
<1>6. CASE i \in s.passed \/ t[i].kind = "blank" BY <1>3, <1>6, Skipped
<1>7. CASE i \notin s.passed /\ t[i].kind = "text"
  <2>1. r = IF s.inProse THEN [s EXCEPT !.prose = @ \cup {i}] ELSE s BY <1>3, <1>7, ProseLine
  <2>2. r.inOneOf = s.inOneOf /\ r.option = s.option /\ r.blocks = s.blocks
        /\ r.passed = s.passed
    BY <2>1 DEF RecoverState
  <2> QED BY <1>3, <2>2
<1>8. CASE i \notin s.passed /\ t[i].kind = "member"
  <2> DEFINE here == [s EXCEPT !.top = Desc!Top(t, s, i)]
  <2>1. Desc!HasPrefix(t, i) /\ Desc!IsMember(t, i) /\ t[i].kind # "oneof" /\ t[i].kind # "patch"
    BY <1>8 DEF Desc!HasPrefix, Desc!IsMember
  <2>2. r \in {here, Desc!ProcessMemberLine(t, DOMAIN t, here, i)}
    BY <1>3, <1>8, <2>1, PrefixLine
  <2>3. here \in RecoverState BY <1>1, TopType
  <2>4. here.inOneOf = s.inOneOf /\ here.option = s.option /\ here.blocks = s.blocks
        /\ here.passed = s.passed
    BY DEF RecoverState
  <2> HIDE DEF here
  <2>5. CASE r = here BY <1>3, <2>4, <2>5
  <2>6. CASE r = Desc!ProcessMemberLine(t, DOMAIN t, here, i)
    <3>1. r = [here EXCEPT !.inProse = FALSE, !.passed = @ \cup B,
                           !.members = Desc!Add(t, here.members, i)]
      BY <2>1, <2>6 DEF Desc!ProcessMemberLine
    <3>2. /\ r.passed = here.passed \cup B /\ r.inOneOf = here.inOneOf
          /\ r.option = here.option /\ r.blocks = here.blocks
      BY <2>3, <3>1 DEF RecoverState
    <3>3. ASSUME NEW j \in B PROVE j < o
      <4> SUFFICES ASSUME ~(j < o) PROVE FALSE OBVIOUS
      <4>1. j \in Desc!Following(t, DOMAIN t, i) /\ j \in Nat BY <1>1, BlockLines
      <4>2. o \in Desc!Following(t, DOMAIN t, i) BY <1>1, <4>1, BlockWhole
      <4>3. Desc!Deeper(t, o, t[i].indent) BY <4>2, BlockLines
      <4>4. t[i].indent >= t[o].indent BY <1>8 DEF IsOneOf, Members, Desc!Lines
      <4>5. t[o].kind # "blank" BY DEF IsOneOf
      <4> QED BY <1>1, <4>3, <4>4, <4>5 DEF Desc!Deeper
    <3> HIDE DEF r, B
    <3> QED BY <1>3, <2>4, <3>2, <3>3
  <2> QED BY <2>2, <2>5, <2>6
<1> QED BY <1>5, <1>6, <1>7, <1>8

LEMMA BelowOneOf ==
  ASSUME NEW t, IsText(t), NEW o, IsOneOf(t, o), NEW s \in RecoverState,
         NEW i \in DOMAIN t, o < i, OptionsInv(t, o, s, i - 1)
  PROVE  OptionsInv(t, o, Desc!RecoverLine(t, DOMAIN t, s, i), i)
<1> DEFINE r == Desc!RecoverLine(t, DOMAIN t, s, i)
           L(q, k) == OptionLines(t, q.header, k)
<1>1. /\ i \in Nat /\ o \in DOMAIN t /\ o \in Nat
      /\ \A k \in Members(t) : k \in Nat
      /\ \A k \in OptionHeaders(t) : k \in Nat /\ k \in DOMAIN t
  BY MemberLine DEF IsText, IsOneOf, OptionHeaders, Desc!Lines
<1>2. o <= i - 1 /\ o <= i /\ ~(i < o) BY <1>1
<1>3. /\ s.inOneOf = TRUE /\ s.inOneOf
      /\ \A j \in s.passed : j < o
      /\ {q.header : q \in Options(s)} = {h \in OptionHeaders(t) : h <= i - 1}
      /\ \A q \in Options(s) : q.lines = L(q, i - 1)
      /\ \A q \in s.option : \A h \in OptionHeaders(t) : h <= i - 1 => h <= q.header
      /\ \A q \in s.blocks : \E h \in OptionHeaders(t) : h <= i - 1 /\ q.header < h
  BY <1>2 DEF OptionsInv
<1>4. i \notin s.passed BY <1>1, <1>2, <1>3
<1>5. \A k \in Nat : /\ k <= i <=> k <= i - 1 \/ k = i
                     /\ k <= i - 1 => k < i
                     /\ ~(k <= i - 1) <=> i <= k
  BY <1>1
<1>6. t[i].kind \in {"blank", "text", "member", "properties"} BY <1>1, <1>2 DEF IsOneOf
<1>7. /\ i \in Members(t) <=> t[i].kind = "member"
      /\ i \in OptionHeaders(t) <=> t[i].kind = "properties"
  BY DEF Members, OptionHeaders, Desc!Lines
<1>8. \A q \in Options(s) : q.header \in Nat /\ q.header <= i - 1 /\ q.header \in OptionHeaders(t)
  BY <1>1, <1>3
<1>9. ASSUME i \notin Members(t) PROVE \A header : OptionLines(t, header, i) = OptionLines(t, header, i - 1)
  BY <1>1, <1>5, <1>9 DEF OptionLines
<1>10. ASSUME i \notin OptionHeaders(t)
       PROVE  /\ {h \in OptionHeaders(t) : h <= i} = {h \in OptionHeaders(t) : h <= i - 1}
              /\ \A h \in OptionHeaders(t) : h <= i <=> h <= i - 1
  BY <1>1, <1>5, <1>10
<1>11. CASE t[i].kind \in {"blank", "text"}
  <2>1. r = s
    <3>1. CASE t[i].kind = "blank" BY <3>1, Skipped
    <3>2. CASE t[i].kind = "text"
      <4>1. r = Desc!AdvanceOneOf(t, s, i) BY <1>3, <1>4, <3>2, OneOfLine
      <4> QED BY <3>2, <4>1 DEF Desc!AdvanceOneOf, Desc!IsMember
    <3> QED BY <1>11, <3>1, <3>2
  <2>2. i \notin Members(t) /\ i \notin OptionHeaders(t) BY <1>7, <1>11
  <2> HIDE DEF r
  <2>3. \A q \in Options(s) : q.lines = L(q, i) BY <1>3, <1>9, <2>2
  <2>4. {q.header : q \in Options(s)} = {h \in OptionHeaders(t) : h <= i} BY <1>3, <1>10, <2>2
  <2>5. \A q \in s.option : \A h \in OptionHeaders(t) : h <= i => h <= q.header
    BY <1>3, <1>10, <2>2
  <2>6. \A q \in s.blocks : \E h \in OptionHeaders(t) : h <= i /\ q.header < h
    BY <1>3, <1>10, <2>2
  <2> QED BY <1>2, <1>3, <2>1, <2>3, <2>4, <2>5, <2>6 DEF OptionsInv, r
<1>12. CASE t[i].kind = "properties"
  <2> DEFINE new == [header |-> i, lines |-> {}]
  <2>1. i \notin Members(t) /\ i \in OptionHeaders(t) BY <1>7, <1>12
  <2>2. r = Desc!AdvanceOneOf(t, s, i) BY <1>3, <1>4, <1>12, OneOfLine
  <2>3. r = [s EXCEPT !.option = {new}, !.blocks = @ \cup s.option]
    BY <1>12, <2>2 DEF Desc!AdvanceOneOf
  <2>4. /\ r.passed = s.passed /\ r.inOneOf = s.inOneOf /\ r.option = {new}
        /\ r.blocks = s.blocks \cup s.option
    BY <2>3 DEF RecoverState
  <2>5. new.header = i /\ new.lines = {} OBVIOUS
  <2> HIDE DEF r, new
  <2>6. Options(r) = Options(s) \cup {new} /\ r.blocks = Options(s) BY <2>4 DEF Options
  <2>7. {q.header : q \in Options(r)} = {q.header : q \in Options(s)} \cup {i}
    BY <2>5, <2>6
  <2>8. {h \in OptionHeaders(t) : h <= i} = {h \in OptionHeaders(t) : h <= i - 1} \cup {i}
    BY <1>1, <1>5, <2>1
  <2>9. L(new, i) = {} BY <1>1, <2>5 DEF OptionLines
  <2>10. \A q \in Options(s) : q.lines = L(q, i) BY <1>3, <1>9, <2>1
  <2>11. \A q \in Options(r) : q.lines = L(q, i)
    <3> HIDE DEF L
    <3> QED BY <2>5, <2>6, <2>9, <2>10
  <2>12. \A q \in r.option : \A h \in OptionHeaders(t) : h <= i => h <= q.header BY <2>4, <2>5
  <2>13. \A q \in r.blocks : \E h \in OptionHeaders(t) : h <= i /\ q.header < h
    <3> SUFFICES ASSUME NEW q \in Options(s) PROVE i <= i /\ q.header < i BY <2>1, <2>6
    <3> QED BY <1>1, <1>5, <1>8
  <2>14. {q.header : q \in Options(r)} = {h \in OptionHeaders(t) : h <= i} BY <1>3, <2>7, <2>8
  <2> QED BY <1>2, <1>3, <2>4, <2>11, <2>12, <2>13, <2>14 DEF OptionsInv, r
<1>13. CASE t[i].kind = "member"
  <2> DEFINE Longer(q) == [header |-> q.header, lines |-> q.lines \cup {i}]
             longer == {Longer(q) : q \in s.option}
  <2>1. i \in Members(t) /\ i \notin OptionHeaders(t) BY <1>7, <1>13
  <2>2. r = Desc!AdvanceOneOf(t, s, i) BY <1>3, <1>4, <1>13, OneOfLine
  <2>3. r = [s EXCEPT !.option = longer]
    BY <1>13, <2>2 DEF Desc!AdvanceOneOf, Desc!IsMember
  <2>4. /\ r.passed = s.passed /\ r.inOneOf = s.inOneOf /\ r.option = longer
        /\ r.blocks = s.blocks
    BY <2>3 DEF RecoverState
  <2>5. /\ \A p \in longer : \E q \in s.option :
             p.header = q.header /\ p.lines = q.lines \cup {i}
        /\ \A q \in s.option : \E p \in longer : p.header = q.header
    <3>1. \A q \in s.option : Longer(q) \in longer OBVIOUS
    <3>2. \A q : Longer(q).header = q.header /\ Longer(q).lines = q.lines \cup {i} OBVIOUS
    <3>3. \A p \in longer : \E q \in s.option : p = Longer(q) OBVIOUS
    <3> HIDE DEF Longer, longer
    <3> QED BY <3>1, <3>2, <3>3
  <2> HIDE DEF r, longer
  <2>6. s.option \subseteq Options(s) /\ s.blocks \subseteq Options(s)
        /\ Options(r) = s.blocks \cup longer /\ Options(s) = s.blocks \cup s.option
    BY <2>4 DEF Options
  <2>7. {q.header : q \in Options(r)} = {q.header : q \in Options(s)} BY <2>5, <2>6
  <2>8. ASSUME NEW p \in longer PROVE p.lines = L(p, i)
    <3>1. PICK q \in s.option : p.header = q.header /\ p.lines = q.lines \cup {i} BY <2>5
    <3>2. q.lines = L(q, i - 1) /\ q.header < i BY <1>1, <1>3, <1>5, <1>8, <2>6
    <3>3. ASSUME NEW h \in OptionHeaders(t), q.header < h PROVE i < h
      <4>1. ~(h <= i - 1)
        <5> SUFFICES ASSUME h <= i - 1 PROVE FALSE OBVIOUS
        <5>1. h <= q.header BY <1>3
        <5> QED BY <1>1, <1>8, <2>6, <3>3, <5>1
      <4>2. h # i BY <2>1
      <4> QED BY <1>1, <4>1, <4>2
    <3>4. OptionLines(t, q.header, i) = OptionLines(t, q.header, i - 1) \cup {i}
      BY <1>1, <1>5, <2>1, <3>2, <3>3 DEF OptionLines
    <3> QED BY <3>1, <3>2, <3>4
  <2>9. ASSUME NEW q \in s.blocks PROVE q.lines = L(q, i)
    <3>1. PICK h \in OptionHeaders(t) : h <= i - 1 /\ q.header < h BY <1>3
    <3>2. ~(i < h) BY <1>1, <3>1
    <3>3. OptionLines(t, q.header, i) = OptionLines(t, q.header, i - 1)
      BY <1>1, <1>5, <3>1, <3>2 DEF OptionLines
    <3> QED BY <1>3, <2>6, <3>3
  <2>10. \A q \in Options(r) : q.lines = L(q, i)
    <3> HIDE DEF L
    <3> QED BY <2>6, <2>8, <2>9
  <2>11. \A q \in r.option : \A h \in OptionHeaders(t) : h <= i => h <= q.header
    BY <1>3, <1>10, <2>1, <2>4, <2>5
  <2>12. \A q \in r.blocks : \E h \in OptionHeaders(t) : h <= i /\ q.header < h
    BY <1>3, <1>10, <2>1, <2>4
  <2>13. {q.header : q \in Options(r)} = {h \in OptionHeaders(t) : h <= i}
    BY <1>3, <1>10, <2>1, <2>7
  <2> QED BY <1>2, <1>3, <2>4, <2>10, <2>11, <2>12, <2>13 DEF OptionsInv, r
<1> QED BY <1>6, <1>11, <1>12, <1>13

LEMMA AtOneOf ==
  ASSUME NEW t, IsText(t), NEW o, IsOneOf(t, o), NEW s \in RecoverState,
         OptionsInv(t, o, s, o - 1)
  PROVE  OptionsInv(t, o, Desc!RecoverLine(t, DOMAIN t, s, o), o)
<1> DEFINE r == Desc!RecoverLine(t, DOMAIN t, s, o)
           top == Desc!Top(t, s, o)
<1>1. /\ o \in Nat /\ o - 1 < o /\ ~(o < o) /\ t[o].kind = "oneof"
      /\ \A h \in OptionHeaders(t) : ~(h <= o)
  <2>1. \A h \in OptionHeaders(t) : h \in Nat /\ o \in Nat
    BY DEF OptionHeaders, Desc!Lines, IsText, IsOneOf
  <2>2. \A h \in OptionHeaders(t) : o < h BY DEF IsOneOf
  <2>3. o \in Nat /\ t[o].kind = "oneof" BY DEF IsText, IsOneOf
  <2> QED BY <2>1, <2>2, <2>3
<1>2. s.option = {} /\ s.blocks = {} /\ \A j \in s.passed : j < o BY <1>1 DEF OptionsInv
<1>3. o \notin s.passed BY <1>1, <1>2
<1>4. r = [s EXCEPT !.inProse = FALSE, !.inOneOf = TRUE, !.option = {}, !.top = top]
  BY <1>1, <1>3 DEF Desc!RecoverLine
<1> HIDE DEF top
<1>5. r.passed = s.passed /\ r.inOneOf = TRUE /\ r.option = {} /\ r.blocks = s.blocks
  BY <1>4 DEF RecoverState
<1> HIDE DEF r
<1>6. Options(r) = {} BY <1>2, <1>5 DEF Options
<1>7. {h \in OptionHeaders(t) : h <= o} = {} BY <1>1
<1> QED BY <1>1, <1>2, <1>5, <1>6, <1>7 DEF OptionsInv, r

\* The scanner does not look at the indentation below a One Of.  Where every
\* group is nested in the One Of and every member in a group, the members between
\* a group's header and the next one are those that are nested in it.
GroupsWithin(t, o) ==
  /\ \A h \in OptionHeaders(t) : Desc!Within(t, h) = {o}
  /\ \A m \in Members(t) : o < m => \E h \in OptionHeaders(t) : Desc!Within(t, m) = {h}

LEMMA GroupEnds ==
  ASSUME NEW t, IsText(t), NEW o, IsOneOf(t, o), GroupsWithin(t, o),
         NEW g \in OptionHeaders(t), NEW m \in Members(t), Desc!Within(t, m) = {g},
         NEW h \in OptionHeaders(t), g < h
  PROVE  m < h
<1> DEFINE P == {j \in DOMAIN t : Desc!HasPrefix(t, j)}
<1>1. /\ g \in Nat /\ h \in Nat /\ m \in Nat /\ o \in Nat
      /\ g \in P /\ h \in P /\ t[m].indent \in Nat /\ t[h].indent \in Nat
      /\ t[g].indent \in Nat
  BY DEF OptionHeaders, Members, Desc!Lines, IsText, IsOneOf, Desc!HasPrefix
<1>2. m # h BY DEF OptionHeaders, Members, Desc!Lines
<1>3. g \in Desc!Nearest(t, P, m) /\ o \in Desc!Nearest(t, P, g) /\ o \in Desc!Nearest(t, P, h)
  BY DEF Desc!Within, GroupsWithin
<1>4. o < g /\ t[g].indent >= t[h].indent BY <1>1, <1>3 DEF Desc!Nearest
<1>5. CASE h < m
  <2>1. t[h].indent >= t[m].indent /\ t[g].indent < t[m].indent
    BY <1>1, <1>3, <1>5 DEF Desc!Nearest
  <2> QED BY <1>1, <1>4, <2>1
<1> QED BY <1>1, <1>2, <1>5

LEMMA GroupMembers ==
  ASSUME NEW t, IsText(t), NEW o, IsOneOf(t, o), GroupsWithin(t, o),
         NEW g \in OptionHeaders(t)
  PROVE  {m \in Members(t) : g < m /\ \A h \in OptionHeaders(t) : g < h => m < h} =
           {m \in Members(t) : Desc!Within(t, m) = {g}}
<1>1. /\ g \in Nat /\ o \in Nat /\ o < g
      /\ \A h \in OptionHeaders(t) : h \in Nat
      /\ \A m \in Members(t) : m \in Nat
  BY DEF OptionHeaders, Members, Desc!Lines, IsText, IsOneOf
<1>2. ASSUME NEW m \in Members(t), Desc!Within(t, m) = {g} PROVE g < m
  BY <1>2 DEF Desc!Within, Desc!Nearest
<1>3. ASSUME NEW m \in Members(t), g < m, \A h \in OptionHeaders(t) : g < h => m < h
      PROVE  Desc!Within(t, m) = {g}
  <2>1. PICK k \in OptionHeaders(t) : Desc!Within(t, m) = {k}
    BY <1>1, <1>3 DEF GroupsWithin
  <2>2. k < m BY <2>1 DEF Desc!Within, Desc!Nearest
  <2>3. ~(g < k) BY <1>1, <1>3, <2>2
  <2>4. ~(k < g)
    <3> SUFFICES ASSUME k < g PROVE FALSE OBVIOUS
    <3>1. m < g BY <2>1, GroupEnds
    <3> QED BY <1>1, <1>3, <3>1
  <2> QED BY <1>1, <2>1, <2>3, <2>4
<1> QED BY <1>2, <1>3, GroupEnds

\* However long a description is whose One Of has Properties groups for options,
\* laid out by their indentation, each option has the members nested in its group.
\* (advanceOneOf and oneOfOptionSchema)
THEOREM OptionsOfAnyLength ==
  \A t \in Desc!Descriptions : Desc!OneOfGroups(t) => Desc!SameOptions(t)
<1> SUFFICES ASSUME NEW t \in Desc!Descriptions, Desc!OneOfGroups(t) PROVE Desc!SameOptions(t)
  OBVIOUS
<1>1. IsText(t) BY DescriptionsAreTexts
<1>2. \A i \in DOMAIN t : t[i].kind \in Desc!Kinds BY KindsOfLines
<1>3. PICK o : IsOneOf(t, o) /\ GroupsWithin(t, o)
  <2>0. PICK o \in Desc!Lines(t, "oneof") :
          /\ Desc!Lines(t, "oneof") = {o}
          /\ \A h \in Desc!Lines(t, "properties") : Desc!Within(t, h) = {o}
          /\ \A i \in Desc!Lines(t, "member") :
               \/ i < o /\ t[i].indent >= t[o].indent
               \/ o < i /\ \E h \in Desc!Lines(t, "properties") : Desc!Within(t, i) = {h}
    BY DEF Desc!OneOfGroups
  <2>1. /\ Desc!Lines(t, "oneof") = {o}
        /\ \A i \in Desc!Lines(t, "properties") : o < i
        /\ \A i \in Desc!Lines(t, "member") : i < o => t[i].indent >= t[o].indent
    <3>1. \A i \in Desc!Lines(t, "properties") : o < i
      BY <2>0 DEF Desc!Within, Desc!Nearest
    <3>2. o \in Nat /\ \A i \in Desc!Lines(t, "member") : i \in Nat
      BY <1>1 DEF IsText, Desc!Lines
    <3> QED BY <2>0, <3>1, <3>2
  <2>2. o \in DOMAIN t /\ t[o].kind = "oneof" BY <2>1 DEF Desc!Lines
  <2>3. ASSUME NEW i \in DOMAIN t
        PROVE  /\ t[i].kind \in {"blank", "text", "member", "oneof", "properties"}
               /\ t[i].kind = "oneof" => i = o
    <3>1. i \notin Desc!Lines(t, "meta") /\ i \notin Desc!Lines(t, "patch") BY DEF Desc!OneOfGroups
    <3>2. t[i].kind # "meta" /\ t[i].kind # "patch" BY <3>1 DEF Desc!Lines
    <3>3. t[i].kind = "oneof" => i \in Desc!Lines(t, "oneof") BY DEF Desc!Lines
    <3> QED BY <1>2, <2>1, <3>2, <3>3 DEF Desc!Kinds
  <2>4. IsOneOf(t, o) BY <2>1, <2>2, <2>3 DEF IsOneOf, OptionHeaders, Members
  <2>5. GroupsWithin(t, o)
    <3>1. o \in Nat /\ \A i \in Members(t) : i \in Nat BY <1>1 DEF IsText, Desc!Lines, Members
    <3> QED BY <2>0, <3>1 DEF GroupsWithin, OptionHeaders, Members
  <2> QED BY <2>4, <2>5
<1> DEFINE D == DOMAIN t
           r == Desc!Recover(t, D)
           s == Desc!ObjectSchema(t)
           n == Len(t)
<1>4. n \in Nat /\ D = 1..n /\ o \in 1..n BY <1>1, <1>3 DEF IsText, IsOneOf
<1>5. Desc!Extract(t) = [meta |-> {}, patch |-> {}, rest |-> D]
  <2>1. \A i \in D : t[i].kind \notin {"meta", "patch"} BY <1>3 DEF IsOneOf
  <2> QED BY <1>1, <2>1, NothingToExtract
<1>6. s.oneOf = {[header |-> q.header, members |-> Desc!AddAll(t, q.lines)] : q \in r.blocks}
  BY <1>5 DEF Desc!ObjectSchema
<1> HIDE DEF s
<1>7. PICK f : /\ RecoverRun(t, D, f)
               /\ LET end == f[n] IN r = [end EXCEPT !.blocks = @ \cup end.option]
  BY <1>1, RecoverRuns
<1>8. f[0] = RecoverStart /\ f[n] \in RecoverState BY <1>7 DEF RecoverRun
<1>9. \A i \in 1..n : f[i - 1] \in RecoverState /\ f[i] = Desc!RecoverLine(t, D, f[i - 1], i)
  BY <1>4, <1>7 DEF RecoverRun
<1> HIDE DEF r
<1> DEFINE T == {i \in 0..n : OptionsInv(t, o, f[i], i)}
<1>10. 0 \in T
  <2>1. f[0].passed = {} /\ f[0].inOneOf = FALSE /\ f[0].option = {} /\ f[0].blocks = {}
    BY <1>8 DEF RecoverStart
  <2>2. ~(o <= 0) BY <1>4
  <2> QED BY <1>4, <2>1, <2>2 DEF OptionsInv
<1>11. ASSUME NEW i \in 1..n, i - 1 \in T PROVE i \in T
  <2>1. OptionsInv(t, o, f[i - 1], i - 1) /\ i \in D /\ i \in 0..n BY <1>4, <1>11
  <2>2. CASE i < o BY <1>1, <1>3, <1>9, <2>1, <2>2, AboveOneOf
  <2>3. CASE o < i BY <1>1, <1>3, <1>9, <2>1, <2>3, BelowOneOf
  <2>4. CASE i = o BY <1>1, <1>3, <1>9, <2>1, <2>4, AtOneOf
  <2> QED BY <1>4, <2>2, <2>3, <2>4
<1>12. n \in T
  <2> HIDE DEF T
  <2> QED BY <1>4, <1>10, <1>11, LoopInduction
<1>13. OptionsInv(t, o, f[n], n) /\ o <= n BY <1>4, <1>12
<1>14. r.blocks = Options(f[n]) BY <1>7, <1>8 DEF RecoverState, Options
<1>15. \A h \in OptionHeaders(t) : h <= n BY <1>4 DEF OptionHeaders, Desc!Lines
<1>16. {q.header : q \in r.blocks} = OptionHeaders(t) BY <1>13, <1>14, <1>15 DEF OptionsInv
<1>17. {e.header : e \in s.oneOf} = OptionHeaders(t)
  <2> DEFINE E(q) == [header |-> q.header, members |-> Desc!AddAll(t, q.lines)]
  <2>1. \A q : E(q).header = q.header OBVIOUS
  <2>2. s.oneOf = {E(q) : q \in r.blocks} BY <1>6
  <2> HIDE DEF E
  <2> QED BY <1>16, <2>1, <2>2
<1>18. ASSUME NEW e \in s.oneOf
       PROVE  Desc!MembersAre(t, e.members, {i \in Members(t) : Desc!Within(t, i) = {e.header}})
  <2>1. PICK q \in r.blocks : e = [header |-> q.header, members |-> Desc!AddAll(t, q.lines)]
    BY <1>6
  <2>2. e.header = q.header /\ e.members = Desc!AddAll(t, q.lines) BY <2>1
  <2>3. q.lines = OptionLines(t, q.header, n) BY <1>13, <1>14 DEF OptionsInv
  <2>4. \A i \in Members(t) : i \in D /\ i <= n BY <1>4 DEF Members, Desc!Lines
  <2>5. q.lines \subseteq D /\
        q.lines = {i \in Members(t) :
                     q.header < i /\ \A h \in OptionHeaders(t) : q.header < h => i < h}
    BY <2>3, <2>4 DEF OptionLines
  <2>6. Desc!MembersAre(t, Desc!AddAll(t, q.lines), q.lines) BY <1>1, <2>5, AddAllAre
  <2>7. q.lines = {i \in Members(t) : Desc!Within(t, i) = {q.header}}
    BY <1>1, <1>3, <1>16, <2>5, GroupMembers
  <2> QED BY <2>2, <2>6, <2>7
<1> QED BY <1>17, <1>18 DEF Desc!SameOptions, Members, OptionHeaders, s

-----------------------------------------------------------------------------
(* Texts, as they are written.                                               *)

TextTyped ==
  /\ genre = "metadata" => written \in Meta!Entries
  /\ genre \in Described => written \in Desc!Descriptions

\* Symbol by symbol, metadata and descriptions are written and nothing else.
THEOREM TextsInvariance == TextsSpec => []TextTyped
<1>1. TextsInit => TextTyped BY SymbolsAssumption DEF TextsInit, TextTyped
<1>2. TextTyped /\ [TextsNext]_textVars => TextTyped'
  <2> SUFFICES ASSUME TextTyped, [TextsNext]_textVars PROVE TextTyped' OBVIOUS
  <2>1. ASSUME NEW symbol \in Alphabet[genre], Write(symbol) PROVE TextTyped'
    <3>1. genre' = genre /\ written' = Append(written, symbol) BY <2>1 DEF Write
    <3>2. CASE genre = "metadata"
      <4>1. symbol \in Meta!EntryType BY <2>1, <3>2, SymbolsAssumption
      <4>2. written \in Seq(Meta!EntryType) BY <3>2 DEF TextTyped, Meta!Entries
      <4>3. Append(written, symbol) \in Seq(Meta!EntryType) BY <4>1, <4>2, AppendProperties
      <4>4. genre' \notin Described BY <3>1, <3>2 DEF Described
      <4> QED BY <3>1, <4>3, <4>4 DEF TextTyped, Meta!Entries
    <3>3. CASE genre \in Described
      <4>1. symbol \in Desc!LineType BY <2>1, <3>3, SymbolsAssumption
      <4>2. written \in Seq(Desc!LineType) BY <3>3 DEF TextTyped, Desc!Descriptions
      <4>3. Append(written, symbol) \in Seq(Desc!LineType) BY <4>1, <4>2, AppendProperties
      <4>4. genre' # "metadata" BY <3>1, <3>3 DEF Described
      <4> QED BY <3>1, <4>3, <4>4 DEF TextTyped, Desc!Descriptions
    <3>4. CASE genre # "metadata" /\ genre \notin Described BY <3>1, <3>4 DEF TextTyped
    <3> QED BY <3>2, <3>3, <3>4
  <2>2. CASE genre = "value" /\ \E v \in Containers(written) : Wrap(v)
    BY <2>2 DEF Wrap, TextTyped, Described
  <2>3. CASE UNCHANGED textVars BY <2>3 DEF textVars, TextTyped
  <2> QED BY <2>1, <2>2, <2>3 DEF TextsNext
<1> QED BY <1>1, <1>2, PTL DEF TextsSpec

\* Whatever metadata is written, each entry with a value is in one part of the
\* document, or another that says the same is.
THEOREM MetadataRoutedAlways == TextsSpec => []MetadataRouted
<1>1. TextTyped => MetadataRouted BY EntriesRouted DEF TextTyped, MetadataRouted
<1> QED BY <1>1, TextsInvariance, PTL

\* Of whatever description that is tidy, the members and the prose are recovered
\* as they are indented, and of whatever One Of of Properties groups the options.
THEOREM OutlineRecoveredAlways == TextsSpec => []OutlineRecovered
<1>1. TextTyped => OutlineRecovered
  BY OutlineOfAnyDepth, OptionsOfAnyLength DEF TextTyped, OutlineRecovered
<1> QED BY <1>1, TextsInvariance, PTL

\* Whatever description is written, no line of it is put to two uses.
THEOREM LinesUsedOnceAlways == TextsSpec => []LinesUsedOnce
<1>1. TextTyped => LinesUsedOnce BY NoLineUsedTwice DEF TextTyped, LinesUsedOnce
<1> QED BY <1>1, TextsInvariance, PTL

-----------------------------------------------------------------------------
(* The copies that hold a + Meta block (MetaText).                         *)

USE IndentsAssumption, KeysAssumption

ScannedType ==
  [text : Seq(Line), absorbed : SUBSET Nat, kept : SUBSET Nat, consumed : BOOLEAN]

TypeOK ==
  /\ text \in Seq(Line)
  /\ find \in {"before", "in", "after"}
  /\ strip \in {"out", "in"}
  /\ indent \in [find : Nat, strip : Nat]
  /\ absorbed \subseteq DOMAIN text
  /\ kept \subseteq DOMAIN text
  /\ scanned \in Seq(ScannedType)
  /\ \A i \in DOMAIN scanned :
       scanned[i].absorbed \cup scanned[i].kept \subseteq DOMAIN scanned[i].text

OneHeader(lines) == \A i, j \in Headers(lines) : i = j

\* Until the block of a copy ends, the two scanners move together and leave no
\* line out.
InStep ==
  /\ find = "before" => strip = "out" /\ absorbed = {} /\ Headers(text) = {}
  /\ find = "in" => strip = "in" /\ indent.find = indent.strip
  /\ find # "after" => absorbed \cup kept = DOMAIN text

\* After it, the line that ended the block is prose; the two part only at a
\* second header, whose lines neither takes.
Apart ==
  /\ find # "before" => Headers(text) # {}
  /\ find = "after" => NonBlank(text, kept) # {}
  /\ find = "after" /\ strip = "in" => ~OneHeader(text)
  /\ OneHeader(text) => absorbed \cup kept = DOMAIN text

CopySoFar == absorbed \cap kept = {} /\ InStep /\ Apart

\* What is known of a copy that was scanned to its end.
CopyDone(copy) ==
  /\ copy.absorbed \cap copy.kept = {}
  /\ OneHeader(copy.text) => copy.absorbed \cup copy.kept = DOMAIN copy.text
  /\ copy.consumed => NonBlank(copy.text, DOMAIN copy.text) \subseteq copy.absorbed

CopiesDone == \A i \in DOMAIN scanned : CopyDone(scanned[i])

\* The copies whose block holds a key.
Holds(copy, key) == Pairs(copy.text, copy.absorbed, key) # {}
Holders(key) == {i \in DOMAIN scanned : Holds(scanned[i], key)}

\* The merged block has the keys that were held so far, from where each was
\* held first.
MetaSoFar ==
  \A key \in Merged :
    /\ key \in DOMAIN meta <=> Holders(key) # {}
    /\ key \in DOMAIN meta =>
         /\ meta[key][1] \in Holders(key)
         /\ \A i \in Holders(key) : meta[key][1] <= i

IInv == TypeOK /\ CopySoFar /\ CopiesDone /\ MetaSoFar

-----------------------------------------------------------------------------
(* One line more.                                                            *)

LEMMA LineType == ASSUME NEW line \in Line PROVE line.indent \in Nat
<1>1. line.indent \in {0} \cup Indents BY DEF Line
<1>2. \A n \in {0} \cup Indents : n \in Nat OBVIOUS
<1> QED BY <1>1, <1>2, Zenon

\* What a line appended to the text adds.
LEMMA AppendLine ==
  ASSUME TypeOK, NEW line \in Line, text' = Append(text, line)
  PROVE  LET n == Len(text) + 1
         IN  /\ n \in Nat /\ n \notin DOMAIN text /\ n = Len(text')
             /\ text' \in Seq(Line)
             /\ DOMAIN text' = DOMAIN text \cup {n}
             /\ text'[n] = line
             /\ \A i \in DOMAIN text : text'[i] = text[i]
             /\ Headers(text)' = Headers(text) \cup (IF line.kind = "header" THEN {n} ELSE {})
             /\ \A some \in SUBSET DOMAIN text : NonBlank(text', some) = NonBlank(text, some)
<1> DEFINE n == Len(text) + 1
<1>1. /\ Len(text) \in Nat /\ DOMAIN text = 1..Len(text) /\ text' \in Seq(Line)
      /\ Len(text') = n /\ DOMAIN text' = 1..n
      /\ text'[n] = line /\ \A i \in 1..Len(text) : text'[i] = text[i]
  BY AppendProperties, LenProperties DEF TypeOK
<1>2. n \in Nat /\ n \notin DOMAIN text /\ DOMAIN text' = DOMAIN text \cup {n} BY <1>1
<1>3. \A i \in DOMAIN text : text'[i] = text[i] BY <1>1
<1> HIDE DEF n
<1>4. Headers(text)' = Headers(text) \cup (IF line.kind = "header" THEN {n} ELSE {})
  BY <1>1, <1>2, <1>3 DEF Headers
<1>5. \A some \in SUBSET DOMAIN text : NonBlank(text', some) = NonBlank(text, some)
  BY <1>3 DEF NonBlank
<1> QED BY <1>1, <1>2, <1>3, <1>4, <1>5 DEF n

LEMMA ScanLineType ==
  ASSUME IInv, NEW line \in Line, ScanLine(line)
  PROVE  TypeOK'
<1> DEFINE n == Len(text) + 1
<1>1. /\ n \in Nat /\ n = Len(text') /\ text' \in Seq(Line)
      /\ DOMAIN text' = DOMAIN text \cup {n}
  BY AppendLine DEF ScanLine, IInv
<1> HIDE DEF n
<1>2. find' \in {"before", "in", "after"} /\ absorbed' \subseteq DOMAIN text'
  BY <1>1 DEF ScanLine, FindLine, IInv, TypeOK
<1>3. strip' \in {"out", "in"} /\ kept' \subseteq DOMAIN text'
  BY <1>1 DEF ScanLine, StripLine, IInv, TypeOK
<1>4. indent' \in [find : Nat, strip : Nat]
  BY LineType DEF ScanLine, IInv, TypeOK
<1> QED BY <1>1, <1>2, <1>3, <1>4 DEF ScanLine, IInv, TypeOK

\* The first header is the start of a block for both scanners, which then see
\* the same indentation; the line that ends it goes to the prose.
LEMMA ScanLineCopy ==
  ASSUME IInv, NEW line \in Line, ScanLine(line)
  PROVE  CopySoFar'
<1> DEFINE n == Len(text) + 1
<1>1. /\ n \in Nat /\ n \notin DOMAIN text /\ n = Len(text')
      /\ DOMAIN text' = DOMAIN text \cup {n}
      /\ text'[n] = line
      /\ Headers(text)' = Headers(text) \cup (IF line.kind = "header" THEN {n} ELSE {})
      /\ \A some \in SUBSET DOMAIN text : NonBlank(text', some) = NonBlank(text, some)
  BY AppendLine DEF ScanLine, IInv
<1>2. Headers(text) \subseteq DOMAIN text BY DEF Headers
<1>3. absorbed \subseteq DOMAIN text /\ kept \subseteq DOMAIN text BY DEF IInv, TypeOK
<1>4. /\ find' = find => indent'.find = indent.find
      /\ find' # find => indent'.find = line.indent
      /\ strip' = strip => indent'.strip = indent.strip
      /\ strip' # strip => indent'.strip = line.indent
  BY DEF ScanLine
<1> HIDE DEF n
<1>5. FindLine(line, n) /\ StripLine(line, n) BY <1>1 DEF ScanLine
<1>6. NonBlank(text, kept) \subseteq NonBlank(text', kept')
  <2>1. kept \subseteq kept' BY <1>5 DEF StripLine
  <2>2. NonBlank(text', kept) = NonBlank(text, kept) BY <1>1, <1>3
  <2> QED BY <2>1, <2>2 DEF NonBlank
<1>7. OneHeader(text)' => OneHeader(text) BY <1>1 DEF OneHeader
<1>8. Headers(text) # {} /\ line.kind = "header" => ~OneHeader(text)'
  BY <1>1, <1>2 DEF OneHeader
<1>9. CASE find = "before"
  <2>1. strip = "out" /\ absorbed = {} /\ kept = DOMAIN text /\ Headers(text) = {}
    BY <1>9 DEF IInv, CopySoFar, InStep
  <2>2. CASE line.kind = "header"
    <3>1. /\ find' = "in" /\ strip' = "in" /\ absorbed' = {n} /\ kept' = kept
          /\ indent'.find = indent'.strip /\ Headers(text)' = {n}
      BY <1>1, <1>4, <1>5, <1>9, <2>1, <2>2 DEF FindLine, StripLine
    <3> QED BY <1>1, <2>1, <3>1 DEF CopySoFar, InStep, Apart
  <2>3. CASE line.kind # "header"
    <3>1. /\ find' = "before" /\ strip' = "out" /\ absorbed' = {} /\ kept' = kept \cup {n}
          /\ Headers(text)' = {}
      BY <1>1, <1>5, <1>9, <2>1, <2>3 DEF FindLine, StripLine
    <3> QED BY <1>1, <2>1, <3>1 DEF CopySoFar, InStep, Apart
  <2> QED BY <2>2, <2>3
<1>10. CASE find = "in"
  <2>1. /\ strip = "in" /\ indent.find = indent.strip /\ absorbed \cup kept = DOMAIN text
        /\ Headers(text) # {} /\ absorbed \cap kept = {}
    BY <1>10 DEF IInv, CopySoFar, InStep, Apart
  <2>2. CASE Belongs(line, indent.find)
    <3>1. /\ find' = "in" /\ strip' = "in" /\ absorbed' = absorbed \cup {n} /\ kept' = kept
          /\ indent'.find = indent'.strip
      BY <1>4, <1>5, <1>10, <2>1, <2>2 DEF FindLine, StripLine
    <3> QED BY <1>1, <1>3, <2>1, <3>1 DEF CopySoFar, InStep, Apart
  <2>3. CASE ~Belongs(line, indent.find)
    <3>1. /\ find' = "after" /\ strip' = "out" /\ absorbed' = absorbed
          /\ kept' = kept \cup {n}
      BY <1>5, <1>10, <2>1, <2>3 DEF FindLine, StripLine
    <3>2. n \in NonBlank(text', kept')
      BY <1>1, <2>3, <3>1 DEF NonBlank, Belongs
    <3> QED BY <1>1, <1>3, <2>1, <3>1, <3>2 DEF CopySoFar, InStep, Apart
  <2> QED BY <2>2, <2>3
<1>11. CASE find = "after"
  <2>1. /\ absorbed \cap kept = {} /\ Headers(text) # {} /\ NonBlank(text, kept) # {}
        /\ strip = "in" => ~OneHeader(text)
        /\ OneHeader(text) => absorbed \cup kept = DOMAIN text
    BY <1>11 DEF IInv, CopySoFar, Apart
  <2>2. find' = "after" /\ absorbed' = absorbed BY <1>5, <1>11 DEF FindLine
  <2>3. kept' = kept \/ kept' = kept \cup {n} BY <1>5 DEF StripLine
  <2>4. strip' = "in" => ~OneHeader(text)'
    BY <1>5, <1>7, <1>8, <2>1 DEF StripLine, IInv, TypeOK
  <2>5. OneHeader(text)' => kept' = kept \cup {n}
    BY <1>5, <1>7, <1>8, <2>1 DEF StripLine, IInv, TypeOK
  <2> QED BY <1>1, <1>3, <1>6, <1>7, <2>1, <2>2, <2>3, <2>4, <2>5 DEF CopySoFar, InStep, Apart
<1> QED BY <1>9, <1>10, <1>11 DEF IInv, TypeOK

-----------------------------------------------------------------------------
(* One copy more.                                                            *)

\* What EndCopy records of the copy.
Block ==
  [key \in DOMAIN ParseBlock(text, absorbed) |->
     <<Len(scanned) + 1, ParseBlock(text, absorbed)[key]>>]

Copy ==
  [text |-> text, absorbed |-> absorbed, kept |-> kept, consumed |-> Consumed(Block)]

LEMMA BlockKeys ==
  /\ DOMAIN Block = {key \in Keys : Holds(Copy, key)}
  /\ \A key \in DOMAIN Block : Block[key][1] = Len(scanned) + 1
BY DEF Block, ParseBlock, Holds, Copy

\* A copy without a block leaves the empty function, which is no block at all.
LEMMA NoBlock == absorbed = {} => Block = <<>>
<1> SUFFICES ASSUME absorbed = {} PROVE Block = <<>> OBVIOUS
<1>1. DOMAIN Block = {} BY BlockKeys DEF Holds, Copy, Pairs
<1> QED BY <1>1 DEF Block

LEMMA CopyIsDone == IInv => CopyDone(Copy)
<1> SUFFICES ASSUME IInv PROVE CopyDone(Copy) OBVIOUS
<1>1. ASSUME Consumed(Block)
      PROVE  NonBlank(text, DOMAIN text) \subseteq absorbed
  <2>1. NonBlank(text, kept) = {} /\ Block # <<>> BY <1>1 DEF Consumed
  <2>2. find = "in" BY <2>1, NoBlock DEF IInv, TypeOK, CopySoFar, InStep, Apart
  <2>3. absorbed \cup kept = DOMAIN text BY <2>2 DEF IInv, CopySoFar, InStep
  <2> QED BY <2>1, <2>3 DEF NonBlank
<1> QED BY <1>1 DEF IInv, CopySoFar, Apart, CopyDone, Copy

LEMMA EndCopyIInv == IInv /\ EndCopy => IInv'
<1> SUFFICES ASSUME IInv, EndCopy PROVE IInv' OBVIOUS
<1> DEFINE n == Len(scanned) + 1
<1>1. /\ scanned' = Append(scanned, Copy)
      /\ meta' = IF meta = <<>> THEN Block ELSE MergeBlocks(meta, Block)
  BY DEF EndCopy, Copy, Block
<1>2. text' = <<>> /\ find' = "before" /\ strip' = "out" /\ absorbed' = {} /\ kept' = {}
      /\ indent' = [find |-> 0, strip |-> 0]
  BY DEF EndCopy
<1>3. Copy \in ScannedType /\ Copy.absorbed \cup Copy.kept \subseteq DOMAIN Copy.text
  <2>1. DOMAIN text \subseteq Nat BY LenProperties DEF IInv, TypeOK
  <2> QED BY <2>1 DEF Copy, ScannedType, IInv, TypeOK, Consumed
<1>4. /\ scanned' \in Seq(ScannedType) /\ n \in Nat /\ n \notin DOMAIN scanned
      /\ DOMAIN scanned' = DOMAIN scanned \cup {n} /\ scanned'[n] = Copy
      /\ \A i \in DOMAIN scanned : i \in Nat /\ i < n /\ scanned'[i] = scanned[i]
  BY <1>1, <1>3, AppendProperties, LenProperties DEF IInv, TypeOK
<1>5. \A key \in DOMAIN Block : Block[key][1] = n BY BlockKeys
<1> HIDE DEF n
<1>6. TypeOK' BY <1>2, <1>3, <1>4, EmptySeq DEF IInv, TypeOK
<1>7. CopySoFar'
  BY <1>2 DEF CopySoFar, InStep, Apart, Headers
<1>8. CopiesDone'
  <2>1. CopyDone(Copy) BY CopyIsDone
  <2> QED BY <1>4, <2>1 DEF CopiesDone, IInv
<1>9. ASSUME NEW key \in Merged
      PROVE  /\ key \in DOMAIN meta' <=> Holders(key)' # {}
             /\ key \in DOMAIN meta' =>
                  /\ meta'[key][1] \in Holders(key)'
                  /\ \A i \in Holders(key)' : meta'[key][1] <= i
  <2>1. Holders(key)' = Holders(key) \cup (IF Holds(Copy, key) THEN {n} ELSE {})
    BY <1>4 DEF Holders
  <2>2. key \in DOMAIN Block <=> Holds(Copy, key) BY BlockKeys
  <2>3. /\ key \in DOMAIN meta <=> Holders(key) # {}
        /\ key \in DOMAIN meta =>
             meta[key][1] \in Holders(key) /\ \A i \in Holders(key) : meta[key][1] <= i
    BY DEF IInv, MetaSoFar
  <2>4. \A i \in Holders(key) : i \in Nat /\ i < n BY <1>4 DEF Holders
  <2>5. /\ key \in DOMAIN meta' <=> key \in DOMAIN meta \/ key \in DOMAIN Block
        /\ key \in DOMAIN meta => meta'[key] = meta[key]
        /\ key \in DOMAIN Block /\ key \notin DOMAIN meta => meta'[key] = Block[key]
    BY <1>1 DEF MergeBlocks
  <2> QED BY <1>4, <1>5, <2>1, <2>2, <2>3, <2>4, <2>5
<1> QED BY <1>6, <1>7, <1>8, <1>9 DEF IInv, MetaSoFar

LEMMA InitIInv == Init => IInv
<1> SUFFICES ASSUME Init PROVE IInv OBVIOUS
<1>1. TypeOK BY EmptySeq DEF Init, TypeOK
<1>2. CopySoFar /\ CopiesDone BY DEF Init, CopySoFar, InStep, Apart, Headers, CopiesDone
<1>3. MetaSoFar BY DEF Init, MetaSoFar, Holders
<1> QED BY <1>1, <1>2, <1>3 DEF IInv

-----------------------------------------------------------------------------
(* The theorems.                                                             *)

\* The two scanners keep in step until the block ends, and of what was scanned
\* and merged the same is known for every copy.
THEOREM Invariance == Spec => []IInv
<1>1. ASSUME IInv, NEW line \in Line, ScanLine(line) PROVE IInv'
  <2>1. CopiesDone' /\ MetaSoFar'
    BY <1>1 DEF ScanLine, IInv, CopiesDone, MetaSoFar, Holders
  <2> QED BY <1>1, <2>1, ScanLineType, ScanLineCopy DEF IInv
<1>2. ASSUME IInv, UNCHANGED vars PROVE IInv'
  BY <1>2 DEF vars, IInv, TypeOK, CopySoFar, InStep, Apart, CopiesDone, MetaSoFar, Holders
<1>3. IInv /\ [Next]_vars => IInv'
  BY <1>1, <1>2, EndCopyIInv DEF Next
<1> QED BY <1>3, InitIInv, PTL DEF Spec

\* A finite set with at most one element has one at most.
LEMMA AtMostOne ==
  ASSUME NEW S, IsFiniteSet(S), Cardinality(S) <= 1
  PROVE  \A i, j \in S : i = j
<1> SUFFICES ASSUME NEW i \in S, NEW j \in S, i # j PROVE FALSE OBVIOUS
<1>1. IsFiniteSet({i}) /\ Cardinality({i}) = 1 BY FS_Singleton
<1>2. Cardinality({i} \cup {j}) = Cardinality({i}) + 1
  <2>1. j \notin {i} OBVIOUS
  <2> QED BY <1>1, <2>1, FS_AddElement
<1>3. {i} \cup {j} \in SUBSET S BY Zenon
<1>4. Cardinality({i} \cup {j}) <= Cardinality(S) BY <1>3, FS_Subset
<1>5. Cardinality(S) \in Nat BY FS_CardinalityType
<1> QED BY <1>1, <1>2, <1>4, <1>5

\* No line is in the block and in the description, and with one header none is
\* in neither, however long the copy.
THEOREM ScannersAgreeAlways == Spec => []ScannersAgree
<1>1. IInv => ScannersAgree
  <2> SUFFICES ASSUME IInv, NEW i \in DOMAIN scanned,
                      Cardinality(Headers(scanned[i].text)) <= 1
               PROVE  scanned[i].absorbed \cup scanned[i].kept = DOMAIN scanned[i].text
    BY DEF ScannersAgree, IInv, CopySoFar, CopiesDone, CopyDone
  <2> DEFINE lines == scanned[i].text
  <2>0. scanned[i] \in ScannedType BY ElementOfSeq, LenProperties DEF IInv, TypeOK
  <2>1. lines \in Seq(Line) BY <2>0 DEF ScannedType
  <2>2. Headers(lines) \in SUBSET (1..Len(lines)) /\ Len(lines) \in Nat
    BY <2>1, LenProperties DEF Headers
  <2>3. IsFiniteSet(Headers(lines))
    <3>1. IsFiniteSet(1..Len(lines)) BY <2>2, FS_Interval
    <3> QED BY <2>2, <3>1, FS_Subset
  <2>4. OneHeader(lines) BY <2>3, AtMostOne DEF OneHeader
  <2> QED BY <2>4 DEF IInv, CopiesDone, CopyDone
<1> QED BY <1>1, Invariance, PTL

\* A copy that the collectors skip has no line outside its block.
THEOREM ConsumedOnlyMetaAlways == Spec => []ConsumedOnlyMeta
<1>1. IInv => ConsumedOnlyMeta BY DEF IInv, CopiesDone, CopyDone, ConsumedOnlyMeta
<1> QED BY <1>1, Invariance, PTL

\* A key of the merged block comes from the first copy that holds it.
THEOREM FirstBlockWinsAlways == Spec => []FirstBlockWins
<1>1. IInv => FirstBlockWins
  <2> SUFFICES ASSUME IInv, NEW key \in Merged
               PROVE  /\ (Holders(key) # {}) <=> key \in DOMAIN meta
                      /\ key \in DOMAIN meta => meta[key][1] = Min(Holders(key))
    BY DEF FirstBlockWins, Holders, Holds
  <2>1. Holders(key) \subseteq Nat BY LenProperties DEF Holders, IInv, TypeOK
  <2>2. /\ key \in DOMAIN meta <=> Holders(key) # {}
        /\ key \in DOMAIN meta =>
             meta[key][1] \in Holders(key) /\ \A i \in Holders(key) : meta[key][1] <= i
    BY DEF IInv, MetaSoFar
  <2>3. ASSUME NEW m \in Holders(key), \A i \in Holders(key) : m <= i
        PROVE  m = Min(Holders(key))
    <3>1. \A k \in Holders(key) : (\A i \in Holders(key) : k <= i) => k = m
      BY <2>1, <2>3
    <3> QED BY <2>3, <3>1 DEF Min
  <2> QED BY <2>2, <2>3
<1> QED BY <1>1, Invariance, PTL

=============================================================================
