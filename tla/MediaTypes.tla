----------------------------- MODULE MediaTypes -----------------------------
(***************************************************************************)
(* How operationFromTransition folds the HTTP transactions of one action    *)
(* into a request body and responses.  Drafter emits one transaction per    *)
(* response, so the payloads of a media type arrive one after the other,    *)
(* often the same one several times.  A payload's schema is abstracted to   *)
(* where it comes from; its body to a value.                                *)
(***************************************************************************)
EXTENDS Naturals, Sequences, FiniteSets

CONSTANTS
  Statuses,     \* response status codes
  Types,        \* declared content types, besides the two default ones
  Bodies,       \* example bodies (parsed)
  Titles,       \* titles of requests, which name examples
  MaxPayloads,  \* bound: payloads of one action
  Nothing       \* an absent title, body, type or schema

\* Where a schema can come from, in the order the converter looks.
Sources == {"attributes", "raw", "action", "resource", "inferred"}

ASSUME NothingAssumption == Nothing \notin Types \cup Bodies \cup Titles \cup Sources

ASSUME BoundAssumption == MaxPayloads \in Nat

Request == "request"

\* The keys of the example counters: one per content type of the request, one
\* per content type of each status.
Keys == ({Request} \cup Statuses) \X (Types \cup {"json", "octet"})

Success(status) == status \in {"200", "201"}

\* The map f with the value v under k.
With(f, k, v) == [x \in DOMAIN f \cup {k} |-> IF x = k THEN v ELSE f[x]]

\* A payload: what its request or response section holds.
Payload == [type : Types \cup {Nothing}, schema : {"attributes", "raw", Nothing},
            body : Bodies \cup {Nothing}, title : Titles \cup {Nothing}]

VARIABLES
  defaults,  \* which of the action's and resource's + Attributes exist
  split,     \* wantResponseSummary: the target is OAS 3.2
  media,     \* the media types created so far
  counts,    \* exampleCounts
  resp,      \* the responses: where summary and description came from
  given,     \* history: what came for each key
  told       \* history: the responses that came with a title or with prose

vars == <<defaults, split, media, counts, resp, given, told>>

\* DOMAIN media and DOMAIN resp are what the Go maps contain.
Init ==
  /\ defaults \in SUBSET {"action", "resource"}
  /\ split \in BOOLEAN
  /\ media = <<>>
  /\ counts = [k \in Keys |-> 0]
  /\ resp = <<>>
  /\ given = {}
  /\ told = {}

-----------------------------------------------------------------------------
(* addExample.                                                              *)

NewMedia == [schema |-> Nothing, example |-> Nothing, examples |-> <<>>]

AutoNames == <<"example1", "example2", "example3", "example4", "example5">>

\* exampleAlreadyPresent.
AlreadyPresent(mt, v) ==
  mt.example = v \/ \E n \in DOMAIN mt.examples : mt.examples[n] = v

\* Slip: a title is used as it is.
AnyName(used, name) == <<name, 1>>

\* uniqueExampleName: name, name-2, name-3, ... as <<name, i>>.
UniqueName(used, name) ==
  LET free == {i \in 1..(MaxPayloads + 1) : <<name, i>> \notin used}
  IN  <<name, CHOOSE i \in free : \A j \in free : i <= j>>

\* A first untitled value is the example; from the second on, and for titled
\* values, there is a map of examples, which takes the example in.
WithExample(mt, idx, title, v) ==
  IF idx = 1 /\ title = Nothing
  THEN IF mt.example = Nothing /\ DOMAIN mt.examples = {} THEN [mt EXCEPT !.example = v] ELSE mt
  ELSE LET moved == IF mt.example = Nothing THEN mt.examples
                    ELSE With(mt.examples, <<AutoNames[1], 1>>, mt.example)
           name == IF title = Nothing THEN AutoNames[idx] ELSE title
       IN  [schema |-> mt.schema, example |-> Nothing,
            examples |-> With(moved, UniqueName(DOMAIN moved, name), v)]

-----------------------------------------------------------------------------
(* One payload reaches a media type.                                        *)

\* A declared type, or the default for what the payload holds.
TypeOf(p, schema) ==
  IF p.type # Nothing THEN p.type ELSE IF schema # Nothing THEN "json" ELSE "octet"

\* Slip: the schema is inferred from the first body, then never replaced.
ReceivedInferFirst(k, schema, p) ==
  LET old == IF k \in DOMAIN media THEN media[k] ELSE NewMedia
      known == IF p.body # Nothing THEN "inferred" ELSE schema
      typed == IF old.schema = Nothing THEN [old EXCEPT !.schema = known] ELSE old
      adds == p.body # Nothing /\ ~AlreadyPresent(typed, p.body)
  IN  IF adds THEN WithExample(typed, counts[k] + 1, p.title, p.body) ELSE typed

\* The media type under k after a payload with this schema and body.
Received(k, schema, p) ==
  LET old == IF k \in DOMAIN media THEN media[k] ELSE NewMedia
      typed == IF old.schema = Nothing THEN [old EXCEPT !.schema = schema] ELSE old
      adds == p.body # Nothing /\ ~AlreadyPresent(typed, p.body)
      shown == IF adds THEN WithExample(typed, counts[k] + 1, p.title, p.body) ELSE typed
  IN  IF p.body # Nothing /\ shown.schema = Nothing
      THEN [shown EXCEPT !.schema = "inferred"] ELSE shown

Counted(k, p) ==
  IF p.body # Nothing /\ ~(k \in DOMAIN media /\ AlreadyPresent(media[k], p.body))
  THEN counts[k] + 1 ELSE counts[k]

Receive(k, schema, p) ==
  /\ media' = With(media, k, Received(k, schema, p))
  /\ counts' = [counts EXCEPT ![k] = Counted(k, p)]
  /\ given' = given \cup {[key |-> k, body |-> p.body, title |-> p.title, schema |-> schema]}

\* requestBodyFromElement.
TakeRequest(p) ==
  LET schema == IF p.schema # Nothing THEN p.schema
                ELSE IF "action" \in defaults THEN "action" ELSE Nothing
  IN  /\ p.body # Nothing \/ schema # Nothing
      /\ Receive(<<Request, TypeOf(p, schema)>>, schema, p)
      /\ UNCHANGED <<defaults, split, resp, told>>

\* Slip: only the first transaction of a status is listened to.
DescribedOnce(status, title, prose) ==
  IF status \in DOMAIN resp THEN resp[status]
  ELSE [summary |-> IF split /\ title # Nothing THEN title ELSE Nothing,
        description |-> IF ~split /\ title # Nothing THEN "title"
                        ELSE IF prose THEN "prose" ELSE "default"]

\* The title and prose of a response fill its summary and description.
Described(status, title, prose) ==
  LET fresh ==
        [summary |-> IF split /\ title # Nothing THEN title ELSE Nothing,
         description |-> IF ~split /\ title # Nothing THEN "title"
                         ELSE IF prose THEN "prose" ELSE "default"]
      old == resp[status]
      better == IF ~split /\ title # Nothing THEN "title"
                ELSE IF prose THEN "prose" ELSE old.description
  IN  IF status \notin DOMAIN resp THEN fresh
      ELSE [summary |-> IF old.summary = Nothing THEN fresh.summary ELSE old.summary,
            description |-> IF old.description = "default" THEN better ELSE old.description]

\* applyBody: a response without schema and body still registers a declared
\* type, and takes the resource's default only if it declares one.
TakeBody(status, p) ==
  LET schema == IF p.schema # Nothing THEN p.schema
                ELSE IF "resource" \in defaults /\ Success(status) /\ p.type # Nothing
                     THEN "resource" ELSE Nothing
      k == <<status, TypeOf(p, schema)>>
  IN  IF p.body # Nothing \/ schema # Nothing THEN Receive(k, schema, p)
      ELSE /\ media' = IF p.type # Nothing /\ k \notin DOMAIN media
                       THEN With(media, k, NewMedia) ELSE media
           /\ UNCHANGED <<counts, given>>

\* The httpResponse case of operationFromTransition: the example is named by
\* the title of the transaction's request, p.title.
TakeResponse(status, p, title, prose) ==
  /\ resp' = With(resp, status, Described(status, title, prose))
  /\ told' = told \cup (IF title = Nothing THEN {} ELSE {<<status, "title">>})
                 \cup (IF prose THEN {<<status, "prose">>} ELSE {})
  /\ TakeBody(status, p)
  /\ UNCHANGED <<defaults, split>>

\* How many payloads have been taken; one with neither schema nor body, or the
\* same twice, changes nothing and is not counted.
Taken == Cardinality(given)

Next ==
  /\ Taken < MaxPayloads
  /\ \E p \in Payload :
       \/ TakeRequest(p)
       \/ \E status \in Statuses, title \in Titles \cup {Nothing}, prose \in BOOLEAN :
            TakeResponse(status, p, title, prose)

Spec == Init /\ [][Next]_vars

-----------------------------------------------------------------------------
(* Properties.                                                               *)

Shown(k) ==
  {media[k].examples[n] : n \in DOMAIN media[k].examples}
    \cup ({media[k].example} \ {Nothing})

Given(k) == {g.body : g \in {h \in given : h.key = k}} \ {Nothing}

\* Every distinct body an author wrote for a media type is shown in it, under
\* one name: none is overwritten by another with the same title, and none
\* disappears when the example moves into the map.  The two fields exclude one
\* another in a Media Type Object.
EveryBodyShownOnce ==
  \A k \in DOMAIN media :
    /\ Shown(k) = Given(k)
    /\ Cardinality(DOMAIN media[k].examples)
         + (IF media[k].example = Nothing THEN 0 ELSE 1) = Cardinality(Given(k))
    /\ media[k].example = Nothing \/ DOMAIN media[k].examples = {}

\* A response is described by its author as soon as one of its transactions
\* has something to say, in whatever order they come.
DescribedByAuthor ==
  \A status \in DOMAIN resp :
    LET titled == <<status, "title">> \in told
    IN  /\ resp[status].description = "default" <=>
             <<status, "prose">> \notin told /\ (split \/ ~titled)
        /\ resp[status].summary # Nothing <=> split /\ titled

\* A media type with an example has a schema, so that renderers show it.  It is
\* inferred only where a payload came "with no `+ Attributes` or `+ Schema`"
\* (src/internal/convert/mson.go:575): not if each body came with its schema, in
\* whatever order they came.
InferenceFillsIn ==
  \A k \in DOMAIN media :
    /\ Shown(k) # {} => media[k].schema # Nothing
    /\ media[k].schema = "inferred" =>
         \E g \in given : g.key = k /\ g.body # Nothing /\ g.schema = Nothing
=============================================================================
