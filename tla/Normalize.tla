----------------------------- MODULE Normalize -----------------------------
(***************************************************************************)
(* The passes that bring the schemas of a finished document into the form   *)
(* of the target version.  The schemas are nodes of a heap, linked by the   *)
(* keywords that hold subschemas and possibly shared; a pass is one call of *)
(* walkSchemas, which visits what it can reach in no particular order and   *)
(* lets the pass rewrite each schema in place.                              *)
(***************************************************************************)
EXTENDS Naturals, Sequences, FiniteSets

CONSTANTS
  Requested,  \* values of --oas-version
  Documents   \* the schemas of finished documents: a heap, and the nodes in it
              \* that the parameters, the contents and the components name

\* The keywords that hold a schema.
Links ==
  {"oneOf", "anyOf", "allOf", "not", "if", "then", "else", "items", "properties",
   "additionalProperties"}

\* Slip: the schemas of maps are forgotten.
WalkedNoMaps == {"items", "properties", "oneOf", "anyOf", "allOf"}

\* Those that walkSchemas follows.
Walked == {"items", "properties", "oneOf", "anyOf", "allOf", "additionalProperties"}

Literals == {"a", "b"}  \* two values that are not null, both strings

\* The fields of a schema that the passes read or write.  const and enum are
\* sets of values, empty when absent; doc stands for a description.
Schema ==
  [ref : BOOLEAN, type : {"", "string", "object", "null"},
   typeList : SUBSET {"string", "object", "null"}, nullable : BOOLEAN,
   doc : BOOLEAN, example : BOOLEAN, examples : BOOLEAN,
   const : SUBSET Literals, enum : SUBSET Literals,
   kids : SUBSET [link : Links, node : Nat]]

Blank ==
  [ref |-> FALSE, type |-> "", typeList |-> {}, nullable |-> FALSE,
   doc |-> FALSE, example |-> FALSE, examples |-> FALSE,
   const |-> {}, enum |-> {}, kids |-> {}]

BareRef == [Blank EXCEPT !.ref = TRUE]
NullSchema == [Blank EXCEPT !.type = "null"]

\* No pass has been here: a list of types cannot be read from JSON.
Untouched(d) ==
  /\ d.heap \in Seq(Schema)
  /\ d.roots \subseteq DOMAIN d.heap
  /\ \A n \in DOMAIN d.heap :
       /\ d.heap[n].typeList = {}
       /\ \A kid \in d.heap[n].kids : kid.node \in DOMAIN d.heap

VARIABLES
  version,  \* doc.OpenAPI
  source,   \* the document before the passes
  heap,     \* heap[n]: the schema at n
  pass,     \* the pass that runs, a position in Passes(version)
  todo,     \* schemas the walk has reached and not visited
  visited   \* schemas the walk has visited

normVars == <<version, source, heap, pass, todo, visited>>

\* A version: the three characters that choose its passes, and what follows.
Version(line, rest) == [line |-> line, rest |-> rest]

\* applyVersion; a version it does not know goes through as it is.
OpenAPI(requested) ==
  CASE requested \in {Version("", ""), Version("3.0", ""), Version("3.0", ".3")} -> Version("3.0", ".3")
    [] requested \in {Version("3.1", ""), Version("3.1", ".0")} -> Version("3.1", ".0")
    [] requested \in {Version("3.2", ""), Version("3.2", ".0")} -> Version("3.2", ".0")
    [] OTHER -> requested

\* The passes in the order of RefractToOASWithOptions.
Passes(v) ==
  CASE v.line = "3.0" -> <<"refSiblings", "const">>
    [] v.line \in {"3.1", "3.2"} -> <<"nullable", "examples">>
    [] OTHER -> <<>>

NormInit ==
  /\ version \in {OpenAPI(r) : r \in Requested}
  /\ source \in Documents /\ Untouched(source)
  /\ heap = source.heap
  /\ pass = 1
  /\ todo = source.roots
  /\ visited = {}

-----------------------------------------------------------------------------
\* schemaHasSiblings: anything besides $ref.
HasSiblings(s) == [s EXCEPT !.ref = FALSE] # Blank

\* normalizeOneSchema: {$ref, ...} becomes {allOf: [{$ref}], ...}.
RefSiblings(h, n) ==
  IF h[n].ref /\ HasSiblings(h[n])
  THEN Append([h EXCEPT ![n] =
                [h[n] EXCEPT !.ref = FALSE,
                             !.kids = @ \cup {[link |-> "allOf", node |-> Len(h) + 1]}]],
              BareRef)
  ELSE h

\* Slip: the wrapper takes the reference's place and the reference is lost.
NullableRefForgets(h, n) ==
  [h EXCEPT ![n] =
    [Blank EXCEPT !.doc = h[n].doc,
                  !.kids = {[link |-> "oneOf", node |-> Len(h) + 1]}]]
  \o <<NullSchema>>

\* A nullable reference becomes a choice of it and null; only annotations stay.
NullableRef(h, n) ==
  [h EXCEPT ![n] =
    [Blank EXCEPT !.doc = h[n].doc,
                  !.kids = {[link |-> "oneOf", node |-> Len(h) + 1],
                            [link |-> "oneOf", node |-> Len(h) + 2]}]]
  \o <<BareRef, NullSchema>>

\* Slip: a type beside the reference, instead of a choice.
NullableOverRef(h, n) ==
  IF h[n].nullable
  THEN [h EXCEPT ![n] =
         [h[n] EXCEPT !.typeList = {h[n].type, "null"} \ {""}, !.nullable = FALSE]]
  ELSE h

\* normalizeNullableForJSONSchema
Nullable(h, n) ==
  IF ~h[n].nullable THEN h
  ELSE IF h[n].ref THEN NullableRef(h, n)
  ELSE [h EXCEPT ![n] =
         [h[n] EXCEPT !.typeList = {h[n].type, "null"} \ {""}, !.nullable = FALSE]]

\* normalizeExamplesForJSONSchema
Examples(h, n) ==
  IF h[n].example /\ ~h[n].examples
  THEN [h EXCEPT ![n] = [h[n] EXCEPT !.examples = TRUE, !.example = FALSE]]
  ELSE h

\* normalizeConstForOAS30: an enumeration of one value, unless there is one.
Const(h, n) ==
  IF h[n].const = {} THEN h
  ELSE [h EXCEPT ![n] =
         [h[n] EXCEPT !.enum = IF @ = {} THEN h[n].const ELSE @, !.const = {}]]

Rewrite(name, h, n) ==
  CASE name = "refSiblings" -> RefSiblings(h, n)
    [] name = "const" -> Const(h, n)
    [] name = "nullable" -> Nullable(h, n)
    [] name = "examples" -> Examples(h, n)

-----------------------------------------------------------------------------
JSONSchema == version.line \in {"3.1", "3.2"}

Running == pass <= Len(Passes(version))

\* What the walk goes on to: the schemas linked by the rewritten schema.
KidsOf(h, n) == {kid.node : kid \in {k \in h[n].kids : k.link \in Walked}}

Visit(n) ==
  /\ Running /\ n \in todo
  /\ heap' = Rewrite(Passes(version)[pass], heap, n)
  /\ visited' = visited \cup {n}
  /\ todo' = (todo \cup KidsOf(heap', n)) \ visited'
  /\ UNCHANGED <<version, source, pass>>

NextPass ==
  /\ Running /\ todo = {}
  /\ pass' = pass + 1
  /\ todo' = source.roots /\ visited' = {}
  /\ UNCHANGED <<version, source, heap>>

NormDone == ~Running /\ UNCHANGED normVars

NormNext == (\E n \in todo : Visit(n)) \/ NextPass \/ NormDone

NormSpec == NormInit /\ [][NormNext]_normVars

-----------------------------------------------------------------------------
\* Schema.MarshalJSON: a list of types hides the type and nullable.
Rendered(s) ==
  IF s.typeList = {} THEN s
  ELSE [s EXCEPT !.type = "", !.nullable = FALSE]

\* The schemas that can be reached from the document by some keywords: the
\* least set that holds its roots and is closed under these.
Closed(h, links, S) ==
  \A n \in S : \A kid \in h[n].kids : kid.link \in links => kid.node \in S

Reach(h, links) ==
  {n \in DOMAIN h : \A S \in SUBSET DOMAIN h :
                      source.roots \subseteq S /\ Closed(h, links, S) => n \in S}

\* The literals that a schema accepts; what has no type accepts any.
AcceptsLiterals(s) ==
  {v \in Literals : /\ s.enum = {} \/ v \in s.enum
                    /\ s.const = {} \/ v \in s.const
                    /\ s.typeList = {} \/ "string" \in s.typeList
                    /\ s.typeList # {} \/ s.type \in {"", "string"}}

\* A schema that accepts null and nothing else.
OnlyNull(s) == IF s.typeList = {} THEN s.type = "null" ELSE s.typeList = {"null"}

\* A schema says that it accepts null by its types, by an option of its oneOf,
\* or by its nullable field where that has a meaning.
TypedNull(s) == "null" \in s.typeList \cup {s.type}

Options(s) == {kid.node : kid \in {k \in s.kids : k.link = "oneOf"}}

AllowsNull(h, n, nullableCounts) ==
  LET s == Rendered(h[n])
  IN  \/ nullableCounts /\ s.nullable
      \/ TypedNull(s)
      \/ \E k \in Options(s) : OnlyNull(h[k])

\* What the passes can say in the target's terms: of an enumeration and a
\* constant only the first stays on 3.0; on 3.1 and 3.2 a nullable schema
\* without a type becomes null itself, and a nullable reference keeps
\* nothing but annotations.
Translatable(s) ==
  /\ s.const # {} => s.enum = {}
  /\ s.nullable /\ ~s.ref => s.type # ""
  /\ s.nullable /\ s.ref => s.type = "" /\ s.const = {} /\ s.enum = {}

-----------------------------------------------------------------------------
\* The form the version asks for: no $ref with siblings and no const on 3.0; on
\* 3.1 and 3.2 no nullable, and no example but where its author gave both.
HadBoth(n) == n \in DOMAIN source.heap /\ source.heap[n].examples

TargetForm(s, n) ==
  /\ version.line = "3.0" => (s.ref => ~HasSiblings(s)) /\ s.const = {}
  /\ JSONSchema => ~s.nullable /\ (s.example => HadBoth(n))

\* The keywords behind which schemas stay as they are: walkSchemas knows none of
\* these four, though it is to visit "every *oas.Schema reachable from doc"
\* (src/internal/convert/convert.go:2249).
Neglected == {"not", "if", "then", "else"}

\* When the passes are done, each schema of the document that is not behind a
\* neglected keyword is written in the form its version asks for.  A schema that
\* a pass made is no exception, and sharing or cycles hide none.
InTargetForm ==
  ~Running => \A n \in Reach(heap, Links \ Neglected) : TargetForm(Rendered(heap[n]), n)

\* A reference the author wrote is in the document, once, whatever wraps it,
\* unless it was in a nullable reference, whose siblings 3.1 and 3.2 lose.
Refs(h) == {n \in Reach(h, Links) : h[n].ref}

NullableRefsAlone(h) == \A n \in DOMAIN h : h[n].ref /\ h[n].nullable => h[n].kids = {}

RefsKept ==
  (JSONSchema => NullableRefsAlone(source.heap)) =>
    Cardinality(Refs(heap)) = Cardinality(Refs(source.heap))

\* A schema not behind a neglected keyword accepts after the passes the literals it accepted
\* before them, says of null what it said, and has kept its description.
MeaningKept ==
  ~Running =>
    \A n \in DOMAIN source.heap \cap Reach(heap, Links \ Neglected) :
      LET s == source.heap[n]
      IN  /\ Translatable(s)
          /\ \A k \in Options(s) : Translatable(source.heap[k])
          => /\ AcceptsLiterals(heap[n]) = AcceptsLiterals(s)
             /\ AllowsNull(heap, n, ~JSONSchema) <=> AllowsNull(source.heap, n, TRUE)
             /\ heap[n].doc = s.doc
=============================================================================
