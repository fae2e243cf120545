----------------------------- MODULE NamedTypes -----------------------------
(***************************************************************************)
(* The named types of a document: the registry that dataStructures collects,*)
(* the schemas that the operations' references are resolved to, and the     *)
(* components.schemas section those references point into.  One resolver    *)
(* serves both, in refs mode, and its set of missing types is shared.       *)
(***************************************************************************)
EXTENDS Naturals, Sequences, FiniteSets

CONSTANTS
  Types,     \* names that a document defines or refers to
  Reserved,  \* the name "SecuritySchemes", which is not a schema
  MaxDecls,  \* bound: data structures in the document
  MaxRefs    \* bound: typed elements in its operations

ASSUME ReservedAssumption == Reserved \in Types

\* An element: an object, an array, or one whose type is a named type, which
\* inherits from it.  "holds" lists the values in it, by their types, and where
\* each is: a member, a member of an option of "One Of", a sample of an array,
\* or a line of the description that Drafter left of an object it could not
\* parse.  A "Meta" value is a + Meta block that Drafter took for a sample.
Places == {"member", "option", "sample", "line"}

In(place) == {[place |-> place, type |-> t] : t \in Types}

Meta == [place |-> "sample", type |-> "Meta"]

Element ==
  [el : {"object"}, holds : {<<>>} \cup {<<v>> : v \in UNION {In(p) : p \in Places \ {"sample"}}}
                           \cup {<<m, o>> : m \in In("member"), o \in In("option")}] \cup
  [el : {"array"}, holds : {<<>>} \cup {<<v>> : v \in In("sample")}
                          \cup {<<v, w>> : v \in In("sample"), w \in In("sample") \cup {Meta}}] \cup
  [el : Types, holds : {<<>>} \cup {<<v>> : v \in In("member")}]

\* A schema: a reference, an object or an array with the schemas in it, each at
\* its place; or "generic", {type: object}, which stands in for a type that is
\* not defined, or "string", what an array without samples holds.
Generic == [form |-> "generic"]
Ref(t) == [form |-> "ref", to |-> t]

VARIABLES
  phase,       \* "collect", "walk", "components", "done"
  decls,       \* how many data structures were read
  registry,    \* schemaResolver.registry: name -> element
  ops,         \* schemas of the operations, and what they came from
  components,  \* components.schemas: name -> schema
  seen,        \* schemaResolver.seenMissing
  errors       \* the types that E006 was reported for, in order

vars == <<phase, decls, registry, ops, components, seen, errors>>

Init ==
  /\ phase = "collect"
  /\ decls = 0
  /\ registry = <<>>
  /\ ops = <<>>
  /\ components = <<>>
  /\ seen = {}
  /\ errors = <<>>

-----------------------------------------------------------------------------
\* The types an element inherits from, through those that reg defines.
Bases(reg, e) ==
  LET up[i \in 0..Cardinality(Types)] ==
        IF i = 0 THEN {e.el} \cap Types
        ELSE up[i - 1] \cup {reg[t].el : t \in up[i - 1] \cap DOMAIN reg}
  IN  up[Cardinality(Types)] \cap Types

\* collectDataStructures: a definition replaces an earlier one of its name, and
\* a typed element without an id defines nothing.  Drafter rejects a type that
\* inherits from itself.
Collect(id, e) ==
  /\ phase = "collect" /\ decls < MaxDecls
  /\ decls' = decls + 1
  /\ \/ id = "" /\ UNCHANGED registry
     \/ /\ id # ""
        /\ registry' = [t \in DOMAIN registry \cup {id} |-> IF t = id THEN e ELSE registry[t]]
        /\ id \notin Bases(registry', e)
  /\ UNCHANGED <<phase, ops, components, seen, errors>>

StartWalk ==
  /\ phase = "collect" /\ phase' = "walk"
  /\ UNCHANGED <<decls, registry, ops, components, seen, errors>>

-----------------------------------------------------------------------------
\* Slip: a reference to whatever is named.
NamedAny(t) == Ref(t)

\* The schema of a value whose type is t: schemaForVisited in refs mode, and
\* resolveTypeString, which reads the lines of a description.
Named(t) == IF t \in DOMAIN registry THEN Ref(t) ELSE Generic

At(e, place) ==
  {Named(e.holds[i].type) : i \in {i \in DOMAIN e.holds : e.holds[i].place = place}}

\* objectSchema: the members, and the options of decodeSelectSchema; only an
\* object in which neither was found has its description read.
ObjectSchema(e) == [form |-> "object", properties |-> At(e, "member") \cup At(e, "line"),
                    oneOf |-> At(e, "option")]

\* arraySchema: the first sample is the type of the items, and the others only
\* show what an array may look like.
ArraySchema(e) ==
  [form |-> "array",
   items |-> IF e.holds = <<>> THEN {[form |-> "string"]} ELSE {Named(e.holds[1].type)}]

\* schemaForVisited in refs mode: what inherits from a defined type becomes a
\* reference to it.
Resolve(e) ==
  CASE e.el = "object" -> ObjectSchema(e)
    [] e.el = "array" -> ArraySchema(e)
    [] OTHER -> Named(e.el)

\* The values that resolving e looks up through schemaForVisited, which reports
\* what it does not find; resolveTypeString, which reads lines, does not.
LookedUp(e) ==
  CASE e.el = "object" -> e.holds
    [] e.el = "array" -> SubSeq(e.holds, 1, IF e.holds = <<>> THEN 0 ELSE 1)
    [] OTHER -> <<[place |-> "base", type |-> e.el]>>

Visited(values) ==
  {values[i].type : i \in {i \in DOMAIN values : values[i].place # "line"}}

\* Slip: the set of missing types is not consulted.
ReportAlways(r, v) ==
  IF v.place = "line" \/ v.type \in DOMAIN registry THEN r
  ELSE [seen |-> r.seen \cup {v.type}, errors |-> Append(r.errors, v.type)]

\* E006, once for a type that is not defined.
Report(r, v) ==
  IF v.place = "line" \/ v.type \in DOMAIN registry \cup r.seen THEN r
  ELSE [seen |-> r.seen \cup {v.type}, errors |-> Append(r.errors, v.type)]

\* The values are looked up in their order.
Reports(values) ==
  LET after[i \in 0..Len(values)] ==
        IF i = 0 THEN [seen |-> seen, errors |-> errors]
        ELSE Report(after[i - 1], values[i])
  IN  after[Len(values)]

ReportAll(e) ==
  /\ seen' = Reports(LookedUp(e)).seen
  /\ errors' = Reports(LookedUp(e)).errors

ResolveInOperation(e) ==
  /\ phase = "walk" /\ Len(ops) < MaxRefs
  /\ ops' = Append(ops, [of |-> e, schema |-> Resolve(e)])
  /\ ReportAll(e)
  /\ UNCHANGED <<phase, decls, registry, components>>

StartComponents ==
  /\ phase = "walk" /\ phase' = "components"
  /\ UNCHANGED <<decls, registry, ops, components, seen, errors>>

\* extractMSONSecuritySchemes claims the reserved type when it is an object.
Suppressed == {t \in DOMAIN registry \cap {Reserved} : registry[t].el = "object"}

Add(t) ==
  /\ components' = [u \in DOMAIN components \cup {t} |->
                      IF u = t THEN Resolve(registry[t]) ELSE components[u]]
  /\ ReportAll(registry[t])
  /\ UNCHANGED <<phase, decls, registry, ops>>

\* populateComponentsFromRegistry ranges over a map: any order.
AddComponent(t) ==
  /\ phase = "components"
  /\ t \in DOMAIN registry \ (Suppressed \cup DOMAIN components)
  /\ Add(t)

Finish ==
  /\ phase = "components"
  /\ DOMAIN registry = Suppressed \cup DOMAIN components
  /\ phase' = "done"
  /\ UNCHANGED <<decls, registry, ops, components, seen, errors>>

Done == phase = "done" /\ UNCHANGED vars

Next ==
  \/ \E id \in Types \cup {""}, e \in Element : Collect(id, e)
  \/ StartWalk
  \/ \E e \in Element : ResolveInOperation(e)
  \/ StartComponents
  \/ \E t \in Types : AddComponent(t)
  \/ Finish
  \/ Done

Spec == Init /\ [][Next]_vars

-----------------------------------------------------------------------------
RefsOf(s) ==
  CASE s.form = "ref" -> {s.to}
    [] s.form = "object" -> {m.to : m \in {x \in s.properties \cup s.oneOf : x.form = "ref"}}
    [] s.form = "array" -> {m.to : m \in {x \in s.items : x.form = "ref"}}
    [] OTHER -> {}

\* Every schema of the document, and the elements they were resolved from.
Schemas == {ops[i].schema : i \in DOMAIN ops} \cup {components[t] : t \in DOMAIN components}

Resolved ==
  {ops[i].of : i \in DOMAIN ops} \cup {registry[t] : t \in DOMAIN components}

\* When the document is done, what an operation or a component refers to is in
\* components.schemas, except for the reserved type.
RefsResolve ==
  phase = "done" =>
    \A s \in Schemas : RefsOf(s) \subseteq DOMAIN components \cup {Reserved}

\* A type that is not defined is reported once, however often the operations and
\* the components refer to it; and each type that is looked up is reported.
MissingReportedOnce ==
  /\ \A i, j \in DOMAIN errors : errors[i] = errors[j] => i = j
  /\ {errors[i] : i \in DOMAIN errors} =
       (UNION {Visited(LookedUp(e)) : e \in Resolved}) \ DOMAIN registry
=============================================================================
