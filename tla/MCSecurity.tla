----------------------------- MODULE MCSecurity -----------------------------
(* Two operations under one path, one of them a webhook in some documents,   *)
(* and two schemes.  byId, byPath and byTag each match, or do not.           *)
EXTENDS Security, TLC

CONSTANTS opA, opB, s1, s2

MCOps == {opA, opB}
MCSchemes == {s1, s2}

Says == {Absent, {}, {s1}, {s2}}

\* No override, or one for this key.
Maybe(key) == {[k \in {} |-> {}]} \cup {key :> req : req \in {{}, {s1}, {s2}}}

Definitions ==
  { [type |-> "http", has |-> {"scheme"}, flows |-> {}],
    [type |-> "apiKey", has |-> {"name"}, flows |-> {}],
    [type |-> "unknown", has |-> {}, flows |-> {}],
    [type |-> "oauth2", has |-> {}, flows |-> {[name |-> "password", has |-> {"tokenUrl"}],
                                               [name |-> "implicit", has |-> {}]}],
    [type |-> "oauth2", has |-> {}, flows |-> {[name |-> "device", has |-> {"tokenUrl"}]}] }

Sidecars ==
  [schemes : {{}, {s1}}, default : {{}, {s2}},
   byId : Maybe("idA"), byPath : Maybe("path"), byTag : Maybe("tag") \cup {"tag" :> {s1} @@ "late" :> {s2}}]

Base(metadata, meta, hooks, schemes, sidecar) ==
  [metadata |-> metadata, meta |-> meta, hooks |-> hooks, schemes |-> schemes,
   sidecar |-> sidecar,
   ids |-> (opA :> "idA" @@ opB :> Absent),
   paths |-> (opA :> "path" @@ opB :> "other"),
   tags |-> (opA :> <<>> @@ opB :> <<"plain", "tag", "late">>)]

\* Every combination of requirements, with one declared scheme.
RequirementInputs ==
  {Base(metadata, (opA :> metaA @@ opB :> metaB), hooks, (s1 :> [type |-> "http", has |-> {"scheme"}, flows |-> {}]), sidecar) :
     metadata \in {Absent, {s1}}, metaA \in Says, metaB \in {Absent, {}}, hooks \in {{}, {opB}},
     sidecar \in Sidecars \cup {Absent}}

\* Every definition of a scheme, against a document that uses both.
SchemeInputs ==
  {Base({s1, s2}, (opA :> Absent @@ opB :> {s1}), {}, (s1 :> a @@ s2 :> b), sidecar) :
     a \in Definitions, b \in Definitions,
     sidecar \in {Absent, [schemes |-> {s2}, default |-> {}, byId |-> <<>>, byPath |-> <<>>, byTag |-> <<>>]}}

MCInputs == RequirementInputs \cup SchemeInputs
=============================================================================
