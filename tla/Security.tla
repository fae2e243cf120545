------------------------------ MODULE Security ------------------------------
(***************************************************************************)
(* Who may call an operation: the passes of RefractToOASWithOptions that    *)
(* decide it, in their order, and what Marshal writes.  Three sources meet: *)
(* the SECURITY: metadata, the + Meta block of an action, and the sidecar   *)
(* with its defaults and overrides; scheme definitions come from the        *)
(* SecuritySchemes named type and the sidecar.  A list of requirements is   *)
(* abstracted to the set of schemes it names.                               *)
(***************************************************************************)
EXTENDS Naturals, Sequences

CONSTANTS
  Ops,       \* operations
  Schemes,   \* names of security schemes
  Absent,    \* the source says nothing
  Inputs     \* what the sources may say

\* The sources of one document.  ids, paths and tags give an operation's
\* operationId (Absent if empty), its path and its tags; hooks are the
\* operations under doc.Webhooks.
InputFields == {"metadata", "meta", "ids", "paths", "tags", "hooks", "schemes", "sidecar"}

\* "Absent" is told apart from every requirement, the empty one included.
ASSUME AbsentAssumption == \A req \in SUBSET Schemes : req # Absent

Requirement(says) == says = Absent \/ says \in SUBSET Schemes

ASSUME InputsAssumption ==
  \A in \in Inputs :
    /\ DOMAIN in = InputFields
    /\ Requirement(in.metadata)
    /\ \A o \in Ops : Requirement(in.meta[o])
    /\ DOMAIN in.schemes \subseteq Schemes
    /\ in.sidecar # Absent =>
         LET side == in.sidecar
         IN  /\ side.schemes \subseteq Schemes
             /\ side.default \in SUBSET Schemes
             /\ \A by \in {side.byId, side.byPath, side.byTag} :
                  \A key \in DOMAIN by : by[key] \in SUBSET Schemes

VARIABLES
  in,        \* the sources
  pass,      \* the pass that is about to run
  docSec,    \* doc.Security
  opSec,     \* opSec[o]: op.Security (nil and empty alike are {})
  cleared,   \* cleared[o]: op.SecurityCleared
  declared,  \* components.securitySchemes: which source each came from
  pending,   \* what the current pass has still to visit
  errors,    \* schemes reported with E007 or E008
  warned     \* schemes reported with W007

vars == <<in, pass, docSec, opSec, cleared, declared, pending, errors, warned>>

Init ==
  /\ in \in Inputs
  /\ pass = "metadata"
  /\ docSec = {}
  /\ opSec = [o \in Ops |-> {}]
  /\ cleared = [o \in Ops |-> FALSE]
  /\ declared = [s \in {} |-> ""]
  /\ pending = {}
  /\ errors = {}
  /\ warned = {}

-----------------------------------------------------------------------------
\* parseDocumentSecurity: an empty SECURITY: clears what is not there yet.
ReadMetadata ==
  /\ pass = "metadata"
  /\ docSec' = IF in.metadata = Absent THEN docSec ELSE in.metadata
  /\ pass' = "walk"
  /\ pending' = Ops
  /\ UNCHANGED <<in, opSec, cleared, declared, errors, warned>>

\* applyMetaToOperation: an empty Security: is remembered apart, because an
\* empty list would not be written.
ApplyMeta(o) ==
  /\ pass = "walk"
  /\ o \in pending
  /\ pending' = pending \ {o}
  /\ IF in.meta[o] = Absent THEN UNCHANGED <<opSec, cleared>>
     ELSE /\ opSec' = [opSec EXCEPT ![o] = in.meta[o]]
          /\ cleared' = [cleared EXCEPT ![o] = in.meta[o] = {}]
  /\ UNCHANGED <<in, pass, docSec, declared, errors, warned>>

\* populateComponentsFromRegistry: now the members of SecuritySchemes.
EndWalk ==
  /\ pass = "walk"
  /\ pending = {}
  /\ pass' = "schemes"
  /\ pending' = DOMAIN in.schemes
  /\ UNCHANGED <<in, docSec, opSec, cleared, declared, errors, warned>>

\* What the members of a flow must contain; other flow names are unknown.
FlowNeeds ==
  [implicit |-> {"authorizationUrl"}, password |-> {"tokenUrl"},
   clientCredentials |-> {"tokenUrl"}, authorizationCode |-> {"authorizationUrl", "tokenUrl"}]

\* The same for a scheme of a type; "in" stands for a valid location.
SchemeNeeds ==
  [http |-> {"scheme"}, apiKey |-> {"name", "in"}, openIdConnect |-> {"openIdConnectUrl"},
   mutualTLS |-> {}, oauth2 |-> {}]

\* decodeOAuthFlow and the switch of decodeOAuthFlows.
GoodFlow(flow) == flow.name \in DOMAIN FlowNeeds /\ FlowNeeds[flow.name] \subseteq flow.has

\* decodeSecurityScheme: nil and a diagnostic, or a scheme; one bad flow is
\* reported and left out, and the scheme needs one good flow.
Decodes(def) ==
  /\ def.type \in DOMAIN SchemeNeeds
  /\ SchemeNeeds[def.type] \subseteq def.has
  /\ def.type = "oauth2" => \E flow \in def.flows : GoodFlow(flow)

Reported(def) == ~Decodes(def) \/ (def.type = "oauth2" /\ \E flow \in def.flows : ~GoodFlow(flow))

DecodeScheme(s) ==
  /\ pass = "schemes"
  /\ s \in pending
  /\ pending' = pending \ {s}
  /\ declared' = IF Decodes(in.schemes[s])
                 THEN [t \in DOMAIN declared \cup {s} |-> IF t = s THEN "mson" ELSE declared[t]]
                 ELSE declared
  /\ errors' = IF Reported(in.schemes[s]) THEN errors \cup {s} ELSE errors
  /\ UNCHANGED <<in, pass, docSec, opSec, cleared, warned>>

EndSchemes ==
  /\ pass = "schemes"
  /\ pending = {}
  /\ pass' = IF in.sidecar = Absent THEN "check" ELSE "sidecar"
  /\ UNCHANGED <<in, docSec, opSec, cleared, declared, pending, errors, warned>>

\* Slip: a scheme that the source defines is kept.
ApplySidecarKeeps ==
  /\ pass = "sidecar"
  /\ declared' = [s \in DOMAIN declared \cup in.sidecar.schemes |->
                    IF s \in DOMAIN declared THEN declared[s] ELSE "sidecar"]
  /\ docSec' = IF in.sidecar.default = {} THEN docSec ELSE in.sidecar.default
  /\ pass' = "override"
  /\ pending' = Ops \ in.hooks
  /\ UNCHANGED <<in, opSec, cleared, errors, warned>>

\* applySecurity: schemes and default first, ...
ApplySidecar ==
  /\ pass = "sidecar"
  /\ declared' = [s \in DOMAIN declared \cup in.sidecar.schemes |->
                    IF s \in in.sidecar.schemes THEN "sidecar" ELSE declared[s]]
  /\ docSec' = IF in.sidecar.default = {} THEN docSec ELSE in.sidecar.default
  /\ pass' = "override"
  /\ pending' = Ops \ in.hooks
  /\ UNCHANGED <<in, opSec, cleared, errors, warned>>

\* Slip: the path is looked up before the operationId.
OverridesPathFirst(o) ==
  LET side == in.sidecar
      tags == in.tags[o]
      matching == {i \in DOMAIN tags : tags[i] \in DOMAIN side.byTag}
  IN  IF in.paths[o] \in DOMAIN side.byPath THEN {side.byPath[in.paths[o]]}
      ELSE IF in.ids[o] \in DOMAIN side.byId THEN {side.byId[in.ids[o]]}
      ELSE {side.byTag[tags[i]] : i \in {i \in matching : \A j \in matching : i <= j}}

\* lookupSecurityOverride: operationId, then path, then the first of the tags
\* that has an override.
Overrides(o) ==
  LET side == in.sidecar
      tags == in.tags[o]
      matching == {i \in DOMAIN tags : tags[i] \in DOMAIN side.byTag}
  IN  IF in.ids[o] \in DOMAIN side.byId THEN {side.byId[in.ids[o]]}
      ELSE IF in.paths[o] \in DOMAIN side.byPath THEN {side.byPath[in.paths[o]]}
      ELSE {side.byTag[tags[i]] : i \in {i \in matching : \A j \in matching : i <= j}}

\* ... then the operations of doc.Paths.  op.SecurityCleared stays.
Override(o) ==
  /\ pass = "override"
  /\ o \in pending
  /\ pending' = pending \ {o}
  /\ IF Overrides(o) = {} THEN UNCHANGED opSec
     ELSE \E req \in Overrides(o) : opSec' = [opSec EXCEPT ![o] = req]
  /\ UNCHANGED <<in, pass, docSec, cleared, declared, errors, warned>>

EndOverride ==
  /\ pass = "override"
  /\ pending = {}
  /\ pass' = "check"
  /\ UNCHANGED <<in, docSec, opSec, cleared, declared, pending, errors, warned>>

\* Slip: only the document's own requirement is checked.
ReferencedByDocument == docSec

\* checkUndeclaredSecuritySchemes: the document, its paths and its webhooks.
Referenced == docSec \cup UNION {opSec[o] : o \in Ops}

CheckUndeclared ==
  /\ pass = "check"
  /\ warned' = Referenced \ DOMAIN declared
  /\ pass' = "done"
  /\ UNCHANGED <<in, docSec, opSec, cleared, declared, pending, errors>>

Done == pass = "done" /\ UNCHANGED vars

Next ==
  \/ \E o \in Ops : ApplyMeta(o) \/ Override(o)
  \/ \E s \in Schemes : DecodeScheme(s)
  \/ ReadMetadata \/ EndWalk \/ EndSchemes \/ ApplySidecar \/ EndOverride
  \/ CheckUndeclared \/ Done

Spec == Init /\ [][Next]_vars

-----------------------------------------------------------------------------
(* What Marshal writes and a reader of the document makes of it.            *)

\* Operation.MarshalJSON: omitempty drops an empty list, spliceClearedSecurity
\* puts one back.
Written(o) == IF opSec[o] # {} THEN opSec[o] ELSE IF cleared[o] THEN {} ELSE Absent

\* An operation without "security" inherits that of the document.
Effective(o) == IF Written(o) = Absent THEN docSec ELSE Written(o)

-----------------------------------------------------------------------------
(* Properties.                                                               *)

Overridden(o) == in.sidecar # Absent /\ o \notin in.hooks /\ Overrides(o) # {}

\* The document's requirement, as specs/apib+-converter.md section 6.1 has it.
DocumentDefault ==
  IF in.sidecar # Absent /\ in.sidecar.default # {} THEN in.sidecar.default
  ELSE IF in.metadata = Absent THEN {} ELSE in.metadata

\* Whoever reads the document demands of a caller what the most specific
\* source says, whichever sources there are: an override of its operationId,
\* of its path, of one of its tags, its own + Meta, the document.  Left open
\* here: + Meta against an override, and an override that says "none".  No
\* operation whose + Meta clears its security is left to the document's.
\* Operations under webhooks are not Overridden, whatever the overrides say:
\* applySecurity goes over doc.Paths alone, though its comment has "Walk every
\* operation" (src/internal/convert/security.go:78-81), so they keep the
\* document's.
Precedence ==
  pass = "done" => \A o \in Ops :
    /\ in.meta[o] = {} => Written(o) # Absent
    /\ ~Overridden(o) =>
         Effective(o) = IF in.meta[o] = Absent THEN DocumentDefault ELSE in.meta[o]
    /\ Overridden(o) /\ in.meta[o] = Absent /\ {} \notin Overrides(o) =>
         LET side == in.sidecar
             byId == in.ids[o] \in DOMAIN side.byId
             byPath == in.paths[o] \in DOMAIN side.byPath
         IN  /\ byId => Effective(o) = side.byId[in.ids[o]]
             /\ ~byId /\ byPath => Effective(o) = side.byPath[in.paths[o]]
             /\ ~byId /\ ~byPath =>
                  \E i \in DOMAIN in.tags[o] :
                    in.tags[o][i] \in DOMAIN side.byTag /\ Effective(o) = side.byTag[in.tags[o][i]]

\* A scheme named in what is written is declared in what is written, or was
\* reported; none is reported that is declared.
UndeclaredReported ==
  pass = "done" =>
    /\ docSec \cup UNION {Effective(o) : o \in Ops} \subseteq DOMAIN declared \cup warned
    /\ warned \cap DOMAIN declared = {}

\* No scheme of the source disappears without an error, and the sidecar's
\* definition replaces the source's.
NoSchemeVanishes ==
  pass = "done" =>
    /\ DOMAIN in.schemes \subseteq DOMAIN declared \cup errors
    /\ in.sidecar # Absent => \A s \in in.sidecar.schemes : declared[s] = "sidecar"

\* "Empty `[]` means no security required, which lets callers expose anonymous
\* endpoints even when DefaultSecurity is set"
\* (src/internal/convert/security.go:19).
EmptyOverrideExposes ==
  pass = "done" =>
    \A o \in Ops : Overridden(o) /\ Overrides(o) = {{}} => Effective(o) = {}
=============================================================================
