---------------------------- MODULE SecurityProofs ----------------------------
(***************************************************************************)
(* For every document and sidecar: the most specific source decides who may *)
(* call an operation, and no scheme is lost or left undeclared unreported.  *)
(***************************************************************************)
EXTENDS Security, TLAPS

USE InputsAssumption, AbsentAssumption

PassNames == {"metadata", "walk", "schemes", "sidecar", "override", "check", "done"}

TypeOK ==
  /\ in \in Inputs
  /\ pass \in PassNames
  /\ docSec \in SUBSET Schemes
  /\ opSec \in [Ops -> SUBSET Schemes]
  /\ cleared \in [Ops -> BOOLEAN]
  /\ pass = "schemes" => pending \subseteq DOMAIN in.schemes
  /\ pass \in {"sidecar", "override"} => in.sidecar # Absent
  /\ pass = "override" => pending \subseteq Ops \ in.hooks

\* Passes that come after the sidecar's default was taken, if there is one.
Late == {"override", "check", "done"}

\* The document's requirement is the metadata's, then the sidecar's.
DocSecInv ==
  docSec = IF pass = "metadata" THEN {}
           ELSE IF pass \in Late THEN DocumentDefault
           ELSE IF in.metadata = Absent THEN {} ELSE in.metadata

MetaRead(o) == pass # "metadata" /\ (pass = "walk" => o \notin pending)

OverrideRead(o) == pass \in {"check", "done"} \/ (pass = "override" /\ o \notin pending)

\* An operation's requirement is its + Meta's, then that of its override; that
\* it was cleared is remembered through the latter.
OpSecOf(o) ==
  /\ cleared[o] <=> MetaRead(o) /\ in.meta[o] = {}
  /\ OverrideRead(o) /\ Overridden(o) => opSec[o] \in Overrides(o)
  /\ ~(OverrideRead(o) /\ Overridden(o)) =>
       opSec[o] = IF MetaRead(o) /\ in.meta[o] # Absent THEN in.meta[o] ELSE {}

OpSecInv == \A o \in Ops : OpSecOf(o)

\* A scheme that was visited is declared or reported.
SchemesInv ==
  /\ pass \in {"schemes", "sidecar"} \cup Late =>
       \A s \in DOMAIN in.schemes :
         s \in DOMAIN declared \cup errors \/ (pass = "schemes" /\ s \in pending)
  /\ pass \in Late /\ in.sidecar # Absent =>
       \A s \in in.sidecar.schemes : s \in DOMAIN declared /\ declared[s] = "sidecar"

WarnedInv == pass = "done" => warned = Referenced \ DOMAIN declared

IInv == TypeOK /\ DocSecInv /\ OpSecInv /\ SchemesInv /\ WarnedInv

-----------------------------------------------------------------------------
\* What an override asks for is a requirement.
LEMMA OverridesType ==
  ASSUME in \in Inputs, NEW o \in Ops, Overridden(o)
  PROVE  Overrides(o) \subseteq SUBSET Schemes
<1>1. in.sidecar # Absent BY DEF Overridden
<1>2. \A by \in {in.sidecar.byId, in.sidecar.byPath, in.sidecar.byTag} :
        \A key \in DOMAIN by : by[key] \in SUBSET Schemes
  BY <1>1
<1>3. /\ \A key \in DOMAIN in.sidecar.byId : in.sidecar.byId[key] \in SUBSET Schemes
      /\ \A key \in DOMAIN in.sidecar.byPath : in.sidecar.byPath[key] \in SUBSET Schemes
      /\ \A key \in DOMAIN in.sidecar.byTag : in.sidecar.byTag[key] \in SUBSET Schemes
  BY <1>2
<1> QED BY <1>3 DEF Overrides

LEMMA DefaultType == in \in Inputs => DocumentDefault \in SUBSET Schemes
BY DEF DocumentDefault, Requirement

LEMMA InitIInv == Init => IInv
BY DEF Init, IInv, TypeOK, PassNames, DocSecInv, OpSecInv, OpSecOf, MetaRead, OverrideRead,
       SchemesInv, WarnedInv, Late

\* The sources and what follows from them do not change.
LEMMA SourcesFixed ==
  ASSUME in' = in
  PROVE  /\ DocumentDefault' = DocumentDefault
         /\ \A o \in Ops : Overrides(o)' = Overrides(o) /\ (Overridden(o)' <=> Overridden(o))
BY DEF DocumentDefault, Overrides, Overridden

LEMMA OpSecKept ==
  ASSUME NEW o \in Ops, OpSecOf(o), in' = in, opSec'[o] = opSec[o], cleared'[o] = cleared[o],
         MetaRead(o)' <=> MetaRead(o), OverrideRead(o)' <=> OverrideRead(o)
  PROVE  OpSecOf(o)'
BY SourcesFixed DEF OpSecOf

LEMMA ReadMetadataIInv == IInv /\ ReadMetadata => IInv'
<1> SUFFICES ASSUME IInv, ReadMetadata PROVE IInv' OBVIOUS
<1> USE SourcesFixed DEF IInv, ReadMetadata, TypeOK, PassNames, Late
<1>1. TypeOK' BY DEF Requirement
<1>2. DocSecInv' BY DEF DocSecInv
<1>3. OpSecInv' BY DEF OpSecInv, OpSecOf, MetaRead, OverrideRead
<1>4. SchemesInv' /\ WarnedInv' BY DEF SchemesInv, WarnedInv
<1> QED BY <1>1, <1>2, <1>3, <1>4

LEMMA ApplyMetaIInv == ASSUME NEW o \in Ops, IInv, ApplyMeta(o) PROVE IInv'
<1> USE SourcesFixed DEF IInv, ApplyMeta, TypeOK, PassNames, Late
<1>1. TypeOK'
  <2>1. in.meta[o] # Absent => in.meta[o] \in SUBSET Schemes BY DEF Requirement
  <2>2. opSec' \in [Ops -> SUBSET Schemes] BY <2>1
  <2>3. cleared' \in [Ops -> BOOLEAN] OBVIOUS
  <2> QED BY <2>2, <2>3
<1>2. DocSecInv' BY DEF DocSecInv
<1>3. OpSecInv'
  <2>1. ASSUME NEW q \in Ops, q # o
        PROVE  opSec'[q] = opSec[q] /\ cleared'[q] = cleared[q] /\ (MetaRead(q)' <=> MetaRead(q))
    BY <2>1 DEF MetaRead
  <2>2. MetaRead(o)' /\ ~MetaRead(o) BY DEF MetaRead
  <2>3. \A q \in Ops : ~OverrideRead(q) /\ ~OverrideRead(q)' BY DEF OverrideRead
  <2>4. opSec[o] = {} /\ ~cleared[o] BY <2>2, <2>3 DEF OpSecInv, OpSecOf
  <2>5. /\ cleared'[o] <=> in.meta[o] = {}
        /\ opSec'[o] = IF in.meta[o] # Absent THEN in.meta[o] ELSE {}
    BY <2>4
  <2> QED BY <2>1, <2>2, <2>3, <2>5 DEF OpSecInv, OpSecOf
<1>4. SchemesInv' /\ WarnedInv' BY DEF SchemesInv, WarnedInv
<1> QED BY <1>1, <1>2, <1>3, <1>4

LEMMA EndWalkIInv == IInv /\ EndWalk => IInv'
<1> SUFFICES ASSUME IInv, EndWalk PROVE IInv' OBVIOUS
<1> USE SourcesFixed DEF IInv, EndWalk, TypeOK, PassNames, Late
<1>1. TypeOK' OBVIOUS
<1>2. DocSecInv' BY DEF DocSecInv
<1>3. OpSecInv' BY DEF OpSecInv, OpSecOf, MetaRead, OverrideRead
<1>4. SchemesInv' /\ WarnedInv' BY DEF SchemesInv, WarnedInv
<1> QED BY <1>1, <1>2, <1>3, <1>4

\* A scheme that does not decode is reported.
LEMMA DecodeSchemeIInv == ASSUME NEW s \in Schemes, IInv, DecodeScheme(s) PROVE IInv'
<1> USE SourcesFixed DEF IInv, DecodeScheme, TypeOK, PassNames, Late
<1>1. TypeOK' OBVIOUS
<1>2. DocSecInv' BY DEF DocSecInv
<1>3. OpSecInv' BY DEF OpSecInv, OpSecOf, MetaRead, OverrideRead
<1>4. SchemesInv' /\ WarnedInv'
  <2>1. DOMAIN declared \subseteq DOMAIN declared' /\ errors \subseteq errors' OBVIOUS
  <2>2. s \in DOMAIN declared' \cup errors' BY DEF Reported
  <2> QED BY <2>1, <2>2 DEF SchemesInv, WarnedInv
<1> QED BY <1>1, <1>2, <1>3, <1>4

LEMMA EndSchemesIInv == IInv /\ EndSchemes => IInv'
<1> SUFFICES ASSUME IInv, EndSchemes PROVE IInv' OBVIOUS
<1> USE SourcesFixed DEF IInv, EndSchemes, TypeOK, PassNames, Late
<1>1. TypeOK' OBVIOUS
<1>2. DocSecInv' BY DEF DocSecInv, DocumentDefault
<1>3. OpSecInv' BY DEF OpSecInv, OpSecOf, MetaRead, OverrideRead, Overridden
<1>4. SchemesInv' /\ WarnedInv' BY DEF SchemesInv, WarnedInv
<1> QED BY <1>1, <1>2, <1>3, <1>4

LEMMA ApplySidecarIInv == IInv /\ ApplySidecar => IInv'
<1> SUFFICES ASSUME IInv, ApplySidecar PROVE IInv' OBVIOUS
<1> USE SourcesFixed DEF IInv, ApplySidecar, TypeOK, PassNames, Late
<1>1. TypeOK' OBVIOUS
<1>2. DocSecInv' BY DEF DocSecInv, DocumentDefault
<1>3. OpSecInv' BY DEF OpSecInv, OpSecOf, MetaRead, OverrideRead, Overridden
<1>4. SchemesInv' /\ WarnedInv' BY DEF SchemesInv, WarnedInv
<1> QED BY <1>1, <1>2, <1>3, <1>4

\* An override replaces the requirement, and SecurityCleared stays.
LEMMA OverrideIInv == ASSUME NEW o \in Ops, IInv, Override(o) PROVE IInv'
<1> USE SourcesFixed DEF IInv, Override, TypeOK, PassNames, Late
<1>1. Overridden(o) <=> Overrides(o) # {} BY DEF Overridden
<1>2. TypeOK' BY <1>1, OverridesType
<1>3. DocSecInv' BY DEF DocSecInv
<1>4. OpSecInv'
  <2>1. ASSUME NEW q \in Ops, q # o
        PROVE  /\ opSec'[q] = opSec[q] /\ cleared'[q] = cleared[q]
               /\ (MetaRead(q)' <=> MetaRead(q)) /\ (OverrideRead(q)' <=> OverrideRead(q))
    BY <2>1 DEF MetaRead, OverrideRead
  <2>2. /\ cleared'[o] = cleared[o] /\ (MetaRead(o)' <=> MetaRead(o))
        /\ OverrideRead(o)' /\ ~OverrideRead(o)
    BY DEF MetaRead, OverrideRead
  <2>3. IF Overridden(o) THEN opSec'[o] \in Overrides(o) ELSE opSec'[o] = opSec[o]
    BY <1>1
  <2>4. OpSecOf(o)' BY <2>2, <2>3 DEF OpSecInv, OpSecOf
  <2>5. \A q \in Ops : q # o => OpSecOf(q)' BY <2>1, OpSecKept DEF OpSecInv
  <2> QED BY <2>4, <2>5 DEF OpSecInv
<1>5. SchemesInv' /\ WarnedInv' BY DEF SchemesInv, WarnedInv
<1> QED BY <1>2, <1>3, <1>4, <1>5

LEMMA EndOverrideIInv == IInv /\ EndOverride => IInv'
<1> SUFFICES ASSUME IInv, EndOverride PROVE IInv' OBVIOUS
<1> USE SourcesFixed DEF IInv, EndOverride, TypeOK, PassNames, Late
<1>1. TypeOK' OBVIOUS
<1>2. DocSecInv' BY DEF DocSecInv
<1>3. OpSecInv' BY DEF OpSecInv, OpSecOf, MetaRead, OverrideRead
<1>4. SchemesInv' /\ WarnedInv' BY DEF SchemesInv, WarnedInv
<1> QED BY <1>1, <1>2, <1>3, <1>4

LEMMA CheckUndeclaredIInv == IInv /\ CheckUndeclared => IInv'
<1> SUFFICES ASSUME IInv, CheckUndeclared PROVE IInv' OBVIOUS
<1> USE SourcesFixed DEF IInv, CheckUndeclared, TypeOK, PassNames, Late
<1>1. TypeOK' OBVIOUS
<1>2. DocSecInv' BY DEF DocSecInv
<1>3. OpSecInv' BY DEF OpSecInv, OpSecOf, MetaRead, OverrideRead
<1>4. SchemesInv' /\ WarnedInv' BY DEF SchemesInv, WarnedInv, Referenced
<1> QED BY <1>1, <1>2, <1>3, <1>4

LEMMA StutterIInv == IInv /\ UNCHANGED vars => IInv'
BY SourcesFixed DEF IInv, vars, TypeOK, DocSecInv, OpSecInv, OpSecOf, MetaRead, OverrideRead,
       SchemesInv, WarnedInv, Referenced

-----------------------------------------------------------------------------
(* The theorems.                                                             *)

\* After each pass, every requirement is the one the sources read so far ask
\* for, and every scheme visited is declared or reported.
THEOREM Invariance == Spec => []IInv
<1>1. IInv /\ [Next]_vars => IInv'
  <2> SUFFICES ASSUME IInv, [Next]_vars PROVE IInv' OBVIOUS
  <2>1. CASE \E o \in Ops : ApplyMeta(o) \/ Override(o)
    BY <2>1, ApplyMetaIInv, OverrideIInv
  <2>2. CASE \E s \in Schemes : DecodeScheme(s) BY <2>2, DecodeSchemeIInv
  <2>3. CASE ReadMetadata \/ EndWalk \/ EndSchemes \/ ApplySidecar \/ EndOverride \/ CheckUndeclared
    BY <2>3, ReadMetadataIInv, EndWalkIInv, EndSchemesIInv, ApplySidecarIInv, EndOverrideIInv,
       CheckUndeclaredIInv
  <2>4. CASE Done \/ UNCHANGED vars BY <2>4, StutterIInv DEF Done
  <2> QED BY <2>1, <2>2, <2>3, <2>4 DEF Next
<1> QED BY <1>1, InitIInv, PTL DEF Spec

\* Which requirement an operation is written with, and which it inherits, when
\* the passes are over: the most specific source's.
THEOREM PrecedenceAlways == Spec => []Precedence
<1>1. IInv => Precedence
  <2> SUFFICES ASSUME IInv, pass = "done", NEW o \in Ops
      PROVE /\ in.meta[o] = {} => Written(o) # Absent
            /\ ~Overridden(o) =>
                 Effective(o) = IF in.meta[o] = Absent THEN DocumentDefault ELSE in.meta[o]
            /\ Overridden(o) /\ in.meta[o] = Absent /\ {} \notin Overrides(o) =>
                 LET side == in.sidecar
                     byId == in.ids[o] \in DOMAIN side.byId
                     byPath == in.paths[o] \in DOMAIN side.byPath
                 IN  /\ byId => Effective(o) = side.byId[in.ids[o]]
                     /\ ~byId /\ byPath => Effective(o) = side.byPath[in.paths[o]]
                     /\ ~byId /\ ~byPath =>
                          \E i \in DOMAIN in.tags[o] :
                            /\ in.tags[o][i] \in DOMAIN side.byTag
                            /\ Effective(o) = side.byTag[in.tags[o][i]]
    BY Zenon DEF Precedence
  <2>1. opSec[o] \in SUBSET Schemes /\ opSec[o] # Absent BY DEF IInv, TypeOK
  <2>2. /\ cleared[o] <=> in.meta[o] = {}
        /\ Overridden(o) => opSec[o] \in Overrides(o)
        /\ ~Overridden(o) => opSec[o] = IF in.meta[o] # Absent THEN in.meta[o] ELSE {}
        /\ docSec = DocumentDefault
    BY DEF IInv, OpSecInv, OpSecOf, MetaRead, OverrideRead, DocSecInv, Late
  <2>3. {} # Absent OBVIOUS
  <2>4. in.meta[o] = {} => Written(o) # Absent BY <2>1, <2>2, <2>3 DEF Written
  <2>5. ~Overridden(o) =>
          Effective(o) = IF in.meta[o] = Absent THEN DocumentDefault ELSE in.meta[o]
    BY <2>1, <2>2, <2>3 DEF Written, Effective
  <2>6. ASSUME Overridden(o), {} \notin Overrides(o)
        PROVE  Effective(o) \in Overrides(o)
    BY <2>1, <2>2, <2>6 DEF Written, Effective
  <2> QED BY <2>4, <2>5, <2>6 DEF Overrides
<1> QED BY <1>1, Invariance, PTL

\* What the written document demands is declared in it, or was reported.
THEOREM UndeclaredReportedAlways == Spec => []UndeclaredReported
<1>1. IInv => UndeclaredReported
  BY DEF IInv, WarnedInv, Referenced, UndeclaredReported, Effective, Written
<1> QED BY <1>1, Invariance, PTL

\* Every scheme of the source is declared or reported, and the sidecar's
\* definition of it wins.
THEOREM NoSchemeVanishesAlways == Spec => []NoSchemeVanishes
<1>1. IInv => NoSchemeVanishes BY DEF IInv, SchemesInv, Late, NoSchemeVanishes
<1> QED BY <1>1, Invariance, PTL

=============================================================================
