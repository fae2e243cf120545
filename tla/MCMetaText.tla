----------------------------- MODULE MCMetaText -----------------------------
(* Two keys: one that mergeMetaBlocks copies, one (like Kind) that it does not. *)
EXTENDS MetaText

MCIndents == {0, 1}
MCKeys == {"Docs", "Kind"}
MCMerged == {"Docs"}
=============================================================================
