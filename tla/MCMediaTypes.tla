---------------------------- MODULE MCMediaTypes ----------------------------
(* One title that is also the name the converter would invent itself.       *)
EXTENDS MediaTypes, TLC

MCTitles == {"example2"}

Symmetry == Permutations(Bodies)
=============================================================================
