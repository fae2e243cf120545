--------------------------- MODULE MCDrafterCache ---------------------------
(* Two processes of two goroutines each.  With three temporary names, two    *)
(* processes can extract while a fault has left a file behind, and one when  *)
(* both faults have.  No symmetry: a liveness property is checked as well.   *)
EXTENDS DrafterCache

CONSTANTS p1, p2, c1, c2, t1, t2, t3

MCProcs == {p1, p2}
MCCallers == {c1, c2}
MCTmpNames == {t1, t2, t3}
=============================================================================
