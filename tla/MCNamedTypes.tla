---------------------------- MODULE MCNamedTypes ----------------------------
(* Two types and the reserved one; any of them may be left undefined. *)
EXTENDS NamedTypes

MCTypes == {"A", "B", "SecuritySchemes"}
=============================================================================
