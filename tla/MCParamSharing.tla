--------------------------- MODULE MCParamSharing ---------------------------
(* Two paths.  Under the first, the resource has up to two path parameters   *)
(* and a query parameter its operations may share; under the second, one     *)
(* path parameter.  Each method in MCMethods has an operation or has none.   *)
EXTENDS ParamSharing, TLC

CONSTANTS a1, a2, aq, b1, pathA, pathB

MCPaths == {pathA, pathB}
MCParams == {a1, a2, aq, b1}

Ops(own) == UNION {[D -> own] : D \in SUBSET Methods}

MCDocuments ==
  {(pathA :> [level |-> la, ops |-> oa]) @@ (pathB :> [level |-> lb, ops |-> ob]) :
     la \in {<<a1>>, <<a1, a2>>}, oa \in Ops({<<>>, <<aq>>}),
     lb \in {<<b1>>}, ob \in Ops({<<>>})}
=============================================================================
