--------------------------- MODULE MCResourceWalk ---------------------------
(* Two resources on one path with a template variable and different query    *)
(* templates, one of which asks for the variable once more; two without a    *)
(* path, one of them malformed; actions that differ in method, operationId,  *)
(* tags and parameters.                                                      *)
EXTENDS ResourceWalk, TLC

Id == <<"i">>
Q == <<"q">>
Path == <<"/", "{", "i", "}">>

P(name, loc) == [name |-> name, loc |-> loc]

R(href, params, titled) == [href |-> href, params |-> params, titled |-> titled]

MCResources ==
  { R(Path \o <<"{", "?", "i", "}">>, <<P(Id, "")>>, TRUE),
    R(Path \o <<"{", "?", "q", ",", "r", "}">>, <<P(Q, ""), P(Id, ""), P(Q, "header")>>, FALSE),
    R(<<"{", "?", "q", "}">>, <<>>, TRUE),
    R(<<"{", "?", "}">>, <<>>, TRUE) }

A(method, title, id, tags, append, headers, params) ==
  [method |-> method, title |-> title, id |-> id, tags |-> tags, append |-> append,
   headers |-> headers, params |-> params]

MCActions ==
  { A("get", "List", None, <<>>, FALSE, <<>>, <<P(Q, "")>>),
    A("get", "List", None, <<"Beta">>, TRUE, <<Q, Q>>, <<P(Q, "header"), P(Q, "")>>),
    A("put", None, "List", <<"Beta">>, FALSE, << <<"r">> >>, <<P(Id, "")>>),
    A("trace", "Echo", None, <<>>, FALSE, <<>>, <<>>),
    A("bogus", None, None, <<>>, FALSE, <<>>, <<>>) }
=============================================================================
