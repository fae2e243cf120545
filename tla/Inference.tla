----------------------------- MODULE Inference -----------------------------
(***************************************************************************)
(* The schema of a body that has only an example: inferSchemaFromExample     *)
(* walks the decoded JSON, whose values are those of YamlOutput.             *)
(***************************************************************************)
EXTENDS Naturals, Sequences, FiniteSets

\* A schema without a type accepts everything.
Schema(type) == [type |-> type, props |-> <<>>, items |-> {}]

\* A number is an integer when its value is one: nothing but zeros after the dot.
ScalarType(chars) ==
  CASE chars \in {<<"true">>, <<"false">>} -> "boolean"
    [] chars = <<"null">> -> ""
    [] \E i, j \in DOMAIN chars : i < j /\ chars[i] = "." /\ chars[j] # "0" -> "number"
    [] OTHER -> "integer"

IsNull(v) == v.form = "scalar" /\ v.chars = <<"null">>

\* The last value of a name, as JSON decodes an object.
Value(members, name) ==
  members[CHOOSE i \in DOMAIN members :
            /\ members[i][1] = name
            /\ \A j \in DOMAIN members : members[j][1] = name => j <= i][2]

RECURSIVE Infer(_)

\* Slip: the elements are whatever the last one is.
InferArrayLast(elements) ==
  IF elements = <<>> \/ IsNull(elements[Len(elements)]) THEN Schema("array")
  ELSE [Schema("array") EXCEPT !.items = {Infer(elements[Len(elements)])}]

\* The elements of an array are what its first one is; null says nothing.
InferArray(elements) ==
  IF elements = <<>> \/ IsNull(elements[1]) THEN Schema("array")
  ELSE [Schema("array") EXCEPT !.items = {Infer(elements[1])}]

InferObject(members) ==
  [Schema("object") EXCEPT
     !.props = [name \in {members[i][1] : i \in DOMAIN members} |-> Infer(Value(members, name))]]

\* The schema of null, which has no type, is left out or empty.
Infer(v) ==
  CASE v.form = "object" -> InferObject(v.members)
    [] v.form = "array" -> InferArray(v.elements)
    [] v.form = "text" -> Schema("string")
    [] v.form = "scalar" -> Schema(ScalarType(v.chars))
=============================================================================
