------------------------------- MODULE Values -------------------------------
(***************************************************************************)
(* JSON values: the YAML that is streamed out for them (YamlOutput), read    *)
(* back by a reader of it (YamlReader), and the schemas inferred from them   *)
(* (Inference).  Values grow, and texts that become scalars, as in Texts.    *)
(***************************************************************************)
EXTENDS Texts

LOCAL INSTANCE SequencesExt
LOCAL INSTANCE FiniteSetsExt

Yaml == INSTANCE YamlReader
Json == INSTANCE Inference

CONSTANT Siblings   \* JSON values that may stand beside another in its container

\* The JSON value is put in an object, which may be one that is shared, or in
\* an array, alone or beside another.
Keys == << <<"k">>, <<"7">> >>

Objects(v) ==
  LET anchor == <<Yaml!Anchor, Yaml!Text(<<"r">>)>>
      k == <<Keys[1], v>>
  IN  {Yaml!Object(<<k>>)} \cup
      UNION {{Yaml!Object(<<k, <<Keys[2], s>> >>), Yaml!Object(<< <<Keys[2], s>>, k>>),
              Yaml!Object(<<anchor, k, <<Keys[2], s>> >>)} : s \in Siblings}

Arrays(v) ==
  {Yaml!Array(<<v>>)} \cup
  UNION {{Yaml!Array(<<v, s>>), Yaml!Array(<<s, v>>)} : s \in Siblings}

-----------------------------------------------------------------------------
(* YAML.                                                                    *)

\* What the emitter is known to misplace: an array directly in an array, when
\* it is empty; an anchor on nothing; a block whose first line is indented.
RECURSIVE Misplaced(_)
Misplaced(v) ==
  CASE v.form = "array" ->
         \/ \E i \in DOMAIN v.elements : v.elements[i] = Yaml!Array(<<>>)
         \/ \E i \in DOMAIN v.elements : Misplaced(v.elements[i])
    [] v.form = "object" ->
         \/ Len(v.members) = 1 /\ v.members[1][1] = Yaml!Anchor
         \/ \E i \in DOMAIN v.members : Misplaced(v.members[i][2])
    [] v.form = "text" ->
         LET lines == Yaml!SplitLines(Yaml!TrimNewlines(v.chars))
             some == {i \in DOMAIN lines : Yaml!TrimLeft(lines[i]) # <<>>}
         IN  "\n" \in ToSet(v.chars) /\ some # {} /\ Head(lines[Min(some)]) = " "
    [] OTHER -> FALSE

InDocument(v) == Yaml!Object(<< <<Keys[1], v>> >>)

\* Whatever is nested in what, shared or not, the YAML that is streamed out is
\* read back as the same value: every member and element is at the column that
\* puts it where it was ("so they align under that key",
\* src/internal/convert/marshal.go:302).
YamlReadsBack ==
  genre = "value" /\ ~Misplaced(written) =>
    Yaml!Trimmed(Yaml!ReadYAML(Yaml!JsonToYAML(InDocument(written)))) =
      Yaml!Trimmed(InDocument(written))

\* isNumeric knows a sign, digits and one dot.  The other numbers of YAML 1.2
\* (1e3, 0x1f, 0o7, .inf, .nan) are written plain, unless they begin with "-".
LeftPlain(text) == Yaml!OtherNumber(text) /\ Head(text) # "-"

\* Any other text that a YAML 1.2 reader would take for a number, a boolean, null
\* or a piece of syntax is quoted, as a value and as a key ("quote if the string
\* contains any character that could trip YAML's plain-scalar parser" and
\* "should be quoted to preserve type", src/internal/convert/marshal.go:430,449).
ScalarsKeepType ==
  genre \in {"word", "scalar"} /\ ~LeftPlain(written) =>
    LET doc == Yaml!Object(<< <<written, Yaml!Text(written)>> >>)
    IN  Yaml!ReadYAML(Yaml!JsonToYAML(doc)) = doc

-----------------------------------------------------------------------------
(* Inferred schemas.                                                        *)

\* JSON Schema's own rules, for the keywords that are inferred.
RECURSIVE Accepts(_, _)
Accepts(schema, v) ==
  /\ schema.type # "" =>
       schema.type \in CASE v.form = "object" -> {"object"}
                         [] v.form = "array" -> {"array"}
                         [] v.form = "text" -> {"string"}
                         [] OTHER -> {Json!ScalarType(v.chars)} \cup
                              (IF Json!ScalarType(v.chars) = "integer" THEN {"number"} ELSE {})
  /\ v.form = "object" =>
       \A i \in DOMAIN v.members :
         v.members[i][1] \in DOMAIN schema.props =>
           Accepts(schema.props[v.members[i][1]], v.members[i][2])
  /\ v.form = "array" =>
       \A i \in DOMAIN v.elements : \A items \in schema.items : Accepts(items, v.elements[i])

\* The elements of each array are of one kind, and their parts are.
RECURSIVE Alike(_, _), Uniform(_)
Alike(v, w) ==
  \/ v.form = "scalar" /\ Json!IsNull(v)
  \/ v.form = "text" /\ w.form = "text"
  \/ /\ v.form = "scalar" /\ w.form = "scalar"
     /\ Json!ScalarType(v.chars) = Json!ScalarType(w.chars)
  \/ /\ v.form = "object" /\ w.form = "object"
     /\ \A i \in DOMAIN v.members, j \in DOMAIN w.members :
          v.members[i][1] = w.members[j][1] => Alike(v.members[i][2], w.members[j][2])
  \/ /\ v.form = "array" /\ w.form = "array"
     /\ \A i \in DOMAIN v.elements, j \in DOMAIN w.elements :
          Alike(v.elements[i], w.elements[j])

Uniform(v) ==
  CASE v.form = "object" -> \A i \in DOMAIN v.members : Uniform(v.members[i][2])
    [] v.form = "array" ->
         /\ \A i \in DOMAIN v.elements : Uniform(v.elements[i])
         /\ \A i, j \in DOMAIN v.elements : i < j => Alike(v.elements[i], v.elements[j])
    [] OTHER -> TRUE

\* An example conforms to the schema inferred from it, at every depth, if its
\* arrays hold one kind of element, or their first element says nothing of the
\* others (only it is looked at, src/internal/convert/mson.go:605).
InferredAccepts ==
  genre = "value" /\ Uniform(written) => Accepts(Json!Infer(written), written)
=============================================================================
