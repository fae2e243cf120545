------------------------------ MODULE MCTexts ------------------------------
(* Symbols for each kind of text, so many that the rules meet: braces and     *)
(* operators; the words YAML or the emitter knows; what numbers, comments and *)
(* keys are made of; members at three depths; each header; each way to look a *)
(* key up.                                                                    *)
EXTENDS Values

M(name, indent) == Desc!Member(name, indent, indent = 1, TRUE, FALSE)
ScalarMember(name, indent) == Desc!Member(name, indent, TRUE, FALSE, FALSE)
Pair(indent) == [Desc!Line("text", indent) EXCEPT !.colon = TRUE]
E(key) == Meta!Entry(key, TRUE, FALSE, TRUE)
Empty(key) == Meta!Entry(key, TRUE, FALSE, FALSE)

MCAlphabet ==
  [k \in {"href", "word", "scalar", "members", "options", "blocks", "metadata"} |->
     CASE k = "href" -> {"{", "}", "?", ",", "+", "a"}
       [] k = "word" -> Yaml!Words \cup Yaml!CoreWords
       [] k = "scalar" -> {"0", "8", ".", "+", "-", "e", "x", "o", "inf", "nan", " ", ":", "#",
                           "a", "true", "~"}
       [] k = "members" ->
            {M("a", 0), M("b", 0), M("a", 1), M("b", 1), M("b", 2), ScalarMember("a", 0),
             Desc!Line("text", 0), Desc!Line("blank", 0)}
       [] k = "options" ->
            {Desc!Line("oneof", 0), Desc!Line("properties", 1), M("a", 2), M("b", 2), M("a", 0)}
       [] k = "blocks" ->
            {Desc!Line("meta", 0), Desc!Line("meta", 1), Pair(2), Desc!Line("patch", 0),
             Desc!Line("patch", 1), Desc!Line("text", 1), Desc!Line("text", 0),
             Desc!Line("oneof", 0), Desc!Line("properties", 1), Desc!Line("blank", 0),
             Desc!Member("a", 0, FALSE, TRUE, TRUE), M("b", 1)}
       [] k = "metadata" ->
            {E("format"), E("version"), E("api-version"), E("api_version"), Empty("version"),
             E("host"), E("server"),
             E("summary"), Empty("summary"), E("license"), E("license-id"), E("security"),
             Empty("security"), E("webhook_groups"), Empty("webhook_groups"),
             Meta!Entry("webhook_groups", FALSE, FALSE, TRUE),
             Meta!Entry("host", TRUE, TRUE, TRUE), Meta!Entry("license", TRUE, TRUE, TRUE),
             E("wibble"), E("x-team"), E("team"), Meta!Entry("team", FALSE, TRUE, TRUE)}]

MCValues ==
  {Yaml!Text(t) : t \in {<<"7">>, <<"a", "\n", " ", "b">>, <<"\n", "-", " ", "a", "\n">>,
                         <<" ", "a", "\n", "b">>}} \cup
  {Yaml!Scalar(<<"7">>), Yaml!Scalar(<<"1", ".", "5">>), Yaml!Scalar(<<"null">>), Yaml!Object(<<>>), Yaml!Array(<<>>),
   Yaml!Object(<< <<Yaml!Alias, Yaml!Text(<<"r">>)>> >>)}

MCBegin ==
  [k \in DOMAIN MCAlphabet \cup {"value"} |->
     CASE k = "href" -> {<<>>, <<"{", "a", "}">>, <<"{", "?", "a", "}">>}
       [] k = "options" -> {<<>>, <<Desc!Line("oneof", 0), Desc!Line("properties", 1)>>}
       [] k = "value" -> MCValues
       [] OTHER -> {<<>>}]

MCLongest ==
  [k \in DOMAIN MCBegin |->
     CASE k \in {"href", "members", "options"} -> 5
       [] k \in {"scalar", "blocks"} -> 4
       [] k \in {"metadata", "value"} -> 3
       [] k = "word" -> 1]

MCContainers(v) == Objects(v) \cup Arrays(v)

MCSiblings ==
  {Yaml!Text(<<"a", "\n", "b">>),
   Yaml!Object(<< <<Keys[1], Yaml!Array(<<Yaml!Scalar(<<"7">>)>>)>> >>)}
=============================================================================
