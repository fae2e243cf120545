----------------------------- MODULE YamlOutput -----------------------------
(***************************************************************************)
(* The YAML emitter: a JSON value is written in block style, with the        *)
(* members $$anchor and $$alias of the model turned into YAML's own, and     *)
(* texts written plain, quoted or as a block.                                *)
(*                                                                          *)
(* A text is a sequence of characters; a reserved word is one character      *)
(* here, since only whole texts are compared with it.  Go's %q and YAML's    *)
(* double quotes agree on the characters that are modelled (the double quote *)
(* and the backtick, which are quoted too, are not).                         *)
(***************************************************************************)
EXTENDS Naturals, Sequences, FiniteSets

LOCAL INSTANCE SequencesExt

\* JSON values: the texts and the scalars (numbers, true, null) hold
\* characters, an object its members in order, an array its elements.
Text(chars) == [form |-> "text", chars |-> chars]
Scalar(chars) == [form |-> "scalar", chars |-> chars]
Object(members) == [form |-> "object", members |-> members]
Array(elements) == [form |-> "array", elements |-> elements]

-----------------------------------------------------------------------------
(* Scalars.                                                                 *)

Words == {"true", "false", "null", "yes", "no", "on", "off", "True", "False", "Null",
          "TRUE", "FALSE", "NULL", "~"}
Special == {":", "#", "&", "*", "!", "|", ">", "'", "%", "@", ",", "[", "]", "{", "}", "\t"}
Digits == {"0", "1", "2", "3", "4", "5", "6", "7", "8", "9"}

\* Slip: a sign is not expected.
IsNumericUnsigned(s) ==
  /\ s # <<>>
  /\ \A i \in DOMAIN s : s[i] \in Digits \cup {"."}
  /\ Cardinality({i \in DOMAIN s : s[i] = "."}) <= 1

\* A sign, then digits and at most one dot.
IsNumeric(s) ==
  LET body == IF s # <<>> /\ Head(s) \in {"-", "+"} THEN Tail(s) ELSE s
  IN  /\ body # <<>>
      /\ \A i \in DOMAIN body : body[i] \in Digits \cup {"."}
      /\ Cardinality({i \in DOMAIN body : body[i] = "."}) <= 1

NeedsQuoting(s) ==
  \/ s = <<>>
  \/ \E w \in Words : s = <<w>>
  \/ \E i \in DOMAIN s : s[i] \in Special
  \/ " " \in {Head(s), s[Len(s)]}
  \/ Head(s) \in {"-", "?"}
  \/ IsNumeric(s)

\* yamlKey and quoteIfNeeded
QuoteIfNeeded(s) == IF NeedsQuoting(s) THEN <<"\"">> \o s \o <<"\"">> ELSE s

WriteIndent(indent) == [i \in 1..(2 * indent) |-> " "]

\* strings.Split(s, "\n")
SplitLines(s) ==
  LET ends == SelectSeq([i \in DOMAIN s |-> i], LAMBDA i : s[i] = "\n") \o <<Len(s) + 1>>
      begin(k) == IF k = 1 THEN 1 ELSE ends[k - 1] + 1
  IN  [k \in DOMAIN ends |-> SubSeq(s, begin(k), ends[k] - 1)]

\* strings.TrimRight(s, "\n")
TrimNewlines(s) ==
  SubSeq(s, 1, CHOOSE n \in 0..Len(s) : /\ \A i \in (n + 1)..Len(s) : s[i] = "\n"
                                        /\ n > 0 => s[n] # "\n")

WriteBlockScalar(s, indent) ==
  LET lines == SplitLines(TrimNewlines(s))
  IN  <<"|", "\n">> \o
      FlattenSeq([i \in DOMAIN lines |-> WriteIndent(indent) \o lines[i] \o <<"\n">>])

\* What follows a key on its line begins with a space.
Space(inline) == IF inline THEN <<" ">> ELSE <<>>

WriteScalarString(s, indent, inline) ==
  Space(inline) \o
  IF "\n" \in ToSet(s) THEN WriteBlockScalar(s, indent) ELSE QuoteIfNeeded(s) \o <<"\n">>

-----------------------------------------------------------------------------
(* Containers.                                                              *)

RECURSIVE EmitValue(_, _, _)

\* "key:" and its value; the value of a member is one level deeper.
EmitMember(member, indent) ==
  QuoteIfNeeded(member[1]) \o <<":">> \o EmitValue(member[2], indent + 1, TRUE)

\* Members one below the other.
EmitMembers(members, indent) ==
  FlattenSeq([i \in DOMAIN members |-> WriteIndent(indent) \o EmitMember(members[i], indent)])

FirstKey(members) == members[1][1]
Anchor == <<"$$anchor">>
Alias == <<"$$alias">>

\* The value of a sentinel, which is a text.
Named(members) == members[1][2].chars

EmitObject(members, indent, inline) ==
  CASE members = <<>> -> Space(inline) \o <<"{", "}", "\n">>
    [] members # <<>> /\ FirstKey(members) = Alias ->
         Space(inline) \o <<"*">> \o Named(members) \o <<"\n">>
    [] members # <<>> /\ FirstKey(members) = Anchor ->
         Space(inline) \o <<"&">> \o Named(members) \o <<"\n">> \o
         EmitMembers(Tail(members), indent)
    [] OTHER -> (IF inline THEN <<"\n">> ELSE <<>>) \o EmitMembers(members, indent)

\* Slip: the members after the first are aligned with the dash.
EmitObjectInArrayItemFlush(members, indent) ==
  CASE members = <<>> -> <<"{", "}", "\n">>
    [] members # <<>> /\ FirstKey(members) \in {Alias, Anchor} ->
         EmitObject(members, indent, FALSE)
    [] OTHER -> EmitMember(members[1], indent) \o EmitMembers(Tail(members), indent - 1)

\* emitObjectInArrayItem: the first member follows the dash, and the others are
\* aligned with it.
EmitObjectInArrayItem(members, indent) ==
  CASE members = <<>> -> <<"{", "}", "\n">>
    [] members # <<>> /\ FirstKey(members) \in {Alias, Anchor} ->
         EmitObject(members, indent, FALSE)
    [] OTHER -> EmitMember(members[1], indent) \o EmitMembers(Tail(members), indent)

RECURSIVE EmitArray(_, _, _)

\* An array in an array starts on the next line.
EmitArrayItem(v, indent) ==
  CASE v.form = "object" -> EmitObjectInArrayItem(v.members, indent + 1)
    [] v.form = "array" -> <<"\n">> \o EmitArray(v.elements, indent + 1, FALSE)
    [] v.form = "text" -> WriteScalarString(v.chars, indent + 1, FALSE)
    [] v.form = "scalar" -> v.chars \o <<"\n">>

EmitArray(elements, indent, inline) ==
  IF elements = <<>> THEN Space(inline) \o <<"[", "]", "\n">>
  ELSE (IF inline THEN <<"\n">> ELSE <<>>) \o
       FlattenSeq([i \in DOMAIN elements |->
         WriteIndent(indent) \o <<"-", " ">> \o EmitArrayItem(elements[i], indent)])

EmitValue(v, indent, inline) ==
  CASE v.form = "object" -> EmitObject(v.members, indent, inline)
    [] v.form = "array" -> EmitArray(v.elements, indent, inline)
    [] v.form = "text" -> WriteScalarString(v.chars, indent, inline)
    [] v.form = "scalar" -> Space(inline) \o v.chars \o <<"\n">>

\* jsonToYAML.  Every value ends its line, so that no newline is missing.
JsonToYAML(v) == EmitValue(v, 0, FALSE)
=============================================================================
