----------------------------- MODULE YamlReader -----------------------------
(***************************************************************************)
(* A reader of the part of YAML that the emitter writes, by the rules of     *)
(* YAML 1.2 for indentation and plain scalars and by its core schema for the *)
(* type of a scalar, to read back what was written.                          *)
(***************************************************************************)
EXTENDS YamlOutput

LOCAL INSTANCE SequencesExt
LOCAL INSTANCE FiniteSetsExt

Null == Scalar(<<"null">>)
Malformed == [form |-> "malformed"]

\* s without the spaces at its beginning or its end.
TrimLeft(s) ==
  LET text == {i \in DOMAIN s : s[i] # " "} IN IF text = {} THEN <<>> ELSE SubSeq(s, Min(text), Len(s))

TrimRight(s) ==
  LET text == {i \in DOMAIN s : s[i] # " "} IN IF text = {} THEN <<>> ELSE SubSeq(s, 1, Max(text))

\* A line: the column it begins at, and the rest of it.
ReadLine(s) == [col |-> Len(s) - Len(TrimLeft(s)), txt |-> TrimLeft(s)]

StartsWith(s, prefix) == IsPrefix(prefix, s)

-----------------------------------------------------------------------------
(* Scalars.                                                                 *)

\* null, true and false, as the core schema spells them.
CoreWords ==
  {"null", "Null", "NULL", "~", "true", "True", "TRUE", "false", "False", "FALSE"}

Unsigned(s) == IF s # <<>> /\ Head(s) \in {"-", "+"} THEN Tail(s) ELSE s

AllOf(s, symbols) == s # <<>> /\ \A i \in DOMAIN s : s[i] \in symbols

\* Digits around at most one dot.
Decimal(s) ==
  \/ AllOf(s, Digits)
  \/ \E i \in DOMAIN s : s[i] = "." /\ AllOf(SubSeq(s, 1, i - 1) \o SubSeq(s, i + 1, Len(s)), Digits)

\* An "e" stands for the "E" as well, and so do "inf" and "nan" for their other
\* spellings.
Exponential(s) ==
  \E i \in DOMAIN s :
    /\ s[i] = "e"
    /\ Decimal(Unsigned(SubSeq(s, 1, i - 1)))
    /\ AllOf(Unsigned(SubSeq(s, i + 1, Len(s))), Digits)

Based(s) ==
  /\ Len(s) > 2 /\ s[1] = "0"
  /\ \/ s[2] = "x" /\ AllOf(SubSeq(s, 3, Len(s)), Digits \cup {"a", "b", "c", "d", "e", "f"})
     \/ s[2] = "o" /\ AllOf(SubSeq(s, 3, Len(s)), Digits \ {"8", "9"})

NotFinite(s) == Unsigned(s) = <<".", "inf">> \/ s = <<".", "nan">>

\* Numbers that are not digits and a dot.
OtherNumber(s) == Exponential(s) \/ Based(s) \/ NotFinite(s)

\* What begins no plain scalar, and what ends one within its line.
Indicators == {"&", "*", "!", "|", ">", "'", "%", "@", "#", ",", "[", "]", "{", "}", "\t", "\""}

Ends(s) ==
  \E i \in DOMAIN s : \/ s[i] = ":" /\ (i = Len(s) \/ s[i + 1] = " ")
                      \/ s[i] = "#" /\ i > 1 /\ s[i - 1] = " "

\* "-" and "?" are indicators before a space.
Plain(s) ==
  /\ Head(s) \notin Indicators
  /\ Head(s) \in {"-", "?", ":"} => Len(s) > 1 /\ s[2] # " "
  /\ ~Ends(s)

ReadScalar(s) ==
  LET n == Len(s)
  IN  CASE n > 1 /\ s[1] = "\"" /\ s[n] = "\"" -> Text(SubSeq(s, 2, n - 1))
        [] Decimal(Unsigned(s)) \/ OtherNumber(s) -> Scalar(s)
        [] n = 1 /\ s[1] \in CoreWords -> Scalar(s)
        [] OTHER -> IF Plain(s) THEN Text(s) ELSE Malformed

-----------------------------------------------------------------------------
(* Blocks.  Each reader gives the value and the number of the next line.     *)

\* Where the colon after the key of a line is, if it begins with a key.
KeyEnd(s) ==
  LET Quoted(i) == Head(s) = "\"" => i > 2 /\ s[i - 1] = "\""
      colons == {i \in DOMAIN s : s[i] = ":" /\ Quoted(i) /\ (i = Len(s) \/ s[i + 1] = " ")}
  IN  IF colons = {} \/ Head(s) \in Indicators \ {"\""} THEN 0 ELSE Min(colons)

IsDash(s) == s = <<"-">> \/ StartsWith(s, <<"-", " ">>)

\* The key of a member; a key that is no text is none of the emitter's.
ReadKey(s) == LET key == ReadScalar(s) IN IF key.form = "text" THEN key.chars ELSE <<"not a text">>

\* The lines of a literal block below line i, which is at column c: those below
\* it that are further in; the first text sets the column that is cut off.
ReadLiteral(lines, i, c) ==
  LET In(j) == lines[j].txt = <<>> \/ lines[j].col > c
      last == Max({j \in i..Len(lines) : \A k \in (i + 1)..j : In(k)})
      texts == {j \in (i + 1)..last : lines[j].txt # <<>>}
      cut == IF texts = {} THEN 0 ELSE lines[Min(texts)].col
      Raw(j) == [k \in 1..lines[j].col |-> " "] \o lines[j].txt
      Line(j) == SubSeq(Raw(j), cut + 1, Len(Raw(j)))
      text == FlattenSeq([k \in 1..(last - i) |-> Line(i + k) \o <<"\n">>])
  IN  [v |-> IF \E j \in texts : lines[j].col < cut THEN Malformed ELSE Text(text),
       next |-> last + 1]

RECURSIVE ReadNode(_, _)

Below(lines, i, c) == i < Len(lines) /\ lines[i + 1].col > c

\* What follows a key or a dash of line i, which is at column c.
ReadRest(lines, i, c, rest, dash) ==
  CASE rest = <<>> /\ Below(lines, i, c) -> ReadNode(lines, i + 1)
    [] rest = <<>> /\ ~Below(lines, i, c) -> [v |-> Null, next |-> i + 1]
    [] rest = <<"|">> -> ReadLiteral(lines, i, c)
    [] rest = <<"[", "]">> -> [v |-> Array(<<>>), next |-> i + 1]
    [] rest = <<"{", "}">> -> [v |-> Object(<<>>), next |-> i + 1]
    [] rest # <<>> /\ Head(rest) = "*" ->
         [v |-> Object(<< <<Alias, Text(Tail(rest))>> >>), next |-> i + 1]
    [] rest # <<>> /\ Head(rest) = "&" ->
         IF ~Below(lines, i, c) THEN [v |-> Malformed, next |-> i + 1]
         ELSE LET of == ReadNode(lines, i + 1)
              IN  [v |-> IF of.v.form = "object"
                         THEN Object(<< <<Anchor, Text(Tail(rest))>> >> \o of.v.members)
                         ELSE Malformed,
                   next |-> of.next]
    [] OTHER ->
         IF dash /\ (IsDash(rest) \/ KeyEnd(rest) # 0)
         THEN ReadNode([lines EXCEPT ![i] = [col |-> c + 2, txt |-> rest]], i)
         ELSE [v |-> ReadScalar(rest), next |-> i + 1]

RECURSIVE ReadItems(_, _, _), ReadMembers(_, _, _)

\* The items, or the members, that begin at column c from line i on.
ReadItems(lines, i, c) ==
  IF i > Len(lines) \/ lines[i].col # c \/ ~IsDash(lines[i].txt)
  THEN [v |-> <<>>, next |-> i]
  ELSE LET item == ReadRest(lines, i, c, TrimLeft(Tail(lines[i].txt)), TRUE)
           others == ReadItems(lines, item.next, c)
       IN  [v |-> <<item.v>> \o others.v, next |-> others.next]

ReadMembers(lines, i, c) ==
  IF i > Len(lines) \/ lines[i].col # c \/ KeyEnd(lines[i].txt) = 0
  THEN [v |-> <<>>, next |-> i]
  ELSE LET s == lines[i].txt
           end == KeyEnd(s)
           member == ReadRest(lines, i, c, TrimLeft(SubSeq(s, end + 1, Len(s))), FALSE)
           others == ReadMembers(lines, member.next, c)
       IN  [v |-> << <<ReadKey(SubSeq(s, 1, end - 1)), member.v>> >> \o others.v,
            next |-> others.next]

ReadNode(lines, i) ==
  LET line == lines[i]
  IN  IF IsDash(line.txt)
      THEN LET r == ReadItems(lines, i, line.col) IN [v |-> Array(r.v), next |-> r.next]
      ELSE IF line.txt # <<>> /\ KeyEnd(line.txt) # 0
      THEN LET r == ReadMembers(lines, i, line.col) IN [v |-> Object(r.v), next |-> r.next]
      ELSE ReadRest(lines, i, line.col, line.txt, FALSE)

\* A document is read when no line is left.
ReadYAML(doc) ==
  LET split == SplitLines(TrimNewlines(doc))
      lines == FoldLeft(LAMBDA read, line : Append(read, ReadLine(line)), <<>>, split)
      r == ReadNode(lines, 1)
  IN  IF r.next = Len(lines) + 1 THEN r.v ELSE Malformed

\* A value without the newlines at the end of its texts, which a literal block
\* does not tell apart.
RECURSIVE Trimmed(_)
Trimmed(v) ==
  CASE v.form = "text" -> Text(TrimNewlines(v.chars))
    [] v.form = "object" ->
         Object([i \in DOMAIN v.members |-> <<v.members[i][1], Trimmed(v.members[i][2])>>])
    [] v.form = "array" -> Array([i \in DOMAIN v.elements |-> Trimmed(v.elements[i])])
    [] OTHER -> v
=============================================================================
