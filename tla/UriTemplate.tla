----------------------------- MODULE UriTemplate -----------------------------
(***************************************************************************)
(* The two scanners of a resource's href.  validateURITemplate lists what   *)
(* is malformed (E002); splitURITemplate divides the same text into a path  *)
(* and the names of query parameters, and complains of nothing.  They are   *)
(* written apart and scan by different rules.                               *)
(*                                                                          *)
(* A text is a sequence of characters.  Names are not trimmed: a text has   *)
(* no spaces here.                                                          *)
(***************************************************************************)
EXTENDS Naturals, Sequences

\* The characters that a template is divided at.
Brace == "{"
EndBrace == "}"
Comma == ","

Operators == {"?", "&", "+", "#", "/", ".", ";"}

\* What splitURITemplate takes for a query expression.
QueryOperators == {"?", "&"}

\* strings.Split(body, ","): a comma starts a name, which the next ones extend.
NextChar(names, c) ==
  IF c = Comma THEN Append(names, <<>>)
  ELSE [names EXCEPT ![Len(names)] = Append(@, c)]

SplitNames(body) ==
  LET names[i \in 0..Len(body)] ==
        IF i = 0 THEN << <<>> >> ELSE NextChar(names[i - 1], body[i])
  IN  names[Len(body)]

EmptyName(names) == \E i \in DOMAIN names : names[i] = <<>>

-----------------------------------------------------------------------------
(* validateURITemplate.                                                     *)

\* Slip: the names of an expression with an operator are not looked at.
ProblemsPlainOnly(seg) ==
  LET body == IF seg # <<>> /\ Head(seg) \in Operators THEN Tail(seg) ELSE seg
  IN  CASE seg = <<>> -> {"empty"}
        [] seg # <<>> /\ body = <<>> -> {"nameless"}
        [] seg # <<>> /\ body = seg /\ EmptyName(SplitNames(body)) -> {"unnamed"}
        [] OTHER -> {}

\* What is wrong with the text between two braces.
Problems(seg) ==
  LET body == IF seg # <<>> /\ Head(seg) \in Operators THEN Tail(seg) ELSE seg
  IN  CASE seg = <<>> -> {"empty"}
        [] seg # <<>> /\ body = <<>> -> {"nameless"}
        [] body # <<>> /\ EmptyName(SplitNames(body)) -> {"unnamed"}
        [] OTHER -> {}

\* One character: a second "{" starts the segment again.
Scan(s, c) ==
  CASE c = Brace -> [open |-> TRUE, seg |-> <<>>,
                     bad |-> IF s.open THEN s.bad \cup {"nested"} ELSE s.bad]
    [] c = EndBrace /\ ~s.open -> [s EXCEPT !.bad = @ \cup {"unopened"}]
    [] c = EndBrace /\ s.open -> [open |-> FALSE, seg |-> <<>>, bad |-> s.bad \cup Problems(s.seg)]
    [] OTHER -> IF s.open THEN [s EXCEPT !.seg = Append(@, c)] ELSE s

\* The kinds of problems that are reported.
Malformed(href) ==
  LET after[i \in 0..Len(href)] ==
        IF i = 0 THEN [open |-> FALSE, seg |-> <<>>, bad |-> {}]
        ELSE Scan(after[i - 1], href[i])
      end == after[Len(href)]
  IN  IF end.open THEN end.bad \cup {"unclosed"} ELSE end.bad

-----------------------------------------------------------------------------
(* splitURITemplate.                                                        *)

\* The names of a query expression that are not empty, after those found before.
AskedIn(query, names) ==
  LET asked[i \in 0..Len(names)] ==
        IF i = 0 THEN query
        ELSE IF names[i] = <<>> THEN asked[i - 1] ELSE Append(asked[i - 1], names[i])
  IN  asked[Len(names)]

\* One round of the loop: what is left, up to the first "{" and the first "}"
\* after it; without both, it is path as it stands.
Segment(s) ==
  LET open == {k \in DOMAIN s.rest : s.rest[k] = Brace /\ \A j \in 1..(k - 1) : s.rest[j] # Brace}
      close == {k \in DOMAIN s.rest :
                  s.rest[k] = EndBrace /\ \E o \in open : o < k /\ \A j \in o..(k - 1) : s.rest[j] # EndBrace}
  IN  IF close = {} THEN [rest |-> <<>>, path |-> s.path \o s.rest, query |-> s.query]
      ELSE LET o == CHOOSE o \in open : TRUE
               c == CHOOSE c \in close : TRUE
               seg == SubSeq(s.rest, o + 1, c - 1)
               asks == seg # <<>> /\ Head(seg) \in QueryOperators
           IN  [rest |-> SubSeq(s.rest, c + 1, Len(s.rest)),
                path |-> s.path \o SubSeq(s.rest, 1, IF asks THEN o - 1 ELSE c),
                query |-> IF asks THEN AskedIn(s.query, SplitNames(Tail(seg))) ELSE s.query]

\* A round but the last takes two braces at least off what is left.
SplitTemplate(href) ==
  LET rounds == Len(href) \div 2 + 1
      after[i \in 0..rounds] ==
        IF i = 0 THEN [rest |-> href, path |-> <<>>, query |-> <<>>] ELSE Segment(after[i - 1])
      end == after[rounds]
  IN  [path |-> end.path, query |-> end.query]

\* strings.Contains(path, "{" + name + "}"): is name a variable of the path?
PathHas(path, name) ==
  LET expr == <<Brace>> \o name \o <<EndBrace>>
  IN  \E i \in 0..(Len(path) - Len(expr)) : SubSeq(path, i + 1, i + Len(expr)) = expr
-----------------------------------------------------------------------------
(* What the two are about: the expressions of a text, and the names in them. *)

\* The text between "{" at o and "}" at c is an expression.
Expression(h, o, c) ==
  /\ {o, c} \subseteq DOMAIN h /\ o < c
  /\ h[o] = Brace /\ h[c] = EndBrace
  /\ \A j \in (o + 1)..(c - 1) : h[j] \notin {Brace, EndBrace}

\* After i a name begins: after the "{" and its operator, and after each comma.
NameDue(h, o, i) ==
  \/ i = o
  \/ i = o + 1 /\ h[i] \in Operators
  \/ h[i] = Comma

NamesGiven(h, o, c) ==
  \A i \in o..(c - 1) : NameDue(h, o, i) => h[i + 1] \notin {Comma, EndBrace}

\* Each brace is one of an expression, in which no name is missing.
WellFormed(h) ==
  /\ \A o \in DOMAIN h : h[o] = Brace => \E c \in DOMAIN h : Expression(h, o, c)
  /\ \A c \in DOMAIN h : h[c] = EndBrace => \E o \in DOMAIN h : Expression(h, o, c)
  /\ \A o, c \in DOMAIN h : Expression(h, o, c) => NamesGiven(h, o, c)

QueryExpression(h, o, c) == Expression(h, o, c) /\ h[o + 1] \in QueryOperators

\* Is position i in a query expression, its braces included?
InQuery(h, i) == \E o \in 1..i, c \in i..Len(h) : QueryExpression(h, o, c)

\* The positions where the names of query expressions begin, and these names.
NameStarts(h) ==
  {i \in DOMAIN h : \E o, c \in DOMAIN h :
     QueryExpression(h, o, c) /\ i - 1 \in (o + 1)..(c - 1) /\ NameDue(h, o, i - 1)}

NameAt(h, i) ==
  LET end == CHOOSE c \in i..Len(h) :
               /\ h[c] \in {Comma, EndBrace}
               /\ \A j \in i..(c - 1) : h[j] \notin {Comma, EndBrace}
  IN  SubSeq(h, i, end - 1)

\* What stands at the positions S of 1..n, in their order.
Picked(what, S, n) ==
  LET picked[i \in 0..n] ==
        IF i = 0 THEN <<>>
        ELSE IF i \in S THEN Append(picked[i - 1], what[i]) ELSE picked[i - 1]
  IN  picked[n]

\* validateURITemplate reports the texts that are not well formed, and
\* splitURITemplate, which reports nothing, takes the others apart: the path is
\* what is outside of the query expressions, the query their names.
SplitsExactly(h) ==
  /\ Malformed(h) = {} <=> WellFormed(h)
  /\ WellFormed(h) =>
       /\ SplitTemplate(h).path = Picked(h, {i \in DOMAIN h : ~InQuery(h, i)}, Len(h))
       /\ SplitTemplate(h).query =
            Picked([i \in NameStarts(h) |-> NameAt(h, i)], NameStarts(h), Len(h))
=============================================================================
