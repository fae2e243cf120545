---------------------------- MODULE MCNormalize ----------------------------
(* Versions that are completed, known or let through; schemas in a chain,   *)
(* linked by each kind of keyword, one of them not walked; and schemas that  *)
(* are shared, linked in a circle, or roots more than once.                  *)
EXTENDS Normalize

MCRequested ==
  {Version("", ""), Version("3.1", ""), Version("3.2", ".0"), Version("3.0", ".1"), Version("2.0", "")}

SomeLinks == {"items", "properties", "oneOf", "additionalProperties", "not"}

\* What ends a chain: scalars with an example, an enumeration or a constant,
\* with a type or without, and references, which have no value of their own.
Leaf ==
  {[Blank EXCEPT !.type = t, !.nullable = n, !.example = e, !.const = c, !.enum = m] :
     t \in {"", "string"}, n, e \in BOOLEAN, c \in {{}, {"a"}}, m \in {{}, {"a"}, Literals}} \cup
  {[BareRef EXCEPT !.nullable = n, !.doc = d, !.const = c] :
     n, d \in BOOLEAN, c \in {{}, {"a"}}}

Link(link, node) == [link |-> link, node |-> node]

Object(nullable, kids) ==
  [Blank EXCEPT !.type = "object", !.nullable = nullable, !.kids = kids]

Chains ==
  {[roots |-> {1}, heap |-> <<Object(FALSE, {Link(outer, 2)}), Object(n, {Link(inner, 3)}), leaf>>] :
     outer, inner \in SomeLinks, n \in BOOLEAN, leaf \in Leaf}

\* A choice of null and a leaf, which links back or holds another reference.
OneOfNull == [Blank EXCEPT !.doc = TRUE, !.kids = {Link("oneOf", 2), Link("oneOf", 3)}]

Knots ==
  {[roots |-> roots,
    heap |-> <<OneOfNull, first,
               [leaf EXCEPT !.examples = more, !.kids = {Link("additionalProperties", back)}],
               BareRef>>] :
     roots \in {{1}, {1, 3}, {}}, first \in {NullSchema, Object(TRUE, {Link("items", 3)})},
     leaf \in Leaf, more \in BOOLEAN, back \in {1, 3, 4}}

MCDocuments == Chains \cup Knots
=============================================================================
