---------------------------- MODULE MemberLines ----------------------------
(***************************************************************************)
(* Where Drafter gives up on an object, all the author wrote of it is its    *)
(* description.  objectSchema takes it apart line by line: a + Meta block of *)
(* constraints, a + Schema Patch block, then the members, nested by          *)
(* indentation, and the options of a One Of.  What is left is the prose.     *)
(*                                                                          *)
(* A text is a sequence of lines.  What is derived from it is a set of their *)
(* numbers, to be read in their order: N below are those still there.        *)
(***************************************************************************)
EXTENDS Naturals, Sequences

\* A line: "blank", "text", a "member", or a header; a member and the headers
\* begin with a list marker.  A member may be required, and of an object type
\* or none, as opposed to a scalar one.  In a line with a colon a + Meta block
\* finds a key and a value.
Line(kind, indent) ==
  [kind |-> kind, indent |-> indent, name |-> "", required |-> FALSE, object |-> TRUE,
   colon |-> FALSE]

Member(name, indent, required, object, colon) ==
  [kind |-> "member", indent |-> indent, name |-> name, required |-> required,
   object |-> object, colon |-> colon]

Kinds == {"blank", "text", "member", "meta", "patch", "oneof", "properties"}

LineType ==
  [kind : Kinds, indent : Nat, name : STRING, required : BOOLEAN, object : BOOLEAN,
   colon : BOOLEAN]

Descriptions == Seq(LineType)

Text(t, i) == t[i].kind # "blank"

\* Is line i of t in the block of a line that is indented by n?
Deeper(t, i, n) == t[i].kind = "blank" \/ t[i].indent > n

\* collectIndentedBlock: the lines that follow line i and are in its block.
Following(t, N, i) ==
  {j \in N : i < j /\ \A m \in N : i < m /\ m <= j => Deeper(t, m, t[i].indent)}

First(t, N, kind) ==
  {i \in N : t[i].kind = kind /\ \A j \in N : j < i => t[j].kind # kind}

FirstBlock(t, N, kind) == UNION {Following(t, N, i) : i \in First(t, N, kind)}

-----------------------------------------------------------------------------
(* Blocks of their own.                                                     *)

\* Slip: a block ends with its first blank line.
StripLineBlank(t, kind, s, i) ==
  CASE s.in /\ t[i].indent > s.indent -> s
    [] s.in /\ ~(t[i].indent > s.indent) -> [s EXCEPT !.in = FALSE, !.kept = @ \cup {i}]
    [] ~s.in /\ t[i].kind = kind -> [s EXCEPT !.in = TRUE, !.indent = t[i].indent]
    [] OTHER -> [s EXCEPT !.kept = @ \cup {i}]

\* The line that ends a block stays, even if it is a header.
StripLine(t, kind, s, i) ==
  CASE s.in /\ Deeper(t, i, s.indent) -> s
    [] s.in /\ ~Deeper(t, i, s.indent) -> [s EXCEPT !.in = FALSE, !.kept = @ \cup {i}]
    [] ~s.in /\ t[i].kind = kind -> [s EXCEPT !.in = TRUE, !.indent = t[i].indent]
    [] OTHER -> [s EXCEPT !.kept = @ \cup {i}]

\* proseFromCopyText and proseWithoutSchemaPatch: every block of the kind goes.
StripBlocks(t, N, kind) ==
  LET after[i \in 0..Len(t)] ==
        IF i = 0 THEN [in |-> FALSE, indent |-> 0, kept |-> {}]
        ELSE IF i \in N THEN StripLine(t, kind, after[i - 1], i) ELSE after[i - 1]
  IN  after[Len(t)].kept

\* findMetaInCopy and parseMetaText: the pairs of the first block.
MetaPairs(t, N) == {i \in FirstBlock(t, N, "meta") : t[i].colon}

\* findSchemaPatchInCopy: the body of the first block.
PatchBody(t, N) == {i \in FirstBlock(t, N, "patch") : Text(t, i)}

\* extractConstraintsFromDescription: the blocks are removed when they say
\* something; the patch is looked for in what the + Meta blocks have left.
Extract(t) ==
  LET meta == MetaPairs(t, DOMAIN t)
      rest == IF meta # {} THEN StripBlocks(t, DOMAIN t, "meta") ELSE DOMAIN t
      patch == PatchBody(t, rest)
  IN  [meta |-> meta, patch |-> patch,
       rest |-> IF patch # {} THEN StripBlocks(t, rest, "patch") ELSE rest]

-----------------------------------------------------------------------------
(* Members.                                                                 *)

HasPrefix(t, i) == t[i].kind \notin {"blank", "text"}

\* parseMemberLine: the two headers of a One Of are no members; the others are
\* members of those names when they come here.
IsMember(t, i) == t[i].kind \in {"member", "meta", "patch"}

Name(t, i) ==
  CASE t[i].kind = "meta" -> "Meta"
    [] t[i].kind = "patch" -> "Schema Patch"
    [] OTHER -> t[i].name

\* Slip: a blank line ends the block of a member.
CollectSubLinesBlank(t, N, i) ==
  {j \in N : i < j /\ \A m \in N : i < m /\ m <= j => t[m].indent > t[i].indent}

\* collectSubLines: the block of line i, without the blank lines at its end.
CollectSubLines(t, N, i) ==
  {j \in Following(t, N, i) : \E m \in Following(t, N, i) : j <= m /\ Text(t, m)}

\* An object's members: the lines its properties come from, no two of one name,
\* and those whose names were appended to "required".
NoMembers == [props |-> {}, required |-> {}]

Add(t, members, i) ==
  [props |-> {j \in members.props : Name(t, j) # Name(t, i)} \cup {i},
   required |-> IF t[i].required THEN members.required \cup {i} ELSE members.required]

AddAll(t, lines) ==
  LET after[i \in 0..Len(t)] ==
        IF i = 0 THEN NoMembers
        ELSE IF i \in lines THEN Add(t, after[i - 1], i) ELSE after[i - 1]
  IN  after[Len(t)]

\* recoverMembersNested: what is not indented as the first line with a list
\* marker is skipped, the lines of a member's block among it.
RecoverNested(t, N) ==
  AddAll(t, {i \in N : /\ IsMember(t, i)
                       /\ \E f \in N : /\ HasPrefix(t, f) /\ t[i].indent = t[f].indent
                                       /\ \A j \in N : j < f => ~HasPrefix(t, j)})

\* schemaForMemberWithSubs: only objects have members.  Among the lines of the
\* block that line i stands in, its own block is the same as among all of N.
MemberSchema(t, N, i) ==
  IF t[i].object THEN RecoverNested(t, CollectSubLines(t, N, i)) ELSE NoMembers

-----------------------------------------------------------------------------
(* The body of the object.                                                  *)

\* advanceOneOf: a Properties header closes the option that is open and opens
\* another; members before the first one are lost.  s.option is empty or holds
\* the option that is open.
AdvanceOneOf(t, s, i) ==
  IF t[i].kind = "properties"
  THEN [s EXCEPT !.option = {[header |-> i, lines |-> {}]}, !.blocks = @ \cup s.option]
  ELSE IF IsMember(t, i)
  THEN [s EXCEPT !.option = {[header |-> o.header, lines |-> o.lines \cup {i}] : o \in @}]
  ELSE s

\* processMemberLine: a patch, or a member, and its block is passed over.
ProcessMemberLine(t, N, s, i) ==
  CASE t[i].kind = "patch" ->
         [s EXCEPT !.inProse = FALSE, !.passed = @ \cup Following(t, N, i),
                   !.patch = @ \cup {j \in Following(t, N, i) : Text(t, j)}]
    [] t[i].kind # "patch" /\ IsMember(t, i) ->
         [s EXCEPT !.inProse = FALSE, !.passed = @ \cup CollectSubLines(t, N, i),
                   !.members = Add(t, @, i)]
    [] OTHER -> s

\* The indentation of the first header or member, in a set.
Top(t, s, i) == IF s.top = {} THEN {t[i].indent} ELSE s.top

\* A second One Of header forgets the option that is open.
RecoverLine(t, N, s, i) ==
  CASE i \in s.passed \/ t[i].kind = "blank" -> s
    [] i \notin s.passed /\ t[i].kind = "oneof" ->
         [s EXCEPT !.inProse = FALSE, !.inOneOf = TRUE, !.option = {}, !.top = Top(t, s, i)]
    [] i \notin s.passed /\ t[i].kind \notin {"blank", "oneof"} /\ s.inOneOf ->
         AdvanceOneOf(t, s, i)
    [] i \notin s.passed /\ t[i].kind # "oneof" /\ HasPrefix(t, i) /\ ~s.inOneOf ->
         LET here == [s EXCEPT !.top = Top(t, s, i)]
         IN  IF \E n \in here.top : t[i].indent > n THEN here
             ELSE ProcessMemberLine(t, N, here, i)
    [] OTHER -> IF s.inProse THEN [s EXCEPT !.prose = @ \cup {i}] ELSE s

\* recoverMembersFromDescription
Recover(t, N) ==
  LET after[i \in 0..Len(t)] ==
        IF i = 0
        THEN [passed |-> {}, top |-> {}, inProse |-> TRUE, inOneOf |-> FALSE, prose |-> {},
              members |-> NoMembers, option |-> {}, blocks |-> {}, patch |-> {}]
        ELSE IF i \in N THEN RecoverLine(t, N, after[i - 1], i) ELSE after[i - 1]
      end == after[Len(t)]
  IN  [end EXCEPT !.blocks = @ \cup end.option]

\* objectSchema, for an element that has no members.  nested is what each line
\* has for members where it is one itself; oneOfOptionSchema gives the members
\* of an option none.
ObjectSchema(t) ==
  LET x == Extract(t)
      r == Recover(t, x.rest)
  IN  [meta |-> x.meta, patch |-> x.patch \cup r.patch, prose |-> r.prose,
       members |-> r.members,
       nested |-> [i \in DOMAIN t |-> MemberSchema(t, x.rest, i)],
       oneOf |-> {[header |-> o.header, members |-> AddAll(t, o.lines)] : o \in r.blocks}]

-----------------------------------------------------------------------------
(* What the author wrote.                                                    *)

Lines(t, kind) == {i \in DOMAIN t : t[i].kind = kind}

\* The nearest of these lines above line i that is indented less than it.
Nearest(t, lines, i) ==
  {j \in lines :
     /\ j < i /\ t[j].indent < t[i].indent
     /\ \A m \in lines : j < m /\ m < i => t[m].indent >= t[i].indent}

\* The member a line is nested in, and the member or header it is nested in.
Parent(t, i) == Nearest(t, Lines(t, "member"), i)
Within(t, i) == Nearest(t, {j \in DOMAIN t : HasPrefix(t, j)}, i)

\* Of two members with one name the later one stays, and both are counted in
\* "required".
MembersAre(t, members, lines) ==
  /\ members.props =
       {i \in lines : \A j \in lines : Name(t, j) = Name(t, i) => j <= i}
  /\ members.required = {i \in lines : t[i].required}

\* The members of one object are indented alike, and below the first of them
\* there is no prose.
Tidy(t) ==
  /\ \A i \in DOMAIN t : t[i].kind \in {"member", "text", "blank"}
  /\ \A i, j \in Lines(t, "member") :
       Parent(t, i) = Parent(t, j) => t[i].indent = t[j].indent
  /\ \A i \in Lines(t, "text"), j \in Lines(t, "member") : i < j

\* Each member is in the object it stands under, and the prose above them is all
\* that stays.
SameOutline(t) ==
  LET s == ObjectSchema(t)
      Kids(parent) == {i \in Lines(t, "member") : Parent(t, i) = parent}
  IN  /\ MembersAre(t, s.members, Kids({}))
      /\ \A p \in Lines(t, "member") :
           MembersAre(t, s.nested[p], IF t[p].object THEN Kids({p}) ELSE {})
      /\ s.prose = Lines(t, "text")
      /\ s.oneOf = {} /\ s.patch = {} /\ s.meta = {}

\* A One Of whose options are Properties groups: every group is nested in the
\* One Of, every member below it in a group, and the One Of in no member.  What
\* else MSON allows there (a member that is an option, a One Of in another) and
\* what follows the One Of is not in this form.
OneOfGroups(t) ==
  /\ Lines(t, "meta") \cup Lines(t, "patch") = {}
  /\ \E o \in Lines(t, "oneof") :
       /\ Lines(t, "oneof") = {o}
       /\ \A h \in Lines(t, "properties") : Within(t, h) = {o}
       /\ \A i \in Lines(t, "member") :
            \/ i < o /\ t[i].indent >= t[o].indent
            \/ o < i /\ \E h \in Lines(t, "properties") : Within(t, i) = {h}

\* There is an option for each group, with the members nested in it.
SameOptions(t) ==
  LET s == ObjectSchema(t)
  IN  /\ {o.header : o \in s.oneOf} = Lines(t, "properties")
      /\ \A o \in s.oneOf :
           MembersAre(t, o.members, {i \in Lines(t, "member") : Within(t, i) = {o.header}})

\* The lines that the properties of the object come from, at every depth.
PropertyLines(t, s) ==
  LET reached[i \in 0..Len(t)] ==
        IF i = 0 THEN {}
        ELSE IF i \in s.members.props \/ \E p \in reached[i - 1] : i \in s.nested[p].props
        THEN reached[i - 1] \cup {i} ELSE reached[i - 1]
  IN  reached[Len(t)]

\* No line is put to two uses: what was read as a constraint or as part of a
\* patch is not shown as prose or taken for a property as well, and a property
\* of the object is not an option's.
UsedOnce(t) ==
  LET s == ObjectSchema(t)
      uses == <<s.meta, s.patch, s.prose, PropertyLines(t, s)>>
  IN  /\ \A i, j \in DOMAIN uses : i < j => uses[i] \cap uses[j] = {}
      /\ \A o \in s.oneOf : \A i \in DOMAIN uses : uses[i] \cap o.members.props = {}
      /\ \A o, q \in s.oneOf : o # q => o.members.props \cap q.members.props = {}
=============================================================================
