---------------------------- MODULE ResourceWalk ----------------------------
(***************************************************************************)
(* walkResources and addResource: one pass over the categories, resources   *)
(* and transitions of the AST that fills doc.Paths, doc.Webhooks and the    *)
(* tag registry; then checkDuplicateOperationIDs.  The document is not      *)
(* given in advance: each step takes whatever element may come next.        *)
(*                                                                          *)
(* The content of an operation (MediaTypes), its security (Security) and    *)
(* the prose and Meta text around it (MetaText) are left out.               *)
(***************************************************************************)
EXTENDS Naturals, Sequences, FiniteSets, UriTemplate

CONSTANTS
  Groups,       \* titles of resource groups
  Hooks,        \* those named in WEBHOOK_GROUPS or of class webhook
  Targets,      \* OAS versions the document may be written for
  Resources,    \* what a resource element may be; an href is a text of UriTemplate
  Actions,      \* what a transition element may be
  None,         \* no title, no place, no method
  MaxElements   \* bound: elements of a document

\* The verbs that isStandardHTTPMethod accepts, and those that the fields of
\* oas.PathItem and SetOperation know.
Accepted == {"get", "put", "post", "delete", "patch", "options", "head", "trace"}
\* Slip: SetOperation has no case for PUT.
SlotsNoPut == {"get", "post", "delete", "patch", "options", "head"}
Slots == {"get", "put", "post", "delete", "patch", "options", "head"}

\* A text, and a declared parameter with the prefix that parseLocationPrefix
\* knows, or none.
Text == Seq(STRING)
Declared == [name : Text, loc : {"", "header", "cookie"}]

ASSUME ResourcesAssumption ==
  Resources \subseteq [href : Text, params : Seq(Declared), titled : BOOLEAN]

ASSUME ActionsAssumption ==
  \A a \in Actions :
    /\ DOMAIN a = {"method", "title", "id", "tags", "append", "headers", "params"}
    /\ a.headers \in Seq(Text)
    /\ a.params \in Seq(Declared)

ASSUME NoneAssumption ==
  /\ None \notin Hooks
  /\ \A r \in Resources : \A scope \in {"paths", "webhooks"} :
       None # <<scope, SplitTemplate(r.href).path>>

VARIABLES
  target,   \* doc.OpenAPI
  stack,    \* the enclosing categories, each with its walkCtx
  current,  \* the resource being walked, or None
  doc,      \* doc[<<scope, path>>]: the path items
  order,    \* tagRegistry.order
  parents,  \* tagRegistry.parents
  diags,    \* diagnostics, as <<code, subject>>
  elements, \* elements so far; it numbers resources and actions
  over,     \* the walk is over
  taken     \* history: the actions walked, with where they belong

walkVars == <<target, stack, current, doc, order, parents, diags, elements, over>>
vars == <<walkVars, taken>>

Root == [tag |-> None, parent |-> None, hook |-> FALSE]

Ctx == stack[Len(stack)]

Init ==
  /\ target \in Targets
  /\ stack = <<Root>>
  /\ current = None
  /\ doc = <<>>
  /\ order = <<>>
  /\ parents = <<>>
  /\ diags = {}
  /\ elements = 0
  /\ over = FALSE
  /\ taken = {}

Take == ~over /\ elements < MaxElements /\ elements' = elements + 1

-----------------------------------------------------------------------------
(* walkResources.                                                           *)

\* Slip: a group asks only its own title whether it is a webhook group.
EnterCategoryAlone(title) ==
  /\ Take
  /\ current = None
  /\ stack' = Append(stack,
       IF title = None THEN Ctx ELSE [tag |-> title, parent |-> Ctx.tag, hook |-> title \in Hooks])
  /\ UNCHANGED <<current, doc, order, parents, diags, over, taken>>

\* A titled resourceGroup sets the tag; any other category inherits it all.
EnterCategory(title) ==
  /\ Take
  /\ current = None
  /\ stack' = Append(stack,
       IF title = None THEN Ctx
       ELSE [tag |-> title, parent |-> Ctx.tag, hook |-> Ctx.hook \/ title \in Hooks])
  /\ UNCHANGED <<current, doc, order, parents, diags, over, taken>>

LeaveCategory ==
  /\ current = None
  /\ Len(stack) > 1
  /\ stack' = SubSeq(stack, 1, Len(stack) - 1)
  /\ UNCHANGED <<current, doc, order, parents, diags, elements, over, taken>>

\* recordWithSummary: a group becomes a tag when it has a resource, and keeps
\* the parent it had then.
Seen(tag) == \E i \in DOMAIN order : order[i] = tag

Record(tag, parent) ==
  IF tag = None \/ Seen(tag) THEN UNCHANGED <<order, parents>>
  ELSE /\ order' = Append(order, tag)
       /\ parents' = IF parent = None THEN parents
                     ELSE [t \in DOMAIN parents \cup {tag} |->
                             IF t = tag THEN parent ELSE parents[t]]

-----------------------------------------------------------------------------
(* addResource.                                                             *)

\* paramsFromHrefVariables: the prefix wins; a name that is not in the path's
\* template is a query parameter; the rest takes the caller's default.
Located(p, path, default) ==
  [name |-> p.name, owner |-> elements + 1,
   place |-> IF p.loc # "" THEN p.loc
             ELSE IF ~PathHas(path, p.name) THEN "query" ELSE default]

\* Slip: a parameter is appended whatever is there.
AddAlways(ps, p) == Append(ps, p)

\* appendUniqueParam: the first parameter with a name and a place stays.
AddUnique(ps, p) ==
  IF \E i \in DOMAIN ps : ps[i].name = p.name /\ ps[i].place = p.place
  THEN ps ELSE Append(ps, p)

AddAll(ps, new) ==
  LET added[i \in 0..Len(new)] == IF i = 0 THEN ps ELSE AddUnique(added[i - 1], new[i])
  IN  added[Len(new)]

\* The parameters at some positions, in their order.
Chosen(ps, positions) ==
  LET kept[i \in 0..Len(ps)] ==
        IF i = 0 THEN <<>>
        ELSE IF i \in positions THEN Append(kept[i - 1], ps[i]) ELSE kept[i - 1]
  IN  kept[Len(ps)]

\* Slip: query parameters are shared through the path item as well.
InPathOrQuery(ps) == {i \in DOMAIN ps : ps[i].place \in {"path", "query"}}

InPath(ps) == {i \in DOMAIN ps : ps[i].place = "path"}
NotInPath(ps) == {i \in DOMAIN ps : ps[i].place # "path"}

WantHooks == target # "3.0"

Scope == IF Ctx.hook /\ WantHooks THEN "webhooks" ELSE "paths"

NewItem == [level |-> <<>>, ops |-> <<>>]

Item(at) == IF at \in DOMAIN doc THEN doc[at] ELSE NewItem

PutItem(at, item) == doc' = [a \in DOMAIN doc \cup {at} |-> IF a = at THEN item ELSE doc[a]]

\* E002, before splitURITemplate swallows what is malformed.
CheckHref(r) ==
  diags' = IF Malformed(r.href) = {} THEN diags ELSE diags \cup {<<"E002", elements + 1>>}

\* A resource of which no path is left is dropped, and its actions with it.
SkipResource(r) ==
  /\ Take
  /\ current = None
  /\ SplitTemplate(r.href).path = <<>>
  /\ Record(Ctx.tag, Ctx.parent)
  /\ CheckHref(r)
  /\ current' = [at |-> None, href |-> r.href, number |-> elements + 1, titled |-> r.titled]
  /\ UNCHANGED <<stack, doc, over, taken>>

\* Path parameters go to the path item, which resources share; the others,
\* and a stub for each undeclared name of {?...}, stay with the resource.
EnterResource(r) ==
  /\ Take
  /\ current = None
  /\ SplitTemplate(r.href).path # <<>>
  /\ Record(Ctx.tag, Ctx.parent)
  /\ CheckHref(r)
  /\ LET split == SplitTemplate(r.href)
         own == [i \in DOMAIN r.params |-> Located(r.params[i], split.path, "path")]
         stubs == [i \in DOMAIN split.query |->
                     [name |-> split.query[i], place |-> "query", owner |-> elements + 1]]
         declared == {own[i].name : i \in {i \in DOMAIN own : own[i].place = "query"}}
         undeclared == {i \in DOMAIN stubs : stubs[i].name \notin declared}
         at == <<Scope, split.path>>
     IN  /\ PutItem(at, [Item(at) EXCEPT !.level = AddAll(@, Chosen(own, InPath(own)))])
         /\ current' = [at |-> at, href |-> r.href, number |-> elements + 1, titled |-> r.titled,
                        params |-> Chosen(own, NotInPath(own)) \o Chosen(stubs, undeclared)]
  /\ UNCHANGED <<stack, over, taken>>

\* applyMetaToOperation: the tags of + Meta replace the group's, or, when one
\* of them had a "+", follow it.
OpTags(a) ==
  LET other(t) == t # Ctx.tag
  IN  IF a.tags = <<>> THEN IF Ctx.tag = None THEN <<>> ELSE <<Ctx.tag>>
      ELSE IF a.append /\ Ctx.tag # None THEN <<Ctx.tag>> \o SelectSeq(a.tags, other)
      ELSE a.tags

\* requestHeaderParams, over all the requests of the action.
HeaderParams(a) ==
  [i \in DOMAIN a.headers |->
     [name |-> a.headers[i], place |-> "header", owner |-> elements + 1]]

\* One iteration of addResource's last loop: the headers of the action's
\* requests come first (operationFromTransition), then its own parameters,
\* then those of the resource.
Operation(a) ==
  LET own == [i \in DOMAIN a.params |-> Located(a.params[i], current.at[2], "query")]
  IN  [number |-> elements + 1, owner |-> current.number,
       id |-> IF a.id # None THEN a.id ELSE a.title,
       tags |-> OpTags(a),
       params |-> AddAll(<<>>, HeaderParams(a) \o own \o current.params)]

\* The action is remembered as the author wrote it, under its resource.
TakeAction(a) ==
  /\ Take
  /\ current # None
  /\ taken' = taken \cup {[number |-> elements + 1, at |-> current.at, href |-> current.href,
                           of |-> current.number, method |-> a.method,
                           id |-> IF a.id # None THEN a.id ELSE a.title, group |-> Ctx.tag,
                           within |-> {stack[i].tag : i \in DOMAIN stack}]}

SkipAction(a) ==
  /\ TakeAction(a)
  /\ current.at = None
  /\ UNCHANGED <<stack, current, doc, order, parents, diags, over>>

AddAction(a) ==
  /\ TakeAction(a)
  /\ current.at # None
  /\ LET ops == Item(current.at).ops
     IN  IF a.method \in Slots
         THEN PutItem(current.at,
                [Item(current.at) EXCEPT !.ops = [m \in DOMAIN ops \cup {a.method} |->
                   IF m = a.method THEN Operation(a) ELSE ops[m]]])
         ELSE UNCHANGED doc
  /\ diags' = IF a.method # None /\ a.method \notin Accepted
              THEN diags \cup {<<"E001", elements + 1>>} ELSE diags
  /\ UNCHANGED <<stack, current, order, parents, over>>

\* W006 counts the transitions of an untitled resource before they are walked.
LeaveResource ==
  /\ current # None
  /\ current' = None
  /\ LET actions == {t \in taken : t.number > current.number}
     IN  diags' = IF current.at # None /\ ~current.titled /\ \E t \in actions : actions = {t} /\ t.method # None
                  THEN diags \cup {<<"W006", current.number>>} ELSE diags
  /\ UNCHANGED <<stack, doc, order, parents, elements, over, taken>>

-----------------------------------------------------------------------------
(* checkDuplicateOperationIDs, on what the document holds at the end.       *)

\* Slip: webhooks are not looked at.
SitesUnderPaths(id) ==
  {s \in (DOMAIN doc) \X Slots :
     s[1][1] = "paths" /\ s[2] \in DOMAIN doc[s[1]].ops /\ doc[s[1]].ops[s[2]].id = id}

Sites(id) ==
  {s \in (DOMAIN doc) \X Slots :
     s[2] \in DOMAIN doc[s[1]].ops /\ doc[s[1]].ops[s[2]].id = id}

\* checkDuplicateOperationIDs, at the end of the walk: diag.Warn with E005,
\* which does not know of --strict.
Finish ==
  /\ ~over
  /\ current = None
  /\ Len(stack) = 1
  /\ over' = TRUE
  /\ diags' = diags \cup {<<"E005", id>> : id \in {id \in {t.id : t \in taken} \ {None} :
                                               Cardinality(Sites(id)) > 1}}
  /\ UNCHANGED <<stack, current, doc, order, parents, elements, taken>>

Done == over /\ UNCHANGED vars

Next ==
  /\ \/ \E title \in Groups \cup {None} : EnterCategory(title)
     \/ LeaveCategory
     \/ \E r \in Resources : SkipResource(r) \/ EnterResource(r)
     \/ \E a \in Actions : SkipAction(a) \/ AddAction(a)
     \/ LeaveResource \/ Finish \/ Done
  /\ target' = target

Spec == Init /\ [][Next]_vars

-----------------------------------------------------------------------------
(* Properties.                                                               *)

\* Every slot holds the last action written for it, and nothing but actions that
\* were written; one that has no slot was reported with E001, so that "the
\* author learns why" (src/internal/convert/convert.go:1152).  TRACE alone has
\* neither.  A resource that is dropped was reported with E002, unless its URI
\* is well formed and nothing but a query, or it has none.
NoActionLost ==
  /\ \A at \in DOMAIN doc \cup ({t.at : t \in taken} \ {None}), m \in Slots :
       LET written == {t \in taken : t.at = at /\ t.method = m}
           held == IF at \in DOMAIN doc THEN DOMAIN doc[at].ops ELSE {}
       IN  IF written = {} THEN m \notin held
           ELSE m \in held /\ doc[at].ops[m].number = (CHOOSE t \in written :
                                 \A u \in written : u.number <= t.number).number
  /\ \A t \in taken :
       t.at = None => \/ <<"E002", t.of>> \in diags
                      \/ SplitTemplate(t.href).query # <<>>
                      \/ t.href = <<>>
  /\ \A t \in taken :
       t.at = None \/ t.method \in Slots \cup {None, "trace"} \/ <<"E001", t.number>> \in diags

\* The names that a template has in {?...}.
Asked(href) ==
  LET query == SplitTemplate(href).query IN {query[i] : i \in DOMAIN query}

\* Two resources may share a path.  Only path parameters are shared through it;
\* a query, header or cookie parameter stays with the operations of the resource
\* that declared it, or with the action (specs/apib+-converter.md section 5).
\* A name of the path's template is a query parameter only if an action declares
\* it or the resource's own template asks for it once more, in {?...}.
ParamsStayHome ==
  /\ \A at \in DOMAIN doc : \A i \in DOMAIN doc[at].level : doc[at].level[i].place = "path"
  /\ \A at \in DOMAIN doc : \A m \in DOMAIN doc[at].ops :
       LET op == doc[at].ops[m]
       IN  \A i \in DOMAIN op.params :
             LET p == op.params[i]
             IN  /\ p.owner \in {op.owner, op.number}
                 /\ PathHas(at[2], p.name) /\ p.place = "query" =>
                      \/ p.owner = op.number
                      \/ \E t \in taken : t.of = op.owner /\ p.name \in Asked(t.href)

\* Once promotePathParams has put them together, no operation has two
\* parameters of one name in one place, whichever resources, actions and
\* templates declared them.
ParamsUnique ==
  \A at \in DOMAIN doc : \A m \in DOMAIN doc[at].ops :
    LET all == doc[at].ops[m].params \o doc[at].level
    IN  \A i, k \in DOMAIN all :
          all[i].name = all[k].name /\ all[i].place = all[k].place => i = k

\* An action is under doc.Webhooks exactly when some group around it, at any
\* depth, is a webhook group, and the target knows webhooks; the innermost
\* titled group is a tag of the document.
GroupsObeyed ==
  \A t \in taken :
    /\ t.at # None => (t.at[1] = "webhooks" <=> WantHooks /\ t.within \cap Hooks # {})
    /\ t.group # None => Seen(t.group)

\* The ids reported as duplicates.  The code always reports E005, with severity
\* warning; the documents have E005 under --strict and W005 otherwise, and
\* which of them it is is left open here.
ReportedTwice(id) == \E c \in {"E005", "W005"} : <<c, id>> \in diags

\* Under whichever code, the ids reported are exactly those that two of the
\* document's operations have, be they under paths or webhooks, operations
\* that were overwritten left aside (checkDuplicateOperationIDs).
DuplicatesReported ==
  LET Stays(t) == \A u \in taken : u.at = t.at /\ u.method = t.method => u.number <= t.number
      final == {t \in taken : t.at # None /\ t.method \in Slots /\ Stays(t)}
  IN  over => \A id \in {t.id : t \in taken} \ {None} :
        ReportedTwice(id) <=> \E t, u \in final : t # u /\ t.id = id /\ u.id = id
=============================================================================
