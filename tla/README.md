# Specification of apib-to-oas

`apib-to-oas` converts API Blueprint documents (with the Blueprint+ extensions
of `src/specs/apib+.md`) to OpenAPI 3.0, 3.1 or 3.2. It runs the vendored C++
parser *drafter* as a child process, decodes the Refract AST that drafter
prints, and rewrites it in a series of passes over one in-memory document,
which is then written as YAML or JSON.

This directory holds TLA+ models of that program, TLC configurations that check
them on small instances, and TLAPS proofs of the properties that matter most.

## 1. The system

| Component | Code | State it keeps | Operations | Talks to |
|---|---|---|---|---|
| Command line | `internal/cli`, `cmd/apib-to-oas` | flags, the exit code, the output file | `runConvert`, `runLint`, signal handling in `main` | drafter cache, drafter, converter, output file |
| Drafter cache | `internal/drafter` | `once`, `cached`, `errCache`; the user cache directory, shared by processes | `New`, `materialize`, `Parse` | file system, drafter process |
| Pipeline | `convert.go` | one `oas.Document`, changed in place by each pass | `RefractToOASWithOptions` | all passes below |
| Resource walk | `convert.go` | `doc.Paths`, `doc.Webhooks`, `tagRegistry`, `walkCtx` copied down a recursion | `walkResources`, `addResource`, `checkDuplicateOperationIDs` | diagnostics, tags |
| Payloads | `convert.go` | media types, example counters, responses of one action | `operationFromTransition`, `requestBodyFromElement`, `applyBody`, `addExample` | schema resolver |
| `+ Meta` blocks | `bplus.go` | text of copy elements | `findMetaInCopy`, `proseFromCopyText`, `parseMetaText`, `mergeMetaBlocks` | walk |
| URI templates | `convert.go` | none | `validateURITemplate`, `splitURITemplate` | resource walk |
| Document metadata | `convert.go`, `bplus.go` | `doc.Info`, `doc.Servers`, extensions | `parseServersMetadata`, `applyDocumentExtensions` and the other readers of entries | diagnostics |
| Member recovery | `mson.go`, `bplus.go` | the description of an object, read line by line | `extractConstraintsFromDescription`, `recoverMembersFromDescription` | named types |
| Named types | `mson.go`, `refract.go` | registry, `seenMissing` | `collectDataStructures`, `schemaForVisited`, `populateComponentsFromRegistry` | walk, security schemes |
| Security | `security.go`, `security_mson.go`, `bplus.go` | `doc.Security`, `op.Security`, `op.SecurityCleared`, `components.securitySchemes` | metadata, `+ Meta`, `extractMSONSecuritySchemes`, `applySecurity`, `checkUndeclaredSecuritySchemes` | walk, output |
| Parameter sharing | `convert.go` | `*Parameter` pointers, `AnchorID`, `AliasID` | `promotePathParams`, `assignAnchors` | output |
| Normalisers | `convert.go` | the graph of schemas | `walkSchemas` with four rewriting functions | output |
| Output | `marshal.go`, `oas.go` | none | `Marshal`, the `MarshalJSON` methods | command line |
| Diagnostics | `diagnostics.go` | a list | `Warn`, `Error`, `HasErrors` | command line |

Three kinds of behaviour are hard here.

*Processes and the file system.* Several runs start at the same time and share
the cache directory and sometimes an output file; a run can be killed between
two system calls; any call may fail; goroutines of a program that embeds the
package wait for one another in `sync.Once`; a signal may come at any time.

*Passes over shared, mutable data.* The converter is sequential, but it is a
chain of some twenty passes that hand facts to one another through the
document: pointers shared on purpose, nil against empty, ids given out in one
order and written in another, sets of things already reported. Go's maps make
the order of several loops random. What goes wrong here takes two or three
passes, so unit tests of one pass do not see it.

*Text taken apart and put together.* Drafter gives up on some of what an author
writes and hands it over as text; the output is streamed out as text. Several
scanners with rules of their own read the same lines, and what one has
understood the next must not see.

`PROJECT.json` lists the hazards of each kind at their lines ("hazards"),
each with the properties that would catch it.

## 2. The modules

Each module is one component. Constants are the sets of names that occur and the
bounds; every action is one operation, loop iteration or system call of the
code, and its comment names it. Definitions keep the code's order and guards;
`PROJECT.json` ("map") gives the lines each one stands for.

Definitions whose comment starts with **Slip** are not part of any specification. Each
is the definition that follows it with one plausible mistake: a dropped guard,
a swapped order, a forgotten reset. Putting it in place of its neighbour makes
one of the properties false; that is how we know that the property can fail.

### DrafterCache, which implements ToolInstall

`ToolInstall` is what package drafter promises: a machine has a whole drafter
binary or none, `New` answers with a path only when it has one, and executing the
path works. `DrafterCache` is how the code does it. `files` is the cache
directory (for each name: absent, empty, partly or wholly written, and the
execute bit), `pc[p]` is the next system call of `materialize` in process `p`,
`tmp[p]` its temporary file, `cache[p]` the package variables, `caller[p][c]`
a goroutine. One action per system call (`MkdirAll`, `StatFound`/`StatMissing`,
`CreateTemp`, `CopySome`/`CopyRest`, `Chmod`, `Close`, `Rename`), and the same
calls failing (`StatFails`, `CopyFails`, `CallFails`): the code removes the
temporary file only after a failed copy, and treats every failure of `Stat` as
"not there". `Kill` ends a process anywhere. A slot of `Procs` is reused, so the
number of processes over time is bounded only by faults.

Assumed of the operating system: a rename is atomic, `CreateTemp` chooses a name
that does not exist. `AtomicInstall` is the refinement
(`installed <- Present(Dest)`, `answer <- caller`).

### CliRun

The runs of `convert` and `lint`, each a process with its job (flags, and what
its document makes drafter and the converter say). `pc` goes through
`runConvert` in order; each early return is an `Exit` with the code that `main`
passes to the operating system. `heard[r]` is what `ExtractAnnotations`, and after
it `Convert` (`RefractToOASWithOptions` with its buffer), have told a run, `shown[r]`
what `printAnnotations` wrote of it in `CheckAnnotations` and `CheckDiagnostics`: a
diagnostic is who says it and how severe it is. The module instantiates `ToolInstall`, not
`DrafterCache`: that is what the refinement is for. Drafter is an environment:
it answers, rejects the document with its own exit status, crashes, or stays
silent for ever. `os.WriteFile` is a truncation followed by writes in place at
the process's own offset, so that two runs may interleave in one file. A signal
cancels a context which only `Parse` looks at.

### ParamSharing

`promotePathParams` copies the path item's parameter pointers into its
operations; `assignAnchors` counts pointers, then goes through the operations
again and gives a pointer it meets for the first time an anchor, and turns each
later one into an alias copy. `count`, `anchor` and `idx` are the code's maps
and counter; `at` is the position of its loops, `unvisited` the paths that
`range doc.Paths` has still to yield, in any order. `Rendering` is
`Parameter.MarshalJSON`, `EmitOrder` the order of the fields of `PathItem`.

### MediaTypes

One action's requests and responses, one payload after the other, as drafter
emits one transaction per response. `media`, `counts` and `resp` are the code's
maps. A schema is abstracted to where it comes from (`Sources`), a body to a
model value. `UniqueName` and `WithExample` are the naming of examples with its
move from `example` to `examples`.

### Security

The passes that decide who may call an operation, in their order, `pass` being
the next one: `SECURITY:`, the `+ Meta` blocks, the `SecuritySchemes` type, the
sidecar's default, its overrides (over `doc.Paths` only), W007. `Written` is what
`Operation.MarshalJSON` emits, `Effective` what a reader of the document makes
of it: an operation without `security` inherits the document's.

### ResourceWalk

`walkResources` and `addResource`. The document is not fixed in advance: a step
enters a category, leaves one, enters a resource, adds an action; so all
documents up to `MaxElements` elements are covered. `stack` holds the `walkCtx`
copies of the recursion. A resource comes with its href, a text that
`UriTemplate` validates (`CheckHref`) and divides into the path and the query
names of `EnterResource`; where nothing is left of the path, `SkipResource` and
`SkipAction` drop it with its actions, as `addResource` does. `taken` is a history variable that only properties and
W006 (which counts the transitions of the resource being left) read.

### MetaText

Two scanners read each copy element line by line: `findMetaInCopy` wants the
`+ Meta` block, `proseFromCopyText` the rest. They are run in step; they have no
common state. `EndCopy` is `extractMetaFromCopyChildren`: it parses the block,
merges it, and marks a copy as consumed if it held nothing else. A line is its
kind, its indentation and the key of a pair.

### NamedTypes

The registry is collected definition by definition (a later one of the same
name replaces the earlier), the operations' elements are resolved, then
`components.schemas` is filled in any order. `seen` is `seenMissing`, shared by
both. An element is an object, an array or of a named type; what it `holds` are
types at their `Places`: a member, a member of an option of One Of, a sample of
an array, a line of a description. `ObjectSchema`, `ArraySchema` and `Named` are the
branches of the resolver, `LookedUp` the values each asks the registry for, in
order, `Visited` their types, and `Reports` the loop that says which are missing.

### Normalize

Schemas are nodes of a heap, linked by the keywords that hold subschemas, in any
way: a document is any graph of them and the nodes that its parameters, contents
and components name, shared schemas and cycles included. A pass is a walk that
rewrites the schema it visits in place and goes on to the schemas linked by the
result so a pass also visits what it created. A
version is the three characters that choose its passes (`strings.HasPrefix`) and
what follows them.

### Texts, and the algorithms it feeds

Seven parts of the converter are functions of a text. Each is a module of
operators, and `Texts` is the author who writes for them: a state is a text of
one `genre`, a step adds a symbol of that genre's alphabet (or puts a JSON value in
a container), so every text up to `Longest` symbols is a state. The properties
compare each function with a definition that does not scan.

`Texts` has the genres that are proved about, hrefs, descriptions and metadata,
and no recursive operators. `Values` extends it by what needs them: scalars and
JSON values, their YAML and their schemas. One run, of `MCTexts`, checks both.

* `UriTemplate`: `Malformed` is `validateURITemplate`, a loop over characters
  with the code's two variables; `SplitTemplate` is the loop of
  `splitURITemplate` over what is left of the text. Both loops are recursive
  functions, so that `ResourceWalkProofs` can reason about them. `SplitsExactly`
  says what the two are for without scanning: `WellFormed` asks that each brace is
  one of an expression and that no name is missing in one, `InQuery` which
  positions belong to a query expression, `NameStarts` and `NameAt` which names
  begin where; `Picked` puts together what stands at some positions. `ResourceWalk`
  and `Texts` extend this module.
* `YamlOutput`: the emitter of `marshal.go`, function by function, from JSON
  values to characters. `YamlReader` belongs to the properties: it reads the part
  of YAML that is written, by the rules of YAML 1.2 for indentation and plain
  scalars, and types a scalar by its core schema (`CoreWords`, `Decimal`,
  `OtherNumber`), with words and numbers of its own. It is not translated from the
  code.
* `Inference`: `inferSchemaFromExample`.
* `MemberLines`: an object's description as `objectSchema` takes it apart, five
  scanners one after the other: `MetaPairs` and `StripBlocks`
  (`findMetaInCopy`, `proseFromCopyText`), the same for Schema Patch, then
  `Recover`, which is the loop of `recoverMembersFromDescription` with its state
  as a record, and `RecoverNested` for the lines below a member. The code hands
  shorter and shorter lists of lines from one scanner to the next; here they are
  sets of the numbers of lines, read in their order, so that a property can ask what
  became of each line. Each loop is a recursive function whose step is an
  operator of its own (`StripLine`, `Add`, `RecoverLine`), and the look-aheads
  (`Following`, `CollectSubLines`) are the lines they would stop at. `Tidy` and
  `Parent`, `OneOfGroups` and `Within`, and `UsedOnce` say what the author meant
  without scanning, by indentation alone.
* `Metadata`: who reads which entry. `Document` holds, for each part, the numbers
  of the entries it was filled from; `First` and `Latest` are the loops that look
  for an entry from the front and from the back.

## 3. What the runs check

Runs that must pass:

| Run | Bounds | Why they are enough | What it shows |
|---|---|---|---|
| `DrafterCache` | 2 processes x 2 goroutines, 3 temporary names, 2 faults | two writers and two waiters are what races need; three names leave one for an extraction when both faults have left a file | the final path never holds a bad file; callers see an atomic installation; temporary files left behind are at most the faults; every waiting caller is answered |
| `ParamSharing` | 2 paths, GET, POST, HEAD, up to 2 path parameters and a query parameter under one path | sharing needs two operations, mixing two paths, aliases of several parameters two of them | sharing changes the meaning of no operation, and every alias follows its anchor |
| `CliRun` | 1 process with every combination of flags and diagnostics; 2 processes with one file and outputs of 1 or 2 parts | nothing is shared but the binary and the file; overwriting needs outputs of different lengths | exit codes, messages and output agree; signals end runs; an incomplete file has a failed, killed or contending run behind it |
| `MediaTypes` | 1 status, 1 type, 3 bodies, 3 payloads | a clash of names needs the example to move and two titles to meet | no example is lost or doubled; a schema is inferred only where one was missing |
| `Security` | 2 operations, 2 schemes, all sources | precedence is pairwise between sources | the most specific source decides, with the exceptions below |
| `ResourceWalk` | 6 elements, 2 groups, 1 path, hrefs that are malformed or nothing but a query, 5 actions, each with a method, targets 3.0 and 3.1 | two resources of one path with two actions each, in a group; 3.2 differs from 3.1 only in what is written for tags; an action without a method is left to the theorems | what becomes of each action, parameter, group and duplicate id, and that a dropped resource is reported |
| `MetaText` | 3 lines over 2 indentations, 2 copies, 2 keys | header, body, line after it | the two scanners never overlap; with one header they lose nothing |
| `NamedTypes` | 2 types and the reserved one, 2 definitions, 1 reference, up to 2 values in an element | a definition, what it refers to, and what refers to it, from each place where a reference may stand | references resolve; a missing type is reported once |
| `Normalize` | chains of three schemas with every pair of keywords, and knots of four: shared, in a cycle, named by the document more than once or not at all; five requested versions, one of them let through | a rewritten schema below a rewritten schema, and one that is met again from another side | target form reached, no reference lost or doubled, meaning kept |
| `Texts` | hrefs, members and options of up to 5 symbols (hrefs and options also after a beginning), scalars and blocks 4, each word that the emitter or YAML's core schema knows, metadata 3 entries, JSON values 3 levels with a sibling at each | two expressions; a number with sign, dot, exponent or base; three levels of members; a header with its block and what follows it, before and beside it; two entries for one part and a third in between | see below |

The run `Texts` asks seven questions, four in module `Texts` and three in `Values`. `TemplatesSplitExactly`: what validates is divided
without losing a character, what does not is reported. `YamlReadsBack`: a JSON
value, however nested, is read back from its YAML. `ScalarsKeepType`: a text is
read back as a text, as a key and as a value, but for the numbers in `LeftPlain`, which
the emitter does not know. `InferredAccepts`: an example
conforms to the schema inferred from it. `OutlineRecovered`: the members of
a tidy description are nested as they are indented, and where a One Of consists of
Properties groups, each group is an option with its own members; of a One Of with other
options, or with lines after it, nothing is promised (see the divergences).
`LinesUsedOnce`: no line of a description is put to two uses. `MetadataRouted`:
each entry is in one part of the document, or another that says the same is there
in its place.

Two runs end in a counterexample, each about one sentence of the repository that
the code does not keep ("findings" in `PROJECT.json` quotes it):

* `ParamSharingPatch`: PATCH precedes HEAD and OPTIONS when anchors are given
  out and follows them when they are written, so the YAML has an alias before
  its anchor. The same property holds in `ParamSharing`, which has no PATCH.
* `SecurityEmpty`: an override with an empty list, meant to expose an operation,
  leaves the document's default in force.

`CHECK_DEADLOCK FALSE` is set for `MediaTypes`, `MetaText` and `Texts` only, whose
behaviours stop at the bound on their input. Elsewhere an explicit `Done` step
marks the end, or processes are restarted for ever, so a deadlock would be an error.

### Divergences seen while modelling

The models do what the code does, so the properties are stated to hold beside
the following, for which there is no run. Paths are below `src/`; the code is in
`internal/convert` unless another directory is named.

| Code | What it does | What is said of it |
|---|---|---|
| `marshal.go:33` | JSON output contains the internal `$$alias` objects | "not part of the normal JSON serialisation" (`internal/oas/oas.go:223-224`) |
| `convert.go:671` | anchors are numbered in map order, so two runs of one document may differ | "same input, same bytes out, every run" (`README.md:162-163`) |
| `internal/cli/cli.go:213` | status 2 is also given when drafter could not be started or crashed | "2 = APIB parse error (or --strict warnings)" (`internal/cli/cli.go:49`) |
| `convert.go:1391` | a schema inferred for one transaction keeps out the author's own of a later one | "a last-resort fallback" (`mson.go:574-576`) |
| `security.go:84` | an override of the sidecar beats `+ Meta` | `specs/apib+-converter.md:111-112` lists them the other way round |
| `security.go:81` | overrides do not reach operations under webhooks | "Walk every operation once" (`security.go:78`) |
| `convert.go:916` | a tag's parent may be a group without resources, which is no tag | "The named tag MUST exist" (`specs/oas_3.20.md:2901`) |
| `convert.go:2033` | TRACE is accepted, has no slot and disappears | "at least the author learns why" (`convert.go:1150-1152`) |
| `convert.go:588` | duplicates are reported as E005 and as a warning, with `--strict` and without | "Strict mode only; W005 otherwise" (`specs/apib+-converter.md:161`), "currently always W005" (`convert.go:547-548`) |
| `convert.go:348` | two actions of one slot with one operationId are not reported | "the diagnostic gives authors a chance to fix it" (`convert.go:349-350`) |
| `convert.go:1177` | a template name that an action declares is a query parameter | "Each template expression in the path MUST correspond to a path parameter" (`specs/oas_3.20.md:519`) |
| `bplus.go:176` | the second `+ Meta` block of a copy is taken out of the prose and read by nobody | "Symmetrical with findMetaInCopy" (`bplus.go:174-175`) |
| `bplus.go:542` | `mergeMetaBlocks` does not copy every field | "only fills holes" (`bplus.go:539-540`) |
| `mson.go:103` | a type that inherits becomes a bare reference; its own members are lost | "also inherits any Nested Member Types" (`specs/mson_spec:949-950`), besides its own |
| `mson.go:1108` | a missing type in a recovered member is not reported | "E006: Reference to undefined named type" (`specs/apib+-converter.md:162`) |
| `convert.go:453` | a nullable reference keeps its description and three flags; a title, an example, extensions or the schemas it holds are lost on 3.1 and 3.2 | "Preserve non-assertion annotation siblings" (`convert.go:450`) |
| `convert.go:483` | where both are given, `example` stays beside `examples` | "promotes schema.Example" (`convert.go:477`) |
| `convert.go:2252` | `walkSchemas` does not follow `not`, `if`, `then`, `else` | "every *oas.Schema reachable from doc" (`convert.go:2249-2251`) |
| `convert.go:495` | `const` beside a longer `enum` is dropped | "equivalent validation semantics" (`convert.go:493-494`) |
| `convert.go:1133` | a URI of the action's own is never read: its operation is put under the path of its resource | "## Delete a Post [DELETE /posts/{id}]" (`specs/apib.md:837`) |
| `convert.go:1041` | a resource whose href is nothing but a query is dropped with its actions, and nothing is said | "at least the author learns why" (`convert.go:1150-1152`) |
| `marshal.go:456` | the texts `1e3`, `0x1f`, `0o7`, `.inf`, `.nan` and their like are written plain and are read as numbers | "should be quoted to preserve type" (`marshal.go:449`), and "any character that could trip YAML's plain-scalar parser" (`marshal.go:430-431`) |
| `marshal.go:401` | a text whose first line is indented becomes a block that is read otherwise or not at all, and newlines at the end of a block are lost or added | "Every content line is indented" (`marshal.go:399-400`) |
| `marshal.go:277` | an empty array directly in an array is written at the left margin of the next line | "start on the next line with deeper indent" (`marshal.go:276`) |
| `mson.go:605` | the items of `[1, 2.5]` are integers | "a minimal JSON-Schema description" of the example (`mson.go:573-574`) |
| `mson.go:755` | a member directly under One Of is no option: before the first Properties header it is lost, after one it is added to the option above | "`suffixed_name`: Smith, Sr." and "`full_name`" are options (`specs/mson_spec:1055-1061`, `1098-1107`) |
| `mson.go:709` | what comes after a One Of, its siblings and the prose, and members nested in a member of an option are added to the last option or lost | "Member lines (with correct nesting for inline anonymous objects)" (`mson.go:672-673`) |
| `mson.go:703` | a second One Of header forgets the option that is open | "`+ One Of` blocks → oneOf schemas" (`mson.go:674`) |
| `bplus.go:848` | a `+ Meta` block nested in a member is taken for the object's own, and a block that says nothing becomes a property named Meta | "Per-property constraints (`+ Meta` on MSON members / named types)" (`specs/apib+.md:535`) |
| `mson.go:515` | `fixed` adds to `required` in map order, so two runs of one document may differ | "same input, same bytes out, every run" (`README.md:162-163`) |
| `mson.go:195` | `fixed` is applied before members are recovered, and does not reach them | "promote every declared property to required" (`mson.go:511-512`) |
| `bplus.go:689` | ROOT.HOST, ROOT.SUMMARY and the like, and WEBHOOK_GROUPS in lower case or a second time, are read by nobody | "Any uppercase key outside this set becomes" an extension (`bplus.go:86-87`) |
| `convert.go:467` | a nullable enumeration does not list null | "MAY be unset (e.g. `null` or `nil`)" (`specs/mson_spec:446`) |

Where they bite in the models: `Precedence` leaves out `+ Meta` against an
override and empty overrides, and takes `in.hooks` out of the overridden
operations; `NoActionLost` excepts TRACE, `DuplicatesReported` counts the actions
that were not overwritten, and takes E005 or W005, `ParamsStayHome` lets an action declare a query
parameter of a template's name; `ScannersAgree` promises a partition of texts with
one header; `FirstBlockWins` speaks of the keys in `Merged`; `MeaningKept` of
`Normalize` speaks of schemas that are `Translatable`, `RefsKept` of documents
whose nullable references hold no schemas, and `InTargetForm` of schemas that are not behind a
`Neglected` keyword, excepting an example whose author gave examples too; `RefsResolve` exempts the reserved type; `LookedUp` leaves out
recovered members; `NoActionLost` lets a resource go that is nothing but a query.
`Misplaced`, `LeftPlain` and `Uniform` in `Values` and `PassedOver` in `Metadata` name
what the emitter, the inference and the metadata are known to miss, `OutlineRecovered`
speaks of descriptions that are `Tidy` and of a One Of that is `OneOfGroups`.
A reader by YAML 1.1 takes more plain texts for something else (`Yes`, `NO`, `y`, `1_000`,
`0b1`, dates, `<<`); `specs/oas_3.20.md:60` recommends 1.2, which `YamlReader` follows.

### Fairness

* `DrafterCache`: weak fairness of `Extract(p)`, `ReturnNew` and `Parse`. The
  system calls of `materialize` return, and goroutines released by `once.Do` run.
  Nothing is assumed of `CallNew`, of faults or of exits.
* `CliRun`: weak fairness of `OwnStep(r)`, the calls that wait for nobody. The end
  of stdin, a reader of stdout and an answer of drafter are *not* assumed; so
  `SignalFreesRun` says what the context is for: it ends a run even if drafter hangs.
* The other modules state no fairness: they are sequential loops, and all that is
  said of them is safety.

## 4. What is proved

With TLAPS, for every value of the constants that meets the modules' `ASSUME`s.
Every invariant that a run checks, the three of `Values` excepted, is proved. Those of
`Texts` follow from theorems about its functions, each of the others from an
inductive invariant `IInv` of its module (`PassesInv` for `Normalize`, which shares
`SchemaProofs` with `NamedTypes`): `Init => IInv`, each action keeps it, and each
property follows from it. The theorem about property `P` is named `PAlways`. The
runs of `DrafterCache` and `ParamSharing` check `IInv` too. The others stand in the
proof modules; they were tried with TLC on the same instances, and are no longer
run, being longer than the properties they are there for.

`DrafterCacheProofs`. The invariant `InstalledIsRunnable` is not inductive: that
`Rename` installs a whole file follows from what the process did before. `IInv`
adds that a process owns a temporary file exactly from `CreateTemp` to the end
(`TempOwned`), that the file is as far as the calls made on it, that nobody else
owns it (`PrivateTemp`; `CreateTemp` preserves it because the name was absent
and owned names are present), that `once` is over exactly when an answer is
stored (`OnceDone`), and that callers have that answer (`CallersAgree`). From
`IInv` follow `InstalledIsRunnable`, `NoFailedExec`, `OneAnswer`, the action
property `InstallIsFinal` (a second rename replaces a file by an equal one), and
`ImplementsToolInstall`, where each step is a step of `ToolInstall` or a stutter.
`OrphansPaidForAlways` uses the library's theorems on cardinality: each action
adds at most one orphan, and only with a fault. `NoFailedExec`, `OneAnswer` and
`InstallIsFinal` are consequences of `IInv` and `AtomicInstall`, which the run checks.

`CliRunProofs`, for any number of runs and files that may be written twice. What an exit
code says depends on checks made many calls earlier, so `IInv` holds for each run
(`Local`) what it must have found to be where it is: no annotations before
drafter answered, a document that passed both checks from `marshal` on, an unopened
output until `write`; and, call by call, what it was told and which part of that it
has printed (`ExitedOnce`, `ToldSoFar`, `ToldInTheEnd`, `OkAccepted`,
`EarlyStops`, `Position`). About two runs it holds that writers of one file know
of each other (`WritersContend`) and that a writer without company has written
the file as far as its offset (`OwnFile`). `OkMeansAccepted`, `ErrorsShown` and
`EarlySignalStops` follow from `Local`, `OutputAccountedFor` from the rest.

`ParamSharingProofs`. `UniqueIds` needs that numbers are handed out in
increasing order (`IdsBelow`), `AliasNamesItsParam` that an anchor is given once.
The statements about finished documents need more. `ParamsKept`: both loops
change how a slot is written, never which parameter it stands for; `Counted`:
the first loop's counts are the numbers of operations that use a parameter;
`AnchorsBorne`, `OneBearer`, `AliasesFollow`: of the slots the second loop has
been at (`Behind`, `CursorOK`), a shared parameter has an anchor in exactly one
and aliases in later ones of the same path. That the path is the same is where
sharing stays inside one path item. From these follow `MeaningKept` and
`BodyOnce`, for every document and every order of Go's maps, and
`AnchorBeforeAlias` where PATCH does not occur together with OPTIONS or HEAD:
this hypothesis, `OrdersAgree`, is the finding of `ParamSharingPatch`, and the
proof needs it at one place, where a position in the loop is turned into one in the text.
`UniqueIds` and `AliasNamesItsParam` are conjuncts of the `IInv` that the run checks.

`SecurityProofs`, for any operations, schemes and inputs. `IInv` says what the
document and each operation require, by how far each pass has come
(`DocSecInv`, `OpSecInv`): before and after its `+ Meta` block was read, before
and after its override. That `cleared` stays as `+ Meta` left it while an override
replaces the list is what `Precedence` turns on. `SchemesInv` says of each scheme
of the source that it was declared, was reported or is pending, which gives
`NoSchemeVanishes`; `WarnedInv` gives `UndeclaredReported`.

`MetaTextProofs`, for copies of any length and any indentations. Neither scanner
knows of the other, so the invariant has to: they move together until the block
ends (`InStep`), and after it they differ only where there is a second header
(`Apart`). `CopiesDone` keeps this of copies that were read, `MetaSoFar` that the
merged block has each key from the first copy that had it. From these follow
`ScannersAgree`, `ConsumedOnlyMeta` and `FirstBlockWins`.

`MetaTextProofs` of `Texts`, for metadata and descriptions of any length. The
specification says of a state only that it is a text of its genre
(`TextsInvariance`); each property then is a theorem about a function of texts.

* `EntriesRouted`, which is `MetadataRouted`. Each entry has a `Home`, the one part
  of the document that its key and its prefix lead to, whatever the other entries
  are (`FillsHome`): this is where the table of recognised keys and the keys that
  each part looks up must agree. A part looks for the first or the last entry of
  some keys, which is there as soon as one of them has a value (`LookupFinds`), and has
  the same meaning (`SomeFills`).
* `NoLineUsedTwice`, which is `LinesUsedOnce`. The scanners of blocks take out what
  they read: a line of the first block is in no later rest (`StripTakes`,
  `ExtractDivides`). The invariant of the loop over members (`ApartInv`) is that what
  was made of the lines so far has none in common (`MembersApart`, `OptionsApart`), and
  that the lines which are passed over go on without a gap, so that the next line
  that is read is above none of them. `BlockInBlock`: a block below a line of a
  block ends within it, so nested members stay inside the block of the outermost
  one (`NestedLines`, `PropertyLinesIn`).
* `OutlineOfAnyDepth` and `OptionsOfAnyLength`, which together are `OutlineRecovered`.
  In a tidy description the members without a parent are those indented as the
  first member is (`BaseExists`), and the block of a member holds those whose parents
  lead up to it (`MembersOfBlock`), so its own are those indented as the first of
  these (`ParentIs`, `NestedKids`). `TidyInv` then says what the loop has after each
  line: the members without a parent so far, and the prose so far. `OptionsInv` does it
  for a One Of: above it nothing is passed over that reaches it (`AboveOneOf`), and
  below it each Properties header so far has its members so far. The code gives an
  option all members down to the next header; where all members stand in groups
  (`GroupsWithin`) these are the ones nested in it (`GroupEnds`, `GroupMembers`).

`SchemaProofs` of `NamedTypes`, for any types and elements. `CollectedFirst`: nothing is
resolved before the registry is complete. Without it a type could be reported
and defined later, or a reference made to a definition that is then replaced.
`SeenMissing`: the loop over what an element looks up adds exactly the types that
are missing, each once. `RefsResolve` and `MissingReportedOnce` follow.

`SchemaProofs` of `Normalize`, for any graph of schemas. `Reach` is the least set
that holds the document's roots and is closed under given keywords (those that
`walkSchemas` follows are all but the `Neglected` ones, `WalkedLinks`), so no
path has to be spoken of. `Frontier`: what a visited schema links to was visited
or will be; when nothing is left to do the visited schemas are therefore closed,
and all that is reachable has been visited (`AllVisited`). `PassesTreat`: the
running pass has treated what it visited, an earlier one all there is, which a
later pass does not undo, although it rewrites schemas and makes new ones.
`FieldsFit` relates the fields of one schema, `MeansTheSame` each schema to the
author's: it accepts the same literals, and says of null what it said, either
itself (`OptionsKept`) or by an option that a pass made (`NullOffered`), which no
later pass touches. `RefsMove`: references only move, one for one, and the walk
does not leave what the document reaches. `InTargetForm`, `RefsKept` and
`MeaningKept` follow. `RefsKept` is false without its hypothesis: a nullable
reference that holds schemas loses them, and the references in these.

`ResourceWalkProofs`, for documents of any length, with groups nested to any
depth. `HooksInherited` is about the copies of `walkCtx` down the stack,
`InResource` about the resource that is being read, `AllTaken`, `TakenOnce`, `TakenHeld`
and `DocHeld` tie what is in the document to the last action that was written for
its slot, `DocParams` and `ResourceParams` say where each parameter may have come
from, and `DuplicatesCounted` that ids are compared only when all actions are in.
From these follow `NoActionLost`, `ParamsStayHome`, `ParamsUnique`, `GroupsObeyed`
and `DuplicatesReported`. `NoActionLost` needs a fact about two scanners that
were written apart: if `splitURITemplate` leaves nothing of an href, neither path
nor query, then `validateURITemplate` has reported it. This follows from what
each of them does to any text, which is proved too, in the same module:

* `MalformedExactly`: `validateURITemplate` reports something exactly if the text
  is not `WellFormed`. The invariant of its loop (`ScannedTo`) is about the
  expression that is `Pending` after some characters: the scanner is in it, has
  its text, and has found nothing wrong exactly if each character `Fits` what was
  pending before it. A name is missing (`EmptyNames`, `ExpressionProblems`) where
  `strings.Split` yields an empty one.
* `TemplatesExact`: every text is split as `SplitsExactly` says. `SplitTo` relates
  what a round of `splitURITemplate` leaves to a position of the text: nothing is
  pending there, and path and query are what is picked from the positions before it
  (`LastSegment`, `NextSegment`). That the names which `strings.Split` yields are
  those that begin after the operator and after commas is an induction of its own
  (`NamesTaken`). A round but the last takes two characters at least, so the
  rounds of the model are enough.

From both follows `TemplatesSplitExactly`, for hrefs of any length and of any
symbols.

`MediaTypesProofs`, for any number of payloads. `CountsTell` ties the counters to
the bodies that came, `AllShown` is `EveryBodyShownOnce` with what makes it
inductive (`example` is empty as soon as there are `examples`), `SchemasFit` says
that a schema was inferred only where a body came without one. That a fresh name
for an example exists, so that the naming loop ends, is a counting argument: a
finite set of names leaves one of its size plus one candidates free. From these
follow `EveryBodyShownOnce`, `DescribedByAuthor` and `InferenceFillsIn`.

What the constants are assumed to be:

| Assumption | Why the code justifies it |
|---|---|
| `NamesAssumption`, `CallersAssumption`, `FaultsAssumption`, `PathsAssumption`, `MethodsAssumption` | names are distinct and finitely many, somebody calls, the bound is a number, the methods are the fields of `PathItem` |
| `AbsentAssumption`, `NoneAssumption`, `NothingAssumption`, `NoIdAssumption` | nil, a missing field, an empty title is no value of its type |
| `InputsAssumption`, `ResourcesAssumption`, `ActionsAssumption`, `DocumentsAssumption`, `WorkloadsAssumption` | the Go types of what a pass is given |
| `GenresAssumption`, `SymbolsAssumption` | there is an alphabet for each genre; characters, lines and entries are what they are in the modules that read them, lines of any indentation and entries of any key |
| `KeysAssumption`, `IndentsAssumption`, `ReservedAssumption`, `BoundAssumption` | the keys merged are keys, indentations and the bound are numbers, SecuritySchemes is a type name |

Loops over a sequence are recursive functions, and statements about them are
proved by induction over a set of numbers (`SetInduction`, from the library's
`WFMin`), so no operator has to be passed to a theorem. `LoopRuns` says once that such
a function exists, for a loop whose step is given as a function.

Only model-checked:

* `EveryCallAnswered` and `SignalFreesRun`: liveness under fairness, out of the
  prover's reach, as `ENABLED` is.
* `YamlReadsBack`, `ScalarsKeepType` and `InferredAccepts` of `Values`: the functions and
  their definitions go down into values that are nested in values, with
  `RECURSIVE` operators, and what these compute for every input is out of reach too.

## 5. What is not modelled

* Text: the regular expressions of `preprocessAPiBlueprint`, the grammar of one
  member line, blanks around names, the double quote and the backtick among the
  characters of the YAML emitter, wording of messages.
* What is inside the values of metadata: lists of servers, the texts of tags.
* Formats, constraints, enums, type attributes and the effect of a Schema Patch
  on its schema; headers of responses.
* A power cut that loses data which was written but not synced: a killed process
  leaves the files it wrote as they are.
* The vendored parser, the release scripts and CI.

## 6. Plan

Done: the modules above, and every invariant that a run checks proved but those of
`Values`. Next, in this order:

1. JSON values as trees over a set of nodes instead of nested sequences, which
   would bring the YAML emitter into the prover's reach.
2. `DrafterCache` with unsynced data: which property survives a power cut.
3. An abstract `Conversion` module (sources of a fact, the value a reader sees)
   that `Security` and `Normalize` implement.
4. Type attributes and constraints in `NamedTypes`; in `Normalize` the values of
   examples, and what a nullable reference with constraints comes to mean.
