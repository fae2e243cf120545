------------------------------- MODULE Texts -------------------------------
(***************************************************************************)
(* What an author writes, one symbol after another, and what the pure        *)
(* algorithms of the converter make of it: hrefs (UriTemplate), the          *)
(* descriptions of objects (MemberLines) and the metadata of a document      *)
(* (Metadata) here; texts and values that become YAML, and bodies whose      *)
(* schema is inferred, in Values.  Each property compares one of them with a *)
(* definition that does not scan.                                            *)
(***************************************************************************)
EXTENDS Naturals, Sequences, UriTemplate

Desc == INSTANCE MemberLines
Meta == INSTANCE Metadata

CONSTANTS
  Alphabet,       \* for each genre, the symbols that its texts are made of
  Begin,          \* for each genre, what may be there at first
  Longest,        \* bound: for each genre, how many symbols, or containers, are added
  Containers(_)   \* the values that a value may be nested in

Described == {"members", "options", "blocks"}

ASSUME GenresAssumption ==
  /\ DOMAIN Alphabet = {"href", "word", "scalar", "metadata"} \cup Described
  /\ DOMAIN Begin = DOMAIN Alphabet \cup {"value"}
  /\ DOMAIN Longest = DOMAIN Begin

ASSUME SymbolsAssumption ==
  /\ Alphabet["href"] \subseteq STRING /\ Begin["href"] \subseteq Seq(STRING)
  /\ Alphabet["metadata"] \subseteq Meta!EntryType /\ Begin["metadata"] \subseteq Meta!Entries
  /\ \A g \in Described :
       Alphabet[g] \subseteq Desc!LineType /\ Begin[g] \subseteq Desc!Descriptions

VARIABLES
  genre,    \* what is being written
  written,  \* what there is of it: a sequence of symbols, or a JSON value
  size      \* how much was added to it

textVars == <<genre, written, size>>

TextsInit ==
  /\ genre \in DOMAIN Begin
  /\ written \in Begin[genre]
  /\ size = 0

\* The author writes one more symbol.
Write(symbol) ==
  /\ genre # "value" /\ size < Longest[genre]
  /\ written' = Append(written, symbol)
  /\ size' = size + 1 /\ UNCHANGED genre

\* The JSON value is put in another.
Wrap(v) ==
  /\ genre = "value" /\ size < Longest[genre]
  /\ written' = v
  /\ size' = size + 1 /\ UNCHANGED genre

TextsNext ==
  \/ genre \in DOMAIN Alphabet /\ \E symbol \in Alphabet[genre] : Write(symbol)
  \/ genre = "value" /\ \E v \in Containers(written) : Wrap(v)

TextsSpec == TextsInit /\ [][TextsNext]_textVars

-----------------------------------------------------------------------------
\* validateURITemplate reports exactly the hrefs that are not well formed, so
\* that splitURITemplate, which reports nothing, takes the others apart without
\* losing a character: the path is what is outside of the query expressions,
\* and the query their names, in order (the two scan the text by rules of their
\* own, src/internal/convert/convert.go:2049 and 2122).
TemplatesSplitExactly == genre = "href" => SplitsExactly(written)

\* What is recovered of two common layouts is what their indentation says
\* ("Member lines (with correct nesting for inline anonymous objects)" and
\* "+ One Of blocks", src/internal/convert/mson.go:672-673).  In a tidy
\* description, however deep its members are nested, each is in the object it
\* stands under, and the prose above them is all that stays.  In one that ends
\* with a One Of of Properties groups, each group is an option with the members
\* nested in it.  Nothing is said of other layouts: the code loses a member right
\* under the One Of, which MSON makes an option, or adds it to the group above,
\* and adds those that come after the One Of to its last group.
OutlineRecovered ==
  genre \in Described =>
    /\ Desc!Tidy(written) => Desc!SameOutline(written)
    /\ Desc!OneOfGroups(written) => Desc!SameOptions(written)

\* However + Meta and Schema Patch blocks, members and options are mixed, no
\* line is put to two uses: what was read as a constraint or as part of a patch
\* is not shown as prose or taken for a property as well, and a property of the
\* object is not an option's.
LinesUsedOnce == genre \in Described => Desc!UsedOnce(written)

\* Every entry with a value is in one part of the document, and in one only, or
\* another that says the same is there in its place: the keys that
\* applyDocumentExtensions leaves alone are those the other parts look up
\* (src/internal/convert/bplus.go:89).  No version gives way silently.
MetadataRouted == genre = "metadata" => Meta!Routed(written)
=============================================================================
