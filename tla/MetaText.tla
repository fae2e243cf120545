------------------------------ MODULE MetaText ------------------------------
(***************************************************************************)
(* How the copy elements of a group, resource or action are divided between *)
(* its + Meta block and its description.  Two scanners read each copy line  *)
(* by line: findMetaInCopy looks for the block, proseFromCopyText for the   *)
(* rest; they are run in step here, since neither sees the other.  Then     *)
(* parseMetaText reads the block and mergeMetaBlocks adds it to the blocks  *)
(* of earlier copies.                                                       *)
(***************************************************************************)
EXTENDS Naturals, Sequences, FiniteSets, FiniteSetsExt

CONSTANTS
  Indents,    \* columns a line may be indented by
  Keys,       \* the keys of "Key: value" lines
  Merged,     \* those that mergeMetaBlocks copies
  MaxLines,   \* bound: lines of one element, over all its copies
  MaxCopies   \* bound: copies of one element

ASSUME IndentsAssumption == Indents \subseteq Nat

ASSUME KeysAssumption == Merged \subseteq Keys

\* A line: blank, the header "Meta", a pair of a key and a value, or text.
\* A pair whose value its key does not take, and a line without a colon, leave
\* nothing in a block: they count as text.
Line ==
  [kind : {"blank"}, indent : {0}, key : {""}] \cup
  [kind : {"header", "text"}, indent : Indents, key : {""}] \cup
  [kind : {"pair"}, indent : Indents, key : Keys]

VARIABLES
  text,      \* the lines of the copy being scanned
  find,      \* findMetaInCopy: "before", "in" or "after" its block
  strip,     \* proseFromCopyText: "out" of or "in" a block
  indent,    \* for each scanner, the indentation of the block it is in
  absorbed,  \* numbers of the lines in the block that was found
  kept,      \* numbers of the lines that stay prose
  scanned,   \* the copies done: their text, absorbed, kept, and if consumed
  meta       \* the merged block: key -> <<copy, line>>; <<>> if there is none

vars == <<text, find, strip, indent, absorbed, kept, scanned, meta>>

Init ==
  /\ text = <<>>
  /\ find = "before" /\ strip = "out"
  /\ indent = [find |-> 0, strip |-> 0]
  /\ absorbed = {} /\ kept = {}
  /\ scanned = <<>>
  /\ meta = <<>>

-----------------------------------------------------------------------------
\* What belongs to a block whose header is indented by n columns.
Belongs(line, n) == line.kind = "blank" \/ line.indent > n

\* findMetaInCopy reads line i: it stops for good where the block ends.
FindLine(line, i) ==
  \/ /\ find = "before" /\ line.kind = "header"
     /\ find' = "in" /\ absorbed' = absorbed \cup {i}
  \/ /\ find = "before" /\ line.kind # "header"
     /\ UNCHANGED <<find, absorbed>>
  \/ /\ find = "in" /\ Belongs(line, indent.find)
     /\ absorbed' = absorbed \cup {i} /\ UNCHANGED find
  \/ /\ find = "in" /\ ~Belongs(line, indent.find)
     /\ find' = "after" /\ UNCHANGED absorbed
  \/ find = "after" /\ UNCHANGED <<find, absorbed>>

\* Slip: the line that ends a block goes with the block.
StripLineSwallow(line, i) ==
  \/ /\ strip = "out" /\ line.kind = "header"
     /\ strip' = "in" /\ UNCHANGED kept
  \/ /\ strip = "out" /\ line.kind # "header"
     /\ kept' = kept \cup {i} /\ UNCHANGED strip
  \/ /\ strip = "in" /\ Belongs(line, indent.strip)
     /\ UNCHANGED <<strip, kept>>
  \/ /\ strip = "in" /\ ~Belongs(line, indent.strip)
     /\ strip' = "out" /\ UNCHANGED kept

\* proseFromCopyText reads line i.  The line that ends a block is kept whatever
\* it is, a second header included; from the next line on, a header opens
\* another block.
StripLine(line, i) ==
  \/ /\ strip = "out" /\ line.kind = "header"
     /\ strip' = "in" /\ UNCHANGED kept
  \/ /\ strip = "out" /\ line.kind # "header"
     /\ kept' = kept \cup {i} /\ UNCHANGED strip
  \/ /\ strip = "in" /\ Belongs(line, indent.strip)
     /\ UNCHANGED <<strip, kept>>
  \/ /\ strip = "in" /\ ~Belongs(line, indent.strip)
     /\ strip' = "out" /\ kept' = kept \cup {i}

ScanLine(line) ==
  /\ Len(text) + 1 <= MaxLines /\ Len(scanned) < MaxCopies
  /\ text' = Append(text, line)
  /\ FindLine(line, Len(text'))
  /\ StripLine(line, Len(text'))
  /\ indent' = [find |-> IF find' = find THEN indent.find ELSE line.indent,
                strip |-> IF strip' = strip THEN indent.strip ELSE line.indent]
  /\ UNCHANGED <<scanned, meta>>

-----------------------------------------------------------------------------
\* parseMetaText: the pairs of a block, the last of a key winning.
Pairs(lines, block, key) == {i \in block : lines[i].kind = "pair" /\ lines[i].key = key}

ParseBlock(lines, block) ==
  [key \in {k \in Keys : Pairs(lines, block, k) # {}} |->
     Max(Pairs(lines, block, key))]

\* Slip: the later block wins.
MergeBlocksLast(dst, src) ==
  [key \in DOMAIN dst \cup (DOMAIN src \cap Merged) |->
     IF key \in DOMAIN src THEN src[key] ELSE dst[key]]

\* mergeMetaBlocks: dst wins, and src fills the holes of the keys it copies.
MergeBlocks(dst, src) ==
  [key \in DOMAIN dst \cup (DOMAIN src \cap Merged) |->
     IF key \in DOMAIN dst THEN dst[key] ELSE src[key]]

NonBlank(lines, some) == {i \in some : lines[i].kind # "blank"}

\* Slip: a copy is consumed as soon as it holds a block.
ConsumedFused(block) == block # <<>>

\* A copy is consumed when nothing of it is prose: the collectors then skip it.
\* One without a block, or whose block says nothing, is not.
Consumed(block) == block # <<>> /\ NonBlank(text, kept) = {}

EndCopy ==
  /\ text # <<>> /\ Len(scanned) < MaxCopies
  /\ LET copy == Len(scanned) + 1
         block == [key \in DOMAIN ParseBlock(text, absorbed) |->
                     <<copy, ParseBlock(text, absorbed)[key]>>]
     IN  /\ meta' = IF meta = <<>> THEN block ELSE MergeBlocks(meta, block)
         /\ scanned' = Append(scanned,
              [text |-> text, absorbed |-> absorbed, kept |-> kept,
               consumed |-> Consumed(block)])
  /\ text' = <<>>
  /\ find' = "before" /\ strip' = "out"
  /\ indent' = [find |-> 0, strip |-> 0]
  /\ absorbed' = {} /\ kept' = {}

Next == EndCopy \/ \E line \in Line : ScanLine(line)

Spec == Init /\ [][Next]_vars

-----------------------------------------------------------------------------
Headers(lines) == {i \in DOMAIN lines : lines[i].kind = "header"}

\* The block and the description share no line: nothing an author wrote for the
\* machine is shown to the reader.  Where a copy has one header, they share it
\* out without a remainder (findMetaInCopy and proseFromCopyText, which is
\* "Symmetrical with findMetaInCopy", src/internal/convert/bplus.go:174).
ScannersAgree ==
  /\ absorbed \cap kept = {}
  /\ \A i \in DOMAIN scanned :
       LET copy == scanned[i]
       IN  /\ copy.absorbed \cap copy.kept = {}
           /\ Cardinality(Headers(copy.text)) <= 1 =>
                copy.absorbed \cup copy.kept = DOMAIN copy.text

\* A copy the collectors skip held nothing but its block: no sentence of the
\* description goes with it.
ConsumedOnlyMeta ==
  \A i \in DOMAIN scanned :
    scanned[i].consumed =>
      NonBlank(scanned[i].text, DOMAIN scanned[i].text) \subseteq scanned[i].absorbed

\* A key that mergeMetaBlocks copies has the value of the first block that
\* holds it, and every one that a block holds is there.
FirstBlockWins ==
  \A key \in Merged :
    LET holders == {i \in DOMAIN scanned :
                      Pairs(scanned[i].text, scanned[i].absorbed, key) # {}}
    IN  /\ (holders # {}) <=> key \in DOMAIN meta
        /\ key \in DOMAIN meta => meta[key][1] = Min(holders)
=============================================================================
