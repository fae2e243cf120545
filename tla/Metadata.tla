------------------------------ MODULE Metadata ------------------------------
(***************************************************************************)
(* The metadata of a document ("HOST: ...", "VERSION: ..."): each part of    *)
(* the document looks its own keys up in the list of entries, and            *)
(* applyDocumentExtensions keeps what is left, going by a table of the keys  *)
(* that the others read.                                                    *)
(*                                                                          *)
(* What is derived from the entries is a set of their numbers, to be read in *)
(* the order of the document.                                               *)
(***************************************************************************)
EXTENDS Naturals, Sequences

\* An entry: key is its key in lower case, upper whether it was written in
\* upper case, root whether it was prefixed with "ROOT."; and if it has a value.
Entry(key, upper, root, value) ==
  [key |-> key, upper |-> upper, root |-> root, value |-> value]

EntryType == [key : STRING, upper : BOOLEAN, root : BOOLEAN, value : BOOLEAN]

Entries == Seq(EntryType)

\* Slip: a key that is read is not listed.
RecognisedShort ==
  {"format", "version", "api-version", "api_version", "host", "server",
   "webhook_groups", "security", "license", "license-id", "license-url"}

\* recognisedDocumentMetadataKeys: the keys that other parts read.
Recognised ==
  {"format", "version", "api-version", "api_version", "host", "server",
   "webhook_groups", "security", "summary", "license", "license-id", "license-url"}

\* Keys that name an extension, and the x- key each becomes.
ExtensionKey(key) ==
  CASE key \in {"x-team", "team"} -> "x-team"
    [] OTHER -> key

\* looksLikeExtensionShape: "Wibble" might be a key misspelt.
LooksLikeExtension(key) == key \in {"x-team"}

-----------------------------------------------------------------------------
(* Looking keys up.                                                         *)

\* An entry has its ROOT. prefix as a part of its key.
Named(entries, keys) ==
  {i \in DOMAIN entries : entries[i].key \in keys /\ ~entries[i].root}

Valued(entries, S) == {i \in S : entries[i].value}

First(S) == {i \in S : \A j \in S : i <= j}
Latest(S) == {i \in S : \A j \in S : j <= i}

MetadataValuesAll(entries, keys) == Valued(entries, Named(entries, keys))

\* The first that has a value.
FirstMetadataValue(entries, key) == First(MetadataValuesAll(entries, {key}))

\* The first, whether it has a value or not.
MetadataValueIfPresent(entries, key) == First(Named(entries, {key}))

\* metadataValue: the first whose key is written in upper case.
MetadataValue(entries, key) == First({i \in Named(entries, {key}) : entries[i].upper})

-----------------------------------------------------------------------------
Versions == {"version", "api-version", "api_version"}

\* info.version: the last one that has a value.
VersionOf(entries) == Latest(MetadataValuesAll(entries, Versions))

\* parseServersMetadata: a server for each.
Servers(entries) == MetadataValuesAll(entries, {"host", "server"})

\* applyInfoLicenseAndSummary
Summary(entries) == FirstMetadataValue(entries, "summary")

License(entries, key) == FirstMetadataValue(entries, key)

\* parseDocumentSecurity: one without a value clears what is required.
DocumentSecurity(entries) == MetadataValueIfPresent(entries, "security")

\* parseWebhookGroups
WebhookGroups(entries) == Valued(entries, MetadataValue(entries, "webhook_groups"))

\* applyDocumentExtensions: the entries that become x- keys, the last of a key
\* winning; at the root of the document or in its info.
Extensions(entries, root) ==
  LET at == {i \in DOMAIN entries :
               /\ entries[i].root = root /\ entries[i].value
               /\ entries[i].key \notin Recognised}
  IN  {i \in at : \A j \in at : ExtensionKey(entries[j].key) = ExtensionKey(entries[i].key) => j <= i}

\* W001, for the entries whose key looks like a mistake.
UnknownKeys(entries) ==
  {i \in DOMAIN entries :
     /\ ~entries[i].root /\ entries[i].value
     /\ entries[i].key \notin Recognised
     /\ ~LooksLikeExtension(entries[i].key)}

\* W002: several versions.
MultipleVersions(entries) ==
  \E i, j \in MetadataValuesAll(entries, Versions) : i # j

\* The parts of the document that the entries fill.
Document(entries) ==
  [version |-> VersionOf(entries), servers |-> Servers(entries),
   summary |-> Summary(entries), security |-> DocumentSecurity(entries),
   webhooks |-> WebhookGroups(entries), license |-> License(entries, "license"),
   identifier |-> License(entries, "license-id"), url |-> License(entries, "license-url"),
   info |-> Extensions(entries, FALSE), root |-> Extensions(entries, TRUE)]

-----------------------------------------------------------------------------
(* What becomes of each entry.                                              *)

\* Entries that fill the same place.
SameMeaning(e, f) ==
  /\ e.root = f.root
  /\ \/ ExtensionKey(e.key) = ExtensionKey(f.key)
     \/ {e.key, f.key} \subseteq Versions

\* Keys of other parts, which have no meaning with a ROOT. prefix.
Foreign ==
  {"host", "server", "summary", "security", "webhook_groups",
   "license", "license-id", "license-url"} \cup Versions

\* What the code is known to pass over: FORMAT, which is for the parser; the
\* keys of other parts with a ROOT. prefix; and WEBHOOK_GROUPS, where only the
\* first one in upper case counts, which may be without a value.
PassedOver(entries, i) ==
  LET e == entries[i]
      Groups(f) == f.key = "webhook_groups" /\ f.upper /\ ~f.root
  IN  \/ e.key = "format"
      \/ e.root /\ e.key \in Foreign
      \/ e.key = "webhook_groups" /\ ~e.upper
      \/ Groups(e) /\ \E j \in 1..(i - 1) :
                        ~entries[j].value /\ \A k \in 1..j : Groups(entries[k]) <=> k = j

\* Every entry with a value fills one part of the document, and one only, or
\* another that would fill the same place does, of which there is only one: the
\* keys that applyDocumentExtensions leaves alone are those the other parts
\* look up.  No version gives way silently.
Routed(entries) ==
  LET doc == Document(entries)
      In(i) == {p \in DOMAIN doc : i \in doc[p]}
  IN  \A i \in DOMAIN entries :
        entries[i].value /\ ~PassedOver(entries, i) =>
          \/ \E p \in DOMAIN doc : In(i) = {p}
          \/ /\ In(i) = {}
             /\ \E j \in DOMAIN entries : In(j) # {} /\ SameMeaning(entries[i], entries[j])
             /\ entries[i].key \in Versions => MultipleVersions(entries)
=============================================================================
