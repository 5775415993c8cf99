----------------------------- MODULE VersionLedger -----------------------------
(***************************************************************************)
(* One document's version ledger, as values: the entries of history.yaml,  *)
(* the sealed artifacts v{N}.md / v{N}.diff, and the pure functions of     *)
(* packages/engine/src/versioning.ts, reconstruct.ts and integrity.ts over *)
(* them.                                                                   *)
(*                                                                         *)
(* A text is a serialized document: its frontmatter version and its body.  *)
(* A diff is the pair of texts it was made from; a hash is the value it    *)
(* was computed from, so two hashes are equal when their inputs are; a     *)
(* chain hash is the sequence of (version, content hash) links it covers.  *)
(***************************************************************************)
EXTENDS Naturals, Sequences, SequencesExt

CONSTANTS
  Body,        \* document bodies
  Big,         \* the bodies longer than MAX_DIFF_CHARS
  MaxVersion,  \* bound on version numbers
  Interval,    \* keyframe_interval
  NoText,      \* no file, no text
  NoDiff

ASSUME LedgerAssumption ==
  /\ Body # {} /\ Big \subseteq Body
  /\ MaxVersion \in Nat
  /\ Interval \in Nat \ {0, 1}

Version == 1 .. MaxVersion

\* A document's frontmatter version is 0 when absent or unusable (wholeVersion).
Text == [version: 0 .. MaxVersion, body: Body]

Diff == [from: Text, to: Text]

ASSUME NothingAssumption == NoText \notin Text \union Diff /\ NoDiff \notin Text \union Diff

Link == [version: Version, hash: Text \union Diff]

Entry == [version: Version, keyframe: BOOLEAN, hash: Text \union Diff, chain: Seq(Link),
          tombstone: BOOLEAN]

KeyframeFiles == [Version -> Text \union {NoText}]

DiffFiles == [Version -> Diff \union {NoDiff}]

--------------------------------------------------------------------------------
(* Numbering.                                                              *)

Recorded(entries) == {entries[i].version : i \in DOMAIN entries}

\* maxRecordedVersion lists both kinds of artifact.
SealedOnDisk(md, diff) == {v \in Version : md[v] # NoText \/ diff[v] # NoDiff}

\* One more than the largest of S, as nextVersion's Math.max(...) + 1.
LeastAbove(S) ==
  CHOOSE n \in 1 .. MaxVersion + 1 :
    /\ \A s \in S : s < n
    /\ \A m \in 1 .. MaxVersion + 1 : (\A s \in S : s < m) => n <= m

\* Mutant: numbering from the frontmatter alone.
NextVersionFromHint(hint, entries, md, diff) == LeastAbove({hint})

\* Mutant: numbering past the history alone, which a torn file empties.
NextVersionFromHistory(hint, entries, md, diff) == LeastAbove({hint} \union Recorded(entries))

NextVersion(hint, entries, md, diff) ==
  LeastAbove({hint} \union Recorded(entries) \union SealedOnDisk(md, diff))

--------------------------------------------------------------------------------
(* reconstructFromHistory: nearest live keyframe, then replay forward.     *)

\* applyPatchBounded: a patch applies to the text it was made from, and only there.
ApplyPatch(text, patch) == IF text = patch.from THEN patch.to ELSE NoText

\* One replayed entry: another keyframe is used directly when its file exists;
\* otherwise the version's diff is applied, and no diff at all changes nothing.
ReplayEntry(text, entry, md, diff) ==
  CASE text = NoText \/ entry.tombstone -> NoText
    [] entry.keyframe /\ md[entry.version] # NoText -> md[entry.version]
    [] diff[entry.version] # NoDiff -> ApplyPatch(text, diff[entry.version])
    [] OTHER -> text

\* The entries a keyframe may anchor a replay of target from.
Anchors(entries, target) ==
  {i \in DOMAIN entries : /\ entries[i].keyframe
                          /\ ~entries[i].tombstone
                          /\ entries[i].version <= target}

\* The walk keeps the last anchor it meets, in file order.
AnchorVersion(entries, target) ==
  entries[CHOOSE i \in Anchors(entries, target) :
            \A j \in Anchors(entries, target) : j <= i].version

\* The entries up to the first one past both the anchor and the target.
ReplayList(entries, anchor, target) ==
  LET past == {i \in DOMAIN entries : entries[i].version > anchor /\ entries[i].version > target}
      upTo == IF past = {} THEN Len(entries)
              ELSE (CHOOSE i \in past : \A j \in past : i <= j) - 1
  IN  SubSeq(entries, 1, upTo)

\* The first entry recorded for the target decides whether it was forgotten.
Forgotten(entries, target) ==
  LET same == {i \in DOMAIN entries : entries[i].version = target}
  IN  entries[CHOOSE i \in same : \A j \in same : i <= j].tombstone

\* The anchor keyframe with the entries after it replayed, in order.
Rebuild(entries, md, diff, target) ==
  LET anchor == AnchorVersion(entries, target)
      Replay(text, entry) ==
        IF entry.version > anchor THEN ReplayEntry(text, entry, md, diff) ELSE text
  IN  FoldLeft(Replay, md[anchor], ReplayList(entries, anchor, target))

\* The text of a recorded version, or NoText where the code throws.
Reconstruct(entries, md, diff, target) ==
  IF /\ target \in Recorded(entries)
     /\ ~Forgotten(entries, target)
     /\ Anchors(entries, target) # {}
     /\ Rebuild(entries, md, diff, target) \in Text
  THEN Rebuild(entries, md, diff, target)
  ELSE NoText

--------------------------------------------------------------------------------
(* createVersion: what a new version is stored as, and its entry.          *)

TooLong(text) == text.body \in Big

\* Mutant: a diff is stored against whatever entry came last.
StoredAsKeyframeByInterval(text, entries, md, diff) ==
  \/ entries = <<>>
  \/ text.version % Interval = 1
  \/ TooLong(text)

\* A diff is stored only where the version it is relative to can be rebuilt.
StoredAsKeyframe(text, entries, md, diff) ==
  LET previous == Reconstruct(entries, md, diff, text.version - 1)
  IN  \/ entries = <<>>
      \/ text.version % Interval = 1
      \/ text.version = 1
      \/ TooLong(text)
      \/ previous = NoText
      \/ TooLong(previous)

\* What the artifact of a new version holds, which is also what is hashed.
ArtifactOf(text, keyframe, entries, md, diff) ==
  IF keyframe THEN text
  ELSE [from |-> Reconstruct(entries, md, diff, text.version - 1), to |-> text]

LastChain(entries) == IF entries = <<>> THEN <<>> ELSE entries[Len(entries)].chain

ChainHash(previous, hash, version) == Append(previous, [version |-> version, hash |-> hash])

NewEntry(version, keyframe, hash, entries) ==
  [version |-> version, keyframe |-> keyframe, hash |-> hash,
   chain |-> ChainHash(LastChain(entries), hash, version), tombstone |-> FALSE]

--------------------------------------------------------------------------------
(* verifyDocumentChain.                                                    *)

\* A missing keyframe file is skipped; a missing diff hashes as the empty text.
ContentVerifies(entry, md, diff) ==
  \/ entry.tombstone
  \/ entry.keyframe /\ md[entry.version] \in {NoText, entry.hash}
  \/ ~entry.keyframe /\ diff[entry.version] = entry.hash

ChainVerifies(entries) ==
  \A i \in DOMAIN entries :
    entries[i].chain = ChainHash(IF i = 1 THEN <<>> ELSE entries[i - 1].chain,
                                 entries[i].hash, entries[i].version)

VerifyDocumentChain(entries, md, diff) ==
  /\ \A i \in DOMAIN entries : ContentVerifies(entries[i], md, diff)
  /\ ChainVerifies(entries)
================================================================================
