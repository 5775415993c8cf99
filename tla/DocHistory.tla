------------------------------ MODULE DocHistory ------------------------------
(***************************************************************************)
(* How one document's versions reach the disk, call by call: the publish   *)
(* path (publish.ts, writePublishedVersion), the approval path             *)
(* (approval.ts, commitNewVersion) and createVersion (versioning.ts) with  *)
(* the storage calls under them, a process that may die between any two    *)
(* calls, and an author who edits the file by hand at any time.            *)
(*                                                                         *)
(* The operations run under the vault lock (module VaultLock), so one runs *)
(* at a time; op, pc, known, text and keyframe are its local variables and *)
(* are lost in a crash.  Everything else is on disk.                       *)
(***************************************************************************)
EXTENDS VersionLedger

CONSTANT Faults   \* "crash", "tear": which faults may happen

ASSUME FaultsAssumption == Faults \subseteq {"crash", "tear"}

VARIABLES
  doc,       \* the live file {id}.md
  ledger,    \* history.yaml: "absent", "ok" or "corrupt"
  entries,   \* the entries of history.yaml when it is "ok", else empty
  md,        \* v{N}.md files
  diff,      \* v{N}.diff files
  op,        \* the operation running: "none", "publish" or "commit"
  pc,        \* its next storage call
  known,     \* the history it read, NoHistory when it read none
  text,      \* the text it is about to record
  keyframe,  \* how createVersion stored that text
  refused,   \* an operation failed because its artifact file already existed
  written    \* history: the text last recorded for each version since a file was torn

disk == <<doc, ledger, entries, md, diff>>
vars == <<doc, ledger, entries, md, diff, op, pc, known, text, keyframe, refused, written>>

TypeOK ==
  /\ doc \in Text
  /\ ledger \in {"absent", "ok", "corrupt"}
  /\ entries \in Seq(Entry)
  /\ md \in KeyframeFiles
  /\ diff \in DiffFiles
  /\ op \in {"none", "publish", "commit"}
  /\ pc \in {"idle", "seed", "seeded", "number", "artifact", "append", "live"}
  /\ known \in Seq(Entry)
  /\ text \in Text
  /\ keyframe \in BOOLEAN
  /\ refused \in BOOLEAN
  /\ written \in [Version -> Text \union {NoText}]

\* The local variable of a process that runs nothing.
Blank == [version |-> 0, body |-> CHOOSE body \in Body : TRUE]

Init ==
  /\ doc \in Text
  /\ ledger = "absent"
  /\ entries = <<>>
  /\ md = [v \in Version |-> NoText]
  /\ diff = [v \in Version |-> NoDiff]
  /\ op = "none"
  /\ pc = "idle"
  /\ known = <<>>
  /\ text = Blank
  /\ keyframe = FALSE
  /\ refused = FALSE
  /\ written = [v \in Version |-> NoText]

\* The bound: an operation starts only while its number fits in Version.
RoomFor(hint) == NextVersion(hint, entries, md, diff) \in Version

\* The operation returns or throws; its local state is gone.
Done ==
  /\ op' = "none"
  /\ pc' = "idle"
  /\ known' = <<>>
  /\ text' = Blank
  /\ keyframe' = FALSE

--------------------------------------------------------------------------------
(* createVersion: the artifact first, then the entry that hashes it.       *)

\* The exclusive create of the artifact; EEXIST is VersionArtifactExistsError.
SealArtifact(next) ==
  LET asKeyframe == StoredAsKeyframe(text, known, md, diff)
      v == text.version
  IN  IF IF asKeyframe THEN md[v] # NoText ELSE diff[v] # NoDiff
      THEN /\ refused' = TRUE
           /\ Done
           /\ UNCHANGED <<disk, written>>
      ELSE /\ keyframe' = asKeyframe
           /\ IF asKeyframe
              THEN md' = [md EXCEPT ![v] = text] /\ UNCHANGED diff
              ELSE /\ diff' = [diff EXCEPT ![v] =
                                 ArtifactOf(text, FALSE, known, md, diff)]
                   /\ UNCHANGED md
           /\ pc' = next
           /\ UNCHANGED <<doc, ledger, entries, op, known, text, refused, written>>

\* The content hash is of what the artifact holds; the chain hash continues
\* the last entry of the history that was read.
EntryNow ==
  NewEntry(text.version, keyframe,
           IF keyframe THEN md[text.version] ELSE diff[text.version], known)

\* appendVersionEntry: creates the file with its header, or appends to it.
AppendVersionEntry ==
  /\ entries' = Append(entries, EntryNow)
  /\ ledger' = "ok"
  /\ written' = [written EXCEPT ![text.version] = text]

--------------------------------------------------------------------------------
(* writePublishedVersion.                                                  *)

\* historyOrRepair: an unreadable history is moved aside and reads as none.
QuarantineIfCorrupt == ledger' = IF ledger = "corrupt" THEN "absent" ELSE ledger

\* A document that carries a version but has no history is seeded first, unless
\* its history was quarantined by this very call.
NeedsSeed == ledger = "absent" /\ doc.version > 1

PublishRead ==
  /\ op = "none"
  /\ RoomFor(doc.version)
  /\ op' = "publish"
  /\ QuarantineIfCorrupt
  /\ known' = entries
  /\ text' = doc
  /\ pc' = IF NeedsSeed THEN "seed" ELSE "number"
  /\ UNCHANGED <<doc, entries, md, diff, keyframe, refused, written>>

SeedArtifact == pc = "seed" /\ SealArtifact("seeded")

\* Mutant: the publish goes on with the history it read before the seed.
SeedAppendStale ==
  /\ pc = "seeded"
  /\ AppendVersionEntry
  /\ pc' = "number"
  /\ UNCHANGED <<doc, md, diff, op, known, text, keyframe, refused>>

\* After a seed the history is read afresh.
SeedAppend ==
  /\ pc = "seeded"
  /\ AppendVersionEntry
  /\ known' = entries'
  /\ pc' = "number"
  /\ UNCHANGED <<doc, md, diff, op, text, keyframe, refused>>

\* The new number, then writeDocument of the text under it.
PublishLive ==
  /\ pc = "number"
  /\ text' = [text EXCEPT !.version = NextVersion(text.version, known, md, diff)]
  /\ doc' = text'
  /\ pc' = "artifact"
  /\ UNCHANGED <<ledger, entries, md, diff, op, known, keyframe, refused, written>>

PublishArtifact == op = "publish" /\ pc = "artifact" /\ SealArtifact("append")

PublishAppend ==
  /\ op = "publish"
  /\ pc = "append"
  /\ AppendVersionEntry
  /\ Done
  /\ UNCHANGED <<doc, md, diff, refused>>

--------------------------------------------------------------------------------
(* commitNewVersion: artifact and entry first, the live file last.         *)

\* The text to commit: a body, and the version its raw content carries.
CommitRead(body, hint) ==
  /\ op = "none"
  /\ RoomFor(hint)
  /\ op' = "commit"
  /\ QuarantineIfCorrupt
  /\ known' = entries
  /\ text' = [version |-> NextVersion(hint, entries, md, diff), body |-> body]
  /\ pc' = "artifact"
  /\ UNCHANGED <<doc, entries, md, diff, keyframe, refused, written>>

HeadVersion == entries[Len(entries)].version

\* approveSuggestion: the text of the chain's head with a patch applied, which may
\* change its frontmatter too.
Approve(patched) ==
  /\ ledger = "ok"
  /\ Reconstruct(entries, md, diff, HeadVersion) # NoText
  /\ CommitRead(patched.body, patched.version)

\* rollbackDocument: an earlier version's text, sealed again.
Rollback(version) ==
  /\ ledger = "ok"
  /\ Reconstruct(entries, md, diff, version) # NoText
  /\ CommitRead(Reconstruct(entries, md, diff, version).body, version)

\* czarDirectEdit: any text, whatever state the history is in.
CzarDirectEdit(edited) == CommitRead(edited.body, edited.version)

CommitArtifact == op = "commit" /\ pc = "artifact" /\ SealArtifact("append")

CommitAppend ==
  /\ op = "commit"
  /\ pc = "append"
  /\ AppendVersionEntry
  /\ pc' = "live"
  /\ UNCHANGED <<doc, md, diff, op, known, text, keyframe, refused>>

CommitLive ==
  /\ pc = "live"
  /\ doc' = text
  /\ Done
  /\ UNCHANGED <<ledger, entries, md, diff, refused, written>>

--------------------------------------------------------------------------------
(* The author's editor, and faults.                                        *)

\* The file is edited by hand, or copied in with another frontmatter version.
HandEdit(edited) ==
  /\ doc' = edited
  /\ UNCHANGED <<ledger, entries, md, diff, op, pc, known, text, keyframe, refused, written>>

Crash ==
  /\ "crash" \in Faults
  /\ op # "none"
  /\ Done
  /\ UNCHANGED <<disk, refused, written>>

\* The process dies inside the append: the file no longer parses.
TearHistory ==
  /\ "tear" \in Faults
  /\ pc \in {"seeded", "append"}
  /\ ledger' = "corrupt"
  /\ entries' = <<>>
  /\ written' = [v \in Version |-> NoText]
  /\ Done
  /\ UNCHANGED <<doc, md, diff, refused>>

Publish ==
  PublishRead \/ SeedArtifact \/ SeedAppend \/ PublishLive \/ PublishArtifact \/ PublishAppend

Commit ==
  \/ \E given \in Text : Approve(given) \/ CzarDirectEdit(given)
  \/ \E version \in Version : Rollback(version)
  \/ CommitArtifact \/ CommitAppend \/ CommitLive

Next ==
  \/ Publish
  \/ Commit
  \/ \E edited \in Text : HandEdit(edited)
  \/ Crash
  \/ TearHistory

Spec == Init /\ [][Next]_vars

--------------------------------------------------------------------------------
(* Properties.                                                             *)

\* history.yaml is one chain: every entry outranks those before it, so no
\* version number is grafted onto the chain a second time (nextVersion).
VersionsIncrease ==
  \A i, j \in DOMAIN entries : i < j => entries[i].version < entries[j].version

\* Whatever died where, ctx verify finds nothing: every entry's artifact is on
\* disk with the content its hash was taken of, and the chain hashes link.
HistoryVerifies ==
  /\ VerifyDocumentChain(entries, md, diff)
  /\ \A i \in DOMAIN entries : entries[i].keyframe => md[entries[i].version] # NoText

\* What was recorded is what is read back: every recorded version rebuilds to
\* the very text it was recorded for, through keyframes, diffs, gaps left by
\* crashes and restarted chains (reconstructFromHistory).
ReadBack ==
  \A v \in Recorded(entries) : Reconstruct(entries, md, diff, v) = written[v]

\* No operation runs into an artifact an earlier one left (versioning.ts:69-72,
\* publish.ts:131-136: numbering clears every artifact on disk).
NeverRefused == ~refused

\* A number with an artifact on disk is never given to another text, not even as
\* the other kind of file, which the exclusive create would let through: neither
\* after a torn history, whose entries no longer name it, nor after a crash that
\* left the artifact without its entry (versioning.ts:69-71, 87-89).  Only a seed,
\* which is not numbered, may put a v{N}.md beside an old v{N}.diff.
NumberNeverReused ==
  [][\A v \in SealedOnDisk(md, diff) :
       pc = "seed" \/ (md'[v] = md[v] /\ diff'[v] = diff[v])]_vars

--------------------------------------------------------------------------------
(* The inductive strengthening of VersionsIncrease and HistoryVerifies.    *)

\* A running operation has read the history as it still is, and what it is
\* about to record outranks it.
JobConsistent ==
  /\ (op = "none") = (pc = "idle")
  /\ ledger # "ok" => entries = <<>>
  /\ pc \in {"seed", "seeded", "number", "artifact", "append"} =>
       known = entries /\ ledger # "corrupt"
  /\ pc \in {"seed", "seeded"} => entries = <<>> /\ text.version \in Version
  /\ pc \in {"seed", "seeded", "number"} => RoomFor(text.version)
  /\ pc \in {"artifact", "append"} =>
       text.version \in Version /\ \A v \in Recorded(entries) : v < text.version

\* Between createVersion's two writes the artifact is there.
ArtifactWritten ==
  pc \in {"seeded", "append"} =>
    IF keyframe THEN md[text.version] = text ELSE diff[text.version] # NoDiff

LedgerInv ==
  TypeOK /\ VersionsIncrease /\ HistoryVerifies /\ JobConsistent /\ ArtifactWritten

\* The number of the version about to be sealed is free on disk, whatever was torn
\* or left there (for NumberNeverReused).
NumberFree == pc = "artifact" => text.version \notin SealedOnDisk(md, diff)

\* What an entry stands for (for ReadBack): a keyframe hashes the text recorded for
\* its version, a diff leads there from the text of the entry before it.
EntryFaithful(i) ==
  /\ ~entries[i].tombstone
  /\ written[entries[i].version] \in Text
  /\ IF entries[i].keyframe THEN entries[i].hash = written[entries[i].version]
     ELSE /\ i > 1
          /\ entries[i].hash = [from |-> written[entries[i - 1].version],
                                to |-> written[entries[i].version]]

\* The artifact about to be recorded is of the text in hand, and a diff leads there
\* from the head of the history.
ArtifactFaithful ==
  pc \in {"seeded", "append"} /\ ~keyframe =>
    /\ entries # <<>>
    /\ diff[text.version] = [from |-> written[HeadVersion], to |-> text]

FaithfulInv == LedgerInv /\ (\A i \in DOMAIN entries : EntryFaithful(i)) /\ ArtifactFaithful
================================================================================
