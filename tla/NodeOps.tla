-------------------------------- MODULE NodeOps --------------------------------
(***************************************************************************)
(* The operations that change a node and everything kept beside it: create,*)
(* update, publish, review holds, archive, move, delete, forget, an        *)
(* imported forget, and the embedding index (api/core-executors.ts,        *)
(* review.ts, suggestions.ts, lifecycle.ts, forget.ts, tombstones.ts,      *)
(* chain-log.ts, semantic/embedding-store.ts), storage call by storage     *)
(* call, with a process that may die between any two calls.                *)
(*                                                                         *)
(* Every operation runs under the vault lock (module VaultLock), so one    *)
(* runs at a time and its local variables are `job`.  Two actors do not    *)
(* take it: an author's editor, and an embedding run, which reads the      *)
(* vault, computes for as long as a remote provider takes, and takes the   *)
(* lock only to save.                                                      *)
(*                                                                         *)
(* A text is its body; a recorded version is identified by the moment it   *)
(* was recorded (its stamp), which stands for the number DocHistory is     *)
(* about and for the updated_at line that every edit changes.              *)
(***************************************************************************)
EXTENDS Naturals, Sequences, FiniteSets, SequencesExt

CONSTANTS
  Path,       \* document ids
  Body,       \* bodies long enough for a forget to record their hashes
  MaxStamp,   \* bound: versions recorded in all
  MaxHold,    \* bound: holds staged in all
  Ops,        \* which operations are called
  Faults,     \* "crash", "tear", "edit"
  None

ASSUME FaultsAssumption == Faults \subseteq {"crash", "tear", "edit"}
ASSUME BoundAssumption == MaxStamp \in Nat /\ MaxHold \in Nat

VARIABLES
  live,     \* the live file of each path: None, or status, status before an archive, body, version
  entries,  \* history.yaml: stamp, body, tombstone
  files,    \* version artifacts: stamp and body, None for a stub's
  holds,    \* staged suggestions: patch and meta files
  log,      \* chain_events.yaml: forget and delete records
  torn,     \* that file no longer parses
  vectors,  \* the embedding index: for each path, None or what the row was made of
  job,      \* local variables of the operation under the lock
  embed,    \* local variables of the embedding run
  stamp,    \* versions recorded so far
  staged,   \* holds staged so far
  applied,  \* history: for each hold, the versions recorded from it
  struck    \* history: an operation was cut short by a crash

disk == <<live, entries, files, holds, log, torn, vectors>>
counts == <<stamp, staged, applied, struck>>
vars == <<disk, job, embed, counts>>

Stamp == 1 .. MaxStamp
Hold == 1 .. MaxHold
Status == {"draft", "pending_review", "published", "rejected", "forgotten"}

Node == [status: Status, was: Status \union {None}, body: Body \union {None}, at: Stamp \union {0}]
Entry == [at: Stamp, body: Body \union {None}, tomb: BOOLEAN]
Artifact == [at: Stamp, body: Body \union {None}]
HoldFile == [id: Hold, base: Stamp, body: Body, patch: BOOLEAN, meta: BOOLEAN]
Event == [path: Path, mode: {"forget", "delete"}, bodies: SUBSET Body, here: BOOLEAN]
Row == [at: Stamp \union {0}, body: Body \union {None}]

ASSUME NoneAssumption == None \notin Path \union Body /\ None \notin Node

Idle == [op |-> "none", pc |-> "idle", path |-> None, to |-> None, body |-> None,
         hold |-> 0, shelve |-> <<>>, erase |-> {}]

TypeOK ==
  /\ live \in [Path -> Node \union {None}]
  /\ entries \in [Path -> Seq(Entry)]
  /\ files \in [Path -> SUBSET Artifact]
  /\ holds \in [Path -> SUBSET HoldFile]
  /\ log \subseteq Event
  /\ torn \in BOOLEAN
  /\ vectors \in [Path -> Row \union {None}]
  /\ stamp \in 0 .. MaxStamp /\ staged \in 0 .. MaxHold
  /\ applied \in [Hold -> SUBSET Stamp]
  /\ job.pc = "idle" => job = Idle

Init ==
  /\ live = [p \in Path |-> None]
  /\ entries = [p \in Path |-> <<>>]
  /\ files = [p \in Path |-> {}]
  /\ holds = [p \in Path |-> {}]
  /\ log = {}
  /\ torn = FALSE
  /\ vectors = [p \in Path |-> None]
  /\ job = Idle
  /\ embed = None
  /\ stamp = 0
  /\ staged = 0
  /\ applied = [h \in Hold |-> {}]
  /\ struck = FALSE

--------------------------------------------------------------------------------
(* What the operations read.                                               *)

IsRejected(p) == live[p].status = "rejected"
IsArchived(p) == IsRejected(p) /\ live[p].was # None
IsForgotten(p) == live[p].status = "forgotten"
IsPublished(p) == live[p].status = "published"

\* readTombstones: a log that does not parse gives no records.
Records == IF torn THEN {} ELSE log

PathForgotten(p) == \E e \in Records : e.path = p /\ e.mode = "forget"
ErasedBody(body) == \E e \in Records : body \in e.bodies

\* Mutant: assertNotForgotten looks at the path only.
MayHoldAtPath(p, body) == ~PathForgotten(p)

\* assertNotForgotten.
MayHold(p, body) == ~PathForgotten(p) /\ ~ErasedBody(body)

\* The entries whose content was not erased.
Kept(p) == {e \in Range(entries[p]) : ~e.tomb}

\* approvedHead: the newest entry, None without a history.
HeadEntry(p) == IF entries[p] = <<>> THEN None ELSE Last(entries[p])

Listed(p) == {h \in holds[p] : h.meta}
Readable(h) == h.meta /\ h.patch

\* applyStagedEdit: the patch touches the updated_at line, so it fits its base only.
Applies(p, h) == HeadEntry(p) # None /\ Readable(h) /\ HeadEntry(p).at = h.base

\* Mutant: holdsWithHead compares body hashes and nothing else.
StaleByBody(p, h) ==
  HeadEntry(p) = None \/ ~Readable(h)
    \/ ~\E e \in Range(entries[p]) : e.at = h.base /\ e.body = HeadEntry(p).body

\* holdsWithHead: the target hash is the head's, and the patch applies to it.
Stale(p, h) == ~Applies(p, h)

NewestOf(hs) == CHOOSE h \in hs : \A g \in hs : g.id <= h.id

Fresh(p) == {h \in Listed(p) : ~Stale(p, h)}

\* currentReviewProposal.
Proposal(p) == IF Fresh(p) = {} THEN None ELSE NewestOf(Fresh(p))

\* assertNoPendingReview.
NoPendingReview(p) == live[p].status # "pending_review" /\ Listed(p) = {}

--------------------------------------------------------------------------------
(* Operations that begin under the lock.                                   *)

Begin(op) == job.pc = "idle" /\ op \in Ops

\* The bound: what records a version starts only while a stamp is left.
RoomForVersion == stamp < MaxStamp

Go(op, pc, p) == [Idle EXCEPT !.op = op, !.pc = pc, !.path = p]

Draft(body, status) == [status |-> status, was |-> None, body |-> body, at |-> 0]

\* writeDocument of a live file.
WriteLive(p, node) == live' = [live EXCEPT ![p] = node]

\* context_create: the exclusive write, as a draft, a held write, or one that
\* is published at once.
Create(p, body, how) ==
  /\ Begin("create")
  /\ how = "publish" => RoomForVersion
  /\ live[p] = None
  /\ MayHold(p, body)
  /\ WriteLive(p, Draft(body, IF how = "hold" THEN "pending_review" ELSE "draft"))
  /\ job' = IF how = "publish" THEN Go("publish", "judge", p) ELSE Idle
  /\ UNCHANGED <<entries, files, holds, log, torn, vectors, embed, counts>>

\* context_update's guards: an archived or a forgotten document takes no edit,
\* a rejected one only together with another status.
MayEdit(p, revive) ==
  /\ live[p] # None
  /\ ~IsArchived(p) /\ ~IsForgotten(p)
  /\ IsRejected(p) => revive

\* An update that publishes, and one that keeps the document unpublished.
Update(p, body, how) ==
  /\ Begin("update")
  /\ how = "publish" => RoomForVersion
  /\ MayEdit(p, how = "draft")
  /\ how \in {"publish", "draft"}
  /\ WriteLive(p, [live[p] EXCEPT !.body = body, !.status = IF how = "draft" THEN "draft" ELSE @])
  /\ job' = IF how = "publish" THEN Go("publish", "judge", p) ELSE Idle
  /\ UNCHANGED <<entries, files, holds, log, torn, vectors, embed, counts>>

\* context_update held for review: an unpublished node, or one without a
\* history, is written as pending; a published one is left alone and the edit
\* is staged against the chain's head, superseding the proposal it builds on.
HoldUpdate(p, body) ==
  /\ Begin("hold")
  /\ MayEdit(p, FALSE)
  /\ IF IsPublished(p) /\ HeadEntry(p) # None
     THEN /\ staged < MaxHold
          /\ staged' = staged + 1
          /\ holds' = [holds EXCEPT ![p] = @ \union {[id |-> staged', base |-> HeadEntry(p).at, body |-> body,
                                                      patch |-> TRUE, meta |-> FALSE]}]
          /\ job' = [Go("stage", "meta", p) EXCEPT !.hold = staged',
                       !.shelve = IF Proposal(p) = None THEN <<>> ELSE <<Proposal(p).id>>]
          /\ UNCHANGED live
     ELSE /\ WriteLive(p, [live[p] EXCEPT !.body = body, !.status = "pending_review"])
          /\ UNCHANGED <<holds, staged, job>>
  /\ UNCHANGED <<entries, files, log, torn, vectors, embed, stamp, applied, struck>>

\* writeSuggestionMeta: from here on the hold is listed.
StageMeta ==
  /\ job.op = "stage" /\ job.pc = "meta"
  /\ holds' = [holds EXCEPT ![job.path] =
                 {IF h.id = job.hold THEN [h EXCEPT !.meta = TRUE] ELSE h : h \in @}]
  /\ job' = [job EXCEPT !.pc = "shelve"]
  /\ UNCHANGED <<live, entries, files, log, torn, vectors, embed, counts>>

\* approveReview: the newest hold that is not stale (a stale one is an error).
\* The proposed text goes live, whatever is or is not there, then it is published.
ApproveHold(p) ==
  /\ Begin("approve")
  /\ RoomForVersion
  /\ \E chosen \in Fresh(p) :
       /\ \A h \in Fresh(p) : h.id <= chosen.id
       /\ WriteLive(p, [Draft(chosen.body, "published") EXCEPT !.at = chosen.base])
       /\ job' = [Go("approve", "judge", p) EXCEPT !.hold = chosen.id,
                    !.shelve = <<chosen.id>> \o SetToSortSeq({h.id : h \in Listed(p) \ {chosen}}, <)]
  /\ UNCHANGED <<entries, files, holds, log, torn, vectors, embed, counts>>

\* context_publish: rejected and archived documents are refused.  approveReview of
\* a document without holds is the same, but asks that it is pending as well.
Publish(p) ==
  /\ Begin("publish")
  /\ RoomForVersion
  /\ live[p] # None
  /\ ~IsRejected(p)
  /\ job' = Go("publish", "judge", p)
  /\ UNCHANGED <<disk, embed, counts>>

\* rejectReview: every hold is archived, oldest first; a pending node retires.
RejectHolds(p) ==
  /\ Begin("reject")
  /\ \/ /\ Listed(p) # {}
        /\ job' = [Go("reject", "shelve", p) EXCEPT
                     !.shelve = SetToSortSeq({h.id : h \in Listed(p)}, <)]
        /\ UNCHANGED live
     \/ /\ Listed(p) = {} /\ live[p] # None /\ live[p].status = "pending_review"
        /\ WriteLive(p, [live[p] EXCEPT !.status = "rejected"])
        /\ UNCHANGED job
  /\ UNCHANGED <<entries, files, holds, log, torn, vectors, embed, counts>>

\* archiveDocument and unarchiveDocument: one frontmatter patch.
Archive(p) ==
  /\ Begin("archive")
  /\ live[p] # None
  /\ live[p].was = None /\ ~IsForgotten(p)
  /\ NoPendingReview(p)
  /\ WriteLive(p, [live[p] EXCEPT !.status = "rejected", !.was = live[p].status])
  /\ job' = Go("archive", "purge", p)
  /\ UNCHANGED <<entries, files, holds, log, torn, vectors, embed, counts>>

Unarchive(p) ==
  /\ Begin("archive")
  /\ live[p] # None /\ live[p].was # None
  /\ WriteLive(p, [live[p] EXCEPT !.status = live[p].was, !.was = None])
  /\ UNCHANGED <<entries, files, holds, log, torn, vectors, job, embed, counts>>

\* restoreSealedVersion: a version that still rebuilds becomes the live file
\* again, whatever is there, and no version is cut.
Restore(p) ==
  /\ Begin("restore")
  /\ \E e \in Kept(p) :
       /\ \E f \in files[p] : f.at = e.at
       /\ WriteLive(p, [Draft(e.body, IF e.body = None THEN "forgotten" ELSE "published") EXCEPT !.at = e.at])
  /\ UNCHANGED <<entries, files, holds, log, torn, vectors, job, embed, counts>>

\* moveDocument: the exclusive write claims the destination.
Move(p, q) ==
  /\ Begin("move")
  /\ p # q
  /\ live[p] # None /\ live[q] = None
  /\ ~IsForgotten(p)
  /\ NoPendingReview(p)
  /\ MayHold(q, live[p].body)
  /\ WriteLive(q, live[p])
  /\ job' = [Go("move", "carry", p) EXCEPT !.to = q]
  /\ UNCHANGED <<entries, files, holds, log, torn, vectors, embed, counts>>

\* Mutant: the file is deleted before its delete is recorded.
DeleteUnrecorded(p, purge) ==
  /\ Begin("delete")
  /\ live[p] # None
  /\ job' = Go(IF purge THEN "purge" ELSE "delete", "unlink", p)
  /\ UNCHANGED <<disk, embed, counts>>

\* deleteDocumentWithTombstone: record first, unless the record exists or is
\* waived, then delete.
Delete(p, purge) ==
  /\ Begin("delete")
  /\ live[p] # None
  /\ job' = Go(IF purge THEN "purge" ELSE "delete",
               IF purge \/ IsForgotten(p) THEN "unlink" ELSE "record", p)
  /\ UNCHANGED <<disk, embed, counts>>

\* Mutant: only the live body is collected.
HeldLive(p) == {live[p].body}

\* collectErasedHashes: the live body, and every version that still rebuilds.
Held(p) ==
  {live[p].body} \union
    {e.body : e \in {x \in Kept(p) : \E f \in files[p] : f.at = x.at}}

Forget(p) ==
  /\ Begin("forget")
  /\ RoomForVersion
  /\ live[p] # None /\ ~IsForgotten(p)
  /\ job' = [Go("forget", "tombstone", p) EXCEPT !.erase = Held(p) \ {None}]
  /\ UNCHANGED <<disk, embed, counts>>

\* applyImportedTombstones: a record of a forget made elsewhere is logged
\* first, then applied to the copy here; it is refused when that copy holds
\* none of what it erased, and a stub that is here already is only swept.
Import(p, bodies) ==
  /\ Begin("import")
  /\ RoomForVersion
  /\ ~torn
  /\ live[p] # None /\ ~IsForgotten(p) => Held(p) \intersect bodies # {}
  /\ log' = log \union {[path |-> p, mode |-> "forget", bodies |-> bodies, here |-> FALSE]}
  /\ job' = CASE live[p] = None   -> Idle
              [] IsForgotten(p)   -> Go("sweep", "erase", p)
              [] OTHER            -> Go("import", "tombstone", p)
  /\ UNCHANGED <<live, entries, files, holds, torn, vectors, embed, counts>>

--------------------------------------------------------------------------------
(* Publishing: the live file, the artifact, the entry.                     *)

Step(pc) == job' = [job EXCEPT !.pc = pc]

Return == job' = Idle

\* writePublishedVersion judges what is in the file now, and throws for a
\* rejected document and for a path or a body that was forgotten.
Refusable(p) == IsRejected(p) \/ IsForgotten(p) \/ ~MayHold(p, live[p].body)

PublishRefused ==
  /\ job.pc = "judge"
  /\ Refusable(job.path)
  /\ Return
  /\ UNCHANGED <<disk, embed, counts>>

PublishLive ==
  /\ job.pc = "judge"
  /\ ~Refusable(job.path)
  /\ stamp' = stamp + 1
  /\ WriteLive(job.path, [Draft(live[job.path].body, "published") EXCEPT !.at = stamp'])
  /\ job' = [job EXCEPT !.pc = "artifact", !.body = live[job.path].body]
  /\ UNCHANGED <<entries, files, holds, log, torn, vectors, embed, staged, applied, struck>>

SealArtifact ==
  /\ job.pc = "artifact"
  /\ files' = [files EXCEPT ![job.path] = @ \union {[at |-> stamp, body |-> job.body]}]
  /\ Step("entry")
  /\ UNCHANGED <<live, entries, holds, log, torn, vectors, embed, counts>>

\* The entry.  An approval goes on to archive its holds, a forget to its record;
\* an import goes on to nothing.
AppendEntry ==
  /\ job.pc = "entry"
  /\ entries' = [entries EXCEPT ![job.path] = Append(@, [at |-> stamp, body |-> job.body, tomb |-> FALSE])]
  /\ applied' = IF job.op = "approve" THEN [applied EXCEPT ![job.hold] = @ \union {stamp}] ELSE applied
  /\ CASE job.op = "approve" -> Step("shelve")
       [] job.op = "forget"  -> Step("record")
       [] OTHER              -> Return
  /\ UNCHANGED <<live, files, holds, log, torn, vectors, embed, stamp, staged, struck>>

--------------------------------------------------------------------------------
(* archiveSuggestion: the patch file is moved away, then the meta file.    *)

HoldFileOf(id) == CHOOSE h \in holds[job.path] : h.id = id

NextShelf == job' = IF Len(job.shelve) = 1 THEN Idle
                    ELSE [job EXCEPT !.pc = "shelve", !.shelve = Tail(@)]

ShelveNothing ==
  /\ job.pc = "shelve" /\ job.shelve = <<>>
  /\ Return
  /\ UNCHANGED <<disk, embed, counts>>

ShelvePatch ==
  /\ job.pc = "shelve" /\ job.shelve # <<>>
  /\ HoldFileOf(job.shelve[1]).patch
  /\ holds' = [holds EXCEPT ![job.path] =
                 {IF h.id = job.shelve[1] THEN [h EXCEPT !.patch = FALSE] ELSE h : h \in @}]
  /\ Step("shelved")
  /\ UNCHANGED <<live, entries, files, log, torn, vectors, embed, counts>>

\* No patch to move: a rejection throws; the others ignore it.
ShelveFails ==
  /\ job.pc = "shelve" /\ job.shelve # <<>>
  /\ ~HoldFileOf(job.shelve[1]).patch
  /\ IF job.op = "reject" THEN Return ELSE NextShelf
  /\ UNCHANGED <<disk, embed, counts>>

ShelveMeta ==
  /\ job.pc = "shelved"
  /\ holds' = [holds EXCEPT ![job.path] = {h \in @ : h.id # job.shelve[1]}]
  /\ NextShelf
  /\ UNCHANGED <<live, entries, files, log, torn, vectors, embed, counts>>

--------------------------------------------------------------------------------
(* Forgetting: tombstone every entry, erase, write and seal a stub, record. *)

\* Mutant: the history is not written back before the erasure.
TombstoneUnwritten == job.pc = "tombstone" /\ Step("erase") /\ UNCHANGED <<disk, embed, counts>>

Tombstone ==
  /\ job.pc = "tombstone"
  /\ entries' = [entries EXCEPT ![job.path] = [i \in DOMAIN @ |-> [@[i] EXCEPT !.tomb = TRUE]]]
  /\ Step("erase")
  /\ UNCHANGED <<live, files, holds, log, torn, vectors, embed, counts>>

\* Mutant: artifacts of entries that are tombstoned by now are passed over.
ToEraseKept ==
  {f \in files[job.path] : \E e \in Range(entries[job.path]) : e.at = f.at /\ ~e.tomb}

\* removeVersionArtifacts is called for the entries of the history only: for
\* all of them by a forget, for the tombstoned ones by a sweep.
ToErase ==
  {f \in files[job.path] : \E e \in Range(entries[job.path]) :
                              e.at = f.at /\ (job.op = "sweep" => e.tomb)}

EraseArtifact ==
  /\ job.pc = "erase"
  /\ \E f \in ToErase :
       /\ \A g \in ToErase : f.at <= g.at
       /\ files' = [files EXCEPT ![job.path] = @ \ {f}]
  /\ UNCHANGED <<live, entries, holds, log, torn, vectors, job, embed, counts>>

\* A sweep ends here; a forget goes on to removeSuggestions.
Discard ==
  /\ job.pc = "erase"
  /\ ToErase = {}
  /\ IF job.op = "sweep" THEN Return /\ UNCHANGED holds
     ELSE Step("stub") /\ holds' = [holds EXCEPT ![job.path] = {}]
  /\ UNCHANGED <<live, entries, files, log, torn, vectors, embed, counts>>

Stub ==
  /\ job.pc = "stub"
  /\ stamp' = stamp + 1
  /\ WriteLive(job.path, [status |-> "forgotten", was |-> None, body |-> None, at |-> stamp'])
  /\ job' = [job EXCEPT !.pc = "artifact", !.body = None]
  /\ UNCHANGED <<entries, files, holds, log, torn, vectors, embed, staged, applied, struck>>

\* record: reading the log throws when it does not parse, and ends the operation.
Record ==
  /\ job.pc = "record"
  /\ IF torn THEN Return /\ UNCHANGED log
     ELSE /\ log' = log \union {[path |-> job.path, mode |-> job.op, bodies |-> job.erase, here |-> TRUE]}
          /\ Step(IF job.op = "delete" THEN "unlink" ELSE "purge")
  /\ UNCHANGED <<live, entries, files, holds, torn, vectors, embed, counts>>

--------------------------------------------------------------------------------
(* deleteDocument, moveHistory, purgeEmbeddings.                           *)

Unlink ==
  /\ job.pc = "unlink"
  /\ WriteLive(job.path, None)
  /\ Step("history")
  /\ UNCHANGED <<entries, files, holds, log, torn, vectors, embed, counts>>

\* The version directory goes; the staged suggestions stay.
RemoveHistory ==
  /\ job.pc = "history"
  /\ entries' = [entries EXCEPT ![job.path] = <<>>]
  /\ files' = [files EXCEPT ![job.path] = {}]
  /\ IF job.op = "undo" THEN Return ELSE Step("purge")
  /\ UNCHANGED <<live, holds, log, torn, vectors, embed, counts>>

Purge ==
  /\ job.pc = "purge"
  /\ vectors' = [vectors EXCEPT ![job.path] = None]
  /\ Return
  /\ UNCHANGED <<live, entries, files, holds, log, torn, embed, counts>>

HasHistory(p) == entries[p] # <<>> \/ files[p] # {}

\* Mutant: every failure of the rename is taken for a missing source.
CarryAnyway ==
  /\ job.pc = "carry"
  /\ Step("unlink")
  /\ IF HasHistory(job.path) /\ ~HasHistory(job.to)
     THEN /\ entries' = [entries EXCEPT ![job.to] = entries[job.path], ![job.path] = <<>>]
          /\ files' = [files EXCEPT ![job.to] = files[job.path], ![job.path] = {}]
     ELSE UNCHANGED <<entries, files>>
  /\ UNCHANGED <<live, holds, log, torn, vectors, embed, counts>>

\* One rename of the version directory: a missing source is fine, and a
\* destination that has one fails; the copy is then deleted again.
Carry ==
  /\ job.pc = "carry"
  /\ IF HasHistory(job.path) /\ HasHistory(job.to)
     THEN /\ job' = [job EXCEPT !.op = "undo", !.pc = "unlink", !.path = job.to]
          /\ UNCHANGED <<entries, files>>
     ELSE /\ Step("unlink")
          /\ IF HasHistory(job.path)
             THEN /\ entries' = [entries EXCEPT ![job.to] = entries[job.path], ![job.path] = <<>>]
                  /\ files' = [files EXCEPT ![job.to] = files[job.path], ![job.path] = {}]
             ELSE UNCHANGED <<entries, files>>
  /\ UNCHANGED <<live, holds, log, torn, vectors, embed, counts>>

--------------------------------------------------------------------------------
(* Actors without the lock, and faults.                                    *)

\* An author saves the file in an editor.
HandEdit(p, body) ==
  /\ "edit" \in Faults
  /\ live[p] # None /\ ~IsForgotten(p)
  /\ WriteLive(p, [live[p] EXCEPT !.body = body])
  /\ UNCHANGED <<entries, files, holds, log, torn, vectors, job, embed, counts>>

\* keyFor: a published document's version and text.
KeyOf(p) == IF live[p] # None /\ IsPublished(p) THEN [at |-> live[p].at, body |-> live[p].body] ELSE None

\* buildEmbeddings: what it read, and will hold vectors of.
EmbedRead ==
  /\ "embed" \in Ops
  /\ embed = None
  /\ embed' = [p \in Path |-> KeyOf(p)]
  /\ UNCHANGED <<disk, job, counts>>

\* Mutant: the save trusts what the run read.
RetainAll(rows) == rows

\* retainCurrent: only rows of the current published state are kept.
RetainCurrent(rows) == [p \in Path |-> IF rows[p] = KeyOf(p) THEN rows[p] ELSE None]

\* A save, under the lock; after every few batches, so maybe not the last.
EmbedSave ==
  /\ embed # None
  /\ job.pc = "idle"
  /\ vectors' = RetainCurrent(embed)
  /\ embed' \in {None, vectors'}
  /\ UNCHANGED <<live, entries, files, holds, log, torn, job, counts>>

\* The process dies between two calls; the lock is stolen later.
Crash ==
  /\ "crash" \in Faults
  /\ job.pc # "idle"
  /\ Return
  /\ struck' = TRUE
  /\ UNCHANGED <<disk, embed, stamp, staged, applied>>

\* It dies within the rewrite of the log.
TearLog ==
  /\ "tear" \in Faults
  /\ job.pc = "record" /\ ~torn
  /\ Return
  /\ torn' = TRUE
  /\ log' = {}
  /\ struck' = TRUE
  /\ UNCHANGED <<live, entries, files, holds, vectors, embed, stamp, staged, applied>>

--------------------------------------------------------------------------------
Called(p) ==
  \/ \E body \in Body, how \in {"draft", "hold", "publish"} : Create(p, body, how)
  \/ \E body \in Body, how \in {"draft", "publish"} : Update(p, body, how)
  \/ \E body \in Body : HoldUpdate(p, body)
  \/ ApproveHold(p)
  \/ Publish(p)
  \/ RejectHolds(p)
  \/ Archive(p)
  \/ Unarchive(p)
  \/ Restore(p)
  \/ \E q \in Path : Move(p, q)
  \/ \E purge \in BOOLEAN : Delete(p, purge)
  \/ Forget(p)
  \/ \E bodies \in SUBSET Body \ {{}} : Import(p, bodies)

Continued ==
  \/ StageMeta
  \/ PublishRefused \/ PublishLive \/ SealArtifact \/ AppendEntry
  \/ ShelveNothing \/ ShelvePatch \/ ShelveFails \/ ShelveMeta
  \/ Tombstone \/ EraseArtifact \/ Discard \/ Stub \/ Record
  \/ Unlink \/ RemoveHistory \/ Purge \/ Carry

Outside ==
  \/ \E p \in Path, body \in Body : HandEdit(p, body)
  \/ EmbedRead
  \/ EmbedSave
  \/ Crash
  \/ TearLog

Next == (\E p \in Path : Called(p)) \/ Continued \/ Outside

Spec == Init /\ [][Next]_vars

--------------------------------------------------------------------------------
(* Properties.                                                             *)

AtRest == job.pc = "idle"

\* An entry that is not tombstoned has its artifact, whatever crash came
\* before: a forget tombstones first and erases second (forget.ts).
NoSilentGap == \A p \in Path : \A e \in Kept(p) : \E f \in files[p] : f.at = e.at

\* Where the stub of a forget stands, nothing of what was there is left: no
\* hold, listed or not, and no content in the artifact of any entry (forget.ts).
ForgottenIsErased ==
  \A p \in Path : live[p] # None /\ IsForgotten(p) =>
    /\ holds[p] = {}
    /\ \A e \in Range(entries[p]), f \in files[p] : f.at = e.at => f.body = None

\* No operation gives a retired path a version with content, nor records a body
\* that a forget erased anywhere, whatever was staged, moved or edited before
\* the forget (assertNotForgotten in forget.ts).
NoResurrection ==
  [][\A p \in Path : Len(entries'[p]) > Len(entries[p]) /\ Last(entries'[p]).body # None =>
       /\ ~PathForgotten(p)
       /\ job.op # "move" => ~ErasedBody(Last(entries'[p]).body)]_vars

\* A hold is recorded at most once: a crash between the publish and the
\* archiving of the hold, and a return to the text the hold was made on, do
\* not apply it again (holdsWithHead in review.ts).
HoldAppliedOnce == \A h \in Hold : Cardinality(applied[h]) <= 1

\* A live file vanishes only with an account of it: its delete is on record,
\* or was waived, it was a stub, or what a move took or claimed is the other
\* path's (forget.ts, lifecycle.ts).
DeletionAccounted ==
  [][\A p \in Path : live[p] # None /\ live'[p] = None =>
       \/ job.op = "purge" \/ IsForgotten(p)
       \/ job.op = "move" /\ live[job.to] # None
       \/ job.op = "undo"
       \/ \E e \in log : e.path = p /\ e.mode = "delete"]_vars

\* The source of a move is deleted only when its history has left it, so a
\* move that fails or dies part of the way never loses a chain (lifecycle.ts).
MoveKeepsHistory ==
  [][\A p \in Path : job.op = "move" /\ live[p] # None /\ live'[p] = None => ~HasHistory(p)]_vars

\* What was forgotten, deleted or archived here is not in the index, though an
\* embedding run that read it earlier may save later (purgeEmbeddings and
\* retainCurrent).  A crash between the two, and an imported forget, leave it.
NoErasedVector ==
  ~struck /\ AtRest =>
    \A p \in Path : live[p] = None \/ IsForgotten(p) \/ IsArchived(p) =>
      vectors[p] = None \/ \E e \in log : e.path = p /\ ~e.here

\* The record of a forget made here names every body that was erased, so none
\* of them can come back by another path (collectErasedHashes).
ErasureOnRecord ==
  ~struck /\ AtRest =>
    \A p \in Path : live[p] # None /\ IsForgotten(p) /\ (\A e \in log : e.path = p => e.here) =>
      \A e \in Range(entries[p]) : e.body = None \/ ErasedBody(e.body)

--------------------------------------------------------------------------------
(* The inductive invariant.                                                *)

\* What the steps of an operation take for granted of its locals.
JobOK ==
  /\ DOMAIN job = DOMAIN Idle
  /\ job.pc # "idle" => job.path \in Path
  /\ job.erase \subseteq Body /\ job.body \in Body \union {None}
  /\ job.op = "approve" => job.hold \in Hold
  /\ job.op = "move" => job.to \in Path /\ job.to # job.path
  /\ job.pc \in {"judge", "tombstone", "stub"} => stamp < MaxStamp
  /\ job.pc = "erase" /\ job.op # "sweep" => stamp < MaxStamp
  /\ job.pc \in {"artifact", "entry"} => stamp > 0
  /\ job.pc = "judge" => job.op \in {"publish", "approve"}
  /\ job.pc \in {"tombstone", "stub"} => job.op \in {"forget", "import"}
  /\ job.pc = "erase" => job.op \in {"forget", "import", "sweep"}
  /\ job.pc = "record" => job.op \in {"forget", "delete"}
  /\ job.pc = "unlink" => job.op \in {"delete", "purge", "move", "undo"}
  /\ job.pc = "carry" => job.op = "move"

\* A stamp names one entry of one path, and the version being recorded has none yet.
StampsApart ==
  /\ \A p \in Path : \A i \in DOMAIN entries[p] : entries[p][i].at <= stamp
  /\ \A p, q \in Path : \A i \in DOMAIN entries[p], j \in DOMAIN entries[q] :
       entries[p][i].at = entries[q][j].at => p = q /\ i = j
  /\ job.pc \in {"artifact", "entry"} =>
       \A p \in Path : \A i \in DOMAIN entries[p] : entries[p][i].at # stamp

\* What has been done by the time an operation gets where it is.
DoneSoFar ==
  /\ job.pc = "judge" => live[job.path] # None
  /\ job.pc = "entry" => \E f \in files[job.path] : f.at = stamp
  /\ job.pc = "erase" /\ job.op # "sweep" =>
       \A i \in DOMAIN entries[job.path] : entries[job.path][i].tomb
  /\ job.pc \in {"artifact", "entry"} /\ job.body # None => MayHold(job.path, job.body)
  /\ job.pc = "carry" => live[job.to] # None /\ ~PathForgotten(job.to)
  /\ job.pc = "unlink" /\ job.op = "move" => live[job.to] # None /\ ~HasHistory(job.path)
  /\ job.pc = "unlink" /\ job.op = "delete" =>
       \/ live[job.path] # None /\ IsForgotten(job.path)
       \/ \E e \in log : e.path = job.path /\ e.mode = "delete"

CoreInv == TypeOK /\ JobOK /\ StampsApart /\ DoneSoFar /\ NoSilentGap

\* The newest entry of a path has this stamp.
HeadIs(p, s) == entries[p] # <<>> /\ Last(entries[p]).at = s

\* A hold's number names one hold, of one path, made on one version, which is
\* older than the version being recorded.
HoldsApart ==
  /\ \A p \in Path : \A h \in holds[p] : h.id <= staged /\ h.base <= stamp
  /\ \A p, q \in Path : \A h \in holds[p], g \in holds[q] : h.id = g.id => p = q /\ h.base = g.base
  /\ job.pc \in {"artifact", "entry"} => \A p \in Path : \A h \in holds[p] : h.base # stamp

\* What was recorded from a hold, once it was, left the version it was made on
\* behind: no history has that version at its head any more.
BaseLeft ==
  /\ \A h \in Hold : applied[h] # {} => h <= staged
  /\ \A h \in Hold : \A s, t \in applied[h] : s = t
  /\ \A p, q \in Path : \A h \in holds[p] : applied[h.id] # {} => ~HeadIs(q, h.base)
  /\ job.op = "approve" /\ job.pc \in {"judge", "artifact", "entry"} =>
       \E h \in holds[job.path] : h.id = job.hold /\ HeadIs(job.path, h.base)

HoldInv == HoldsApart /\ BaseLeft

\* An entry and its artifact hold one text.
ArtifactsAgree ==
  /\ \A p \in Path : \A f \in files[p] : f.at <= stamp
  /\ job.pc = "artifact" => \A f \in files[job.path] : f.at # stamp
  /\ job.pc = "entry" => \A f \in files[job.path] : f.at = stamp => f.body = job.body
  /\ \A p \in Path : \A i \in DOMAIN entries[p], f \in files[p] :
       f.at = entries[p][i].at => f.body = entries[p][i].body

\* A stub, and nothing else, has no text; an archived document was no stub.
LiveText ==
  /\ \A p \in Path : live[p] # None =>
       /\ live[p].body = None <=> IsForgotten(p)
       /\ live[p].was # None => IsRejected(p) /\ live[p].was # "forgotten"
  /\ job.pc \in {"artifact", "entry"} =>
       /\ live[job.path] # None /\ (job.body = None <=> IsForgotten(job.path))
       /\ job.op \in IF job.body = None THEN {"forget", "import"} ELSE {"publish", "approve"}
  /\ job.pc = "carry" => live[job.path] # None /\ ~IsForgotten(job.path) /\ ~IsForgotten(job.to)

\* The stub of a forget stands at a path.
Stubbed(p) == live[p] # None /\ IsForgotten(p)

NothingLeft(p) ==
  /\ holds[p] = {}
  /\ \A i \in DOMAIN entries[p], f \in files[p] : f.at = entries[p][i].at => entries[p][i].body = None

\* What a stub stands for is gone when it is written, and stays gone.
StubsAlone ==
  /\ \A p \in Path : Stubbed(p) => NothingLeft(p)
  /\ job.pc = "stub" => NothingLeft(job.path)

\* Without a crash, a stub or a tombstone is in the history of a forgotten
\* document only, or of one whose forget or removal is under way.
StubsLive ==
  /\ ~torn
  /\ \A p \in Path : \A i \in DOMAIN entries[p] :
       /\ entries[p][i].body = None => Stubbed(p) \/ (job.path = p /\ job.pc = "history")
       /\ entries[p][i].tomb =>
            \/ Stubbed(p)
            \/ job.path = p /\ job.pc = "history"
            \/ job.path = p /\ job.pc \in {"erase", "stub"} /\ job.op # "sweep"

\* A forget that has collected what it erases, and has not recorded it yet.
Forgetting(p) ==
  /\ job.op = "forget" /\ job.path = p
  /\ job.pc \in {"tombstone", "erase", "stub", "artifact", "entry", "record"}

\* The forget of a path was imported.
ForgottenElsewhere(p) == \E e \in log : e.path = p /\ ~e.here

\* Without a crash, what a forget collected is what the history held, and ends on record.
Collected ==
  /\ job.op = "import" => ForgottenElsewhere(job.path)
  /\ \A p \in Path : Forgetting(p) => \A i \in DOMAIN entries[p] : entries[p][i].body \in job.erase \union {None}
  /\ \A p \in Path : Stubbed(p) =>
       \/ ForgottenElsewhere(p) \/ Forgetting(p)
       \/ \A i \in DOMAIN entries[p] : entries[p][i].body = None \/ ErasedBody(entries[p][i].body)

\* Without a crash, no vector is left of what is gone, unless the forget was imported.
Gone(p) == live[p] = None \/ IsForgotten(p) \/ IsArchived(p)

Clean(p) == vectors[p] = None \/ ForgottenElsewhere(p)

PurgeDue(p) ==
  /\ job.path = p
  /\ \/ job.pc = "purge"
     \/ job.pc = "history" /\ job.op # "undo"
     \/ job.pc \in {"artifact", "entry", "record"} /\ job.op = "forget"

Purged ==
  /\ \A p \in Path : Gone(p) => Clean(p) \/ PurgeDue(p)
  /\ job.pc = "carry" => Clean(job.to)
  /\ job.op = "undo" => Clean(job.path)

ForgetInv ==
  /\ ArtifactsAgree /\ LiveText
  /\ "restore" \notin Ops \/ ~struck => StubsAlone
  /\ ~struck => StubsLive /\ Collected /\ Purged

NodeInv == CoreInv /\ HoldInv /\ ForgetInv
================================================================================
