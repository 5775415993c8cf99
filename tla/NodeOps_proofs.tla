---------------------------- MODULE NodeOps_proofs ----------------------------
(***************************************************************************)
(* What the operations on a node guarantee, for any paths, bodies, bounds,  *)
(* operations and faults.  The inductive invariant comes in three parts:   *)
(* the core (no artifact goes missing), the holds (a hold is recorded once) *)
(* and the forgets (nothing of a forgotten document is left, nor comes      *)
(* back).  The end of the module draws the properties from them.            *)
(*                                                                         *)
(* Three kinds of steps are told apart: calls, which open an operation;     *)
(* housekeeping, which records and erases nothing; and the steps that do.   *)
(***************************************************************************)
EXTENDS NodeOps, FiniteSetTheorems, SequenceTheorems, TLAPS

\* The locals a call leaves its operation with.
JobOpened(p) ==
  /\ DOMAIN job' = DOMAIN Idle
  /\ job'.pc = "idle" => job' = Idle
  /\ job'.pc # "idle" => job'.path = p
  /\ job'.body = None /\ job'.erase \subseteq Body
  /\ job'.pc \in {"idle", "judge", "meta", "shelve", "purge", "carry", "unlink", "record", "tombstone", "erase"}
  /\ job'.pc \in {"judge", "tombstone"} => stamp < MaxStamp
  /\ job'.op = "approve" => job'.hold \in Hold
  /\ job'.op = "move" => job'.pc = "carry" /\ job'.to \in Path /\ job'.to # p
  /\ job'.pc = "carry" => job'.op = "move" /\ live'[job'.to] # None /\ ~PathForgotten(job.to)'
  /\ job'.pc = "judge" => job'.op \in {"publish", "approve"}
  /\ job'.pc = "tombstone" => job'.op \in {"forget", "import"}
  /\ job'.pc = "erase" => job'.op = "sweep"
  /\ job'.pc = "record" => job'.op = "delete"
  /\ job'.pc = "unlink" => job'.op = "purge" \/ (job'.op = "delete" /\ live'[p] # None /\ IsForgotten(p)')

\* Every call opens its operation in one of the states the invariant allows.
LEMMA CallOpens ==
  ASSUME CoreInv, NEW p \in Path, Called(p)
  PROVE  JobOpened(p)
<1> USE BoundAssumption DEF CoreInv, TypeOK, JobOK, Begin, Go, Idle, JobOpened, RoomForVersion, Stamp, Hold
<1>1. ASSUME NEW body \in Body, NEW how \in {"draft", "hold", "publish"}, Create(p, body, how)
      PROVE  JobOpened(p)
  <2>1. job' = Idle \/ (job' = Go("publish", "judge", p) /\ stamp < MaxStamp)
    BY <1>1 DEF Create
  <2>2. CASE job' = Idle
    BY <2>2
  <2>3. CASE job' = Go("publish", "judge", p) /\ stamp < MaxStamp
    BY <2>3
  <2>4. QED
    BY <2>1, <2>2, <2>3
<1>2. ASSUME NEW body \in Body, NEW how \in {"draft", "publish"}, Update(p, body, how)
      PROVE  JobOpened(p)
  <2>1. job' = Idle \/ (job' = Go("publish", "judge", p) /\ stamp < MaxStamp)
    BY <1>2 DEF Update
  <2>2. CASE job' = Idle
    BY <2>2
  <2>3. CASE job' = Go("publish", "judge", p) /\ stamp < MaxStamp
    BY <2>3
  <2>4. QED
    BY <2>1, <2>2, <2>3
<1>3. ASSUME NEW body \in Body, HoldUpdate(p, body)
      PROVE  JobOpened(p)
  <2>1. CASE job' = job
    BY <1>3, <2>1 DEF HoldUpdate
  <2>2. CASE job' # job
    <3>1. \E shelve : job' = [Go("stage", "meta", p) EXCEPT !.hold = staged', !.shelve = shelve]
      BY <1>3, <2>2 DEF HoldUpdate
    <3>2. QED
      BY <3>1
  <2>3. QED
    BY <2>1, <2>2
<1>4. CASE ApproveHold(p)
  BY <1>4 DEF ApproveHold, Fresh, Listed, HoldFile
<1>5. CASE Publish(p)
  BY <1>5 DEF Publish
<1>6. CASE RejectHolds(p)
  <2>1. CASE job' = job
    BY <1>6, <2>1 DEF RejectHolds
  <2>2. CASE Listed(p) # {}
    BY <1>6, <2>2 DEF RejectHolds
  <2>3. QED
    BY <1>6, <2>1, <2>2 DEF RejectHolds
<1>7. CASE Archive(p) \/ Unarchive(p) \/ Restore(p)
  <2>1. job = Idle /\ (job' = Go("archive", "purge", p) \/ job' = job)
    BY <1>7 DEF Archive, Unarchive, Restore
  <2>2. CASE job' = job
    BY <2>1, <2>2
  <2>3. CASE job' = Go("archive", "purge", p)
    BY <2>3
  <2>4. QED
    BY <2>1, <2>2, <2>3
<1>8. ASSUME NEW q \in Path, Move(p, q)
      PROVE  JobOpened(p)
  <2>1. job' = [Go("move", "carry", p) EXCEPT !.to = q] /\ p # q
    BY <1>8 DEF Move
  <2>2. live'[q] = live[p] /\ live[p] # None
    BY <1>8 DEF Move, WriteLive
  <2>3. ~PathForgotten(q)'
    BY <1>8 DEF Move, MayHold, PathForgotten, Records
  <2>4. QED
    BY <2>1, <2>2, <2>3
<1>9. ASSUME NEW purge \in BOOLEAN, Delete(p, purge)
      PROVE  JobOpened(p)
  BY <1>9 DEF Delete, IsForgotten, disk
<1>10. CASE Forget(p)
  <2>1. Held(p) \ {None} \subseteq Body
    <3>1. live[p].body \in Body \union {None}
      BY <1>10 DEF Forget, Node
    <3>2. \A e \in Range(entries[p]) : e.body \in Body \union {None}
      <4>1. entries[p] \in Seq(Entry)
        OBVIOUS
      <4>2. QED
        <5>1. Range(entries[p]) \subseteq Entry
          BY <4>1, RangeOfSeq
        <5>2. QED
          BY <5>1 DEF Entry
    <3>3. QED
      <4>1. SUFFICES ASSUME NEW b \in Held(p), b # None
                     PROVE  b \in Body
        OBVIOUS
      <4>2. b = live[p].body \/ \E e \in Range(entries[p]) : b = e.body
        BY <4>1 DEF Held, Kept
      <4>3. QED
        BY <3>1, <3>2, <4>1, <4>2
  <2>2. QED
    BY <1>10, <2>1 DEF Forget
<1>11. ASSUME NEW bodies \in SUBSET Body, Import(p, bodies)
       PROVE  JobOpened(p)
  BY <1>11 DEF Import
<1>12. QED
  BY <1>1, <1>2, <1>3, <1>4, <1>5, <1>6, <1>7, <1>8, <1>9, <1>10, <1>11 DEF Called

\* What a call leaves as it was, and the types of what it changes.  Only a document
\* that is there is judged.
RestKept(p) ==
  /\ UNCHANGED <<entries, files, stamp, torn, vectors, applied>>
  /\ live' \in [Path -> Node \union {None}] /\ holds' \in [Path -> SUBSET HoldFile]
  /\ log \subseteq log' /\ log' \subseteq Event /\ staged' \in 0 .. MaxHold
  /\ \A q \in Path : live[q] # None => live'[q] # None
  /\ job'.pc = "judge" => live'[p] # None

\* Writing a live file.
LEMMA Written ==
  ASSUME TypeOK, NEW p \in Path, NEW node \in Node, WriteLive(p, node)
  PROVE  /\ live' \in [Path -> Node \union {None}] /\ live'[p] # None
         /\ \A q \in Path : live[q] # None => live'[q] # None
BY NoneAssumption DEF TypeOK, WriteLive

\* No call touches a history, and none takes a live file away.
LEMMA CallLeaves ==
  ASSUME CoreInv, NEW p \in Path, Called(p)
  PROVE  RestKept(p)
<1> USE BoundAssumption DEF CoreInv, RestKept, counts
<1>0. live[p] # None => live[p] \in Node
  BY DEF TypeOK
<1>1. ASSUME NEW body \in Body, NEW how \in {"draft", "hold", "publish"}, Create(p, body, how)
      PROVE  RestKept(p)
  <2>1. \A s \in Status : Draft(body, s) \in Node
    BY DEF Draft, Node
  <2>2. QED
    BY <1>1, <2>1, Written DEF Create, TypeOK, Status
<1>2. ASSUME NEW body \in Body, NEW how \in {"draft", "publish"}, Update(p, body, how)
      PROVE  RestKept(p)
  <2>1. \A s \in Status : [live[p] EXCEPT !.body = body, !.status = s] \in Node
    BY <1>0, <1>2 DEF Update, MayEdit, Node
  <2>2. live[p].status \in Status
    BY <1>0, <1>2 DEF Update, MayEdit, Node
  <2>3. QED
    BY <1>2, <2>1, <2>2, Written DEF Update, TypeOK, Status
<1>3. ASSUME NEW body \in Body, HoldUpdate(p, body)
      PROVE  RestKept(p)
  <2>1. CASE IsPublished(p) /\ HeadEntry(p) # None
    <3>1. staged' \in Hold /\ staged' \in 0 .. MaxHold
      BY <1>3, <2>1 DEF HoldUpdate, TypeOK, Hold
    <3>2. HeadEntry(p).at \in Stamp
      <4>1. entries[p] \in Seq(Entry) /\ entries[p] # <<>>
        BY <2>1 DEF HeadEntry, TypeOK
      <4>2. Last(entries[p]) \in Entry
        BY <4>1, EmptySeq, LenProperties DEF Last
      <4>3. QED
        BY <4>1, <4>2 DEF HeadEntry, Entry
    <3>3. [id |-> staged', base |-> HeadEntry(p).at, body |-> body, patch |-> TRUE, meta |-> FALSE] \in HoldFile
      BY <3>1, <3>2 DEF HoldFile
    <3>4. holds' \in [Path -> SUBSET HoldFile]
      <4> DEFINE new == [id |-> staged', base |-> HeadEntry(p).at, body |-> body, patch |-> TRUE, meta |-> FALSE]
      <4>1. holds' = [holds EXCEPT ![p] = @ \union {new}]
        BY <1>3, <2>1 DEF HoldUpdate
      <4>2. new \in HoldFile
        BY <3>3
      <4>3. QED
        BY <4>1, <4>2 DEF TypeOK
    <3>5. job'.pc = "meta"
      BY <1>3, <2>1 DEF HoldUpdate, Go, Idle
    <3>6. QED
      BY <1>3, <2>1, <3>1, <3>4, <3>5 DEF HoldUpdate, TypeOK
  <2>2. CASE ~(IsPublished(p) /\ HeadEntry(p) # None)
    <3>1. [live[p] EXCEPT !.body = body, !.status = "pending_review"] \in Node
      BY <1>0, <1>3 DEF HoldUpdate, MayEdit, Node, Status
    <3>2. QED
      BY <1>3, <2>2, <3>1, Written DEF HoldUpdate, TypeOK
  <2>3. QED
    BY <2>1, <2>2
<1>4. CASE ApproveHold(p)
  <2>1. PICK chosen \in Fresh(p) : WriteLive(p, [Draft(chosen.body, "published") EXCEPT !.at = chosen.base])
    BY <1>4 DEF ApproveHold
  <2>2. chosen \in HoldFile
    BY <2>1 DEF Fresh, Listed, TypeOK
  <2>3. [Draft(chosen.body, "published") EXCEPT !.at = chosen.base] \in Node
    BY <2>2 DEF Draft, Node, Status, HoldFile
  <2>4. QED
    BY <1>4, <2>1, <2>3, Written DEF ApproveHold, TypeOK
<1>5. CASE Publish(p)
  BY <1>5 DEF Publish, TypeOK, disk
<1>6. CASE RejectHolds(p)
  <2>1. CASE UNCHANGED live
    <3>1. job'.pc # "judge"
      BY <1>6 DEF RejectHolds, Go, Idle, Begin
    <3>2. QED
      BY <1>6, <2>1, <3>1 DEF RejectHolds, TypeOK
  <2>2. CASE live[p] # None /\ WriteLive(p, [live[p] EXCEPT !.status = "rejected"])
    <3>1. [live[p] EXCEPT !.status = "rejected"] \in Node
      BY <1>0, <2>2 DEF Node, Status
    <3>2. QED
      BY <1>6, <2>2, <3>1, Written DEF RejectHolds, TypeOK
  <2>3. QED
    BY <1>6, <2>1, <2>2 DEF RejectHolds
<1>7. CASE Archive(p)
  <2>1. [live[p] EXCEPT !.status = "rejected", !.was = live[p].status] \in Node
    BY <1>0, <1>7 DEF Archive, Node, Status
  <2>2. QED
    BY <1>7, <2>1, Written DEF Archive, TypeOK
<1>8. CASE Unarchive(p)
  <2>1. [live[p] EXCEPT !.status = live[p].was, !.was = None] \in Node
    BY <1>0, <1>8 DEF Unarchive, Node
  <2>2. QED
    BY <1>8, <2>1, Written DEF Unarchive, TypeOK
<1>9. ASSUME NEW q \in Path, Move(p, q)
      PROVE  RestKept(p)
  BY <1>0, <1>9, Written DEF Move, TypeOK
<1>10. ASSUME NEW purge \in BOOLEAN, Delete(p, purge)
       PROVE  RestKept(p)
  BY <1>10 DEF Delete, TypeOK, disk
<1>11. CASE Forget(p)
  BY <1>11 DEF Forget, TypeOK, disk
<1>12. ASSUME NEW bodies \in SUBSET Body, Import(p, bodies)
       PROVE  RestKept(p)
  <2>1. [path |-> p, mode |-> "forget", bodies |-> bodies, here |-> FALSE] \in Event
    BY <1>12 DEF Event
  <2>2. job'.pc # "judge"
    BY <1>12 DEF Import, Go, Idle
  <2>3. QED
    BY <1>12, <2>1, <2>2 DEF Import, TypeOK
<1>13. CASE Restore(p)
  <2>1. PICK e \in Kept(p) :
          WriteLive(p, [Draft(e.body, IF e.body = None THEN "forgotten" ELSE "published") EXCEPT !.at = e.at])
    BY <1>13 DEF Restore
  <2>2. e \in Entry
    <3>1. Range(entries[p]) \subseteq Entry
      BY RangeOfSeq DEF TypeOK
    <3>2. QED
      BY <3>1 DEF Kept
  <2>3. \A s \in Status : [Draft(e.body, s) EXCEPT !.at = e.at] \in Node
    BY <2>2 DEF Draft, Node, Entry
  <2>4. [Draft(e.body, IF e.body = None THEN "forgotten" ELSE "published") EXCEPT !.at = e.at] \in Node
    BY <2>3 DEF Status
  <2>5. job'.pc # "judge"
    BY <1>13 DEF Restore, Begin
  <2>6. QED
    BY <1>13, <2>1, <2>4, <2>5, Written DEF Restore, TypeOK
<1>14. QED
  BY <1>1, <1>2, <1>3, <1>4, <1>5, <1>6, <1>7, <1>8, <1>9, <1>10, <1>11, <1>12, <1>13 DEF Called


\* Housekeeping: steps that neither record nor erase anything.
Aside ==
  \/ StageMeta \/ ShelveNothing \/ ShelvePatch \/ ShelveFails \/ ShelveMeta
  \/ PublishRefused \/ Purge \/ EmbedRead \/ EmbedSave \/ Crash \/ TearLog

\* An operation under way goes on to archive its holds, or ends.
LEMMA AsideJob ==
  ASSUME CoreInv, Aside
  PROVE  \/ job' = job
         \/ job' = Idle
         \/ /\ DOMAIN job' = DOMAIN Idle /\ job'.pc \in {"shelve", "shelved"}
            /\ job'.path = job.path /\ job'.path \in Path /\ job'.body = job.body
            /\ job'.erase = job.erase /\ job'.op = job.op /\ job'.hold = job.hold /\ job'.to = job.to
<1> USE DEF CoreInv, JobOK, Step, Return
<1>1. CASE StageMeta \/ ShelvePatch
  BY <1>1 DEF StageMeta, ShelvePatch, Idle
<1>2. CASE ShelveFails \/ ShelveMeta
  BY <1>2 DEF ShelveFails, ShelveMeta, NextShelf, Idle
<1>3. CASE ShelveNothing \/ PublishRefused \/ Purge \/ EmbedRead \/ EmbedSave \/ Crash \/ TearLog
  BY <1>3 DEF ShelveNothing, PublishRefused, Purge, EmbedRead, EmbedSave, Crash, TearLog
<1>4. QED
  BY <1>1, <1>2, <1>3 DEF Aside

\* It changes holds, vectors and the log's readability, but no document.
LEMMA AsideLeaves ==
  ASSUME CoreInv, Aside
  PROVE  /\ UNCHANGED <<live, entries, files, stamp, staged, applied>>
         /\ holds' \in [Path -> SUBSET HoldFile]
         /\ log' \subseteq Event /\ torn' \in BOOLEAN
         /\ vectors' \in [Path -> Row \union {None}]
         /\ UNCHANGED <<log, torn>> \/ job' = Idle
<1> USE DEF CoreInv, TypeOK, disk, counts
<1>1. CASE StageMeta
  <2>1. \A h \in HoldFile : [h EXCEPT !.meta = TRUE] \in HoldFile
    BY DEF HoldFile
  <2>2. holds[job.path] \subseteq HoldFile /\ job.path \in Path
    BY <1>1 DEF StageMeta, JobOK
  <2>3. {IF h.id = job.hold THEN [h EXCEPT !.meta = TRUE] ELSE h : h \in holds[job.path]} \subseteq HoldFile
    BY <2>1, <2>2
  <2>4. QED
    BY <1>1, <2>3 DEF StageMeta
<1>2. CASE ShelvePatch
  <2>1. \A h \in HoldFile : [h EXCEPT !.patch = FALSE] \in HoldFile
    BY DEF HoldFile
  <2>2. holds[job.path] \subseteq HoldFile /\ job.path \in Path
    BY <1>2 DEF ShelvePatch, JobOK
  <2>3. {IF h.id = job.shelve[1] THEN [h EXCEPT !.patch = FALSE] ELSE h : h \in holds[job.path]} \subseteq HoldFile
    BY <2>1, <2>2
  <2>4. QED
    BY <1>2, <2>3 DEF ShelvePatch
<1>3. CASE ShelveNothing \/ ShelveFails \/ PublishRefused
  BY <1>3 DEF ShelveNothing, ShelveFails, PublishRefused
<1>4. CASE ShelveMeta
  BY <1>4 DEF ShelveMeta
<1>5. CASE Purge
  BY <1>5 DEF Purge
<1>6. CASE EmbedRead
  BY <1>6 DEF EmbedRead
<1>7. CASE EmbedSave
  <2>1. \A p \in Path : KeyOf(p) \in Row \union {None}
    BY DEF KeyOf, Node, Row
  <2>2. QED
    BY <1>7, <2>1 DEF EmbedSave, RetainCurrent
<1>8. CASE Crash
  BY <1>8 DEF Crash
<1>9. CASE TearLog
  BY <1>9 DEF TearLog, Return
<1>10. QED
  BY <1>1, <1>2, <1>3, <1>4, <1>5, <1>6, <1>7, <1>8, <1>9 DEF Aside


\* Opening an operation.
LEMMA CallStep ==
  ASSUME CoreInv, NEW p \in Path, Called(p)
  PROVE  CoreInv'
<1>1. JobOpened(p) /\ RestKept(p) /\ job = Idle
  BY CallOpens, CallLeaves DEF CoreInv, TypeOK, Called, Begin, Create, Update, HoldUpdate,
     ApproveHold, Publish, RejectHolds, Archive, Unarchive, Restore, Move, Delete, Forget, Import
<1>2. TypeOK'
  BY <1>1 DEF JobOpened, RestKept, CoreInv, TypeOK
<1>3. JobOK'
  BY <1>1 DEF JobOpened, RestKept, JobOK, Idle
<1>4. StampsApart'
  BY <1>1 DEF JobOpened, RestKept, CoreInv, StampsApart, Idle
<1>5. DoneSoFar'
  BY <1>1 DEF JobOpened, RestKept, DoneSoFar, Idle
<1>6. NoSilentGap'
  BY <1>1 DEF RestKept, CoreInv, NoSilentGap, Kept
<1>7. QED
  BY <1>2, <1>3, <1>4, <1>5, <1>6 DEF CoreInv

\* Housekeeping.
LEMMA AsideStep ==
  ASSUME CoreInv, Aside
  PROVE  CoreInv'
<1>1. /\ UNCHANGED <<live, entries, files, stamp, staged, applied>>
      /\ UNCHANGED <<log, torn>> \/ job' = Idle
  BY AsideLeaves
<1>2. TypeOK'
  BY <1>1, AsideLeaves, AsideJob DEF CoreInv, TypeOK
<1>3. JobOK'
  BY <1>1, AsideJob DEF CoreInv, JobOK, Idle
<1>4. StampsApart'
  BY <1>1, AsideJob DEF CoreInv, StampsApart, Idle
<1>5. DoneSoFar'
  <2>1. CASE job' = job
    BY <1>1, <2>1 DEF CoreInv, DoneSoFar, MayHold, PathForgotten, ErasedBody, Records, HasHistory, IsForgotten, TypeOK, Idle
  <2>2. CASE job' # job
    BY <2>2, AsideJob DEF DoneSoFar, Idle
  <2>3. QED
    BY <2>1, <2>2
<1>6. NoSilentGap'
  BY <1>1 DEF CoreInv, NoSilentGap, Kept
<1>7. QED
  BY <1>2, <1>3, <1>4, <1>5, <1>6 DEF CoreInv

\* An author's edit changes no status, and takes no file away.
LEMMA HandEditStep ==
  ASSUME CoreInv, NEW p \in Path, NEW body \in Body, HandEdit(p, body)
  PROVE  CoreInv'
<1>1. UNCHANGED <<entries, files, holds, log, torn, vectors, job, stamp, staged, applied>>
  BY DEF HandEdit, counts
<1>2. live[p] \in Node /\ [live[p] EXCEPT !.body = body] \in Node
  BY DEF HandEdit, CoreInv, TypeOK, Node
<1>3. /\ live' \in [Path -> Node \union {None}]
      /\ \A q \in Path : live[q] # None => live'[q] # None /\ live'[q].status = live[q].status
  BY <1>2, NoneAssumption DEF HandEdit, WriteLive, CoreInv, TypeOK, Node
<1>4. TypeOK' /\ JobOK' /\ StampsApart' /\ NoSilentGap'
  BY <1>1, <1>3 DEF CoreInv, TypeOK, JobOK, StampsApart, NoSilentGap, Kept
<1>5. DoneSoFar'
  BY <1>1, <1>3 DEF CoreInv, DoneSoFar, JobOK, MayHold, PathForgotten, ErasedBody, Records, HasHistory, IsForgotten
<1>6. QED
  BY <1>4, <1>5 DEF CoreInv

\* What a history is made of.
LEMMA EntryTyped ==
  ASSUME CoreInv, NEW p \in Path, NEW i \in DOMAIN entries[p]
  PROVE  entries[p][i] \in Entry
<1>1. entries[p] \in Seq(Entry)
  BY DEF CoreInv, TypeOK
<1>2. QED
  BY <1>1

\* The published text is the live one, judged just now; its stamp is new.
LEMMA PublishLiveStep ==
  ASSUME CoreInv, PublishLive
  PROVE  CoreInv'
<1>1. /\ job.pc = "judge" /\ job.path \in Path /\ stamp < MaxStamp /\ stamp \in Nat
      /\ stamp' = stamp + 1 /\ MaxStamp \in Nat
      /\ UNCHANGED <<entries, files, holds, log, torn, vectors, staged, applied>>
  BY BoundAssumption DEF PublishLive, CoreInv, TypeOK, JobOK
<1>2. /\ DOMAIN job' = DOMAIN Idle /\ job'.pc = "artifact" /\ job'.path = job.path /\ job'.op = job.op
      /\ job'.hold = job.hold /\ job'.to = job.to /\ job'.erase = job.erase
      /\ job'.body = live[job.path].body
  BY DEF PublishLive, CoreInv, JobOK, Idle
<1>3. live[job.path] \in Node \union {None} /\ MayHold(job.path, live[job.path].body)
  BY <1>1 DEF PublishLive, Refusable, CoreInv, TypeOK
<1>4. live[job.path] \in Node
  BY <1>1, <1>3 DEF CoreInv, DoneSoFar
<1>5. live' \in [Path -> Node \union {None}]
  <2>1. [Draft(live[job.path].body, "published") EXCEPT !.at = stamp'] \in Node
    BY <1>1, <1>4 DEF Draft, Node, Status, Stamp
  <2>2. QED
    BY <1>1, <2>1, Written DEF PublishLive, CoreInv
<1>6. TypeOK'
  BY <1>1, <1>2, <1>5 DEF CoreInv, TypeOK
<1>7. JobOK'
  BY <1>1, <1>2, <1>4 DEF CoreInv, JobOK, Node
<1>8. StampsApart'
  <2>1. \A p \in Path : \A i \in DOMAIN entries[p] : entries[p][i].at \in Nat
    BY EntryTyped DEF Entry, Stamp
  <2>2. QED
    BY <1>1, <1>2, <2>1 DEF CoreInv, StampsApart
<1>9. DoneSoFar'
  BY <1>1, <1>2, <1>3 DEF DoneSoFar, MayHold, PathForgotten, ErasedBody, Records
<1>10. NoSilentGap'
  BY <1>1 DEF CoreInv, NoSilentGap, Kept
<1>11. QED
  BY <1>6, <1>7, <1>8, <1>9, <1>10 DEF CoreInv

\* The artifact is there before its entry.
LEMMA SealArtifactStep ==
  ASSUME CoreInv, SealArtifact
  PROVE  CoreInv'
<1>1. /\ job.pc = "artifact" /\ job.path \in Path /\ stamp \in Stamp /\ job.body \in Body \union {None}
      /\ UNCHANGED <<live, entries, holds, log, torn, vectors, stamp, staged, applied>>
  BY DEF SealArtifact, CoreInv, TypeOK, JobOK, Stamp, counts
<1>2. /\ DOMAIN job' = DOMAIN Idle /\ job'.pc = "entry" /\ job'.path = job.path /\ job'.op = job.op
      /\ job'.hold = job.hold /\ job'.to = job.to /\ job'.erase = job.erase /\ job'.body = job.body
  BY DEF SealArtifact, Step, CoreInv, JobOK, Idle
<1>3. /\ files' \in [Path -> SUBSET Artifact]
      /\ \A p \in Path : files[p] \subseteq files'[p]
      /\ \E f \in files'[job.path] : f.at = stamp
  <2> DEFINE new == [at |-> stamp, body |-> job.body]
  <2>1. new \in Artifact /\ new.at = stamp
    BY <1>1 DEF Artifact
  <2>2. files' = [files EXCEPT ![job.path] = @ \union {new}]
    BY DEF SealArtifact
  <2>3. files \in [Path -> SUBSET Artifact]
    BY DEF CoreInv, TypeOK
  <2> HIDE DEF new
  <2>4. QED
    BY <1>1, <2>1, <2>2, <2>3
<1>4. TypeOK'
  BY <1>1, <1>2, <1>3 DEF CoreInv, TypeOK
<1>5. JobOK' /\ StampsApart'
  BY <1>1, <1>2 DEF CoreInv, JobOK, StampsApart, Stamp
<1>6. DoneSoFar'
  BY <1>1, <1>2, <1>3 DEF CoreInv, DoneSoFar, MayHold, PathForgotten, ErasedBody, Records
<1>7. NoSilentGap'
  BY <1>1, <1>3 DEF CoreInv, NoSilentGap, Kept
<1>8. QED
  BY <1>4, <1>5, <1>6, <1>7 DEF CoreInv

\* The entry of a new stamp, whose artifact is there.
LEMMA AppendEntryStep ==
  ASSUME CoreInv, AppendEntry
  PROVE  CoreInv'
<1> DEFINE new == [at |-> stamp, body |-> job.body, tomb |-> FALSE]
           old == entries[job.path]
<1>1. /\ job.pc = "entry" /\ job.path \in Path /\ stamp \in Stamp /\ job.body \in Body \union {None}
      /\ UNCHANGED <<live, files, holds, log, torn, vectors, stamp, staged>>
  BY DEF AppendEntry, CoreInv, TypeOK, JobOK, Stamp
<1>2. new \in Entry /\ new.at = stamp /\ ~new.tomb /\ old \in Seq(Entry)
  BY <1>1 DEF Entry, CoreInv, TypeOK
<1>3. entries' = [entries EXCEPT ![job.path] = Append(old, new)]
  BY DEF AppendEntry
<1>4. \/ job' = Idle
      \/ /\ DOMAIN job' = DOMAIN Idle /\ job'.path = job.path /\ job'.op = job.op
         /\ job'.hold = job.hold /\ job'.to = job.to /\ job'.erase = job.erase /\ job'.body = job.body
         /\ \/ job'.pc = "shelve"
            \/ job'.pc = "record" /\ job.op = "forget"
  BY DEF AppendEntry, Step, Return, CoreInv, JobOK, Idle
<1>5. /\ Append(old, new) \in Seq(Entry) /\ DOMAIN Append(old, new) = 1 .. Len(old) + 1
      /\ DOMAIN old = 1 .. Len(old) /\ Len(old) \in Nat
      /\ \A i \in 1 .. Len(old) : Append(old, new)[i] = old[i]
      /\ Append(old, new)[Len(old) + 1] = new
  <2> HIDE DEF new, old
  <2>1. QED
    BY <1>2, AppendProperties, LenProperties
<1>6. TypeOK'
  <2>1. entries' \in [Path -> Seq(Entry)]
    BY <1>3, <1>5 DEF CoreInv, TypeOK
  <2>2. applied' \in [Hold -> SUBSET Stamp]
    BY <1>1 DEF AppendEntry, CoreInv, TypeOK, JobOK
  <2>3. QED
    BY <1>1, <1>4, <2>1, <2>2 DEF CoreInv, TypeOK
<1>7. JobOK'
  BY <1>1, <1>4 DEF CoreInv, JobOK, Idle
<1>8. StampsApart'
  <2>1. \A i \in DOMAIN old : old[i].at # stamp
    BY <1>1 DEF CoreInv, StampsApart
  <2>2. \A p \in Path : p # job.path => entries'[p] = entries[p]
    BY <1>3 DEF CoreInv, TypeOK
  <2>3. entries'[job.path] = Append(old, new)
    BY <1>1, <1>3 DEF CoreInv, TypeOK
  <2>4. new.at = stamp
    BY <1>2
  <2>5. \A i \in DOMAIN old : old[i].at <= stamp
    BY <1>1 DEF CoreInv, StampsApart
  <2> HIDE DEF new, old
  <2>6. ASSUME NEW p \in Path, NEW i \in DOMAIN entries'[p]
        PROVE  \/ i \in DOMAIN entries[p] /\ entries'[p][i].at = entries[p][i].at
               \/ p = job.path /\ i = Len(old) + 1 /\ entries'[p][i].at = stamp
    <3>1. CASE p = job.path
      BY <1>5, <2>3, <2>4, <2>6, <3>1 DEF old
    <3>2. CASE p # job.path
      BY <2>2, <2>6, <3>2
    <3>3. QED
      BY <3>1, <3>2
  <2>7. \A p \in Path : \A i \in DOMAIN entries'[p] : entries'[p][i].at <= stamp
    BY <1>1, <2>6 DEF CoreInv, StampsApart, Stamp
  <2>8. ASSUME NEW p \in Path, NEW q \in Path, NEW i \in DOMAIN entries'[p], NEW j \in DOMAIN entries'[q],
               entries'[p][i].at = entries'[q][j].at
        PROVE  p = q /\ i = j
    BY <1>1, <2>6, <2>8 DEF CoreInv, StampsApart
  <2>9. QED
    BY <1>1, <1>4, <2>7, <2>8 DEF StampsApart, Idle
<1>9. DoneSoFar'
  BY <1>4 DEF DoneSoFar, Idle
<1>10. NoSilentGap'
  <2>1. SUFFICES ASSUME NEW p \in Path, NEW i \in DOMAIN entries'[p], ~entries'[p][i].tomb
                 PROVE  \E f \in files[p] : f.at = entries'[p][i].at
    BY <1>1 DEF NoSilentGap, Kept, Range
  <2>2. CASE p # job.path
    <3>1. entries'[p] = entries[p]
      BY <1>3, <2>2 DEF CoreInv, TypeOK
    <3>2. QED
      BY <2>1, <3>1 DEF CoreInv, NoSilentGap, Kept, Range
  <2>3. CASE p = job.path
    <3>1. entries'[p] = Append(old, new)
      BY <1>1, <1>3, <2>3 DEF CoreInv, TypeOK
    <3>2. CASE i = Len(old) + 1
      BY <1>1, <1>2, <1>5, <2>3, <3>1, <3>2 DEF CoreInv, DoneSoFar
    <3>3. CASE i \in 1 .. Len(old)
      BY <1>5, <2>1, <2>3, <3>1, <3>3 DEF CoreInv, NoSilentGap, Kept, Range
    <3>4. QED
      BY <1>5, <3>1, <3>2, <3>3
  <2>4. QED
    BY <2>2, <2>3
<1>11. QED
  BY <1>6, <1>7, <1>8, <1>9, <1>10 DEF CoreInv

\* Every entry is tombstoned before anything is erased.
LEMMA TombstoneStep ==
  ASSUME CoreInv, Tombstone
  PROVE  CoreInv'
<1> DEFINE old == entries[job.path]
           new == [i \in DOMAIN old |-> [old[i] EXCEPT !.tomb = TRUE]]
<1>1. /\ job.pc = "tombstone" /\ job.path \in Path /\ stamp < MaxStamp
      /\ UNCHANGED <<live, files, holds, log, torn, vectors, stamp, staged, applied>>
  BY DEF Tombstone, CoreInv, JobOK, counts
<1>2. /\ DOMAIN job' = DOMAIN Idle /\ job'.pc = "erase" /\ job'.path = job.path /\ job'.op = job.op
      /\ job'.hold = job.hold /\ job'.to = job.to /\ job'.erase = job.erase /\ job'.body = job.body
  BY DEF Tombstone, Step, CoreInv, JobOK, Idle
<1>3. old \in Seq(Entry) /\ DOMAIN old = 1 .. Len(old) /\ Len(old) \in Nat
  BY <1>1, LenProperties DEF CoreInv, TypeOK
<1>4. \A i \in DOMAIN old : [old[i] EXCEPT !.tomb = TRUE] \in Entry
  <2>1. \A e \in Entry : [e EXCEPT !.tomb = TRUE] \in Entry
    BY DEF Entry
  <2> HIDE DEF old
  <2>2. QED
    BY <1>3, <2>1
<1>5. new \in Seq(Entry)
  <2>1. new \in [1 .. Len(old) -> Entry]
    BY <1>3, <1>4
  <2> HIDE DEF new, old
  <2>2. QED
    BY <1>3, <2>1, SeqDef
<1>6. entries' = [entries EXCEPT ![job.path] = new]
  BY DEF Tombstone
<1>7. /\ entries'[job.path] = new
      /\ \A p \in Path : p # job.path => entries'[p] = entries[p]
      /\ entries' \in [Path -> Seq(Entry)]
  <2> HIDE DEF new
  <2>1. QED
    BY <1>1, <1>5, <1>6 DEF CoreInv, TypeOK
<1>8. \A i \in DOMAIN old : new[i].at = old[i].at /\ new[i].tomb
  <2>1. \A e \in Entry : [e EXCEPT !.tomb = TRUE].at = e.at /\ [e EXCEPT !.tomb = TRUE].tomb
    BY DEF Entry
  <2>2. QED
    BY <1>3, <2>1
<1>9. DOMAIN new = DOMAIN old
  OBVIOUS
<1> HIDE DEF new
<1>10. TypeOK' /\ JobOK'
  BY <1>1, <1>2, <1>7 DEF CoreInv, TypeOK, JobOK
<1>11. StampsApart'
  <2>1. ASSUME NEW p \in Path
        PROVE  DOMAIN entries'[p] = DOMAIN entries[p] /\ \A i \in DOMAIN entries[p] : entries'[p][i].at = entries[p][i].at
    BY <1>7, <1>8, <1>9
  <2>2. QED
    BY <1>1, <1>2, <2>1 DEF CoreInv, StampsApart
<1>12. DoneSoFar'
  BY <1>2, <1>7, <1>8, <1>9 DEF DoneSoFar
<1>13. NoSilentGap'
  <2>1. SUFFICES ASSUME NEW p \in Path, NEW i \in DOMAIN entries'[p], ~entries'[p][i].tomb
                 PROVE  \E f \in files[p] : f.at = entries'[p][i].at
    BY <1>1 DEF NoSilentGap, Kept, Range
  <2>2. p # job.path
    BY <1>7, <1>8, <1>9, <2>1
  <2>3. QED
    BY <1>7, <2>1, <2>2 DEF CoreInv, NoSilentGap, Kept, Range
<1>14. QED
  BY <1>10, <1>11, <1>12, <1>13 DEF CoreInv

\* What is erased is the artifact of a tombstoned entry.
LEMMA EraseArtifactStep ==
  ASSUME CoreInv, EraseArtifact
  PROVE  CoreInv'
<1>1. /\ job.pc = "erase" /\ job.path \in Path
      /\ UNCHANGED <<live, entries, holds, log, torn, vectors, job, stamp, staged, applied>>
  BY DEF EraseArtifact, CoreInv, JobOK, counts
<1>2. PICK f \in ToErase : files' = [files EXCEPT ![job.path] = @ \ {f}]
  BY DEF EraseArtifact
<1>3. PICK i \in DOMAIN entries[job.path] : entries[job.path][i].at = f.at /\ entries[job.path][i].tomb
  BY <1>1, <1>2 DEF ToErase, Range, CoreInv, DoneSoFar
<1>4. TypeOK'
  BY <1>1, <1>2 DEF CoreInv, TypeOK
<1>5. JobOK' /\ StampsApart' /\ DoneSoFar'
  BY <1>1 DEF CoreInv, JobOK, StampsApart, DoneSoFar, MayHold, PathForgotten, ErasedBody, Records, HasHistory, IsForgotten
<1>6. NoSilentGap'
  <2>1. SUFFICES ASSUME NEW p \in Path, NEW j \in DOMAIN entries[p], ~entries[p][j].tomb
                 PROVE  \E g \in files'[p] : g.at = entries[p][j].at
    BY <1>1 DEF NoSilentGap, Kept, Range
  <2>2. PICK g \in files[p] : g.at = entries[p][j].at
    BY <2>1 DEF CoreInv, NoSilentGap, Kept, Range
  <2>3. CASE p # job.path
    BY <1>2, <2>2, <2>3 DEF CoreInv, TypeOK
  <2>4. CASE p = job.path
    <3>1. g # f
      BY <1>3, <2>1, <2>2, <2>4 DEF CoreInv, StampsApart
    <3>2. QED
      BY <1>1, <1>2, <2>2, <2>4, <3>1 DEF CoreInv, TypeOK
  <2>5. QED
    BY <2>3, <2>4
<1>7. QED
  BY <1>4, <1>5, <1>6 DEF CoreInv

\* The holds go when no artifact of an entry is left to erase.
LEMMA DiscardStep ==
  ASSUME CoreInv, Discard
  PROVE  CoreInv'
<1>1. /\ job.pc = "erase" /\ job.path \in Path
      /\ UNCHANGED <<live, entries, files, log, torn, vectors, stamp, staged, applied>>
  BY DEF Discard, CoreInv, JobOK, counts
<1>2. holds' \in [Path -> SUBSET HoldFile]
  BY DEF Discard, CoreInv, TypeOK
<1>3. \/ job' = Idle
      \/ /\ DOMAIN job' = DOMAIN Idle /\ job'.pc = "stub" /\ job'.path = job.path /\ job'.op = job.op
         /\ job'.hold = job.hold /\ job'.to = job.to /\ job'.erase = job.erase /\ job'.body = job.body
         /\ job.op # "sweep"
  BY DEF Discard, Step, Return, CoreInv, JobOK, Idle
<1>4. TypeOK' /\ JobOK'
  BY <1>1, <1>2, <1>3 DEF CoreInv, TypeOK, JobOK, Idle
<1>5. StampsApart' /\ NoSilentGap' /\ DoneSoFar'
  BY <1>1, <1>3 DEF CoreInv, StampsApart, NoSilentGap, Kept, DoneSoFar, Idle
<1>6. QED
  BY <1>4, <1>5 DEF CoreInv

\* The stub is a version of its own, with no text.
LEMMA StubStep ==
  ASSUME CoreInv, Stub
  PROVE  CoreInv'
<1>1. /\ job.pc = "stub" /\ job.path \in Path /\ stamp < MaxStamp /\ stamp \in Nat
      /\ stamp' = stamp + 1 /\ MaxStamp \in Nat
      /\ UNCHANGED <<entries, files, holds, log, torn, vectors, staged, applied>>
  BY BoundAssumption DEF Stub, CoreInv, TypeOK, JobOK
<1>2. /\ DOMAIN job' = DOMAIN Idle /\ job'.pc = "artifact" /\ job'.path = job.path /\ job'.op = job.op
      /\ job'.hold = job.hold /\ job'.to = job.to /\ job'.erase = job.erase /\ job'.body = None
  BY DEF Stub, CoreInv, JobOK, Idle
<1>3. live' \in [Path -> Node \union {None}]
  <2>1. [status |-> "forgotten", was |-> None, body |-> None, at |-> stamp'] \in Node
    BY <1>1 DEF Node, Status, Stamp
  <2>2. QED
    BY <1>1, <2>1, Written DEF Stub, CoreInv
<1>4. TypeOK' /\ JobOK'
  BY <1>1, <1>2, <1>3 DEF CoreInv, TypeOK, JobOK
<1>5. StampsApart'
  <2>1. \A p \in Path : \A i \in DOMAIN entries[p] : entries[p][i].at \in Nat
    BY EntryTyped DEF Entry, Stamp
  <2>2. QED
    BY <1>1, <1>2, <2>1 DEF CoreInv, StampsApart
<1>6. DoneSoFar' /\ NoSilentGap'
  BY <1>1, <1>2 DEF CoreInv, DoneSoFar, NoSilentGap, Kept
<1>7. QED
  BY <1>4, <1>5, <1>6 DEF CoreInv

\* The record of a forget, or of a delete, which comes before the file goes.
LEMMA RecordStep ==
  ASSUME CoreInv, Record
  PROVE  CoreInv'
<1>1. /\ job.pc = "record" /\ job.path \in Path /\ job.op \in {"forget", "delete"} /\ job.erase \subseteq Body
      /\ UNCHANGED <<live, entries, files, holds, torn, vectors, stamp, staged, applied>>
  BY DEF Record, CoreInv, JobOK, counts
<1>2. \/ job' = Idle /\ log' = log
      \/ /\ DOMAIN job' = DOMAIN Idle /\ job'.pc = (IF job.op = "delete" THEN "unlink" ELSE "purge")
         /\ job'.path = job.path /\ job'.op = job.op
         /\ job'.hold = job.hold /\ job'.to = job.to /\ job'.erase = job.erase /\ job'.body = job.body
         /\ log' = log \union {[path |-> job.path, mode |-> job.op, bodies |-> job.erase, here |-> TRUE]}
  BY DEF Record, Step, Return, CoreInv, JobOK, Idle
<1>3. log' \subseteq Event
  <2>1. [path |-> job.path, mode |-> job.op, bodies |-> job.erase, here |-> TRUE] \in Event
    BY <1>1 DEF Event
  <2>2. QED
    BY <1>2, <2>1 DEF CoreInv, TypeOK
<1>4. TypeOK' /\ JobOK'
  BY <1>1, <1>2, <1>3 DEF CoreInv, TypeOK, JobOK, Idle
<1>5. StampsApart' /\ NoSilentGap'
  BY <1>1, <1>2 DEF CoreInv, StampsApart, NoSilentGap, Kept, Idle
<1>6. DoneSoFar'
  <2>1. CASE job' = Idle
    BY <2>1 DEF DoneSoFar, Idle
  <2>2. CASE job' # Idle /\ job.op = "delete"
    <3> DEFINE new == [path |-> job.path, mode |-> job.op, bodies |-> job.erase, here |-> TRUE]
    <3>3. new \in log' /\ new.path = job.path /\ new.mode = "delete" /\ job'.path = job.path
      BY <1>2, <2>2
    <3>1. \E e \in log' : e.path = job'.path /\ e.mode = "delete"
      <4> HIDE DEF new
      <4>1. QED
        BY <3>3
    <3>2. QED
      BY <1>2, <2>2, <3>1 DEF DoneSoFar
  <2>3. CASE job' # Idle /\ job.op # "delete"
    BY <1>2, <2>3 DEF DoneSoFar
  <2>4. QED
    BY <2>1, <2>2, <2>3
<1>7. QED
  BY <1>4, <1>5, <1>6 DEF CoreInv

\* The live file goes.
LEMMA UnlinkStep ==
  ASSUME CoreInv, Unlink
  PROVE  CoreInv'
<1>1. /\ job.pc = "unlink" /\ job.path \in Path
      /\ UNCHANGED <<entries, files, holds, log, torn, vectors, stamp, staged, applied>>
  BY DEF Unlink, CoreInv, JobOK, counts
<1>2. /\ DOMAIN job' = DOMAIN Idle /\ job'.pc = "history" /\ job'.path = job.path /\ job'.op = job.op
      /\ job'.hold = job.hold /\ job'.to = job.to /\ job'.erase = job.erase /\ job'.body = job.body
  BY DEF Unlink, Step, CoreInv, JobOK, Idle
<1>3. live' \in [Path -> Node \union {None}]
  BY DEF Unlink, WriteLive, CoreInv, TypeOK
<1>4. TypeOK' /\ JobOK'
  BY <1>1, <1>2, <1>3 DEF CoreInv, TypeOK, JobOK
<1>5. StampsApart' /\ NoSilentGap' /\ DoneSoFar'
  BY <1>1, <1>2 DEF CoreInv, StampsApart, NoSilentGap, Kept, DoneSoFar
<1>6. QED
  BY <1>4, <1>5 DEF CoreInv

\* The version directory goes.
LEMMA RemoveHistoryStep ==
  ASSUME CoreInv, RemoveHistory
  PROVE  CoreInv'
<1>1. /\ job.pc = "history" /\ job.path \in Path
      /\ UNCHANGED <<live, holds, log, torn, vectors, stamp, staged, applied>>
  BY DEF RemoveHistory, CoreInv, JobOK, counts
<1>2. \/ job' = Idle
      \/ /\ DOMAIN job' = DOMAIN Idle /\ job'.pc = "purge" /\ job'.path = job.path /\ job'.op = job.op
         /\ job'.hold = job.hold /\ job'.to = job.to /\ job'.erase = job.erase /\ job'.body = job.body
  BY DEF RemoveHistory, Step, Return, CoreInv, JobOK, Idle
<1>3. /\ entries' = [entries EXCEPT ![job.path] = <<>>] /\ files' = [files EXCEPT ![job.path] = {}]
      /\ <<>> \in Seq(Entry) /\ DOMAIN <<>> = {}
  BY EmptySeq DEF RemoveHistory
<1>4. /\ entries' \in [Path -> Seq(Entry)] /\ files' \in [Path -> SUBSET Artifact]
      /\ entries'[job.path] = <<>>
      /\ \A p \in Path : p # job.path => entries'[p] = entries[p] /\ files'[p] = files[p]
  BY <1>1, <1>3 DEF CoreInv, TypeOK
<1>5. TypeOK' /\ JobOK'
  BY <1>1, <1>2, <1>4 DEF CoreInv, TypeOK, JobOK, Idle
<1>6. StampsApart'
  BY <1>1, <1>2, <1>3, <1>4 DEF CoreInv, StampsApart, Idle
<1>7. DoneSoFar'
  BY <1>2 DEF DoneSoFar, Idle
<1>8. NoSilentGap'
  BY <1>3, <1>4 DEF CoreInv, NoSilentGap, Kept, Range
<1>9. QED
  BY <1>5, <1>6, <1>7, <1>8 DEF CoreInv

\* The history moves, or the claimed destination is given back.
LEMMA CarryStep ==
  ASSUME CoreInv, Carry
  PROVE  CoreInv'
<1>1. /\ job.pc = "carry" /\ job.op = "move" /\ job.path \in Path /\ job.to \in Path /\ job.to # job.path
      /\ live[job.to] # None
      /\ UNCHANGED <<live, holds, log, torn, vectors, stamp, staged, applied>>
  BY DEF Carry, CoreInv, JobOK, DoneSoFar, counts
<1>2. CASE HasHistory(job.path) /\ HasHistory(job.to)
  <2>1. /\ DOMAIN job' = DOMAIN Idle /\ job'.pc = "unlink" /\ job'.path = job.to /\ job'.op = "undo"
        /\ job'.hold = job.hold /\ job'.to = job.to /\ job'.erase = job.erase /\ job'.body = job.body
        /\ UNCHANGED <<entries, files>>
    BY <1>2 DEF Carry, CoreInv, JobOK, Idle
  <2>2. TypeOK' /\ JobOK'
    BY <1>1, <2>1 DEF CoreInv, TypeOK, JobOK
  <2>3. StampsApart' /\ NoSilentGap' /\ DoneSoFar'
    BY <1>1, <2>1 DEF CoreInv, StampsApart, NoSilentGap, Kept, DoneSoFar
  <2>4. QED
    BY <2>2, <2>3 DEF CoreInv
<1>3. CASE ~(HasHistory(job.path) /\ HasHistory(job.to))
  <2>1. /\ DOMAIN job' = DOMAIN Idle /\ job'.pc = "unlink" /\ job'.path = job.path /\ job'.op = job.op
        /\ job'.hold = job.hold /\ job'.to = job.to /\ job'.erase = job.erase /\ job'.body = job.body
    BY <1>3 DEF Carry, Step, CoreInv, JobOK, Idle
  <2>2. /\ entries' \in [Path -> Seq(Entry)] /\ files' \in [Path -> SUBSET Artifact]
        /\ entries'[job.path] = <<>> /\ files'[job.path] = {}
        /\ \A p \in Path : p \notin {job.path, job.to} => entries'[p] = entries[p] /\ files'[p] = files[p]
        /\ \/ entries'[job.to] = entries[job.path] /\ files'[job.to] = files[job.path]
           \/ entries'[job.to] = entries[job.to] /\ files'[job.to] = files[job.to]
    <3>1. CASE HasHistory(job.path)
      <4>1. /\ entries' = [entries EXCEPT ![job.to] = entries[job.path], ![job.path] = <<>>]
            /\ files' = [files EXCEPT ![job.to] = files[job.path], ![job.path] = {}]
        BY <1>3, <3>1 DEF Carry
      <4>2. QED
        BY <1>1, <4>1, EmptySeq DEF CoreInv, TypeOK
    <3>2. CASE ~HasHistory(job.path)
      BY <1>3, <3>2 DEF Carry, HasHistory, CoreInv, TypeOK
    <3>3. QED
      BY <3>1, <3>2
  <2>3. TypeOK' /\ JobOK'
    BY <1>1, <2>1, <2>2 DEF CoreInv, TypeOK, JobOK
  <2>4. StampsApart'
    <3>1. DOMAIN <<>> = {}
      BY EmptySeq
    <3>2. /\ \A p \in Path : \A i \in DOMAIN entries[p] : entries[p][i].at <= stamp
          /\ \A p, q \in Path : \A i \in DOMAIN entries[p], j \in DOMAIN entries[q] :
               entries[p][i].at = entries[q][j].at => p = q /\ i = j
      BY DEF CoreInv, StampsApart
    <3>3. CASE entries'[job.to] = entries[job.path]
      <4>1. ASSUME NEW p \in Path, NEW i \in DOMAIN entries'[p]
            PROVE  /\ p # job.path
                   /\ p = job.to => i \in DOMAIN entries[job.path] /\ entries'[p][i] = entries[job.path][i]
                   /\ p # job.to => i \in DOMAIN entries[p] /\ entries'[p][i] = entries[p][i]
        BY <2>2, <3>1, <3>3, <4>1
      <4>2. \A p \in Path : \A i \in DOMAIN entries'[p] : entries'[p][i].at <= stamp
        BY <1>1, <3>2, <4>1
      <4>3. ASSUME NEW p \in Path, NEW q \in Path, NEW i \in DOMAIN entries'[p], NEW j \in DOMAIN entries'[q],
                   entries'[p][i].at = entries'[q][j].at
            PROVE  p = q /\ i = j
        BY <1>1, <3>2, <4>1, <4>3
      <4>4. QED
        BY <1>1, <2>1, <4>2, <4>3 DEF StampsApart
    <3>4. CASE entries'[job.to] = entries[job.to]
      <4>1. ASSUME NEW p \in Path, NEW i \in DOMAIN entries'[p]
            PROVE  i \in DOMAIN entries[p] /\ entries'[p][i] = entries[p][i]
        BY <2>2, <3>1, <3>4, <4>1
      <4>2. QED
        BY <1>1, <2>1, <3>2, <4>1 DEF StampsApart
    <3>5. QED
      BY <2>2, <3>3, <3>4
  <2>5. DoneSoFar'
    BY <1>1, <2>1, <2>2 DEF DoneSoFar, HasHistory
  <2>6. NoSilentGap'
    <3>1. ASSUME NEW p \in Path
          PROVE  entries'[p] = <<>> \/ \E q \in Path : entries'[p] = entries[q] /\ files'[p] = files[q]
      BY <1>1, <2>2
    <3>2. DOMAIN <<>> = {}
      BY EmptySeq
    <3>3. QED
      BY <3>1, <3>2 DEF CoreInv, NoSilentGap, Kept, Range
  <2>7. QED
    BY <2>3, <2>4, <2>5, <2>6 DEF CoreInv
<1>4. QED
  BY <1>2, <1>3

\* The part of the inductive invariant that the rest is built on: the types, the
\* locals of an operation, the stamps, and that no artifact goes missing.
THEOREM Core == Spec => []CoreInv
<1>1. Init => CoreInv
  <2> SUFFICES ASSUME Init
               PROVE  CoreInv
    OBVIOUS
  <2>1. DOMAIN <<>> = {} /\ <<>> \in Seq(Entry)
    BY EmptySeq
  <2>2. TypeOK
    <3>1. live \in [Path -> Node \union {None}] /\ vectors \in [Path -> Row \union {None}]
      BY DEF Init
    <3>2. entries \in [Path -> Seq(Entry)]
      BY <2>1 DEF Init
    <3>3. files \in [Path -> SUBSET Artifact] /\ holds \in [Path -> SUBSET HoldFile]
      BY DEF Init
    <3>4. stamp \in 0 .. MaxStamp /\ staged \in 0 .. MaxHold /\ applied \in [Hold -> SUBSET Stamp]
      BY BoundAssumption DEF Init
    <3>5. log \subseteq Event /\ torn \in BOOLEAN /\ job = Idle
      BY DEF Init
    <3>6. QED
      BY <3>1, <3>2, <3>3, <3>4, <3>5 DEF TypeOK
  <2>3. JobOK
    BY DEF Init, JobOK, Idle
  <2>4. StampsApart /\ DoneSoFar /\ NoSilentGap
    BY <2>1 DEF Init, StampsApart, DoneSoFar, NoSilentGap, Kept, Range, Idle
  <2>5. QED
    BY <2>2, <2>3, <2>4 DEF CoreInv
<1>2. CoreInv /\ [Next]_vars => CoreInv'
  <2> SUFFICES ASSUME CoreInv, [Next]_vars
               PROVE  CoreInv'
    OBVIOUS
  <2>1. ASSUME NEW p \in Path, Called(p)
        PROVE  CoreInv'
    BY <2>1, CallStep
  <2>2. CASE Aside
    BY <2>2, AsideStep
  <2>3. CASE PublishLive \/ SealArtifact \/ AppendEntry
    BY <2>3, PublishLiveStep, SealArtifactStep, AppendEntryStep
  <2>4. CASE Tombstone \/ EraseArtifact \/ Discard \/ Stub \/ Record
    BY <2>4, TombstoneStep, EraseArtifactStep, DiscardStep, StubStep, RecordStep
  <2>5. CASE Unlink \/ RemoveHistory \/ Carry
    BY <2>5, UnlinkStep, RemoveHistoryStep, CarryStep
  <2>6. ASSUME NEW p \in Path, NEW body \in Body, HandEdit(p, body)
        PROVE  CoreInv'
    BY <2>6, HandEditStep
  <2>7. CASE UNCHANGED vars
    BY <2>7 DEF vars, disk, counts, CoreInv, TypeOK, JobOK, StampsApart, DoneSoFar, NoSilentGap, Kept,
       MayHold, PathForgotten, ErasedBody, Records, HasHistory, IsForgotten
  <2>8. QED
    BY <2>1, <2>2, <2>3, <2>4, <2>5, <2>6, <2>7 DEF Next, Continued, Outside, Aside
<1>3. QED
  BY <1>1, <1>2, PTL DEF Spec

\* Where an approval records what it chose.
Recording == {"judge", "artifact", "entry"}

\* A step keeps the holds apart and behind what was recorded from them when it adds
\* no hold, no head and no version recorded from a hold.
LEMMA HoldsKept ==
  ASSUME CoreInv, HoldInv, CoreInv',
         \A p \in Path : \A g \in holds'[p] : \E h \in holds[p] : h.id = g.id /\ h.base = g.base,
         \A q \in Path, s \in Stamp : HeadIs(q, s)' => \E p \in Path : HeadIs(p, s),
         UNCHANGED <<applied, staged>>,
         stamp' \in {stamp, stamp + 1},
         job'.pc \in {"artifact", "entry"} => stamp' = stamp + 1 \/ job.pc \in {"artifact", "entry"},
         job'.op = "approve" /\ job'.pc \in Recording =>
           /\ job.op = "approve" /\ job.pc \in Recording
           /\ job'.path = job.path /\ job'.hold = job.hold /\ UNCHANGED <<holds, entries>>
  PROVE  HoldInv'
<1> USE DEF HoldInv
<1>1. stamp \in Nat /\ staged \in Nat
  BY BoundAssumption DEF CoreInv, TypeOK
<1>2. \A p \in Path : \A h \in holds[p] : h.id \in Hold /\ h.base \in Stamp /\ h.base \in Nat
  BY DEF CoreInv, TypeOK, HoldFile, Stamp
<1>3. \A p \in Path : \A h \in holds'[p] : h.id \in Hold /\ h.base \in Stamp
  BY DEF CoreInv, TypeOK, HoldFile
<1>4. HoldsApart'
  <2>1. \A p \in Path : \A h \in holds'[p] : h.id <= staged' /\ h.base <= stamp'
    BY <1>1, <1>2 DEF HoldsApart
  <2>2. \A p, q \in Path : \A h \in holds'[p], g \in holds'[q] : h.id = g.id => p = q /\ h.base = g.base
    BY DEF HoldsApart
  <2>3. job'.pc \in {"artifact", "entry"} => \A p \in Path : \A h \in holds'[p] : h.base # stamp'
    <3>1. ASSUME job'.pc \in {"artifact", "entry"}, NEW p \in Path, NEW g \in holds'[p], g.base = stamp'
          PROVE  FALSE
      <4>1. PICK h \in holds[p] : h.base = g.base
        BY <3>1
      <4>2. h.base <= stamp /\ h.base \in Nat /\ (job.pc \in {"artifact", "entry"} => h.base # stamp)
        BY <1>2, <4>1 DEF HoldsApart
      <4>3. QED
        BY <1>1, <3>1, <4>1, <4>2
    <3>2. QED
      BY <3>1
  <2>4. QED
    BY <2>1, <2>2, <2>3 DEF HoldsApart
<1>5. BaseLeft'
  <2>1. /\ \A h \in Hold : applied'[h] # {} => h <= staged'
        /\ \A h \in Hold : \A s, t \in applied'[h] : s = t
    BY DEF BaseLeft
  <2>2. ASSUME NEW p \in Path, NEW q \in Path, NEW g \in holds'[p], applied'[g.id] # {}, HeadIs(q, g.base)'
        PROVE  FALSE
    <3>1. PICK h \in holds[p] : h.id = g.id /\ h.base = g.base
      BY <2>2
    <3>2. PICK r \in Path : HeadIs(r, g.base)
      BY <1>3, <2>2
    <3>3. QED
      BY <2>2, <3>1, <3>2 DEF BaseLeft
  <2>3. job'.op = "approve" /\ job'.pc \in Recording =>
          \E h \in holds'[job'.path] : h.id = job'.hold /\ HeadIs(job.path, h.base)'
    BY DEF BaseLeft, HeadIs, Recording
  <2>4. QED
    BY <2>1, <2>2, <2>3 DEF BaseLeft, Recording
<1>6. QED
  BY <1>4, <1>5

\* A call that stages and approves nothing.
LEMMA QuietCallHolds ==
  ASSUME CoreInv, HoldInv, CoreInv', NEW p \in Path, Called(p),
         UNCHANGED <<holds, staged>>, job'.op # "approve"
  PROVE  HoldInv'
<1>1. RestKept(p) /\ JobOpened(p)
  BY CallLeaves, CallOpens
<1>2. UNCHANGED <<entries, stamp, applied>> /\ job'.pc \notin {"artifact", "entry"}
  BY <1>1 DEF RestKept, JobOpened
<1>3. QED
  BY <1>2, HoldsKept DEF HeadIs

\* A hold is staged on the head, with a number of its own.
LEMMA HoldUpdateHolds ==
  ASSUME CoreInv, HoldInv, CoreInv', NEW p \in Path, NEW body \in Body, HoldUpdate(p, body)
  PROVE  HoldInv'
<1>1. CASE UNCHANGED <<holds, staged>>
  <2>1. Called(p)
    BY DEF Called
  <2>2. job'.op # "approve"
    <3>1. job.op = "none"
      BY DEF HoldUpdate, Begin, CoreInv, TypeOK, Idle
    <3>2. job' = job \/ \E shelve : job' = [Go("stage", "meta", p) EXCEPT !.hold = staged', !.shelve = shelve]
      BY DEF HoldUpdate
    <3>3. QED
      BY <3>1, <3>2 DEF Go, Idle
  <2>3. QED
    BY <1>1, <2>1, <2>2, QuietCallHolds
<1>2. CASE ~UNCHANGED <<holds, staged>>
  <2> DEFINE new == [id |-> staged', base |-> HeadEntry(p).at, body |-> body, patch |-> TRUE, meta |-> FALSE]
  <2>1. /\ holds' = [holds EXCEPT ![p] = @ \union {new}] /\ staged' = staged + 1
        /\ HeadEntry(p) # None /\ UNCHANGED <<entries, stamp, applied>>
        /\ job'.op = "stage" /\ job'.pc = "meta"
    BY <1>2 DEF HoldUpdate, Go, Idle
  <2>2. HeadIs(p, HeadEntry(p).at)
    BY <2>1 DEF HeadEntry, HeadIs
  <2>3. new.id = staged' /\ HeadIs(p, new.base) /\ new.base <= stamp
    <3>1. entries[p] \in Seq(Entry) /\ entries[p] # <<>>
      BY <2>2 DEF HeadIs, CoreInv, TypeOK
    <3>2. Len(entries[p]) \in DOMAIN entries[p] /\ Last(entries[p]) = entries[p][Len(entries[p])]
      BY <3>1, EmptySeq, LenProperties DEF Last
    <3>3. QED
      BY <2>2, <3>2 DEF HeadIs, CoreInv, StampsApart
  <2>4. /\ \A q \in Path : q # p => holds'[q] = holds[q]
        /\ holds'[p] = holds[p] \union {new}
    BY <2>1 DEF CoreInv, TypeOK
  <2>5. staged \in Nat /\ stamp \in Nat /\ staged' \in Hold
    BY <2>1, BoundAssumption DEF CoreInv, TypeOK, Hold
  <2>6. \A q \in Path : \A h \in holds[q] : h.id \in Nat /\ h.id <= staged /\ h.base <= stamp
    BY DEF CoreInv, TypeOK, HoldFile, Hold, HoldInv, HoldsApart
  <2>7. applied[new.id] = {}
    BY <2>1, <2>3, <2>5 DEF HoldInv, BaseLeft
  <2> HIDE DEF new
  <2>8. ASSUME NEW q \in Path, NEW h \in holds'[q]
        PROVE  h \in holds[q] \/ (q = p /\ h = new)
    <3>1. CASE q = p
      BY <2>4, <2>8, <3>1
    <3>2. CASE q # p
      BY <2>4, <2>8, <3>2
    <3>3. QED
      BY <3>1, <3>2
  <2>9. HoldsApart'
    <3>1. \A q \in Path : \A h \in holds'[q] : h.id <= staged' /\ h.base <= stamp'
      BY <2>1, <2>3, <2>5, <2>6, <2>8
    <3>2. ASSUME NEW q \in Path, NEW r \in Path, NEW h \in holds'[q], NEW g \in holds'[r], h.id = g.id
          PROVE  q = r /\ h.base = g.base
      <4>1. CASE h \in holds[q] /\ g \in holds[r]
        BY <3>2, <4>1 DEF HoldInv, HoldsApart
      <4>2. CASE h \notin holds[q] \/ g \notin holds[r]
        BY <2>1, <2>3, <2>5, <2>6, <2>8, <3>2, <4>2
      <4>3. QED
        BY <4>1, <4>2
    <3>3. QED
      BY <2>1, <3>1, <3>2 DEF HoldsApart
  <2>10. BaseLeft'
    <3>1. \A h \in Hold : applied'[h] # {} => h <= staged'
      BY <2>1, <2>5 DEF HoldInv, BaseLeft, Hold
    <3>2. \A q, r \in Path : \A h \in holds'[q] : applied'[h.id] # {} => ~HeadIs(r, h.base)'
      BY <2>1, <2>7, <2>8 DEF HoldInv, BaseLeft, HeadIs
    <3>3. QED
      BY <2>1, <3>1, <3>2 DEF HoldInv, BaseLeft
  <2>11. QED
    BY <2>9, <2>10 DEF HoldInv
<1>3. QED
  BY <1>1, <1>2

\* What is approved was made on the head.
LEMMA ApproveHolds ==
  ASSUME CoreInv, HoldInv, CoreInv', NEW p \in Path, ApproveHold(p)
  PROVE  HoldInv'
<1>1. PICK chosen \in Fresh(p) :
        job' = [Go("approve", "judge", p) EXCEPT !.hold = chosen.id,
                    !.shelve = <<chosen.id>> \o SetToSortSeq({h.id : h \in Listed(p) \ {chosen}}, <)]
  BY DEF ApproveHold
<1>2. job'.op = "approve" /\ job'.pc = "judge" /\ job'.path = p /\ job'.hold = chosen.id
  BY <1>1 DEF Go, Idle
<1>3. chosen \in holds[p] /\ HeadIs(p, chosen.base)
  BY DEF Fresh, Listed, Stale, Applies, HeadEntry, HeadIs
<1>4. UNCHANGED <<entries, holds, stamp, staged, applied>>
  BY DEF ApproveHold, counts
<1>5. QED
  BY <1>2, <1>3, <1>4 DEF HoldInv, HoldsApart, BaseLeft, HeadIs

\* The other calls.
LEMMA CallHolds ==
  ASSUME CoreInv, HoldInv, CoreInv', NEW p \in Path, Called(p)
  PROVE  HoldInv'
<1>0. job.op # "approve"
  <2>1. job.pc = "idle"
    BY DEF Called, Begin, Create, Update, HoldUpdate, ApproveHold, Publish, RejectHolds, Archive, Unarchive, Restore,
       Move, Delete, Forget, Import
  <2>2. QED
    BY <2>1 DEF CoreInv, TypeOK, Idle
<1> USE DEF Begin, Go, Idle
<1>1. ASSUME NEW body \in Body, NEW how \in {"draft", "hold", "publish"}, Create(p, body, how)
      PROVE  HoldInv'
  BY <1>1, QuietCallHolds DEF Create, counts
<1>2. ASSUME NEW body \in Body, NEW how \in {"draft", "publish"}, Update(p, body, how)
      PROVE  HoldInv'
  BY <1>2, QuietCallHolds DEF Update, counts
<1>3. ASSUME NEW body \in Body, HoldUpdate(p, body)
      PROVE  HoldInv'
  BY <1>3, HoldUpdateHolds
<1>4. CASE ApproveHold(p)
  BY <1>4, ApproveHolds
<1>5. CASE Publish(p)
  BY <1>5, QuietCallHolds DEF Publish, disk, counts
<1>6. CASE RejectHolds(p)
  BY <1>0, <1>6, QuietCallHolds DEF RejectHolds, counts
<1>7. CASE Archive(p) \/ Unarchive(p) \/ Restore(p)
  BY <1>0, <1>7, QuietCallHolds DEF Archive, Unarchive, Restore, counts
<1>8. ASSUME NEW q \in Path, Move(p, q)
      PROVE  HoldInv'
  BY <1>8, QuietCallHolds DEF Move, counts
<1>9. ASSUME NEW purge \in BOOLEAN, Delete(p, purge)
      PROVE  HoldInv'
  BY <1>9, QuietCallHolds DEF Delete, disk, counts
<1>10. CASE Forget(p)
  BY <1>10, QuietCallHolds DEF Forget, disk, counts
<1>11. ASSUME NEW bodies \in SUBSET Body, Import(p, bodies)
       PROVE  HoldInv'
  BY <1>11, QuietCallHolds DEF Import, counts
<1>12. QED
  BY <1>1, <1>2, <1>3, <1>4, <1>5, <1>6, <1>7, <1>8, <1>9, <1>10, <1>11 DEF Called

\* Housekeeping only takes holds away, and marks their files.
LEMMA AsideHolds ==
  ASSUME CoreInv, HoldInv, CoreInv', Aside
  PROVE  HoldInv'
<1>1. /\ UNCHANGED <<entries, stamp, staged, applied>>
      /\ \/ job' = job
         \/ job' = Idle
         \/ job'.pc \in {"shelve", "shelved"}
  BY AsideLeaves, AsideJob
<1>2. holds \in [Path -> SUBSET HoldFile]
  BY DEF CoreInv, TypeOK
<1>3. \A p \in Path : \A g \in holds'[p] : \E h \in holds[p] : h.id = g.id /\ h.base = g.base
  <2>1. CASE StageMeta
    <3>1. \A h \in HoldFile : [h EXCEPT !.meta = TRUE].id = h.id /\ [h EXCEPT !.meta = TRUE].base = h.base
      BY DEF HoldFile
    <3>2. holds' = [holds EXCEPT ![job.path] = {IF h.id = job.hold THEN [h EXCEPT !.meta = TRUE] ELSE h : h \in @}]
      BY <2>1 DEF StageMeta
    <3>3. SUFFICES ASSUME NEW p \in Path, NEW g \in holds'[p]
                   PROVE  \E h \in holds[p] : h.id = g.id /\ h.base = g.base
      OBVIOUS
    <3>4. CASE p # job.path
      BY <1>2, <3>2, <3>4
    <3>5. CASE p = job.path
      <4>1. PICK h \in holds[p] : g = IF h.id = job.hold THEN [h EXCEPT !.meta = TRUE] ELSE h
        BY <1>2, <3>2, <3>5
      <4>2. h \in HoldFile
        BY <1>2
      <4>3. QED
        BY <3>1, <4>1, <4>2
    <3>6. QED
      BY <3>4, <3>5
  <2>2. CASE ShelvePatch
    <3>1. \A h \in HoldFile : [h EXCEPT !.patch = FALSE].id = h.id /\ [h EXCEPT !.patch = FALSE].base = h.base
      BY DEF HoldFile
    <3>2. holds' = [holds EXCEPT ![job.path] = {IF h.id = job.shelve[1] THEN [h EXCEPT !.patch = FALSE] ELSE h : h \in @}]
      BY <2>2 DEF ShelvePatch
    <3>3. SUFFICES ASSUME NEW p \in Path, NEW g \in holds'[p]
                   PROVE  \E h \in holds[p] : h.id = g.id /\ h.base = g.base
      OBVIOUS
    <3>4. CASE p # job.path
      BY <1>2, <3>2, <3>4
    <3>5. CASE p = job.path
      <4>1. PICK h \in holds[p] : g = IF h.id = job.shelve[1] THEN [h EXCEPT !.patch = FALSE] ELSE h
        BY <1>2, <3>2, <3>5
      <4>2. h \in HoldFile
        BY <1>2
      <4>3. QED
        BY <3>1, <4>1, <4>2
    <3>6. QED
      BY <3>4, <3>5
  <2>3. CASE ShelveMeta
    BY <1>2, <2>3 DEF ShelveMeta
  <2>4. CASE UNCHANGED holds
    BY <2>4
  <2>5. QED
    BY <2>1, <2>2, <2>3, <2>4 DEF Aside, ShelveNothing, ShelveFails, PublishRefused, Purge, EmbedRead, EmbedSave,
       Crash, TearLog, disk
<1>4. job.pc \in Recording => UNCHANGED holds
  BY DEF Aside, Recording, StageMeta, ShelvePatch, ShelveMeta, ShelveNothing, ShelveFails, PublishRefused, Purge,
     EmbedRead, EmbedSave, Crash, TearLog, disk
<1>5. \/ job' = job
      \/ job'.pc \notin Recording
  BY <1>1 DEF Idle, Recording
<1>6. QED
  BY <1>1, <1>3, <1>4, <1>5, HoldsKept DEF HeadIs, Recording

\* A version recorded from a hold leaves the version that hold was made on behind.
LEMMA AppendEntryHolds ==
  ASSUME CoreInv, HoldInv, CoreInv', AppendEntry
  PROVE  HoldInv'
<1> DEFINE new == [at |-> stamp, body |-> job.body, tomb |-> FALSE]
           old == entries[job.path]
<1>1. /\ job.pc = "entry" /\ job.path \in Path /\ job.body \in Body \union {None} /\ stamp \in Stamp
      /\ UNCHANGED <<live, files, holds, log, torn, vectors, stamp, staged>>
      /\ old \in Seq(Entry)
  BY DEF AppendEntry, CoreInv, TypeOK, JobOK, Stamp
<1>2. new \in Entry /\ new.at = stamp
  BY <1>1 DEF Entry
<1>3. entries' = [entries EXCEPT ![job.path] = Append(old, new)]
  BY DEF AppendEntry
<1>4. job'.pc \notin Recording
  BY DEF AppendEntry, Step, Return, CoreInv, JobOK, Idle, Recording
<1>5. Last(Append(old, new)) = new
  <2> HIDE DEF new, old
  <2>1. QED
    BY <1>1, <1>2, AppendProperties DEF Last
<1>6. \A q \in Path : \A s \in Stamp : HeadIs(q, s)' => (q = job.path /\ s = stamp) \/ (q # job.path /\ HeadIs(q, s))
  <2> HIDE DEF new, old
  <2>1. ASSUME NEW q \in Path, NEW s \in Stamp, HeadIs(q, s)'
        PROVE  (q = job.path /\ s = stamp) \/ (q # job.path /\ HeadIs(q, s))
    <3>1. CASE q = job.path
      BY <1>1, <1>2, <1>3, <1>5, <2>1, <3>1 DEF HeadIs, CoreInv, TypeOK
    <3>2. CASE q # job.path
      BY <1>3, <2>1, <3>2 DEF HeadIs, CoreInv, TypeOK
    <3>3. QED
      BY <3>1, <3>2
  <2>2. QED
    BY <2>1
<1> HIDE DEF new, old
<1>7. \A p \in Path : \A h \in holds[p] : h.id \in Hold /\ h.base \in Stamp /\ h.base # stamp
  BY <1>1 DEF CoreInv, TypeOK, HoldFile, HoldInv, HoldsApart
<1>8. HoldsApart'
  BY <1>1, <1>4 DEF HoldInv, HoldsApart, Recording
<1>9. CASE job.op # "approve"
  <2>1. applied' = applied
    BY <1>9 DEF AppendEntry
  <2>2. QED
    BY <1>1, <1>4, <1>6, <1>7, <1>8, <2>1 DEF HoldInv, BaseLeft, Recording
<1>10. CASE job.op = "approve"
  <2>1. PICK c \in holds[job.path] : c.id = job.hold /\ HeadIs(job.path, c.base)
    BY <1>1, <1>10 DEF HoldInv, BaseLeft
  <2>2. c.id \in Hold /\ applied[c.id] = {}
    BY <1>1, <1>7, <2>1 DEF HoldInv, BaseLeft
  <2>3. applied' = [applied EXCEPT ![c.id] = {stamp}]
    BY <1>10, <2>1, <2>2 DEF AppendEntry, CoreInv, TypeOK
  <2>4. /\ \A h \in Hold : h # c.id => applied'[h] = applied[h]
        /\ applied'[c.id] = {stamp}
    BY <2>2, <2>3 DEF CoreInv, TypeOK
  <2>5. \A q \in Path : HeadIs(q, c.base) => q = job.path
    <3>1. ASSUME NEW q \in Path, HeadIs(q, c.base)
          PROVE  q = job.path
      <4>1. \A r \in {q, job.path} : entries[r] \in Seq(Entry) /\ entries[r] # <<>>
        BY <1>1, <2>1, <3>1 DEF HeadIs, CoreInv, TypeOK
      <4>2. \A r \in {q, job.path} : Len(entries[r]) \in DOMAIN entries[r] /\ Last(entries[r]) = entries[r][Len(entries[r])]
        BY <4>1, EmptySeq, LenProperties DEF Last
      <4>3. QED
        BY <1>1, <2>1, <3>1, <4>2 DEF HeadIs, CoreInv, StampsApart
    <3>2. QED
      BY <3>1
  <2>6. \A p, q \in Path : \A h \in holds[p] : applied'[h.id] # {} => ~HeadIs(q, h.base)'
    <3>1. ASSUME NEW p \in Path, NEW q \in Path, NEW h \in holds[p], applied'[h.id] # {}, HeadIs(q, h.base)'
          PROVE  FALSE
      <4>1. q # job.path /\ HeadIs(q, h.base)
        BY <1>6, <1>7, <3>1
      <4>2. CASE h.id = c.id
        BY <1>1, <2>1, <2>5, <3>1, <4>1, <4>2 DEF HoldInv, HoldsApart
      <4>3. CASE h.id # c.id
        BY <1>7, <2>4, <3>1, <4>1, <4>3 DEF HoldInv, BaseLeft
      <4>4. QED
        BY <4>2, <4>3
    <3>2. QED
      BY <3>1
  <2>7. \A h \in Hold : applied'[h] # {} => h <= staged'
    BY <1>1, <2>1, <2>2, <2>4 DEF HoldInv, BaseLeft, HoldsApart
  <2>8. \A h \in Hold : \A s, t \in applied'[h] : s = t
    BY <2>4 DEF HoldInv, BaseLeft
  <2>9. QED
    BY <1>1, <1>4, <1>8, <2>6, <2>7, <2>8 DEF HoldInv, BaseLeft, Recording
<1>11. QED
  BY <1>9, <1>10

\* The steps of a publish, a forget, a delete and a move.
LEMMA ContinuedHolds ==
  ASSUME CoreInv, HoldInv, CoreInv',
         PublishLive \/ SealArtifact \/ EraseArtifact \/ Discard \/ Stub \/ Record \/ Unlink
  PROVE  HoldInv'
<1> USE DEF HeadIs, counts, Step, Return, Idle, Recording
<1>0. DOMAIN job = DOMAIN Idle /\ (job.pc # "idle" => job.path \in Path)
  BY DEF CoreInv, JobOK
<1>1. CASE PublishLive
  <2>1. job'.op = job.op /\ job'.path = job.path /\ job'.hold = job.hold
    BY <1>0, <1>1 DEF PublishLive
  <2>2. QED
    BY <1>1, <2>1, HoldsKept DEF PublishLive
<1>2. CASE SealArtifact
  <2>1. job'.op = job.op /\ job'.path = job.path /\ job'.hold = job.hold
    BY <1>0, <1>2 DEF SealArtifact
  <2>2. QED
    BY <1>2, <2>1, HoldsKept DEF SealArtifact
<1>3. CASE EraseArtifact
  BY <1>3, HoldsKept DEF EraseArtifact
<1>4. CASE Discard
  <2>1. \A p \in Path : holds'[p] \subseteq holds[p]
    BY <1>4 DEF Discard, CoreInv, TypeOK
  <2>2. job'.pc \in {"idle", "stub"}
    BY <1>0, <1>4 DEF Discard
  <2>3. QED
    BY <1>4, <2>1, <2>2, HoldsKept DEF Discard
<1>5. CASE Stub
  <2>1. job.op \in {"forget", "import"} /\ job'.op = job.op
    BY <1>0, <1>5 DEF Stub, CoreInv, JobOK
  <2>2. QED
    BY <1>5, <2>1, HoldsKept DEF Stub
<1>6. CASE Record
  <2>1. job'.pc \in {"idle", "unlink", "purge"}
    BY <1>0, <1>6 DEF Record
  <2>2. QED
    BY <1>6, <2>1, HoldsKept DEF Record
<1>7. CASE Unlink
  <2>1. job'.pc = "history"
    BY <1>0, <1>7 DEF Unlink
  <2>2. QED
    BY <1>7, <2>1, HoldsKept DEF Unlink
<1>8. QED
  BY <1>1, <1>2, <1>3, <1>4, <1>5, <1>6, <1>7

\* The steps that rewrite or move a history bring no new head.
LEMMA RewriteHolds ==
  ASSUME CoreInv, HoldInv, CoreInv', Tombstone \/ RemoveHistory \/ Carry
  PROVE  HoldInv'
<1> USE DEF counts, Step, Return, Idle
<1>0. /\ DOMAIN job = DOMAIN Idle /\ job.path \in Path
      /\ entries \in [Path -> Seq(Entry)] /\ entries' \in [Path -> Seq(Entry)]
      /\ UNCHANGED <<holds, stamp, staged, applied>>
  BY DEF CoreInv, JobOK, TypeOK, Tombstone, RemoveHistory, Carry
<1>1. job'.pc \notin Recording
  <2>1. job'.pc \in {"erase", "idle", "purge", "unlink"}
    <3>1. CASE Tombstone
      BY <1>0, <3>1 DEF Tombstone
    <3>2. CASE RemoveHistory
      BY <1>0, <3>2 DEF RemoveHistory
    <3>3. CASE Carry
      BY <1>0, <3>3 DEF Carry
    <3>4. QED
      BY <3>1, <3>2, <3>3
  <2>2. QED
    BY <2>1 DEF Recording
<1>2. \A q \in Path, s \in Stamp : HeadIs(q, s)' => \E p \in Path : HeadIs(p, s)
  <2>1. CASE Tombstone
    <3>1. SUFFICES ASSUME NEW q \in Path, NEW s \in Stamp, HeadIs(q, s)'
                   PROVE  HeadIs(q, s)
      OBVIOUS
    <3>2. CASE q # job.path
      BY <1>0, <2>1, <3>1, <3>2 DEF HeadIs, Tombstone
    <3>3. CASE q = job.path
      <4>1. entries'[q] = [i \in DOMAIN entries[q] |-> [entries[q][i] EXCEPT !.tomb = TRUE]]
        BY <1>0, <2>1, <3>3 DEF Tombstone
      <4>2. /\ DOMAIN entries[q] = 1 .. Len(entries[q]) /\ Len(entries[q]) \in Nat
            /\ DOMAIN entries'[q] = 1 .. Len(entries'[q]) /\ Len(entries'[q]) \in Nat
        BY <1>0, LenProperties
      <4>3. Len(entries'[q]) = Len(entries[q])
        BY <4>1, <4>2
      <4>4. Len(entries'[q]) # 0
        BY <1>0, <3>1, EmptySeq DEF HeadIs
      <4>5. Len(entries[q]) \in DOMAIN entries[q] /\ entries[q] # <<>>
        BY <1>0, <4>2, <4>3, <4>4, EmptySeq
      <4>6. entries[q][Len(entries[q])] \in Entry
        BY <1>0, <4>5
      <4>7. entries'[q][Len(entries[q])].at = entries[q][Len(entries[q])].at
        BY <4>1, <4>5, <4>6 DEF Entry
      <4>8. QED
        BY <3>1, <4>3, <4>5, <4>7 DEF HeadIs, Last
    <3>4. QED
      BY <3>2, <3>3
  <2>2. CASE RemoveHistory
    BY <1>0, <2>2 DEF RemoveHistory, HeadIs
  <2>3. CASE Carry
    <3>1. job.to \in Path
      BY <2>3 DEF Carry, CoreInv, JobOK
    <3>2. \A q \in Path : entries'[q] = <<>> \/ \E p \in Path : entries'[q] = entries[p]
      BY <1>0, <2>3, <3>1 DEF Carry
    <3>3. QED
      BY <3>2 DEF HeadIs
  <2>4. QED
    BY <2>1, <2>2, <2>3
<1>3. QED
  BY <1>0, <1>1, <1>2, HoldsKept DEF Recording

\* Holds stay behind what was recorded from them.
LEMMA Holding ==
  ASSUME CoreInv, HoldInv, CoreInv', [Next]_vars
  PROVE  HoldInv'
<1>1. ASSUME NEW p \in Path, Called(p)
      PROVE  HoldInv'
  BY <1>1, CallHolds
<1>2. CASE Aside
  BY <1>2, AsideHolds
<1>3. CASE PublishLive \/ SealArtifact \/ EraseArtifact \/ Discard \/ Stub \/ Record \/ Unlink
  BY <1>3, ContinuedHolds
<1>4. CASE AppendEntry
  BY <1>4, AppendEntryHolds
<1>5. CASE Tombstone \/ RemoveHistory \/ Carry
  BY <1>5, RewriteHolds
<1>6. ASSUME NEW p \in Path, NEW body \in Body, HandEdit(p, body)
      PROVE  HoldInv'
  BY <1>6 DEF HandEdit, counts, HoldInv, HoldsApart, BaseLeft, HeadIs
<1>7. CASE UNCHANGED vars
  BY <1>7 DEF vars, disk, counts, HoldInv, HoldsApart, BaseLeft, HeadIs
<1>8. QED
  BY <1>1, <1>2, <1>3, <1>4, <1>5, <1>6, <1>7 DEF Next, Continued, Outside, Aside

\* A version that is not recorded yet has no artifact, and then one of its own text.
LEMMA ArtifactsKept ==
  ASSUME CoreInv, ArtifactsAgree, CoreInv', UNCHANGED <<entries, files>>,
         stamp' \in {stamp, stamp + 1},
         job'.pc = "artifact" => stamp' = stamp + 1 \/ job' = job,
         job'.pc = "entry" => job' = job /\ stamp' = stamp
  PROVE  ArtifactsAgree'
<1>1. stamp \in Nat
  BY BoundAssumption DEF CoreInv, TypeOK
<1>2. \A p \in Path : \A f \in files[p] : f.at \in Nat /\ f.at <= stamp
  BY DEF CoreInv, TypeOK, Artifact, Stamp, ArtifactsAgree
<1>3. job'.pc = "artifact" => job'.path \in Path
  BY DEF CoreInv, JobOK
<1>4. QED
  <2>1. \A p \in Path : \A f \in files[p] : f.at <= stamp'
    BY <1>1, <1>2
  <2>2. job'.pc = "artifact" => \A f \in files[job'.path] : f.at # stamp'
    BY <1>1, <1>2, <1>3 DEF ArtifactsAgree
  <2>3. QED
    BY <2>1, <2>2 DEF ArtifactsAgree

LEMMA SealArtifactAgrees ==
  ASSUME CoreInv, ArtifactsAgree, SealArtifact
  PROVE  ArtifactsAgree'
<1> DEFINE new == [at |-> stamp, body |-> job.body]
<1>1. /\ job.pc = "artifact" /\ job.path \in Path /\ stamp \in Nat
      /\ UNCHANGED <<entries, stamp>>
      /\ job'.pc = "entry" /\ job'.path = job.path /\ job'.body = job.body
  BY BoundAssumption DEF SealArtifact, Step, CoreInv, JobOK, TypeOK, Idle, counts
<1>2. new.at = stamp /\ new.body = job.body
  OBVIOUS
<1>3. files' = [files EXCEPT ![job.path] = @ \union {new}]
  BY DEF SealArtifact
<1> HIDE DEF new
<1>4. \A p \in Path : \A f \in files'[p] : f \in files[p] \/ (p = job.path /\ f = new)
  BY <1>1, <1>3 DEF CoreInv, TypeOK
<1>5. \A p \in Path : \A i \in DOMAIN entries[p] : entries[p][i].at # stamp
  BY <1>1 DEF CoreInv, StampsApart
<1>6. \A p \in Path : \A f \in files'[p] : f.at <= stamp
  BY <1>1, <1>2, <1>4 DEF ArtifactsAgree
<1>7. \A f \in files'[job.path] : f.at = stamp => f.body = job.body
  BY <1>1, <1>2, <1>4 DEF ArtifactsAgree
<1>8. \A p \in Path : \A i \in DOMAIN entries[p], f \in files'[p] :
        f.at = entries[p][i].at => f.body = entries[p][i].body
  BY <1>2, <1>4, <1>5 DEF ArtifactsAgree
<1>9. QED
  BY <1>1, <1>6, <1>7, <1>8 DEF ArtifactsAgree

\* What an append adds to a history, and to which.
LEMMA Appended ==
  ASSUME CoreInv, AppendEntry, NEW p \in Path, NEW i \in DOMAIN entries'[p]
  PROVE  \/ i \in DOMAIN entries[p] /\ entries'[p][i] = entries[p][i]
         \/ p = job.path /\ entries'[p][i] = [at |-> stamp, body |-> job.body, tomb |-> FALSE]
<1> DEFINE new == [at |-> stamp, body |-> job.body, tomb |-> FALSE]
           old == entries[job.path]
<1>1. job.path \in Path /\ entries \in [Path -> Seq(Entry)] /\ stamp \in Stamp /\ job.body \in Body \union {None}
  BY DEF AppendEntry, CoreInv, TypeOK, JobOK, Stamp
<1>2. entries' = [entries EXCEPT ![job.path] = Append(old, new)] /\ new \in Entry /\ old \in Seq(Entry)
  BY <1>1 DEF AppendEntry, Entry
<1>3. /\ DOMAIN Append(old, new) = 1 .. Len(old) + 1
      /\ DOMAIN old = 1 .. Len(old) /\ Len(old) \in Nat
      /\ \A j \in 1 .. Len(old) : Append(old, new)[j] = old[j]
      /\ Append(old, new)[Len(old) + 1] = new
  <2> HIDE DEF new, old
  <2>1. QED
    BY <1>2, AppendProperties, LenProperties
<1> HIDE DEF new
<1>4. CASE p # job.path
  BY <1>1, <1>2, <1>4
<1>5. CASE p = job.path
  <2>1. entries'[p] = Append(old, new)
    BY <1>1, <1>2, <1>5
  <2>2. i \in 1 .. Len(old) \/ i = Len(old) + 1
    BY <1>3, <2>1
  <2>3. QED
    BY <1>3, <1>5, <2>1, <2>2 DEF new
<1>6. QED
  BY <1>4, <1>5

\* What a tombstoned history keeps.
LEMMA Tombstoned ==
  ASSUME CoreInv, Tombstone, NEW p \in Path
  PROVE  /\ DOMAIN entries'[p] = DOMAIN entries[p]
         /\ \A i \in DOMAIN entries[p] :
              entries'[p][i].at = entries[p][i].at /\ entries'[p][i].body = entries[p][i].body
         /\ p # job.path => entries'[p] = entries[p]
<1>1. job.path \in Path /\ entries \in [Path -> Seq(Entry)]
  BY DEF Tombstone, CoreInv, TypeOK, JobOK
<1>2. CASE p # job.path
  BY <1>1, <1>2 DEF Tombstone
<1>3. CASE p = job.path
  <2>1. entries'[p] = [i \in DOMAIN entries[p] |-> [entries[p][i] EXCEPT !.tomb = TRUE]]
    BY <1>1, <1>3 DEF Tombstone
  <2>2. \A i \in DOMAIN entries[p] : entries[p][i] \in Entry
    BY EntryTyped
  <2>3. \A e \in Entry : [e EXCEPT !.tomb = TRUE].at = e.at /\ [e EXCEPT !.tomb = TRUE].body = e.body
    BY DEF Entry
  <2>4. QED
    BY <1>3, <2>1, <2>2, <2>3
<1>4. QED
  BY <1>2, <1>3

\* Where a move's rename leaves the histories.
LEMMA Carried ==
  ASSUME CoreInv, Carry
  PROVE  /\ job.pc = "carry" /\ job.op = "move"
         /\ job.path \in Path /\ job.to \in Path /\ job.to # job.path /\ DOMAIN job' = DOMAIN Idle
         /\ job'.pc = "unlink"
         /\ \/ /\ UNCHANGED <<entries, files>>
               /\ job'.path \in {job.path, job.to}
               /\ job'.op = (IF job'.path = job.to THEN "undo" ELSE "move")
            \/ /\ entries'[job.path] = <<>> /\ files'[job.path] = {}
               /\ entries'[job.to] = entries[job.path] /\ files'[job.to] = files[job.path]
               /\ job'.path = job.path /\ job'.op = "move"
         /\ \A p \in Path \ {job.path, job.to} : entries'[p] = entries[p] /\ files'[p] = files[p]
         /\ UNCHANGED <<live, holds, log, torn, vectors, stamp, staged, applied, struck>>
<1>1. /\ job.pc = "carry" /\ job.op = "move" /\ job.path \in Path /\ job.to \in Path /\ job.to # job.path
      /\ DOMAIN job = DOMAIN Idle
      /\ UNCHANGED <<live, holds, log, torn, vectors, stamp, staged, applied, struck>>
      /\ entries \in [Path -> Seq(Entry)] /\ files \in [Path -> SUBSET Artifact]
  BY DEF Carry, CoreInv, JobOK, TypeOK, counts
<1>2. CASE HasHistory(job.path) /\ HasHistory(job.to)
  <2>1. /\ DOMAIN job' = DOMAIN Idle /\ job'.pc = "unlink" /\ job'.path = job.to /\ job'.op = "undo"
        /\ UNCHANGED <<entries, files>>
    BY <1>1, <1>2 DEF Carry, Idle
  <2>2. QED
    BY <1>1, <2>1
<1>3. CASE ~(HasHistory(job.path) /\ HasHistory(job.to))
  <2>1. /\ DOMAIN job' = DOMAIN Idle /\ job'.pc = "unlink" /\ job'.path = job.path /\ job'.op = "move"
    BY <1>1, <1>3 DEF Carry, Step, Idle
  <2>2. CASE HasHistory(job.path)
    <3>1. /\ entries' = [entries EXCEPT ![job.to] = entries[job.path], ![job.path] = <<>>]
          /\ files' = [files EXCEPT ![job.to] = files[job.path], ![job.path] = {}]
      BY <1>3, <2>2 DEF Carry
    <3>2. QED
      BY <1>1, <2>1, <3>1
  <2>3. CASE ~HasHistory(job.path)
    BY <1>1, <1>3, <2>1, <2>3 DEF Carry
  <2>4. QED
    BY <2>2, <2>3
<1>4. QED
  BY <1>2, <1>3

\* An entry and its artifact hold one text, whatever an operation was doing when it died.
LEMMA Agreeing ==
  ASSUME CoreInv, ArtifactsAgree, CoreInv', [Next]_vars
  PROVE  ArtifactsAgree'
<1> USE DEF counts, disk
<1>0. /\ DOMAIN job = DOMAIN Idle /\ entries \in [Path -> Seq(Entry)] /\ files \in [Path -> SUBSET Artifact]
      /\ job.pc # "idle" => job.path \in Path
  BY DEF CoreInv, JobOK, TypeOK
<1>1. ASSUME NEW p \in Path, Called(p)
      PROVE  ArtifactsAgree'
  <2>1. UNCHANGED <<entries, files, stamp>> /\ job'.pc \notin {"artifact", "entry"}
    BY <1>1, CallLeaves, CallOpens DEF RestKept, JobOpened
  <2>2. QED
    BY <2>1, ArtifactsKept
<1>2. CASE Aside
  <2>1. UNCHANGED <<entries, files, stamp>> /\ (job' = job \/ job'.pc \notin {"artifact", "entry"})
    BY <1>2, AsideLeaves, AsideJob DEF Idle
  <2>2. QED
    BY <2>1, ArtifactsKept
<1>3. CASE PublishLive \/ Stub
  <2>1. job'.pc = "artifact" /\ stamp' = stamp + 1
    BY <1>0, <1>3 DEF PublishLive, Stub, Idle
  <2>2. QED
    BY <1>3, <2>1, ArtifactsKept DEF PublishLive, Stub
<1>4. CASE SealArtifact
  BY <1>4, SealArtifactAgrees
<1>5. CASE AppendEntry
  <2> DEFINE new == [at |-> stamp, body |-> job.body, tomb |-> FALSE]
  <2>1. job.pc = "entry" /\ job.path \in Path /\ UNCHANGED <<files, stamp>>
    BY <1>0, <1>5 DEF AppendEntry
  <2>2. job'.pc \notin {"artifact", "entry"}
    BY <1>0, <1>5 DEF AppendEntry, Step, Return, Idle
  <2>3. new.at = stamp /\ new.body = job.body
    OBVIOUS
  <2> HIDE DEF new
  <2>4. \A p \in Path : \A i \in DOMAIN entries'[p] :
          (i \in DOMAIN entries[p] /\ entries'[p][i] = entries[p][i]) \/ (p = job.path /\ entries'[p][i] = new)
    BY <1>5, Appended DEF new
  <2>5. QED
    BY <2>1, <2>2, <2>3, <2>4 DEF ArtifactsAgree
<1>6. CASE Tombstone
  <2>1. job'.pc = "erase" /\ UNCHANGED <<files, stamp>>
    BY <1>0, <1>6 DEF Tombstone, Step, Idle
  <2>2. QED
    BY <1>6, <2>1, Tombstoned DEF ArtifactsAgree
<1>7. CASE EraseArtifact
  <2>1. UNCHANGED <<entries, stamp, job>> /\ job.pc = "erase" /\ \A p \in Path : files'[p] \subseteq files[p]
    BY <1>0, <1>7 DEF EraseArtifact
  <2>2. QED
    BY <2>1 DEF ArtifactsAgree
<1>8. CASE Discard \/ Record \/ Unlink
  <2>1. job'.pc \in {"idle", "stub", "unlink", "purge", "history"}
    BY <1>0, <1>8 DEF Discard, Record, Unlink, Step, Return, Idle
  <2>2. QED
    BY <1>8, <2>1, ArtifactsKept DEF Discard, Record, Unlink
<1>9. CASE RemoveHistory
  <2>1. job'.pc \in {"idle", "purge"} /\ stamp' = stamp
    BY <1>0, <1>9 DEF RemoveHistory, Step, Return, Idle
  <2>2. \A p \in Path : files'[p] = {} \/ (entries'[p] = entries[p] /\ files'[p] = files[p])
    BY <1>0, <1>9 DEF RemoveHistory
  <2>3. QED
    BY <2>1, <2>2 DEF ArtifactsAgree
<1>10. CASE Carry
  <2>1. job'.pc = "unlink" /\ stamp' = stamp
    BY <1>10, Carried
  <2>2. \A p \in Path : files'[p] = {} \/ \E q \in Path : entries'[p] = entries[q] /\ files'[p] = files[q]
    BY <1>10, Carried
  <2>3. QED
    BY <2>1, <2>2 DEF ArtifactsAgree
<1>11. ASSUME NEW p \in Path, NEW body \in Body, HandEdit(p, body)
       PROVE  ArtifactsAgree'
  BY <1>11 DEF HandEdit, ArtifactsAgree
<1>12. CASE UNCHANGED vars
  BY <1>12 DEF vars, ArtifactsAgree
<1>13. QED
  BY <1>1, <1>2, <1>3, <1>4, <1>5, <1>6, <1>7, <1>8, <1>9, <1>10, <1>11, <1>12 DEF Next, Continued, Outside, Aside

\* What may be in a live file: a stub has no text, and what is archived was no stub.
NodeText(node) ==
  /\ node.body = None <=> node.status = "forgotten"
  /\ node.was # None => node.status = "rejected" /\ node.was # "forgotten"

\* Calls write such files.
LEMMA CallText ==
  ASSUME CoreInv, LiveText, NEW p \in Path, Called(p)
  PROVE  \A q \in Path : live'[q] # None => NodeText(live'[q])
<1> USE DEF NodeText
<1>0. /\ live \in [Path -> Node \union {None}]
      /\ \A q \in Path : live[q] # None => live[q] \in Node /\ NodeText(live[q])
      /\ None \notin Body
  BY NoneAssumption DEF CoreInv, TypeOK, LiveText, IsForgotten, IsRejected
<1>1. SUFFICES ASSUME live' # live
               PROVE  \/ \E node : WriteLive(p, node) /\ NodeText(node)
                      \/ \E q \in Path : WriteLive(q, live[p]) /\ live[p] # None
  BY <1>0 DEF WriteLive
<1>2. ASSUME NEW body \in Body, NEW how \in {"draft", "hold", "publish"}, Create(p, body, how)
      PROVE  \E node : WriteLive(p, node) /\ NodeText(node)
  <2>1. \A s \in {"pending_review", "draft"} : NodeText(Draft(body, s))
    BY <1>0 DEF Draft
  <2>2. QED
    BY <1>2, <2>1 DEF Create
<1>3. ASSUME NEW body \in Body, NEW how \in {"draft", "publish"}, Update(p, body, how)
      PROVE  \E node : WriteLive(p, node) /\ NodeText(node)
  <2>1. live[p] \in Node /\ NodeText(live[p]) /\ ~IsArchived(p) /\ ~IsForgotten(p)
    BY <1>0, <1>3 DEF Update, MayEdit
  <2>2. live[p].was = None
    BY <2>1 DEF IsArchived, IsRejected
  <2>3. NodeText([live[p] EXCEPT !.body = body, !.status = IF how = "draft" THEN "draft" ELSE @])
    BY <1>0, <2>1, <2>2 DEF Node, IsForgotten
  <2>4. QED
    BY <1>3, <2>3 DEF Update
<1>4. ASSUME NEW body \in Body, HoldUpdate(p, body)
      PROVE  \E node : WriteLive(p, node) /\ NodeText(node)
  <2>1. live[p] \in Node /\ NodeText(live[p]) /\ ~IsArchived(p) /\ ~IsForgotten(p)
    BY <1>0, <1>4 DEF HoldUpdate, MayEdit
  <2>2. live[p].was = None
    BY <2>1 DEF IsArchived, IsRejected
  <2>3. NodeText([live[p] EXCEPT !.body = body, !.status = "pending_review"])
    BY <1>0, <2>1, <2>2 DEF Node
  <2>4. QED
    BY <1>1, <1>4, <2>3 DEF HoldUpdate
<1>5. ASSUME ApproveHold(p)
      PROVE  \E node : WriteLive(p, node) /\ NodeText(node)
  <2>1. PICK chosen \in Fresh(p) : WriteLive(p, [Draft(chosen.body, "published") EXCEPT !.at = chosen.base])
    BY <1>5 DEF ApproveHold
  <2>2. chosen.body \in Body
    BY DEF Fresh, Listed, CoreInv, TypeOK, HoldFile
  <2>3. NodeText([Draft(chosen.body, "published") EXCEPT !.at = chosen.base])
    BY <1>0, <2>2 DEF Draft
  <2>4. QED
    BY <2>1, <2>3
<1>6. ASSUME RejectHolds(p)
      PROVE  \E node : WriteLive(p, node) /\ NodeText(node)
  <2>1. WriteLive(p, [live[p] EXCEPT !.status = "rejected"]) /\ live[p] # None /\ live[p].status = "pending_review"
    BY <1>1, <1>6 DEF RejectHolds
  <2>2. NodeText([live[p] EXCEPT !.status = "rejected"])
    BY <1>0, <2>1 DEF Node
  <2>3. QED
    BY <2>1, <2>2
<1>7. ASSUME Archive(p)
      PROVE  \E node : WriteLive(p, node) /\ NodeText(node)
  <2>1. live[p] \in Node /\ NodeText(live[p]) /\ ~IsForgotten(p)
    BY <1>0, <1>7 DEF Archive
  <2>2. NodeText([live[p] EXCEPT !.status = "rejected", !.was = live[p].status])
    BY <2>1 DEF Node, IsForgotten
  <2>3. QED
    BY <1>7, <2>2 DEF Archive
<1>8. ASSUME Unarchive(p)
      PROVE  \E node : WriteLive(p, node) /\ NodeText(node)
  <2>1. live[p] \in Node /\ NodeText(live[p]) /\ live[p].was # None
    BY <1>0, <1>8 DEF Unarchive
  <2>2. NodeText([live[p] EXCEPT !.status = live[p].was, !.was = None])
    BY <2>1 DEF Node
  <2>3. QED
    BY <1>8, <2>2 DEF Unarchive
<1>9. ASSUME Restore(p)
      PROVE  \E node : WriteLive(p, node) /\ NodeText(node)
  <2>1. PICK e \in Kept(p) :
          WriteLive(p, [Draft(e.body, IF e.body = None THEN "forgotten" ELSE "published") EXCEPT !.at = e.at])
    BY <1>9 DEF Restore
  <2>2. NodeText([Draft(e.body, IF e.body = None THEN "forgotten" ELSE "published") EXCEPT !.at = e.at])
    BY DEF Draft
  <2>3. QED
    BY <2>1, <2>2
<1>10. ASSUME NEW q \in Path, Move(p, q)
       PROVE  WriteLive(q, live[p]) /\ live[p] # None
  BY <1>10 DEF Move
<1>11. ~Publish(p) /\ ~Forget(p)
  BY <1>1 DEF Publish, Forget, disk
<1>12. ASSUME NEW purge \in BOOLEAN, Delete(p, purge)
       PROVE  FALSE
  BY <1>1, <1>12 DEF Delete, disk
<1>13. ASSUME NEW bodies \in SUBSET Body, Import(p, bodies)
       PROVE  FALSE
  BY <1>1, <1>13 DEF Import
<1>14. QED
  BY <1>2, <1>3, <1>4, <1>5, <1>6, <1>7, <1>8, <1>9, <1>10, <1>11, <1>12, <1>13 DEF Called

\* Each path's file and the locals after a step that writes one file or none.
LEMMA TextKept ==
  ASSUME LiveText, UNCHANGED live,
         job'.pc \in {"artifact", "entry"} =>
           job.pc \in {"artifact", "entry"} /\ job'.path = job.path /\ job'.body = job.body /\ job'.op = job.op,
         job'.pc = "carry" => job' = job
  PROVE  LiveText'
BY DEF LiveText, IsForgotten, IsRejected

\* A stub, and nothing else, has no text.
LEMMA Texts ==
  ASSUME CoreInv, LiveText, CoreInv', [Next]_vars
  PROVE  LiveText'
<1> USE DEF counts, disk
<1>0. /\ DOMAIN job = DOMAIN Idle
      /\ job.pc # "idle" => job.path \in Path
      /\ live \in [Path -> Node \union {None}]
  BY DEF CoreInv, JobOK, TypeOK
<1>1. ASSUME NEW p \in Path, Called(p)
      PROVE  LiveText'
  <2>1. \A q \in Path : live'[q] # None => NodeText(live'[q])
    BY <1>1, CallText
  <2>2. job'.pc \notin {"artifact", "entry"}
    BY <1>1, CallOpens DEF JobOpened
  <2>3. job'.pc = "carry" =>
          live'[job'.path] # None /\ live'[job'.path].status # "forgotten" /\ live'[job'.to].status # "forgotten"
    <3>1. ASSUME job'.pc = "carry"
          PROVE  \E q \in Path : Move(p, q)
      <4> USE <3>1 DEF Go, Idle, Begin
      <4>1. Idle.pc # "carry" /\ Go("publish", "judge", p).pc # "carry"
            /\ Go("sweep", "erase", p).pc # "carry" /\ Go("import", "tombstone", p).pc # "carry"
        OBVIOUS
      <4>2. ~ \E body \in Body, how \in {"draft", "hold", "publish"} : Create(p, body, how)
        <5> HIDE DEF Go, Idle
        <5>1. QED
          BY <4>1 DEF Create
      <4>3. ~ \E body \in Body, how \in {"draft", "publish"} : Update(p, body, how)
        <5> HIDE DEF Go, Idle
        <5>1. QED
          BY <4>1 DEF Update
      <4>4. ~ \E body \in Body : HoldUpdate(p, body)
        BY DEF HoldUpdate
      <4>5. ~ApproveHold(p) /\ ~Publish(p) /\ ~RejectHolds(p)
        BY DEF ApproveHold, Publish, RejectHolds
      <4>6. ~Archive(p) /\ ~Unarchive(p) /\ ~Restore(p) /\ ~Forget(p)
        BY DEF Archive, Unarchive, Restore, Forget
      <4>7. ~ \E purge \in BOOLEAN : Delete(p, purge)
        BY DEF Delete
      <4>8. ~ \E bodies \in SUBSET Body \ {{}} : Import(p, bodies)
        <5> HIDE DEF Go, Idle
        <5>1. QED
          BY <4>1 DEF Import
      <4>9. QED
        BY <1>1, <4>2, <4>3, <4>4, <4>5, <4>6, <4>7, <4>8 DEF Called
    <3>2. ASSUME NEW q \in Path, Move(p, q)
          PROVE  live'[job'.path] # None /\ live'[job'.path].status # "forgotten" /\ live'[job'.to].status # "forgotten"
      <4>1. job' = [Go("move", "carry", p) EXCEPT !.to = q]
        BY <3>2 DEF Move
      <4>2. job'.path = p /\ job'.to = q
        BY <4>1 DEF Go, Idle
      <4>3. live' = [live EXCEPT ![q] = live[p]] /\ p # q /\ live[p] # None /\ live[p].status # "forgotten"
        BY <3>2 DEF Move, WriteLive, IsForgotten
      <4>4. QED
        BY <1>0, <3>2, <4>2, <4>3
    <3>3. QED
      BY <3>1, <3>2
  <2>4. QED
    BY <2>1, <2>2, <2>3 DEF LiveText, NodeText, IsForgotten, IsRejected
<1>2. CASE Aside
  <2>1. UNCHANGED live /\ (job' = job \/ job'.pc \notin {"artifact", "entry", "carry"})
    BY <1>2, AsideLeaves, AsideJob DEF Idle
  <2>2. QED
    BY <2>1, TextKept
<1>3. CASE PublishLive
  <2> DEFINE node == [Draft(live[job.path].body, "published") EXCEPT !.at = stamp']
  <2>1. /\ job.pc = "judge" /\ job'.pc = "artifact" /\ job'.path = job.path /\ job'.op = job.op
        /\ job'.body = live[job.path].body /\ job.op \in {"publish", "approve"} /\ job.path \in Path
        /\ live[job.path] # None
    BY <1>0, <1>3 DEF PublishLive, Idle, CoreInv, JobOK, DoneSoFar
  <2>2. live' = [live EXCEPT ![job.path] = node]
    BY <1>3 DEF PublishLive, WriteLive
  <2>3. live[job.path].body # None
    BY <1>3, <2>1 DEF PublishLive, Refusable, LiveText
  <2>4. NodeText(node) /\ node.body # None /\ node.status = "published"
    BY <2>3 DEF NodeText, Draft
  <2>5. node \in Node
    <3>1. live[job.path] \in Node /\ stamp' \in Stamp
      BY <1>0, <1>3, <2>1, BoundAssumption DEF PublishLive, CoreInv, TypeOK, JobOK, Stamp
    <3>2. QED
      BY <3>1 DEF Draft, Node, Status
  <2> HIDE DEF node
  <2>6. live'[job.path] = node /\ \A q \in Path : q # job.path => live'[q] = live[q]
    BY <1>0, <2>1, <2>2
  <2>7. node # None
    BY <2>5, NoneAssumption
  <2>8. QED
    BY <2>1, <2>3, <2>4, <2>6, <2>7 DEF LiveText, NodeText, IsForgotten, IsRejected
<1>4. CASE Stub
  <2> DEFINE node == [status |-> "forgotten", was |-> None, body |-> None, at |-> stamp']
  <2>1. /\ job.pc = "stub" /\ job'.pc = "artifact" /\ job'.path = job.path /\ job'.op = job.op
        /\ job'.body = None /\ job.op \in {"forget", "import"} /\ job.path \in Path
    BY <1>0, <1>4 DEF Stub, Idle, CoreInv, JobOK
  <2>2. live' = [live EXCEPT ![job.path] = node]
    BY <1>4 DEF Stub, WriteLive
  <2>3. NodeText(node) /\ node.status = "forgotten"
    BY DEF NodeText
  <2>4. node \in Node
    BY <1>4, <2>1, BoundAssumption DEF Stub, CoreInv, TypeOK, JobOK, Stamp, Node, Status
  <2> HIDE DEF node
  <2>5. live'[job.path] = node /\ \A q \in Path : q # job.path => live'[q] = live[q]
    BY <1>0, <2>1, <2>2
  <2>6. node # None
    BY <2>4, NoneAssumption
  <2>7. QED
    BY <2>1, <2>3, <2>5, <2>6 DEF LiveText, NodeText, IsForgotten, IsRejected
<1>5. CASE SealArtifact
  <2>1. job.pc = "artifact" /\ job'.pc = "entry" /\ job'.path = job.path /\ job'.body = job.body /\ job'.op = job.op
    BY <1>0, <1>5 DEF SealArtifact, Step, Idle
  <2>2. QED
    BY <1>5, <2>1, TextKept DEF SealArtifact
<1>6. CASE AppendEntry \/ Discard \/ Record \/ Tombstone \/ RemoveHistory
  <2>1. job'.pc \in {"idle", "shelve", "record", "stub", "unlink", "purge", "erase"}
    BY <1>0, <1>6 DEF AppendEntry, Discard, Record, Tombstone, RemoveHistory, Step, Return, Idle
  <2>2. QED
    BY <1>6, <2>1, TextKept DEF AppendEntry, Discard, Record, Tombstone, RemoveHistory
<1>7. CASE EraseArtifact
  BY <1>7, TextKept DEF EraseArtifact
<1>8. CASE Unlink
  <2>1. job'.pc = "history"
    BY <1>0, <1>8 DEF Unlink, Step, Idle
  <2>2. \A q \in Path : live'[q] = live[q] \/ live'[q] = None
    BY <1>0, <1>8 DEF Unlink, WriteLive
  <2>3. QED
    BY <2>1, <2>2 DEF LiveText, IsForgotten, IsRejected
<1>9. CASE Carry
  BY <1>9, Carried, TextKept
<1>10. ASSUME NEW p \in Path, NEW body \in Body, HandEdit(p, body)
       PROVE  LiveText'
  <2>1. live' = [live EXCEPT ![p] = [live[p] EXCEPT !.body = body]] /\ live[p] \in Node /\ ~IsForgotten(p)
    BY <1>0, <1>10 DEF HandEdit, WriteLive
  <2>2. [live[p] EXCEPT !.body = body] \in Node
    BY <2>1 DEF Node
  <2>3. /\ live'[p].body = body /\ live'[p].status = live[p].status /\ live'[p].was = live[p].was
        /\ live'[p] # None /\ live[p] # None
    BY <1>0, <2>1, <2>2, NoneAssumption DEF Node
  <2>4. \A q \in Path : q # p => live'[q] = live[q]
    BY <1>0, <2>1
  <2>5. body # None /\ UNCHANGED job
    BY <1>10, NoneAssumption DEF HandEdit
  <2>6. QED
    BY <1>0, <2>1, <2>3, <2>4, <2>5 DEF LiveText, IsForgotten, IsRejected, CoreInv, JobOK
<1>11. CASE UNCHANGED vars
  BY <1>11 DEF vars, LiveText, IsForgotten, IsRejected
<1>12. QED
  BY <1>1, <1>2, <1>3, <1>4, <1>5, <1>6, <1>7, <1>8, <1>9, <1>10, <1>11 DEF Next, Continued, Outside, Aside

\* No call makes or removes a stub, but for a version restored after a crash.
LEMMA CallStubs ==
  ASSUME CoreInv, LiveText, StubsAlone, NEW p \in Path, Called(p), "restore" \in Ops => StubsLive
  PROVE  \A q \in Path : Stubbed(q)' <=> Stubbed(q)
<1>0. /\ live \in [Path -> Node \union {None}] /\ job = Idle
      /\ \A q \in Path : live[q] # None => live[q] \in Node /\ NodeText(live[q])
  <2>1. job.pc = "idle"
    BY DEF Called, Begin, Create, Update, HoldUpdate, ApproveHold, Publish, RejectHolds, Archive, Unarchive, Restore,
       Move, Delete, Forget, Import
  <2>2. QED
    BY <2>1 DEF CoreInv, TypeOK, LiveText, NodeText, IsForgotten, IsRejected
<1> DEFINE Same(r, node) == WriteLive(r, node) /\ (node # None /\ node.status = "forgotten" <=> Stubbed(r))
<1>1. SUFFICES ASSUME live' # live
               PROVE  \E r \in Path : \E node : Same(r, node)
  <2>1. CASE live' = live
    BY <2>1 DEF Stubbed, IsForgotten
  <2>2. ASSUME NEW r \in Path, NEW node, Same(r, node)
        PROVE  \A q \in Path : Stubbed(q)' <=> Stubbed(q)
    BY <1>0, <2>2 DEF WriteLive, Stubbed, IsForgotten
  <2>3. QED
    BY <2>1, <2>2
<1> USE DEF Stubbed, IsForgotten
<1>2. ASSUME NEW body \in Body, NEW how \in {"draft", "hold", "publish"}, Create(p, body, how)
      PROVE  \E node : Same(p, node)
  <2>1. \A s \in {"pending_review", "draft"} : Draft(body, s).status # "forgotten"
    BY DEF Draft
  <2>2. QED
    BY <1>2, <2>1 DEF Create
<1>3. ASSUME NEW body \in Body, NEW how \in {"draft", "publish"}, Update(p, body, how)
      PROVE  \E node : Same(p, node)
  <2>1. live[p] \in Node /\ live[p].status # "forgotten"
    BY <1>0, <1>3 DEF Update, MayEdit
  <2>2. [live[p] EXCEPT !.body = body, !.status = IF how = "draft" THEN "draft" ELSE @].status # "forgotten"
    BY <2>1 DEF Node
  <2>3. QED
    BY <1>3, <2>1, <2>2 DEF Update
<1>4. ASSUME NEW body \in Body, HoldUpdate(p, body)
      PROVE  \E node : Same(p, node)
  <2>1. live[p] \in Node /\ live[p].status # "forgotten"
    BY <1>0, <1>4 DEF HoldUpdate, MayEdit
  <2>2. [live[p] EXCEPT !.body = body, !.status = "pending_review"].status # "forgotten"
    BY <2>1 DEF Node
  <2>3. QED
    BY <1>1, <1>4, <2>1, <2>2 DEF HoldUpdate
<1>5. ASSUME ApproveHold(p)
      PROVE  \E node : Same(p, node)
  <2>1. PICK chosen \in Fresh(p) : WriteLive(p, [Draft(chosen.body, "published") EXCEPT !.at = chosen.base])
    BY <1>5 DEF ApproveHold
  <2>2. ~Stubbed(p)
    BY DEF Fresh, Listed, StubsAlone, NothingLeft
  <2>3. [Draft(chosen.body, "published") EXCEPT !.at = chosen.base].status # "forgotten"
    BY DEF Draft
  <2>4. QED
    BY <2>1, <2>2, <2>3
<1>6. ASSUME RejectHolds(p)
      PROVE  \E node : Same(p, node)
  <2>1. WriteLive(p, [live[p] EXCEPT !.status = "rejected"]) /\ live[p] # None /\ live[p].status = "pending_review"
    BY <1>1, <1>6 DEF RejectHolds
  <2>2. [live[p] EXCEPT !.status = "rejected"].status # "forgotten"
    BY <1>0, <2>1 DEF Node
  <2>3. QED
    BY <2>1, <2>2
<1>7. ASSUME Archive(p)
      PROVE  \E node : Same(p, node)
  <2>1. live[p] \in Node /\ live[p].status # "forgotten"
    BY <1>0, <1>7 DEF Archive
  <2>2. [live[p] EXCEPT !.status = "rejected", !.was = live[p].status].status # "forgotten"
    BY <2>1 DEF Node
  <2>3. QED
    BY <1>7, <2>1, <2>2 DEF Archive
<1>8. ASSUME Unarchive(p)
      PROVE  \E node : Same(p, node)
  <2>1. live[p] \in Node /\ live[p].status # "forgotten" /\ live[p].was # "forgotten"
    BY <1>0, <1>8 DEF Unarchive, NodeText
  <2>2. [live[p] EXCEPT !.status = live[p].was, !.was = None].status # "forgotten"
    BY <2>1 DEF Node
  <2>3. QED
    BY <1>8, <2>1, <2>2 DEF Unarchive
<1>9. ASSUME Restore(p)
      PROVE  \E node : Same(p, node)
  <2>1. PICK i \in DOMAIN entries[p] :
          /\ ~entries[p][i].tomb
          /\ \E f \in files[p] : f.at = entries[p][i].at
          /\ WriteLive(p, [Draft(entries[p][i].body, IF entries[p][i].body = None THEN "forgotten" ELSE "published")
                             EXCEPT !.at = entries[p][i].at])
    BY <1>9 DEF Restore, Kept, Range
  <2> DEFINE e == entries[p][i]
             node == [Draft(e.body, IF e.body = None THEN "forgotten" ELSE "published") EXCEPT !.at = e.at]
  <2>2. e \in Entry
    BY EntryTyped
  <2>3. node \in Node /\ (node.status = "forgotten" <=> e.body = None)
    BY <2>2 DEF Draft, Node, Entry, Status
  <2>4. e.body = None => Stubbed(p)
    BY <1>0, <1>9 DEF Restore, Begin, StubsLive, Idle
  <2>5. Stubbed(p) => e.body = None
    BY <2>1 DEF StubsAlone, NothingLeft
  <2>6. WriteLive(p, node)
    BY <2>1
  <2> HIDE DEF node, e
  <2>7. QED
    BY <2>3, <2>4, <2>5, <2>6, NoneAssumption
<1>10. ASSUME NEW q \in Path, Move(p, q)
       PROVE  \E node : Same(q, node)
  BY <1>10 DEF Move
<1>11. ~Publish(p) /\ ~Forget(p)
  BY <1>1 DEF Publish, Forget, disk
<1>12. ASSUME NEW purge \in BOOLEAN, Delete(p, purge)
       PROVE  FALSE
  BY <1>1, <1>12 DEF Delete, disk
<1>13. ASSUME NEW bodies \in SUBSET Body, Import(p, bodies)
       PROVE  FALSE
  BY <1>1, <1>13 DEF Import
<1>14. QED
  BY <1>2, <1>3, <1>4, <1>5, <1>6, <1>7, <1>8, <1>9, <1>10, <1>11, <1>12, <1>13 DEF Called

\* What a call retires is purged next.
LEMMA CallGone ==
  ASSUME CoreInv, LiveText, NEW p \in Path, Called(p), \A q \in Path : Stubbed(q)' <=> Stubbed(q)
  PROVE  \A q \in Path : Gone(q)' => Gone(q) \/ (job'.pc = "purge" /\ job'.path = q)
<1>0. /\ live \in [Path -> Node \union {None}]
      /\ \A q \in Path : live[q] # None => live[q] \in Node /\ NodeText(live[q])
  BY DEF CoreInv, TypeOK, LiveText, NodeText, IsForgotten, IsRejected
<1> USE DEF Gone, IsForgotten, IsArchived, IsRejected
<1> DEFINE Kind(r, node) == WriteLive(r, node) /\ (Gone(r) \/ node.status \in {"draft", "pending_review", "published"}
                                                    \/ (node.status = "rejected" /\ node.was = None))
                            /\ node # None
<1>1. ASSUME NEW r \in Path, NEW node, Kind(r, node)
      PROVE  \A q \in Path : Gone(q)' => Gone(q)
  BY <1>0, <1>1 DEF WriteLive
<1>2. ASSUME NEW node \in Node
      PROVE  node # None
  BY NoneAssumption
<1>3. ASSUME NEW body \in Body, NEW how \in {"draft", "hold", "publish"}, Create(p, body, how)
      PROVE  \E node : Kind(p, node)
  <2>1. \A s \in {"pending_review", "draft"} : Draft(body, s) \in Node
    BY DEF Draft, Node, Status
  <2>2. QED
    BY <1>2, <1>3, <2>1 DEF Create
<1>4. ASSUME NEW body \in Body, NEW how \in {"draft", "publish"}, Update(p, body, how)
      PROVE  \E node : Kind(p, node)
  <2> DEFINE node == [live[p] EXCEPT !.body = body, !.status = IF how = "draft" THEN "draft" ELSE @]
  <2>1. live[p] \in Node /\ NodeText(live[p]) /\ live[p].status # "forgotten" /\ ~IsArchived(p)
    BY <1>0, <1>4 DEF Update, MayEdit
  <2>2. node \in Node /\ node.was = live[p].was /\ node.status \in {live[p].status, "draft"}
    BY <2>1 DEF Node, Status
  <2>3. live[p].was = None /\ live[p].status \in Status
    BY <2>1 DEF NodeText, Node
  <2>4. WriteLive(p, node)
    BY <1>4 DEF Update
  <2> HIDE DEF node
  <2>5. QED
    BY <1>2, <2>1, <2>2, <2>3, <2>4 DEF Status
<1>5. ASSUME NEW body \in Body, HoldUpdate(p, body)
      PROVE  live' = live \/ \E node : Kind(p, node)
  <2> DEFINE node == [live[p] EXCEPT !.body = body, !.status = "pending_review"]
  <2>1. live[p] \in Node
    BY <1>0, <1>5 DEF HoldUpdate, MayEdit
  <2>2. node \in Node /\ node.status = "pending_review"
    BY <2>1 DEF Node, Status
  <2>3. live' = live \/ WriteLive(p, node)
    BY <1>5 DEF HoldUpdate
  <2> HIDE DEF node
  <2>4. QED
    BY <1>2, <2>2, <2>3
<1>6. ASSUME ApproveHold(p)
      PROVE  \E node : Kind(p, node)
  <2>1. PICK chosen \in Fresh(p) : WriteLive(p, [Draft(chosen.body, "published") EXCEPT !.at = chosen.base])
    BY <1>6 DEF ApproveHold
  <2> DEFINE node == [Draft(chosen.body, "published") EXCEPT !.at = chosen.base]
  <2>2. node \in Node /\ node.status = "published"
    <3>1. chosen \in HoldFile
      BY DEF Fresh, Listed, CoreInv, TypeOK
    <3>2. QED
      BY <3>1 DEF HoldFile, Draft, Node, Status
  <2>3. WriteLive(p, node)
    BY <2>1
  <2> HIDE DEF node
  <2>4. QED
    BY <1>2, <2>2, <2>3
<1>7. ASSUME RejectHolds(p)
      PROVE  live' = live \/ \E node : Kind(p, node)
  <2> DEFINE node == [live[p] EXCEPT !.status = "rejected"]
  <2>1. live' = live \/ (WriteLive(p, node) /\ live[p] # None /\ live[p].status = "pending_review")
    BY <1>7 DEF RejectHolds
  <2>2. CASE WriteLive(p, node) /\ live[p] # None /\ live[p].status = "pending_review"
    <3>1. node \in Node /\ node.status = "rejected" /\ node.was = None
      BY <1>0, <2>2 DEF Node, Status, NodeText
    <3> HIDE DEF node
    <3>2. QED
      BY <1>2, <2>2, <3>1
  <2>3. QED
    BY <2>1, <2>2
<1>8. ASSUME Archive(p)
      PROVE  \A q \in Path : Gone(q)' => Gone(q) \/ (job'.pc = "purge" /\ job'.path = q)
  <2>1. job'.pc = "purge" /\ job'.path = p
    BY <1>8 DEF Archive, Go, Idle
  <2>2. \A q \in Path : q # p => live'[q] = live[q]
    BY <1>0, <1>8 DEF Archive, WriteLive
  <2>3. QED
    BY <2>1, <2>2
<1>9. ASSUME Unarchive(p)
      PROVE  \E node : Kind(p, node)
  <2>1. live[p] \in Node /\ live[p].was # None /\ live[p].status = "rejected"
    BY <1>0, <1>9 DEF Unarchive, NodeText
  <2>2. [live[p] EXCEPT !.status = live[p].was, !.was = None] \in Node
    BY <2>1 DEF Node
  <2>3. QED
    BY <1>2, <1>9, <2>1, <2>2 DEF Unarchive
<1>10. ASSUME Restore(p)
       PROVE  \A q \in Path : Gone(q)' => Gone(q)
  <2>1. PICK e \in Kept(p) :
          WriteLive(p, [Draft(e.body, IF e.body = None THEN "forgotten" ELSE "published") EXCEPT !.at = e.at])
    BY <1>10 DEF Restore
  <2> DEFINE node == [Draft(e.body, IF e.body = None THEN "forgotten" ELSE "published") EXCEPT !.at = e.at]
  <2>2. e \in Entry
    BY EntryTyped DEF Kept, Range
  <2>3. node \in Node /\ node.status \in {"published", "forgotten"}
    BY <2>2 DEF Draft, Node, Entry, Status
  <2>4. WriteLive(p, node)
    BY <2>1
  <2> HIDE DEF node
  <2>5. \A q \in Path : q # p => live'[q] = live[q]
    BY <1>0, <2>4 DEF WriteLive
  <2>6. live'[p] = node /\ node # None
    BY <1>0, <1>2, <2>3, <2>4 DEF WriteLive
  <2>7. QED
    BY <2>3, <2>5, <2>6 DEF Stubbed
<1>11. ASSUME NEW q \in Path, Move(p, q)
       PROVE  Kind(q, live[p])
  BY <1>11 DEF Move
<1>12. ASSUME Publish(p) \/ Forget(p)
       PROVE  live' = live
  BY <1>12 DEF Publish, Forget, disk
<1>13. ASSUME NEW purge \in BOOLEAN, Delete(p, purge)
       PROVE  live' = live
  BY <1>13 DEF Delete, disk
<1>14. ASSUME NEW bodies \in SUBSET Body, Import(p, bodies)
       PROVE  live' = live
  BY <1>14 DEF Import
<1>15. CASE live' = live
  BY <1>15
<1>16. QED
  <2> HIDE DEF Kind, Gone
  <2>1. QED
    BY <1>1, <1>3, <1>4, <1>5, <1>6, <1>7, <1>8, <1>9, <1>10, <1>11, <1>12, <1>13, <1>14, <1>15 DEF Called

\* What a call notes for the steps to come.
CallNotes(p) ==
  /\ job'.op # "undo"
  /\ job'.op = "import" => ForgottenElsewhere(p)' /\ job'.path = p
  /\ job'.op = "forget" => Forget(p)
  /\ job'.pc = "carry" => job'.to \in Path /\ live[job'.to] = None
  /\ \A q \in Path : Stubbed(q) => holds'[q] = holds[q]

LEMMA CallNoted ==
  ASSUME CoreInv, NEW p \in Path, Called(p)
  PROVE  CallNotes(p)
<1> USE DEF CallNotes
<1>0. job = Idle
  <2>1. job.pc = "idle"
    BY DEF Called, Begin, Create, Update, HoldUpdate, ApproveHold, Publish, RejectHolds, Archive, Unarchive, Restore,
       Move, Delete, Forget, Import
  <2>2. QED
    BY <2>1 DEF CoreInv, TypeOK
<1>1. /\ Idle.op \notin {"undo", "import", "forget"} /\ Idle.pc # "carry"
      /\ \A op, pc : Go(op, pc, p).op = op /\ Go(op, pc, p).pc = pc /\ Go(op, pc, p).path = p
  BY DEF Go, Idle
<1>2. ASSUME NEW body \in Body, NEW how \in {"draft", "hold", "publish"}, Create(p, body, how)
      PROVE  CallNotes(p)
  BY <1>1, <1>2 DEF Create
<1>3. ASSUME NEW body \in Body, NEW how \in {"draft", "publish"}, Update(p, body, how)
      PROVE  CallNotes(p)
  BY <1>1, <1>3 DEF Update
<1>4. ASSUME NEW body \in Body, HoldUpdate(p, body)
      PROVE  CallNotes(p)
  <2>1. job' = job \/ \E shelve : job' = [Go("stage", "meta", p) EXCEPT !.hold = staged', !.shelve = shelve]
    BY <1>4 DEF HoldUpdate
  <2>2. job' = job \/ (job'.op = "stage" /\ job'.pc = "meta")
    BY <2>1 DEF Go, Idle
  <2>3. ~Stubbed(p)
    BY <1>4 DEF HoldUpdate, MayEdit, Stubbed
  <2>4. \A q \in Path : q # p => holds'[q] = holds[q]
    BY <1>4 DEF HoldUpdate, CoreInv, TypeOK
  <2>5. QED
    BY <1>0, <1>1, <2>2, <2>3, <2>4
<1>5. CASE ApproveHold(p)
  <2>1. \E hold, shelve : job' = [Go("approve", "judge", p) EXCEPT !.hold = hold, !.shelve = shelve]
    BY <1>5 DEF ApproveHold
  <2>2. job'.op = "approve" /\ job'.pc = "judge"
    BY <2>1 DEF Go, Idle
  <2>3. QED
    BY <1>5, <2>2 DEF ApproveHold
<1>6. CASE Publish(p)
  BY <1>1, <1>6 DEF Publish, disk
<1>7. CASE RejectHolds(p)
  <2>1. job' = job \/ \E shelve : job' = [Go("reject", "shelve", p) EXCEPT !.shelve = shelve]
    BY <1>7 DEF RejectHolds
  <2>2. job' = job \/ (job'.op = "reject" /\ job'.pc = "shelve")
    BY <2>1 DEF Go, Idle
  <2>3. QED
    BY <1>0, <1>1, <1>7, <2>2 DEF RejectHolds
<1>8. CASE Archive(p)
  BY <1>1, <1>8 DEF Archive
<1>9. CASE Unarchive(p) \/ Restore(p)
  BY <1>0, <1>1, <1>9 DEF Unarchive, Restore
<1>10. ASSUME NEW q \in Path, Move(p, q)
       PROVE  CallNotes(p)
  <2>1. job' = [Go("move", "carry", p) EXCEPT !.to = q] /\ live[q] = None /\ UNCHANGED holds
    BY <1>10 DEF Move
  <2>2. job'.op = "move" /\ job'.to = q
    BY <2>1 DEF Go, Idle
  <2>3. QED
    BY <2>1, <2>2
<1>11. ASSUME NEW purge \in BOOLEAN, Delete(p, purge)
       PROVE  CallNotes(p)
  <2>1. /\ job' = Go(IF purge THEN "purge" ELSE "delete", IF purge \/ IsForgotten(p) THEN "unlink" ELSE "record", p)
        /\ UNCHANGED holds
    BY <1>11 DEF Delete, disk
  <2>2. job'.op \in {"purge", "delete"} /\ job'.pc \in {"unlink", "record"}
    BY <1>1, <2>1
  <2>3. QED
    BY <2>1, <2>2
<1>12. CASE Forget(p)
  <2>1. job' = [Go("forget", "tombstone", p) EXCEPT !.erase = Held(p) \ {None}] /\ UNCHANGED holds
    BY <1>12 DEF Forget, disk
  <2>2. job'.op = "forget" /\ job'.pc = "tombstone"
    BY <2>1 DEF Go, Idle
  <2>3. QED
    BY <1>12, <2>1, <2>2
<1>13. ASSUME NEW bodies \in SUBSET Body, Import(p, bodies)
       PROVE  CallNotes(p)
  <2> DEFINE new == [path |-> p, mode |-> "forget", bodies |-> bodies, here |-> FALSE]
  <2>1. new \in log' /\ new.path = p /\ ~new.here
    BY <1>13 DEF Import
  <2>2. ForgottenElsewhere(p)'
    <3> HIDE DEF new
    <3>1. QED
      BY <2>1 DEF ForgottenElsewhere
  <2>3. job' \in {Idle, Go("sweep", "erase", p), Go("import", "tombstone", p)} /\ UNCHANGED holds
    BY <1>13 DEF Import
  <2>4. QED
    BY <1>1, <2>2, <2>3
<1>14. QED
  <2> HIDE DEF CallNotes
  <2>1. QED
    BY <1>2, <1>3, <1>4, <1>5, <1>6, <1>7, <1>8, <1>9, <1>10, <1>11, <1>12, <1>13 DEF Called

\* A forget collects every text of a history without gaps and tombstones.
LEMMA Collecting ==
  ASSUME CoreInv, StubsLive, NEW p \in Path, Forget(p)
  PROVE  \A i \in DOMAIN entries[p] : entries[p][i].body \in job'.erase \union {None}
<1>1. job' = [Go("forget", "tombstone", p) EXCEPT !.erase = Held(p) \ {None}]
  BY DEF Forget
<1>2. job'.erase = Held(p) \ {None}
  BY <1>1 DEF Go, Idle
<1>3. job.pc = "idle" /\ ~Stubbed(p)
  BY DEF Forget, Begin, Stubbed
<1>4. SUFFICES ASSUME NEW i \in DOMAIN entries[p]
               PROVE  entries[p][i].body \in Held(p)
  BY <1>2
<1>5. ~entries[p][i].tomb
  BY <1>3 DEF StubsLive
<1>6. entries[p][i] \in Kept(p)
  BY <1>5 DEF Kept, Range
<1>7. \E f \in files[p] : f.at = entries[p][i].at
  BY <1>6 DEF CoreInv, NoSilentGap
<1>8. QED
  BY <1>6, <1>7 DEF Held

\* What was done without a crash is kept by a call.
LEMMA CallForgets ==
  ASSUME CoreInv, ForgetInv, CoreInv', NEW p \in Path, Called(p)
  PROVE  /\ "restore" \notin Ops \/ ~struck' => StubsAlone'
         /\ ~struck' => StubsLive' /\ Collected' /\ Purged'
<1>0. /\ RestKept(p) /\ JobOpened(p) /\ CallNotes(p) /\ LiveText
      /\ job.pc = "idle" /\ job = Idle /\ UNCHANGED struck
  <2>1. job.pc = "idle" /\ UNCHANGED struck
    BY DEF Called, Begin, Create, Update, HoldUpdate, ApproveHold, Publish, RejectHolds, Archive, Unarchive, Restore,
       Move, Delete, Forget, Import, counts
  <2>2. QED
    BY <2>1, CallLeaves, CallOpens, CallNoted DEF CoreInv, TypeOK, ForgetInv
<1>1. /\ UNCHANGED <<entries, files, torn, vectors>> /\ log \subseteq log'
      /\ job'.pc \notin {"stub", "history", "artifact", "entry"}
  BY <1>0 DEF RestKept, JobOpened
<1>2. SUFFICES ASSUME "restore" \notin Ops \/ ~struck
               PROVE  StubsAlone' /\ (~struck => StubsLive' /\ Collected' /\ Purged')
  BY <1>0
<1>3. StubsAlone
  BY <1>2 DEF ForgetInv
<1>4. \A q \in Path : Stubbed(q)' <=> Stubbed(q)
  BY <1>0, <1>2, <1>3, CallStubs DEF ForgetInv
<1>5. StubsAlone'
  BY <1>0, <1>1, <1>3, <1>4 DEF StubsAlone, NothingLeft, CallNotes
<1>6. SUFFICES ASSUME ~struck
               PROVE  StubsLive' /\ Collected' /\ Purged'
  BY <1>5
<1>7. StubsLive /\ Collected /\ Purged
  BY <1>6 DEF ForgetInv
<1>8. StubsLive'
  BY <1>0, <1>1, <1>4, <1>7 DEF StubsLive, Idle
<1>9. \A q \in Path : ForgottenElsewhere(q) => ForgottenElsewhere(q)'
  BY <1>1 DEF ForgottenElsewhere
<1>10. \A b : ErasedBody(b) => ErasedBody(b)'
  BY <1>1, <1>7 DEF ErasedBody, Records, StubsLive
<1>11. Collected'
  <2>1. job'.op = "import" => ForgottenElsewhere(job.path)'
    BY <1>0 DEF CallNotes, ForgottenElsewhere
  <2>2. ASSUME NEW q \in Path, Forgetting(q)'
        PROVE  \A i \in DOMAIN entries'[q] : entries'[q][i].body \in job'.erase \union {None}
    <3>1. Forget(p) /\ q = p
      BY <1>0, <2>2 DEF Forgetting, CallNotes, JobOpened
    <3>2. QED
      BY <1>1, <1>7, <3>1, Collecting
  <2>3. ASSUME NEW q \in Path, Stubbed(q)'
        PROVE  \/ ForgottenElsewhere(q)'
               \/ \A i \in DOMAIN entries'[q] : entries'[q][i].body = None \/ ErasedBody(entries[q][i].body)'
    <3>1. ~Forgetting(q)
      BY <1>0 DEF Forgetting
    <3>2. QED
      BY <1>1, <1>4, <1>7, <1>9, <1>10, <2>3, <3>1 DEF Collected
  <2>4. QED
    BY <2>1, <2>2, <2>3 DEF Collected, ErasedBody, Records
<1>12. Purged'
  <2>1. \A q \in Path : Gone(q) => Clean(q)
    BY <1>0, <1>7 DEF Purged, PurgeDue
  <2>2. \A q \in Path : Clean(q) => Clean(q)'
    BY <1>1, <1>9 DEF Clean
  <2>3. \A q \in Path : Gone(q)' => Gone(q) \/ (job'.pc = "purge" /\ job'.path = q)
    BY <1>0, <1>4, CallGone
  <2>4. \A q \in Path : Gone(q)' => Clean(q)' \/ PurgeDue(q)'
    BY <2>1, <2>2, <2>3 DEF PurgeDue
  <2>5. job'.pc = "carry" => Clean(job.to)'
    <3>1. ASSUME job'.pc = "carry"
          PROVE  Gone(job'.to) /\ job'.to \in Path
      BY <1>0, <3>1 DEF CallNotes, Gone
    <3>2. QED
      BY <1>1, <1>9, <2>1, <3>1 DEF Clean, ForgottenElsewhere
  <2>6. QED
    BY <1>0, <2>4, <2>5 DEF Purged, CallNotes
<1>13. QED
  BY <1>8, <1>11, <1>12

\* What holds however a step is cut short, and what holds if none is.
Forgets == ("restore" \notin Ops \/ ~struck => StubsAlone) /\ (~struck => StubsLive /\ Collected /\ Purged)

\* The two, of a step that no crash cuts short.
LEMMA StepForgets ==
  ASSUME ForgetInv, UNCHANGED struck,
         StubsAlone => StubsAlone',
         StubsAlone /\ StubsLive /\ Collected /\ Purged => StubsLive' /\ Collected' /\ Purged'
  PROVE  Forgets'
BY DEF ForgetInv, Forgets

\* The forget of a path stays on record, and so does what it erased.
LEMMA Remembered ==
  ASSUME torn' = torn, log \subseteq log'
  PROVE  /\ \A p \in Path : ForgottenElsewhere(p) => ForgottenElsewhere(p)'
         /\ \A b : ErasedBody(b) => ErasedBody(b)'
BY DEF ForgottenElsewhere, ErasedBody, Records

\* Steps that change no document, no history and no record.
LEMMA QuietForgets ==
  ASSUME UNCHANGED <<live, entries, log, torn>>,
         StubsAlone /\ StubsLive /\ Collected /\ Purged,
         \A p \in Path : vectors'[p] = vectors[p] \/ vectors'[p] = None \/ ~Gone(p),
         \A p \in Path : job.path = p /\ job.pc = "history" => job'.path = p /\ job'.pc = "history",
         \A p \in Path : job.path = p /\ job.pc \in {"erase", "stub"} /\ job.op # "sweep" =>
           job'.path = p /\ job'.pc \in {"erase", "stub"} /\ job'.op # "sweep",
         \A p \in Path : Forgetting(p)' <=> Forgetting(p),
         \A p \in Path : Forgetting(p) => job'.erase = job.erase,
         job'.op \in {"import", "undo"} => job'.op = job.op /\ job'.path = job.path,
         job'.op = "undo" => UNCHANGED vectors,
         \A p \in Path : PurgeDue(p) => PurgeDue(p)' \/ vectors'[p] = None,
         job'.pc = "carry" => job' = job /\ UNCHANGED vectors
  PROVE  StubsLive' /\ Collected' /\ Purged'
<1>1. \A p \in Path : (Stubbed(p)' <=> Stubbed(p)) /\ (Gone(p)' <=> Gone(p))
  BY DEF Stubbed, Gone, IsForgotten, IsArchived, IsRejected
<1>2. \A p \in Path : (ForgottenElsewhere(p)' <=> ForgottenElsewhere(p))
  BY DEF ForgottenElsewhere
<1>3. \A b : ErasedBody(b)' <=> ErasedBody(b)
  BY DEF ErasedBody, Records
<1>4. StubsLive'
  BY <1>1 DEF StubsLive
<1>5. Collected'
  <2>1. job'.op = "import" => ForgottenElsewhere(job.path)'
    BY DEF Collected, ForgottenElsewhere
  <2>2. \A p \in Path : Forgetting(p)' => \A i \in DOMAIN entries'[p] : entries'[p][i].body \in job'.erase \union {None}
    BY DEF Collected
  <2>3. \A p \in Path : Stubbed(p)' =>
          \/ ForgottenElsewhere(p)' \/ Forgetting(p)'
          \/ \A i \in DOMAIN entries'[p] : entries'[p][i].body = None \/ ErasedBody(entries[p][i].body)'
    BY <1>1, <1>2, <1>3 DEF Collected
  <2>4. QED
    BY <2>1, <2>2, <2>3 DEF Collected, ErasedBody, Records
<1>6. Purged'
  <2>1. \A p \in Path : Gone(p) => Clean(p)' \/ PurgeDue(p)'
    BY <1>2 DEF Purged, Clean
  <2>2. job'.pc = "carry" => Clean(job.to)'
    BY DEF Purged, Clean, ForgottenElsewhere
  <2>3. job'.op = "undo" => Clean(job.path)'
    BY DEF Purged, Clean, ForgottenElsewhere
  <2>4. QED
    BY <1>1, <2>1, <2>2, <2>3 DEF Purged
<1>7. QED
  BY <1>4, <1>5, <1>6

\* Housekeeping leaves what was forgotten forgotten.
LEMMA AsideForgets ==
  ASSUME CoreInv, ForgetInv, CoreInv', Aside
  PROVE  Forgets'
<1>0. /\ DOMAIN job = DOMAIN Idle /\ (job.pc # "idle" => job.path \in Path) /\ (job.pc = "idle" => job = Idle)
      /\ holds \in [Path -> SUBSET HoldFile] /\ vectors \in [Path -> Row \union {None}]
  BY DEF CoreInv, JobOK, TypeOK
<1>1. UNCHANGED <<live, entries, files>>
  BY AsideLeaves
<1>2. \/ job' = job
      \/ job' = Idle
      \/ /\ job'.pc \in {"shelve", "shelved"} /\ job'.path = job.path /\ job'.op = job.op /\ job'.erase = job.erase
  BY AsideJob
<1>3. \A p \in Path : holds[p] = {} => holds'[p] = {}
  <2>1. CASE StageMeta
    BY <1>0, <2>1 DEF StageMeta
  <2>2. CASE ShelvePatch
    BY <1>0, <2>2 DEF ShelvePatch
  <2>3. CASE ShelveMeta
    BY <1>0, <2>3 DEF ShelveMeta
  <2>4. CASE UNCHANGED holds
    BY <2>4
  <2>5. QED
    BY <2>1, <2>2, <2>3, <2>4 DEF Aside, ShelveNothing, ShelveFails, PublishRefused, Purge, EmbedRead, EmbedSave,
       Crash, TearLog, disk
<1>4. StubsAlone => StubsAlone'
  <2>1. job'.pc = "stub" => job' = job /\ job.path \in Path
    BY <1>0, <1>2 DEF Idle
  <2>2. \A p \in Path : NothingLeft(p) => NothingLeft(p)'
    BY <1>1, <1>3 DEF NothingLeft
  <2>3. StubsAlone /\ job'.pc = "stub" => NothingLeft(job.path)'
    BY <2>1, <2>2 DEF StubsAlone, NothingLeft
  <2>4. QED
    BY <1>1, <2>2, <2>3 DEF StubsAlone, Stubbed, IsForgotten
<1>5. CASE Crash \/ TearLog
  <2>1. struck'
    BY <1>5 DEF Crash, TearLog
  <2>2. QED
    BY <1>4, <2>1 DEF ForgetInv, Forgets
<1>6. CASE ~(Crash \/ TearLog)
  <2>1. UNCHANGED <<log, torn, struck>>
    BY <1>6 DEF Aside, StageMeta, ShelveNothing, ShelvePatch, ShelveFails, ShelveMeta, PublishRefused, Purge,
       EmbedRead, EmbedSave, disk, counts
  <2>2. job' = job \/ job.pc \in {"meta", "shelve", "shelved", "judge", "purge"}
    BY <1>6 DEF Aside, StageMeta, ShelveNothing, ShelvePatch, ShelveFails, ShelveMeta, PublishRefused, Purge,
       EmbedRead, EmbedSave
  <2>3. UNCHANGED vectors \/ Purge \/ EmbedSave
    BY <1>6 DEF Aside, StageMeta, ShelveNothing, ShelvePatch, ShelveFails, ShelveMeta, PublishRefused, EmbedRead, disk
  <2>4. ASSUME Purge
        PROVE  job.path \in Path /\ job' = Idle /\ job.pc = "purge" /\ vectors' = [vectors EXCEPT ![job.path] = None]
    BY <1>0, <2>4 DEF Purge, Return
  <2>5. ASSUME EmbedSave
        PROVE  job = Idle /\ job' = Idle /\ \A p \in Path : vectors'[p] = None \/ ~Gone(p)
    <3>1. job = Idle /\ UNCHANGED job /\ vectors' = RetainCurrent(embed)
      BY <1>0, <2>5 DEF EmbedSave
    <3>2. \A p \in Path : vectors'[p] = (IF embed[p] = KeyOf(p) THEN embed[p] ELSE None)
      BY <3>1 DEF RetainCurrent
    <3>3. \A p \in Path : Gone(p) => KeyOf(p) = None
      BY DEF Gone, KeyOf, IsPublished, IsForgotten, IsArchived, IsRejected
    <3>4. QED
      BY <3>1, <3>2, <3>3
  <2>6. \A p \in Path : vectors'[p] = vectors[p] \/ vectors'[p] = None \/ ~Gone(p)
    BY <1>0, <2>3, <2>4, <2>5
  <2>7. \A p \in Path : PurgeDue(p) => PurgeDue(p)' \/ vectors'[p] = None
    <3>1. CASE Purge
      BY <1>0, <2>4, <3>1 DEF PurgeDue
    <3>2. CASE ~Purge
      <4>1. job' = job \/ job.pc \in {"meta", "shelve", "shelved", "judge"}
        BY <1>6, <3>2 DEF Aside, StageMeta, ShelveNothing, ShelvePatch, ShelveFails, ShelveMeta, PublishRefused,
           EmbedRead, EmbedSave
      <4>2. QED
        BY <4>1 DEF PurgeDue
    <3>3. QED
      BY <3>1, <3>2
  <2>8. \A p \in Path : Forgetting(p)' <=> Forgetting(p)
    BY <1>2, <2>2 DEF Forgetting, Idle
  <2>9. /\ \A p \in Path : job.path = p /\ job.pc = "history" => job'.path = p /\ job'.pc = "history"
        /\ \A p \in Path : job.path = p /\ job.pc \in {"erase", "stub"} /\ job.op # "sweep" =>
             job'.path = p /\ job'.pc \in {"erase", "stub"} /\ job'.op # "sweep"
        /\ \A p \in Path : Forgetting(p) => job'.erase = job.erase
    BY <2>2 DEF Forgetting
  <2>10. /\ job'.op \in {"import", "undo"} => job'.op = job.op /\ job'.path = job.path
         /\ job'.op = "undo" => UNCHANGED vectors
         /\ job'.pc = "carry" => job' = job /\ UNCHANGED vectors
    BY <1>2, <2>3, <2>4, <2>5 DEF Idle
  <2>11. StubsAlone /\ StubsLive /\ Collected /\ Purged => StubsLive' /\ Collected' /\ Purged'
    BY <1>1, <2>1, <2>6, <2>7, <2>8, <2>9, <2>10, QuietForgets
  <2>12. QED
    BY <1>4, <2>1, <2>11, StepForgets
<1>7. QED
  BY <1>5, <1>6

\* The steps of a publish that give no document a stub.
LEMMA PublishForgets ==
  ASSUME CoreInv, ForgetInv, CoreInv', PublishLive
  PROVE  Forgets'
<1> DEFINE node == [Draft(live[job.path].body, "published") EXCEPT !.at = stamp']
<1>0. /\ DOMAIN job = DOMAIN Idle /\ job.path \in Path /\ job.pc = "judge" /\ job.op \in {"publish", "approve"}
      /\ live \in [Path -> Node \union {None}] /\ live[job.path] # None
      /\ UNCHANGED <<entries, files, holds, log, torn, vectors, struck>>
  BY DEF PublishLive, CoreInv, JobOK, TypeOK, DoneSoFar
<1>1. job'.pc = "artifact" /\ job'.path = job.path /\ job'.op = job.op
  BY <1>0 DEF PublishLive, Idle
<1>2. live' = [live EXCEPT ![job.path] = node] /\ node.status = "published" /\ ~IsForgotten(job.path)
  BY DEF PublishLive, WriteLive, Draft, Refusable
<1>3. node # None
  <2>1. live[job.path] \in Node /\ stamp' \in Stamp
    BY <1>0, BoundAssumption DEF PublishLive, CoreInv, TypeOK, JobOK, Stamp
  <2>2. node \in Node
    BY <2>1 DEF Draft, Node, Status
  <2>3. QED
    BY <2>2, NoneAssumption
<1> HIDE DEF node
<1>4. /\ live'[job.path] = node
      /\ \A q \in Path : q # job.path => live'[q] = live[q]
  BY <1>0, <1>2
<1>5. \A q \in Path : (Stubbed(q)' <=> Stubbed(q)) /\ (Gone(q)' => Gone(q))
  BY <1>0, <1>2, <1>3, <1>4 DEF Stubbed, Gone, IsForgotten, IsArchived, IsRejected
<1>6. StubsAlone => StubsAlone'
  BY <1>0, <1>1, <1>5 DEF StubsAlone, NothingLeft
<1>7. /\ \A q \in Path : ForgottenElsewhere(q) => ForgottenElsewhere(q)'
      /\ \A b : ErasedBody(b) => ErasedBody(b)'
  BY <1>0, Remembered
<1>8. ASSUME StubsLive, Collected, Purged
      PROVE  StubsLive' /\ Collected' /\ Purged'
  <2>1. StubsLive'
    BY <1>0, <1>1, <1>5, <1>8 DEF StubsLive
  <2>2. \A q \in Path : ~Forgetting(q) /\ ~Forgetting(q)'
    BY <1>0, <1>1 DEF Forgetting
  <2>3. Collected'
    <3>1. \A q \in Path : Stubbed(q)' =>
            \/ ForgottenElsewhere(q)'
            \/ \A i \in DOMAIN entries'[q] : entries'[q][i].body = None \/ ErasedBody(entries[q][i].body)'
      BY <1>0, <1>5, <1>7, <1>8, <2>2 DEF Collected
    <3>2. QED
      BY <1>0, <1>1, <2>2, <3>1 DEF Collected, ErasedBody, Records
  <2>4. \A q \in Path : Gone(q) => Clean(q)'
    BY <1>0, <1>7, <1>8 DEF Purged, PurgeDue, Clean
  <2>5. Purged'
    BY <1>0, <1>1, <1>5, <2>4 DEF Purged
  <2>6. QED
    BY <2>1, <2>3, <2>5
<1>9. QED
  BY <1>0, <1>6, <1>8, StepForgets

\* The artifact of a version that has no entry yet.
LEMMA SealArtifactForgets ==
  ASSUME CoreInv, ForgetInv, CoreInv', SealArtifact
  PROVE  Forgets'
<1> DEFINE new == [at |-> stamp, body |-> job.body]
<1>0. /\ DOMAIN job = DOMAIN Idle /\ job.path \in Path /\ job.pc = "artifact"
      /\ files \in [Path -> SUBSET Artifact]
      /\ UNCHANGED <<live, entries, holds, log, torn, vectors, struck>>
  BY DEF SealArtifact, CoreInv, JobOK, TypeOK, counts
<1>1. job'.pc = "entry" /\ job'.path = job.path /\ job'.op = job.op /\ job'.erase = job.erase
  BY <1>0 DEF SealArtifact, Step, Idle
<1>2. new.at = stamp /\ files' = [files EXCEPT ![job.path] = @ \union {new}]
  BY DEF SealArtifact
<1> HIDE DEF new
<1>3. \A p \in Path : \A f \in files'[p] : f \in files[p] \/ f.at = stamp
  BY <1>0, <1>2
<1>4. \A p \in Path : \A i \in DOMAIN entries[p] : entries[p][i].at # stamp
  BY <1>0 DEF CoreInv, StampsApart
<1>5. StubsAlone => StubsAlone'
  BY <1>0, <1>1, <1>3, <1>4 DEF StubsAlone, NothingLeft, Stubbed, IsForgotten
<1>6. /\ \A p \in Path : Forgetting(p)' <=> Forgetting(p)
      /\ \A p \in Path : PurgeDue(p) => PurgeDue(p)'
  BY <1>0, <1>1 DEF Forgetting, PurgeDue
<1>7. StubsAlone /\ StubsLive /\ Collected /\ Purged => StubsLive' /\ Collected' /\ Purged'
  BY <1>0, <1>1, <1>6, QuietForgets
<1>8. QED
  BY <1>0, <1>5, <1>7, StepForgets

\* The entry of a stub has no text; every other entry is of a document that is there.
LEMMA AppendEntryForgets ==
  ASSUME CoreInv, ForgetInv, CoreInv', AppendEntry
  PROVE  Forgets'
<1> DEFINE new == [at |-> stamp, body |-> job.body, tomb |-> FALSE]
<1>0. /\ DOMAIN job = DOMAIN Idle /\ job.path \in Path /\ job.pc = "entry"
      /\ UNCHANGED <<live, files, holds, log, torn, vectors, struck>>
  BY DEF AppendEntry, CoreInv, JobOK
<1>1. /\ live[job.path] # None /\ (job.body = None <=> Stubbed(job.path))
      /\ job.body = None => job.op \in {"forget", "import"}
      /\ job.op \in {"forget", "import"} => job.body = None
  BY <1>0 DEF ForgetInv, LiveText, Stubbed
<1>2. \/ job.op = "approve" /\ job'.pc = "shelve" /\ job'.op = job.op
      \/ job.op = "forget" /\ job'.pc = "record" /\ job'.path = job.path /\ job'.op = job.op /\ job'.erase = job.erase
      \/ job.op \notin {"approve", "forget"} /\ job' = Idle
  BY <1>0 DEF AppendEntry, Step, Return, Idle
<1>3. new.body = job.body /\ ~new.tomb
  OBVIOUS
<1>4. \A p \in Path : \A i \in DOMAIN entries'[p] :
        (i \in DOMAIN entries[p] /\ entries'[p][i] = entries[p][i]) \/ (p = job.path /\ entries'[p][i] = new)
  BY Appended
<1> HIDE DEF new
<1>5. \A q \in Path : (Stubbed(q)' <=> Stubbed(q)) /\ (Gone(q)' <=> Gone(q))
  BY <1>0 DEF Stubbed, Gone, IsForgotten, IsArchived, IsRejected
<1>6. job'.pc \in {"shelve", "record", "idle"}
  BY <1>2 DEF Idle
<1>7. StubsAlone => StubsAlone'
  BY <1>0, <1>1, <1>3, <1>4, <1>5, <1>6 DEF StubsAlone, NothingLeft
<1>8. /\ \A q \in Path : ForgottenElsewhere(q) => ForgottenElsewhere(q)'
      /\ \A b : ErasedBody(b) => ErasedBody(b)'
  BY <1>0, Remembered
<1>9. \A q \in Path : Forgetting(q)' <=> Forgetting(q)
  BY <1>0, <1>2 DEF Forgetting, Idle
<1>10. ASSUME StubsLive, Collected, Purged
       PROVE  StubsLive' /\ Collected' /\ Purged'
  <2>1. StubsLive'
    BY <1>0, <1>1, <1>3, <1>4, <1>5, <1>10 DEF StubsLive
  <2>2. ASSUME NEW q \in Path, Forgetting(q)
        PROVE  \A i \in DOMAIN entries'[q] : entries'[q][i].body \in job'.erase \union {None}
    BY <1>1, <1>2, <1>3, <1>4, <1>10, <2>2 DEF Collected, Forgetting
  <2>3. ASSUME NEW q \in Path, Stubbed(q)
        PROVE  \/ ForgottenElsewhere(q)' \/ Forgetting(q)'
               \/ \A i \in DOMAIN entries'[q] : entries'[q][i].body = None \/ ErasedBody(entries[q][i].body)'
    <3>1. \A i \in DOMAIN entries'[q] :
            entries'[q][i].body = None \/ (i \in DOMAIN entries[q] /\ entries'[q][i].body = entries[q][i].body)
      BY <1>1, <1>3, <1>4, <2>3
    <3>2. \/ ForgottenElsewhere(q) \/ Forgetting(q)
          \/ \A i \in DOMAIN entries[q] : entries[q][i].body = None \/ ErasedBody(entries[q][i].body)
      BY <1>10, <2>3 DEF Collected
    <3>3. CASE \A i \in DOMAIN entries[q] : entries[q][i].body = None \/ ErasedBody(entries[q][i].body)
      <4>1. SUFFICES ASSUME NEW i \in DOMAIN entries'[q], entries'[q][i].body # None
                     PROVE  ErasedBody(entries'[q][i].body)
        BY <1>0 DEF ErasedBody, Records
      <4>2. QED
        BY <3>1, <3>3, <4>1
    <3>4. QED
      BY <1>8, <1>9, <3>2, <3>3
  <2>4. job'.op # "import"
    BY <1>2 DEF Idle
  <2>5. Collected'
    BY <1>5, <1>9, <2>2, <2>3, <2>4 DEF Collected, ErasedBody, Records
  <2>6. \A q \in Path : Clean(q) => Clean(q)'
    BY <1>0, <1>8 DEF Clean
  <2>7. \A q \in Path : PurgeDue(q) => PurgeDue(q)'
    BY <1>0, <1>2 DEF PurgeDue
  <2>8. job'.op # "undo" /\ job'.pc # "carry"
    BY <1>2 DEF Idle
  <2>9. Purged'
    BY <1>5, <1>10, <2>6, <2>7, <2>8 DEF Purged
  <2>10. QED
    BY <2>1, <2>5, <2>9
<1>11. QED
  BY <1>0, <1>7, <1>10, StepForgets

\* A forget tombstones the texts it has collected.
LEMMA TombstoneForgets ==
  ASSUME CoreInv, ForgetInv, CoreInv', Tombstone
  PROVE  Forgets'
<1>0. /\ DOMAIN job = DOMAIN Idle /\ job.path \in Path /\ job.pc = "tombstone" /\ job.op \in {"forget", "import"}
      /\ UNCHANGED <<live, files, holds, log, torn, vectors, struck>>
  BY DEF Tombstone, CoreInv, JobOK, counts
<1>1. job'.pc = "erase" /\ job'.path = job.path /\ job'.op = job.op /\ job'.erase = job.erase
  BY <1>0 DEF Tombstone, Step, Idle
<1>2. \A p \in Path :
        /\ DOMAIN entries'[p] = DOMAIN entries[p]
        /\ \A i \in DOMAIN entries[p] :
             entries'[p][i].at = entries[p][i].at /\ entries'[p][i].body = entries[p][i].body
        /\ p # job.path => entries'[p] = entries[p]
  BY Tombstoned
<1>3. \A q \in Path : (Stubbed(q)' <=> Stubbed(q)) /\ (Gone(q)' <=> Gone(q))
  BY <1>0 DEF Stubbed, Gone, IsForgotten, IsArchived, IsRejected
<1>4. StubsAlone => StubsAlone'
  BY <1>0, <1>1, <1>2, <1>3 DEF StubsAlone, NothingLeft
<1>5. /\ \A q \in Path : ForgottenElsewhere(q) => ForgottenElsewhere(q)'
      /\ \A b : ErasedBody(b) => ErasedBody(b)'
  BY <1>0, Remembered
<1>6. \A q \in Path : (Forgetting(q)' <=> Forgetting(q)) /\ ~PurgeDue(q)
  BY <1>0, <1>1 DEF Forgetting, PurgeDue
<1>7. ASSUME StubsLive, Collected, Purged
      PROVE  StubsLive' /\ Collected' /\ Purged'
  <2>1. StubsLive'
    BY <1>0, <1>1, <1>2, <1>3, <1>7 DEF StubsLive
  <2>2. ASSUME NEW q \in Path, Stubbed(q)
        PROVE  \/ ForgottenElsewhere(q)' \/ Forgetting(q)'
               \/ \A i \in DOMAIN entries'[q] : entries'[q][i].body = None \/ ErasedBody(entries[q][i].body)'
    <3>1. \/ ForgottenElsewhere(q) \/ Forgetting(q)
          \/ \A i \in DOMAIN entries[q] : entries[q][i].body = None \/ ErasedBody(entries[q][i].body)
      BY <1>7, <2>2 DEF Collected
    <3>2. CASE \A i \in DOMAIN entries[q] : entries[q][i].body = None \/ ErasedBody(entries[q][i].body)
      <4>1. SUFFICES ASSUME NEW i \in DOMAIN entries'[q], entries'[q][i].body # None
                     PROVE  ErasedBody(entries'[q][i].body)
        BY <1>0 DEF ErasedBody, Records
      <4>2. QED
        BY <1>2, <3>2, <4>1
    <3>3. QED
      BY <1>5, <1>6, <3>1, <3>2
  <2>3. \A q \in Path : Forgetting(q)' => \A i \in DOMAIN entries'[q] : entries'[q][i].body \in job'.erase \union {None}
    BY <1>1, <1>2, <1>6, <1>7 DEF Collected
  <2>4. job'.op = "import" => ForgottenElsewhere(job.path)'
    BY <1>0, <1>1, <1>5, <1>7 DEF Collected
  <2>5. Collected'
    BY <1>1, <1>3, <2>2, <2>3, <2>4 DEF Collected, ErasedBody, Records
  <2>6. \A q \in Path : Clean(q) => Clean(q)'
    BY <1>0, <1>5 DEF Clean
  <2>7. Purged'
    BY <1>0, <1>1, <1>3, <1>6, <1>7, <2>6 DEF Purged
  <2>8. QED
    BY <2>1, <2>5, <2>7
<1>8. QED
  BY <1>0, <1>4, <1>7, StepForgets

\* The erasure itself, which leaves holds and artifacts of the path behind it empty.
LEMMA EraseForgets ==
  ASSUME CoreInv, ForgetInv, CoreInv', EraseArtifact \/ Discard
  PROVE  Forgets'
<1>0. /\ DOMAIN job = DOMAIN Idle /\ job.path \in Path /\ job.pc = "erase"
      /\ job.op \in {"forget", "import", "sweep"}
      /\ files \in [Path -> SUBSET Artifact] /\ holds \in [Path -> SUBSET HoldFile]
      /\ UNCHANGED <<live, entries, log, torn, vectors, struck>>
  BY DEF EraseArtifact, Discard, CoreInv, JobOK, TypeOK, counts
<1>1. CASE EraseArtifact
  <2>1. job' = job /\ UNCHANGED holds /\ \A p \in Path : files'[p] \subseteq files[p]
    BY <1>0, <1>1 DEF EraseArtifact
  <2>2. StubsAlone => StubsAlone'
    BY <1>0, <2>1 DEF StubsAlone, NothingLeft, Stubbed, IsForgotten
  <2>3. StubsAlone /\ StubsLive /\ Collected /\ Purged => StubsLive' /\ Collected' /\ Purged'
    BY <1>0, <2>1, QuietForgets DEF Forgetting, PurgeDue
  <2>4. QED
    BY <1>0, <2>2, <2>3, StepForgets
<1>2. CASE Discard
  <2>1. UNCHANGED files /\ \A p \in Path : holds[p] = {} => holds'[p] = {}
    BY <1>0, <1>2 DEF Discard
  <2>2. \/ job.op = "sweep" /\ job' = Idle
        \/ /\ job.op # "sweep" /\ job'.pc = "stub" /\ job'.path = job.path /\ job'.op = job.op
           /\ job'.erase = job.erase /\ holds'[job.path] = {}
    BY <1>0, <1>2 DEF Discard, Step, Return, Idle
  <2>3. job.op # "sweep" => \A i \in DOMAIN entries[job.path], f \in files[job.path] : f.at # entries[job.path][i].at
    BY <1>2 DEF Discard, ToErase, Range
  <2>4. job'.pc = "stub" => NothingLeft(job.path)'
    BY <1>0, <2>1, <2>2, <2>3 DEF NothingLeft, Idle
  <2>5. StubsAlone => StubsAlone'
    BY <1>0, <2>1, <2>4 DEF StubsAlone, NothingLeft, Stubbed, IsForgotten
  <2>6. \A p \in Path : (Forgetting(p)' <=> Forgetting(p)) /\ ~PurgeDue(p)
    BY <1>0, <2>2 DEF Forgetting, PurgeDue, Idle
  <2>7. job'.op \in {"import", "undo"} => job'.op = job.op /\ job'.path = job.path
    BY <2>2 DEF Idle
  <2>8. \A p \in Path : Forgetting(p) => job'.erase = job.erase
    BY <2>2 DEF Forgetting
  <2>9. StubsAlone /\ StubsLive /\ Collected /\ Purged => StubsLive' /\ Collected' /\ Purged'
    BY <1>0, <2>2, <2>6, <2>7, <2>8, QuietForgets DEF Idle
  <2>10. QED
    BY <1>0, <2>5, <2>9, StepForgets
<1>3. QED
  BY <1>1, <1>2

\* The stub stands where nothing is left.
LEMMA StubForgets ==
  ASSUME CoreInv, ForgetInv, CoreInv', Stub
  PROVE  Forgets'
<1> DEFINE node == [status |-> "forgotten", was |-> None, body |-> None, at |-> stamp']
<1>0. /\ DOMAIN job = DOMAIN Idle /\ job.path \in Path /\ job.pc = "stub" /\ job.op \in {"forget", "import"}
      /\ live \in [Path -> Node \union {None}]
      /\ UNCHANGED <<entries, files, holds, log, torn, vectors, struck>>
  BY DEF Stub, CoreInv, JobOK, TypeOK
<1>1. job'.pc = "artifact" /\ job'.path = job.path /\ job'.op = job.op /\ job'.erase = job.erase
  BY <1>0 DEF Stub, Idle
<1>2. live' = [live EXCEPT ![job.path] = node] /\ node.status = "forgotten"
  BY DEF Stub, WriteLive
<1>3. node # None
  <2>1. node \in Node
    BY <1>0, BoundAssumption DEF Stub, CoreInv, TypeOK, JobOK, Stamp, Node, Status
  <2>2. QED
    BY <2>1, NoneAssumption
<1> HIDE DEF node
<1>4. /\ live'[job.path] = node
      /\ \A q \in Path : q # job.path => live'[q] = live[q]
  BY <1>0, <1>2
<1>5. /\ Stubbed(job.path)'
      /\ \A q \in Path : q # job.path => (Stubbed(q)' <=> Stubbed(q)) /\ (Gone(q)' <=> Gone(q))
  <2>1. live'[job'.path] = node
    BY <1>1, <1>4
  <2>2. QED
    BY <1>1, <1>2, <1>3, <1>4 DEF Stubbed, Gone, IsForgotten, IsArchived, IsRejected
<1>6. StubsAlone => StubsAlone'
  BY <1>0, <1>1, <1>5 DEF StubsAlone, NothingLeft
<1>7. /\ \A q \in Path : ForgottenElsewhere(q) => ForgottenElsewhere(q)'
      /\ \A b : ErasedBody(b) => ErasedBody(b)'
  BY <1>0, Remembered
<1>8. \A q \in Path : (Forgetting(q)' <=> Forgetting(q)) /\ ~PurgeDue(q)
  BY <1>0, <1>1 DEF Forgetting, PurgeDue
<1>9. ASSUME StubsLive, Collected, Purged
      PROVE  StubsLive' /\ Collected' /\ Purged'
  <2>1. \A q \in Path : Stubbed(q) => Stubbed(q)'
    BY <1>1, <1>5
  <2>2. StubsLive'
    BY <1>0, <1>1, <1>5, <1>9, <2>1 DEF StubsLive
  <2>3. job.op = "import" => ForgottenElsewhere(job.path)
    BY <1>9 DEF Collected
  <2>4. job.op = "forget" => Forgetting(job.path)
    BY <1>0 DEF Forgetting
  <2>5. ASSUME NEW q \in Path, Stubbed(q)'
        PROVE  \/ ForgottenElsewhere(q)' \/ Forgetting(q)'
               \/ \A i \in DOMAIN entries'[q] : entries'[q][i].body = None \/ ErasedBody(entries[q][i].body)'
    <3>1. CASE q = job.path
      BY <1>0, <1>7, <1>8, <2>3, <2>4, <3>1
    <3>2. CASE q # job.path
      BY <1>0, <1>5, <1>7, <1>8, <1>9, <2>5, <3>2 DEF Collected
    <3>3. QED
      BY <3>1, <3>2
  <2>6. Collected'
    BY <1>0, <1>1, <1>7, <1>8, <1>9, <2>3, <2>5 DEF Collected, ErasedBody, Records
  <2>7. \A q \in Path : Clean(q) => Clean(q)'
    BY <1>0, <1>7 DEF Clean
  <2>8. job.op = "forget" => PurgeDue(job.path)'
    BY <1>1 DEF PurgeDue
  <2>9. job.op = "import" => Clean(job.path)'
    BY <1>0, <1>1, <1>7, <2>3 DEF Clean, ForgottenElsewhere
  <2>10. Purged'
    BY <1>0, <1>1, <1>5, <1>8, <1>9, <2>7, <2>8, <2>9 DEF Purged
  <2>11. QED
    BY <2>2, <2>6, <2>10
<1>10. QED
  BY <1>0, <1>6, <1>9, StepForgets

\* The record of a forget names what was collected.
LEMMA RecordForgets ==
  ASSUME CoreInv, ForgetInv, CoreInv', Record
  PROVE  Forgets'
<1> DEFINE new == [path |-> job.path, mode |-> job.op, bodies |-> job.erase, here |-> TRUE]
<1>0. /\ DOMAIN job = DOMAIN Idle /\ job.path \in Path /\ job.pc = "record" /\ job.op \in {"forget", "delete"}
      /\ UNCHANGED <<live, entries, files, holds, torn, vectors, struck>>
  BY DEF Record, CoreInv, JobOK, counts
<1>1. \/ torn /\ job' = Idle /\ log' = log
      \/ /\ ~torn /\ log' = log \union {new}
         /\ job'.pc = (IF job.op = "delete" THEN "unlink" ELSE "purge")
         /\ job'.path = job.path /\ job'.op = job.op
  BY <1>0 DEF Record, Step, Return, Idle
<1>2. \A q \in Path : (Stubbed(q)' <=> Stubbed(q)) /\ (Gone(q)' <=> Gone(q))
  BY <1>0 DEF Stubbed, Gone, IsForgotten, IsArchived, IsRejected
<1>3. job'.pc \in {"idle", "unlink", "purge"} /\ job'.op \notin {"undo", "import"}
  BY <1>0, <1>1 DEF Idle
<1>4. StubsAlone => StubsAlone'
  BY <1>0, <1>2, <1>3 DEF StubsAlone, NothingLeft
<1>5. new.bodies = job.erase
  OBVIOUS
<1> HIDE DEF new
<1>6. /\ \A q \in Path : ForgottenElsewhere(q) => ForgottenElsewhere(q)'
      /\ \A b : ErasedBody(b) => ErasedBody(b)'
  BY <1>0, <1>1, Remembered
<1>7. ASSUME StubsLive, Collected, Purged
      PROVE  StubsLive' /\ Collected' /\ Purged'
  <2>1. StubsLive'
    BY <1>0, <1>2, <1>7 DEF StubsLive
  <2>2. ~torn /\ new \in log' /\ job'.path = job.path /\ (job.op = "forget" => job'.pc = "purge")
    BY <1>0, <1>1, <1>7 DEF StubsLive
  <2>3. ASSUME NEW q \in Path, Forgetting(q)
        PROVE  \A i \in DOMAIN entries[q] : entries[q][i].body = None \/ ErasedBody(entries[q][i].body)'
    <3>1. \A i \in DOMAIN entries[q] : entries[q][i].body \in new.bodies \union {None}
      BY <1>5, <1>7, <2>3 DEF Collected
    <3>2. \A b \in new.bodies : ErasedBody(b)'
      BY <1>0, <2>2 DEF ErasedBody, Records
    <3>3. SUFFICES ASSUME NEW i \in DOMAIN entries[q], entries[q][i].body # None
                   PROVE  ErasedBody(entries[q][i].body)'
      OBVIOUS
    <3>4. QED
      BY <1>0, <3>1, <3>2, <3>3 DEF ErasedBody
  <2>4. \A q \in Path : ~Forgetting(q)'
    BY <1>3 DEF Forgetting
  <2>5. \A q \in Path : Stubbed(q)' =>
          \/ ForgottenElsewhere(q)'
          \/ \A i \in DOMAIN entries'[q] : entries'[q][i].body = None \/ ErasedBody(entries[q][i].body)'
    BY <1>0, <1>2, <1>6, <1>7, <2>3 DEF Collected
  <2>6. Collected'
    BY <1>3, <2>4, <2>5 DEF Collected, ErasedBody, Records
  <2>7. \A q \in Path : Clean(q) => Clean(q)'
    BY <1>0, <1>6 DEF Clean
  <2>8. \A q \in Path : PurgeDue(q) => PurgeDue(q)'
    BY <1>0, <2>2 DEF PurgeDue
  <2>9. Purged'
    BY <1>2, <1>3, <1>7, <2>7, <2>8 DEF Purged
  <2>10. QED
    BY <2>1, <2>6, <2>9
<1>8. QED
  BY <1>0, <1>4, <1>7, StepForgets

\* A file that goes takes its history, and then its vectors, with it.
LEMMA UnlinkForgets ==
  ASSUME CoreInv, ForgetInv, CoreInv', Unlink
  PROVE  Forgets'
<1>0. /\ DOMAIN job = DOMAIN Idle /\ job.path \in Path /\ job.pc = "unlink"
      /\ job.op \in {"delete", "purge", "move", "undo"}
      /\ live \in [Path -> Node \union {None}]
      /\ UNCHANGED <<entries, files, holds, log, torn, vectors, struck>>
  BY DEF Unlink, CoreInv, JobOK, TypeOK, counts
<1>1. job'.pc = "history" /\ job'.path = job.path /\ job'.op = job.op
  BY <1>0 DEF Unlink, Step, Idle
<1>2. /\ live'[job.path] = None
      /\ \A q \in Path : q # job.path => live'[q] = live[q]
  BY <1>0 DEF Unlink, WriteLive
<1>3. /\ ~Stubbed(job.path)'
      /\ \A q \in Path : q # job.path => (Stubbed(q)' <=> Stubbed(q)) /\ (Gone(q)' <=> Gone(q))
  <2>1. live'[job'.path] = None
    BY <1>1, <1>2
  <2>2. QED
    BY <1>2, <2>1 DEF Stubbed, Gone, IsForgotten, IsArchived, IsRejected
<1>4. StubsAlone => StubsAlone'
  BY <1>0, <1>1, <1>3 DEF StubsAlone, NothingLeft
<1>5. /\ \A q \in Path : ForgottenElsewhere(q) => ForgottenElsewhere(q)'
      /\ \A b : ErasedBody(b) => ErasedBody(b)'
  BY <1>0, Remembered
<1>6. \A q \in Path : ~Forgetting(q)' /\ ~Forgetting(q) /\ ~PurgeDue(q)
  BY <1>0, <1>1 DEF Forgetting, PurgeDue
<1>7. ASSUME StubsLive, Collected, Purged
      PROVE  StubsLive' /\ Collected' /\ Purged'
  <2>1. StubsLive'
    BY <1>0, <1>1, <1>3, <1>7 DEF StubsLive
  <2>2. \A q \in Path : Stubbed(q)' =>
          \/ ForgottenElsewhere(q)'
          \/ \A i \in DOMAIN entries'[q] : entries'[q][i].body = None \/ ErasedBody(entries[q][i].body)'
    <3>1. SUFFICES ASSUME NEW q \in Path, Stubbed(q)'
                   PROVE  \/ ForgottenElsewhere(q)'
                          \/ \A i \in DOMAIN entries'[q] : entries'[q][i].body = None \/ ErasedBody(entries[q][i].body)'
      OBVIOUS
    <3>2. Stubbed(q)
      BY <1>1, <1>2, <3>1 DEF Stubbed, IsForgotten
    <3>3. QED
      BY <1>0, <1>5, <1>6, <1>7, <3>2 DEF Collected
  <2>3. Collected'
    BY <1>0, <1>1, <1>6, <2>2 DEF Collected, ErasedBody, Records
  <2>4. \A q \in Path : Clean(q) => Clean(q)'
    BY <1>0, <1>5 DEF Clean
  <2>5. job.op # "undo" => PurgeDue(job.path)'
    BY <1>1 DEF PurgeDue
  <2>6. job.op = "undo" => Clean(job.path)'
    BY <1>0, <1>1, <1>7, <2>4 DEF Purged, Clean, ForgottenElsewhere
  <2>7. \A q \in Path : q # job.path => (Gone(q)' => Clean(q)')
    BY <1>3, <1>6, <1>7, <2>4 DEF Purged
  <2>8. Purged'
    BY <1>0, <1>1, <2>5, <2>6, <2>7 DEF Purged
  <2>9. QED
    BY <2>1, <2>3, <2>8
<1>8. QED
  BY <1>0, <1>4, <1>7, StepForgets

LEMMA RemoveHistoryForgets ==
  ASSUME CoreInv, ForgetInv, CoreInv', RemoveHistory
  PROVE  Forgets'
<1>0. /\ DOMAIN job = DOMAIN Idle /\ job.path \in Path /\ job.pc = "history"
      /\ entries \in [Path -> Seq(Entry)] /\ files \in [Path -> SUBSET Artifact]
      /\ UNCHANGED <<live, holds, log, torn, vectors, struck>>
  BY DEF RemoveHistory, CoreInv, JobOK, TypeOK, counts
<1>1. \/ job.op = "undo" /\ job' = Idle
      \/ job.op # "undo" /\ job'.pc = "purge" /\ job'.path = job.path /\ job'.op = job.op
  BY <1>0 DEF RemoveHistory, Step, Return, Idle
<1>2. /\ DOMAIN entries'[job.path] = {}
      /\ \A q \in Path : q # job.path => entries'[q] = entries[q] /\ files'[q] = files[q]
  BY <1>0, EmptySeq DEF RemoveHistory
<1>3. \A q \in Path : (Stubbed(q)' <=> Stubbed(q)) /\ (Gone(q)' <=> Gone(q))
  BY <1>0 DEF Stubbed, Gone, IsForgotten, IsArchived, IsRejected
<1>4. job'.pc \in {"idle", "purge"} /\ job'.op # "undo"
  BY <1>1 DEF Idle
<1>5. ASSUME StubsAlone
      PROVE  StubsAlone'
  <2>1. ASSUME NEW q \in Path, Stubbed(q)
        PROVE  NothingLeft(q)'
    <3>1. CASE q = job.path
      BY <1>0, <1>2, <1>5, <2>1, <3>1 DEF StubsAlone, NothingLeft
    <3>2. CASE q # job.path
      BY <1>0, <1>2, <1>5, <2>1, <3>2 DEF StubsAlone, NothingLeft
    <3>3. QED
      BY <3>1, <3>2
  <2>2. QED
    BY <1>3, <1>4, <2>1 DEF StubsAlone
<1>6. /\ \A q \in Path : ForgottenElsewhere(q) => ForgottenElsewhere(q)'
      /\ \A b : ErasedBody(b) => ErasedBody(b)'
  BY <1>0, Remembered
<1>7. \A q \in Path : ~Forgetting(q)' /\ ~Forgetting(q)
  BY <1>0, <1>4 DEF Forgetting
<1>8. ASSUME StubsLive, Collected, Purged
      PROVE  StubsLive' /\ Collected' /\ Purged'
  <2>1. StubsLive'
    <3>1. ASSUME NEW q \in Path, NEW i \in DOMAIN entries'[q]
          PROVE  /\ entries'[q][i].body = None => Stubbed(q)
                 /\ entries'[q][i].tomb => Stubbed(q)
      <4>1. q # job.path
        BY <1>2, <3>1
      <4>2. entries'[q] = entries[q]
        BY <1>2, <4>1
      <4>3. QED
        BY <1>8, <3>1, <4>1, <4>2 DEF StubsLive
    <3>2. QED
      BY <1>0, <1>3, <1>8, <3>1 DEF StubsLive
  <2>2. ASSUME NEW q \in Path, Stubbed(q)
        PROVE  \/ ForgottenElsewhere(q)'
               \/ \A i \in DOMAIN entries'[q] : entries'[q][i].body = None \/ ErasedBody(entries[q][i].body)'
    <3>1. CASE q = job.path
      BY <1>2, <3>1
    <3>2. CASE q # job.path
      <4>1. entries'[q] = entries[q]
        BY <1>2, <3>2
      <4>2. QED
        BY <1>0, <1>6, <1>7, <1>8, <2>2, <4>1 DEF Collected, ErasedBody, Records
    <3>3. QED
      BY <3>1, <3>2
  <2>3. job'.op = "import" => ForgottenElsewhere(job.path)'
    BY <1>0, <1>1, <1>6, <1>8 DEF Collected, Idle
  <2>4. Collected'
    BY <1>3, <1>7, <2>2, <2>3 DEF Collected, ErasedBody, Records
  <2>5. \A q \in Path : Clean(q) => Clean(q)'
    BY <1>0, <1>6 DEF Clean
  <2>6. \A q \in Path : PurgeDue(q) => PurgeDue(q)'
    BY <1>0, <1>1 DEF PurgeDue
  <2>7. Purged'
    BY <1>3, <1>4, <1>8, <2>5, <2>6 DEF Purged
  <2>8. QED
    BY <2>1, <2>4, <2>7
<1>9. QED
  BY <1>0, <1>5, <1>8, StepForgets

\* Neither end of a move is a stub, nor has one in its history.
LEMMA CarryForgets ==
  ASSUME CoreInv, ForgetInv, CoreInv', Carry
  PROVE  Forgets'
<1>0. /\ job.pc = "carry" /\ job.op = "move"
      /\ job.path \in Path /\ job.to \in Path /\ job.to # job.path /\ job'.pc = "unlink"
      /\ UNCHANGED <<live, holds, log, torn, vectors, struck>>
      /\ job'.path = job.to \/ job'.op # "undo"
      /\ job'.op \in {"move", "undo"}
      /\ \A p \in Path \ {job.path, job.to} : entries'[p] = entries[p] /\ files'[p] = files[p]
  BY Carried
<1>1. \A p \in {job.path, job.to} :
        DOMAIN entries'[p] = {} \/ \E q \in {job.path, job.to} : entries'[p] = entries[q]
  <2>1. DOMAIN <<>> = {}
    BY EmptySeq
  <2>2. QED
    BY <2>1, Carried
<1>2. \A q \in Path : (Stubbed(q)' <=> Stubbed(q)) /\ (Gone(q)' <=> Gone(q))
  BY <1>0 DEF Stubbed, Gone, IsForgotten, IsArchived, IsRejected
<1>3. ~Stubbed(job.path) /\ ~Stubbed(job.to)
  BY <1>0 DEF ForgetInv, LiveText, Stubbed
<1>4. StubsAlone => StubsAlone'
  BY <1>0, <1>2, <1>3 DEF StubsAlone, NothingLeft
<1>5. /\ \A q \in Path : ForgottenElsewhere(q) => ForgottenElsewhere(q)'
      /\ \A b : ErasedBody(b) => ErasedBody(b)'
  BY <1>0, Remembered
<1>6. \A q \in Path : ~Forgetting(q)' /\ ~Forgetting(q) /\ ~PurgeDue(q)
  BY <1>0 DEF Forgetting, PurgeDue
<1>7. ASSUME StubsLive, Collected, Purged
      PROVE  StubsLive' /\ Collected' /\ Purged'
  <2>1. \A q \in {job.path, job.to} : \A i \in DOMAIN entries[q] : entries[q][i].body # None /\ ~entries[q][i].tomb
    BY <1>0, <1>3, <1>7 DEF StubsLive
  <2>2. \A q \in {job.path, job.to} : \A i \in DOMAIN entries'[q] : entries'[q][i].body # None /\ ~entries'[q][i].tomb
    BY <1>1, <2>1
  <2>3. StubsLive'
    BY <1>0, <1>2, <1>7, <2>2 DEF StubsLive
  <2>4. ASSUME NEW q \in Path, Stubbed(q)
        PROVE  \/ ForgottenElsewhere(q)'
               \/ \A i \in DOMAIN entries'[q] : entries'[q][i].body = None \/ ErasedBody(entries[q][i].body)'
    <3>1. entries'[q] = entries[q]
      BY <1>0, <1>3, <2>4
    <3>2. QED
      BY <1>0, <1>5, <1>6, <1>7, <2>4, <3>1 DEF Collected, ErasedBody, Records
  <2>5. Collected'
    BY <1>0, <1>2, <1>6, <2>4 DEF Collected, ErasedBody, Records
  <2>6. \A q \in Path : Clean(q) => Clean(q)'
    BY <1>0, <1>5 DEF Clean
  <2>7. Clean(job.to)
    BY <1>0, <1>7 DEF Purged
  <2>8. job'.op = "undo" => Clean(job.path)'
    BY <1>0, <1>5, <2>7 DEF Clean, ForgottenElsewhere
  <2>9. Purged'
    BY <1>0, <1>2, <1>6, <1>7, <2>6, <2>8 DEF Purged
  <2>10. QED
    BY <2>3, <2>5, <2>9
<1>8. QED
  BY <1>0, <1>4, <1>7, StepForgets

\* An author's edit changes no status.
LEMMA HandEditForgets ==
  ASSUME CoreInv, ForgetInv, CoreInv', NEW p \in Path, NEW body \in Body, HandEdit(p, body)
  PROVE  Forgets'
<1>0. /\ live \in [Path -> Node \union {None}]
      /\ UNCHANGED <<entries, files, holds, log, torn, vectors, job, struck>>
  BY DEF HandEdit, CoreInv, TypeOK, counts
<1>1. live' = [live EXCEPT ![p] = [live[p] EXCEPT !.body = body]] /\ live[p] \in Node /\ live[p] # None
  BY <1>0 DEF HandEdit, WriteLive
<1>2. [live[p] EXCEPT !.body = body] \in Node
  BY <1>1 DEF Node
<1>3. live'[p].status = live[p].status /\ live'[p].was = live[p].was /\ live'[p] # None
  BY <1>0, <1>1, <1>2, NoneAssumption DEF Node
<1>4. \A q \in Path : q # p => live'[q] = live[q]
  BY <1>0, <1>1
<1>5. \A q \in Path : (Stubbed(q)' <=> Stubbed(q)) /\ (Gone(q)' <=> Gone(q))
  BY <1>1, <1>3, <1>4 DEF Stubbed, Gone, IsForgotten, IsArchived, IsRejected
<1>6. StubsAlone => StubsAlone'
  BY <1>0, <1>5 DEF StubsAlone, NothingLeft
<1>7. StubsLive => StubsLive'
  BY <1>0, <1>5 DEF StubsLive
<1>8. Collected => Collected'
  BY <1>0, <1>5 DEF Collected, Forgetting, ForgottenElsewhere, ErasedBody, Records
<1>9. Purged => Purged'
  BY <1>0, <1>5 DEF Purged, PurgeDue, Clean, ForgottenElsewhere
<1>10. QED
  BY <1>0, <1>6, <1>7, <1>8, <1>9, StepForgets

\* Every step keeps what forgetting promises.
LEMMA Forgotten ==
  ASSUME CoreInv, ForgetInv, CoreInv', [Next]_vars
  PROVE  ForgetInv'
<1>1. ArtifactsAgree' /\ LiveText'
  BY Agreeing, Texts DEF ForgetInv
<1>0. SUFFICES Forgets'
  BY <1>1 DEF ForgetInv, Forgets
<1>2. ASSUME NEW p \in Path, Called(p)
      PROVE  Forgets'
  BY <1>2, CallForgets DEF Forgets
<1>3. CASE Aside
  BY <1>3, AsideForgets
<1>4. CASE PublishLive \/ SealArtifact \/ AppendEntry
  BY <1>4, PublishForgets, SealArtifactForgets, AppendEntryForgets
<1>5. CASE Tombstone \/ EraseArtifact \/ Discard \/ Stub \/ Record
  BY <1>5, TombstoneForgets, EraseForgets, StubForgets, RecordForgets
<1>6. CASE Unlink \/ RemoveHistory \/ Carry
  BY <1>6, UnlinkForgets, RemoveHistoryForgets, CarryForgets
<1>7. ASSUME NEW p \in Path, NEW body \in Body, HandEdit(p, body)
      PROVE  Forgets'
  BY <1>7, HandEditForgets
<1>8. CASE UNCHANGED vars
  <2>1. UNCHANGED <<live, entries, files, holds, log, torn, vectors, job, struck>>
    BY <1>8 DEF vars, disk, counts
  <2>2. \A q \in Path : (Stubbed(q)' <=> Stubbed(q)) /\ (Gone(q)' <=> Gone(q))
    BY <2>1 DEF Stubbed, Gone, IsForgotten, IsArchived, IsRejected
  <2>3. StubsAlone => StubsAlone'
    BY <2>1, <2>2 DEF StubsAlone, NothingLeft
  <2>4. StubsLive => StubsLive'
    BY <2>1, <2>2 DEF StubsLive
  <2>5. Collected => Collected'
    BY <2>1, <2>2 DEF Collected, Forgetting, ForgottenElsewhere, ErasedBody, Records
  <2>6. Purged => Purged'
    BY <2>1, <2>2 DEF Purged, PurgeDue, Clean, ForgottenElsewhere
  <2>7. QED
    BY <2>1, <2>3, <2>4, <2>5, <2>6, StepForgets
<1>9. QED
  BY <1>2, <1>3, <1>4, <1>5, <1>6, <1>7, <1>8 DEF Next, Continued, Outside, Aside

\* The inductive invariant of the operations on a node holds in every state,
\* wherever an operation dies and whatever is edited or embedded meanwhile.
THEOREM Operations == Spec => []NodeInv
<1>1. Init => HoldInv /\ ForgetInv
  <2> SUFFICES ASSUME Init
               PROVE  HoldInv /\ ForgetInv
    OBVIOUS
  <2>1. DOMAIN <<>> = {}
    BY EmptySeq
  <2>2. HoldInv
    BY <2>1 DEF Init, HoldInv, HoldsApart, BaseLeft, Idle
  <2>3. ArtifactsAgree /\ LiveText
    BY <2>1 DEF Init, ArtifactsAgree, LiveText, Idle
  <2>4. StubsAlone /\ StubsLive
    BY <2>1 DEF Init, StubsAlone, StubsLive, Stubbed, Idle
  <2>5. Collected /\ Purged
    BY <2>1 DEF Init, Collected, Purged, Stubbed, Forgetting, Clean, Idle
  <2>6. QED
    BY <2>2, <2>3, <2>4, <2>5 DEF ForgetInv
<1>2. CoreInv /\ CoreInv' /\ HoldInv /\ ForgetInv /\ [Next]_vars => HoldInv' /\ ForgetInv'
  BY Holding, Forgotten
<1>3. CoreInv /\ HoldInv /\ ForgetInv => NodeInv
  BY DEF NodeInv
<1>4. QED
  BY <1>1, <1>2, <1>3, Core, PTL DEF Spec

\* An entry that is not tombstoned has its artifact, whatever crash came before.
THEOREM NoGap == Spec => []NoSilentGap
<1>1. CoreInv => NoSilentGap
  BY DEF CoreInv
<1>2. QED
  BY <1>1, Core, PTL

\* Which steps lengthen a history: the entry of a publish, and a move's rename.
LEMMA Lengthens ==
  ASSUME CoreInv, [Next]_vars, NEW p \in Path, Len(entries'[p]) > Len(entries[p])
  PROVE  AppendEntry \/ Carry
<1>1. entries'[p] # entries[p]
  <2>1. Len(entries[p]) \in Nat
    BY LenProperties DEF CoreInv, TypeOK
  <2>2. QED
    BY <2>1
<1>2. ~ \E q \in Path : Called(q)
  BY <1>1, CallLeaves DEF RestKept
<1>3. ~Aside
  BY <1>1, AsideLeaves
<1>4. ~(PublishLive \/ SealArtifact \/ EraseArtifact \/ Discard \/ Stub \/ Record \/ Unlink)
  BY <1>1 DEF PublishLive, SealArtifact, EraseArtifact, Discard, Stub, Record, Unlink
<1>5. ~Tombstone
  <2>1. ASSUME Tombstone
        PROVE  Len(entries'[p]) = Len(entries[p])
    <3>1. entries \in [Path -> Seq(Entry)] /\ job.path \in Path
      BY <2>1 DEF Tombstone, CoreInv, TypeOK, JobOK
    <3>2. CASE p # job.path
      BY <2>1, <3>1, <3>2 DEF Tombstone
    <3>3. CASE p = job.path
      <4>1. entries'[p] = [i \in DOMAIN entries[p] |-> [entries[p][i] EXCEPT !.tomb = TRUE]]
        BY <2>1, <3>1, <3>3 DEF Tombstone
      <4>2. DOMAIN entries'[p] = 1 .. Len(entries[p]) /\ Len(entries[p]) \in Nat
        BY <3>1, <4>1, LenProperties
      <4>3. entries' \in [Path -> Seq(Entry)]
        BY <2>1, TombstoneStep DEF CoreInv, TypeOK
      <4>4. DOMAIN entries'[p] = 1 .. Len(entries'[p]) /\ Len(entries'[p]) \in Nat
        BY <4>3, LenProperties
      <4>5. QED
        BY <4>2, <4>4
    <3>4. QED
      BY <3>2, <3>3
  <2>2. Len(entries[p]) \in Nat
    BY LenProperties DEF CoreInv, TypeOK
  <2>3. QED
    BY <2>1, <2>2
<1>6. ~RemoveHistory
  <2>1. ASSUME RemoveHistory
        PROVE  entries'[p] = entries[p] \/ Len(entries'[p]) = 0
    <3>1. entries \in [Path -> Seq(Entry)] /\ job.path \in Path
      BY <2>1 DEF RemoveHistory, CoreInv, TypeOK, JobOK
    <3>2. QED
      BY <2>1, <3>1, EmptySeq DEF RemoveHistory
  <2>2. Len(entries[p]) \in Nat
    BY LenProperties DEF CoreInv, TypeOK
  <2>3. QED
    BY <1>1, <2>1, <2>2
<1>7. ~(\E q \in Path, body \in Body : HandEdit(q, body)) /\ ~UNCHANGED vars
  BY <1>1 DEF HandEdit, vars, disk
<1>8. QED
  BY <1>2, <1>3, <1>4, <1>5, <1>6, <1>7 DEF Next, Continued, Outside, Aside

\* No operation gives a forgotten path a version with content, nor records an
\* erased body.
THEOREM Resurrection == Spec => NoResurrection
<1> DEFINE A == \A p \in Path : Len(entries'[p]) > Len(entries[p]) /\ Last(entries'[p]).body # None =>
                  /\ ~PathForgotten(p)
                  /\ job.op # "move" => ~ErasedBody(Last(entries'[p]).body)
<1>1. CoreInv /\ [Next]_vars => A
  <2>1. SUFFICES ASSUME CoreInv, [Next]_vars, NEW p \in Path,
                        Len(entries'[p]) > Len(entries[p]), Last(entries'[p]).body # None
                 PROVE  /\ ~PathForgotten(p)
                        /\ job.op # "move" => ~ErasedBody(Last(entries'[p]).body)
    OBVIOUS
  <2>2. entries \in [Path -> Seq(Entry)] /\ Len(entries[p]) \in Nat /\ entries[p] \in Seq(Entry)
    BY <2>1, LenProperties DEF CoreInv, TypeOK
  <2>3. CASE AppendEntry
    <3>1. job.pc = "entry" /\ job.path \in Path
      BY <2>1, <2>3 DEF AppendEntry, CoreInv, JobOK
    <3>2. p = job.path
      BY <2>1, <2>2, <2>3 DEF AppendEntry
    <3> DEFINE new == [at |-> stamp, body |-> job.body, tomb |-> FALSE]
    <3>3. entries'[p] = Append(entries[p], new)
      BY <2>2, <2>3, <3>2 DEF AppendEntry
    <3>4. new \in Entry /\ new.body = job.body
      BY <2>1, <3>1 DEF Entry, CoreInv, TypeOK, JobOK, Stamp
    <3>5. Last(entries'[p]) = new
      <4> HIDE DEF new
      <4>1. QED
        BY <2>2, <3>3, <3>4, AppendProperties DEF Last
    <3>6. MayHold(job.path, job.body)
      BY <2>1, <3>1, <3>4, <3>5 DEF CoreInv, DoneSoFar
    <3>7. QED
      BY <3>2, <3>4, <3>5, <3>6 DEF MayHold
  <2>4. CASE Carry
    <3>1. job.pc = "carry" /\ job.op = "move" /\ job.path \in Path /\ job.to \in Path
      BY <2>1, <2>4 DEF Carry, CoreInv, JobOK
    <3>2. p = job.to
      <4>1. CASE p = job.path
        <5>1. entries'[p] = <<>> \/ entries'[p] = entries[p]
          BY <2>2, <2>4, <3>1, <4>1 DEF Carry
        <5>2. QED
          BY <2>1, <2>2, <5>1, EmptySeq
      <4>2. CASE p # job.path /\ p # job.to
        BY <2>1, <2>2, <2>4, <4>2 DEF Carry
      <4>3. QED
        BY <4>1, <4>2
    <3>3. QED
      BY <2>1, <3>1, <3>2 DEF CoreInv, DoneSoFar
  <2>5. QED
    BY <2>1, <2>3, <2>4, Lengthens
<1>2. QED
  BY <1>1, Core, PTL DEF Spec, NoResurrection

\* Which steps take a live file away.
LEMMA Vanishes ==
  ASSUME CoreInv, [Next]_vars, NEW p \in Path, live[p] # None, live'[p] = None
  PROVE  Unlink /\ p = job.path
<1>1. ~ \E q \in Path : Called(q)
  BY CallLeaves DEF RestKept
<1>2. ~Aside
  BY AsideLeaves
<1>3. ~(SealArtifact \/ AppendEntry \/ Tombstone \/ EraseArtifact \/ Discard \/ Record \/ RemoveHistory \/ Carry)
  BY DEF SealArtifact, AppendEntry, Tombstone, EraseArtifact, Discard, Record, RemoveHistory, Carry
<1>4. ~PublishLive
  <2>1. SUFFICES ASSUME PublishLive
                 PROVE  live'[p] # None
    OBVIOUS
  <2>2. [Draft(live[job.path].body, "published") EXCEPT !.at = stamp'] \in Node
    <3>1. live[job.path] \in Node /\ job.path \in Path /\ stamp' = stamp + 1 /\ stamp < MaxStamp /\ stamp \in Nat
      BY <2>1 DEF PublishLive, CoreInv, TypeOK, JobOK, DoneSoFar
    <3>2. QED
      BY <3>1, BoundAssumption DEF Draft, Node, Status, Stamp
  <2>3. QED
    BY <2>1, <2>2, Written DEF PublishLive, CoreInv, JobOK
<1>5. ~Stub
  <2>1. SUFFICES ASSUME Stub
                 PROVE  live'[p] # None
    OBVIOUS
  <2>2. [status |-> "forgotten", was |-> None, body |-> None, at |-> stamp'] \in Node
    BY <2>1, BoundAssumption DEF Stub, CoreInv, TypeOK, JobOK, Node, Status, Stamp
  <2>3. QED
    BY <2>1, <2>2, Written DEF Stub, CoreInv, JobOK
<1>6. ASSUME NEW q \in Path, NEW body \in Body, HandEdit(q, body)
      PROVE  FALSE
  <2>1. live[q] \in Node
    BY <1>6 DEF HandEdit, CoreInv, TypeOK
  <2>2. [live[q] EXCEPT !.body = body] \in Node
    BY <2>1 DEF Node
  <2>3. QED
    BY <1>6, <2>2, Written DEF HandEdit, CoreInv
<1>7. ~UNCHANGED vars
  BY DEF vars, disk
<1>8. Unlink
  BY <1>1, <1>2, <1>3, <1>4, <1>5, <1>6, <1>7 DEF Next, Continued, Outside, Aside
<1>9. QED
  BY <1>8 DEF Unlink, WriteLive, CoreInv, TypeOK

\* A live file vanishes only with an account of it.
THEOREM Accounted == Spec => DeletionAccounted
<1> DEFINE A == \A p \in Path : live[p] # None /\ live'[p] = None =>
                  \/ job.op = "purge" \/ IsForgotten(p)
                  \/ job.op = "move" /\ live[job.to] # None
                  \/ job.op = "undo"
                  \/ \E e \in log : e.path = p /\ e.mode = "delete"
<1>1. CoreInv /\ [Next]_vars => A
  <2>1. SUFFICES ASSUME CoreInv, [Next]_vars, NEW p \in Path, live[p] # None, live'[p] = None
                 PROVE  \/ job.op = "purge" \/ IsForgotten(p)
                        \/ job.op = "move" /\ live[job.to] # None
                        \/ job.op = "undo"
                        \/ \E e \in log : e.path = p /\ e.mode = "delete"
    OBVIOUS
  <2>2. job.pc = "unlink" /\ p = job.path
    BY <2>1, Vanishes DEF Unlink
  <2>3. QED
    BY <2>1, <2>2 DEF CoreInv, JobOK, DoneSoFar
<1>2. QED
  BY <1>1, Core, PTL DEF Spec, DeletionAccounted

\* A move deletes its source only when the history has left it.
THEOREM MovesWhole == Spec => MoveKeepsHistory
<1> DEFINE A == \A p \in Path : job.op = "move" /\ live[p] # None /\ live'[p] = None => ~HasHistory(p)
<1>1. CoreInv /\ [Next]_vars => A
  <2>1. SUFFICES ASSUME CoreInv, [Next]_vars, NEW p \in Path, job.op = "move", live[p] # None, live'[p] = None
                 PROVE  ~HasHistory(p)
    OBVIOUS
  <2>2. job.pc = "unlink" /\ p = job.path
    BY <2>1, Vanishes DEF Unlink
  <2>3. QED
    BY <2>1, <2>2 DEF CoreInv, DoneSoFar
<1>2. QED
  BY <1>1, Core, PTL DEF Spec, MoveKeepsHistory

\* A hold is recorded at most once, whatever crash separates its publish from its
\* archiving: the version it was made on is never again at a head.
THEOREM AppliedOnce == Spec => []HoldAppliedOnce
<1>1. NodeInv => HoldAppliedOnce
  <2>1. ASSUME NodeInv, NEW h \in Hold
        PROVE  Cardinality(applied[h]) <= 1
    <3>1. CASE applied[h] = {}
      BY <3>1, FS_EmptySet
    <3>2. CASE applied[h] # {}
      <4>1. PICK s : s \in applied[h]
        BY <3>2
      <4>2. applied[h] = {s}
        BY <2>1, <4>1 DEF NodeInv, HoldInv, BaseLeft
      <4>3. QED
        BY <4>2, FS_Singleton
    <3>3. QED
      BY <3>1, <3>2
  <2>2. QED
    BY <2>1 DEF HoldAppliedOnce
<1>2. QED
  BY <1>1, Operations, PTL

\* Where the stub of a forget stands nothing of what was there is left.  With
\* crashes and restores together it may be: see StubsAlone.
THEOREM Erased == Spec => [](("restore" \notin Ops \/ ~struck) => ForgottenIsErased)
<1>1. NodeInv => (("restore" \notin Ops \/ ~struck) => ForgottenIsErased)
  <2>1. SUFFICES ASSUME NodeInv, "restore" \notin Ops \/ ~struck,
                        NEW p \in Path, live[p] # None, IsForgotten(p)
                 PROVE  /\ holds[p] = {}
                        /\ \A e \in Range(entries[p]), f \in files[p] : f.at = e.at => f.body = None
    BY DEF ForgottenIsErased
  <2>2. NothingLeft(p)
    BY <2>1 DEF NodeInv, ForgetInv, StubsAlone, Stubbed
  <2>3. ASSUME NEW e \in Range(entries[p]), NEW f \in files[p], f.at = e.at
        PROVE  f.body = None
    <3>1. PICK i \in DOMAIN entries[p] : e = entries[p][i]
      BY <2>3 DEF Range
    <3>2. QED
      BY <2>1, <2>2, <2>3, <3>1 DEF NodeInv, ForgetInv, ArtifactsAgree, NothingLeft
  <2>4. QED
    BY <2>2, <2>3 DEF NothingLeft
<1>2. QED
  BY <1>1, Operations, PTL

\* Unless a crash cut it short, the record of a forget made here names every body
\* that was in the history, so none of them can come back.
THEOREM OnRecord == Spec => []ErasureOnRecord
<1>1. NodeInv => ErasureOnRecord
  <2>1. SUFFICES ASSUME NodeInv, ~struck, AtRest, NEW p \in Path, live[p] # None, IsForgotten(p),
                        \A e \in log : e.path = p => e.here, NEW e \in Range(entries[p])
                 PROVE  e.body = None \/ ErasedBody(e.body)
    BY DEF ErasureOnRecord
  <2>2. PICK i \in DOMAIN entries[p] : e = entries[p][i]
    BY DEF Range
  <2>3. ~ForgottenElsewhere(p) /\ ~Forgetting(p) /\ Stubbed(p)
    BY <2>1 DEF ForgottenElsewhere, Forgetting, Stubbed, AtRest
  <2>4. QED
    BY <2>1, <2>2, <2>3 DEF NodeInv, ForgetInv, Collected
<1>2. QED
  BY <1>1, Operations, PTL

\* Unless a crash cut an operation short, the index holds nothing of what was
\* forgotten, deleted or archived here.
THEOREM NoVector == Spec => []NoErasedVector
<1>1. NodeInv => NoErasedVector
  <2>1. SUFFICES ASSUME NodeInv, ~struck, AtRest, NEW p \in Path,
                        live[p] = None \/ IsForgotten(p) \/ IsArchived(p)
                 PROVE  vectors[p] = None \/ \E e \in log : e.path = p /\ ~e.here
    BY DEF NoErasedVector
  <2>2. Gone(p) /\ ~PurgeDue(p)
    BY <2>1 DEF Gone, PurgeDue, AtRest
  <2>3. QED
    BY <2>1, <2>2 DEF NodeInv, ForgetInv, Purged, Clean, ForgottenElsewhere
<1>2. QED
  BY <1>1, Operations, PTL

===============================================================================
