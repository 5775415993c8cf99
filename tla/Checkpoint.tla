------------------------------ MODULE Checkpoint -------------------------------
(***************************************************************************)
(* The checkpoint chain (checkpoint.ts and the storage calls under it):    *)
(* context_history.yaml, the pointer file that caches its newest           *)
(* checkpoint, the in-memory marks that tell a seal which histories to     *)
(* read again, and the rebuild that runs beside the writers unlocked.      *)
(*                                                                         *)
(* Several processes write, each with its own storage object; the vault    *)
(* lock admits one writing operation at a time (module VaultLock).  A      *)
(* document's history is what module DocHistory keeps of it: here only the *)
(* version numbers and the chain hashes.  A chain hash is the write it was *)
(* made by, so it doubles as the entry's edited_at and published_at.       *)
(***************************************************************************)
EXTENDS Naturals, Sequences, FiniteSets, SequencesExt

CONSTANTS
  Doc,
  Proc,         \* processes, each with one NestStorage
  MaxVersion,   \* bound on version numbers
  MaxWrites,    \* bound on version entries written
  MaxAttempts,  \* MAX_REBUILD_ATTEMPTS
  Ops,          \* which of "commit", "defer", "delete", "rebuild" are used
  Faults,       \* which of "crash", "exit", "tear", "edit", "unreadable" happen
  None

ASSUME CheckpointAssumption ==
  /\ MaxVersion \in Nat \ {0}
  /\ MaxWrites \in Nat
  /\ MaxAttempts \in Nat \ {0}
  /\ Ops \subseteq {"commit", "defer", "delete", "rebuild"}
  /\ Faults \subseteq {"crash", "exit", "tear", "edit", "unreadable"}
  /\ None \notin Doc \union Proc

Version == 1 .. MaxVersion

\* A document file's frontmatter: version 0 when it has none.
File == [version: 0 .. MaxVersion, published: BOOLEAN]

\* hash 0: a checkpoint recorded the version without a chain hash.
Entry == [version: Version, hash: 0 .. MaxWrites]

Histories == [Doc -> Seq(Entry)]

Snapshot == [Doc -> Entry \union {None}]

Payload == [number: Nat, at: 0 .. MaxWrites, sealed: Snapshot]

\* prev is the hash of the checkpoint this one was linked onto.
Checkpoint == [number: Nat, at: 0 .. MaxWrites, sealed: Snapshot, prev: Seq(Payload)]

ASSUME NoneAssumption == None \notin File \union Entry \union Checkpoint

VARIABLES
  live,        \* the document files
  unreadable,  \* documents whose file is there but does not parse
  history,     \* each document's history.yaml; empty when it has none
  clock,       \* how many version entries have been written
  file,        \* context_history.yaml: "absent", "ok" or "corrupt"
  chain,       \* its checkpoints when "ok", else empty
  pointer,     \* the pointer file: the chain it was stamped with, and a checkpoint
  lock,        \* the vault lock's holder
  touched,     \* per process: touchedHistories, in memory
  pc,          \* per process: its next step
  job,         \* per process: the document it writes, and the entry it records
  cp,          \* per process: the checkpoint it is about to append
  before,      \* per process: the histories its rebuild read
  attempt      \* per process: which pass its rebuild is in

documents == <<live, unreadable, history, clock>>
chainFiles == <<file, chain, pointer>>
locals == <<job, cp, before, attempt>>
vars == <<live, unreadable, history, clock, file, chain, pointer, lock, touched, pc, job, cp,
          before, attempt>>

Log == INSTANCE CheckpointLog WITH log <- chain, readable <- (file # "corrupt")

NoJob == [doc |-> None, version |-> 0, hash |-> 0]

TypeOK ==
  /\ live \in [Doc -> File \union {None}]
  /\ unreadable \in SUBSET Doc
  /\ history \in Histories
  /\ clock \in 0 .. MaxWrites
  /\ file \in {"absent", "ok", "corrupt"}
  /\ chain \in Seq(Checkpoint)
  /\ pointer \in [of: Seq(Checkpoint), head: Checkpoint] \union {None}
  /\ lock \in Proc \union {None}
  /\ touched \in [Proc -> SUBSET Doc]
  /\ pc \in [Proc -> {"idle", "entry", "seal", "append", "point", "live", "rm",
                      "rebuild", "repoint", "recheck"}]
  /\ job \in [Proc -> [doc: Doc \union {None}, version: 0 .. MaxVersion, hash: 0 .. MaxWrites]]
  /\ cp \in [Proc -> Checkpoint \union {None}]
  /\ before \in [Proc -> Histories]
  /\ attempt \in [Proc -> 0 .. MaxAttempts]

NoHistories == [d \in Doc |-> <<>>]

Init ==
  /\ live \in [Doc -> {[version |-> 0, published |-> FALSE], None}]
  /\ unreadable = {}
  /\ history = NoHistories
  /\ clock = 0
  /\ file = "absent"
  /\ chain = <<>>
  /\ pointer = None
  /\ lock = None
  /\ touched = [p \in Proc |-> {}]
  /\ pc = [p \in Proc |-> "idle"]
  /\ job = [p \in Proc |-> NoJob]
  /\ cp = [p \in Proc |-> None]
  /\ before = [p \in Proc |-> NoHistories]
  /\ attempt = [p \in Proc |-> 0]

Goto(p, step) == pc' = [pc EXCEPT ![p] = step]

\* p enters withVaultLock.
Acquire(p) == lock = None /\ pc[p] = "idle" /\ lock' = p

\* p returns from withVaultLock.
Release(p) ==
  /\ lock' = None
  /\ Goto(p, "idle")
  /\ job' = [job EXCEPT ![p] = NoJob]
  /\ cp' = [cp EXCEPT ![p] = None]

Touch(p, d) == touched' = [touched EXCEPT ![p] = @ \union {d}]

--------------------------------------------------------------------------------
(* Versions: writePublishedVersion, commitNewVersion, deleteDocument.      *)

\* nextVersion: past the file's own number, everything recorded, and whatever
\* artifacts an interrupted operation has left behind.
Outranks(n, d) == live[d].version < n /\ \A i \in DOMAIN history[d] : history[d][i].version < n

\* The document and the entry an operation is going to write.
TakeJob(p, d, n) ==
  /\ Acquire(p)
  /\ live[d] # None /\ d \notin unreadable
  /\ Outranks(n, d)
  /\ clock < MaxWrites
  /\ clock' = clock + 1
  /\ job' = [job EXCEPT ![p] = [doc |-> d, version |-> n, hash |-> clock + 1]]

EntryOf(p) == [version |-> job[p].version, hash |-> job[p].hash]

\* A publish writes the document first, then its version entry.
PublishLive(p, d, n) ==
  /\ TakeJob(p, d, n)
  /\ live' = [live EXCEPT ![d] = [version |-> n, published |-> TRUE]]
  /\ Goto(p, "entry")
  /\ UNCHANGED <<unreadable, history, chainFiles, touched, cp, before, attempt>>

RecordEntry(p) ==
  /\ history' = [history EXCEPT ![job[p].doc] = Append(@, EntryOf(p))]
  /\ Touch(p, job[p].doc)

PublishEntry(p) ==
  /\ pc[p] = "entry"
  /\ RecordEntry(p)
  /\ Goto(p, "seal")
  /\ UNCHANGED <<live, unreadable, clock, chainFiles, lock, locals>>

\* Under deferSeal the operation ends here; the host owes a sealWrites.
PublishUnsealed(p) ==
  /\ "defer" \in Ops
  /\ pc[p] = "entry"
  /\ RecordEntry(p)
  /\ Release(p)
  /\ UNCHANGED <<live, unreadable, clock, chainFiles, before, attempt>>

\* An approval, rollback or direct edit: the entry first, the document last,
\* and no checkpoint.
CommitEntry(p, d, n) ==
  /\ "commit" \in Ops
  /\ TakeJob(p, d, n)
  /\ history' = [history EXCEPT ![d] = Append(@, [version |-> n, hash |-> clock + 1])]
  /\ Touch(p, d)
  /\ Goto(p, "live")
  /\ UNCHANGED <<live, unreadable, chainFiles, cp, before, attempt>>

CommitLive(p) ==
  /\ pc[p] = "live"
  /\ live' = [live EXCEPT ![job[p].doc] = [version |-> job[p].version, published |-> TRUE]]
  /\ unreadable' = unreadable \ {job[p].doc}
  /\ Release(p)
  /\ UNCHANGED <<history, clock, chainFiles, touched, before, attempt>>

\* deleteDocument: the file, readable or not, then its .versions directory.
DeleteFile(p, d) ==
  /\ "delete" \in Ops
  /\ Acquire(p)
  /\ live[d] # None
  /\ live' = [live EXCEPT ![d] = None]
  /\ unreadable' = unreadable \ {d}
  /\ Touch(p, d)
  /\ job' = [job EXCEPT ![p].doc = d]
  /\ Goto(p, "rm")
  /\ UNCHANGED <<history, clock, chainFiles, cp, before, attempt>>

DeleteHistory(p) ==
  /\ pc[p] = "rm"
  /\ history' = [history EXCEPT ![job[p].doc] = <<>>]
  /\ Release(p)
  /\ UNCHANGED <<live, unreadable, clock, chainFiles, touched, before, attempt>>

\* A new draft; no version yet.
Create(d) ==
  /\ lock = None
  /\ live[d] = None
  /\ live' = [live EXCEPT ![d] = [version |-> 0, published |-> FALSE]]
  /\ UNCHANGED <<unreadable, history, clock, chainFiles, lock, touched, pc, locals>>

--------------------------------------------------------------------------------
(* createCheckpointFromVault and sealCheckpoint.                           *)

\* Mutant: the pointer is believed without a look at the file it was made for.
ChainHeadUnchecked ==
  IF pointer # None THEN pointer.head ELSE IF chain = <<>> THEN None ELSE chain[Len(chain)]

\* readCheckpointChainState: the pointer when it matches the file, else the
\* file's last checkpoint.
ChainHead ==
  CASE pointer # None /\ file = "ok" /\ pointer.of = chain -> pointer.head
    [] chain # <<>> -> chain[Len(chain)]
    [] OTHER -> None

VersionToSeal(d) == IF live[d].version = 0 THEN 1 ELSE live[d].version

\* The entry of the version being sealed (a history records a version once),
\* else the latest one, else none.
RecordedHash(d) ==
  LET same == {i \in DOMAIN history[d] : history[d][i].version = VersionToSeal(d)}
  IN  CASE history[d] = <<>> -> 0
        [] same # {} -> history[d][CHOOSE i \in same : TRUE].hash
        [] OTHER -> history[d][Len(history[d])].hash

HeadSeals(d) == ChainHead # None /\ ChainHead.sealed[d] # None /\ ChainHead.sealed[d].hash # 0

\* Mutant: the head's hash is carried also when the history was rewritten.
CarriesTouched(p, d) == HeadSeals(d) /\ ChainHead.sealed[d].version = VersionToSeal(d)

\* The head vouches for a document this process did not touch since.
Carries(p, d) ==
  HeadSeals(d) /\ ChainHead.sealed[d].version = VersionToSeal(d) /\ d \notin touched[p]

HashToSeal(p, d) ==
  CASE Carries(p, d) -> ChainHead.sealed[d].hash
    [] ~Carries(p, d) /\ d = job[p].doc /\ job[p].version = VersionToSeal(d) -> job[p].hash
    [] OTHER -> RecordedHash(d)

IsPublished(d) == live[d] # None /\ d \notin unreadable /\ live[d].published

\* Published documents as they are; unreadable ones as the head has them.
SnapshotOf(p) ==
  [d \in Doc |->
     CASE IsPublished(d) -> [version |-> VersionToSeal(d), hash |-> HashToSeal(p, d)]
       [] d \in unreadable /\ HeadSeals(d) -> ChainHead.sealed[d]
       [] OTHER -> None]

\* sealWrites: one checkpoint for what this process published without one (the
\* marks stand for the host's batch; a second seal of the same is left out).
SealWrites(p) ==
  /\ "defer" \in Ops
  /\ Acquire(p)
  /\ \E d \in touched[p] : history[d] # <<>>
  /\ Goto(p, "seal")
  /\ UNCHANGED <<documents, chainFiles, touched, locals>>

SealRead(p) ==
  /\ pc[p] = "seal"
  /\ cp' = [cp EXCEPT ![p] =
              [number |-> IF ChainHead = None THEN 1 ELSE ChainHead.number + 1,
               at     |-> clock,
               sealed |-> SnapshotOf(p),
               prev   |-> IF ChainHead = None THEN <<>> ELSE Log!HashOf(ChainHead)]]
  /\ Goto(p, "append")
  /\ UNCHANGED <<documents, chainFiles, lock, touched, job, before, attempt>>

\* appendCheckpoint, or startCheckpointHistory when no head was found (an
\* unreadable file is moved aside first).
SealAppend(p) ==
  /\ pc[p] = "append"
  /\ chain' = IF cp[p].number = 1 THEN <<cp[p]>> ELSE Append(chain, cp[p])
  /\ file' = "ok"
  /\ Goto(p, "point")
  /\ UNCHANGED <<documents, pointer, lock, touched, locals>>

\* writeLatestCheckpointPointer stamps the file as it finds it; then the marks
\* the seal consumed are cleared.
Point(p) ==
  /\ pc[p] = "point"
  /\ pointer' = [of |-> chain, head |-> cp[p]]
  /\ touched' = [touched EXCEPT ![p] = {}]
  /\ Release(p)
  /\ UNCHANGED <<documents, file, chain, before, attempt>>

--------------------------------------------------------------------------------
(* rebuildCheckpointHistory: no vault lock, no checkpoint lock.            *)

\* One tuple per recorded version, first occurrence, in publication order.
Tuples(histories) ==
  LET First(d, i) == \A j \in 1 .. i - 1 : histories[d][j].version # histories[d][i].version
      all == UNION {{[doc |-> d, entry |-> histories[d][i]] :
                       i \in {k \in DOMAIN histories[d] : First(d, k)}} : d \in Doc}
      n == Cardinality(all)
  IN  CHOOSE s \in [1 .. n -> all] :
        \A i, j \in 1 .. n : i < j => s[i].entry.hash < s[j].entry.hash

\* Mutant: every checkpoint holds the document that triggered it alone.
RunningAlone(tuples, i) ==
  [d \in Doc |-> IF tuples[i].doc = d THEN tuples[i].entry ELSE None]

\* The running map after the first i tuples.
Running(tuples, i) ==
  [d \in Doc |->
     LET own == {j \in 1 .. i : tuples[j].doc = d}
     IN  IF own = {} THEN None
         ELSE tuples[CHOOSE j \in own : \A k \in own : k <= j].entry]

DeriveCheckpointHistory(histories) ==
  LET tuples == Tuples(histories)
      Step(i) == [number |-> i, at |-> tuples[i].entry.hash, sealed |-> Running(tuples, i)]
  IN  [i \in DOMAIN tuples |->
         [number |-> i, at |-> Step(i).at, sealed |-> Step(i).sealed,
          prev |-> [j \in 1 .. i - 1 |-> Step(j)]]]

\* publishedSignature: which versions each document has published.
Signature(histories) ==
  [d \in Doc |-> {histories[d][i].version : i \in DOMAIN histories[d]}]

RebuildRead(p) ==
  /\ "rebuild" \in Ops
  /\ pc[p] = "idle"
  /\ before' = [before EXCEPT ![p] = history]
  /\ attempt' = [attempt EXCEPT ![p] = 1]
  /\ Goto(p, "rebuild")
  /\ UNCHANGED <<documents, chainFiles, lock, touched, job, cp>>

RebuildWrite(p) ==
  /\ pc[p] = "rebuild"
  /\ chain' = DeriveCheckpointHistory(before[p])
  /\ file' = "ok"
  /\ Goto(p, "repoint")
  /\ UNCHANGED <<documents, pointer, lock, touched, locals>>

RebuildPoint(p) ==
  /\ pc[p] = "repoint"
  /\ LET rebuilt == DeriveCheckpointHistory(before[p])
     IN  pointer' = IF rebuilt = <<>> THEN None
                    ELSE [of |-> chain, head |-> rebuilt[Len(rebuilt)]]
  /\ Goto(p, "recheck")
  /\ UNCHANGED <<documents, file, chain, lock, touched, locals>>

\* Nothing was published meanwhile: done.  Otherwise another pass.
RebuildCheck(p) ==
  /\ pc[p] = "recheck"
  /\ IF Signature(before[p]) = Signature(history) \/ attempt[p] = MaxAttempts
     THEN /\ Goto(p, "idle")
          /\ before' = [before EXCEPT ![p] = NoHistories]
          /\ attempt' = [attempt EXCEPT ![p] = 0]
     ELSE /\ Goto(p, "rebuild")
          /\ before' = [before EXCEPT ![p] = history]
          /\ attempt' = [attempt EXCEPT ![p] = @ + 1]
  /\ UNCHANGED <<documents, chainFiles, lock, touched, job, cp>>

--------------------------------------------------------------------------------
(* Faults, and authors.                                                    *)

\* What a process held in memory is gone, and the lock it held is stolen.
Die(p) ==
  /\ lock' = IF lock = p THEN None ELSE lock
  /\ touched' = [touched EXCEPT ![p] = {}]
  /\ Goto(p, "idle")
  /\ job' = [job EXCEPT ![p] = NoJob]
  /\ cp' = [cp EXCEPT ![p] = None]
  /\ before' = [before EXCEPT ![p] = NoHistories]
  /\ attempt' = [attempt EXCEPT ![p] = 0]

Crash(p) ==
  /\ "crash" \in Faults
  /\ pc[p] # "idle"
  /\ Die(p)
  /\ UNCHANGED <<documents, chainFiles>>

\* A command line process ends after its operation; a server restarts.
Exit(p) ==
  /\ "exit" \in Faults
  /\ pc[p] = "idle" /\ touched[p] # {}
  /\ Die(p)
  /\ UNCHANGED <<documents, chainFiles>>

\* The process dies inside the append: the file no longer parses.
TearChain(p) ==
  /\ "tear" \in Faults
  /\ pc[p] = "append" /\ chain # <<>> /\ cp[p].number # 1
  /\ file' = "corrupt"
  /\ chain' = <<>>
  /\ Die(p)
  /\ UNCHANGED <<documents, pointer>>

\* A published document renumbered by hand, or copied in.
HandEdit(d, version) ==
  /\ "edit" \in Faults
  /\ live' = [live EXCEPT ![d] = [version |-> version, published |-> TRUE]]
  /\ unreadable' = unreadable \ {d}
  /\ UNCHANGED <<history, clock, chainFiles, lock, touched, pc, locals>>

\* An edit that leaves the file unparseable, and the one that mends it.
Garble(d) ==
  /\ "unreadable" \in Faults
  /\ live[d] # None
  /\ unreadable' = IF d \in unreadable THEN unreadable \ {d} ELSE unreadable \union {d}
  /\ UNCHANGED <<live, history, clock, chainFiles, lock, touched, pc, locals>>

Write(p) ==
  \/ \E d \in Doc, n \in Version : PublishLive(p, d, n) \/ CommitEntry(p, d, n)
  \/ \E d \in Doc : DeleteFile(p, d)
  \/ PublishEntry(p) \/ PublishUnsealed(p) \/ CommitLive(p) \/ DeleteHistory(p)

Seal(p) == SealWrites(p) \/ SealRead(p) \/ SealAppend(p) \/ Point(p)

Rebuild(p) == RebuildRead(p) \/ RebuildWrite(p) \/ RebuildPoint(p) \/ RebuildCheck(p)

Next ==
  \/ \E p \in Proc : Write(p) \/ Seal(p) \/ Rebuild(p) \/ Crash(p) \/ Exit(p) \/ TearChain(p)
  \/ \E d \in Doc : Create(d) \/ Garble(d)
  \/ \E d \in Doc, version \in 0 .. MaxVersion : HandEdit(d, version)

Spec == Init /\ [][Next]_vars

--------------------------------------------------------------------------------
(* Properties.                                                             *)

\* Seen by its readers, the chain is the append-only log of CheckpointLog: no
\* seal drops, repeats or reorders a checkpoint, nor links onto another than
\* the last, whichever of pointer and tail the head was read from, and
\* wherever a writer died (appendCheckpoint, readCheckpointChainState).
ChainRefinesLog == Log!Spec

\* Every checkpoint is numbered after its predecessor and hashed over it, so
\* that verify recomputes every hash (verifyCheckpointChain, step 5).
ChainLinked ==
  \A i \in DOMAIN chain :
    /\ chain[i].number = i
    /\ chain[i].prev = IF i = 1 THEN <<>> ELSE Log!HashOf(chain[i - 1])

\* A sealed hash disagrees with the history's entry for that version, and the
\* entry is not the later recreation that verify forgives.
Mismatch(checkpoint, d) ==
  /\ checkpoint.sealed[d] # None /\ checkpoint.sealed[d].hash # 0
  /\ \E i \in DOMAIN history[d] :
       /\ history[d][i].version = checkpoint.sealed[d].version
       /\ history[d][i].hash # checkpoint.sealed[d].hash
       /\ history[d][i].hash <= checkpoint.at

\* verify finds every checkpoint's hashes in the histories it binds, through
\* deletions and recreations that use a version number again
\* (verifyCheckpointChain, step 4; touchedHistories).
CrossChainVerifies == \A i \in DOMAIN chain : \A d \in Doc : ~Mismatch(chain[i], d)

\* A checkpoint under construction binds a recorded version of each document
\* that has a history, to the hash it was recorded with (checkpoint.ts:448-450:
\* sealedVersion is always present there).
SealsRecorded ==
  \A p \in Proc, d \in Doc :
    pc[p] = "append" /\ cp[p].sealed[d] # None /\ d \notin unreadable /\ history[d] # <<>> =>
      cp[p].sealed[d] \in {history[d][i] : i \in DOMAIN history[d]}

\* The checkpoint a publish returns holds the very entry it published.
SealsItsPublish ==
  [][\A p \in Proc :
       pc[p] = "seal" /\ pc'[p] = "append" /\ job[p].doc \in Doc \ unreadable =>
         cp'[p].sealed[job[p].doc] = EntryOf(p)]_vars

\* A rebuild that nobody raced leaves a chain verify finds nothing in, whose
\* head is what the next seal links onto and binds the newest version of every
\* document that has a history, whatever chain it replaced
\* (rebuildCheckpointHistory, the documented repair).
RebuildHeals ==
  \A p \in Proc :
    pc[p] = "recheck" /\ before[p] = history =>
      /\ ChainLinked /\ CrossChainVerifies
      /\ chain # <<>> => ChainHead = chain[Len(chain)]
      /\ \A d \in Doc :
           history[d] # <<>> => ChainHead.sealed[d] = history[d][Len(history[d])]

--------------------------------------------------------------------------------
(* The inductive strengthenings of the properties.                         *)

\* The pointer names the last checkpoint of the chain it was stamped with.
PointerExact ==
  pointer # None => pointer.of # <<>> /\ pointer.head = pointer.of[Len(pointer.of)]

\* A seal continues the chain as it is, and has put it there before it points.
SealContinues ==
  \A p \in Proc :
    /\ pc[p] \in {"entry", "seal", "append", "point", "live", "rm"} => lock = p
    /\ pc[p] \in {"entry", "live", "rm"} => job[p].doc \in Doc
    /\ pc[p] \in {"entry", "live"} => job[p].version \in Version
    /\ pc[p] = "append" => cp[p] # None /\ Log!Continues(chain, cp[p])
    /\ pc[p] = "point" => chain # <<>> /\ file = "ok" /\ cp[p] = chain[Len(chain)]
    /\ pc[p] \in {"rebuild", "repoint", "recheck"} => "rebuild" \in Ops /\ \A q \in Proc : q = p
    /\ pc[p] \in {"repoint", "recheck"} => chain = DeriveCheckpointHistory(before[p])

ChainInv ==
  TypeOK /\ ChainLinked /\ PointerExact /\ SealContinues /\ (file # "ok" => chain = <<>>)

\* A process that is to append a checkpoint has one.
Typed == TypeOK /\ \A p \in Proc : pc[p] \in {"append", "point"} => cp[p] # None

\* Where a process holds the vault lock.
Inside == {"entry", "seal", "append", "point", "live", "rm"}

\* Histories whose entries were recorded in the order of their numbers, each at a
\* time of its own.
InOrder(histories) ==
  /\ \A d \in Doc : \A i, j \in DOMAIN histories[d] : i < j =>
       /\ histories[d][i].version < histories[d][j].version
       /\ histories[d][i].hash < histories[d][j].hash
  /\ \A c, d \in Doc : \A i \in DOMAIN histories[c], j \in DOMAIN histories[d] :
       histories[c][i].hash = histories[d][j].hash => c = d

\* So are those there are and those a rebuild has read; and what is about to be
\* recorded comes after them.
Dated ==
  /\ history \in Histories /\ before \in [Proc -> Histories] /\ clock \in 0 .. MaxWrites
  /\ DOMAIN pc = Proc /\ DOMAIN job = Proc
  /\ InOrder(history)
  /\ \A d \in Doc : \A i \in DOMAIN history[d] : history[d][i].hash <= clock
  /\ \A p \in Proc :
       /\ InOrder(before[p])
       /\ lock = p <=> pc[p] \in Inside
       /\ pc[p] \in {"entry", "live", "rm"} => job[p].doc \in Doc
       /\ pc[p] = "entry" =>
            /\ EntryOf(p) \in Entry /\ job[p].hash = clock
            /\ \A d \in Doc : \A i \in DOMAIN history[d] : history[d][i].hash < clock
            /\ \A i \in DOMAIN history[job[p].doc] :
                 history[job[p].doc][i].version < job[p].version

\* Whatever else goes on, rebuilds included: who writes holds the lock, and what a
\* publish writes is what is live, and marked, when it is sealed.
WriterInv ==
  /\ live \in [Doc -> File \union {None}]
  /\ touched \in [Proc -> SUBSET Doc]
  /\ DOMAIN pc = Proc /\ DOMAIN cp = Proc /\ DOMAIN job = Proc
  /\ \A p \in Proc :
       /\ lock = p <=> pc[p] \in Inside
       /\ pc[p] \notin Inside => job[p] = NoJob
       /\ pc[p] \in {"entry", "live", "rm"} => job[p].doc \in Doc
       /\ pc[p] \in {"entry", "live"} => job[p].version \in Version
       /\ pc[p] \in {"entry", "seal"} /\ job[p].doc \in Doc =>
            /\ job[p].version \in Version
            /\ live[job[p].doc] = [version |-> job[p].version, published |-> TRUE]
       /\ pc[p] = "seal" /\ job[p].doc \in Doc => job[p].doc \in touched[p]

EntriesOf(d) == {history[d][i] : i \in DOMAIN history[d]}

\* A history records a version once, and its entries in the order of the clock;
\* what is live and published is recorded, or just about to be.
Recorded ==
  /\ unreadable = {}
  /\ \A d \in Doc : \A e, f \in EntriesOf(d) : e.version = f.version => e = f
  /\ \A d \in Doc : \A e \in EntriesOf(d) : e.hash \in 1 .. clock
  /\ \A d \in Doc : live[d] # None =>
       /\ live[d].published => live[d].version # 0
       /\ \/ live[d].version = 0
          \/ \E e \in EntriesOf(d) : e.version = live[d].version
          \/ \E p \in Proc : pc[p] = "entry" /\ job[p].doc = d
  /\ \A p \in Proc :
       /\ pc[p] = "entry" =>
            /\ job[p].hash = clock /\ clock > 0
            /\ \A e \in EntriesOf(job[p].doc) : e.version # job[p].version
            /\ \A i \in DOMAIN chain : chain[i].at < job[p].hash
       /\ pc[p] \in {"live", "seal"} /\ job[p].doc \in Doc => EntryOf(p) \in EntriesOf(job[p].doc)
       /\ pc[p] = "rm" => live[job[p].doc] = None /\ job[p].doc \in touched[p] /\ "delete" \in Ops

\* What a seal is about to append, and what the head of the chain seals, is recorded;
\* unless the history was removed, and every process knows.
SealsHold ==
  /\ \A p \in Proc : pc[p] \in {"append", "point"} =>
       /\ cp[p].at <= clock
       /\ \A d \in Doc : cp[p].sealed[d] # None => cp[p].sealed[d] \in EntriesOf(d)
  /\ \A i \in DOMAIN chain : chain[i].at <= clock
  /\ chain # <<>> => \A d \in Doc : chain[Len(chain)].sealed[d] # None =>
       \/ chain[Len(chain)].sealed[d] \in EntriesOf(d)
       \/ "delete" \in Ops /\ \A p \in Proc : d \in touched[p]

\* Nothing has been recorded since a rebuild under way read the histories.
RebuildsWhatIs ==
  \A p \in Proc : pc[p] \in {"rebuild", "repoint", "recheck"} => before[p] = history

\* Nothing is recorded of d under this number, nor will be: it has been passed.
Passed(d, version) ==
  /\ live[d] # None /\ version <= live[d].version
  /\ \A e \in EntriesOf(d) : e.version # version
  /\ \A p \in Proc : pc[p] = "entry" /\ job[p].doc = d => version < job[p].version

\* The bindings that no history will ever contradict, if none is removed.
Lasting ==
  {b \in [doc: Doc, entry: Entry] :
     \/ b.entry.hash = 0
     \/ b.entry \in EntriesOf(b.doc)
     \/ Passed(b.doc, b.entry.version)}

Binds(checkpoint, bindings) ==
  \A d \in Doc :
    checkpoint.sealed[d] # None => [doc |-> d, entry |-> checkpoint.sealed[d]] \in bindings

\* Where no document is deleted, all that is bound anywhere lasts, whoever died and
\* whichever rebuild raced.
BindingsLast ==
  /\ \A i \in DOMAIN chain : Binds(chain[i], Lasting)
  /\ pointer # None => Binds(pointer.head, Lasting)
  /\ \A d \in Doc : live[d] # None /\ live[d].published => live[d].version # 0
  /\ \A p \in Proc :
       /\ pc[p] \in {"append", "point"} => Binds(cp[p], Lasting)
       /\ \A d \in Doc : \A i \in DOMAIN before[p][d] : before[p][d][i] \in EntriesOf(d)
       /\ pc[p] # "rm"
       /\ pc[p] = "live" =>
            live[job[p].doc] # None /\ live[job[p].doc].version < job[p].version
       /\ pc[p] = "seal" /\ job[p].doc \in Doc => EntryOf(p) \in EntriesOf(job[p].doc)

SealInv == WriterInv /\ Recorded /\ SealsHold /\ CrossChainVerifies
================================================================================
