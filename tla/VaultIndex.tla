------------------------------ MODULE VaultIndex ------------------------------
(***************************************************************************)
(* The vault's index and the manifest that spares a write its crawl         *)
(* (CONTEXTNEST_MANIFEST): storage.ts marks a document pending before it    *)
(* changes its file, regenerateIndex re-reads the folders that are changed  *)
(* or pending into the manifest, drops them from the pending list and       *)
(* stamps context.yaml, and a seal takes its documents from the manifest.   *)
(*                                                                          *)
(* The unit is the folder: disk[f] is the edition of its documents, which   *)
(* every write of one of them moves on, and a manifest holds the edition it *)
(* read.  Several processes write under the vault lock; the rebuild that    *)
(* follows an encryption, a decryption or an init takes none.               *)
(***************************************************************************)
EXTENDS Naturals, Sequences

CONSTANTS
    Folder,      \* the vault's folders
    Proc,        \* the processes
    Gen,         \* the stamps context.yaml may carry (generated_at)
    None,        \* no process, no stamp, no manifest, no documents
    MaxEdition,  \* bound: the writes of one folder
    MaxHead,     \* bound: the checkpoints
    MaxPending,  \* bound: the length of the pending list
    Ops,         \* which operations are run
    Faults       \* which faults may strike: "crash", "edit", "older"

ASSUME BoundAssumption ==
    MaxEdition \in Nat /\ MaxHead \in Nat /\ MaxPending \in Nat
ASSUME OpsAssumption == Ops \subseteq {"draft", "publish", "skip", "index", "rebuild"}

Edition == 0 .. MaxEdition
Listing == [Folder -> Edition]
Manifest == [docs : Listing, head : 0 .. MaxHead, gen : Gen]

ASSUME NoneAssumption ==
    \A S \in {Proc, Gen, Folder, Listing, Manifest} : None \notin S

VARIABLES
    disk,        \* folder -> the edition on disk
    edited,      \* the folders edited outside the engine since an index read them
    manifest,    \* .context/manifest/manifest.json, or None
    pending,     \* .context/manifest/pending: the folders of its ids, in order
    context,     \* context.yaml's stamp, None when it is missing or torn
    head,        \* the number of the last checkpoint
    lock,        \* the process that holds the vault lock, or None
    pc,          \* process -> where its operation stands
    op,          \* process -> its operation
    at,          \* process -> the folder it writes to
    docs,        \* process -> the crawl, or the refreshed manifest, it holds
    num,         \* process -> the checkpoint number it knows
    covered,     \* process -> how much of the pending list its docs cover
    rest,        \* process -> what dropPending keeps of the list
    gen,         \* process -> the stamp it has generated
    raced        \* {"overlap"} once an unlocked rebuild ran beside another operation

vault == <<disk, edited, manifest, pending, context, head>>
local == <<op, at, docs, num, covered, rest, gen>>
vars == <<vault, lock, pc, local, raced>>

Steps == {"idle", "write", "seal", "look", "crawl", "manifest", "drop", "keep", "context",
          "restamp", "remanifest"}

TypeOK ==
    /\ disk \in Listing /\ edited \subseteq Folder
    /\ manifest \in Manifest \cup {None} /\ pending \in Seq(Folder)
    /\ context \in Gen \cup {None} /\ head \in 0 .. MaxHead
    /\ lock \in Proc \cup {None}
    /\ pc \in [Proc -> Steps]
    /\ op \in [Proc -> {"draft", "publish", "skip", "index", "rebuild", "none"}]
    /\ at \in [Proc -> Folder \cup {None}]
    /\ docs \in [Proc -> Listing \cup {None}] /\ num \in [Proc -> 0 .. MaxHead]
    /\ covered \in [Proc -> Nat] /\ rest \in [Proc -> Seq(Folder)]
    /\ gen \in [Proc -> Gen \cup {None}]
    /\ raced \subseteq {"overlap"}

Init ==
    /\ disk = [f \in Folder |-> 0] /\ edited = {}
    /\ manifest = None /\ pending = <<>> /\ context = None /\ head = 0
    /\ lock = None /\ pc = [p \in Proc |-> "idle"]
    /\ op = [p \in Proc |-> "none"] /\ at = [p \in Proc |-> None]
    /\ docs = [p \in Proc |-> None] /\ num = [p \in Proc |-> 0]
    /\ covered = [p \in Proc |-> 0] /\ rest = [p \in Proc |-> <<>>]
    /\ gen = [p \in Proc |-> None]
    /\ raced = {}

-----------------------------------------------------------------------------
(* The manifest and the pending list.                                      *)

Marked == {pending[i] : i \in DOMAIN pending}

\* Mutant: the stamp of context.yaml is not compared.
CurrentByHead(heads) == manifest # None /\ manifest.head \in heads

\* currentManifest: written against one of these checkpoints, and alongside the
\* context.yaml on disk.
Current(heads) ==
    manifest # None /\ manifest.head \in heads /\ manifest.gen = context

\* refreshManifest: the folders of the changed ids and of the pending ones.
Refreshed(f) ==
    [g \in Folder |-> IF g \in {f} \cup Marked THEN disk[g] ELSE manifest.docs[g]]

\* A generated_at nothing carries yet.
Fresh == {g \in Gen : /\ g # context
                      /\ manifest # None => g # manifest.gen
                      /\ \A p \in Proc : g # gen[p]}

\* The edited folders that a manifest of these documents still has wrong.
StillEdited(ds) == {f \in edited : ds[f] # disk[f]}

Goto(p, s) == pc' = [pc EXCEPT ![p] = s]

\* An operation ends, or dies: what it held in memory is gone.
Leave(p) ==
    /\ Goto(p, "idle")
    /\ lock' = IF lock = p THEN None ELSE lock
    /\ docs' = [docs EXCEPT ![p] = None] /\ gen' = [gen EXCEPT ![p] = None]
    /\ num' = [num EXCEPT ![p] = 0] /\ covered' = [covered EXCEPT ![p] = 0]
    /\ rest' = [rest EXCEPT ![p] = <<>>]
    /\ op' = [op EXCEPT ![p] = "none"] /\ at' = [at EXCEPT ![p] = None]

Meets(p) ==
    raced' = IF \E q \in Proc \ {p} : pc[q] # "idle" THEN {"overlap"} ELSE raced

-----------------------------------------------------------------------------
(* A write under the vault lock: of a draft or a deletion ("draft"), of a   *)
(* version that is sealed ("publish"), or of one that reaches no index      *)
(* update of its own, as an unpublished import ("skip").                    *)

\* Mutant: the document is marked only once it is written.
MarkNone(f) == UNCHANGED pending

\* markPending, before the file changes; with no manifest directory there is no
\* manifest to go stale.
Mark(f) == pending' = IF manifest = None THEN pending ELSE Append(pending, f)

Begin(p, f) ==
    /\ pc[p] = "idle" /\ lock = None
    /\ Len(pending) < MaxPending
    /\ \E o \in {"draft", "publish", "skip"} \cap Ops : op' = [op EXCEPT ![p] = o]
    /\ lock' = p /\ at' = [at EXCEPT ![p] = f]
    /\ Mark(f)
    /\ Goto(p, "write") /\ Meets(p)
    /\ UNCHANGED <<disk, edited, manifest, context, head, docs, num, covered, rest, gen>>

WriteFile(p) ==
    /\ pc[p] = "write" /\ disk[at[p]] < MaxEdition
    /\ disk' = [disk EXCEPT ![at[p]] = @ + 1]
    /\ CASE op[p] = "draft"   -> Goto(p, "look") /\ UNCHANGED <<lock, local>>
         [] op[p] = "publish" -> Goto(p, "seal") /\ UNCHANGED <<lock, local>>
         [] OTHER             -> Leave(p)
    /\ UNCHANGED <<edited, manifest, pending, context, head, raced>>

\* The documents createCheckpointFromVault seals: the manifest, refreshed in
\* memory, or a crawl that the index update after it is handed.
SealDocs(p) == IF Current({head}) THEN Refreshed(at[p]) ELSE disk

Seal(p) ==
    /\ pc[p] = "seal" /\ head < MaxHead
    /\ head' = head + 1
    /\ num' = [num EXCEPT ![p] = head + 1]
    /\ docs' = [docs EXCEPT ![p] = IF Current({head}) THEN None ELSE disk]
    /\ Goto(p, "look")
    /\ UNCHANGED <<disk, edited, manifest, pending, context, lock, op, at, covered, rest, gen, raced>>

-----------------------------------------------------------------------------
(* regenerateIndex.                                                        *)

\* The checkpoints the manifest may have been written against: a caller that
\* just sealed found it written against the one before.
Heads(p) == IF op[p] = "publish" THEN {num[p], num[p] - 1} ELSE {head}

\* A current manifest is refreshed; a crawl handed in covers no pending id; a
\* crawl of its own covers those it reads first.
Look(p) ==
    /\ pc[p] = "look"
    /\ num' = [num EXCEPT ![p] = IF op[p] = "publish" THEN @ ELSE head]
    /\ \/ /\ op[p] # "rebuild" /\ docs[p] = None /\ Current(Heads(p))
          /\ docs' = [docs EXCEPT ![p] = Refreshed(at[p])]
          /\ covered' = [covered EXCEPT ![p] = Len(pending)]
          /\ Goto(p, "manifest")
       \/ /\ docs[p] # None
          /\ Goto(p, "manifest")
          /\ UNCHANGED <<docs, covered>>
       \/ /\ docs[p] = None /\ (op[p] = "rebuild" \/ ~Current(Heads(p)))
          /\ covered' = [covered EXCEPT ![p] = Len(pending)]
          /\ Goto(p, "crawl")
          /\ UNCHANGED docs
    /\ UNCHANGED <<vault, lock, op, at, rest, gen, raced>>

Crawl(p) ==
    /\ pc[p] = "crawl"
    /\ docs' = [docs EXCEPT ![p] = disk]
    /\ Goto(p, "manifest")
    /\ UNCHANGED <<vault, lock, op, at, num, covered, rest, gen, raced>>

WriteManifest(p) ==
    /\ pc[p] = "manifest"
    /\ \E g \in Fresh :
         /\ gen' = [gen EXCEPT ![p] = g]
         /\ manifest' = [docs |-> docs[p], head |-> num[p], gen |-> g]
    /\ edited' = StillEdited(docs[p])
    /\ Goto(p, "drop")
    /\ UNCHANGED <<disk, pending, context, head, lock, op, at, docs, num, covered, rest, raced>>

\* dropPending, only once the manifest that covers them is on disk: it reads
\* the list and then writes what comes after the first `covered` of it.
ReadPending(p) ==
    /\ pc[p] = "drop"
    /\ IF covered[p] = 0 \/ pending = <<>>
       THEN Goto(p, "context") /\ UNCHANGED rest
       ELSE /\ rest' = [rest EXCEPT ![p] = SubSeq(pending, covered[p] + 1, Len(pending))]
            /\ Goto(p, "keep")
    /\ UNCHANGED <<vault, lock, op, at, docs, num, covered, gen, raced>>

DropPending(p) ==
    /\ pc[p] = "keep"
    /\ pending' = rest[p]
    /\ Goto(p, "context")
    /\ UNCHANGED <<disk, edited, manifest, context, head, lock, local, raced>>

\* writeContextYaml; the INDEX.md files that follow are read by nothing.
WriteContext(p) ==
    /\ pc[p] = "context"
    /\ context' = gen[p]
    /\ Leave(p)
    /\ UNCHANGED <<disk, edited, manifest, pending, head, raced>>

-----------------------------------------------------------------------------
(* `ctx index`, under the lock, writes context.yaml before the manifest and *)
(* leaves the pending list; the rebuild without the lock, after `ctx vault  *)
(* encrypt` or `decrypt` has swept the manifest away, or after `ctx init`.  *)

IndexCrawl(p) ==
    /\ "index" \in Ops
    /\ pc[p] = "idle" /\ lock = None
    /\ lock' = p /\ op' = [op EXCEPT ![p] = "index"]
    /\ docs' = [docs EXCEPT ![p] = disk] /\ num' = [num EXCEPT ![p] = head]
    /\ Goto(p, "restamp") /\ Meets(p)
    /\ UNCHANGED <<vault, at, covered, rest, gen>>

IndexContext(p) ==
    /\ pc[p] = "restamp"
    /\ \E g \in Fresh : gen' = [gen EXCEPT ![p] = g] /\ context' = g
    /\ Goto(p, "remanifest")
    /\ UNCHANGED <<disk, edited, manifest, pending, head, lock, op, at, docs, num, covered, rest, raced>>

IndexManifest(p) ==
    /\ pc[p] = "remanifest"
    /\ manifest' = [docs |-> docs[p], head |-> num[p], gen |-> gen[p]]
    /\ edited' = StillEdited(docs[p])
    /\ Leave(p)
    /\ UNCHANGED <<disk, pending, context, head, raced>>

Rebuild(p) ==
    /\ "rebuild" \in Ops
    /\ pc[p] = "idle" /\ lock = None
    /\ op' = [op EXCEPT ![p] = "rebuild"]
    /\ \/ manifest' = None /\ pending' = <<>>          \* sweepTempFiles
       \/ UNCHANGED <<manifest, pending>>
    /\ Goto(p, "look") /\ Meets(p)
    /\ UNCHANGED <<disk, edited, context, head, lock, at, docs, num, covered, rest, gen>>

-----------------------------------------------------------------------------
(* Faults.                                                                 *)

\* A process dies; writeContextYaml is not atomic.
Crash(p) ==
    /\ "crash" \in Faults /\ pc[p] # "idle"
    /\ context' \in {context} \cup (IF pc[p] \in {"context", "restamp"} THEN {None} ELSE {})
    /\ Leave(p)
    /\ UNCHANGED <<disk, edited, manifest, pending, head, raced>>

\* A hand edit, a checkout: nothing is marked.
Edit(f) ==
    /\ "edit" \in Faults /\ disk[f] < MaxEdition
    /\ disk' = [disk EXCEPT ![f] = @ + 1] /\ edited' = edited \cup {f}
    /\ UNCHANGED <<manifest, pending, context, head, lock, pc, local, raced>>

\* An engine that does not keep the manifest: it writes, may seal, and stamps
\* context.yaml.
Older(f) ==
    /\ "older" \in Faults /\ lock = None /\ disk[f] < MaxEdition
    /\ disk' = [disk EXCEPT ![f] = @ + 1]
    /\ head' \in {head, head + 1} \cap 0 .. MaxHead
    /\ \E g \in Fresh : context' = g
    /\ raced' = IF \E q \in Proc : pc[q] # "idle" THEN {"overlap"} ELSE raced
    /\ UNCHANGED <<edited, manifest, pending, lock, pc, local>>

Next ==
    \/ \E p \in Proc :
         \/ \E f \in Folder : Begin(p, f)
         \/ WriteFile(p) \/ Seal(p) \/ Look(p) \/ Crawl(p) \/ WriteManifest(p)
         \/ ReadPending(p) \/ DropPending(p) \/ WriteContext(p)
         \/ IndexCrawl(p) \/ IndexContext(p) \/ IndexManifest(p) \/ Rebuild(p)
         \/ Crash(p)
    \/ \E f \in Folder : Edit(f) \/ Older(f)

Spec == Init /\ [][Next]_vars

-----------------------------------------------------------------------------
(* Properties.                                                             *)

\* Whatever a process has done when it dies, a manifest that passes for current
\* describes the vault: each folder is as the manifest has it, or waits in the
\* pending list for the next update to re-read it, or was edited outside the
\* engine (what `verify` reports as stale_index).  A rebuild that takes no lock
\* voids this when another operation runs beside it.
CurrentDescribesDisk ==
    (raced = {} /\ Current({head})) =>
        \A f \in Folder \ edited : manifest.docs[f] = disk[f] \/ f \in Marked

\* A checkpoint seals the documents as they are on disk, though it reads most
\* of them from the manifest.
SealsTheDisk ==
    [][\A p \in Proc : (Seal(p) /\ raced = {}) =>
          \A f \in Folder \ edited : SealDocs(p)[f] = disk[f]]_vars

-----------------------------------------------------------------------------
(* The strengthening from which both follow.                               *)

\* These documents are those on disk, but for edits outside the engine.
Sound(ds) == \A f \in Folder \ edited : ds[f] = disk[f]

\* The manifest is, but for the pending folders.
Describes == \A f \in Folder \ edited : manifest.docs[f] = disk[f] \/ f \in Marked

\* No rebuild has met another operation: the lock keeps the others apart.
Alone == \A p, q \in Proc : pc[p] # "idle" /\ pc[q] # "idle" => p = q

WriteInv(p) ==
    /\ pc[p] \notin {"idle"} /\ op[p] # "rebuild" => lock = p
    /\ pc[p] = "idle" => lock # p
    /\ pc[p] \in {"idle", "write", "seal", "crawl"} => docs[p] = None
    /\ pc[p] = "seal" => op[p] = "publish"
    /\ (pc[p] \in {"write", "seal"} \/ (pc[p] = "look" /\ op[p] # "rebuild")) =>
         /\ at[p] \in Folder
         /\ manifest # None => at[p] \in Marked
    /\ (pc[p] = "look" /\ op[p] = "publish") =>
         /\ num[p] = head
         /\ docs[p] = None =>
              /\ manifest # None /\ manifest.head + 1 = head /\ manifest.gen = context
              /\ Describes

UpdateInv(p) ==
    /\ docs[p] # None => Sound(docs[p])
    /\ pc[p] \in {"crawl", "manifest", "restamp", "remanifest"} => num[p] = head
    /\ pc[p] = "remanifest" =>
         /\ gen[p] = context /\ context # None
         /\ manifest # None => manifest.gen # context
    /\ pc[p] \in {"drop", "keep", "context"} =>
         manifest # None /\ Sound(manifest.docs) /\ manifest.gen = gen[p]

\* An operation about to write a manifest has its documents, and its stamp, and
\* no checkpoint number is ahead of the chain's.
IndexTyped ==
    /\ manifest # None => manifest.head <= head
    /\ \A p \in Proc :
        /\ num[p] <= head
        /\ pc[p] \in {"manifest", "restamp", "remanifest"} => docs[p] # None
        /\ pc[p] \in {"drop", "keep", "context", "remanifest"} => gen[p] # None

\* The inductive invariant.
IndexInv ==
    /\ TypeOK /\ IndexTyped
    /\ raced = {} => /\ Alone
                     /\ \A p \in Proc : WriteInv(p) /\ UpdateInv(p)
                     /\ CurrentDescribesDisk
=============================================================================
