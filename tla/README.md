# A TLA+ model of ContextNest's vault

ContextNest keeps a *vault*: a directory of Markdown documents, each with a
version history of its own, and one checkpoint chain that binds the versions of
all documents together. There is no server and no database. Every guarantee, "no
version is lost", "verify finds nothing", "two writers do not interleave", rests
on the order of ordinary file-system calls made by processes that may die between
any two of them. That order is what these modules model.

Paths below are relative to `src/packages/engine/src/` unless they say otherwise.

1. [Inventory of the system](#inventory-of-the-system)
2. [The modules](#the-modules)
3. [The runs](#the-runs)
4. [Bounds and fairness](#bounds-and-fairness)
5. [The proofs](#the-proofs)
6. [Where the code and its comments differ](#where-the-code-and-its-comments-differ)
7. [What is not modelled](#what-is-not-modelled)
8. [Plan](#plan)
9. [Running](#running)

## Inventory of the system

### Vault write lock (`vault-lock.ts`)

*State*: the directory `.versions/.lock`, its mtime, and the `owner`
file in it; per caller a token, a deadline and a heartbeat timer.
*Operations*: acquire (`mkdir`, or judge stale and steal, or back off, or time
out), heartbeat, release. *Used by* every writing operation of the CLI, the API
and the MCP server.
*Hard*: the staleness decision and the removal are two calls; so are the read of
the owner token and the release; a live holder must never look dead, a dead one
must never block a writer past its deadline. *Correct when*: one holder at a time;
a running holder is never judged stale; waiting ends; a timeout means contention.

### Version history (`versioning.ts`, `reconstruct.ts`, `integrity.ts`)

*State*: per document `history.yaml` (entries with version, content hash, chain
hash, keyframe flag, tombstone) and the sealed artifacts `v{N}.md` (keyframe) and
`v{N}.diff`. *Operations*: `nextVersion`, `createVersion`, `historyOrRepair`,
`reconstructVersion`, `verifyDocumentChain`, `repairVersions`, `forgetVersions`.
*Hard*: artifact, entry and live document are separate writes; a torn history is
quarantined and numbering must go on; gaps in the numbering; a history read once
and reused. *Correct when*: version numbers increase, every recorded version
verifies and rebuilds to the text it was recorded for, a number is never reused.

### Publish pipeline (`publish.ts`) and approval (`approval.ts`)

*State*: local variables over the two components above. *Operations*:
`publishDocument`, `publishDocuments` (a concurrent batch, one seal),
`sealWrites` (several writes, one deferred seal), `commitNewVersion` behind
approve, rollback and czar edit. *Interaction*: publish writes the live file
first and its entry after; commit writes the entry first and the live file last,
and seals no checkpoint. *Hard*: a crash in either order leaves the live file and
the history disagreeing, and the next operation must cope. In a batch the judging
turns wait on one another inside a bounded pool.

### Checkpoint chain (`checkpoint.ts`, with `storage.ts` 3240-3420)

*State*: `context_history.yaml` (the chain), a pointer file caching its newest
checkpoint, and in each process's memory `touchedHistories`, the documents whose
history a seal must read again. *Operations*: seal from the vault, rebuild,
verify, drift scan. *Interaction*: called at the end of a publish under the vault
lock; `ctx checkpoint rebuild` runs under no lock. *Hard*: the head is read from a
cache a dead writer may have left behind; hashes are carried from checkpoint to
checkpoint without reading histories; a rebuild replaces the chain under the
writers. *Correct when*: the chain only grows and links; each checkpoint binds
recorded versions; verify agrees with the histories; rebuild repairs.

### Operations on nodes (`api/core-executors.ts`, `review.ts`, `suggestions.ts`, `lifecycle.ts`, `forget.ts`, `tombstones.ts`, `chain-log.ts`)

*State*: the live document; its `.versions` directory with history, artifacts and
staged suggestions (a patch and a meta file each); `chain_events.yaml`, read and
rewritten in place, which holds the forget and delete records that decide what may
ever be written again. *Operations*: create, update (held for review or not),
publish, approve, reject, archive, unarchive, restore, move, delete, forget, and
the replay of a forget made elsewhere. *Interaction*: all under the vault lock,
beside an author's editor and an embedding run that do not take it. *Hard*: every
operation is three to eight file-system calls over state that the next operation
judges; what is staged, archived or embedded outlives the text it was made from.
*Correct when*: what is erased is gone and stays gone, what is deleted is on
record, a hold is applied at most once, a move loses no history.

### Encryption (`encryption/`) and its clients (`storage.ts`)

*State*: `.context/encryption.yaml`, the key store, the seal of every sensitive
file and of every note in the histories, plaintext temporary files. *Operations*:
`encryptVault`, `decryptVault`, both resumable; the handle every `NestStorage`
caches for a second. *Hard*: the config, the key and the content change in separate
calls; decryption holds the opened notes in memory while the files go. *Correct
when*: whatever dies, everything sealed opens with a key that is kept, nothing is
plaintext when encryption reports success, no note is lost.

### Manifest and index (`manifest.ts`, `index-generator.ts`, `storage.ts` 2280-2560)

*State*: `manifest.json`, the pending list, `context.yaml` with its stamp, and the
number of the last checkpoint, which together decide whether the manifest passes
for current. *Operations*: mark pending, refresh, write, drop, stamp; a seal that
takes its documents from the manifest; `ctx index`; the rebuild after encryption
and init, unlocked. *Hard*: the pending list is appended to in one call and rewritten
in two; stamps and numbers are compared instead of content. *Correct when*: a
manifest that passes for current describes the vault, and a checkpoint seals what
is on disk.

### Graph traversal (`graph-traverser.ts`)

*State*: a queue and a visited set per query over a read-only index. *Hard*: edges
cost nothing, one hop or an author's priority, hubs are free in one direction, and a
node is taken at the first price it is reached for. *Correct when*: nothing beyond
the hops is returned, nothing free or adjacent is missed.

### The other components

| component | what it is | why it has no module |
|---|---|---|
| operation catalog, CLI, MCP server | dispatch and argument handling under the vault lock; one process per command, or one for ever | what they do to the vault is modelled where it happens; which in-memory state survives is `Exit` in `Checkpoint`, `Lapse` in `VaultCrypt` |
| structure rules | a pure judgement of one document | a value (`conforms`) in `PublishBatch`, a choice in `NodeOps` |
| semantic search | the embedding run is in `NodeOps`; ranking is arithmetic on vectors | |
| selectors, parsers, importers, hygiene | text to values | no state shared between steps |
| registry and remotes | a list of vaults; an HTTP client | one whole-file rewrite under a lock of the same kind |
| agent plugins | session hooks around the command line | scripts outside the packages |

### Behaviours that are hard, in one list

Interleavings of several processes at file-system-call granularity; crashes
between and inside calls (torn appends); restarts that lose what was in memory;
stealing, timeouts and late timers; authors who edit files by hand at any moment;
stale caches (pointer file, carried hashes, manifest, crypto handles, embeddings read
before a forget); unlocked rebuilds. `PROJECT.json` lists the 40 places where they
bite, each with the properties that would catch it, or why none does.

## The modules

```
VaultLock                         VersionLedger  (values, pure functions)
  |                                 |
  +- MCVaultLock (TLC)              DocHistory   (one document, call by call)
  +- VaultLock_proofs               +- MCDocHistory (TLC)
                                    +- DocHistory_proofs

CheckpointLog (abstract)  <- refined by -  Checkpoint
                                           +- MCCheckpoint (TLC)
                                           +- Checkpoint_proofs

JudgingOrder (abstract)   <- refined by -  PublishBatch
                                           +- MCPublishBatch (TLC)
                                           +- PublishBatch_proofs

NodeOps           VaultCrypt          VaultIndex          GraphTraversal
+- MCNodeOps      +- MCVaultCrypt     +- MCVaultIndex     +- MCGraphTraversal
+- NodeOps_proofs +- VaultCrypt_proofs +- VaultIndex_proofs +- GraphTraversal_proofs
```

The groups meet at a few interfaces. `VaultLock` justifies that the writing
operations of all other modules run one at a time. `Checkpoint` and `NodeOps` see
of a document's history what `DocHistory` keeps: entries that are never renumbered,
and a hash or a body per entry. `PublishBatch` shows that no two of the publishes it
runs at once are of one document, which is what `DocHistory` assumes of its
operations. The seal of `VaultIndex` is the one of `Checkpoint` with its crawl
replaced by the manifest: `SealsTheDisk` says the replacement makes no difference.

### VaultLock

`withVaultLock`, one action per file-system call. `lock` is the directory (`by`,
who made it; `owner`, what its owner file says), `age` is how old its mtime is,
`pc[p]` the place in the function, `timer[p]` the time since the last heartbeat or
due call, `waited[p]` the time towards the deadline. `struck` records what a fault has
done to the lock (left behind by its holder, or not touched in time), `slept` which
waiters were suspended while they waited.

| action | code |
|---|---|
| `Mkdir`, `Refused` | `mkdir` succeeds, or `EEXIST` |
| `JudgeStale`, `JudgeAlive` | the `stat` of `lockAge`, beyond the window or within it |
| `Steal` | `rm` *of the path* |
| `TimeOut`, `Retry` | the deadline, tested after the `stat`, in a step of its own: `VaultLockTimeoutError`, or the backoff |
| `Mark` | `writeFile(owner)`, which may fail and is then ignored |
| `Beat` | `utimes` on the path, whichever directory that is now; it may fail, unheard |
| `Finish`, `ReadOwner`, `Release` | end of `fn`; read the token, which may fail; `rm`, which may fail, unheard |
| `Crash`, `Suspend`, `Resume` | the process (external) |
| `Tick` | time, which never passes a call that a running holder owes by `Lag` |

`Beat` and `Steal` act on the path rather than on a remembered directory, because
the code does. Ages saturate one above the deadline, the longest bound they are
compared with, so the state space is finite without a constraint.

### VersionLedger and DocHistory

`VersionLedger` holds the values (`Text`, `Diff`, `Entry`) and the pure functions:
`NextVersion`, `Reconstruct` (nearest live keyframe at or below the target, then a
fold that replays the entries after it, up to the target), `StoredAsKeyframe`, `NewEntry`,
`VerifyDocumentChain`. A text is a frontmatter version and a body; a diff is the
pair of texts it was made from, and applies to the first one only; a hash is the
value it was taken of, so that equality of hashes is equality of inputs and
nothing is assumed of the hash function but that.

`DocHistory` runs `writePublishedVersion` and `commitNewVersion` call by call.
`doc`, `ledger`, `entries`, `md`, `diff` are on disk; `op`, `pc`, `known`, `text`,
`keyframe` are the local variables of the one operation the lock admits, and a
crash loses them. `written` remembers, for the properties only, which text a
number was last recorded for; `refused` that an exclusive create failed. The hint an
approval gives to the numbering is any text with any frontmatter version, which
includes what `approval.ts:441` passes.

| action | code |
|---|---|
| `PublishRead` | `historyOrRepair`: read, or quarantine a history that does not parse |
| `SeedArtifact`, `SeedAppend` | the seed of a document that has a version but no history |
| `PublishLive`, `PublishArtifact`, `PublishAppend` | new number and `writeDocument`; `v{N}`; the entry |
| `Approve`, `Rollback`, `CzarDirectEdit` | the three callers of `commitNewVersion`, each with its own guard |
| `CommitArtifact`, `CommitAppend`, `CommitLive` | `v{N}`; the entry; the live file last |
| `HandEdit` | the author, at any time, with any frontmatter version |
| `Crash`, `TearHistory` | death between two calls; death inside the append |

### CheckpointLog and Checkpoint

`CheckpointLog` is what the chain promises a reader: a log that only grows, each
element numbered after and hashed over the one before it; a chain that no longer
parses is set aside whole and a new one starts at 1.

`Checkpoint` is the code: several processes, each with its own `touched` marks;
`file`, `chain` and `pointer` on disk.

| action | code |
|---|---|
| `PublishLive`, `PublishEntry` | the two writes of a publish that a seal can see |
| `PublishUnsealed`, `SealWrites` | a publish under `deferSeal`, and the checkpoint its host owes for it |
| `CommitEntry`, `CommitLive` | a commit: entry, then live file, no seal |
| `DeleteFile`, `DeleteHistory`, `Create` | `deleteDocument`, and a new draft of the same id |
| `SealRead` | `createCheckpointFromVault`: head, crawl, histories, snapshot |
| `SealAppend` | `appendCheckpoint`, or a new file when there was no head |
| `Point` | `writeLatestCheckpointPointer`, then `clearTouchedHistories` and the lock's release |
| `RebuildRead`, `RebuildWrite`, `RebuildPoint`, `RebuildCheck` | `rebuildCheckpointHistory`, unlocked, with its bounded retries |
| `Crash`, `Exit`, `TearChain`, `HandEdit`, `Garble` | faults and authors |

`ChainHead` is `readCheckpointChainState`: the pointer when its stamp matches the
file, the file's tail otherwise. `Carries` is the three-part test under which a
hash is copied from the head. `DeriveCheckpointHistory` is the rebuild's pure
part. `ChainRefinesLog` is `CheckpointLog!Spec` with `log <- chain` and
`readable <- file # "corrupt"`.

Abstractions of this module: the seed entry of a publish is left to `DocHistory`
(it never carries the version a seal binds); `SealRead` is one step, since it runs
under the lock and nobody but an author or a rebuild can move under it; a history
is always readable when it is there; a chain hash is the number of the write that
made it, which also serves as its date; a torn append makes the file unparseable,
since the reader's checksum pattern rejects a truncated hash, and a tear of zero
bytes is `Crash`. A tear that ends before the new block's `  - checkpoint:` marker is
left out: the tail reader (`storage.ts:3315-3330`) takes no notice of it and the next
seal appends behind it. The `rm` of a deleted document's history folder, whose failure
is swallowed (`storage.ts:2233-2237`), always succeeds; a failing one leaves what a death
before it does. A rebuild's branch for forgotten stubs (`checkpoint.ts:647-650`) and its
filter on `published_at` (602) are left out. The manifest is off, as by default, so a
seal crawls and hears which documents cannot be read; a host calls
`sealWrites` when its process still has marks of a document with a history, so that a
second seal of the same batch is left out.

### JudgingOrder and PublishBatch

`JudgingOrder` is what the judging turns of a bulk publish promise: one document
after the other, in the order asked for, gets its verdict, and what its replay
costs comes off the shared budget; one that does not fit is cut short, spends the
budget, and so does every later one that needs a replay.

`PublishBatch` is `publishDocuments` over `mapInBatches`: `next`, `idle`, `failed`
are the pool's, `stage[i]` the place of item `i` in `publishOne`, `handed` the
resolved turns, `left` and `spent` the replay budget, `charged[i]` what item `i` has
taken from it so far.

| action | code |
|---|---|
| `Start`, `Settle`, `Reject` | the workers of `mapInBatches`; a callback that throws sets `failed` and rejects the call while the others go on |
| `Read` | the part of `publishOne` before the turn; it fails for a document that is rejected, forgotten or does not parse |
| `TakeTurn` | `await turn?.after` |
| `Charge`, `CutShort` | `charge`, within the replay of one document; the charge that overdraws |
| `Judge` | `assertStructurePublish` returns or throws; `turn?.done()` |
| `Write` | history, document and entry, or one of the writes throws |
| `HandOn` | `turn.after.then(turn.done)` of a document that failed before its turn |
| `Finish` | every item settled: the checkpoint, and the call returns |

`JudgedInOrder` is `JudgingOrder!Spec` with `left <- LeftBefore`, what the budget
held before the replay under way. A document is abstracted to its `Nature`: whether
it can be read, how much its replay costs (0 when it passes the full check or has
no history), what the rules say. Rules are enforced and a budget is shared in this
model; otherwise `turns` is null and nothing waits. Ids that are vetted out before
the batch never enter it. What a `Write` does in detail is `DocHistory`, what the
checkpoint after `Finish` binds is `Checkpoint`.

### NodeOps

`live`, `entries`, `files`, `holds` are a path's file, history, artifacts and staged
suggestions; `log` is `chain_events.yaml` and `torn` that it no longer parses;
`vectors` is the embedding index. `job` holds the local variables of the one
operation the lock admits, `embed` those of the embedding run beside it. `applied`
and `struck` are history variables: which versions a hold became, and whether a
crash has cut an operation short.

An operation is its first step, which checks the guards and makes the first write,
and then the shared steps `job.pc` leads through:

| action | code |
|---|---|
| `Create`, `Update`, `HoldUpdate`, `Publish` | `context_create`, `context_update` (published, drafted or held), `context_publish` |
| `ApproveHold`, `RejectHolds` | `approveReview`, `rejectReview`: the newest hold whose base is the head |
| `Archive`, `Unarchive`, `Restore`, `Move` | `lifecycle.ts` |
| `Delete`, `Forget`, `Import` | `deleteDocumentWithTombstone`, `forgetDocument`, `applyImportedTombstones` |
| `PublishRefused`, `PublishLive`, `SealArtifact`, `AppendEntry` | `writePublishedVersion` |
| `StageMeta`, `ShelvePatch`, `ShelveMeta`, `ShelveFails`, `ShelveNothing` | the two files of a hold, written and renamed one at a time |
| `Tombstone`, `EraseArtifact`, `Discard`, `Stub`, `Record`, `Unlink`, `RemoveHistory`, `Purge`, `Carry` | the calls under a forget, a delete and a move |
| `EmbedRead`, `EmbedSave` | `embed`: reads the vault unlocked, saves under the lock what `retainCurrent` keeps |
| `HandEdit`, `Crash`, `TearLog` | the author; death between calls; death inside the event log's rewrite |

Abstractions: a text is its body; a version is the moment it was recorded, and what
its number is and how it is stored is `DocHistory`'s; the seed entry, the checkpoint
and the index after an operation are left to their modules; the removal of a
directory is one step, and succeeds (`storage.ts:2233-2237` swallows a failure, which
leaves what a death before it does); pdf sidecars and structure rules are left out, a rule that
refuses a publish being `PublishRefused`; nobody edits a forgotten stub by hand.
The embedding run reads the vault in one step. Updates of the status alone, and
`publish: false` on a published document (`core-executors.ts:885-968`), are left out;
approval's demand that a document without holds be pending review is not a guard, so
that `Publish` admits more than `approveReview` does. An import is a batch of one record
matched by path, without `content_hash` and without records scoped to versions; a longer
batch is a sequence of these. The undo of a move (`deleteDocument` of the copy)
succeeds; when it fails in the code, what is left is what a death before it leaves.

### VaultCrypt

A file, or a note of a history, is the id of the key it is sealed under. `config`
and `keys` are `.context/encryption.yaml` and the key store; `op`, `pc`, `key`,
`todo` and `memory` the local variables of the migration that holds the lock;
`handle` and `fresh` each client's cached handle; `orphan` what has a plaintext
temporary copy beside it; `torn` the documents whose `history.yaml` does not parse,
though its notes are in it. The others are history: `stale`, what was sealed by a
handle the config no longer named; `dropped`, the keys whose config was deleted by hand;
`failed`, what did not parse or could not be removed since the migration under way
began; `missed`, the documents whose history failed in a decryption that went on to
remove the config.

| action | code |
|---|---|
| `Start`, `Unlock`, `Create`, `StoreKey`, `WriteConfig` | the opening of `encryptVault`: resume under the config's key, or create one, KEK to the store before the config |
| `SealFile`, `AllSealed`, `ResealHistory`, `Encrypted` | its walk over files, then over those histories that parse (`Histories`); one that stops parsing meanwhile is an error |
| `ReadHistories`, `OpenFile`, `AllOpened`, `WriteHistory`, `HistoriesWritten`, `RemoveConfig`, `DeleteKey` | `decryptVault`, config last, key after it |
| `Check`, `Lapse`, `Write`, `AppendNote` | `getVaultCrypto` with its one-second cache, and what a client writes with it |
| `Quarantine` | `historyOrRepair`: a publish sets a history that does not parse aside |
| `Crash`, `Drop`, `Restore` | death; the config deleted by hand, and put back (external) |
| `Garble`, `Mend` | a history stops parsing, at any time, and is mended (external) |

`Start` sweeps the temporary copies of an interrupted run; any of them may stay, since
the code swallows a failing `unlink` (`migrate.ts:66`).

Abstractions: ciphers, passphrases and the recovery key are a library's, and a vault is
unlocked by its key store alone, not by a key from the environment or the recovery
passphrase (`vault-crypto.ts:323-342`); a quarantined history is a file nobody reads, so
what its notes are sealed under is not followed; write
errors, files dropped in by an editor and rotation of the passphrase are left out; a
config is deleted only while no migration runs, and only its own copy is put back.

### VaultIndex

`disk[f]` is the edition of a folder's documents; `manifest` holds the editions it
read, the checkpoint and the stamp it was written against; `pending` is the list of
marks; `context` the stamp of `context.yaml`; `head` the last checkpoint's number.

| action | code |
|---|---|
| `Begin`, `WriteFile`, `Seal` | `markPending`, the write, the checkpoint that may take its documents from the manifest |
| `Look`, `Crawl`, `WriteManifest`, `ReadPending`, `DropPending`, `WriteContext` | `regenerateIndex`, incremental or whole, in the order of its writes |
| `IndexCrawl`, `IndexContext`, `IndexManifest` | `ctx index`, which writes `context.yaml` first |
| `Rebuild` | the index after `ctx vault encrypt`, `decrypt` and `ctx init`, under no lock |
| `Crash`, `Edit`, `Older` | death, which may tear `context.yaml`; a change outside the engine; a release without a manifest |

Abstractions: the text of `context.yaml` and `INDEX.md`, a change of layout, a
host's own manifest, the status canonicalization of `ctx index`, and a torn rewrite
of the pending list are left out, as are a torn append to the list, which joins two ids
(`storage.ts:2499`), a read of it that fails and counts as empty (2508), and documents
that cannot be read and are dropped from the manifest (2447-2453). `Older` writes and
stamps in one step; one that dies in between is an `Edit`. `raced` records that an unlocked rebuild ran
beside another operation, from which moment nothing is promised.

### GraphTraversal

`traverse`: `Start` puts the seeds in the queue, `Leave` takes its front,
`FollowOut` and `FollowIn` look at one edge each and `Reach` what it can pay for,
`Searched`, `Retry` and `Return` are the adaptive loop. The initial states are all
graphs, seeds and options within the bounds, and every choice of a whole priority, or of
none, for each document that has outgoing edges (`index-generator.ts:105-117`). A
priority below zero or with a fraction, which the code does not refuse, is left out. The price of a step is
restated for the properties in `StepCost`, which is the table of
`CONTEXT_NEST_SPEC.md` 5.1.1, and distances by `LowerBound`, a definition without
recursion.

## The runs

The passing runs:

| run | instance | shows |
|---|---|---|
| `lock_faults` | 2 processes; crashes, suspension; owner file, touches and releases may fail | `LiveHolderNeverStale`, `RunningExclusion`; `WaitEnds`, `TimeOutMeansContention` under fairness |
| `history_crash` | crashes and torn histories; 5 versions, interval 3 | `LedgerInv`, `VersionsIncrease`, `HistoryVerifies`, `ReadBack`, `NumberNeverReused` |
| `ckpt_seal` | 2 writers; crash, tear, exit, hand edits, unreadable files | `ChainRefinesLog`, `ChainInv` |
| `ckpt_main` | 1 writer; publishes sealed or deferred, commits, deletes, recreations, rebuilds | `CrossChainVerifies`, `SealsRecorded`, `SealsItsPublish`, `RebuildHeals` |
| `batch_turns` | 3 ids, 2 workers, budget 2; failing reads, writes, callbacks | `JudgedInOrder`, `OneWriterPerDocument`, `BatchReturns`, `EverySettles`, `TurnInv` |
| `nodes_review` | 1 path, 2 bodies, 3 versions, 2 holds, an embedding run; crashes, torn log | `HoldAppliedOnce`, `NoErasedVector`, `ErasureOnRecord` |
| `nodes_erase` | 2 paths, 2 bodies, 2 versions; crashes, torn log, hand edits | `NoSilentGap`, `ForgottenIsErased`, `NoResurrection`, `DeletionAccounted`, `MoveKeepsHistory`, `NodeInv` |
| `crypt_migrate` | 2 files, 1 history, 2 keys, 1 client; crashes, a deleted config, histories that do not parse, copies that stay | `FilesOpen`, `NotesOpen`, `EncryptSealsAll`, `NotesKept` |
| `index_manifest` | 2 folders; crashes, edits, an older release | `CurrentDescribesDisk`, `SealsTheDisk` |
| `graph_walk` | every graph of 4 nodes and 3 edges, each node with priority 2 or none, hops 0 and 1, adaptive up to 2 | `ReachedWithinHops`, `FreeStepsTaken`, `NearReached` |

And two that disagree with a comment of the code, described
[below](#where-the-code-and-its-comments-differ): `lock_steal_race` and
`history_refused`.

What the properties say:

* `RunningExclusion`: until a holder dies or is suspended, a touch fails or the `rm` of a
  release does, two callers are never inside, also when an owner file could not be
  written or read and while waiters sleep. After that it asks nothing.
  `LiveHolderNeverStale`: a running holder is never judged stale, however long it works,
  unless a holder slept or failed to touch its lock.
* `TimeOutMeansContention`: a waiter that kept running throws `VaultLockTimeoutError`
  only if the lock, as it is by then, was touched or released since it came. The `stat`
  that spares the lock and the test of the deadline are two steps, and others move in
  between; it holds because the deadline exceeds the staleness window by at least the
  lag of one call (`Stale + Lag <= Acquire`). `WaitEnds`: every wait ends.
* `ReadBack` relates the reader to every writer: through keyframes, diffs, gaps
  left by crashes and restarted chains, each recorded version rebuilds to the text
  it was recorded for. It fails as soon as a diff is stored against a version that
  cannot be rebuilt.
* `HistoryVerifies` says a reader who runs `ctx verify` at any instant, in the
  middle of a publish or after a death, finds nothing, as long as the history parses.
  A torn history has no entries here, and of it the invariant says nothing.
* `VersionsIncrease` keeps two chains of one document from being grafted together
  by a frontmatter that lags or leads its history.
* `NumberNeverReused` is an action property over the whole life of a document, torn and
  restarted histories included, and speaks of the sealed artifacts on disk: none is
  written over, and none stands under a number that another text was sealed under. The
  one exception is what the code does after a history was set aside: a seed may write
  `v{N}.md` where the old chain left `v{N}.diff`.
* `ChainRefinesLog` covers the pointer cache, quarantine and every death of a
  writer in one statement; `CrossChainVerifies` covers the carried hashes.
* `SealsRecorded` and `SealsItsPublish` speak of the checkpoint being built: each
  version it binds is recorded under that hash, and it holds the entry its own
  publish made, however many versions commits and deferred publishes left unsealed.
* `RebuildHeals`: after a rebuild nobody raced, verify finds nothing, the next
  seal links onto the rebuilt tail, and the head binds the newest version of every
  document with a history.
* `JudgedInOrder`: reads that finish out of order, two workers and failures before,
  in or after a turn never change which documents an over-budget call refuses.
* `OneWriterPerDocument`: an id given twice is not published by two workers, which
  would race its `history.yaml`.
* `BatchReturns`, `EverySettles`: a document waits for its turn while it occupies
  a worker, for documents some of which fail before theirs. They start in order, so
  whoever is waited for has a worker, and whoever fails hands on. `EverySettles`
  asks the same of a call that was already rejected.
* `HoldAppliedOnce`: an approval that died after its publish, and a document that
  has returned to the very text a hold was made on, do not have the hold applied
  again: staleness is a matter of the head's identity, not of its text.
* `ForgottenIsErased`, `NoSilentGap`: at every instant of a forget, an entry that is
  not tombstoned has its content, and once the stub stands nothing of what was
  there is left. `NoResurrection`: no later operation, of whatever was staged,
  moved or edited before, brings content back to the path or the body to any path.
* `ErasureOnRecord`, `NoErasedVector`: what a finished forget leaves behind: a record
  of every body it erased, and no vector, though an embedding run that had read the
  text was still computing.
* `DeletionAccounted`, `MoveKeepsHistory`: no live file vanishes without a record of
  it, also beside a torn event log, and a move deletes its source only when the
  history has left it.
* `FilesOpen`, `NotesOpen`: whatever a migration has done when it dies, the vault can
  be unlocked or is still plaintext. `EncryptSealsAll` is asked at the moment
  `encryptVault` returns, after any number of interrupted attempts in either
  direction; `NotesKept` of every step. Their exceptions are what the code does not do:
  a note is not promised to open if its history did not parse while a vault was
  decrypted (`missed`), nor to be sealed if it did not parse while the vault was
  encrypted, nor is a temporary copy promised to be gone if it could not be removed
  (`failed`). `NotesKept` compares the number of entries.
* `CurrentDescribesDisk`, `SealsTheDisk`: the manifest's stamps are compared, its
  content never is; that a manifest that passes for current describes the disk is
  what every reader relies on.
* `ReachedWithinHops`: nothing is returned that every walk from a seed takes more
  hops to than the query has. `FreeStepsTaken`, `NearReached`: a breadth-first search that is not by price loses
  no node that is free or within the hops where all edges cost at most one.

## Bounds and fairness

**VaultLock.** Heartbeat 1, stale 4, acquire 5, lag 1 keep the order of the code's
10 s, 30 s and 60 s: several heartbeats fit in a staleness window, and the window and one
lag fit in the deadline. The proof removes the particular numbers
(`TimingAssumption`) and the number of processes. Liveness uses two, without
symmetry; the race between stealers needs a dead holder and two waiters.

**DocHistory.** Bodies matter in two ways, equal or not and small enough for a
diff or not, so one short and one long body suffice; two texts with equal body
differ by version. Five versions with interval 3 give keyframes at 1 and 4 and
diffs at 2, 3 and 5, with room for crash gaps on both sides of a keyframe. With
interval 2, versions alternate.

**Checkpoint.** Two documents: one that is written and one that is merely carried.
Two processes: one whose marks are stale. Three or four writes are the length of
the shortest known bad histories (write, delete, write again, and one more publish
to seal them) plus one. `MaxAttempts = 2` stands for `MAX_REBUILD_ATTEMPTS`;
with the one process of `ckpt_main` nothing lands while a rebuild derives, so that its
retry is not reached in a run, and only the theorems with rebuilds under several
processes (`Dating`, `Types`, `CrossedThroughout`) cover it.

**NodeOps.** One path suffices where the subject is a hold or a vector, two where a
move or a body that comes back elsewhere is; two bodies tell a text from its
replacement. Two holds are one approved and one superseded; three versions are the
one a hold was made on, the one it becomes and a return to the first. `restore` is
checked in `nodes_review` only: beside a delete that died before its record, a stub
restored over a recreated document would contradict `ForgottenIsErased`.
**VaultCrypt.** Two files let a migration die with one done, two keys let a config
be deleted and a second key made, two notes let one be appended after the first was
read, and one history is enough to stop parsing at any step. **VaultIndex.** Two folders: one written, one that must stay right. One process
in the run, since the lock keeps others out and a second unlocked rebuild voids the
promise; the theorem is for any number. Three editions, two checkpoints, two marks,
four stamps. **GraphTraversal.** Four nodes and three edges hold a hub, a
dependency, authors' priorities and a path that is longer but cheaper; priority 2 is
more than the hops there are, and the theorems take any.

`MaxVersion`, `MaxWrites`, `MaxStamp`, `MaxHold`, `MaxNotes`, `MaxEdition`, `MaxHead`
and `MaxPending` appear in guards, not in state constraints; where they are exhausted
the system goes on with what needs no new number. Deadlock is checked in the runs of
`VaultLock`, `DocHistory` and `Checkpoint`: an author, a waiter or a clock can always
move. The others may stop: a batch or a query when it has returned, a vault when its
bounds are used up.

**PublishBatch.** Three items and two workers: one that is judged, one that waits
beside it and one that has not started. The ids range over all triples, so batches
of one and two documents and duplicates are among them. Work 0 to 2 against a
budget of 2: one document may fit, two may fit together or not, and the budget may
run out exactly. The call ends, so this run may stop; that it stops only when it
has returned is `BatchReturns`.

**Fairness** of `VaultLock`, used by `lock_faults`: time passes; a
running process's pending call completes, which includes `fn` returning. These are
what an event loop and a clock give; not even the heartbeat is asked to fire. Nothing is
assumed of crashed or suspended processes, nor that any particular waiter wins a
`mkdir`. The premise `FaultsEnd` of `WaitEnds` says processes do not die or fall
asleep over and over for ever; one already asleep may stay so. Of `PublishBatch`:
a free worker takes the next item, each pending call of `publishOne` completes, the
call returns once it can. There is no fairness between the items' continuations
that Node's event loop does not give.

## The proofs

Every theorem holds for all values of the constants that satisfy the `ASSUME`s of
its module. `*_proofs.tla` holds them and the lemmas they rest on.

| theorem | statement | further assumption |
|---|---|---|
| `VaultLock_proofs!Typing` | `Spec => []TypeOK` | none |
| `VaultLock_proofs!LiveHolder` | `Spec => []LiveHolderNeverStale` | none |
| `VaultLock_proofs!Exclusion` | `Spec => []RunningExclusion` | none |
| `VaultLock_proofs!Contention` | `Spec => TimeOutMeansContention` | none |
| `DocHistory_proofs!Ledger` | `Spec => []LedgerInv` | none |
| `DocHistory_proofs!Numbering` | `Spec => []VersionsIncrease` | none |
| `DocHistory_proofs!Verifiable` | `Spec => []HistoryVerifies` | none |
| `DocHistory_proofs!NumbersStay` | `Spec => NumberNeverReused` | none |
| `DocHistory_proofs!EntriesFaithful` | `Spec => []FaithfulInv` | none |
| `DocHistory_proofs!ReadsWhatWasWritten` | `Spec => []ReadBack` | none |
| `Checkpoint_proofs!Dating` | `Spec => []Dated` | none |
| `Checkpoint_proofs!Types` | `Spec => []TypeOK` | none |
| `Checkpoint_proofs!Chained` | `Spec => []ChainInv` | `Unraced` |
| `Checkpoint_proofs!Linked` | `Spec => []ChainLinked` | `Unraced` |
| `Checkpoint_proofs!Refines` | `Spec => ChainRefinesLog` | nobody rebuilds |
| `Checkpoint_proofs!Heals` | `Spec => []RebuildHeals` | one process |
| `Checkpoint_proofs!Written` | `Spec => []WriterInv` | nobody edits by hand |
| `Checkpoint_proofs!SealsOwn` | `Spec => SealsItsPublish` | nobody edits by hand |
| `Checkpoint_proofs!Bindings` | `Spec => []SealInv` | `Undisturbed` |
| `Checkpoint_proofs!Crossed` | `Spec => []CrossChainVerifies` | `Undisturbed` |
| `Checkpoint_proofs!SealsWhatIs` | `Spec => []SealsRecorded` | `Undisturbed` |
| `Checkpoint_proofs!Lasts` | `Spec => []BindingsLast` | `Kept` |
| `Checkpoint_proofs!CrossedThroughout` | `Spec => []CrossChainVerifies` | `Kept` |
| `PublishBatch_proofs!Turns` | `Spec => []TurnInv` | none |
| `PublishBatch_proofs!OneWriter` | `Spec => []OneWriterPerDocument` | none |
| `PublishBatch_proofs!Ordered` | `Spec => JudgedInOrder` | none |
| `NodeOps_proofs!Operations` | `Spec => []NodeInv` | none |
| `NodeOps_proofs!Core` | `Spec => []CoreInv` | none |
| `NodeOps_proofs!NoGap` | `Spec => []NoSilentGap` | none |
| `NodeOps_proofs!Resurrection` | `Spec => NoResurrection` | none |
| `NodeOps_proofs!Accounted` | `Spec => DeletionAccounted` | none |
| `NodeOps_proofs!MovesWhole` | `Spec => MoveKeepsHistory` | none |
| `NodeOps_proofs!AppliedOnce` | `Spec => []HoldAppliedOnce` | none |
| `NodeOps_proofs!Erased` | `Spec => []ForgottenIsErased` | while no operation was cut short, or nobody restores |
| `NodeOps_proofs!OnRecord` | `Spec => []ErasureOnRecord` | none |
| `NodeOps_proofs!NoVector` | `Spec => []NoErasedVector` | none |
| `VaultCrypt_proofs!Migration` | `Spec => []MigrationInv` | none |
| `VaultCrypt_proofs!FilesStayOpen` | `Spec => []FilesOpen` | none |
| `VaultCrypt_proofs!NotesStayOpen` | `Spec => []NotesOpen` | none |
| `VaultCrypt_proofs!EncryptLeavesNone` | `Spec => []EncryptSealsAll` | none |
| `VaultCrypt_proofs!NotesStayThere` | `Spec => NotesKept` | none |
| `VaultIndex_proofs!Indexing` | `Spec => []IndexInv` | none |
| `VaultIndex_proofs!CurrentDescribes` | `Spec => []CurrentDescribesDisk` | none |
| `VaultIndex_proofs!SealsDisk` | `Spec => SealsTheDisk` | none |
| `GraphTraversal_proofs!Searching` | `Spec => []SearchInv` | none |
| `GraphTraversal_proofs!WithinHops` | `Spec => []ReachedWithinHops` | none |
| `GraphTraversal_proofs!FreeSteps` | `Spec => []FreeStepsTaken` | none |
| `GraphTraversal_proofs!Levelled` | `Spec => []LevelInv` | none |
| `GraphTraversal_proofs!NearbyReached` | `Spec => []NearReached` | none |

`Unraced` says that nobody rebuilds or that there is one process: `ctx checkpoint
rebuild` takes no lock, so beside a second process it may replace the chain under a seal
that has read its head.

`Kept` says that no document is deleted and no file edited by hand. Any number of
processes may write, rebuild under each other, die, exit, tear the chain and meet files
they cannot read.

`Undisturbed` admits deletions, and says that no rebuild meets a writer (`Unraced`), that
no file is edited by hand or garbled, that processes exit, and die inside an append, but
not between two calls, and that the mark a delete leaves reaches the next seal
(`MarksReach`: nobody deletes, or one process writes and does not exit). A mark is in
one process's memory. When it is lost, or is another process's, and a number is used
again for other content, the next checkpoint carries the old hash with it, and `verify`
reports a mismatch. TLC finds that beside deletions with `crash`, with `exit`, with `unreadable` and with a
second process, and without deletions where hand edits meet files that cannot be read.
So both assumptions are the code's limits and not the proofs'; `ckpt_main` runs inside
`Undisturbed`.

**LiveHolder.** "Never stale" says nothing of the calls that led here, so it is not
inductive. `HeartbeatInv` adds how long a holder can have left its directory
untouched: `timer` after `mkdir`; one lag more inside, because the owner file may
never have been written; a heartbeat and a lag more again while leaving, when the
timer has been cleared. `age` never exceeds that, and `Heartbeat + 3 Lag <= Stale`
closes it; a holder that slept or whose touch failed (`struck`) is outside it.
**Exclusion** adds that directory and holder exist together
(`HolderOwnsLock`), so nobody judges anything stale; the assumptions are needed,
as `lock_steal_race` shows for crashes. Under suspension a holder that was stolen
from still believes it is inside. **Contention** has an invariant of its own
(`PatienceInv`), since the lock a waiter gives up on is not the one its `stat` saw:
a lock that was spared is at most as much older than the staleness window as the
waiter's timer says, and a waiter that runs is at most one lag late, so that with
`Stale + Lag <= Acquire` what it gives up on is younger than its wait. No fault needs
to be excluded, only the sleep of the waiter itself.

**Ledger.** `VersionsIncrease` and `HistoryVerifies` alone are not inductive: an
operation acts on the history it read a while ago. `JobConsistent` says what it
read is still what is there and that its number outranks it. `ArtifactWritten`
says that between `createVersion`'s two writes the artifact is on disk. The step
that matters is that the exclusive create of an artifact never overwrites one that
a recorded entry was hashed from; numbers below the new one are untouched, and a
number at or above it has no entry. **NumbersStay** adds `NumberFree`: the number an
operation is about to seal has no artifact on disk, whether or not an entry of the
history names it, but for the diff a seed may meet.

**ReadsWhatWasWritten.** `FaithfulInv` says what each entry stands for: a keyframe's hash
is its text, a diff leads from the text of the *entry before it*, which after a crash
need not be the number before. The step that matters is a diff's seal: it is made
against what `Reconstruct` gives for the number before, which the code has checked to be
recorded, so that it is the head (lemma `SealFaithful`, which itself uses `ReadsBack` on
the history as it stands). `ReadsBack` is the replay. The anchor is the last keyframe at or
before the target, since versions increase, so between the two there are diffs only
(`ReplaySpan`). The fold of the community modules is shown to exist and to go step by
step for a list of any length (`RebuiltExists`, `FoldSteps`), and the first step at which
it would not hold the text of its entry cannot be, because the step before did. The
library's induction theorems cannot be instantiated here; in their place stands the least
element of the set of counterexamples.

**Dating.** A rebuild sorts the entries of all histories by date, so it matters that
they were recorded in the order of their numbers, each at a time of its own. `Dated` says
so of the histories there are and of those a rebuild has read. It is inductive because
what is about to be recorded was dated under the lock, after everything recorded.

**Chained, Linked, Refines.** A seal under way continues the chain *as it is now*
(`SealContinues`), because it holds the lock, and the pointer names the last
checkpoint of the chain it was stamped with (`PointerExact`), so whichever of the
two the head was read from is the last checkpoint (lemma `HeadIsLast`). Then
`SealAppend` is `Extend` or `Restart`, `TearChain` is `Damage`, and every other
step is a stutter. A rebuild replaces the chain, which no log does, so `Refines`
excludes it. The other two hold beside rebuilds that meet nobody, since what a rebuild
derives is itself a chain (lemma `RebuiltChain`).

**Heals.** That a sorted list of a finite set exists cannot be had by induction; in its
place stands the least bound below which a set of numbers could not be listed
(`NumbersInOrder`), from which the tuples of a rebuild are listed whole and in order
(`SortedWhole`, `TuplesWhole`). What runs at a tuple is the newest entry of each
document so far (`RunningNewest`), so that each derived checkpoint binds recorded entries
and the last one binds the last entry of every history (`RebuiltChain`). `ChainInv` keeps
what a rebuild wrote in place until it has repointed and rechecked.

**SealsOwn.** `WriterInv` says that who writes holds the lock, and that what
a publish wrote is live, marked and not yet sealed when its seal reads the vault. It
needs no chain, so it survives every rebuild and every crash. An author who edits the
file between the publish's two calls makes the seal bind something else: hence the
assumption.

**Bindings, Crossed, SealsWhatIs.** That no checkpoint contradicts a history is not
inductive, because a history can be removed and its numbers recorded again. `Recorded`
says that a history holds each number once and that its hashes, which are dates, are no
later than the clock; `SealsHold` that what the head binds is in the history it binds,
or every process has marked that history as removed. A marked document is read from
disk instead of being carried. An entry appended now is later than every checkpoint
there is, so it contradicts none; what a seal binds is either recorded or carried from
a head that says so. What a rebuild derives is recorded, because nothing has been since
it read the histories (`RebuildsWhatIs`).

**Lasts, CrossedThroughout.** With rebuilds racing seals and writers dying, neither what
is linked nor what is marked can be relied on. What can be is that a binding, once
made, is never contradicted if no history is removed (`Lasting`): it is recorded, or
has no hash, or its number was *passed*: its writer died before recording it, and
the live file carries a number that high, so every later one is higher (`LastingLasts`).
`BindingsLast` says this of the chain, of the head in the pointer, of each seal under way
and of the histories a rebuild has read; what a seal or a rebuild puts together is made of
these (`SealLasts`, `RebuiltChain`), so it matters to none of them what the other replaced.

**Turns, Ordered.** That judging is serial is not written anywhere in the state:
it follows because the turn of an item has come only if every earlier one is in
`handed` (`TurnsInOrder`), and an item being judged is not (lemma `OneJudge`). So
the budget before the replay under way is `left` plus what that one item was
charged, `Charge` leaves it alone, and `Judge` and `CutShort` are the steps of
`JudgingOrder` (lemma `StepOrders`). Every number of workers, any failures and
batches of any length are covered. **OneWriter** is about the fold that drops the ids
asked for twice: what it has kept is without duplicates after every step
(`DistinctApart`), so two workers never have one document.

**Operations.** `NodeInv` has three parts. `CoreInv` is `JobOK` (what the steps of an
operation assume of its locals), `StampsApart` (a version names one entry) and
`DoneSoFar`: what has been done by the time an operation gets where it is. An entry is
written after its artifact; when artifacts are erased every entry is tombstoned; when a
delete unlinks, its record is in the log; when a move unlinks, its history is at the
destination. From it the action properties are one case per step that can violate them:
`Unlink` for `DeletionAccounted` and `MoveKeepsHistory`, `AppendEntry`, `Stub` and `Carry`
for `NoResurrection`. There the point is that a body was judged against the records
under the same lock that it is appended under, so no record can have come between.

`HoldInv` is for **AppliedOnce**. A hold names the version it was made on (its base), and
an approval asks that the base is the head. When the hold becomes an entry, that entry
is the head, and a version once left is never a head again (`BaseLeft`): a return to the
old text is a new version. So the second approval after a crash finds no base, also
when the hold was never archived.

`ForgetInv` is for **Erased, OnRecord, NoVector**. It says what a forget, a delete or an
import has erased at each of its steps, and what it owes: `StubsAlone` (beside a stub
nothing is left), `Collected` (each body of a history under a forget is in its list of
erased bodies or in a record), `Purged` (a vector of what is gone is owed a purge by
the operation under way, or was left by a crash or an import), `ArtifactsAgree` (what is
in an artifact is what its entry says). The third statement is conditional because the
code is: a delete of a stub that dies between the unlink and the removal of the history
leaves tombstones, a create and a publish build on them, and a restore of the old stub
then finds a history with content.

**Migration.** `JobInv` says what a migration knows at each step: its key is the
config's from the moment a config names it until the config goes; it makes and
removes a config only where no file is sealed; the histories it still has to rewrite
are those on disk but for their seals; and each history that is in neither its list nor
its memory is sealed, or open, as the case may be, or has failed it. `FilesOpen` and `NotesOpen` are then kept by
every step, `EncryptSealsAll` follows, and `NotesKept` follows from what is in memory.

**Indexing.** While no unlocked rebuild has met another operation, one process at a
time is inside (`Alone`); what it is about to write is what is on disk (`UpdateInv`);
and between its write and its index update its folder is in the pending list
(`WriteInv`). A publish moves the checkpoint's number, so the manifest is not current
until its index update; the stamp catches whatever else wrote `context.yaml`.

**Searching.** `Paid` compares what the search has left at a node with every lower
bound of the distances at once, so no induction over walks is needed; `LeftBehind`
says that a node that is no longer queued has had its free edges followed.

**NearbyReached.** `LevelInv` is the classical invariant of a breadth-first search: for
the level of a node, the fewest edges from a seed, the queue is in order, spans at most
two levels, and every node below the level in hand has been visited. Here it needs that
no step costs more than a hop, for a node is kept at the first price it is met at; and it
is stated of every function that satisfies the equations of levels (`Levels`), so that
the proof of the invariant needs no recursion. That `Near` satisfies its recursive
definition and that levels exist is proved apart (`NearDef`, `LevelsExist`).

`HeartbeatInv`, `ExclusionInv`, `PatienceInv`, `NumberFree`, `FaithfulInv`, `Typed`, `Dated`, `WriterInv`, `SealInv`,
`RebuildsWhatIs`, `BindingsLast`, `MigrationInv`, `IndexInv`, `SearchInv` and `LevelInv` are the inductive invariants of proofs and
invariants of no run; TLC agreed with each before it was proved.

**Only model-checked**: liveness (`WaitEnds`, `BatchReturns`, `EverySettles`), which is
beyond the installed provers, as is `ENABLED`.

## Where the code and its comments differ

* `lock_steal_race`: `vault-lock.ts:144-145` says that if two stealers race, one
  `mkdir` wins and the other keeps waiting. The `rm` at 146 removes whatever is at
  the path. A waiter that judged the dead holder's directory stale, and was slow,
  removes the lock another waiter has just taken; both are inside.
* `history_refused`: `publish.ts:133-137` skips the seed of a quarantined history
  so that an exclusive create does not strand the author behind the corrupt file.
  The test is whether *this call* quarantined. After a death between a seed's
  artifact and its entry, or between a quarantine and the write that was to follow
  it, the next publish seeds at a number that is on disk, is refused, and so is
  every publish after it.

The other places where the model and a comment, or an expectation, part ways explain
the shape of the passing runs.

*Lock.* `vault-lock.ts:155-157` says that a heartbeat touch that fails costs release
safety and "never correctness of the critical section". A holder all of whose touches
fail for a staleness window is taken for dead and stolen from while it works; the model
has the fault, and the properties are asked until it has struck. The message of
`VaultLockTimeoutError` (86-90) says that another writer "has been holding it (and
heartbeating) the whole time"; a waiter that sleeps between its `stat` and the test of
its deadline throws it on a lock nobody has touched since it came, hence `slept`.

*Checkpoint.* `ckpt_main` has one process that does not crash: `checkpoint.ts:340-341`
carries hashes since "every publish seals", but the marks that make an exception for
rewritten histories are in memory (`storage.ts:903-911`). A document deleted and
recreated by a process that dies before its seal, or that approves or defers without
sealing, is sealed by the next process with the deleted document's hash, and verify
reports a mismatch until a rebuild (`RebuildHeals`). It has no unreadable files
either: one that cannot be read is carried although its history was rewritten, and
the seal then clears its mark. After a publish died before its entry, the next seal
binds the sealed version to the latest entry's hash. A rebuild that replaces the chain
between a seal's read and its append leaves a broken link, so `ChainInv` is checked, and
`Linked` proved, without rebuilds that meet another process. With a manifest, a seal
re-reads through `refreshManifest` only what changed since the head
(`checkpoint.ts:322-331`); a document that could not be read when an earlier index update
looked at its folder was dropped from the manifest (`storage.ts:2447-2453`) and is not
heard of again, so that the snapshot records a deletion, which `checkpoint.ts:456-457`
says it never does. The model's seal crawls and does hear of it.

*Operations on nodes.*
* A publish may refuse after `approveReview` has written the proposal live
  (`review.ts:333-334`); the text stays, unpublished, with the hold still open.
* A death between the two renames of `archiveSuggestion` leaves a hold that is listed
  and cannot be shelved; every later reject fails on it (`review.ts:404`).
* A death between the stub of a forget and its record leaves a stub without a record,
  so the body may come back; a death while tombstoning makes the repeated forget
  record fewer bodies. A torn event log makes a forget throw after the stub, before
  the vectors are purged. `ErasureOnRecord` and `NoErasedVector` are asked of
  operations that were not cut short.
* A forget erases the artifacts of entries (`forget.ts:212`); one whose entry was lost
  to a crash survives it. `ForgottenIsErased` speaks of entries.
* `deleteDocument` leaves `_suggestions` behind, so a document recreated at the path
  counts as pending review.
* An imported forget leaves its vectors until the next embedding run, although
  `embedding-store.ts:229-231` says that erased content must not live on until then.
* A death inside a delete, between file and history, and a stub restored later over a
  recreated document, can leave a stub beside content; `restore` is therefore checked
  without deletes.

*Encryption.* Both migrations list the histories with `findAllHistories`, without
`onUnreadable` (`migrate.ts:164, 203`), so one that does not parse is skipped and nobody
is told (`storage.ts:3612-3626`). `encryptVault` returns with its notes in plaintext;
`decryptVault` leaves its sealed notes and deletes the key, although the comment at
182-184 has the KEK removed only after every file is plaintext, and
`docs/encrypted-vaults.md` (under "Migration guarantees") has a rerun finish what was
left. A temporary copy whose `unlink` fails stays in plaintext, unheard (66). The model
does all three (`torn`, `missed`, `failed`), and the properties except them by name.
A death inside decryption's rewrite of a history leaves a plaintext
`history.yaml.<pid>.<n>.tmp` that `sweepTempFiles`, which looks for `*.enc.tmp`, never
removes; `EncryptSealsAll` speaks of the copies of files. A client whose handle was
checked less than a second ago seals with a dead key after a decryption (`stale`);
`docs/encrypted-vaults.md` asks that servers be stopped first. A death before
`encryptVault` returns loses the recovery passphrase it would have shown. The refusal
to create a second key looks at files and not at notes. A death after the config's
unlink leaves a key nobody uses.

*Index.* With an unlocked rebuild (`../../cli/src/index.ts` after `vault encrypt`,
`vault decrypt` and `init`) beside another process, a stale manifest becomes current,
although a comment there (4540) says "under the vault lock, as every other index
update"; `raced` excludes it.

*Traversal.* A node is taken at the first price in queue order, so more hops may reach
less: with an edge of priority 2 from a seed to A, a second seed that depends on A, and
A referencing C, one hop reaches C and two do not
(`../../mcp-server/README.md:207`: "More hops = more context loaded"). `NearReached` is
asked where no edge costs more than one.

*Selectors*, read but not modelled: the two evaluators of what `index-evaluator.ts:5`
calls the same grammar differ on pinned URIs and missing anchors, which only graph mode
resolves, and on packs that include a search URI, which the index evaluator matches by
title alone.

## What is not modelled

Within the modelled components: `repairVersions`, `externalizeDiffs` and
`repairLatestVersion`, which migrate histories that nothing in the repository writes any
more (a death between repair's keyframe and its `writeHistory` leaves a mismatch that a
second repair does not re-hash); histories with inline diffs or grafts; the drift scan,
`createCheckpoint` from a caller's own snapshot, and forgotten stubs in a rebuild;
`readTombstones`' cache by size, mtime and inode; the approval of a drift suggestion
and its event; the deduplication of events; records that erase single versions, and pdf
sidecars; bulk import; `INDEX.md`, layouts and a host's manifest; rotation of the
recovery passphrase; the scaffolding of a first publish.

Whole components: those with status `not_modelled` in `PROJECT.json`, each with its
reason. Most of the repository's lines are argument handling, parsing, rendering,
selectors, structure rules, importers and the registry. They keep no state shared
between steps of several actors, or only call out to something that does; a model
of them would restate them.

## Plan

The plan's modules are done: `VaultLock`; `VersionLedger`, `DocHistory`; `Checkpoint`,
`CheckpointLog`, with the deferred seal; `JudgingOrder`, `PublishBatch`; `NodeOps` for
review, forget, lifecycle, event log and embeddings; `VaultCrypt`; `VaultIndex`;
`GraphTraversal`.

Left to model: repair of legacy histories; bulk import, which is a sequence of
`NodeOps`' creates under one lock with a deferred seal.

Left to prove: of what runs check, nothing but liveness.

## Running

    tlc -config MCVaultLock_faults.cfg MCVaultLock.tla
    tlapm VaultLock_proofs.tla

Each run of `PROJECT.json` is one `.cfg` beside its `MC` module. On two workers
`lock_faults`, `nodes_erase` and `ckpt_seal` take two to four minutes, `history_crash`,
`ckpt_main`, `nodes_review`, `crypt_migrate` and `graph_walk` about one, the others
seconds.
