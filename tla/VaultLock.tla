------------------------------- MODULE VaultLock -------------------------------
(***************************************************************************)
(* The per-vault write lock of packages/engine/src/vault-lock.ts.          *)
(*                                                                         *)
(* The lock is a directory.  `mkdir` takes it, the directory's mtime is    *)
(* its heartbeat, a waiter that finds the mtime older than Stale removes   *)
(* the directory ("steals") and tries again, and an `owner` file inside    *)
(* says whose release may remove it.  Every file-system call is one step,  *)
(* so two processes interleave between the `stat` that judges a lock       *)
(* stale and the `rm` that steals it, between that `stat` and the test of  *)
(* the waiter's own deadline, between `mkdir` and the write of the owner   *)
(* file, and between the read of the owner file and the `rm` that releases. *)
(*                                                                         *)
(* Time is discrete.  Tick ages the directory and every process's timers;  *)
(* a process that is running (not crashed, not suspended) performs each    *)
(* call, the sleep between two attempts included, at most Lag ticks after  *)
(* it is due, which is what "a live holder heartbeats" means.  Ages        *)
(* saturate just above the longest bound, the deadline, so the state space *)
(* is finite without a state constraint.                                   *)
(***************************************************************************)
EXTENDS Naturals

CONSTANTS
  Proc,        \* the processes that call withVaultLock on one vault
  Heartbeat,   \* HEARTBEAT_MS, in ticks
  Stale,       \* STALE_MS
  Acquire,     \* ACQUIRE_TIMEOUT_MS
  Lag,         \* how late a running process may perform a due call
  Faults,      \* which faults may happen: a subset of FaultKinds
  None

ASSUME TimingAssumption ==
  /\ Heartbeat \in Nat /\ Stale \in Nat /\ Acquire \in Nat /\ Lag \in Nat
  /\ Heartbeat + 3 * Lag <= Stale
  /\ Stale + Lag <= Acquire

\* A process dies or stops running; a write or a read of the owner file fails
\* ("mark"), a touch of the heartbeat does, the rm of the release does.
FaultKinds == {"crash", "suspend", "mark", "beat", "release"}

ASSUME FaultsAssumption == Faults \subseteq FaultKinds

VARIABLES
  lock,        \* the lock directory: None, or its creator and its owner file
  age,         \* now - mtime of the lock directory, saturating at Acquire + 1
  pc,          \* where each process is in withVaultLock
  waited,      \* ticks since the process entered, saturating at Acquire + 1
  timer,       \* ticks since the process's last call or heartbeat
  suspended,   \* processes stopped by SIGSTOP or a laptop's sleep
  slept,       \* the waiters that were suspended since they began to wait
  struck       \* history: what a fault has done to the lock so far

vars == <<lock, age, pc, waited, timer, suspended, slept, struck>>

Waiting == {"trying", "refused", "judged", "spared"}
Leaving == {"leaving", "removing"}
Holding == {"marking", "inside"} \union Leaving

\* A lock was left behind by its holder, or a holder missed a heartbeat.
Harm == {"abandoned", "missed"}

LockDir == [by: Proc, owner: Proc \union {None}]

ASSUME NoneAssumption == None \notin Proc \union LockDir

TypeOK ==
  /\ lock \in LockDir \union {None}
  /\ age \in 0 .. Acquire + 1
  /\ pc \in [Proc -> {"idle"} \union Waiting \union Holding]
  /\ waited \in [Proc -> 0 .. Acquire + 1]
  /\ timer \in [Proc -> 0 .. Heartbeat + Lag]
  /\ suspended \in SUBSET Proc
  /\ slept \in SUBSET Proc
  /\ struck \in SUBSET Harm

Init ==
  /\ lock = None
  /\ age = 0
  /\ pc = [p \in Proc |-> "idle"]
  /\ waited = [p \in Proc |-> 0]
  /\ timer = [p \in Proc |-> 0]
  /\ suspended = {}
  /\ slept = {}
  /\ struck = {}

Held == lock # None

IsStale == Held /\ age > Stale

\* The directory vanishes with everything in it (rm -rf).
RemoveLock == lock' = None /\ age' = 0

--------------------------------------------------------------------------------
(* Acquisition: the loop of withVaultLock.                                 *)

\* deadline = now + ACQUIRE_TIMEOUT_MS; token = randomUUID().
Enter(p) ==
  /\ pc[p] = "idle"
  /\ pc' = [pc EXCEPT ![p] = "trying"]
  /\ waited' = [waited EXCEPT ![p] = 0]
  /\ timer' = [timer EXCEPT ![p] = 0]
  /\ UNCHANGED <<lock, age, suspended, slept, struck>>

\* mkdir succeeds: a fresh directory, without an owner file yet.
Mkdir(p) ==
  /\ pc[p] = "trying"
  /\ ~Held
  /\ lock' = [by |-> p, owner |-> None]
  /\ age' = 0
  /\ pc' = [pc EXCEPT ![p] = "marking"]
  /\ waited' = [waited EXCEPT ![p] = 0]
  /\ timer' = [timer EXCEPT ![p] = 0]
  /\ slept' = slept \ {p}
  /\ UNCHANGED <<suspended, struck>>

\* A waiter goes on to its next call with nothing else changed.
Goes(p, at) ==
  /\ pc' = [pc EXCEPT ![p] = at]
  /\ timer' = [timer EXCEPT ![p] = 0]
  /\ UNCHANGED <<lock, age, waited, suspended, slept, struck>>

\* mkdir fails with EEXIST.
Refused(p) == pc[p] = "trying" /\ Held /\ Goes(p, "refused")

\* lockAge finds no heartbeat for a whole staleness window.
JudgeStale(p) == pc[p] = "refused" /\ IsStale /\ Goes(p, "judged")

\* lockAge finds a recent heartbeat, or no directory any more.
JudgeAlive(p) == pc[p] = "refused" /\ ~IsStale /\ Goes(p, "spared")

\* rm -rf of whatever directory is there by now, then back to mkdir.
Steal(p) ==
  /\ pc[p] = "judged"
  /\ RemoveLock
  /\ pc' = [pc EXCEPT ![p] = "trying"]
  /\ timer' = [timer EXCEPT ![p] = 0]
  /\ UNCHANGED <<waited, suspended, slept, struck>>

\* VaultLockTimeoutError.
GivesUp(p) ==
  /\ pc' = [pc EXCEPT ![p] = "idle"]
  /\ waited' = [waited EXCEPT ![p] = 0]
  /\ timer' = [timer EXCEPT ![p] = 0]
  /\ slept' = slept \ {p}
  /\ UNCHANGED <<lock, age, suspended, struck>>

\* Mutant: the deadline is no longer than the staleness window.
TimeOutAtStale(p) == pc[p] = "spared" /\ waited[p] > Stale /\ GivesUp(p)

\* The deadline has passed; the lock is what it is by now, not what stat saw.
TimeOut(p) == pc[p] = "spared" /\ waited[p] > Acquire /\ GivesUp(p)

\* Mutant: the deadline is set anew for each attempt.
RetryRestarts(p) ==
  /\ pc[p] = "spared" /\ waited[p] <= Acquire
  /\ pc' = [pc EXCEPT ![p] = "trying"]
  /\ waited' = [waited EXCEPT ![p] = 0]
  /\ timer' = [timer EXCEPT ![p] = 0]
  /\ UNCHANGED <<lock, age, suspended, slept, struck>>

\* Time is left: sleep, then mkdir again.
Retry(p) == pc[p] = "spared" /\ waited[p] <= Acquire /\ Goes(p, "trying")

\* writeFile(owner, token).  Creating the file touches the directory; a
\* directory that is gone, or a failed write, is swallowed by the catch.
\* setInterval starts the heartbeat either way.
Mark(p) ==
  /\ pc[p] = "marking"
  /\ \/ /\ Held
        /\ lock' = [lock EXCEPT !.owner = p]
        /\ age' = IF lock.owner = None THEN 0 ELSE age
     \/ /\ ~Held \/ "mark" \in Faults
        /\ UNCHANGED <<lock, age>>
  /\ pc' = [pc EXCEPT ![p] = "inside"]
  /\ timer' = [timer EXCEPT ![p] = 0]
  /\ UNCHANGED <<waited, suspended, slept, struck>>

--------------------------------------------------------------------------------
(* The critical section and the release.                                   *)

\* Mutant: the heartbeat touches the owner file, not the directory.
BeatOwnerFile(p) ==
  /\ pc[p] = "inside"
  /\ timer[p] >= Heartbeat
  /\ timer' = [timer EXCEPT ![p] = 0]
  /\ UNCHANGED <<lock, age, pc, waited, suspended, slept, struck>>

\* utimes on the lock's PATH: it refreshes whichever directory is there.  The
\* catch swallows a touch that fails; the next one is a period away.
Beat(p) ==
  /\ pc[p] = "inside"
  /\ timer[p] >= Heartbeat
  /\ timer' = [timer EXCEPT ![p] = 0]
  /\ \/ age' = 0 /\ UNCHANGED struck
     \/ "beat" \in Faults /\ struck' = struck \union {"missed"} /\ UNCHANGED age
  /\ UNCHANGED <<lock, pc, waited, suspended, slept>>

\* fn resolves or rejects; clearInterval stops the heartbeat.
Finish(p) ==
  /\ pc[p] = "inside"
  /\ pc' = [pc EXCEPT ![p] = "leaving"]
  /\ timer' = [timer EXCEPT ![p] = 0]
  /\ UNCHANGED <<lock, age, waited, suspended, slept, struck>>

\* What readFile(owner) answers: the token, or null when there is none.
OwnerRead == IF Held THEN lock.owner ELSE None

\* The release removes the lock when the owner read is null, also because the
\* read failed, or its own.
MayRemove(p) == OwnerRead \in {None, p}

ReadOwner(p) ==
  /\ pc[p] = "leaving"
  /\ \/ /\ MayRemove(p) \/ "mark" \in Faults
        /\ pc' = [pc EXCEPT ![p] = "removing"]
        /\ UNCHANGED timer
     \/ /\ ~MayRemove(p)
        /\ pc' = [pc EXCEPT ![p] = "idle"]
        /\ timer' = [timer EXCEPT ![p] = 0]
  /\ UNCHANGED <<lock, age, waited, suspended, slept, struck>>

\* rm -rf by path; the catch swallows a failure, and the lock is left to age.
Release(p) ==
  /\ pc[p] = "removing"
  /\ \/ RemoveLock /\ UNCHANGED struck
     \/ /\ "release" \in Faults
        /\ struck' = struck \union {"abandoned"}
        /\ UNCHANGED <<lock, age>>
  /\ pc' = [pc EXCEPT ![p] = "idle"]
  /\ timer' = [timer EXCEPT ![p] = 0]
  /\ UNCHANGED <<waited, suspended, slept>>

--------------------------------------------------------------------------------
(* Faults and time.                                                        *)

\* The process dies wherever it is; the same process may call again later.
Crash(p) ==
  /\ "crash" \in Faults
  /\ pc[p] # "idle"
  /\ pc' = [pc EXCEPT ![p] = "idle"]
  /\ suspended' = suspended \ {p}
  /\ waited' = [waited EXCEPT ![p] = 0]
  /\ timer' = [timer EXCEPT ![p] = 0]
  /\ slept' = slept \ {p}
  /\ struck' = IF pc[p] \in Holding THEN struck \union {"abandoned"} ELSE struck
  /\ UNCHANGED <<lock, age>>

\* Only a holder's sleep is a fault of the lock: a waiter's makes it a slow waiter.
Suspend(p) ==
  /\ "suspend" \in Faults
  /\ pc[p] # "idle"
  /\ p \notin suspended
  /\ suspended' = suspended \union {p}
  /\ \/ pc[p] \in Holding /\ struck' = struck \union {"missed"} /\ UNCHANGED slept
     \/ pc[p] \in Waiting /\ slept' = slept \union {p} /\ UNCHANGED struck
  /\ UNCHANGED <<lock, age, pc, waited, timer>>

Resume(p) ==
  /\ p \in suspended
  /\ suspended' = suspended \ {p}
  /\ UNCHANGED <<lock, age, pc, waited, timer, slept, struck>>

\* The longest a running process leaves its timer before it acts on it.
Due(p) == IF pc[p] = "inside" THEN Heartbeat + Lag ELSE Lag

OnTime(p) == (pc[p] # "idle" /\ p \notin suspended) => timer[p] < Due(p)

Saturate(n, max) == IF n < max THEN n + 1 ELSE max

\* Time passes, but not past a call that a running process owes.
Tick ==
  /\ \A p \in Proc : OnTime(p)
  /\ age' = IF Held THEN Saturate(age, Acquire + 1) ELSE 0
  /\ waited' = [p \in Proc |-> IF pc[p] \in Waiting
                                THEN Saturate(waited[p], Acquire + 1) ELSE 0]
  /\ timer' = [p \in Proc |-> IF pc[p] # "idle"
                              THEN Saturate(timer[p], Due(p)) ELSE 0]
  /\ UNCHANGED <<lock, pc, suspended, slept, struck>>

\* One call of withVaultLock's own control flow.
Call(p) ==
  \/ Mkdir(p) \/ Refused(p) \/ JudgeStale(p) \/ JudgeAlive(p) \/ Steal(p)
  \/ TimeOut(p) \/ Retry(p) \/ Mark(p) \/ Finish(p) \/ ReadOwner(p) \/ Release(p)

\* A running process: a call, or its heartbeat timer.
Step(p) == p \notin suspended /\ (Call(p) \/ Beat(p))

Fault(p) == Crash(p) \/ Suspend(p) \/ Resume(p)

Next ==
  \/ \E p \in Proc : Enter(p) \/ Step(p) \/ Fault(p)
  \/ Tick

Spec == Init /\ [][Next]_vars

(* What a running Node process and a clock give: a pending call completes, *)
(* fn settles (Finish is a call), time passes.                             *)
Fairness ==
  /\ WF_vars(Tick)
  /\ \A p \in Proc : WF_vars(p \notin suspended /\ Call(p))

FairSpec == Spec /\ Fairness

--------------------------------------------------------------------------------
(* Properties.                                                             *)

\* A process whose calls are running against the lock it believes it holds.
Live(p) == pc[p] \in Holding /\ p \notin suspended

\* The header's first claim (vault-lock.ts:17-20): while a holder heartbeats,
\* no waiter may judge the directory it created stale, however long fn runs
\* and whoever crashes.  A holder that was suspended, or whose touch failed, does
\* not heartbeat.
Heartbeating == "missed" \notin struck

LiveHolderNeverStale ==
  Heartbeating => \A p \in Proc : (Held /\ lock.by = p /\ Live(p)) => ~IsStale

\* What the lock is for: two writers are never between mkdir and release
\* at once, so the read-modify-write of the checkpoint chain is serial.
MutualExclusion ==
  \A p, q \in Proc : (pc[p] \in Holding /\ pc[q] \in Holding) => p = q

\* The same, until a process dies, a holder is suspended, a heartbeat or the rm of
\* a release fails: no interleaving of running writers, no waiter that sleeps and
\* no owner file that could not be written or read breaks it.
RunningExclusion == struck = {} => MutualExclusion

\* Giving up means contention: a waiter that kept running throws
\* VaultLockTimeoutError only when the lock it gives up on, by then, was touched
\* after it began to wait.  Behind a writer that was dead before that, it reaches
\* the staleness window and steals (lines 58-64, 87-90), although the deadline is
\* tested after the stat, and the wait is a loop of calls that are each late.
TimeOutMeansContention ==
  [][\A p \in Proc : (TimeOut(p) /\ p \notin slept) => ~Held \/ age < waited[p]]_vars

\* The premise of the liveness properties: processes do not die or fall asleep
\* again and again for ever.  A suspended one may stay so.
FaultsEnd == <>[][\A p \in Proc : ~Crash(p) /\ ~Suspend(p)]_vars

\* Nobody waits for ever: a caller gets in or is told that it did not, unless it
\* sleeps for ever itself.
WaitEnds ==
  FaultsEnd => \A p \in Proc :
    pc[p] \in Waiting ~> pc[p] \notin Waiting \/ [](p \in suspended)

--------------------------------------------------------------------------------
(* The inductive strengthening behind the two invariants.                  *)

\* A running process is never later than its Lag.
TimerBound == \A p \in Proc : pc[p] \in Holding => p \notin suspended /\ timer[p] <= Due(p)

\* How long ago the holder may last have touched the directory it created:
\* nothing since mkdir when the owner file failed, then one heartbeat period,
\* then the release, each late by at most Lag.
Untouched(p) ==
  CASE pc[p] = "marking" -> timer[p]
    [] pc[p] = "inside"  -> Lag + timer[p]
    [] OTHER             -> Lag + Heartbeat + Lag + timer[p]

AgeBound ==
  \A p \in Proc : (Held /\ lock.by = p /\ pc[p] \in Holding) => age <= Untouched(p)

\* Before any crash: the directory and its holder exist together, the owner file
\* names nobody else, and no waiter is about to steal.
HolderOwnsLock ==
  /\ \A p \in Proc : pc[p] \in Holding => Held /\ lock.by = p
  /\ Held => pc[lock.by] \in Holding /\ lock.owner \in {None, lock.by}
  /\ \A p \in Proc : pc[p] # "judged"

HeartbeatInv == TypeOK /\ (Heartbeating => TimerBound /\ AgeBound)

ExclusionInv == HeartbeatInv /\ (struck = {} => HolderOwnsLock)

\* Under every fault: who sleeps holds or has slept, and the lock that a waiter's
\* stat has spared is no older than the staleness window and the time since that
\* stat, while the waiter runs.
SparedBound ==
  \A p \in Proc :
    /\ p \in suspended => pc[p] \in Holding \/ p \in slept
    /\ (pc[p] \in Waiting /\ p \notin slept) =>
         /\ timer[p] <= Lag
         /\ (pc[p] = "spared" /\ Held) => age <= Stale + timer[p]

PatienceInv == TypeOK /\ SparedBound
================================================================================
