--------------------------- MODULE VaultLock_proofs ---------------------------
(***************************************************************************)
(* What vault-lock.ts promises for every set of processes and every choice *)
(* of the timing constants that TimingAssumption admits:                   *)
(*   - until a holder misses a heartbeat, crashes allowed, a running       *)
(*     holder is never judged stale (LiveHolder);                          *)
(*   - until then, and until a lock is left behind, at most one writer is  *)
(*     between mkdir and release (Exclusion);                              *)
(*   - under every fault, a waiter that kept running gives up only on a    *)
(*     lock that was touched since it began to wait (Contention).          *)
(***************************************************************************)
EXTENDS VaultLock, TLAPS

LEMMA SaturateType ==
  ASSUME NEW max \in Nat, NEW n \in 0 .. max
  PROVE  /\ Saturate(n, max) \in 0 .. max
         /\ Saturate(n, max) <= n + 1
  BY DEF Saturate

\* Every state the module can reach is well typed, whatever the faults.
THEOREM Typing == Spec => []TypeOK
<1> USE TimingAssumption, NoneAssumption
<1>1. Init => TypeOK
  BY DEF Init, TypeOK, LockDir
<1>2. TypeOK /\ [Next]_vars => TypeOK'
  <2> SUFFICES ASSUME TypeOK, [Next]_vars PROVE TypeOK'
    OBVIOUS
  <2> USE DEF TypeOK, LockDir, Waiting, Holding, Leaving, Harm, Goes, GivesUp
  <2>1. ASSUME NEW p \in Proc, Enter(p) PROVE TypeOK'
    BY <2>1 DEF Enter
  <2>2. ASSUME NEW p \in Proc, Call(p) PROVE TypeOK'
    <3>1. CASE Mkdir(p)
      BY <3>1 DEF Mkdir
    <3>2. CASE Refused(p)
      BY <3>2 DEF Refused
    <3>3. CASE JudgeStale(p)
      BY <3>3 DEF JudgeStale
    <3>4. CASE Steal(p)
      BY <3>4 DEF Steal, RemoveLock
    <3>5. CASE TimeOut(p)
      BY <3>5 DEF TimeOut
    <3>6. CASE Retry(p)
      BY <3>6 DEF Retry
    <3>7. CASE Mark(p)
      BY <3>7 DEF Mark, Held
    <3>8. CASE Finish(p)
      BY <3>8 DEF Finish
    <3>9. CASE ReadOwner(p)
      BY <3>9 DEF ReadOwner
    <3>10. CASE Release(p)
      BY <3>10 DEF Release, RemoveLock
    <3>11. CASE JudgeAlive(p)
      BY <3>11 DEF JudgeAlive
    <3>12. QED
      BY <2>2, <3>1, <3>2, <3>3, <3>4, <3>5, <3>6, <3>7, <3>8, <3>9, <3>10, <3>11 DEF Call
  <2>3. ASSUME NEW p \in Proc, Beat(p) PROVE TypeOK'
    BY <2>3 DEF Beat
  <2>4. ASSUME NEW p \in Proc, Fault(p) PROVE TypeOK'
    BY <2>4 DEF Fault, Crash, Suspend, Resume
  <2>5. CASE Tick
    <3>1. age' \in 0 .. Acquire + 1
      BY <2>5, SaturateType DEF Tick
    <3>2. ASSUME NEW p \in Proc
          PROVE  /\ Saturate(waited[p], Acquire + 1) \in 0 .. Acquire + 1
                 /\ Saturate(timer[p], Due(p)) \in 0 .. Heartbeat + Lag
      <4>1. waited[p] \in 0 .. Acquire + 1 /\ timer[p] \in 0 .. Heartbeat + Lag
        OBVIOUS
      <4>2. Acquire + 1 \in Nat /\ Heartbeat + Lag \in Nat
        OBVIOUS
      <4>3. Due(p) \in 0 .. Heartbeat + Lag
        BY DEF Due
      <4>4. Saturate(waited[p], Acquire + 1) \in 0 .. Acquire + 1
        BY ONLY <4>1, <4>2, SaturateType
      <4>5. Saturate(timer[p], Due(p)) \in 0 .. Heartbeat + Lag
        BY ONLY <4>1, <4>2, <4>3 DEF Saturate
      <4>6. QED
        BY <4>4, <4>5
    <3>3. waited' \in [Proc -> 0 .. Acquire + 1] /\ timer' \in [Proc -> 0 .. Heartbeat + Lag]
      BY <2>5, <3>2 DEF Tick
    <3>4. QED
      BY <2>5, <3>1, <3>3 DEF Tick
  <2>6. CASE UNCHANGED vars
    BY <2>6 DEF vars
  <2>7. QED
    BY <2>1, <2>2, <2>3, <2>4, <2>5, <2>6 DEF Next, Step
<1>3. QED
  BY <1>1, <1>2, PTL DEF Spec

--------------------------------------------------------------------------------
(* The timing argument: without a missed heartbeat a holder touches its directory  *)
(* often enough.                                                           *)

LEMMA UntouchedIsFresh ==
  ASSUME TypeOK, TimerBound, AgeBound
  PROVE  \A p \in Proc : (Held /\ lock.by = p /\ pc[p] \in Holding) => ~IsStale
  BY TimingAssumption
  DEF TypeOK, TimerBound, AgeBound, Untouched, Due, IsStale, Holding, Leaving

\* A history of faults only grows.
LEMMA StruckGrows == ASSUME TypeOK, [Next]_vars PROVE struck \subseteq struck'
  BY DEF Next, vars, Enter, Step, Call, Mkdir, Refused, JudgeStale, JudgeAlive, Steal, TimeOut, Retry,
     Mark, Finish, ReadOwner, Release, Beat, Fault, Crash, Suspend, Resume, Tick, Goes, GivesUp

\* The heartbeat invariant is inductive as long as no heartbeat is missed.
LEMMA HeartbeatInductive ==
  ASSUME HeartbeatInv, TypeOK', [Next]_vars
  PROVE  HeartbeatInv'
<1> SUFFICES ASSUME Heartbeating'
             PROVE  TimerBound' /\ AgeBound'
  BY DEF HeartbeatInv
<1> USE TimingAssumption, NoneAssumption
<1>0. TypeOK /\ Heartbeating /\ TimerBound /\ AgeBound
  BY StruckGrows DEF HeartbeatInv, Heartbeating
<1>2. TimerBound' /\ AgeBound'
  <2> USE <1>0 DEF TimerBound, AgeBound, Untouched, Due, Held, TypeOK, LockDir,
              Waiting, Holding, Leaving, Goes, GivesUp
  <2>1. ASSUME NEW p \in Proc, Enter(p) PROVE TimerBound' /\ AgeBound'
    BY <2>1 DEF Enter
  <2>2. ASSUME NEW p \in Proc, Call(p), p \notin suspended PROVE TimerBound' /\ AgeBound'
    <3>1. CASE Mkdir(p)
      BY <2>2, <3>1 DEF Mkdir
    <3>2. CASE Refused(p)
      BY <2>2, <3>2 DEF Refused
    <3>3. CASE JudgeStale(p)
      BY <2>2, <3>3 DEF JudgeStale
    <3>4. CASE Steal(p)
      BY <2>2, <3>4 DEF Steal, RemoveLock
    <3>5. CASE TimeOut(p)
      BY <2>2, <3>5 DEF TimeOut
    <3>6. CASE Retry(p)
      BY <2>2, <3>6 DEF Retry
    <3>7. CASE Mark(p)
      BY <2>2, <3>7 DEF Mark
    <3>8. CASE Finish(p)
      BY <2>2, <3>8 DEF Finish
    <3>9. CASE ReadOwner(p)
      BY <2>2, <3>9 DEF ReadOwner
    <3>10. CASE Release(p)
      BY <2>2, <3>10 DEF Release, RemoveLock
    <3>11. CASE JudgeAlive(p)
      BY <2>2, <3>11 DEF JudgeAlive
    <3>12. QED
      BY <2>2, <3>1, <3>2, <3>3, <3>4, <3>5, <3>6, <3>7, <3>8, <3>9, <3>10, <3>11 DEF Call
  <2>3. ASSUME NEW p \in Proc, Beat(p) PROVE TimerBound' /\ AgeBound'
    BY <2>3 DEF Beat, Heartbeating
  <2>4. ASSUME NEW p \in Proc, Fault(p) PROVE TimerBound' /\ AgeBound'
    BY <2>4 DEF Fault, Crash, Suspend, Resume, Heartbeating
  <2>5. CASE Tick
    BY <2>5 DEF Tick, OnTime, Saturate
  <2>6. CASE UNCHANGED vars
    BY <2>6 DEF vars
  <2>7. QED
    BY <2>1, <2>2, <2>3, <2>4, <2>5, <2>6 DEF Next, Step
<1>3. QED
  BY <1>2

\* A running holder is never judged stale, however long its write takes and
\* whichever other writers crash (the header's claim, vault-lock.ts:17-20).
THEOREM LiveHolder == Spec => []LiveHolderNeverStale
<1>1. Init => HeartbeatInv
  BY TimingAssumption, NoneAssumption
  DEF Init, HeartbeatInv, TypeOK, TimerBound, AgeBound, Held, LockDir, Holding, Leaving, Harm
<1>2. HeartbeatInv /\ TypeOK' /\ [Next]_vars => HeartbeatInv'
  BY HeartbeatInductive
<1>3. HeartbeatInv => LiveHolderNeverStale
  BY UntouchedIsFresh DEF HeartbeatInv, LiveHolderNeverStale, Live, Heartbeating
<1>4. QED
  BY <1>1, <1>2, <1>3, Typing, PTL DEF Spec

--------------------------------------------------------------------------------
(* Mutual exclusion, until a fault has struck a holder.                    *)

LEMMA ExclusionInductive ==
  ASSUME struck' = {}, struck = {}, HeartbeatInv, HolderOwnsLock, [Next]_vars
  PROVE  HolderOwnsLock'
<1> USE NoneAssumption
<1>1. ~IsStale
  <2>1. ASSUME Held PROVE lock.by \in Proc /\ pc[lock.by] \in Holding
    BY <2>1 DEF HolderOwnsLock, HeartbeatInv, TypeOK, LockDir, Held
  <2>2. QED
    BY <2>1, UntouchedIsFresh DEF HeartbeatInv, IsStale, Heartbeating
<1>2. HolderOwnsLock'
  <2> USE DEF HolderOwnsLock, HeartbeatInv, TypeOK, Held, LockDir, Waiting, Holding, Leaving,
              Goes, GivesUp
  <2>1. ASSUME NEW p \in Proc, Enter(p) PROVE HolderOwnsLock'
    BY <2>1 DEF Enter
  <2>2. ASSUME NEW p \in Proc, Call(p) PROVE HolderOwnsLock'
    <3>1. CASE Mkdir(p)
      BY <3>1 DEF Mkdir
    <3>2. CASE Refused(p)
      BY <3>2 DEF Refused
    <3>3. CASE JudgeStale(p)
      BY <3>3, <1>1 DEF JudgeStale
    <3>4. CASE Steal(p)
      BY <3>4 DEF Steal
    <3>5. CASE TimeOut(p)
      BY <3>5 DEF TimeOut
    <3>6. CASE Retry(p)
      BY <3>6 DEF Retry
    <3>7. CASE Mark(p)
      BY <3>7 DEF Mark
    <3>8. CASE Finish(p)
      BY <3>8 DEF Finish
    <3>9. CASE ReadOwner(p)
      BY <3>9 DEF ReadOwner, MayRemove, OwnerRead
    <3>10. CASE Release(p)
      BY <3>10 DEF Release, RemoveLock
    <3>11. CASE JudgeAlive(p)
      BY <3>11 DEF JudgeAlive
    <3>12. QED
      BY <2>2, <3>1, <3>2, <3>3, <3>4, <3>5, <3>6, <3>7, <3>8, <3>9, <3>10, <3>11 DEF Call
  <2>3. ASSUME NEW p \in Proc, Beat(p) PROVE HolderOwnsLock'
    BY <2>3 DEF Beat
  <2>4. ASSUME NEW p \in Proc, Fault(p) PROVE HolderOwnsLock'
    BY <2>4 DEF Fault, Crash, Suspend, Resume
  <2>5. CASE Tick
    BY <2>5 DEF Tick
  <2>6. CASE UNCHANGED vars
    BY <2>6 DEF vars
  <2>7. QED
    BY <2>1, <2>2, <2>3, <2>4, <2>5, <2>6 DEF Next, Step
<1>3. QED
  BY <1>2

\* The lock excludes: no two writers are between mkdir and release at once,
\* for any number of writers, until one of them dies or is suspended inside it, or
\* a heartbeat or the rm of a release fails.  (A sleeping waiter is allowed, and an
\* owner file that cannot be written or read.)
THEOREM Exclusion == Spec => []RunningExclusion
<1>1. Init => ExclusionInv
  BY TimingAssumption, NoneAssumption
  DEF Init, ExclusionInv, HeartbeatInv, HolderOwnsLock, TypeOK, TimerBound, AgeBound,
      Held, LockDir, Holding, Leaving, Harm
<1>2. ExclusionInv /\ TypeOK' /\ [Next]_vars => ExclusionInv'
  <2> SUFFICES ASSUME ExclusionInv, TypeOK', [Next]_vars PROVE ExclusionInv'
    OBVIOUS
  <2>1. HeartbeatInv'
    BY HeartbeatInductive DEF ExclusionInv
  <2>2. ASSUME struck' = {} PROVE HolderOwnsLock'
    <3>1. struck = {}
      BY <2>2, StruckGrows DEF ExclusionInv, HeartbeatInv
    <3>2. QED
      BY <2>2, <3>1, ExclusionInductive DEF ExclusionInv
  <2>3. QED
    BY <2>1, <2>2 DEF ExclusionInv
<1>3. ExclusionInv => RunningExclusion
  BY DEF ExclusionInv, HolderOwnsLock, RunningExclusion, MutualExclusion
<1>4. QED
  BY <1>1, <1>2, <1>3, Typing, PTL DEF Spec

--------------------------------------------------------------------------------
(* Giving up.                                                              *)

\* The lock that a waiter's stat has spared ages with the waiter's own timer.
LEMMA PatienceInductive ==
  ASSUME PatienceInv, TypeOK', [Next]_vars
  PROVE  SparedBound'
<1> USE TimingAssumption, NoneAssumption
<1> USE DEF PatienceInv, SparedBound, TypeOK, LockDir, Held, IsStale, Waiting, Holding, Leaving,
            Goes, GivesUp
<1>1. ASSUME NEW p \in Proc, Enter(p) PROVE SparedBound'
  BY <1>1 DEF Enter
<1>2. ASSUME NEW p \in Proc, Call(p), p \notin suspended PROVE SparedBound'
  <2>1. CASE Mkdir(p)
    BY <1>2, <2>1 DEF Mkdir
  <2>2. CASE Refused(p)
    BY <1>2, <2>2 DEF Refused
  <2>3. CASE JudgeStale(p)
    BY <1>2, <2>3 DEF JudgeStale
  <2>4. CASE JudgeAlive(p)
    BY <1>2, <2>4 DEF JudgeAlive
  <2>5. CASE Steal(p)
    BY <1>2, <2>5 DEF Steal, RemoveLock
  <2>6. CASE TimeOut(p)
    BY <1>2, <2>6 DEF TimeOut
  <2>7. CASE Retry(p)
    BY <1>2, <2>7 DEF Retry
  <2>8. CASE Mark(p)
    BY <1>2, <2>8 DEF Mark
  <2>9. CASE Finish(p)
    BY <1>2, <2>9 DEF Finish
  <2>10. CASE ReadOwner(p)
    BY <1>2, <2>10 DEF ReadOwner
  <2>11. CASE Release(p)
    BY <1>2, <2>11 DEF Release, RemoveLock
  <2>12. QED
    BY <1>2, <2>1, <2>2, <2>3, <2>4, <2>5, <2>6, <2>7, <2>8, <2>9, <2>10, <2>11 DEF Call
<1>3. ASSUME NEW p \in Proc, Beat(p), p \notin suspended PROVE SparedBound'
  BY <1>3 DEF Beat
<1>4. ASSUME NEW p \in Proc, Fault(p) PROVE SparedBound'
  BY <1>4 DEF Fault, Crash, Suspend, Resume
<1>5. CASE Tick
  BY <1>5 DEF Tick, OnTime, Due, Saturate
<1>6. CASE UNCHANGED vars
  BY <1>6 DEF vars
<1>7. QED
  BY <1>1, <1>2, <1>3, <1>4, <1>5, <1>6 DEF Next, Step

\* A waiter that was not suspended throws VaultLockTimeoutError only when the lock
\* it gives up on was touched after it began to wait.  The stat precedes the test
\* of the deadline by a call that may be late, and the directory changes in
\* between: what is needed is a deadline that is longer than the staleness window
\* by that delay, and that the lock a stat has spared ages no faster than the waiter.
THEOREM Contention == Spec => TimeOutMeansContention
<1>1. Init => PatienceInv
  BY TimingAssumption, NoneAssumption
  DEF Init, PatienceInv, SparedBound, TypeOK, LockDir, Waiting, Harm
<1>2. PatienceInv /\ TypeOK' /\ [Next]_vars => PatienceInv'
  BY PatienceInductive DEF PatienceInv
<1>3. PatienceInv =>
        [\A p \in Proc : (TimeOut(p) /\ p \notin slept) => ~Held \/ age < waited[p]]_vars
  <2>1. SUFFICES ASSUME PatienceInv, NEW p \in Proc, TimeOut(p), p \notin slept, Held
                 PROVE  age < waited[p]
    OBVIOUS
  <2>2. age \in Nat /\ waited[p] \in Nat /\ timer[p] \in Nat
    BY <2>1, TimingAssumption DEF PatienceInv, TypeOK
  <2>3. age <= Stale + timer[p] /\ timer[p] <= Lag /\ Acquire < waited[p]
    BY <2>1, <2>2, TimingAssumption DEF TimeOut, PatienceInv, SparedBound, Waiting
  <2>4. QED
    BY <2>2, <2>3, TimingAssumption
<1>4. QED
  BY <1>1, <1>2, <1>3, Typing, PTL DEF Spec, TimeOutMeansContention

===============================================================================
