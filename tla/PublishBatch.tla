------------------------------ MODULE PublishBatch ------------------------------
(***************************************************************************)
(* publishDocuments (publish.ts): many documents published by a bounded    *)
(* pool of workers (concurrency.ts, mapInBatches) under one vault lock and *)
(* sealed by one checkpoint.  The documents are independent of each other  *)
(* but for one thing: those that must be replayed to be judged share a     *)
(* budget, so each waits for its turn to be judged while it occupies a     *)
(* worker, and hands the turn on whether it was judged or failed before.   *)
(*                                                                         *)
(* Modelled for enforced rules and a shared budget; without them nothing   *)
(* waits for anything.  What a document's own publish writes is module     *)
(* DocHistory's, what the seal binds is module Checkpoint's.               *)
(***************************************************************************)
EXTENDS Integers, Sequences, SequencesExt

CONSTANTS
  Doc,
  Length,        \* bound: how many ids are asked for
  Concurrency,   \* options.concurrency
  MaxWork,       \* bound: replay work of one document
  Budget,        \* replayBudget.left at the start
  Faults         \* which of "write", "progress" fail

ASSUME BatchAssumption ==
  /\ Length \in Nat
  /\ Concurrency \in Nat \ {0}
  /\ MaxWork \in Nat
  /\ Budget \in Nat
  /\ Faults \subseteq {"write", "progress"}

\* reads: it gets as far as the judging (it parses, is not rejected nor
\* forgotten).  work: characters its replay reads and compares; 0 when it has
\* no history or passes the full check.  conforms: what the rules then say.
Nature ==
  {n \in [reads: BOOLEAN, work: 0 .. MaxWork, conforms: BOOLEAN] :
     n.reads \/ (n.work = 0 /\ ~n.conforms)}

VARIABLES
  ids,       \* the batch: distinct ids, in the order asked for
  nature,    \* what each document is like
  next,      \* mapInBatches: the next item to start
  idle,      \* its workers that run nothing
  failed,    \* its failed flag
  stage,     \* per item: where its publishOne is
  handed,    \* the items whose turn is done
  charged,   \* per item: replay work charged so far
  left,      \* replayBudget.left
  spent,     \* replayBudget.spent
  verdict,   \* per item: what the judging said
  published, \* the items on the published list
  phase      \* the call: "pool", then "done" or "rejected"

pool == <<next, idle, failed>>
budget == <<charged, left, spent>>
vars == <<ids, nature, next, idle, failed, stage, handed, charged, left, spent, verdict,
          published, phase>>

Item == DOMAIN ids

TypeOK ==
  /\ ids \in Seq(Doc)
  /\ nature \in [Doc -> Nature]
  /\ next \in 1 .. Len(ids) + 1
  /\ idle \in Nat
  /\ failed \in BOOLEAN
  /\ stage \in [Item -> {"queued", "reading", "ready", "judging", "writing", "settling",
                         "settled"}]
  /\ handed \in SUBSET Item
  /\ charged \in [Item -> Nat]
  /\ left \in Int
  /\ spent \in BOOLEAN
  /\ verdict \in [Item -> {"none", "pass", "refused", "cut"}]
  /\ published \in SUBSET Item
  /\ phase \in {"pool", "done", "rejected"}

\* Mutant: a document asked for twice is published twice.
AsAsked(asked) == asked

\* Each id once, at its first place (`seen`).
Distinct(asked) ==
  LET Take(kept, id) == IF id \in Range(kept) THEN kept ELSE Append(kept, id)
  IN  FoldLeft(Take, <<>>, asked)

Init ==
  /\ \E asked \in [1 .. Length -> Doc] : ids = Distinct(asked)
  /\ ids \in Seq(Doc)
  /\ nature \in [Doc -> Nature]
  /\ next = 1
  /\ idle = Concurrency
  /\ failed = FALSE
  /\ stage = [i \in Item |-> "queued"]
  /\ handed = {}
  /\ charged = [i \in Item |-> 0]
  /\ left = Budget
  /\ spent = FALSE
  /\ verdict = [i \in Item |-> "none"]
  /\ published = {}
  /\ phase = "pool"

Goto(i, s) == stage' = [stage EXCEPT ![i] = s]

NatureOf(i) == nature[ids[i]]

--------------------------------------------------------------------------------
(* mapInBatches.                                                           *)

\* A free worker takes the next item.
Start(i) ==
  /\ ~failed
  /\ next = i
  /\ idle > 0
  /\ next' = next + 1
  /\ idle' = idle - 1
  /\ Goto(i, "reading")
  /\ UNCHANGED <<ids, nature, failed, handed, budget, verdict, published, phase>>

\* publishOne returns and its worker is free again.  The caller's onProgress
\* may throw out of it: then no item is started any more.
Settle(i) ==
  /\ stage[i] = "settling"
  /\ Goto(i, "settled")
  /\ \/ idle' = idle + 1 /\ UNCHANGED failed
     \/ "progress" \in Faults /\ failed' = TRUE /\ UNCHANGED idle
  /\ UNCHANGED <<ids, nature, next, handed, budget, verdict, published, phase>>

\* Every item settled: one checkpoint for all, and the call returns.
Finish ==
  /\ phase = "pool"
  /\ ~failed
  /\ \A i \in Item : stage[i] = "settled"
  /\ phase' = "done"
  /\ UNCHANGED <<ids, nature, pool, stage, handed, budget, verdict, published>>

\* Promise.all rejects at once, whatever the other workers are doing.
Reject ==
  /\ phase = "pool"
  /\ failed
  /\ phase' = "rejected"
  /\ UNCHANGED <<ids, nature, pool, stage, handed, budget, verdict, published>>

--------------------------------------------------------------------------------
(* publishOne.                                                             *)

Read(i) ==
  /\ stage[i] = "reading"
  /\ Goto(i, IF NatureOf(i).reads THEN "ready" ELSE "settling")
  /\ UNCHANGED <<ids, nature, pool, handed, budget, verdict, published, phase>>

\* Mutant: nobody waits.
TurnAlways(i) == TRUE

\* judgingTurns: the turn comes when the item before is done with its own.
Turn(i) == i = 1 \/ i - 1 \in handed

TakeTurn(i) ==
  /\ stage[i] = "ready"
  /\ Turn(i)
  /\ Goto(i, "judging")
  /\ UNCHANGED <<ids, nature, pool, handed, budget, verdict, published, phase>>

\* charge, while there is work left in the replay and in the budget.
Charge(i) ==
  /\ stage[i] = "judging"
  /\ charged[i] < NatureOf(i).work
  /\ ~spent /\ left > 0
  /\ left' = left - 1
  /\ charged' = [charged EXCEPT ![i] = @ + 1]
  /\ UNCHANGED <<ids, nature, pool, stage, handed, spent, verdict, published, phase>>

\* assertStructurePublish returns or throws, and the turn is handed on.
Conclude(i, v) ==
  /\ verdict' = [verdict EXCEPT ![i] = v]
  /\ handed' = handed \union {i}
  /\ Goto(i, IF v = "pass" THEN "writing" ELSE "settling")
  /\ UNCHANGED <<ids, nature, pool, charged, published, phase>>

\* The charge that overdraws the budget, or any after it: the head comes back
\* null, the document is judged in full and fails.
CutShort(i) ==
  /\ stage[i] = "judging"
  /\ charged[i] < NatureOf(i).work
  /\ spent \/ left = 0
  /\ left' = -1
  /\ spent' = TRUE
  /\ Conclude(i, "cut")

Judge(i) ==
  /\ stage[i] = "judging"
  /\ charged[i] = NatureOf(i).work
  /\ Conclude(i, IF NatureOf(i).conforms THEN "pass" ELSE "refused")
  /\ UNCHANGED <<left, spent>>

\* The document and its version are written, or one of the writes throws.
Write(i) ==
  /\ stage[i] = "writing"
  /\ \/ published' = published \union {i}
     \/ "write" \in Faults /\ UNCHANGED published
  /\ Goto(i, "settling")
  /\ UNCHANGED <<ids, nature, pool, handed, budget, verdict, phase>>

\* Mutant: only a document that was judged hands the turn on.
HandOnJudged(i) ==
  /\ stage[i] = "settled"
  /\ verdict[i] # "none"
  /\ Turn(i)
  /\ i \notin handed
  /\ handed' = handed \union {i}
  /\ UNCHANGED <<ids, nature, pool, stage, budget, verdict, published, phase>>

\* The finally of a document that failed before its turn: turn.after.then(done).
HandOn(i) ==
  /\ stage[i] = "settled"
  /\ Turn(i)
  /\ i \notin handed
  /\ handed' = handed \union {i}
  /\ UNCHANGED <<ids, nature, pool, stage, budget, verdict, published, phase>>

PublishOne(i) ==
  \/ Read(i) \/ TakeTurn(i) \/ Charge(i) \/ CutShort(i) \/ Judge(i) \/ Write(i)
  \/ Settle(i) \/ HandOn(i)

Next == (\E i \in Item : Start(i) \/ PublishOne(i)) \/ Finish \/ Reject

Spec == Init /\ [][Next]_vars

\* Node runs what can run: a pending call completes, a free worker goes on.
Fairness ==
  /\ \A i \in 1 .. Length : WF_vars(i \in Item /\ Start(i)) /\ WF_vars(i \in Item /\ PublishOne(i))
  /\ WF_vars(Finish \/ Reject)

FairSpec == Spec /\ Fairness

--------------------------------------------------------------------------------
(* Properties.                                                             *)

\* What the budget held before the replay under way, if there is one.
LeftBefore ==
  IF \E i \in Item : stage[i] = "judging"
  THEN left + charged[CHOOSE i \in Item : stage[i] = "judging"]
  ELSE left

Order == INSTANCE JudgingOrder WITH docs <- [i \in Item |-> NatureOf(i)], left <- LeftBefore

\* Whatever order the reads finish in and however many workers there are, the
\* documents are judged in the batch's order, each against the budget those
\* before it left: which ones are refused is the same on every run
\* (publish.ts:363-366).
JudgedInOrder == Order!Spec

Active(i) == stage[i] \notin {"queued", "settled"}

\* Two publishes under way are never of one document, which would race its
\* history.yaml (publish.ts:337-342).
OneWriterPerDocument ==
  \A i, j \in Item : Active(i) /\ Active(j) /\ i # j => ids[i] # ids[j]

\* The call returns, although each document waits, inside a bounded pool, for
\* those before it, and some of these fail before their turn.
BatchReturns == <>(phase # "pool")

\* Every document that a worker took is settled, also when the call itself has
\* already been rejected.
EverySettles ==
  \A i \in 1 .. Length :
    (i \in Item /\ stage[i] = "reading") ~> (i \in Item /\ stage[i] = "settled")

--------------------------------------------------------------------------------
(* The inductive strengthening for JudgedInOrder.                          *)

\* Turns are handed on in order, and only by items that are past theirs; an
\* item in its turn or past it is preceded by handed turns only.
TurnsInOrder ==
  /\ \A i \in Item : \A j \in Item : j < i /\ i \in handed => j \in handed
  /\ \A i \in Item :
       /\ stage[i] = "judging" => Turn(i)
       /\ i \in handed => stage[i] \in {"writing", "settling", "settled"}
       /\ verdict[i] # "none" => i \in handed
       /\ stage[i] \in {"writing", "settling", "settled"} /\ NatureOf(i).reads =>
            verdict[i] # "none"
       /\ stage[i] \in {"ready", "judging", "writing"} => NatureOf(i).reads

\* Work is charged by the item in its turn, and nothing goes on once it is spent.
BudgetKept ==
  /\ IF spent THEN left = -1 ELSE left >= 0
  /\ \A i \in Item : charged[i] <= NatureOf(i).work
  /\ \A i \in Item : stage[i] \in {"queued", "reading", "ready"} => charged[i] = 0
  /\ \A i \in Item : stage[i] = "judging" /\ spent => charged[i] = 0

\* The workers take the items in order.
Unstarted == \A i \in Item : i >= next => stage[i] = "queued"

\* The judging turns of a batch: taken one at a time, in order, handed on by
\* whoever is past its own, with the budget charged by whose turn it is
\* (publish.ts:404-413, 461-463).
TurnInv == TypeOK /\ Unstarted /\ TurnsInOrder /\ BudgetKept
================================================================================
