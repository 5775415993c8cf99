-------------------------- MODULE PublishBatch_proofs --------------------------
(***************************************************************************)
(* The judging turns of publishDocuments implement JudgingOrder, for any   *)
(* batch, pool, documents and budget; and no document has two writers.     *)
(***************************************************************************)
EXTENDS PublishBatch, SequenceTheorems, WellFoundedInduction, TLAPS

\* Positions are integers, and a document's work is a natural number.
LEMMA Positions ==
  ASSUME TypeOK, NEW i \in Item
  PROVE  /\ Item = 1 .. Len(ids) /\ i \in Nat /\ Len(ids) \in Nat
         /\ NatureOf(i) \in Nature /\ NatureOf(i).work \in Nat
<1>1. ids \in Seq(Doc) /\ nature \in [Doc -> Nature]
  BY DEF TypeOK
<1>2. Item = 1 .. Len(ids) /\ Len(ids) \in Nat /\ ids[i] \in Doc
  BY <1>1 DEF Item
<1>3. NatureOf(i) \in Nature
  BY <1>1, <1>2 DEF NatureOf
<1>4. ASSUME NEW n \in Nature PROVE n.work \in Nat
  BY BatchAssumption DEF Nature
<1>5. QED
  BY <1>2, <1>3, <1>4

\* Where it is an item's turn, every item before it has handed its turn on.
LEMMA TurnMeansBefore ==
  ASSUME TurnInv, NEW i \in Item, Turn(i), NEW j \in Item, j < i
  PROVE  j \in handed
<1>1. Item = 1 .. Len(ids) /\ i \in Nat /\ j \in Nat
  BY Positions DEF TurnInv
<1>2. i # 1 /\ i - 1 \in handed /\ i - 1 \in Item /\ j <= i - 1
  BY <1>1 DEF Turn, TurnInv, TypeOK
<1>3. QED
  BY <1>1, <1>2 DEF TurnInv, TurnsInOrder

\* One document is judged at a time.
LEMMA OneJudge ==
  ASSUME TurnInv, NEW i \in Item, NEW j \in Item, stage[i] = "judging", stage[j] = "judging"
  PROVE  i = j
<1>1. i \in Nat /\ j \in Nat
  BY Positions DEF TurnInv
<1>2. i \notin handed /\ j \notin handed /\ Turn(i) /\ Turn(j)
  BY DEF TurnInv, TurnsInOrder
<1>3. QED
  BY <1>1, <1>2, TurnMeansBefore

LEMMA InitTurns == Init => TurnInv
<1> SUFFICES ASSUME Init PROVE TurnInv
  OBVIOUS
<1>1. ids \in Seq(Doc) /\ Item = 1 .. Len(ids) /\ Len(ids) \in Nat
  BY DEF Init, Item
<1>2. TypeOK
  <2>1. next \in 1 .. Len(ids) + 1 /\ idle \in Nat /\ left \in Int
    BY <1>1, BatchAssumption DEF Init
  <2>2. handed \in SUBSET Item /\ published \in SUBSET Item
    BY DEF Init
  <2>3. /\ stage \in [Item -> {"queued", "reading", "ready", "judging", "writing",
                             "settling", "settled"}]
        /\ charged \in [Item -> Nat]
        /\ verdict \in [Item -> {"none", "pass", "refused", "cut"}]
    BY DEF Init
  <2>4. /\ ids \in Seq(Doc) /\ nature \in [Doc -> Nature]
        /\ failed \in BOOLEAN /\ spent \in BOOLEAN /\ phase \in {"pool", "done", "rejected"}
    BY DEF Init
  <2>5. QED
    BY <2>1, <2>2, <2>3, <2>4 DEF TypeOK
<1>3. \A i \in Item : NatureOf(i).work \in Nat
  BY <1>2, Positions
<1>4. QED
  BY <1>2, <1>3, BatchAssumption DEF Init, TurnInv, Unstarted, TurnsInOrder, BudgetKept

\* The batch and its documents stay as they are.
LEMMA SameBatch ==
  ASSUME UNCHANGED <<ids, nature>>
  PROVE  Item' = Item /\ \A i : NatureOf(i)' = NatureOf(i)
  BY DEF Item, NatureOf

\* What the turns and the budget are about is untouched by the pool.
LEMMA PoolKeepsTurns ==
  ASSUME TurnInv, UNCHANGED <<ids, nature, handed, budget, verdict>>, TypeOK', Unstarted',
         \A i \in Item :
           \/ stage'[i] = stage[i]
           \/ stage[i] = "queued" /\ stage'[i] = "reading"
           \/ stage[i] = "settling" /\ stage'[i] = "settled"
           \/ stage[i] = "reading" /\ stage'[i] = "ready" /\ NatureOf(i).reads
           \/ stage[i] = "reading" /\ stage'[i] = "settling" /\ ~NatureOf(i).reads
           \/ stage[i] = "ready" /\ stage'[i] = "judging" /\ Turn(i)
                /\ (spent => charged[i] = 0)
           \/ stage[i] = "writing" /\ stage'[i] = "settling"
  PROVE  TurnInv'
<1>1. Item' = Item /\ \A i : NatureOf(i)' = NatureOf(i)
  BY SameBatch
<1>2. \A i : Turn(i)' = Turn(i)
  BY DEF Turn
<1>3. TurnsInOrder'
  BY <1>1, <1>2 DEF TurnInv, TurnsInOrder
<1>4. BudgetKept'
  BY <1>1 DEF TurnInv, BudgetKept, budget
<1>5. QED
  BY <1>3, <1>4 DEF TurnInv

LEMMA StepKeepsTurns ==
  ASSUME TurnInv, NEW i \in Item,
         Start(i) \/ Settle(i) \/ Read(i) \/ TakeTurn(i) \/ Write(i)
  PROVE  TurnInv'
<1>1. TypeOK /\ Item = 1 .. Len(ids) /\ Len(ids) \in Nat /\ i \in Nat
  BY Positions DEF TurnInv
<1>2. CASE Start(i)
  <2>1. TypeOK'
    BY <1>1, <1>2, SameBatch DEF Start, Goto, TypeOK, budget, pool
  <2>2. Unstarted'
    BY <1>1, <1>2, SameBatch DEF Start, Goto, TypeOK, TurnInv, Unstarted, pool
  <2>3. stage[i] = "queued"
    BY <1>1, <1>2 DEF Start, TurnInv, Unstarted, TypeOK
  <2>4. QED
    BY <1>1, <1>2, <2>1, <2>2, <2>3, PoolKeepsTurns DEF Start, Goto, TypeOK
<1>3. CASE Settle(i)
  <2>1. TypeOK'
    <3>1. idle' \in Nat
      BY <1>1, <1>3 DEF Settle, TypeOK
    <3>2. failed' \in BOOLEAN
      BY <1>1, <1>3 DEF Settle, TypeOK
    <3>3. QED
      BY <1>1, <1>3, <3>1, <3>2, SameBatch DEF Settle, Goto, TypeOK, budget
  <2>2. Unstarted'
    BY <1>1, <1>3, SameBatch DEF Settle, Goto, TypeOK, TurnInv, Unstarted, pool
  <2>4. QED
    BY <1>1, <1>3, <2>1, <2>2, PoolKeepsTurns DEF Settle, Goto, TypeOK
<1>4. CASE Read(i)
  <2>1. TypeOK'
    BY <1>1, <1>4, SameBatch DEF Read, Goto, TypeOK, budget, pool
  <2>2. Unstarted'
    BY <1>1, <1>4, SameBatch DEF Read, Goto, TypeOK, TurnInv, Unstarted, pool
  <2>4. QED
    BY <1>1, <1>4, <2>1, <2>2, PoolKeepsTurns DEF Read, Goto, TypeOK
<1>5. CASE TakeTurn(i)
  <2>1. TypeOK'
    BY <1>1, <1>5, SameBatch DEF TakeTurn, Goto, TypeOK, budget, pool
  <2>2. Unstarted'
    BY <1>1, <1>5, SameBatch DEF TakeTurn, Goto, TypeOK, TurnInv, Unstarted, pool
  <2>3. charged[i] = 0
    BY <1>5 DEF TakeTurn, TurnInv, BudgetKept
  <2>4. QED
    BY <1>1, <1>5, <2>1, <2>2, <2>3, PoolKeepsTurns DEF TakeTurn, Goto, TypeOK
<1>6. CASE Write(i)
  <2>1. TypeOK'
    BY <1>1, <1>6, SameBatch DEF Write, Goto, TypeOK, budget, pool
  <2>2. Unstarted'
    BY <1>1, <1>6, SameBatch DEF Write, Goto, TypeOK, TurnInv, Unstarted, pool
  <2>4. QED
    BY <1>1, <1>6, <2>1, <2>2, PoolKeepsTurns DEF Write, Goto, TypeOK
<1>7. QED
  BY <1>2, <1>3, <1>4, <1>5, <1>6
\* An item hands its turn on: all before it have done so, and it is past its own.
LEMMA HandedInOrder ==
  ASSUME TurnInv, NEW i \in Item, Turn(i), handed' = handed \union {i}, UNCHANGED <<ids, nature>>
  PROVE  /\ \A j \in Item' : \A k \in Item' : k < j /\ j \in handed' => k \in handed'
         /\ \A j \in Item : Turn(j) => Turn(j)'
<1>1. Item' = Item
  BY SameBatch
<1>2. \A j, k \in Item : k < j /\ j \in handed => k \in handed
  BY DEF TurnInv, TurnsInOrder
<1>3. \A k \in Item : k < i => k \in handed
  BY TurnMeansBefore
<1>4. QED
  BY <1>1, <1>2, <1>3 DEF Turn

\* Judging, and handing the turn on.
LEMMA JudgingKeepsTurns ==
  ASSUME TurnInv, NEW i \in Item, Charge(i) \/ CutShort(i) \/ Judge(i) \/ HandOn(i)
  PROVE  TurnInv'
<1>1. TypeOK /\ Item = 1 .. Len(ids) /\ Len(ids) \in Nat /\ i \in Nat /\ NatureOf(i).work \in Nat
  BY Positions DEF TurnInv
<1>2. UNCHANGED <<ids, nature>> /\ next' = next
  BY DEF Charge, CutShort, Judge, HandOn, Conclude, pool
<1>3. Item' = Item /\ \A j : NatureOf(j)' = NatureOf(j)
  BY <1>2, SameBatch
<1>4. CASE Charge(i)
  <2>1. charged' \in [Item -> Nat] /\ left' \in Int /\ \A j \in Item : j # i => charged'[j] = charged[j]
    <3>1. charged \in [Item -> Nat] /\ left \in Int /\ charged[i] + 1 \in Nat
      BY <1>1 DEF TypeOK
    <3>2. charged' = [charged EXCEPT ![i] = charged[i] + 1] /\ left' = left - 1
      BY <1>4 DEF Charge
    <3>3. QED
      BY <3>1, <3>2
  <2>2. TypeOK'
    BY <1>1, <1>3, <1>4, <2>1 DEF Charge, TypeOK, pool
  <2>3. Unstarted' /\ TurnsInOrder'
    BY <1>3, <1>4 DEF Charge, TurnInv, Unstarted, TurnsInOrder, Turn, pool
  <2>4. BudgetKept'
    <3>1. charged'[i] = charged[i] + 1 /\ charged[i] < NatureOf(i).work /\ charged[i] \in Nat
      BY <1>1, <1>4 DEF Charge, TypeOK
    <3>2. left' = left - 1 /\ left > 0 /\ left \in Int /\ ~spent /\ ~spent' /\ stage' = stage
      BY <1>1, <1>4 DEF Charge, TypeOK
    <3>3. QED
      BY <1>1, <1>3, <1>4, <2>1, <3>1, <3>2 DEF Charge, TurnInv, BudgetKept
  <2>5. QED
    BY <2>2, <2>3, <2>4 DEF TurnInv
<1>5. CASE CutShort(i) \/ Judge(i)
  <2>1. PICK v \in {"pass", "refused", "cut"} : Conclude(i, v)
    BY <1>5 DEF CutShort, Judge
  <2>2. stage[i] = "judging" /\ Turn(i) /\ NatureOf(i).reads
    BY <1>5 DEF CutShort, Judge, TurnInv, TurnsInOrder
  <2>3. /\ left' \in Int /\ spent' \in BOOLEAN
        /\ IF spent' THEN left' = -1 ELSE left' >= 0
    <3>1. CASE CutShort(i)
      BY <3>1 DEF CutShort
    <3>2. CASE Judge(i)
      BY <1>1, <3>2 DEF Judge, TypeOK, TurnInv, BudgetKept
    <3>3. QED
      BY <1>5, <3>1, <3>2
  <2>4. /\ stage' = [stage EXCEPT ![i] = IF v = "pass" THEN "writing" ELSE "settling"]
        /\ stage' \in [Item -> {"queued", "reading", "ready", "judging", "writing", "settling",
                                "settled"}]
        /\ verdict' = [verdict EXCEPT ![i] = v]
        /\ verdict' \in [Item -> {"none", "pass", "refused", "cut"}]
        /\ handed' = handed \union {i} /\ charged' = charged
    BY <1>1, <2>1 DEF Conclude, Goto, TypeOK
  <2>5. TypeOK'
    BY <1>1, <1>3, <2>1, <2>3, <2>4 DEF Conclude, TypeOK, pool
  <2>6. Unstarted'
    BY <1>1, <1>2, <1>3, <2>2, <2>4 DEF TypeOK, TurnInv, Unstarted
  <2>7. TurnsInOrder'
    <3>1. \A j \in Item : \A k \in Item : k < j /\ j \in handed' => k \in handed'
      BY <1>2, <1>3, <2>2, <2>4, HandedInOrder
    <3>2. \A j \in Item : Turn(j) => Turn(j)'
      BY <1>2, <2>2, <2>4, HandedInOrder
    <3>3. \A j \in Item : j # i => stage'[j] = stage[j] /\ verdict'[j] = verdict[j]
      BY <1>1, <2>4 DEF TypeOK
    <3>4. stage'[i] \in {"writing", "settling"} /\ verdict'[i] = v
      BY <1>1, <2>4 DEF TypeOK
    <3>5. QED
      BY <1>3, <2>2, <2>4, <3>1, <3>2, <3>3, <3>4 DEF TurnInv, TurnsInOrder
  <2>8. BudgetKept'
    <3>1. \A j \in Item : j # i => stage'[j] = stage[j] /\ stage[j] # "judging"
      BY <1>1, <2>2, <2>4, OneJudge DEF TypeOK
    <3>2. stage'[i] \in {"writing", "settling"}
      BY <1>1, <2>4 DEF TypeOK
    <3>3. QED
      BY <1>3, <2>3, <2>4, <3>1, <3>2 DEF TurnInv, BudgetKept
  <2>9. QED
    BY <2>5, <2>6, <2>7, <2>8 DEF TurnInv
<1>6. CASE HandOn(i)
  <2>1. TypeOK'
    BY <1>1, <1>3, <1>6 DEF HandOn, TypeOK, budget, pool
  <2>2. Unstarted'
    BY <1>2, <1>3, <1>6 DEF HandOn, TurnInv, Unstarted
  <2>3. TurnsInOrder'
    <3>1. /\ \A j \in Item : \A k \in Item : k < j /\ j \in handed' => k \in handed'
          /\ \A j \in Item : Turn(j) => Turn(j)'
      BY <1>2, <1>3, <1>6, HandedInOrder DEF HandOn
    <3>2. QED
      BY <1>3, <1>6, <3>1 DEF HandOn, TurnInv, TurnsInOrder
  <2>4. BudgetKept'
    BY <1>3, <1>6 DEF HandOn, TurnInv, BudgetKept, budget
  <2>5. QED
    BY <2>1, <2>2, <2>3, <2>4 DEF TurnInv
<1>7. QED
  BY <1>4, <1>5, <1>6

LEMMA NextTurns == TurnInv /\ [Next]_vars => TurnInv'
<1> SUFFICES ASSUME TurnInv, [Next]_vars PROVE TurnInv'
  OBVIOUS
<1>1. CASE \E i \in Item : Start(i) \/ PublishOne(i)
  BY <1>1, StepKeepsTurns, JudgingKeepsTurns DEF PublishOne
<1>2. CASE Finish \/ Reject \/ UNCHANGED vars
  <2>1. UNCHANGED <<ids, nature, pool, stage, handed, budget, verdict, published>>
    BY <1>2 DEF Finish, Reject, vars, pool, budget
  <2>2. phase' \in {"pool", "done", "rejected"}
    BY <1>2 DEF Finish, Reject, vars, TurnInv, TypeOK
  <2>3. Item' = Item /\ \A i : NatureOf(i)' = NatureOf(i)
    BY <2>1, SameBatch
  <2>4. TypeOK'
    BY <2>1, <2>2, <2>3 DEF TurnInv, TypeOK, pool, budget
  <2>5. Unstarted' /\ TurnsInOrder' /\ BudgetKept'
    BY <2>1, <2>3 DEF TurnInv, Unstarted, TurnsInOrder, BudgetKept, Turn, pool, budget
  <2>6. QED
    BY <2>4, <2>5 DEF TurnInv
<1>3. QED
  BY <1>1, <1>2 DEF Next

\* The turns of judgingTurns are taken and handed on in the batch's order, one
\* at a time, and the shared replay budget is charged by whose turn it is.
THEOREM Turns == Spec => []TurnInv
<1>1. QED
  BY InitTurns, NextTurns, PTL DEF Spec
--------------------------------------------------------------------------------
(* The refinement: what the budget held before the judgement under way is  *)
(* what JudgingOrder calls left.                                           *)

docs == [i \in Item |-> NatureOf(i)]

LEMMA LeftWhileJudging ==
  ASSUME TurnInv, NEW i \in Item, stage[i] = "judging"
  PROVE  LeftBefore = left + charged[i]
<1>1. (CHOOSE j \in Item : stage[j] = "judging") = i
  BY OneJudge
<1>2. QED
  BY <1>1 DEF LeftBefore

LEMMA LeftOtherwise ==
  ASSUME \A j \in Item : stage[j] # "judging"
  PROVE  LeftBefore = left
  BY DEF LeftBefore

\* Once i has been judged nobody is being judged.
LEMMA NobodyAfter ==
  ASSUME TurnInv, NEW i \in Item, stage[i] = "judging", NEW v, Conclude(i, v)
  PROVE  /\ LeftBefore' = left' /\ verdict' = [verdict EXCEPT ![i] = v] /\ docs' = docs
<1>1. Item' = Item /\ \A j : NatureOf(j)' = NatureOf(j)
  BY SameBatch DEF Conclude
<1>2. \A j \in Item : j # i => stage[j] # "judging"
  BY OneJudge
<1>3. \A j \in Item : stage'[j] # "judging"
  BY <1>2 DEF Conclude, Goto, TurnInv, TypeOK
<1>4. LeftBefore' = left'
  BY <1>1, <1>3 DEF LeftBefore
<1>5. QED
  BY <1>1, <1>4 DEF Conclude, docs

\* The document in its turn is the first that can be judged and has not been.
LEMMA InTurnIsNext ==
  ASSUME TurnInv, NEW i \in Item, stage[i] = "judging"
  PROVE  /\ DOMAIN docs = Item /\ docs[i] = NatureOf(i)
         /\ Order!IsNext(i)
<1>1. Turn(i) /\ NatureOf(i).reads /\ i \notin handed /\ verdict[i] = "none"
  BY DEF TurnInv, TurnsInOrder
<1>2. \A j \in Item : j < i => j \in handed
  BY <1>1, TurnMeansBefore
<1>3. \A j \in Item : j \in handed /\ NatureOf(j).reads => verdict[j] # "none"
  BY DEF TurnInv, TurnsInOrder
<1>4. QED
  BY <1>1, <1>2, <1>3 DEF Order!IsNext, docs

LEMMA StepOrders ==
  ASSUME TurnInv, [Next]_vars
  PROVE  [Order!Next]_<<docs, LeftBefore, spent, verdict>>
<1>1. TypeOK
  BY DEF TurnInv
<1>2. ASSUME NEW i \in Item, CutShort(i)
      PROVE  Order!Next
  <2>1. stage[i] = "judging" /\ Conclude(i, "cut") /\ left' = -1 /\ spent'
    BY <1>2 DEF CutShort
  <2>2. LeftBefore = left + charged[i] /\ LeftBefore' = -1
    BY <2>1, LeftWhileJudging, NobodyAfter
  <2>3. charged[i] < NatureOf(i).work /\ (spent \/ left = 0) /\ charged[i] \in Nat
        /\ NatureOf(i).work \in Nat
    BY <1>1, <1>2, Positions DEF CutShort, TypeOK
  <2>4. ~Order!Affordable(i)
    BY <2>1, <2>2, <2>3, InTurnIsNext DEF Order!Affordable, docs
  <2>5. Order!CutShort(i)
    BY <2>1, <2>2, <2>4, InTurnIsNext, NobodyAfter, <1>2 DEF Order!CutShort, docs, CutShort
  <2>6. QED
    BY <2>5, <2>1, InTurnIsNext DEF Order!Next, docs
<1>3. ASSUME NEW i \in Item, Judge(i)
      PROVE  Order!Next
  <2>1. /\ stage[i] = "judging" /\ UNCHANGED <<left, spent>>
        /\ Conclude(i, IF NatureOf(i).conforms THEN "pass" ELSE "refused")
    BY <1>3 DEF Judge
  <2>2. LeftBefore = left + charged[i] /\ LeftBefore' = left
    BY <2>1, LeftWhileJudging, NobodyAfter
  <2>3. charged[i] = NatureOf(i).work /\ NatureOf(i).work \in Nat /\ left \in Int
        /\ (spent => charged[i] = 0) /\ (~spent => left >= 0)
    BY <1>1, <1>3, Positions DEF Judge, TypeOK, TurnInv, BudgetKept
  <2>4. Order!Affordable(i) /\ LeftBefore' = LeftBefore - NatureOf(i).work
    BY <2>1, <2>2, <2>3, InTurnIsNext DEF Order!Affordable, docs
  <2>5. Order!Judge(i)
    BY <2>1, <2>4, InTurnIsNext, NobodyAfter DEF Order!Judge, Order!Verdict, docs
  <2>6. QED
    BY <2>5, <2>1, InTurnIsNext DEF Order!Next, docs
<1>4. ASSUME NEW i \in Item, Charge(i)
      PROVE  UNCHANGED <<docs, LeftBefore, spent, verdict>>
  <2>1. /\ stage[i] = "judging" /\ UNCHANGED <<ids, nature, stage, spent, verdict>>
        /\ left' = left - 1 /\ charged' = [charged EXCEPT ![i] = charged[i] + 1]
    BY <1>4 DEF Charge
  <2>2. LeftBefore = left + charged[i]
    BY <2>1, LeftWhileJudging
  <2>3. (CHOOSE j \in Item : stage[j] = "judging") = i
    BY <2>1, OneJudge
  <2>4. Item' = Item /\ docs' = docs
    BY <2>1, SameBatch DEF docs
  <2>5. LeftBefore' = left' + charged'[i]
    BY <2>1, <2>3, <2>4 DEF LeftBefore
  <2>6. left \in Int /\ charged[i] \in Int /\ charged'[i] = charged[i] + 1
    BY <1>1, <2>1 DEF TypeOK
  <2>7. LeftBefore' = LeftBefore
    BY <2>1, <2>2, <2>5, <2>6
  <2>8. QED
    BY <2>1, <2>4, <2>7
<1>5. ASSUME NEW i \in Item, TakeTurn(i)
      PROVE  UNCHANGED <<docs, LeftBefore, spent, verdict>>
  <2>1. /\ stage[i] = "ready" /\ Turn(i) /\ stage' = [stage EXCEPT ![i] = "judging"]
        /\ UNCHANGED <<ids, nature, left, charged, spent, verdict>>
    BY <1>5 DEF TakeTurn, Goto, budget
  <2>2. Item' = Item /\ docs' = docs
    BY <2>1, SameBatch DEF docs
  <2>3. \A j \in Item : stage[j] # "judging"
    <3>1. SUFFICES ASSUME NEW j \in Item, stage[j] = "judging" PROVE FALSE
      OBVIOUS
    <3>2. i \notin handed /\ j \notin handed /\ Turn(j) /\ i # j
      BY <2>1, <3>1 DEF TurnInv, TurnsInOrder
    <3>3. i \in Nat /\ j \in Nat
      BY <1>1, Positions
    <3>4. QED
      BY <2>1, <3>2, <3>3, TurnMeansBefore
  <2>4. LeftBefore = left
    BY <2>3, LeftOtherwise
  <2>5. \A j \in Item : stage'[j] = "judging" <=> j = i
    BY <1>1, <2>1, <2>3 DEF TypeOK
  <2>6. LeftBefore' = left + charged[i]
    <3>1. (CHOOSE j \in Item : stage'[j] = "judging") = i
      BY <2>5
    <3>2. QED
      BY <2>1, <2>2, <2>5, <3>1 DEF LeftBefore
  <2>7. charged[i] = 0 /\ left \in Int
    BY <1>1, <2>1 DEF TurnInv, TypeOK, BudgetKept
  <2>8. QED
    BY <2>1, <2>2, <2>4, <2>6, <2>7
<1>6. ASSUME NEW i \in Item, Start(i) \/ Settle(i) \/ Read(i) \/ Write(i) \/ HandOn(i)
      PROVE  UNCHANGED <<docs, LeftBefore, spent, verdict>>
  <2>1. UNCHANGED <<ids, nature, left, charged, spent, verdict>>
    BY <1>6 DEF Start, Settle, Read, Write, HandOn, budget
  <2>2. Item' = Item /\ docs' = docs
    BY <2>1, SameBatch DEF docs
  <2>3. \A j \in Item : stage'[j] = "judging" <=> stage[j] = "judging"
    <3>1. CASE HandOn(i)
      BY <3>1 DEF HandOn
    <3>2. CASE Start(i)
      <4>1. stage[i] = "queued"
        BY <1>1, <3>2, Positions DEF Start, TurnInv, Unstarted
      <4>2. QED
        BY <1>1, <3>2, <4>1 DEF Start, Goto, TypeOK
    <3>3. CASE Settle(i) \/ Read(i) \/ Write(i)
      BY <1>1, <3>3 DEF Settle, Read, Write, Goto, TypeOK
    <3>4. QED
      BY <1>6, <3>1, <3>2, <3>3
  <2>4. LeftBefore' = LeftBefore
    <3>1. CASE \A j \in Item : stage[j] # "judging"
      BY <2>1, <2>2, <2>3, <3>1 DEF LeftBefore
    <3>2. CASE \E j \in Item : stage[j] = "judging"
      <4>1. PICK j \in Item : stage[j] = "judging"
        BY <3>2
      <4>2. \A k \in Item : stage[k] = "judging" => k = j
        BY <4>1, OneJudge
      <4>3. /\ (CHOOSE k \in Item : stage[k] = "judging") = j
            /\ (CHOOSE k \in Item : stage'[k] = "judging") = j
        BY <2>3, <4>1, <4>2
      <4>4. QED
        BY <2>1, <2>2, <2>3, <4>1, <4>3 DEF LeftBefore
    <3>3. QED
      BY <3>1, <3>2
  <2>5. QED
    BY <2>1, <2>2, <2>4
<1>7. CASE Finish \/ Reject \/ UNCHANGED vars
  <2>1. UNCHANGED <<ids, nature, stage, left, charged, spent, verdict>>
    BY <1>7 DEF Finish, Reject, vars, budget
  <2>2. Item' = Item /\ docs' = docs
    BY <2>1, SameBatch DEF docs
  <2>3. QED
    BY <2>1, <2>2 DEF LeftBefore
<1>8. QED
  BY <1>2, <1>3, <1>4, <1>5, <1>6, <1>7 DEF Next, PublishOne

--------------------------------------------------------------------------------
(* No document is published twice in a batch: the fold of Distinct.        *)

\* Every non-empty set of naturals has a least element.
LEMMA LeastElement ==
  ASSUME NEW T, T \subseteq Nat, T # {}
  PROVE  \E x \in T : \A y \in T : x <= y
<1>1. PICK x \in T : \A y \in T : <<y, x>> \notin OpToRel(<, Nat)
  BY NatLessThanWellFounded, WFMin
<1>2. \A y \in T : ~(y < x)
  BY <1>1 DEF OpToRel
<1>3. QED
  BY <1>2

\* The step of the fold.
Taken(kept, id) == IF id \in Range(kept) THEN kept ELSE Append(kept, id)

\* What the fold has kept, of the items of each set of positions.
Kept(h, asked, s) ==
  h[s] = IF s = {} THEN <<>> ELSE Taken(h[s \ {Max(s)}], asked[Max(s)])

LEMMA DistinctFolds ==
  ASSUME NEW asked
  PROVE  Distinct(asked) =
           (CHOOSE h : h = [s \in SUBSET DOMAIN asked |->
                              IF s = {} THEN <<>> ELSE Taken(h[s \ {Max(s)}], asked[Max(s)])])
             [DOMAIN asked]
BY DEF Distinct, FoldLeft, MapThenFoldSet, Taken

\* A set whose greatest element is known.
LEMMA Greatest ==
  ASSUME NEW k \in Nat, NEW s, s \subseteq 1 .. k, k \in s
  PROVE  Max(s) = k
<1>1. \A x \in s : x \in Nat /\ k >= x
  OBVIOUS
<1>2. \A m \in s : (\A x \in s : m >= x) => m = k
  BY <1>1
<1>3. QED
  BY <1>1, <1>2 DEF Max

\* The fold is defined on the sets of the first positions, however many.
LEMMA KeptExists ==
  ASSUME NEW asked, NEW n \in Nat
  PROVE  \E h : \A s \in SUBSET (1 .. n) : Kept(h, asked, s)
<1> DEFINE T == {k \in Nat : ~\E h : \A s \in SUBSET (1 .. k) : Kept(h, asked, s)}
<1>1. SUFFICES ASSUME T # {} PROVE FALSE
  OBVIOUS
<1>2. T \subseteq Nat
  OBVIOUS
<1>3. PICK k \in T : \A j \in T : k <= j
  BY <1>1, <1>2, LeastElement
<1>4. CASE k = 0
  <2> DEFINE h == [s \in {{}} |-> <<>>]
  <2>1. \A s \in SUBSET (1 .. 0) : s = {}
    OBVIOUS
  <2>2. \A s \in SUBSET (1 .. 0) : Kept(h, asked, s)
    BY <2>1 DEF Kept
  <2>3. QED
    BY <1>3, <1>4, <2>2
<1>5. CASE k # 0
  <2>1. k \in Nat /\ k - 1 \in Nat /\ k - 1 \notin T
    BY <1>3, <1>5
  <2>2. PICK g : \A s \in SUBSET (1 .. k - 1) : Kept(g, asked, s)
    BY <2>1
  <2> DEFINE h == [s \in SUBSET (1 .. k) |->
                     IF k \in s THEN Taken(g[s \ {k}], asked[k]) ELSE g[s]]
  <2>3. ASSUME NEW s \in SUBSET (1 .. k)
        PROVE  Kept(h, asked, s)
    <3>1. CASE k \in s
      <4>1. Max(s) = k /\ s # {}
        BY <2>1, <2>3, <3>1, Greatest
      <4>2. s \ {k} \in SUBSET (1 .. k) /\ k \notin s \ {k}
        BY <2>3
      <4>3. h[s \ {k}] = g[s \ {k}]
        BY <4>2
      <4>4. h[s] = Taken(g[s \ {k}], asked[k])
        BY <2>3, <3>1
      <4> HIDE DEF h
      <4>5. QED
        BY <4>1, <4>3, <4>4 DEF Kept
    <3>2. CASE k \notin s
      <4>1. s \in SUBSET (1 .. k - 1)
        BY <2>1, <2>3, <3>2
      <4>2. Kept(g, asked, s)
        BY <2>2, <4>1
      <4>3. s \ {Max(s)} \in SUBSET (1 .. k) /\ k \notin s \ {Max(s)}
        BY <2>3, <3>2
      <4>4. h[s] = g[s] /\ h[s \ {Max(s)}] = g[s \ {Max(s)}]
        BY <2>3, <3>2, <4>3
      <4> HIDE DEF h
      <4>5. QED
        BY <4>2, <4>4 DEF Kept
    <3>3. QED
      BY <3>1, <3>2
  <2>4. \E f : \A s \in SUBSET (1 .. k) : Kept(f, asked, s)
    <3> HIDE DEF h
    <3>1. QED
      BY <2>3
  <2>5. QED
    BY <1>3, <2>4
<1>6. QED
  BY <1>4, <1>5

\* A sequence in which everything occurs once.
Apart(q) == \A i, j \in DOMAIN q : q[i] = q[j] => i = j

LEMMA TakenApart ==
  ASSUME NEW q \in Seq(Doc), Apart(q), NEW d \in Doc
  PROVE  Taken(q, d) \in Seq(Doc) /\ Apart(Taken(q, d))
<1>1. CASE d \in Range(q)
  BY <1>1 DEF Taken
<1>2. CASE d \notin Range(q)
  <2>1. \A i \in DOMAIN q : q[i] # d
    BY <1>2 DEF Range
  <2>2. /\ Append(q, d) \in Seq(Doc) /\ Len(q) \in Nat /\ DOMAIN q = 1 .. Len(q)
        /\ DOMAIN Append(q, d) = 1 .. Len(q) + 1
        /\ \A i \in 1 .. Len(q) : Append(q, d)[i] = q[i]
        /\ Append(q, d)[Len(q) + 1] = d
    BY AppendProperties, LenProperties
  <2>3. Taken(q, d) = Append(q, d)
    BY <1>2 DEF Taken
  <2>4. ASSUME NEW i \in 1 .. Len(q) + 1, NEW j \in 1 .. Len(q) + 1,
               Append(q, d)[i] = Append(q, d)[j]
        PROVE  i = j
    BY <2>1, <2>2, <2>4 DEF Apart
  <2>5. QED
    BY <2>2, <2>3, <2>4 DEF Apart
<1>3. QED
  BY <1>1, <1>2

\* Distinct keeps nothing twice.
LEMMA DistinctApart ==
  ASSUME NEW n \in Nat, NEW asked \in [1 .. n -> Doc]
  PROVE  Apart(Distinct(asked))
<1> DEFINE Right(h) == h = [s \in SUBSET (1 .. n) |->
                              IF s = {} THEN <<>> ELSE Taken(h[s \ {Max(s)}], asked[Max(s)])]
<1>1. \E h : Right(h)
  <2>1. PICK g : \A s \in SUBSET (1 .. n) : Kept(g, asked, s)
    BY KeptExists
  <2> DEFINE h == [s \in SUBSET (1 .. n) |-> g[s]]
  <2>2. ASSUME NEW s \in SUBSET (1 .. n)
        PROVE  h[s] = IF s = {} THEN <<>> ELSE Taken(h[s \ {Max(s)}], asked[Max(s)])
    <3>1. s \ {Max(s)} \in SUBSET (1 .. n)
      BY <2>2
    <3>2. h[s] = g[s] /\ h[s \ {Max(s)}] = g[s \ {Max(s)}]
      BY <2>2, <3>1
    <3> HIDE DEF h
    <3>3. QED
      BY <2>1, <2>2, <3>2 DEF Kept
  <2>3. h = [s \in SUBSET (1 .. n) |-> h[s]]
    OBVIOUS
  <2> HIDE DEF h
  <2>4. Right(h)
    BY <2>2, <2>3
  <2>5. QED
    BY <2>4
<1> DEFINE h == CHOOSE f : Right(f)
<1>2. Right(h)
  BY <1>1
<1>3. Distinct(asked) = h[1 .. n]
  <2>1. DOMAIN asked = 1 .. n
    OBVIOUS
  <2>2. QED
    BY <2>1, DistinctFolds
<1> HIDE DEF h
<1>4. h[{}] = <<>>
  BY <1>2
<1>5. ASSUME NEW k \in 1 .. n
      PROVE  h[1 .. k] = Taken(h[1 .. k - 1], asked[k])
  <2>1. 1 .. k \in SUBSET (1 .. n) /\ k \in 1 .. k /\ k \in Nat
    BY <1>5
  <2>2. Max(1 .. k) = k
    BY <2>1, Greatest
  <2>3. (1 .. k) \ {k} = 1 .. k - 1
    BY <2>1
  <2>4. 1 .. k # {}
    BY <2>1
  <2>5. h[1 .. k] = Taken(h[(1 .. k) \ {Max(1 .. k)}], asked[Max(1 .. k)])
    BY <1>2, <2>1, <2>4
  <2>6. QED
    BY <2>2, <2>3, <2>5
<1> DEFINE T == {k \in 0 .. n : ~(h[1 .. k] \in Seq(Doc) /\ Apart(h[1 .. k]))}
<1>6. T = {}
  <2>1. SUFFICES ASSUME T # {} PROVE FALSE
    OBVIOUS
  <2>2. T \subseteq Nat
    OBVIOUS
  <2>3. PICK k \in T : \A j \in T : k <= j
    BY <2>1, <2>2, LeastElement
  <2>4. k # 0
    <3>1. 1 .. 0 = {}
      OBVIOUS
    <3>2. h[1 .. 0] = <<>>
      BY <1>4, <3>1, Zenon
    <3>3. <<>> \in Seq(Doc) /\ Apart(<<>>)
      BY EmptySeq DEF Apart
    <3>4. h[1 .. 0] \in Seq(Doc) /\ Apart(h[1 .. 0])
      BY <3>2, <3>3, Zenon
    <3>5. QED
      BY <2>3, <3>4
  <2>5. k \in 1 .. n /\ k - 1 \in 0 .. n /\ k - 1 \notin T /\ asked[k] \in Doc
    BY <2>3, <2>4
  <2>6. h[1 .. k - 1] \in Seq(Doc) /\ Apart(h[1 .. k - 1])
    BY <2>5
  <2>7. h[1 .. k] \in Seq(Doc) /\ Apart(h[1 .. k])
    BY <1>5, <2>5, <2>6, TakenApart
  <2>8. QED
    BY <2>3, <2>7
<1>7. n \in 0 .. n
  OBVIOUS
<1>8. QED
  BY <1>3, <1>6, <1>7

\* Two publishes under way at once are never of one document (publish.ts:337-342),
\* for any batch, duplicates included, and any number of workers.
THEOREM OneWriter == Spec => []OneWriterPerDocument
<1>1. Init => Apart(ids)
  BY BatchAssumption, DistinctApart DEF Init
<1>2. Apart(ids) /\ [Next]_vars => Apart(ids)'
  <2> SUFFICES ASSUME [Next]_vars PROVE ids' = ids
    BY DEF Apart
  <2>1. ASSUME NEW i \in Item, Start(i) \/ PublishOne(i)
        PROVE  ids' = ids
    BY <2>1 DEF Start, PublishOne, Read, TakeTurn, Charge, CutShort, Judge, Conclude, Write,
                Settle, HandOn
  <2>2. QED
    BY <2>1 DEF Next, Finish, Reject, vars
<1>3. Apart(ids) => OneWriterPerDocument
  BY DEF Apart, OneWriterPerDocument, Item
<1>4. QED
  BY <1>1, <1>2, <1>3, PTL DEF Spec

\* publishDocuments judges as JudgingOrder does: the verdicts of an over-budget
\* call depend on the batch's order, not on which read finished first nor on
\* the number of workers (publish.ts:363-366).
THEOREM Ordered == Spec => JudgedInOrder
<1>1. Init => Order!Init
  <2> SUFFICES ASSUME Init PROVE Order!Init
    OBVIOUS
  <2>1. \A i \in Item : stage[i] # "judging"
    BY DEF Init
  <2>2. LeftBefore = Budget
    BY <2>1, LeftOtherwise DEF Init
  <2>3. QED
    BY <2>2 DEF Init, Order!Init
<1>2. QED
  BY <1>1, StepOrders, Turns, PTL DEF Spec, JudgedInOrder, Order!Spec, docs
================================================================================
