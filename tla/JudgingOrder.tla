------------------------------ MODULE JudgingOrder ------------------------------
(***************************************************************************)
(* What the judging turns of a bulk publish promise (publish.ts, the       *)
(* comment on `turns`): the documents are judged against the structure     *)
(* rules one after the other, in the order they were asked for, so which   *)
(* of them an over-budget call refuses is the same on every run.  Module   *)
(* PublishBatch implements it with a pool of concurrent workers.           *)
(***************************************************************************)
EXTENDS Integers, Sequences

CONSTANT Budget   \* replay work the call allows

VARIABLES
  docs,     \* what each document of the batch is like (PublishBatch!Nature)
  left,     \* replayBudget.left
  spent,    \* replayBudget.spent
  verdict   \* per document: "none" until it is judged

Verdict(nature) == IF nature.conforms THEN "pass" ELSE "refused"

Init ==
  /\ left = Budget
  /\ spent = FALSE
  /\ verdict = [i \in DOMAIN docs |-> "none"]

\* i is the first document that can be judged and has not been.
IsNext(i) ==
  /\ docs[i].reads
  /\ verdict[i] = "none"
  /\ \A j \in DOMAIN docs : j < i /\ docs[j].reads => verdict[j] # "none"

Affordable(i) == docs[i].work = 0 \/ (~spent /\ docs[i].work <= left)

\* A document whose replay fits in what is left gets the rules' verdict.
Judge(i) ==
  /\ IsNext(i)
  /\ Affordable(i)
  /\ left' = left - docs[i].work
  /\ verdict' = [verdict EXCEPT ![i] = Verdict(docs[i])]
  /\ UNCHANGED <<docs, spent>>

\* One that does not fit spends the budget and is cut short.
CutShort(i) ==
  /\ IsNext(i)
  /\ ~Affordable(i)
  /\ left' = -1
  /\ spent' = TRUE
  /\ verdict' = [verdict EXCEPT ![i] = "cut"]
  /\ UNCHANGED docs

Next == \E i \in DOMAIN docs : Judge(i) \/ CutShort(i)

Spec == Init /\ [][Next]_<<docs, left, spent, verdict>>
================================================================================
