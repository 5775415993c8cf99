----------------------------- MODULE CheckpointLog -----------------------------
(***************************************************************************)
(* What the checkpoint chain promises its readers: a log of snapshots that *)
(* only grows, each one numbered after the one before it and hashed over   *)
(* it.  A chain that can no longer be read is set aside whole, and a new   *)
(* one starts at 1.  Module Checkpoint implements it.                      *)
(***************************************************************************)
EXTENDS Naturals, Sequences

VARIABLES
  log,       \* the checkpoints of context_history.yaml
  readable   \* FALSE when the file does not parse

\* A checkpoint's hash, as the sequence of payloads it covers.
HashOf(cp) == Append(cp.prev, [number |-> cp.number, at |-> cp.at, sealed |-> cp.sealed])

LastHash(chain) == IF chain = <<>> THEN <<>> ELSE HashOf(chain[Len(chain)])

\* cp continues the chain.
Continues(chain, cp) == cp.number = Len(chain) + 1 /\ cp.prev = LastHash(chain)

Init == log = <<>> /\ readable = TRUE

Extend ==
  /\ readable
  /\ Len(log') = Len(log) + 1
  /\ \A i \in DOMAIN log : log'[i] = log[i]
  /\ Continues(log, log'[Len(log')])
  /\ UNCHANGED readable

Damage == readable' = FALSE /\ log' = <<>>

Restart ==
  /\ ~readable
  /\ readable' = TRUE
  /\ Len(log') = 1
  /\ Continues(<<>>, log'[1])

Next == Extend \/ Damage \/ Restart

Spec == Init /\ [][Next]_<<log, readable>>
================================================================================
