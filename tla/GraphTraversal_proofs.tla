------------------------- MODULE GraphTraversal_proofs -------------------------
(***************************************************************************)
(* What a traversal reaches lies between bounds, for every graph, every set *)
(* of hubs and every whole priority of each document's edges: nothing that  *)
(* all walks take too many hops to; whatever is free from what it reached;  *)
(* and, where no edge costs more than a hop, everything within as many      *)
(* edges as there are hops.                                                 *)
(***************************************************************************)
EXTENDS GraphTraversal, FiniteSetTheorems, SequenceTheorems, WellFoundedInduction, TLAPS

\* No price is below what the specification's table asks for the step.
LEMMA Prices ==
  ASSUME TypeOK, NEW e \in relationships
  PROVE  /\ EdgeCost(e) \in Nat /\ ReverseEdgeCost(e) \in Nat
         /\ StepCost(e, e.to) \in Nat /\ StepCost(e, e.from) \in Nat
         /\ StepCost(e, e.to) = EdgeCost(e)
         /\ StepCost(e, e.from) <= ReverseEdgeCost(e)
         /\ e.from # e.to => StepCost(e, e.from) = ReverseEdgeCost(e)
<1>1. e.from \in Node /\ e.to \in Node /\ e.type \in {"reference", "depends_on"}
  BY DEF TypeOK, Edge
<1>2. priority[e.from] = None \/ priority[e.from] \in Nat
  BY <1>1, PriorityAssumption DEF TypeOK
<1>3. QED
  BY <1>1, <1>2, NoneAssumption DEF EdgeCost, ReverseEdgeCost, StepCost

\* A step over an edge pays for at least what it lowers a bound by.
LEMMA Bounded ==
  ASSUME TypeOK, NEW e \in relationships, NEW d \in [Node -> 0 .. hops + 1], LowerBound(d)
  PROVE  /\ d[e.from] \in Nat /\ d[e.to] \in Nat
         /\ d[e.to] <= d[e.from] + EdgeCost(e)
         /\ d[e.from] <= d[e.to] + ReverseEdgeCost(e)
<1>1. e.from \in Node /\ e.to \in Node
  BY DEF TypeOK, Edge
<1>2. d[e.from] \in Nat /\ d[e.to] \in Nat
  BY <1>1 DEF TypeOK
<1>3. /\ d[e.to] <= d[e.from] + StepCost(e, e.to)
      /\ d[e.from] <= d[e.to] + StepCost(e, e.from)
  BY DEF LowerBound
<1>4. QED
  BY <1>2, <1>3, Prices

\* A function from the first numbers is a sequence.
LEMMA Sequence ==
  ASSUME NEW S, NEW k \in Nat, NEW q \in [1 .. k -> S]
  PROVE  q \in Seq(S)
BY SeqDef

\* The seeds are put in the queue, in whatever order.
LEMMA StartQueue ==
  ASSUME TypeOK, Start
  PROVE  /\ visited' \subseteq Node /\ queue' \in Seq(Node)
         /\ \A i \in DOMAIN queue' : queue'[i] \in visited'
         /\ \A n \in visited' : \E i \in DOMAIN queue' : queue'[i] = n
<1>1. visited' = seeds \cap documents /\ visited' \subseteq Node
  BY DEF Start, TypeOK
<1>2. Cardinality(visited') \in Nat
  BY <1>1, NodeAssumption, FS_Subset, FS_CardinalityType
<1>3. queue' \in [1 .. Cardinality(visited') -> visited']
      /\ \A n \in visited' : \E i \in DOMAIN queue' : queue'[i] = n
  BY DEF Start
<1>4. queue' \in Seq(Node)
  <2>1. queue' \in [1 .. Cardinality(visited') -> Node]
    BY <1>1, <1>3
  <2>2. QED
    BY <1>2, <2>1, Sequence
<1>5. \A i \in DOMAIN queue' : queue'[i] \in visited'
  BY <1>3
<1>6. QED
  BY <1>1, <1>3, <1>4, <1>5

\* What Reach does to the nodes that wait.
LEMMA Reached ==
  ASSUME TypeOK, at \in Node, NEW n \in Node, NEW c \in Nat, Reach(n, c)
  PROVE  /\ visited' \subseteq Node /\ visited \subseteq visited'
         /\ visited' \subseteq visited \cup {n} /\ queue' \in Seq(Node)
         /\ remaining' \in [Node -> Nat]
         /\ (\A i \in DOMAIN queue : queue[i] \in visited) =>
               \A i \in DOMAIN queue' : queue'[i] \in visited'
         /\ \A m : Queued(m) => Queued(m)'
         /\ \A m \in visited' \ visited : Queued(m)'
         /\ \A m \in visited : remaining'[m] = remaining[m]
         /\ \A m \in visited' \ visited : c <= remaining[at] /\ remaining'[m] = remaining[at] - c
         /\ c = 0 => n \in visited'
<1>1. queue \in Seq(Node) /\ remaining[at] \in Nat /\ remaining \in [Node -> Nat]
  BY DEF TypeOK
<1>2. CASE n \notin visited /\ c <= remaining[at]
  <2>1. visited' = visited \cup {n} /\ queue' = Append(queue, n)
        /\ remaining' = [remaining EXCEPT ![n] = remaining[at] - c]
    BY <1>2 DEF Reach
  <2>2. remaining[at] - c \in Nat
    BY <1>1, <1>2
  <2>3. /\ queue' \in Seq(Node) /\ Len(queue') = Len(queue) + 1
        /\ \A i \in 1 .. Len(queue) : queue'[i] = queue[i]
        /\ queue'[Len(queue) + 1] = n /\ Len(queue) \in Nat
        /\ DOMAIN queue = 1 .. Len(queue) /\ DOMAIN queue' = 1 .. Len(queue')
    BY <1>1, <2>1, AppendProperties, LenProperties
  <2>4. \A m : Queued(m) => Queued(m)'
    BY <2>3 DEF Queued
  <2>5. Queued(n)'
    BY <2>3 DEF Queued
  <2>6. (\A i \in DOMAIN queue : queue[i] \in visited) =>
           \A i \in DOMAIN queue' : queue'[i] \in visited'
    BY <2>1, <2>3
  <2>7. remaining' \in [Node -> Nat]
    BY <1>1, <2>1, <2>2
  <2>8. visited' \subseteq Node
    BY <2>1 DEF TypeOK
  <2>9. \A m \in visited' \ visited : m = n
    BY <2>1
  <2>10. remaining'[n] = remaining[at] - c /\ \A m \in visited : remaining'[m] = remaining[m]
    BY <1>1, <1>2, <2>1 DEF TypeOK
  <2>11. QED
    BY <1>2, <2>1, <2>3, <2>4, <2>5, <2>6, <2>7, <2>8, <2>9, <2>10
<1>3. CASE ~(n \notin visited /\ c <= remaining[at])
  <2>1. UNCHANGED <<visited, queue, remaining>>
    BY <1>3 DEF Reach
  <2>2. c = 0 => n \in visited
    BY <1>1, <1>3
  <2>3. QED
    BY <1>1, <2>1, <2>2 DEF Queued, TypeOK
<1>4. QED
  BY <1>2, <1>3

\* The invariant, when an edge is followed: n is the node it leads to, c the
\* price, paid by the node at.
LEMMA PaidStep ==
  ASSUME SearchInv, pc = "search", at \in visited, NEW n \in Node, NEW c \in Nat,
         Reach(n, c), UNCHANGED <<index, query, hops, pc, at>>,
         \A d \in [Node -> 0 .. hops + 1] : LowerBound(d) => d[n] <= d[at] + c
  PROVE  Paid'
<1>1. TypeOK /\ at \in Node /\ hops \in Nat
  BY DEF SearchInv, TypeOK
<1>2. SUFFICES ASSUME NEW d \in [Node -> 0 .. hops + 1], LowerBound(d), NEW m \in visited'
               PROVE  d[m] + remaining'[m] <= hops
  BY DEF Paid, LowerBound, index, query, StepCost
<1>3. \A k \in visited : d[k] + remaining[k] <= hops
  BY <1>2 DEF SearchInv, Paid
<1>4. d[at] \in Nat /\ d[n] \in Nat /\ remaining[at] \in Nat
  BY <1>1 DEF TypeOK
<1>5. CASE m \in visited
  BY <1>1, <1>3, <1>5, Reached
<1>6. CASE m \notin visited
  <2>1. m = n /\ c <= remaining[at] /\ remaining'[m] = remaining[at] - c
    BY <1>1, <1>6, Reached
  <2>2. d[n] <= d[at] + c /\ d[at] + remaining[at] <= hops
    BY <1>2, <1>3
  <2>3. QED
    BY <1>1, <1>4, <2>1, <2>2
<1>7. QED
  BY <1>5, <1>6

\* A search starts: the seeds are reached with every hop left, and all wait.
LEMMA StartStep ==
  ASSUME SearchInv, Start
  PROVE  SearchInv'
<1>1. TypeOK /\ hops \in Nat
  BY DEF SearchInv, TypeOK
<1>2. TypeOK'
  BY <1>1, StartQueue DEF Start, TypeOK, index, query
<1>3. Paid'
  <2>1. SUFFICES ASSUME NEW d \in [Node -> 0 .. hops + 1], LowerBound(d), NEW m \in visited'
                 PROVE  d[m] + remaining'[m] <= hops
    BY DEF Start, Paid, LowerBound, index, query, StepCost
  <2>2. d[m] = 0 /\ remaining'[m] = hops
    BY <1>1, <2>1, StartQueue DEF Start, LowerBound
  <2>3. QED
    BY <1>1, <2>2
<1>4. LeftBehind'
  <2>1. outbound' = {} /\ inbound' = {} /\ pc' = "search" /\ relationships' = relationships
        /\ seeds' \cap documents' \subseteq visited'
    BY DEF Start, index, query
  <2>2. \A n \in visited' : Queued(n)'
    BY <1>1, StartQueue DEF Queued
  <2>3. QED
    BY <1>1, <2>1, <2>2, StartQueue DEF LeftBehind
<1>5. QED
  BY <1>2, <1>3, <1>4 DEF SearchInv

\* The head of the queue is left: what is free from it is among the edges to look at.
LEMMA LeaveStep ==
  ASSUME SearchInv, Leave
  PROVE  SearchInv'
<1>1. TypeOK /\ pc = "search" /\ queue \in Seq(Node) /\ queue # <<>>
  BY DEF SearchInv, TypeOK, Leave
<1>2. /\ Tail(queue) \in Seq(Node) /\ Head(queue) = queue[1] /\ 1 \in DOMAIN queue
      /\ Len(Tail(queue)) = Len(queue) - 1 /\ Len(queue) \in Nat
      /\ DOMAIN queue = 1 .. Len(queue) /\ DOMAIN Tail(queue) = 1 .. Len(Tail(queue))
      /\ \A i \in 1 .. Len(queue) - 1 : Tail(queue)[i] = queue[i + 1]
  BY <1>1, HeadTailProperties, LenProperties, EmptySeq
<1>3. at' \in Node /\ at' \in visited /\ queue' = Tail(queue)
  BY <1>1, <1>2 DEF Leave, SearchInv, LeftBehind
<1>4. \A m : Queued(m) => m = at' \/ Queued(m)'
  <2>1. SUFFICES ASSUME NEW m, NEW i \in DOMAIN queue, queue[i] = m
                 PROVE  m = at' \/ Queued(m)'
    BY DEF Queued
  <2>2. CASE i = 1
    BY <1>2, <2>1, <2>2 DEF Leave
  <2>3. CASE i # 1
    <3>1. i - 1 \in DOMAIN queue' /\ queue'[i - 1] = m
      BY <1>2, <1>3, <2>1, <2>3
    <3>2. QED
      BY <3>1 DEF Queued
  <2>4. QED
    BY <2>2, <2>3
<1>5. TypeOK'
  BY <1>1, <1>2, <1>3 DEF Leave, TypeOK, index, query
<1>6. Paid'
  BY DEF SearchInv, Paid, Leave, LowerBound, index, query, StepCost
<1>7. LeftBehind'
  <2>1. UNCHANGED <<relationships, documents, seeds, priority, hubs, visited, pc>>
        /\ outbound = {} /\ inbound = {}
        /\ outbound' = {e \in relationships : e.from = at'}
        /\ inbound' = {e \in relationships : e.to = at'}
    BY DEF Leave, index, query
  <2>2. \A i \in DOMAIN queue' : queue'[i] \in visited'
    BY <1>1, <1>2, <1>3, <2>1 DEF SearchInv, LeftBehind
  <2>3. \A e \in relationships :
          /\ e.from \in visited /\ StepCost(e, e.to) = 0 =>
               e.to \in visited \/ e \in outbound' \/ Queued(e.from)'
          /\ e.to \in visited /\ StepCost(e, e.from) = 0 =>
               e.from \in visited \/ e \in inbound' \/ Queued(e.to)'
    BY <1>1, <1>4, <2>1 DEF SearchInv, LeftBehind
  <2>4. \A e, n : StepCost(e, n)' = StepCost(e, n)
    BY <2>1 DEF StepCost
  <2>5. QED
    BY <1>1, <1>3, <2>1, <2>2, <2>3, <2>4 DEF SearchInv, LeftBehind
<1>8. QED
  BY <1>5, <1>6, <1>7 DEF SearchInv

\* An edge of the node being left is followed forwards.
LEMMA FollowOutStep ==
  ASSUME SearchInv, NEW e \in relationships, FollowOut(e)
  PROVE  SearchInv'
<1>1. /\ TypeOK /\ pc = "search" /\ e \in outbound /\ e.from = at /\ at \in visited
      /\ at \in Node /\ e.to \in Node
  BY DEF SearchInv, TypeOK, LeftBehind, FollowOut, Edge
<1>2. /\ UNCHANGED <<index, query, hops, pc, at, inbound>>
      /\ outbound' = outbound \ {e} /\ Reach(e.to, EdgeCost(e)) /\ EdgeCost(e) \in Nat
  BY <1>1, Prices DEF FollowOut
<1>3. \A d \in [Node -> 0 .. hops + 1] : LowerBound(d) => d[e.to] <= d[at] + EdgeCost(e)
  BY <1>1, Bounded
<1>4. Paid'
  BY <1>1, <1>2, <1>3, PaidStep
<1>5. TypeOK'
  BY <1>1, <1>2, Reached DEF TypeOK, index, query
<1>6. LeftBehind'
  <2>1. UNCHANGED <<relationships, documents, seeds, priority, hubs, pc, at, inbound>>
    BY <1>2 DEF index, query
  <2>2. \A k, n : StepCost(k, n)' = StepCost(k, n)
    BY <2>1 DEF StepCost
  <2>3. /\ visited \subseteq visited' /\ \A i \in DOMAIN queue' : queue'[i] \in visited'
        /\ \A m : Queued(m) => Queued(m)'
        /\ \A m \in visited' \ visited : Queued(m)'
        /\ EdgeCost(e) = 0 => e.to \in visited'
    BY <1>1, <1>2, Reached DEF SearchInv, LeftBehind
  <2>4. \A k \in relationships :
          /\ k.from \in visited' /\ StepCost(k, k.to) = 0 =>
               k.to \in visited' \/ k \in outbound' \/ Queued(k.from)'
          /\ k.to \in visited' /\ StepCost(k, k.from) = 0 =>
               k.from \in visited' \/ k \in inbound' \/ Queued(k.to)'
    <3>1. SUFFICES ASSUME NEW k \in relationships
                   PROVE  /\ k.from \in visited' /\ StepCost(k, k.to) = 0 =>
                               k.to \in visited' \/ k \in outbound' \/ Queued(k.from)'
                          /\ k.to \in visited' /\ StepCost(k, k.from) = 0 =>
                               k.from \in visited' \/ k \in inbound' \/ Queued(k.to)'
      OBVIOUS
    <3>2. /\ k.from \in visited /\ StepCost(k, k.to) = 0 =>
               k.to \in visited \/ k \in outbound \/ Queued(k.from)
          /\ k.to \in visited /\ StepCost(k, k.from) = 0 =>
               k.from \in visited \/ k \in inbound \/ Queued(k.to)
      BY <1>1 DEF SearchInv, LeftBehind
    <3>3. StepCost(e, e.to) = EdgeCost(e)
      BY <1>1, Prices
    <3>4. QED
      BY <1>2, <2>1, <2>3, <3>2, <3>3
  <2>5. QED
    BY <1>1, <1>2, <2>1, <2>2, <2>3, <2>4 DEF SearchInv, LeftBehind
<1>7. QED
  BY <1>4, <1>5, <1>6 DEF SearchInv

\* An edge into the node being left is followed backwards.
LEMMA FollowInStep ==
  ASSUME SearchInv, NEW e \in relationships, FollowIn(e)
  PROVE  SearchInv'
<1>1. /\ TypeOK /\ pc = "search" /\ e \in inbound /\ e.to = at /\ at \in visited
      /\ at \in Node /\ e.from \in Node
  BY DEF SearchInv, TypeOK, LeftBehind, FollowIn, Edge
<1>2. /\ UNCHANGED <<index, query, hops, pc, at, outbound>>
      /\ inbound' = inbound \ {e} /\ Reach(e.from, ReverseEdgeCost(e))
      /\ ReverseEdgeCost(e) \in Nat
  BY <1>1, Prices DEF FollowIn
<1>3. \A d \in [Node -> 0 .. hops + 1] : LowerBound(d) => d[e.from] <= d[at] + ReverseEdgeCost(e)
  BY <1>1, Bounded
<1>4. Paid'
  BY <1>1, <1>2, <1>3, PaidStep
<1>5. TypeOK'
  BY <1>1, <1>2, Reached DEF TypeOK, index, query
<1>6. LeftBehind'
  <2>1. UNCHANGED <<relationships, documents, seeds, priority, hubs, pc, at, outbound>>
    BY <1>2 DEF index, query
  <2>2. \A k, n : StepCost(k, n)' = StepCost(k, n)
    BY <2>1 DEF StepCost
  <2>3. /\ visited \subseteq visited' /\ \A i \in DOMAIN queue' : queue'[i] \in visited'
        /\ \A m : Queued(m) => Queued(m)'
        /\ \A m \in visited' \ visited : Queued(m)'
        /\ ReverseEdgeCost(e) = 0 => e.from \in visited'
    BY <1>1, <1>2, Reached DEF SearchInv, LeftBehind
  <2>4. \A k \in relationships :
          /\ k.from \in visited' /\ StepCost(k, k.to) = 0 =>
               k.to \in visited' \/ k \in outbound' \/ Queued(k.from)'
          /\ k.to \in visited' /\ StepCost(k, k.from) = 0 =>
               k.from \in visited' \/ k \in inbound' \/ Queued(k.to)'
    <3>1. SUFFICES ASSUME NEW k \in relationships
                   PROVE  /\ k.from \in visited' /\ StepCost(k, k.to) = 0 =>
                               k.to \in visited' \/ k \in outbound' \/ Queued(k.from)'
                          /\ k.to \in visited' /\ StepCost(k, k.from) = 0 =>
                               k.from \in visited' \/ k \in inbound' \/ Queued(k.to)'
      OBVIOUS
    <3>2. /\ k.from \in visited /\ StepCost(k, k.to) = 0 =>
               k.to \in visited \/ k \in outbound \/ Queued(k.from)
          /\ k.to \in visited /\ StepCost(k, k.from) = 0 =>
               k.from \in visited \/ k \in inbound \/ Queued(k.to)
      BY <1>1 DEF SearchInv, LeftBehind
    <3>3. e.from \in visited' \/ StepCost(e, e.from) = ReverseEdgeCost(e)
      BY <1>1, <2>3, Prices
    <3>4. QED
      BY <1>2, <2>1, <2>3, <3>2, <3>3
  <2>5. QED
    BY <1>1, <1>2, <2>1, <2>2, <2>3, <2>4 DEF SearchInv, LeftBehind
<1>7. QED
  BY <1>4, <1>5, <1>6 DEF SearchInv

\* The inductive invariant holds in every state.
THEOREM Searching == Spec => []SearchInv
<1>1. Init => SearchInv
  <2>1. SUFFICES ASSUME Init PROVE SearchInv
    OBVIOUS
  <2>2. relationships \subseteq Edge
    <3>1. Links(documents) \subseteq Edge
      BY DEF Links
    <3>2. SUFFICES ASSUME relationships # {}
                   PROVE  relationships \subseteq Edge
      OBVIOUS
    <3>3. PICK q \in [1 .. MaxEdges -> Links(documents)] :
             relationships = {q[i] : i \in 1 .. MaxEdges}
      BY <2>1, <3>2 DEF Init
    <3>4. \A i \in 1 .. MaxEdges : q[i] \in Links(documents)
      OBVIOUS
    <3>5. QED
      BY <3>1, <3>3, <3>4
  <2>3. hubs \subseteq Node
    BY <2>1 DEF Init, HubsOf, Central
  <2>4. priority \in [Node -> Priority \cup {None}]
    BY <2>1 DEF Init
  <2>5. QED
    BY <2>1, <2>2, <2>3, <2>4, HopAssumption DEF Init, SearchInv, TypeOK, Paid, LeftBehind
<1>2. SearchInv /\ [Next]_vars => SearchInv'
  <2> SUFFICES ASSUME SearchInv, [Next]_vars
               PROVE  SearchInv'
    OBVIOUS
  <2>1. CASE Start
    BY <2>1, StartStep
  <2>2. CASE Leave
    BY <2>2, LeaveStep
  <2>3. ASSUME NEW e \in relationships, FollowOut(e)
        PROVE  SearchInv'
    BY <2>3, FollowOutStep
  <2>4. ASSUME NEW e \in relationships, FollowIn(e)
        PROVE  SearchInv'
    BY <2>4, FollowInStep
  <2>5. CASE Retry
    BY <2>5 DEF Retry, SearchInv, TypeOK, Paid, LeftBehind, index, query, search
  <2>6. CASE Return \/ UNCHANGED vars
    <3>1. UNCHANGED <<index, query, hops, search>>
          /\ (pc' = pc \/ (pc = "search" /\ pc' = "done" /\ outbound = {} /\ inbound = {} /\ queue = <<>>))
      BY <2>6 DEF Return, Searched, vars
    <3>2. \A k, n : StepCost(k, n)' = StepCost(k, n)
      BY <3>1 DEF StepCost, index
    <3>3. \A n : Queued(n)' <=> Queued(n)
      BY <3>1 DEF Queued, search
    <3>4. TypeOK'
      BY <3>1 DEF SearchInv, TypeOK, index, query, search
    <3>5. Paid'
      BY <3>1 DEF SearchInv, Paid, LowerBound, StepCost, index, query, search
    <3>6. LeftBehind'
      BY <3>1, <3>2, <3>3 DEF SearchInv, LeftBehind, index, query, search
    <3>7. QED
      BY <3>4, <3>5, <3>6 DEF SearchInv
  <2>7. QED
    BY <2>1, <2>2, <2>3, <2>4, <2>5, <2>6 DEF Next
<1>3. QED
  BY <1>1, <1>2, PTL DEF Spec

\* Nothing is reached that every walk takes more hops to than the query has.
THEOREM WithinHops == Spec => []ReachedWithinHops
<1>1. SearchInv => ReachedWithinHops
  <2>1. SUFFICES ASSUME SearchInv, pc = "done", NEW d \in [Node -> 0 .. hops + 1], LowerBound(d),
                        NEW n \in visited
                 PROVE  d[n] <= hops
    BY DEF ReachedWithinHops
  <2>2. d[n] + remaining[n] <= hops
    BY <2>1 DEF SearchInv, Paid
  <2>3. d[n] \in Nat /\ remaining[n] \in Nat /\ hops \in Nat
    BY <2>1 DEF SearchInv, TypeOK
  <2>4. QED
    BY <2>2, <2>3
<1>2. QED
  BY <1>1, Searching, PTL

\* Whatever is free from what a traversal reached is reached.
THEOREM FreeSteps == Spec => []FreeStepsTaken
<1>1. SearchInv => FreeStepsTaken
  <2>1. SUFFICES ASSUME SearchInv, pc = "done"
                 PROVE  FreeStepsTaken
    BY DEF FreeStepsTaken
  <2>2. queue = <<>> /\ outbound = {} /\ inbound = {}
    BY <2>1 DEF SearchInv, LeftBehind
  <2>3. \A n : ~Queued(n)
    BY <2>2 DEF Queued
  <2>4. QED
    BY <2>1, <2>2, <2>3 DEF SearchInv, LeftBehind, FreeStepsTaken
<1>2. QED
  BY <1>1, Searching, PTL

-----------------------------------------------------------------------------
(* Where no edge costs more than a hop: the search goes level by level.    *)

\* Every non-empty set of naturals has a least element.
LEMMA LeastElement ==
  ASSUME NEW T, T \subseteq Nat, T # {}
  PROVE  \E x \in T : \A y \in T : x <= y
<1>1. PICK x \in T : \A y \in T : <<y, x>> \notin OpToRel(<, Nat)
  BY NatLessThanWellFounded, WFMin
<1>2. \A y \in T : ~(y < x)
  BY <1>1 DEF OpToRel
<1>3. QED
  BY <1>2

\* No edge costs more than a hop.
Cheap == \A n \in Node : priority[n] \in {None, 0, 1}

LEMMA CheapPrices ==
  ASSUME TypeOK, Cheap, NEW e \in relationships
  PROVE  EdgeCost(e) \in {0, 1} /\ ReverseEdgeCost(e) \in {0, 1}
BY NoneAssumption DEF TypeOK, Edge, Cheap, EdgeCost, ReverseEdgeCost

\* When what waits is of at least some level, and nothing else is left to look at,
\* every node up to that level has been reached: a lowest one that is not would
\* have a neighbour that is, and was left.
LEMMA Complete ==
  ASSUME TypeOK, NEW l \in [Node -> 0 .. hops + 1], Levels(l), ByLevel(l), LeftBehind,
         pc # "start", outbound = {}, inbound = {},
         NEW k \in Nat, k <= hops, \A i \in DOMAIN queue : k <= l[queue[i]],
         NEW n \in Node, l[n] <= k
  PROVE  n \in visited
<1> DEFINE Missing == {m \in Node : l[m] <= k /\ m \notin visited}
           T == {l[m] : m \in Missing}
<1>1. SUFFICES ASSUME Missing # {} PROVE FALSE
  OBVIOUS
<1>2. T \subseteq Nat /\ T # {}
  <2>1. hops + 1 \in Nat
    BY DEF TypeOK
  <2>2. \A m \in Missing : l[m] \in Nat
    BY <2>1
  <2>3. QED
    BY <1>1, <2>2
<1>3. PICK low \in T : \A y \in T : low <= y
  BY <1>2, LeastElement
<1>4. PICK m \in Missing : \A x \in Missing : l[m] <= l[x]
  BY <1>3
<1>5. m \in Node /\ m \notin visited /\ l[m] \in 0 .. hops /\ hops \in Nat /\ l[m] <= k
  BY <1>4 DEF TypeOK
<1>6. l[m] # 0
  BY <1>5 DEF Levels, LeftBehind
<1>7. PICK x \in Node : Joined(x, m) /\ l[x] = l[m] - 1
  BY <1>5, <1>6 DEF Levels
<1>8. x \in visited
  <2>1. x \notin Missing
    BY <1>4, <1>5, <1>7
  <2>2. QED
    BY <1>5, <1>7, <2>1
<1>9. ~Queued(x)
  BY <1>5, <1>7 DEF Queued
<1>10. l[x] < hops
  BY <1>5, <1>7
<1>11. m \in visited
  BY <1>7, <1>8, <1>9, <1>10 DEF ByLevel, Joined
<1>12. QED
  BY <1>5, <1>11

\* What Reach adds goes to the end of the queue.
LEMMA ReachedLast ==
  ASSUME TypeOK, at \in Node, NEW n \in Node, NEW c \in Nat, Reach(n, c)
  PROVE  \/ UNCHANGED <<visited, queue, remaining>>
         \/ /\ n \notin visited /\ visited' = visited \cup {n}
            /\ Len(queue) \in Nat /\ DOMAIN queue = 1 .. Len(queue)
            /\ DOMAIN queue' = 1 .. Len(queue) + 1
            /\ \A i \in 1 .. Len(queue) : queue'[i] = queue[i]
            /\ queue'[Len(queue) + 1] = n
<1>1. queue \in Seq(Node)
  BY DEF TypeOK
<1>2. QED
  BY <1>1, AppendProperties, LenProperties DEF Reach

\* The step over an edge of the node being left: n is the node it leads to.
LEMMA LevelStep ==
  ASSUME SearchInv, pc = "search", at \in visited, NEW n \in Node, NEW c \in {0, 1},
         Reach(n, c), UNCHANGED <<index, query, hops, pc, at>>, Joined(at, n),
         NEW l \in [Node -> 0 .. hops + 1], Levels(l), ByLevel(l)
  PROVE  /\ \A m \in visited' : hops <= l[m] + remaining'[m]
         /\ \A i, j \in DOMAIN queue' : i <= j => /\ l[queue'[i]] <= l[queue'[j]]
                                                 /\ l[queue'[j]] <= l[queue'[i]] + 1
         /\ at # None =>
              /\ \A i \in DOMAIN queue' : l[at] <= l[queue'[i]] /\ l[queue'[i]] <= l[at] + 1
              /\ \A m \in Node : l[m] <= l[at] /\ l[m] <= hops => m \in visited'
         /\ l[at] < hops => n \in visited'
<1>1. TypeOK /\ at \in Node /\ hops \in Nat /\ at # None
  BY NoneAssumption DEF SearchInv, TypeOK
<1>2. /\ l[at] \in 0 .. hops + 1 /\ l[n] \in 0 .. hops + 1 /\ l[n] <= l[at] + 1
      /\ remaining[at] \in Nat
  BY <1>1 DEF Levels, TypeOK
<1>3. /\ \A i \in DOMAIN queue : l[at] <= l[queue[i]] /\ l[queue[i]] <= l[at] + 1
      /\ \A m \in Node : l[m] <= l[at] /\ l[m] <= hops => m \in visited
      /\ hops <= l[at] + remaining[at]
      /\ \A m \in visited : hops <= l[m] + remaining[m]
      /\ \A i, j \in DOMAIN queue : i <= j => /\ l[queue[i]] <= l[queue[j]]
                                             /\ l[queue[j]] <= l[queue[i]] + 1
  BY <1>1 DEF ByLevel
<1>4. n \notin visited => l[n] = l[at] + 1 \/ (l[at] = hops + 1 /\ l[n] = hops + 1)
  BY <1>1, <1>2, <1>3
<1>5. l[at] < hops => n \in visited'
  <2>1. l[at] < hops => c <= remaining[at]
    BY <1>1, <1>2, <1>3
  <2>2. QED
    BY <2>1 DEF Reach
<1>6. CASE UNCHANGED <<visited, queue, remaining>>
  BY <1>3, <1>5, <1>6
<1>7. CASE visited' # visited
  <2>1. /\ n \notin visited /\ visited' = visited \cup {n}
        /\ Len(queue) \in Nat /\ DOMAIN queue = 1 .. Len(queue)
        /\ DOMAIN queue' = 1 .. Len(queue) + 1
        /\ \A i \in 1 .. Len(queue) : queue'[i] = queue[i]
        /\ queue'[Len(queue) + 1] = n
    BY <1>1, <1>7, ReachedLast
  <2>2. \A m \in visited' : hops <= l[m] + remaining'[m]
    <3>1. \A m \in visited : remaining'[m] = remaining[m]
      BY <1>1, Reached
    <3>2. remaining'[n] = remaining[at] - c /\ c <= remaining[at]
      BY <1>1, <2>1, Reached
    <3>3. hops <= l[n] + remaining'[n]
      BY <1>1, <1>2, <1>3, <1>4, <2>1, <3>2
    <3>4. QED
      BY <1>3, <2>1, <3>1, <3>3
  <2>3. \A i \in DOMAIN queue : queue[i] \in Node
    BY <1>1 DEF TypeOK
  <2>4. \A i, j \in DOMAIN queue' : i <= j => /\ l[queue'[i]] <= l[queue'[j]]
                                             /\ l[queue'[j]] <= l[queue'[i]] + 1
    <3>1. SUFFICES ASSUME NEW i \in DOMAIN queue', NEW j \in DOMAIN queue', i <= j
                   PROVE  /\ l[queue'[i]] <= l[queue'[j]]
                          /\ l[queue'[j]] <= l[queue'[i]] + 1
      OBVIOUS
    <3>2. CASE j \in DOMAIN queue
      BY <1>3, <2>1, <3>1, <3>2
    <3>3. CASE j \notin DOMAIN queue /\ i \in DOMAIN queue
      <4>1. queue'[j] = n /\ queue'[i] = queue[i] /\ l[queue[i]] \in 0 .. hops + 1
        BY <2>1, <2>3, <3>1, <3>3
      <4>2. l[at] <= l[queue[i]] /\ l[queue[i]] <= l[at] + 1
        BY <1>3, <3>3
      <4>3. QED
        BY <1>1, <1>2, <1>4, <2>1, <4>1, <4>2
    <3>4. CASE i \notin DOMAIN queue
      BY <1>1, <1>2, <2>1, <3>1, <3>4
    <3>5. QED
      BY <3>2, <3>3, <3>4
  <2>5. \A i \in DOMAIN queue' : l[at] <= l[queue'[i]] /\ l[queue'[i]] <= l[at] + 1
    <3>1. l[at] <= l[n] /\ l[n] <= l[at] + 1
      BY <1>1, <1>2, <1>4, <2>1
    <3>2. QED
      BY <1>3, <2>1, <3>1
  <2>6. \A m \in Node : l[m] <= l[at] /\ l[m] <= hops => m \in visited'
    BY <1>3, <2>1
  <2>7. QED
    BY <1>5, <2>2, <2>4, <2>5, <2>6
<1>8. QED
  BY <1>1, <1>6, <1>7, ReachedLast

\* The seeds are all of level 0, and all wait.
LEMMA LevelStart ==
  ASSUME SearchInv, Start
  PROVE  LevelInv'
<1>1. TypeOK /\ hops \in Nat /\ UNCHANGED <<index, query, hops>>
  BY DEF SearchInv, TypeOK, Start
<1>2. SUFFICES ASSUME NEW l \in [Node -> 0 .. hops + 1], Levels(l)
               PROVE  ByLevel(l)'
  BY <1>1 DEF LevelInv, Levels, Joined, index, query
<1>3. \A n \in visited' : l[n] = 0 /\ remaining'[n] = hops /\ n \in Node
  BY <1>1, <1>2 DEF Start, Levels, TypeOK
<1>4. /\ \A i \in DOMAIN queue' : queue'[i] \in visited'
      /\ \A n \in visited' : Queued(n)'
  BY <1>1, StartQueue DEF Queued
<1>5. at' = None
  BY DEF Start
<1>6. QED
  BY <1>1, <1>3, <1>4, <1>5 DEF ByLevel

\* The head of the queue is left: it is of the lowest level that waits.
LEMMA LevelLeave ==
  ASSUME SearchInv, LevelInv, Leave
  PROVE  LevelInv'
<1>1. TypeOK /\ pc = "search" /\ queue \in Seq(Node) /\ queue # <<>> /\ LeftBehind
      /\ outbound = {} /\ inbound = {} /\ hops \in Nat
  BY DEF SearchInv, TypeOK, Leave
<1>2. /\ Head(queue) = queue[1] /\ 1 \in DOMAIN queue /\ Len(queue) \in Nat
      /\ DOMAIN queue = 1 .. Len(queue) /\ DOMAIN Tail(queue) = 1 .. Len(queue) - 1
      /\ \A i \in 1 .. Len(queue) - 1 : Tail(queue)[i] = queue[i + 1]
  BY <1>1, HeadTailProperties, LenProperties, EmptySeq
<1>3. /\ UNCHANGED <<relationships, documents, priority, hubs, seeds, hops, pc, visited, remaining>>
      /\ at' = queue[1] /\ at' \in Node /\ queue' = Tail(queue)
      /\ outbound' = {e \in relationships : e.from = at'}
      /\ inbound' = {e \in relationships : e.to = at'}
  BY <1>1, <1>2 DEF Leave, index, query
<1>4. SUFFICES ASSUME Cheap, NEW l \in [Node -> 0 .. hops + 1], Levels(l)
               PROVE  ByLevel(l)'
  BY <1>3 DEF LevelInv, Levels, Joined, Cheap
<1>5. ByLevel(l)
  BY <1>1, <1>4 DEF LevelInv, Cheap
<1>6. \A i, j \in DOMAIN queue : i <= j => /\ l[queue[i]] <= l[queue[j]]
                                           /\ l[queue[j]] <= l[queue[i]] + 1
  BY <1>5 DEF ByLevel
<1>7. \A i \in DOMAIN queue' : i + 1 \in DOMAIN queue /\ queue'[i] = queue[i + 1] /\ i \in Nat
  BY <1>2, <1>3
<1>8. \A i, j \in DOMAIN queue' : i <= j => /\ l[queue'[i]] <= l[queue'[j]]
                                             /\ l[queue'[j]] <= l[queue'[i]] + 1
  BY <1>6, <1>7
<1>9. \A i \in DOMAIN queue' : l[at'] <= l[queue'[i]] /\ l[queue'[i]] <= l[at'] + 1
  BY <1>2, <1>3, <1>6, <1>7
<1>10. \A n \in Node : l[n] <= l[at'] /\ l[n] <= hops => n \in visited'
  <2>1. SUFFICES ASSUME NEW n \in Node, l[n] <= l[at'], l[n] <= hops
                 PROVE  n \in visited
    BY <1>3
  <2>2. \A i \in DOMAIN queue : l[at'] <= l[queue[i]]
    BY <1>2, <1>3, <1>6
  <2>3. l[n] \in Nat /\ l[at'] \in Nat /\ \A i \in DOMAIN queue : l[queue[i]] \in Nat
    BY <1>1, <1>3 DEF TypeOK
  <2>4. \A i \in DOMAIN queue : l[n] <= l[queue[i]]
    BY <2>1, <2>2, <2>3
  <2>5. l[n] <= l[n]
    BY <2>3
  <2>6. QED
    BY <1>1, <1>4, <1>5, <2>1, <2>3, <2>4, <2>5, Complete
<1>11. \A m : Queued(m) => m = at' \/ Queued(m)'
  <2>1. SUFFICES ASSUME NEW m, NEW i \in DOMAIN queue, queue[i] = m
                 PROVE  m = at' \/ Queued(m)'
    BY DEF Queued
  <2>2. CASE i = 1
    BY <1>3, <2>1, <2>2
  <2>3. CASE i # 1
    <3>1. i - 1 \in DOMAIN queue' /\ queue'[i - 1] = m
      BY <1>2, <1>3, <2>1, <2>3
    <3>2. QED
      BY <3>1 DEF Queued
  <2>4. QED
    BY <2>2, <2>3
<1>12. \A e \in relationships :
         /\ e.from \in visited /\ l[e.from] < hops =>
              e.to \in visited \/ e \in outbound' \/ Queued(e.from)'
         /\ e.to \in visited /\ l[e.to] < hops =>
              e.from \in visited \/ e \in inbound' \/ Queued(e.to)'
  BY <1>1, <1>3, <1>5, <1>11 DEF ByLevel
<1>13. \A n \in visited : hops <= l[n] + remaining[n]
  BY <1>5 DEF ByLevel
<1>14. QED
  BY <1>3, <1>8, <1>9, <1>10, <1>12, <1>13 DEF ByLevel

\* An edge of the node being left is followed, one way or the other.
LEMMA LevelFollow ==
  ASSUME SearchInv, LevelInv, NEW e \in relationships, FollowOut(e) \/ FollowIn(e)
  PROVE  LevelInv'
<1>1. /\ TypeOK /\ pc = "search" /\ LeftBehind /\ hops \in Nat
      /\ UNCHANGED <<index, query, hops, pc, at>>
  BY DEF SearchInv, TypeOK, FollowOut, FollowIn
<1>2. SUFFICES ASSUME Cheap, NEW l \in [Node -> 0 .. hops + 1], Levels(l)
               PROVE  ByLevel(l)'
  BY <1>1 DEF LevelInv, Levels, Joined, Cheap, index, query
<1>3. ByLevel(l)
  BY <1>1, <1>2 DEF LevelInv, Cheap
<1>4. EdgeCost(e) \in {0, 1} /\ ReverseEdgeCost(e) \in {0, 1}
  BY <1>1, <1>2, CheapPrices
<1>5. e.from \in Node /\ e.to \in Node
  BY <1>1 DEF TypeOK, Edge
<1>6. \A m : Joined(m, e.to) <=> Joined(e.to, m)
  BY DEF Joined
<1>7. CASE FollowOut(e)
  <2>1. /\ e.from = at /\ at \in visited /\ at \in Node /\ Joined(at, e.to)
        /\ Reach(e.to, EdgeCost(e)) /\ outbound' = outbound \ {e} /\ inbound' = inbound
    BY <1>1, <1>5, <1>7 DEF FollowOut, LeftBehind, Joined
  <2>2. /\ \A m \in visited' : hops <= l[m] + remaining'[m]
        /\ \A i, j \in DOMAIN queue' : i <= j => /\ l[queue'[i]] <= l[queue'[j]]
                                                 /\ l[queue'[j]] <= l[queue'[i]] + 1
        /\ at # None =>
              /\ \A i \in DOMAIN queue' : l[at] <= l[queue'[i]] /\ l[queue'[i]] <= l[at] + 1
              /\ \A m \in Node : l[m] <= l[at] /\ l[m] <= hops => m \in visited'
        /\ l[at] < hops => e.to \in visited'
    BY <1>1, <1>2, <1>3, <1>4, <1>5, <2>1, LevelStep
  <2>3. /\ visited \subseteq visited' /\ \A m : Queued(m) => Queued(m)'
        /\ \A m \in visited' \ visited : Queued(m)'
    BY <1>1, <1>4, <1>5, <2>1, Reached
  <2>4. \A k \in relationships :
          /\ k.from \in visited' /\ l[k.from] < hops =>
               k.to \in visited' \/ k \in outbound' \/ Queued(k.from)'
          /\ k.to \in visited' /\ l[k.to] < hops =>
               k.from \in visited' \/ k \in inbound' \/ Queued(k.to)'
    BY <1>3, <2>1, <2>2, <2>3 DEF ByLevel
  <2>5. relationships' = relationships /\ hops' = hops /\ at' = at
    BY <1>1 DEF index
  <2>6. QED
    BY <2>2, <2>4, <2>5 DEF ByLevel
<1>8. CASE FollowIn(e)
  <2>1. /\ e.to = at /\ at \in visited /\ at \in Node /\ Joined(at, e.from)
        /\ Reach(e.from, ReverseEdgeCost(e)) /\ inbound' = inbound \ {e} /\ outbound' = outbound
    BY <1>1, <1>5, <1>8 DEF FollowIn, LeftBehind, Joined
  <2>2. /\ \A m \in visited' : hops <= l[m] + remaining'[m]
        /\ \A i, j \in DOMAIN queue' : i <= j => /\ l[queue'[i]] <= l[queue'[j]]
                                                 /\ l[queue'[j]] <= l[queue'[i]] + 1
        /\ at # None =>
              /\ \A i \in DOMAIN queue' : l[at] <= l[queue'[i]] /\ l[queue'[i]] <= l[at] + 1
              /\ \A m \in Node : l[m] <= l[at] /\ l[m] <= hops => m \in visited'
        /\ l[at] < hops => e.from \in visited'
    BY <1>1, <1>2, <1>3, <1>4, <1>5, <2>1, LevelStep
  <2>3. /\ visited \subseteq visited' /\ \A m : Queued(m) => Queued(m)'
        /\ \A m \in visited' \ visited : Queued(m)'
    BY <1>1, <1>4, <1>5, <2>1, Reached
  <2>4. \A k \in relationships :
          /\ k.from \in visited' /\ l[k.from] < hops =>
               k.to \in visited' \/ k \in outbound' \/ Queued(k.from)'
          /\ k.to \in visited' /\ l[k.to] < hops =>
               k.from \in visited' \/ k \in inbound' \/ Queued(k.to)'
    BY <1>3, <2>1, <2>2, <2>3 DEF ByLevel
  <2>5. relationships' = relationships /\ hops' = hops /\ at' = at
    BY <1>1 DEF index
  <2>6. QED
    BY <2>2, <2>4, <2>5 DEF ByLevel
<1>9. QED
  BY <1>7, <1>8

\* The inductive invariant behind NearReached: a first-in first-out search, whose steps
\* cost at most a hop, takes the nodes level by level.
THEOREM Levelled == Spec => []LevelInv
<1>1. Init => LevelInv
  BY DEF Init, LevelInv
<1>2. SearchInv /\ LevelInv /\ [Next]_vars => LevelInv'
  <2> SUFFICES ASSUME SearchInv, LevelInv, [Next]_vars
               PROVE  LevelInv'
    OBVIOUS
  <2>1. CASE Start
    BY <2>1, LevelStart
  <2>2. CASE Leave
    BY <2>2, LevelLeave
  <2>3. ASSUME NEW e \in relationships, FollowOut(e) \/ FollowIn(e)
        PROVE  LevelInv'
    BY <2>3, LevelFollow
  <2>4. CASE Retry
    BY <2>4 DEF Retry, LevelInv
  <2>5. CASE Return \/ UNCHANGED vars
    <3>1. UNCHANGED <<index, query, hops, search>> /\ (pc = "start" => pc' = "start")
      BY <2>5 DEF Return, Searched, vars
    <3>2. UNCHANGED <<documents, relationships, priority, seeds, hops, visited, queue,
                      remaining, at, outbound, inbound>>
      BY <3>1 DEF index, query, search
    <3>3. \A m : Queued(m)' <=> Queued(m)
      BY <3>2 DEF Queued
    <3>4. \A l : (Levels(l)' <=> Levels(l)) /\ (ByLevel(l)' <=> ByLevel(l))
      <4>1. SUFFICES ASSUME NEW l
                     PROVE  (Levels(l)' <=> Levels(l)) /\ (ByLevel(l)' <=> ByLevel(l))
        OBVIOUS
      <4>2. Levels(l)' <=> Levels(l)
        BY <3>2 DEF Levels, Joined
      <4>3. ByLevel(l)' <=> ByLevel(l)
        BY <3>2, <3>3 DEF ByLevel
      <4>4. QED
        BY <4>2, <4>3
    <3>5. QED
      BY <3>1, <3>2, <3>4 DEF LevelInv
  <2>6. QED
    BY <2>1, <2>2, <2>3, <2>4, <2>5 DEF Next
<1>3. QED
  BY <1>1, <1>2, Searching, PTL DEF Spec

\* The nodes an edge away from those of S, and those of S.
Spread(S) == S \cup {n \in Node : \E e \in relationships :
                         \/ e.to = n /\ e.from \in S
                         \/ e.from = n /\ e.to \in S}

\* The first so many levels, for as long as they go.
Unfolds(g, n) == \A k \in 0 .. n : g[k] = IF k = 0 THEN seeds \cap documents ELSE Spread(g[k - 1])

LEMMA UnfoldsOnce ==
  ASSUME NEW n \in Nat, NEW m \in Nat, NEW g, NEW h, Unfolds(g, n), Unfolds(h, m),
         NEW k \in Nat, k <= n, k <= m
  PROVE  g[k] = h[k]
<1> DEFINE T == {j \in 0 .. k : g[j] # h[j]}
<1>1. SUFFICES ASSUME T # {} PROVE FALSE
  OBVIOUS
<1>2. T \subseteq Nat
  OBVIOUS
<1>3. PICK j \in T : \A i \in T : j <= i
  BY <1>1, <1>2, LeastElement
<1>4. j # 0 /\ j \in 0 .. n /\ j \in 0 .. m
  <2>1. 0 \in 0 .. n /\ 0 \in 0 .. m /\ j \in 0 .. n /\ j \in 0 .. m
    BY <1>3
  <2>2. g[0] = h[0]
    BY <2>1 DEF Unfolds
  <2>3. QED
    BY <1>3, <2>1, <2>2
<1>5. g[j - 1] = h[j - 1]
  BY <1>3, <1>4
<1>6. QED
  BY <1>3, <1>4, <1>5 DEF Unfolds

LEMMA UnfoldsFar ==
  ASSUME NEW n \in Nat
  PROVE  \E g : Unfolds(g, n)
<1> DEFINE T == {j \in Nat : ~\E g : Unfolds(g, j)}
<1>1. SUFFICES ASSUME T # {} PROVE FALSE
  OBVIOUS
<1>2. T \subseteq Nat
  OBVIOUS
<1>3. PICK j \in T : \A i \in T : j <= i
  BY <1>1, <1>2, LeastElement
<1>4. CASE j = 0
  <2> DEFINE g == [k \in 0 .. 0 |-> seeds \cap documents]
  <2>1. Unfolds(g, 0)
    BY DEF Unfolds
  <2>2. QED
    BY <1>3, <1>4, <2>1
<1>5. CASE j # 0
  <2>1. j - 1 \in Nat /\ j - 1 \notin T
    BY <1>3, <1>5
  <2>2. PICK g : Unfolds(g, j - 1)
    BY <2>1
  <2> DEFINE h == [k \in 0 .. j |-> IF k = j THEN Spread(g[j - 1]) ELSE g[k]]
  <2>3. Unfolds(h, j)
    <3>1. SUFFICES ASSUME NEW k \in 0 .. j
                   PROVE  h[k] = IF k = 0 THEN seeds \cap documents ELSE Spread(h[k - 1])
      BY DEF Unfolds
    <3>2. CASE k = j
      BY <1>3, <1>5, <2>1, <3>1, <3>2
    <3>3. CASE k # j
      <4>1. k \in 0 .. j - 1 /\ h[k] = g[k] /\ (k # 0 => h[k - 1] = g[k - 1])
        BY <1>3, <2>1, <3>1, <3>3
      <4>2. g[k] = IF k = 0 THEN seeds \cap documents ELSE Spread(g[k - 1])
        BY <2>2, <4>1 DEF Unfolds
      <4>3. QED
        BY <4>1, <4>2
    <3>4. QED
      BY <3>2, <3>3
  <2>4. QED
    BY <1>3, <2>3
<1>6. QED
  BY <1>4, <1>5

\* Near is what its recursive definition says.
LEMMA NearDef ==
  \A k \in Nat : Near[k] = IF k = 0 THEN seeds \cap documents ELSE Spread(Near[k - 1])
<1> DEFINE f == [n \in Nat |-> (CHOOSE u : Unfolds(u, n))[n]]
           Right(h) == h = [k \in Nat |-> IF k = 0 THEN seeds \cap documents ELSE Spread(h[k - 1])]
<1>1. ASSUME NEW k \in Nat
      PROVE  f[k] = IF k = 0 THEN seeds \cap documents ELSE Spread(f[k - 1])
  <2> DEFINE g == CHOOSE u : Unfolds(u, k)
             h == CHOOSE u : Unfolds(u, k - 1)
  <2>1. Unfolds(g, k)
    BY UnfoldsFar
  <2>2. f[k] = g[k]
    OBVIOUS
  <2> HIDE DEF g
  <2>3. g[k] = IF k = 0 THEN seeds \cap documents ELSE Spread(g[k - 1])
    <3>1. k \in 0 .. k
      BY <1>1
    <3>2. QED
      BY <2>1, <3>1, Zenon DEF Unfolds
  <2>4. CASE k # 0
    <3>1. k - 1 \in Nat
      BY <1>1, <2>4
    <3>2. Unfolds(h, k - 1) /\ f[k - 1] = h[k - 1]
      BY <3>1, UnfoldsFar
    <3> HIDE DEF h
    <3>3. g[k - 1] = h[k - 1]
      BY <1>1, <2>1, <3>1, <3>2, UnfoldsOnce
    <3>4. QED
      BY <2>2, <2>3, <2>4, <3>2, <3>3
  <2>5. QED
    BY <2>2, <2>3, <2>4
<1>2. f = [k \in Nat |-> IF k = 0 THEN seeds \cap documents ELSE Spread(f[k - 1])]
  <2>1. f = [k \in Nat |-> f[k]]
    OBVIOUS
  <2> HIDE DEF f
  <2>2. QED
    BY <1>1, <2>1
<1> HIDE DEF f
<1>3. \E h : Right(h)
  BY <1>2
<1>4. Near = CHOOSE h : Right(h)
  BY DEF Near, Spread
<1>5. Right(Near)
  BY <1>3, <1>4
<1>6. QED
  BY <1>5

\* There is a level for each node, and the nodes within the hops are those of Near.
LEMMA LevelsExist ==
  ASSUME TypeOK
  PROVE  \E l \in [Node -> 0 .. hops + 1] :
           Levels(l) /\ \A n \in Near[hops] : n \in Node /\ l[n] <= hops
<1> DEFINE In(n) == {k \in 0 .. hops : n \in Near[k]}
           Least(n) == CHOOSE k \in In(n) : \A j \in In(n) : k <= j
           l == [n \in Node |-> IF In(n) = {} THEN hops + 1 ELSE Least(n)]
<1>1. hops \in Nat
  BY DEF TypeOK
<1>2. ASSUME NEW n, In(n) # {}
      PROVE  Least(n) \in In(n) /\ \A j \in In(n) : Least(n) <= j
  <2>1. In(n) \subseteq Nat
    BY <1>1
  <2>2. \E k \in In(n) : \A j \in In(n) : k <= j
    BY <1>2, <2>1, LeastElement
  <2>3. QED
    BY <2>2
<1> HIDE DEF Least
<1>3. \A n \in Node : l[n] \in 0 .. hops + 1
  BY <1>1, <1>2
<1>4. l \in [Node -> 0 .. hops + 1]
  BY <1>3
<1>5. \A n \in Node : l[n] \in 0 .. hops => n \in Near[l[n]]
  BY <1>1, <1>2
<1>6. \A n \in Node, k \in 0 .. hops : n \in Near[k] => l[n] \in 0 .. hops /\ l[n] <= k
  BY <1>1, <1>2
<1> HIDE DEF l, In
<1>7. Near[0] = seeds \cap documents /\ \A k \in Nat \ {0} : Near[k] = Spread(Near[k - 1])
  BY NearDef
<1>8. ASSUME NEW k \in Nat PROVE Near[k + 1] = Spread(Near[k])
  <2>1. k + 1 \in Nat \ {0} /\ (k + 1) - 1 = k
    BY <1>8
  <2>2. Near[k + 1] = Spread(Near[(k + 1) - 1])
    BY <1>7, <2>1, Zenon
  <2>3. QED
    BY <2>1, <2>2, Zenon
<1>9. Levels(l)
  <2>1. ASSUME NEW n \in Node
        PROVE  l[n] = 0 <=> n \in seeds \cap documents
    BY <1>1, <1>3, <1>5, <1>6, <1>7, <2>1
  <2>2. ASSUME NEW n \in Node, l[n] \in 1 .. hops
        PROVE  \E m \in Node : Joined(m, n) /\ l[m] = l[n] - 1
    <3>1. l[n] - 1 \in 0 .. hops /\ l[n] \in Nat \ {0} /\ l[n] \in 0 .. hops
      BY <1>1, <2>2
    <3>2. n \in Spread(Near[l[n] - 1])
      BY <1>5, <1>7, <2>2, <3>1
    <3>3. n \notin Near[l[n] - 1]
      BY <1>6, <2>2, <3>1
    <3>4. PICK e \in relationships : \/ e.to = n /\ e.from \in Near[l[n] - 1]
                                     \/ e.from = n /\ e.to \in Near[l[n] - 1]
      BY <3>2, <3>3 DEF Spread
    <3>5. e.from \in Node /\ e.to \in Node
      BY DEF TypeOK, Edge
    <3>6. PICK m \in Node : Joined(m, n) /\ m \in Near[l[n] - 1]
      BY <3>4, <3>5 DEF Joined
    <3>7. l[m] \in 0 .. hops /\ l[m] <= l[n] - 1 /\ m \in Near[l[m]]
      BY <1>5, <1>6, <3>1, <3>6
    <3>8. l[m] \in Nat /\ l[m] + 1 \in 0 .. hops
      BY <1>1, <3>1, <3>7
    <3>9. n \in Near[l[m] + 1]
      <4>1. n \in Spread(Near[l[m]])
        BY <2>2, <3>6, <3>7 DEF Spread, Joined
      <4>2. QED
        BY <1>8, <3>8, <4>1, Zenon
    <3>10. l[n] <= l[m] + 1
      BY <1>6, <2>2, <3>8, <3>9
    <3>11. QED
      BY <3>1, <3>6, <3>7, <3>10
  <2>3. ASSUME NEW m \in Node, NEW n \in Node, Joined(m, n)
        PROVE  l[n] <= l[m] + 1
    <3>1. CASE l[m] \in 0 .. hops - 1
      <4>1. n \in Spread(Near[l[m]])
        BY <1>1, <1>5, <2>3, <3>1 DEF Spread, Joined
      <4>2. l[m] \in Nat /\ l[m] + 1 \in 0 .. hops
        BY <1>1, <3>1
      <4>3. n \in Near[l[m] + 1]
        BY <1>8, <4>1, <4>2, Zenon
      <4>4. QED
        BY <1>6, <2>3, <4>2, <4>3
    <3>2. CASE l[m] \notin 0 .. hops - 1
      BY <1>1, <1>3, <2>3, <3>2
    <3>3. QED
      BY <3>1, <3>2
  <2>4. QED
    BY <2>1, <2>2, <2>3 DEF Levels
<1>10. \A n \in Near[hops] : n \in Node
  <2>1. CASE hops = 0
    BY <1>7, <2>1 DEF TypeOK
  <2>2. CASE hops # 0
    <3>1. \A k \in Nat : Near[k] \subseteq Node
      <4> DEFINE T == {k \in Nat : ~(Near[k] \subseteq Node)}
      <4>1. SUFFICES ASSUME T # {} PROVE FALSE
        OBVIOUS
      <4>2. T \subseteq Nat
        OBVIOUS
      <4>3. PICK k \in T : \A j \in T : k <= j
        BY <4>1, <4>2, LeastElement
      <4>4. k # 0
        BY <1>7, <4>3 DEF TypeOK
      <4>5. k - 1 \in Nat /\ k - 1 \notin T
        BY <4>3, <4>4
      <4>6. Near[k - 1] \subseteq Node
        BY <4>5
      <4>7. Near[k] = Spread(Near[k - 1])
        BY <1>7, <4>3, <4>4
      <4>8. QED
        BY <4>3, <4>6, <4>7 DEF Spread
    <3>2. QED
      BY <1>1, <3>1
  <2>3. QED
    BY <2>1, <2>2
<1>11. \A n \in Near[hops] : l[n] <= hops
  BY <1>1, <1>6, <1>10
<1>12. QED
  BY <1>4, <1>9, <1>10, <1>11

\* Where no edge costs more than a hop, every document within as many edges of a seed
\* as the query has hops is reached, for any graph and any order of the queue.
THEOREM NearbyReached == Spec => []NearReached
<1>1. SearchInv /\ LevelInv => NearReached
  <2>1. SUFFICES ASSUME SearchInv, LevelInv, pc = "done", Cheap
                 PROVE  Near[hops] \subseteq visited
    BY DEF NearReached, Cheap
  <2>2. TypeOK /\ LeftBehind /\ queue = <<>> /\ outbound = {} /\ inbound = {} /\ hops \in Nat
    BY <2>1 DEF SearchInv, LeftBehind, TypeOK
  <2>3. PICK l \in [Node -> 0 .. hops + 1] :
           Levels(l) /\ \A n \in Near[hops] : n \in Node /\ l[n] <= hops
    BY <2>2, LevelsExist
  <2>4. ByLevel(l)
    BY <2>1, <2>3 DEF LevelInv, Cheap
  <2>5. \A i \in DOMAIN queue : hops <= l[queue[i]]
    BY <2>2
  <2>6. hops <= hops
    BY <2>2
  <2>7. QED
    BY <2>1, <2>2, <2>3, <2>4, <2>5, <2>6, Complete
<1>2. QED
  BY <1>1, Searching, Levelled, PTL

=============================================================================
