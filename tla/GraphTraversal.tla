---------------------------- MODULE GraphTraversal ----------------------------
(***************************************************************************)
(* The expansion of a query over the document graph (graph-traverser.ts):   *)
(* a first-in first-out search from the documents a selector matched, in    *)
(* which a step costs nothing, one hop, or the priority its author set, and *)
(* a document is taken at the first price it is reached for, which need not *)
(* be its lowest.  A search that finds too little is run again with one hop *)
(* more.                                                                    *)
(*                                                                          *)
(* The graph is the index as index-generator.ts leaves it: edges leave      *)
(* indexed documents and may point at what is not indexed.                  *)
(***************************************************************************)
EXTENDS Naturals, Sequences, FiniteSets

CONSTANTS
    Node,             \* what an edge may join: documents, and targets that are none
    None,             \* no priority, no node
    Priority,         \* the edge priorities an author may set
    HubMinDegree,     \* HUB_MIN_DEGREE: the references that make a hub
    MaxHubs,          \* how many hubs the index keeps
    MaxAdaptiveHops,  \* options: how far a search that found too little may go
    MaxEdges,         \* bound: the edges of the graph
    MaxHops,          \* bound: the hops a query asks for
    MaxResults        \* bound: the results a query wants at least

ASSUME NodeAssumption == IsFiniteSet(Node)
ASSUME PriorityAssumption == Priority \subseteq Nat
ASSUME HopAssumption == MaxHops \in Nat /\ MaxAdaptiveHops \in Nat
ASSUME NoneAssumption == None \notin Nat /\ None \notin Node

Edge == [from : Node, to : Node, type : {"reference", "depends_on"}]

VARIABLES
    documents,      \* the indexed documents
    relationships,  \* the edges
    priority,       \* document -> the priority of the edges that leave it, or None
    hubs,           \* the documents that edges reach for free
    seeds,          \* what the selector matched
    wanted,         \* options.minResults
    hops,           \* currentMaxHops
    pc,             \* "start" a search, "search", "done"
    visited,        \* the nodes reached
    queue,          \* the nodes reached and not yet left, in the order reached
    remaining,      \* node -> the hops left when it was reached
    at,             \* the node being left, or None
    outbound,       \* its edges still to look at
    inbound         \* the edges into it still to look at

index == <<documents, relationships, priority, hubs>>
query == <<seeds, wanted>>
search == <<visited, queue, remaining, at, outbound, inbound>>
vars == <<index, query, hops, pc, search>>

TypeOK ==
    /\ documents \subseteq Node /\ relationships \subseteq Edge
    /\ priority \in [Node -> Priority \cup {None}] /\ hubs \subseteq Node
    /\ seeds \subseteq Node /\ wanted \in Nat
    /\ hops \in Nat /\ pc \in {"start", "search", "done"}
    /\ visited \subseteq Node /\ queue \in Seq(Node)
    /\ remaining \in [Node -> Nat]
    /\ at \in Node \cup {None}
    /\ outbound \subseteq relationships /\ inbound \subseteq relationships

-----------------------------------------------------------------------------
(* The index.                                                              *)

\* buildRelationships: a document's links but those to itself, and what it
\* depends on.
Links(ds) == {e \in Edge : e.from \in ds /\ (e.type = "depends_on" \/ e.from # e.to)}

References(n, es) == Cardinality({e \in es : e.to = n /\ e.type = "reference"})

Central(es) == {n \in Node : References(n, es) >= HubMinDegree}

\* The most referenced, up to MaxHubs; which of equals is left open.
HubsOf(es) ==
    {H \in SUBSET Central(es) :
        /\ Cardinality(H) = IF Cardinality(Central(es)) < MaxHubs
                            THEN Cardinality(Central(es)) ELSE MaxHubs
        /\ \A h \in H, n \in Central(es) \ H : References(h, es) >= References(n, es)}

Init ==
    /\ documents \in SUBSET Node
    /\ relationships \in {{}} \cup {{q[i] : i \in 1 .. MaxEdges} :
                                        q \in [1 .. MaxEdges -> Links(documents)]}
    /\ priority \in [Node -> Priority \cup {None}]
    /\ \A n \in Node : priority[n] # None => \E e \in relationships : e.from = n
    /\ hubs \in HubsOf(relationships)
    /\ seeds \in SUBSET Node
    /\ wanted \in 1 .. MaxResults
    /\ hops \in 0 .. MaxHops
    /\ pc = "start"
    /\ visited = {} /\ queue = <<>> /\ remaining = [n \in Node |-> 0]
    /\ at = None /\ outbound = {} /\ inbound = {}

-----------------------------------------------------------------------------
(* What a step costs.                                                      *)

\* edgeCost, along an edge.
EdgeCost(e) ==
    CASE priority[e.from] # None -> priority[e.from]
      [] priority[e.from] = None /\ (e.type = "depends_on" \/ e.to \in hubs) -> 0
      [] OTHER -> 1

\* Mutant: what is free along an edge is free against it.
ReverseEdgeCostAsForward(e) == EdgeCost(e)

\* reverseEdgeCost, against it: neither from a dependency to what depends on it
\* nor away from a hub is free.
ReverseEdgeCost(e) ==
    CASE priority[e.from] # None -> priority[e.from]
      [] priority[e.from] = None /\ e.from \in hubs -> 0
      [] OTHER -> 1

-----------------------------------------------------------------------------
(* bfs.                                                                    *)

\* Every seed the index has, in any order.
Start ==
    /\ pc = "start"
    /\ visited' = seeds \cap documents
    /\ queue' \in {q \in [1 .. Cardinality(visited') -> visited'] :
                      \A n \in visited' : \E i \in DOMAIN q : q[i] = n}
    /\ remaining' = [n \in Node |-> hops]
    /\ at' = None /\ outbound' = {} /\ inbound' = {}
    /\ pc' = "search"
    /\ UNCHANGED <<index, query, hops>>

\* Mutant: the edges into a node are not followed.
LeaveForward ==
    /\ pc = "search" /\ outbound = {} /\ inbound = {} /\ queue # <<>>
    /\ at' = Head(queue) /\ queue' = Tail(queue)
    /\ outbound' = {e \in relationships : e.from = at'} /\ inbound' = {}
    /\ UNCHANGED <<index, query, hops, pc, visited, remaining>>

\* The next node of the queue, and the edges from it and to it.
Leave ==
    /\ pc = "search" /\ outbound = {} /\ inbound = {} /\ queue # <<>>
    /\ at' = Head(queue) /\ queue' = Tail(queue)
    /\ outbound' = {e \in relationships : e.from = at'}
    /\ inbound' = {e \in relationships : e.to = at'}
    /\ UNCHANGED <<index, query, hops, pc, visited, remaining>>

\* Mutant: the last hop is not spent.
ReachStrictly(n, cost) ==
    IF n \notin visited /\ cost < remaining[at]
    THEN /\ visited' = visited \cup {n} /\ queue' = Append(queue, n)
         /\ remaining' = [remaining EXCEPT ![n] = remaining[at] - cost]
    ELSE UNCHANGED <<visited, queue, remaining>>

\* A node not reached before is, when the hops that are left pay for the step.
Reach(n, cost) ==
    IF n \notin visited /\ cost <= remaining[at]
    THEN /\ visited' = visited \cup {n} /\ queue' = Append(queue, n)
         /\ remaining' = [remaining EXCEPT ![n] = remaining[at] - cost]
    ELSE UNCHANGED <<visited, queue, remaining>>

FollowOut(e) ==
    /\ pc = "search" /\ e \in outbound
    /\ outbound' = outbound \ {e}
    /\ Reach(e.to, EdgeCost(e))
    /\ UNCHANGED <<index, query, hops, pc, at, inbound>>

\* The edges into a node come after those out of it.
FollowIn(e) ==
    /\ pc = "search" /\ outbound = {} /\ e \in inbound
    /\ inbound' = inbound \ {e}
    /\ Reach(e.from, ReverseEdgeCost(e))
    /\ UNCHANGED <<index, query, hops, pc, at, outbound>>

Searched == pc = "search" /\ outbound = {} /\ inbound = {} /\ queue = <<>>

-----------------------------------------------------------------------------
(* traverse.                                                               *)

Retry ==
    /\ Searched /\ Cardinality(visited) < wanted /\ hops < MaxAdaptiveHops
    /\ hops' = hops + 1 /\ pc' = "start"
    /\ UNCHANGED <<index, query, search>>

Return ==
    /\ Searched /\ (Cardinality(visited) >= wanted \/ hops >= MaxAdaptiveHops)
    /\ pc' = "done"
    /\ UNCHANGED <<index, query, hops, search>>

Next ==
    \/ Start \/ Leave \/ Retry \/ Return
    \/ \E e \in relationships : FollowOut(e) \/ FollowIn(e)

Spec == Init /\ [][Next]_vars

-----------------------------------------------------------------------------
(* What a traversal promises.                                              *)

\* The cost of a step over an edge to one of its ends, as section 5.1.1 of
\* CONTEXT_NEST_SPEC.md tabulates it.
StepCost(e, n) ==
    IF priority[e.from] # None THEN priority[e.from]
    ELSE IF n \in hubs \/ (e.type = "depends_on" /\ n = e.to) THEN 0
    ELSE 1

\* d is a lower bound of the hops that lead to each node: none to the seeds, and
\* over an edge no more than its cost.  The least cost of a walk is the greatest
\* such bound.
LowerBound(d) ==
    /\ \A s \in seeds \cap documents : d[s] = 0
    /\ \A e \in relationships : /\ d[e.to] <= d[e.from] + StepCost(e, e.to)
                                /\ d[e.from] <= d[e.to] + StepCost(e, e.from)

\* Nothing is reached that every walk takes more hops to than the query has.
ReachedWithinHops ==
    pc = "done" =>
        \A d \in [Node -> 0 .. hops + 1] : LowerBound(d) => \A n \in visited : d[n] <= hops

\* Whatever was reached, and however dearly, what is free from there is reached
\* too: the seeds, their dependencies, the hubs they link to.
FreeStepsTaken ==
    pc = "done" =>
        /\ seeds \cap documents \subseteq visited
        /\ \A e \in relationships :
             /\ e.from \in visited /\ StepCost(e, e.to) = 0 => e.to \in visited
             /\ e.to \in visited /\ StepCost(e, e.from) = 0 => e.from \in visited

\* The nodes within so many edges of the seeds.
Near[k \in Nat] ==
    IF k = 0 THEN seeds \cap documents
    ELSE Near[k - 1] \cup {n \in Node : \E e \in relationships :
                               \/ e.to = n /\ e.from \in Near[k - 1]
                               \/ e.from = n /\ e.to \in Near[k - 1]}

\* Where no edge costs more than a hop, a node within as many edges as there are
\* hops is reached, although others were reached at a price above their lowest.
NearReached ==
    (pc = "done" /\ \A n \in Node : priority[n] \in {None, 0, 1}) => Near[hops] \subseteq visited

-----------------------------------------------------------------------------
(* The inductive invariant.                                                *)

\* A lower bound stays below what the search has paid.
Paid ==
    pc # "start" =>
        \A d \in [Node -> 0 .. hops + 1] :
            LowerBound(d) => \A n \in visited : d[n] + remaining[n] <= hops

Queued(n) == \E i \in DOMAIN queue : queue[i] = n

\* What is not in the queue has been left, and what is free over an edge that has
\* been looked at is taken.
LeftBehind ==
    pc # "start" =>
        /\ seeds \cap documents \subseteq visited
        /\ \A i \in DOMAIN queue : queue[i] \in visited
        /\ \A e \in outbound : e.from = at /\ at \in visited
        /\ \A e \in inbound : e.to = at /\ at \in visited
        /\ \A e \in relationships :
             /\ e.from \in visited /\ StepCost(e, e.to) = 0 =>
                  e.to \in visited \/ e \in outbound \/ Queued(e.from)
             /\ e.to \in visited /\ StepCost(e, e.from) = 0 =>
                  e.from \in visited \/ e \in inbound \/ Queued(e.to)
        /\ pc = "done" => queue = <<>> /\ outbound = {} /\ inbound = {}

SearchInv == TypeOK /\ Paid /\ LeftBehind

\* For NearReached.  l is each node's least number of edges from the seeds, cut
\* off above the hops.
Joined(m, n) ==
    \E e \in relationships : (e.from = m /\ e.to = n) \/ (e.from = n /\ e.to = m)

Levels(l) ==
    /\ \A n \in Node : l[n] = 0 <=> n \in seeds \cap documents
    /\ \A n \in Node : l[n] \in 1 .. hops => \E m \in Node : Joined(m, n) /\ l[m] = l[n] - 1
    /\ \A m, n \in Node : Joined(m, n) => l[n] <= l[m] + 1

\* The queue holds at most two levels, the lower one first; levels below the node
\* being left are complete; and a node has paid no more than its level.
ByLevel(l) ==
    /\ \A n \in visited : hops <= l[n] + remaining[n]
    /\ \A i, j \in DOMAIN queue : i <= j => /\ l[queue[i]] <= l[queue[j]]
                                           /\ l[queue[j]] <= l[queue[i]] + 1
    /\ at # None =>
         /\ \A i \in DOMAIN queue : l[at] <= l[queue[i]] /\ l[queue[i]] <= l[at] + 1
         /\ \A n \in Node : l[n] <= l[at] /\ l[n] <= hops => n \in visited
    /\ \A e \in relationships :
         /\ e.from \in visited /\ l[e.from] < hops =>
              e.to \in visited \/ e \in outbound \/ Queued(e.from)
         /\ e.to \in visited /\ l[e.to] < hops =>
              e.from \in visited \/ e \in inbound \/ Queued(e.to)

LevelInv ==
    (pc # "start" /\ \A n \in Node : priority[n] \in {None, 0, 1}) =>
        \A l \in [Node -> 0 .. hops + 1] : Levels(l) => ByLevel(l)
=============================================================================
