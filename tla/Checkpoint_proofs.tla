--------------------------- MODULE Checkpoint_proofs ---------------------------
(***************************************************************************)
(* The checkpoint chain, for every set of documents and processes.  What a *)
(* rebuild derives, and in which order things are recorded, always.  Where *)
(* no rebuild races a writer, the chain is linked, a rebuild repairs it,   *)
(* and without rebuilds it is the append-only log of CheckpointLog,        *)
(* whichever processes crash, exit or tear the file.  Then what a seal     *)
(* binds: the publish it seals, and hashes that verify finds in the        *)
(* histories, where nothing is deleted or where every mark of a deletion   *)
(* reaches the next seal.                                                  *)
(***************************************************************************)
EXTENDS Checkpoint, FiniteSetTheorems, SequenceTheorems, WellFoundedInduction, TLAPS

--------------------------------------------------------------------------------
(* What a rebuild derives.                                                 *)

\* Every non-empty set of naturals has a least element.
LEMMA LeastElement ==
  ASSUME NEW T, T \subseteq Nat, T # {}
  PROVE  \E x \in T : \A y \in T : x <= y
<1>1. PICK x \in T : \A y \in T : <<y, x>> \notin OpToRel(<, Nat)
  BY NatLessThanWellFounded, WFMin
<1>2. \A y \in T : ~(y < x)
  BY <1>1 DEF OpToRel
<1>3. QED
  BY <1>2

\* Every non-empty set of naturals up to a bound has a greatest element.
LEMMA GreatestElement ==
  ASSUME NEW n \in Nat, NEW S, S \subseteq 1 .. n, S # {}
  PROVE  \E x \in S : \A y \in S : y <= x
<1> DEFINE T == {n - y : y \in S}
<1>1. T \subseteq Nat /\ T # {}
  <2>1. \A y \in S : n - y \in Nat
    OBVIOUS
  <2>2. QED
    BY <2>1
<1>2. PICK m \in T : \A z \in T : m <= z
  BY <1>1, LeastElement
<1>3. PICK x \in S : m = n - x
  OBVIOUS
<1>4. \A y \in S : n - x <= n - y
  BY <1>2, <1>3
<1>5. QED
  BY <1>3, <1>4

\* The numbers of a bounded set, enumerated in order.
LEMMA NumbersInOrder ==
  ASSUME NEW n \in Nat, NEW K \in SUBSET (0 .. n - 1)
  PROVE  \E k \in Nat : \E f \in [1 .. k -> K] :
           /\ \A i, j \in 1 .. k : i < j => f[i] < f[j]
           /\ \A x \in K : \E i \in 1 .. k : f[i] = x
<1> DEFINE Counted(L) == \E k \in Nat : \E f \in [1 .. k -> L] :
                           /\ \A i, j \in 1 .. k : i < j => f[i] < f[j]
                           /\ \A x \in L : \E i \in 1 .. k : f[i] = x
           T == {m \in Nat : \E L \in SUBSET (0 .. m - 1) : ~Counted(L)}
<1>1. SUFFICES ASSUME T # {} PROVE FALSE
  <2>1. SUFFICES ASSUME T = {} PROVE Counted(K)
    OBVIOUS
  <2> HIDE DEF Counted
  <2>2. n \notin T
    BY <2>1
  <2>3. QED
    BY <2>2
<1>2. T \subseteq Nat
  OBVIOUS
<1>3. PICK m \in T : \A j \in T : m <= j
  BY <1>1, <1>2, LeastElement
<1>4. PICK L \in SUBSET (0 .. m - 1) : ~Counted(L)
  OBVIOUS
<1>5. CASE L = {}
  <2> DEFINE f == [i \in 1 .. 0 |-> 0]
  <2>1. f \in [1 .. 0 -> L] /\ 0 \in Nat
    OBVIOUS
  <2>2. Counted(L)
    BY <1>5, <2>1
  <2>3. QED
    BY <1>4, <2>2
<1>6. CASE L # {}
  <2>1. m \in Nat /\ m - 1 \in Nat /\ m - 1 \notin T
    <3>1. m \in Nat /\ m > m - 1
      BY <1>2
    <3>2. m # 0
      <4>1. 0 .. 0 - 1 = {}
        OBVIOUS
      <4>2. L \subseteq 0 .. m - 1
        BY <1>4
      <4>3. QED
        BY <1>6, <4>1, <4>2
    <3>3. m - 1 \in Nat /\ ~(m <= m - 1)
      BY <3>1, <3>2
    <3> HIDE DEF T
    <3>4. QED
      BY <1>3, <3>1, <3>3
  <2> DEFINE R == L \ {m - 1}
  <2>2. R \in SUBSET (0 .. (m - 1) - 1) /\ L \subseteq Nat
    BY <2>1
  <2>3. Counted(R)
    BY <2>1, <2>2
  <2>4. PICK k \in Nat : \E f \in [1 .. k -> R] :
           /\ \A i, j \in 1 .. k : i < j => f[i] < f[j]
           /\ \A x \in R : \E i \in 1 .. k : f[i] = x
    BY <2>3
  <2>5. PICK f \in [1 .. k -> R] :
           /\ \A i, j \in 1 .. k : i < j => f[i] < f[j]
           /\ \A x \in R : \E i \in 1 .. k : f[i] = x
    BY <2>4
  <2>6. CASE m - 1 \notin L
    <3>1. R = L
      BY <2>6
    <3>2. QED
      BY <1>4, <2>3, <3>1
  <2>7. CASE m - 1 \in L
    <3> DEFINE g == [i \in 1 .. k + 1 |-> IF i = k + 1 THEN m - 1 ELSE f[i]]
    <3>1. \A i \in 1 .. k : f[i] \in R /\ f[i] < m - 1 /\ f[i] \in Nat
      <4>1. \A x \in R : x < m - 1 /\ x \in Nat
        BY <2>1, <2>2
      <4>2. QED
        BY <2>5, <4>1
    <3>2. g \in [1 .. k + 1 -> L]
      BY <2>7, <3>1
    <3>3. /\ \A i \in 1 .. k : g[i] = f[i]
          /\ g[k + 1] = m - 1
      OBVIOUS
    <3> HIDE DEF g
    <3>4. ASSUME NEW i \in 1 .. k + 1, NEW j \in 1 .. k + 1, i < j
          PROVE  g[i] < g[j]
      <4>1. i \in 1 .. k
        BY <3>4
      <4>2. CASE j = k + 1
        BY <3>1, <3>3, <4>1, <4>2
      <4>3. CASE j # k + 1
        <5>1. j \in 1 .. k
          BY <4>3
        <5>2. QED
          BY <2>5, <3>3, <3>4, <4>1, <5>1
      <4>4. QED
        BY <4>2, <4>3
    <3>5. ASSUME NEW x \in L
          PROVE  \E i \in 1 .. k + 1 : g[i] = x
      <4>1. CASE x = m - 1
        BY <3>3, <4>1
      <4>2. CASE x # m - 1
        <5>1. PICK i \in 1 .. k : f[i] = x
          BY <2>5, <4>2
        <5>2. QED
          BY <3>3, <5>1
      <4>3. QED
        BY <4>1, <4>2
    <3>6. k + 1 \in Nat
      OBVIOUS
    <3>7. Counted(L)
      BY <3>2, <3>4, <3>5, <3>6
    <3>8. QED
      BY <1>4, <3>7
  <2>8. QED
    BY <2>6, <2>7
<1>7. QED
  BY <1>5, <1>6

\* The tuples of a set in the order of their dates, as the rebuild sorts them.
Sorted(S) ==
  LET n == Cardinality(S)
  IN  CHOOSE s \in [1 .. n -> S] : \A i, j \in 1 .. n : i < j => s[i].entry.hash < s[j].entry.hash

\* A set of tuples with a date of its own each is listed whole.
LEMMA SortedWhole ==
  ASSUME NEW m \in Nat, NEW S, \A t \in S : t.entry.hash \in 0 .. m - 1,
         \A t, u \in S : t.entry.hash = u.entry.hash => t = u
  PROVE  \E n \in Nat :
           /\ Sorted(S) \in [1 .. n -> S]
           /\ \A i, j \in 1 .. n : i < j => Sorted(S)[i].entry.hash < Sorted(S)[j].entry.hash
           /\ \A t \in S : \E i \in 1 .. n : Sorted(S)[i] = t
<1> DEFINE K == {t.entry.hash : t \in S}
           Rises(s, k) == \A i, j \in 1 .. k : i < j => s[i].entry.hash < s[j].entry.hash
<1>1. K \in SUBSET (0 .. m - 1)
  OBVIOUS
<1>2. PICK k \in Nat : \E f \in [1 .. k -> K] :
         /\ \A i, j \in 1 .. k : i < j => f[i] < f[j]
         /\ \A x \in K : \E i \in 1 .. k : f[i] = x
  BY <1>1, NumbersInOrder
<1>3. PICK f \in [1 .. k -> K] :
         /\ \A i, j \in 1 .. k : i < j => f[i] < f[j]
         /\ \A x \in K : \E i \in 1 .. k : f[i] = x
  BY <1>2
<1> DEFINE g == [i \in 1 .. k |-> CHOOSE t \in S : t.entry.hash = f[i]]
<1>4. \A i \in 1 .. k : g[i] \in S /\ g[i].entry.hash = f[i]
  <2>1. SUFFICES ASSUME NEW i \in 1 .. k
                 PROVE  g[i] \in S /\ g[i].entry.hash = f[i]
    OBVIOUS
  <2>2. \E t \in S : t.entry.hash = f[i]
    OBVIOUS
  <2>3. QED
    BY <2>2
<1>5. g \in [1 .. k -> S] /\ Rises(g, k)
  BY <1>3, <1>4
<1>6. \A t \in S : \E i \in 1 .. k : g[i] = t
  <2>1. SUFFICES ASSUME NEW t \in S
                 PROVE  \E i \in 1 .. k : g[i] = t
    OBVIOUS
  <2>2. PICK i \in 1 .. k : f[i] = t.entry.hash
    BY <1>3
  <2>3. g[i] \in S /\ g[i].entry.hash = t.entry.hash
    BY <1>4, <2>2
  <2>4. g[i] = t
    BY <2>3
  <2>5. QED
    BY <2>4
<1>7. \A i, j \in 1 .. k : g[i] = g[j] => i = j
  <2>1. SUFFICES ASSUME NEW i \in 1 .. k, NEW j \in 1 .. k, i # j
                 PROVE  f[i] # f[j]
    BY <1>4
  <2>2. f[i] \in Nat /\ f[j] \in Nat
    BY <1>1
  <2>3. i < j \/ j < i
    BY <2>1
  <2>4. QED
    BY <1>3, <2>2, <2>3
<1> HIDE DEF g
<1>8. g \in Bijection(1 .. k, S)
  BY <1>5, <1>6, <1>7 DEF Bijection, Injection, Surjection, IsInjective
<1>9. IsFiniteSet(1 .. k) /\ Cardinality(1 .. k) = k
  BY FS_Interval
<1>10. IsFiniteSet(S) /\ Cardinality(S) = k
  BY <1>8, <1>9, FS_Bijection DEF ExistsBijection
<1> DEFINE s == Sorted(S)
<1>11. s \in [1 .. k -> S] /\ Rises(s, k)
  <2>1. \E r \in [1 .. k -> S] : Rises(r, k)
    BY <1>5
  <2>2. s = CHOOSE r \in [1 .. k -> S] : Rises(r, k)
    BY <1>10 DEF Sorted
  <2>3. QED
    BY <2>1, <2>2
<1> HIDE DEF s
<1>12. \A i, j \in 1 .. k : s[i] = s[j] => i = j
  <2>1. SUFFICES ASSUME NEW i \in 1 .. k, NEW j \in 1 .. k, i # j, s[i] = s[j]
                 PROVE  FALSE
    OBVIOUS
  <2>2. s[i].entry.hash \in Nat /\ s[j].entry.hash = s[i].entry.hash
    BY <1>11, <2>1
  <2>3. i < j \/ j < i
    BY <2>1
  <2>4. QED
    BY <1>11, <2>2, <2>3
<1>13. s \in Surjection(1 .. k, S)
  <2>1. s \in Injection(1 .. k, S)
    BY <1>11, <1>12 DEF Injection, IsInjective
  <2>2. QED
    BY <1>9, <1>10, <2>1, FS_Injection
<1>14. QED
  BY <1>11, <1>13 DEF Surjection, s

\* A function on the first positions is a sequence.
LEMMA FunctionIsSeq ==
  ASSUME NEW n \in Nat, NEW S, NEW f \in [1 .. n -> S]
  PROVE  f \in Seq(S) /\ Len(f) = n /\ DOMAIN f = 1 .. n
OBVIOUS

\* The tuples of histories.
TupleSet(h) == {t \in [doc: Doc, entry: Entry] : \E i \in DOMAIN h[t.doc] : t.entry = h[t.doc][i]}

LEMMA TuplesSorted ==
  ASSUME NEW h \in Histories, InOrder(h)
  PROVE  Tuples(h) = Sorted(TupleSet(h))
<1> DEFINE First(d, i) == \A j \in 1 .. i - 1 : h[d][j].version # h[d][i].version
           all == UNION {{[doc |-> d, entry |-> h[d][i]] :
                            i \in {k \in DOMAIN h[d] : First(d, k)}} : d \in Doc}
<1>1. \A d \in Doc : h[d] \in Seq(Entry)
  BY DEF Histories
<1>2. ASSUME NEW d \in Doc, NEW i \in DOMAIN h[d]
      PROVE  First(d, i) /\ h[d][i] \in Entry
  <2>1. h[d] \in Seq(Entry) /\ DOMAIN h[d] = 1 .. Len(h[d]) /\ Len(h[d]) \in Nat
    BY <1>1, LenProperties
  <2>2. \A k \in DOMAIN h[d] : h[d][k] \in Entry
    BY <2>1
  <2>3. \A k \in DOMAIN h[d] : h[d][k].version \in Nat
    BY <2>2, CheckpointAssumption DEF Entry, Version
  <2>4. \A j \in 1 .. i - 1 : j \in DOMAIN h[d] /\ j < i
    BY <2>1, <1>2
  <2>5. QED
    BY <2>2, <2>3, <2>4 DEF InOrder
<1>3. all = TupleSet(h)
  <2>1. ASSUME NEW t \in all
        PROVE  t \in TupleSet(h)
    <3>1. PICK d \in Doc : t \in {[doc |-> d, entry |-> h[d][i]] : i \in {k \in DOMAIN h[d] : First(d, k)}}
      OBVIOUS
    <3>2. PICK i \in DOMAIN h[d] : t = [doc |-> d, entry |-> h[d][i]]
      BY <3>1
    <3>3. QED
      BY <1>2, <3>2 DEF TupleSet
  <2>2. ASSUME NEW t \in TupleSet(h)
        PROVE  t \in all
    <3>1. t.doc \in Doc /\ t = [doc |-> t.doc, entry |-> t.entry]
      BY DEF TupleSet
    <3>2. PICK i \in DOMAIN h[t.doc] : t.entry = h[t.doc][i]
      BY DEF TupleSet
    <3>3. First(t.doc, i)
      BY <1>2, <3>1, <3>2
    <3> HIDE DEF First
    <3>4. t \in {[doc |-> t.doc, entry |-> h[t.doc][k]] : k \in {k \in DOMAIN h[t.doc] : First(t.doc, k)}}
      BY <3>1, <3>2, <3>3
    <3>5. QED
      BY <3>1, <3>4
  <2> HIDE DEF all
  <2>3. QED
    BY <2>1, <2>2
<1>4. Tuples(h) = Sorted(all)
  BY DEF Tuples, Sorted
<1> HIDE DEF all
<1>5. QED
  BY <1>3, <1>4

\* A rebuild walks through every recorded entry once, by date.
LEMMA TuplesWhole ==
  ASSUME NEW h \in Histories, InOrder(h)
  PROVE  \E n \in Nat :
           /\ Tuples(h) \in [1 .. n -> TupleSet(h)]
           /\ \A i, j \in 1 .. n : i < j => Tuples(h)[i].entry.hash < Tuples(h)[j].entry.hash
           /\ \A t \in TupleSet(h) : \E i \in 1 .. n : Tuples(h)[i] = t
<1> DEFINE S == TupleSet(h)
<1>1. MaxWrites + 1 \in Nat /\ \A t \in S : t.entry.hash \in 0 .. (MaxWrites + 1) - 1
  BY CheckpointAssumption DEF TupleSet, Entry
<1>2. ASSUME NEW t \in S, NEW u \in S, t.entry.hash = u.entry.hash
      PROVE  t = u
  <2>1. PICK i \in DOMAIN h[t.doc] : t.entry = h[t.doc][i]
    BY DEF TupleSet
  <2>2. PICK j \in DOMAIN h[u.doc] : u.entry = h[u.doc][j]
    BY DEF TupleSet
  <2>3. /\ t.doc \in Doc /\ t = [doc |-> t.doc, entry |-> t.entry]
        /\ u.doc \in Doc /\ u = [doc |-> u.doc, entry |-> u.entry]
        /\ t.entry.hash \in Nat
    BY CheckpointAssumption DEF TupleSet, Entry
  <2>4. t.doc = u.doc
    BY <1>2, <2>1, <2>2, <2>3 DEF InOrder
  <2>5. DOMAIN h[t.doc] = 1 .. Len(h[t.doc]) /\ Len(h[t.doc]) \in Nat
    BY <2>3, LenProperties DEF Histories
  <2>6. ~(i < j) /\ ~(j < i)
    BY <1>2, <2>1, <2>2, <2>3, <2>4 DEF InOrder
  <2>7. i = j
    BY <2>1, <2>2, <2>4, <2>5, <2>6
  <2>8. QED
    BY <2>1, <2>2, <2>3, <2>4, <2>7
<1> HIDE DEF S
<1>3. \E n \in Nat :
           /\ Sorted(S) \in [1 .. n -> S]
           /\ \A i, j \in 1 .. n : i < j => Sorted(S)[i].entry.hash < Sorted(S)[j].entry.hash
           /\ \A t \in S : \E i \in 1 .. n : Sorted(S)[i] = t
  BY <1>1, <1>2, SortedWhole
<1>4. QED
  BY <1>3, TuplesSorted DEF S

\* What the running map holds of a document: nothing, or the newest so far.
LEMMA RunningNewest ==
  ASSUME NEW h \in Histories, InOrder(h), NEW n \in Nat, Tuples(h) \in [1 .. n -> TupleSet(h)],
         NEW i \in 1 .. n, NEW d \in Doc
  PROVE  LET s == Tuples(h)
         IN  \/ Running(s, i)[d] = None /\ \A j \in 1 .. i : s[j].doc # d
             \/ \E m \in 1 .. i : /\ s[m].doc = d /\ Running(s, i)[d] = s[m].entry
                                  /\ \A j \in 1 .. i : s[j].doc = d => j <= m
<1> DEFINE s == Tuples(h)
           own == {j \in 1 .. i : s[j].doc = d}
           last == CHOOSE j \in own : \A k \in own : k <= j
<1>1. Running(s, i)[d] = IF own = {} THEN None ELSE s[last].entry
  BY DEF Running
<1>2. CASE own = {}
  BY <1>1, <1>2
<1>3. CASE own # {}
  <2>1. \E j \in own : \A k \in own : k <= j
    <3>1. i \in Nat /\ own \subseteq 1 .. i
      OBVIOUS
    <3>2. QED
      BY <1>3, <3>1, GreatestElement
  <2>2. last \in own /\ \A k \in own : k <= last
    BY <2>1
  <2>3. QED
    BY <1>1, <1>3, <2>2
<1>4. QED
  BY <1>2, <1>3

\* Each checkpoint of a rebuild, by its number.
Step(h, i) == [number |-> i, at |-> Tuples(h)[i].entry.hash, sealed |-> Running(Tuples(h), i)]

\* Before it come the payloads of the earlier ones.
Earlier(h, i) == [j \in 1 .. i - 1 |-> Step(h, j)]

LEMMA DerivedSteps ==
  ASSUME NEW h \in Histories, NEW n \in Nat, DOMAIN Tuples(h) = 1 .. n
  PROVE  LET D == DeriveCheckpointHistory(h)
         IN  /\ DOMAIN D = 1 .. n
             /\ D = [i \in 1 .. n |-> D[i]]
             /\ \A i \in 1 .. n :
                  D[i] = [number |-> i, at |-> Tuples(h)[i].entry.hash,
                          sealed |-> Running(Tuples(h), i), prev |-> Earlier(h, i)]
BY DEF DeriveCheckpointHistory, Step, Earlier

LEMMA RunningTypes ==
  ASSUME NEW h \in Histories, InOrder(h), NEW n \in Nat, Tuples(h) \in [1 .. n -> TupleSet(h)],
         NEW i \in 1 .. n
  PROVE  Running(Tuples(h), i) \in Snapshot
<1>1. \A j \in 1 .. n : Tuples(h)[j].entry \in Entry
  BY DEF TupleSet
<1>2. ASSUME NEW d \in Doc
      PROVE  Running(Tuples(h), i)[d] \in Entry \union {None}
  <2>1. \A m \in 1 .. i : m \in 1 .. n
    OBVIOUS
  <2>2. QED
    BY <1>1, <2>1, RunningNewest
<1>3. Running(Tuples(h), i) = [d \in Doc |-> Running(Tuples(h), i)[d]]
  BY DEF Running
<1>4. QED
  BY <1>2, <1>3 DEF Snapshot

\* Payloads numbered from one on, each hashed over those before.
LEMMA EarlierHashes ==
  ASSUME NEW h \in Histories, InOrder(h), NEW n \in Nat, Tuples(h) \in [1 .. n -> TupleSet(h)],
         NEW i \in 1 .. n
  PROVE  /\ Step(h, i) \in Payload
         /\ Earlier(h, i) \in Seq(Payload)
         /\ Earlier(h, i) = IF i = 1 THEN <<>> ELSE Append(Earlier(h, i - 1), Step(h, i - 1))
<1>1. ASSUME NEW j \in 1 .. n
      PROVE  Step(h, j) \in Payload
  <2>1. Tuples(h)[j].entry.hash \in 0 .. MaxWrites /\ j \in Nat
    BY DEF TupleSet, Entry
  <2>2. Running(Tuples(h), j) \in Snapshot
    BY RunningTypes
  <2>3. QED
    BY <2>1, <2>2 DEF Step, Payload
<1>2. ASSUME NEW k \in 1 .. n
      PROVE  /\ Earlier(h, k) \in Seq(Payload) /\ Len(Earlier(h, k)) = k - 1
             /\ \A j \in 1 .. k - 1 : Earlier(h, k)[j] = Step(h, j)
  <2>1. k - 1 \in Nat /\ \A j \in 1 .. k - 1 : j \in 1 .. n
    OBVIOUS
  <2>2. Earlier(h, k) \in [1 .. k - 1 -> Payload]
    BY <1>1, <2>1 DEF Earlier
  <2>3. QED
    BY <2>1, <2>2, FunctionIsSeq DEF Earlier
<1>3. CASE i = 1
  <2>1. Len(Earlier(h, i)) = 0 /\ Earlier(h, i) \in Seq(Payload)
    BY <1>2, <1>3
  <2>2. Earlier(h, i) = <<>>
    BY <2>1, EmptySeq
  <2>3. QED
    BY <1>1, <1>2, <1>3, <2>2
<1>4. CASE i # 1
  <2> DEFINE s == Earlier(h, i)
             r == Earlier(h, i - 1)
             t == Append(r, Step(h, i - 1))
  <2>1. i - 1 \in 1 .. n
    BY <1>4
  <2>2. /\ s \in Seq(Payload) /\ Len(s) = i - 1 /\ \A j \in 1 .. i - 1 : s[j] = Step(h, j)
        /\ r \in Seq(Payload) /\ Len(r) = (i - 1) - 1
        /\ \A j \in 1 .. (i - 1) - 1 : r[j] = Step(h, j)
        /\ Step(h, i - 1) \in Payload
    BY <1>1, <1>2, <2>1
  <2>3. /\ t \in Seq(Payload) /\ Len(t) = Len(r) + 1
        /\ \A j \in 1 .. Len(r) : t[j] = r[j]
        /\ t[Len(r) + 1] = Step(h, i - 1)
    <3> HIDE DEF r
    <3>1. QED
      BY <2>2, AppendProperties
  <2> HIDE DEF s, r, t
  <2>4. Len(s) = Len(t) /\ Len(s) = i - 1
    BY <2>2, <2>3
  <2>5. \A j \in 1 .. Len(s) : s[j] = t[j]
    <3>1. SUFFICES ASSUME NEW j \in 1 .. i - 1 PROVE s[j] = t[j]
      BY <2>4
    <3>2. CASE j = i - 1
      BY <2>2, <2>3, <3>2
    <3>3. CASE j # i - 1
      <4>1. j \in 1 .. (i - 1) - 1
        BY <2>1, <3>3
      <4>2. QED
        BY <2>2, <2>3, <4>1
    <3>4. QED
      BY <3>2, <3>3
  <2>6. s = t
    BY <2>2, <2>3, <2>4, <2>5, SeqEqual
  <2>7. QED
    BY <1>1, <1>4, <2>2, <2>6 DEF s, t, r
<1>5. QED
  BY <1>3, <1>4

\* What rebuildCheckpointHistory writes: a chain verify finds nothing in, that binds what
\* is recorded, and in its last checkpoint the newest version of every document.
LEMMA RebuiltChain ==
  ASSUME NEW h \in Histories, InOrder(h)
  PROVE  LET D == DeriveCheckpointHistory(h)
         IN  /\ D \in Seq(Checkpoint)
             /\ \A i \in DOMAIN D :
                  /\ D[i].number = i
                  /\ D[i].prev = IF i = 1 THEN <<>> ELSE Log!HashOf(D[i - 1])
             /\ \A i \in DOMAIN D : \E d \in Doc : \E j \in DOMAIN h[d] : D[i].at = h[d][j].hash
             /\ \A i \in DOMAIN D, d \in Doc :
                  D[i].sealed[d] = None \/ \E j \in DOMAIN h[d] : D[i].sealed[d] = h[d][j]
             /\ \A d \in Doc : h[d] # <<>> => D # <<>> /\ D[Len(D)].sealed[d] = h[d][Len(h[d])]
<1> DEFINE D == DeriveCheckpointHistory(h)
           s == Tuples(h)
<1>1. PICK n \in Nat :
         /\ s \in [1 .. n -> TupleSet(h)]
         /\ \A i, j \in 1 .. n : i < j => s[i].entry.hash < s[j].entry.hash
         /\ \A t \in TupleSet(h) : \E i \in 1 .. n : s[i] = t
  BY TuplesWhole
<1>2. /\ DOMAIN D = 1 .. n /\ D = [i \in 1 .. n |-> D[i]]
      /\ \A i \in 1 .. n :
           D[i] = [number |-> i, at |-> s[i].entry.hash, sealed |-> Running(s, i),
                   prev |-> Earlier(h, i)]
  <2>1. DOMAIN s = 1 .. n
    BY <1>1
  <2>2. QED
    BY <2>1, DerivedSteps
<1> HIDE DEF D, s
<1>3. \A i \in 1 .. n : /\ s[i] \in TupleSet(h) /\ s[i].doc \in Doc /\ s[i].entry \in Entry
                        /\ \E j \in DOMAIN h[s[i].doc] : s[i].entry = h[s[i].doc][j]
  BY <1>1 DEF TupleSet
<1>4. D \in Seq(Checkpoint) /\ Len(D) = n
  <2>1. ASSUME NEW i \in 1 .. n
        PROVE  D[i] \in Checkpoint
    <3>1. Earlier(h, i) \in Seq(Payload)
      BY <1>1, EarlierHashes DEF s
    <3>2. Running(s, i) \in Snapshot
      BY <1>1, RunningTypes DEF s
    <3>3. s[i].entry.hash \in 0 .. MaxWrites /\ i \in Nat
      BY <1>3 DEF Entry
    <3>4. QED
      BY <1>2, <3>1, <3>2, <3>3 DEF Checkpoint
  <2>2. D \in [1 .. n -> Checkpoint]
    BY <1>2, <2>1
  <2>3. QED
    BY <2>2, FunctionIsSeq
<1>5. ASSUME NEW i \in 1 .. n
      PROVE  D[i].prev = IF i = 1 THEN <<>> ELSE Log!HashOf(D[i - 1])
  <2>1. Earlier(h, i) = IF i = 1 THEN <<>> ELSE Append(Earlier(h, i - 1), Step(h, i - 1))
    BY <1>1, EarlierHashes DEF s
  <2>2. CASE i = 1
    BY <1>2, <2>1, <2>2
  <2>3. CASE i # 1
    <3>1. i - 1 \in 1 .. n
      BY <2>3
    <3>2. Log!HashOf(D[i - 1]) = Append(Earlier(h, i - 1), Step(h, i - 1))
      BY <1>2, <3>1 DEF Log!HashOf, Step, s
    <3>3. D[i].prev = Earlier(h, i)
      BY <1>2
    <3>4. Earlier(h, i) = Append(Earlier(h, i - 1), Step(h, i - 1))
      BY <2>1, <2>3
    <3>5. D[i].prev = Log!HashOf(D[i - 1])
      BY <3>2, <3>3, <3>4
    <3>6. QED
      BY <2>3, <3>5
  <2>4. QED
    BY <2>2, <2>3
<1>6. \A i \in 1 .. n : \E d \in Doc : \E j \in DOMAIN h[d] : D[i].at = h[d][j].hash
  BY <1>2, <1>3
<1>7. ASSUME NEW i \in 1 .. n, NEW d \in Doc
      PROVE  D[i].sealed[d] = None \/ \E j \in DOMAIN h[d] : D[i].sealed[d] = h[d][j]
  <2>1. D[i].sealed = Running(s, i)
    BY <1>2
  <2>2. Running(s, i)[d] = None \/ \E m \in 1 .. i : s[m].doc = d /\ Running(s, i)[d] = s[m].entry
    BY <1>1, RunningNewest DEF s
  <2>3. \A m \in 1 .. i : m \in 1 .. n
    OBVIOUS
  <2>4. QED
    BY <1>3, <2>1, <2>2, <2>3
<1>8. ASSUME NEW d \in Doc, h[d] # <<>>
      PROVE  D # <<>> /\ D[Len(D)].sealed[d] = h[d][Len(h[d])]
  <2> DEFINE k == Len(h[d])
  <2>1. h[d] \in Seq(Entry) /\ k \in Nat /\ k # 0 /\ DOMAIN h[d] = 1 .. k
    BY <1>8, EmptySeq, LenProperties DEF Histories
  <2>2. k \in DOMAIN h[d] /\ \A j \in DOMAIN h[d] : h[d][j] \in Entry
    BY <2>1
  <2>3. [doc |-> d, entry |-> h[d][k]] \in TupleSet(h)
    BY <2>2 DEF TupleSet
  <2>4. PICK j \in 1 .. n : s[j] = [doc |-> d, entry |-> h[d][k]]
    BY <1>1, <2>3
  <2>5. n \in 1 .. n
    BY <2>4
  <2>6. PICK m \in 1 .. n : s[m].doc = d /\ Running(s, n)[d] = s[m].entry
                            /\ \A i \in 1 .. n : s[i].doc = d => i <= m
    <3>1. s[j].doc = d
      BY <2>4
    <3>2. \/ Running(s, n)[d] = None /\ \A i \in 1 .. n : s[i].doc # d
          \/ \E m \in 1 .. n : /\ s[m].doc = d /\ Running(s, n)[d] = s[m].entry
                               /\ \A i \in 1 .. n : s[i].doc = d => i <= m
      BY <1>1, <2>5, RunningNewest DEF s
    <3>3. QED
      BY <3>1, <3>2
  <2>7. PICK l \in DOMAIN h[d] : s[m].entry = h[d][l]
    BY <1>3, <2>6
  <2>8. \A i \in DOMAIN h[d] : h[d][i].hash \in Nat
    BY <2>2 DEF Entry
  <2>9. j <= m /\ s[j].entry = h[d][k]
    BY <2>4, <2>6
  <2>10. h[d][k].hash <= h[d][l].hash
    <3>1. CASE j = m
      BY <2>2, <2>7, <2>8, <2>9, <3>1
    <3>2. CASE j < m
      BY <1>1, <2>2, <2>7, <2>8, <2>9, <3>2
    <3>3. QED
      BY <2>9, <3>1, <3>2
  <2>11. l = k
    <3>1. SUFFICES ASSUME l # k PROVE FALSE
      OBVIOUS
    <3>2. l < k
      BY <2>1, <3>1
    <3>3. h[d][l].hash < h[d][k].hash
      BY <2>2, <3>2 DEF InOrder
    <3>4. QED
      BY <2>2, <2>8, <2>10, <3>3
  <2>12. D[n].sealed[d] = h[d][k]
    BY <1>2, <2>5, <2>6, <2>7, <2>11
  <2>13. D # <<>>
    <3>1. Len(D) # 0
      BY <1>4, <2>5
    <3>2. QED
      BY <3>1, EmptySeq
  <2>14. QED
    BY <1>4, <2>12, <2>13
<1>9. /\ D \in Seq(Checkpoint)
      /\ \A i \in DOMAIN D :
           /\ D[i].number = i
           /\ D[i].prev = IF i = 1 THEN <<>> ELSE Log!HashOf(D[i - 1])
      /\ \A i \in DOMAIN D : \E d \in Doc : \E j \in DOMAIN h[d] : D[i].at = h[d][j].hash
      /\ \A i \in DOMAIN D, d \in Doc :
           D[i].sealed[d] = None \/ \E j \in DOMAIN h[d] : D[i].sealed[d] = h[d][j]
      /\ \A d \in Doc : h[d] # <<>> => D # <<>> /\ D[Len(D)].sealed[d] = h[d][Len(h[d])]
  <2>1. DOMAIN D = 1 .. n
    BY <1>2
  <2>2. \A i \in DOMAIN D : D[i].number = i
    BY <1>2, <2>1
  <2>3. \A i \in DOMAIN D : D[i].prev = IF i = 1 THEN <<>> ELSE Log!HashOf(D[i - 1])
    BY <1>5, <2>1
  <2>4. \A i \in DOMAIN D : \E d \in Doc : \E j \in DOMAIN h[d] : D[i].at = h[d][j].hash
    BY <1>6, <2>1
  <2>5. \A i \in DOMAIN D, d \in Doc :
          D[i].sealed[d] = None \/ \E j \in DOMAIN h[d] : D[i].sealed[d] = h[d][j]
    BY <1>7, <2>1
  <2>6. QED
    BY <1>4, <1>8, <2>2, <2>3, <2>4, <2>5
<1>10. QED
  BY <1>9 DEF D

--------------------------------------------------------------------------------
(* The order things are recorded in.                                       *)

\* Recording an entry that comes after all there are keeps the order.
LEMMA AppendedInOrder ==
  ASSUME NEW h \in Histories, InOrder(h), NEW d \in Doc, NEW e \in Entry,
         \A c \in Doc : \A i \in DOMAIN h[c] : h[c][i].hash < e.hash,
         \A i \in DOMAIN h[d] : h[d][i].version < e.version,
         NEW g, g = [h EXCEPT ![d] = Append(@, e)]
  PROVE  /\ g \in Histories /\ InOrder(g)
         /\ \A c \in Doc : \A i \in DOMAIN g[c] : g[c][i].hash <= e.hash
<1> DEFINE n == Len(h[d])
<1>1. h[d] \in Seq(Entry) /\ n \in Nat /\ DOMAIN h[d] = 1 .. n /\ DOMAIN h = Doc
  BY DEF Histories
<1>2. /\ g[d] \in Seq(Entry) /\ DOMAIN g[d] = 1 .. n + 1 /\ g[d][n + 1] = e
      /\ \A i \in 1 .. n : g[d][i] = h[d][i]
      /\ \A c \in Doc : c # d => g[c] = h[c]
  <2>1. g[d] = Append(h[d], e)
    BY <1>1
  <2>2. \A c \in Doc : c # d => g[c] = h[c]
    BY <1>1
  <2>3. QED
    BY <1>1, <2>1, <2>2, AppendProperties, LenProperties
<1>3. g \in Histories
  BY <1>1, <1>2 DEF Histories
<1> HIDE DEF n
<1>4. \A c \in Doc : \A i \in DOMAIN h[c] : h[c][i] \in Entry
  BY DEF Histories
<1>5. \A c \in Doc : \A i \in DOMAIN h[c] : h[c][i].hash \in Nat /\ h[c][i].version \in Nat
  BY <1>4 DEF Entry, Version
<1>6. e.hash \in Nat /\ e.version \in Nat
  BY DEF Entry, Version
<1>7. ASSUME NEW c \in Doc, NEW i \in DOMAIN g[c]
      PROVE  \/ i \in DOMAIN h[c] /\ g[c][i] = h[c][i]
             \/ c = d /\ i = n + 1 /\ g[c][i] = e /\ DOMAIN h[d] = 1 .. n
  BY <1>1, <1>2
<1>8. ASSUME NEW c \in Doc, NEW i \in DOMAIN g[c], NEW j \in DOMAIN g[c], i < j
      PROVE  g[c][i].version < g[c][j].version /\ g[c][i].hash < g[c][j].hash
  <2>1. CASE j \in DOMAIN h[c] /\ g[c][j] = h[c][j]
    <3>1. i \in DOMAIN h[c] /\ g[c][i] = h[c][i]
      BY <1>1, <1>7, <1>8, <2>1
    <3>2. QED
      BY <1>8, <2>1, <3>1 DEF InOrder
  <2>2. CASE c = d /\ j = n + 1 /\ g[c][j] = e
    <3>1. i \in DOMAIN h[c] /\ g[c][i] = h[c][i]
      BY <1>1, <1>7, <1>8, <2>2
    <3>2. QED
      BY <2>2, <3>1
  <2>3. QED
    BY <1>7, <2>1, <2>2
<1>9. ASSUME NEW b \in Doc, NEW c \in Doc, NEW i \in DOMAIN g[b], NEW j \in DOMAIN g[c],
             g[b][i].hash = g[c][j].hash
      PROVE  b = c
  <2>1. CASE i \in DOMAIN h[b] /\ g[b][i] = h[b][i] /\ j \in DOMAIN h[c] /\ g[c][j] = h[c][j]
    BY <1>9, <2>1 DEF InOrder
  <2>2. CASE i \in DOMAIN h[b] /\ g[b][i] = h[b][i] /\ c = d /\ g[c][j] = e
    BY <1>5, <1>6, <1>9, <2>2
  <2>3. CASE b = d /\ g[b][i] = e /\ j \in DOMAIN h[c] /\ g[c][j] = h[c][j]
    BY <1>5, <1>6, <1>9, <2>3
  <2>4. CASE b = d /\ c = d
    BY <2>4
  <2>5. QED
    BY <1>7, <2>1, <2>2, <2>3, <2>4
<1>10. InOrder(g)
  BY <1>8, <1>9 DEF InOrder
<1>11. \A c \in Doc : \A i \in DOMAIN g[c] : g[c][i].hash <= e.hash
  BY <1>5, <1>6, <1>7
<1>12. QED
  BY <1>3, <1>10, <1>11

\* So does removing a history.
LEMMA RemovedInOrder ==
  ASSUME NEW h \in Histories, InOrder(h), NEW d \in Doc, NEW g, g = [h EXCEPT ![d] = <<>>]
  PROVE  /\ g \in Histories /\ InOrder(g)
         /\ \A c \in Doc : \A i \in DOMAIN g[c] : i \in DOMAIN h[c] /\ g[c][i] = h[c][i]
<1>1. g \in Histories
  BY EmptySeq DEF Histories
<1>2. DOMAIN g[d] = {} /\ \A c \in Doc : c # d => g[c] = h[c]
  BY EmptySeq DEF Histories
<1>3. \A c \in Doc : \A i \in DOMAIN g[c] : i \in DOMAIN h[c] /\ g[c][i] = h[c][i]
  BY <1>2
<1>4. \A c \in Doc : \A i, j \in DOMAIN g[c] : i < j =>
        g[c][i].version < g[c][j].version /\ g[c][i].hash < g[c][j].hash
  BY <1>3 DEF InOrder
<1>5. \A b, c \in Doc : \A i \in DOMAIN g[b], j \in DOMAIN g[c] :
        g[b][i].hash = g[c][j].hash => b = c
  BY <1>3 DEF InOrder
<1>6. InOrder(g)
  BY <1>4, <1>5 DEF InOrder
<1>7. QED
  BY <1>1, <1>3, <1>6

LEMMA NoneInOrder == NoHistories \in Histories /\ InOrder(NoHistories)
<1>1. <<>> \in Seq(Entry) /\ DOMAIN <<>> = {}
  BY EmptySeq
<1>2. QED
  BY <1>1 DEF NoHistories, Histories, InOrder

\* A step that a writer takes alone: nobody else is about to record anything.
LEMMA DatedAlone ==
  ASSUME Dated, NEW p \in Proc, lock = None \/ lock = p, lock' \in {p, None},
         \E s : pc' = [pc EXCEPT ![p] = s], DOMAIN job' = Proc, UNCHANGED before,
         history' \in Histories, clock' \in 0 .. MaxWrites, InOrder(history'),
         \A d \in Doc : \A i \in DOMAIN history'[d] : history'[d][i].hash <= clock',
         lock' = p <=> pc'[p] \in Inside,
         pc'[p] \in {"entry", "live", "rm"} => job'[p].doc \in Doc,
         pc'[p] = "entry" =>
           /\ [version |-> job'[p].version, hash |-> job'[p].hash] \in Entry
           /\ job'[p].hash = clock'
           /\ \A d \in Doc : \A i \in DOMAIN history'[d] : history'[d][i].hash < clock'
           /\ \A i \in DOMAIN history'[job'[p].doc] :
                history'[job'[p].doc][i].version < job'[p].version
  PROVE  Dated'
<1>1. DOMAIN pc' = Proc /\ \A q \in Proc : q # p => pc'[q] = pc[q]
  BY DEF Dated
<1>2. ASSUME NEW q \in Proc, q # p
      PROVE  pc'[q] \notin Inside /\ lock' # q
  BY <1>1, <1>2, CheckpointAssumption DEF Dated
<1>3. InOrder(history)'
  BY DEF InOrder
<1>4. \A q \in Proc : InOrder(before[q])'
  BY DEF Dated, InOrder
<1>5. pc'[p] = "entry" => EntryOf(p)' \in Entry
  BY DEF EntryOf
<1>6. QED
  BY <1>1, <1>2, <1>3, <1>4, <1>5 DEF Dated, Inside

\* Writers record in order.
LEMMA WritesInOrder ==
  ASSUME Dated, NEW p \in Proc, Write(p)
  PROVE  Dated'
<1>1. ASSUME NEW d \in Doc, NEW n \in Version, TakeJob(p, d, n)
      PROVE  /\ lock = None /\ lock' = p /\ pc[p] = "idle"
             /\ clock' = clock + 1 /\ clock' \in 0 .. MaxWrites
             /\ [version |-> n, hash |-> clock'] \in Entry
             /\ DOMAIN job' = Proc /\ job'[p] = [doc |-> d, version |-> n, hash |-> clock']
             /\ \A c \in Doc : \A i \in DOMAIN history[c] : history[c][i].hash < clock'
             /\ \A i \in DOMAIN history[d] : history[d][i].version < n
  <2>1. clock + 1 \in 0 .. MaxWrites /\ clock \in Nat
    BY <1>1, CheckpointAssumption DEF TakeJob, Dated
  <2>2. clock' = clock + 1 /\ job'[p] = [doc |-> d, version |-> n, hash |-> clock'] /\ DOMAIN job' = Proc
    BY <1>1 DEF TakeJob, Dated
  <2>3. ASSUME NEW c \in Doc, NEW i \in DOMAIN history[c]
        PROVE  history[c][i].hash < clock'
    <3>1. history[c][i] \in Entry /\ history[c][i].hash <= clock
      BY DEF Dated, Histories
    <3>2. history[c][i].hash \in Nat
      BY <3>1 DEF Entry
    <3>3. QED
      BY <2>1, <2>2, <3>1, <3>2
  <2>4. QED
    BY <1>1, <2>1, <2>2, <2>3 DEF TakeJob, Acquire, Outranks, Entry
<1>2. ASSUME NEW d \in Doc, NEW n \in Version, PublishLive(p, d, n)
      PROVE  Dated'
  <2>1. TakeJob(p, d, n) /\ pc' = [pc EXCEPT ![p] = "entry"] /\ UNCHANGED <<history, before>>
    BY <1>2 DEF PublishLive, Goto
  <2>2. /\ lock = None /\ lock' = p
        /\ clock' \in 0 .. MaxWrites
        /\ [version |-> n, hash |-> clock'] \in Entry
        /\ DOMAIN job' = Proc /\ job'[p] = [doc |-> d, version |-> n, hash |-> clock']
        /\ \A c \in Doc : \A i \in DOMAIN history[c] : history[c][i].hash < clock'
        /\ \A i \in DOMAIN history[d] : history[d][i].version < n
    BY <1>1, <2>1
  <2>3. pc'[p] = "entry"
    BY <2>1 DEF Dated
  <2>4. history' \in Histories /\ InOrder(history')
    BY <2>1 DEF Dated
  <2>5. \A c \in Doc : \A i \in DOMAIN history[c] : history[c][i].hash <= clock'
    <3>1. \A c \in Doc : \A i \in DOMAIN history[c] : history[c][i] \in Entry
      BY DEF Dated, Histories
    <3>2. \A c \in Doc : \A i \in DOMAIN history[c] : history[c][i].hash \in Nat
      BY <3>1 DEF Entry
    <3>3. QED
      BY <2>2, <3>2
  <2>6. job'[p].doc = d /\ job'[p].version = n /\ job'[p].hash = clock'
    BY <2>2
  <2>7. DOMAIN job' = Proc /\ UNCHANGED <<history, before>>
    BY <2>1, <2>2
  <2>8. QED
    BY <2>1, <2>2, <2>3, <2>4, <2>5, <2>6, <2>7, DatedAlone DEF Inside
<1>3. ASSUME NEW d \in Doc, NEW n \in Version, CommitEntry(p, d, n)
      PROVE  Dated'
  <2> DEFINE e == [version |-> n, hash |-> clock']
  <2>1. TakeJob(p, d, n) /\ pc' = [pc EXCEPT ![p] = "live"] /\ UNCHANGED before
        /\ history' = [history EXCEPT ![d] = Append(@, [version |-> n, hash |-> clock + 1])]
    BY <1>3 DEF CommitEntry, Goto
  <2>2. /\ lock = None /\ lock' = p
        /\ clock' = clock + 1 /\ clock' \in 0 .. MaxWrites
        /\ e \in Entry
        /\ DOMAIN job' = Proc /\ job'[p] = [doc |-> d, version |-> n, hash |-> clock']
        /\ \A c \in Doc : \A i \in DOMAIN history[c] : history[c][i].hash < clock'
        /\ \A i \in DOMAIN history[d] : history[d][i].version < n
    BY <1>1, <2>1
  <2>3. pc'[p] = "live"
    BY <2>1 DEF Dated
  <2>4. history \in Histories /\ InOrder(history) /\ history' = [history EXCEPT ![d] = Append(@, e)]
    BY <2>1, <2>2 DEF Dated
  <2>5. e.hash = clock' /\ e.version = n
    OBVIOUS
  <2> HIDE DEF e
  <2>6. /\ history' \in Histories /\ InOrder(history')
        /\ \A c \in Doc : \A i \in DOMAIN history'[c] : history'[c][i].hash <= clock'
    BY <2>2, <2>4, <2>5, AppendedInOrder
  <2>7. DOMAIN job' = Proc /\ job'[p].doc = d
    BY <2>2
  <2>8. QED
    BY <2>1, <2>2, <2>3, <2>6, <2>7, DatedAlone DEF Inside
<1>4. ASSUME NEW d \in Doc, DeleteFile(p, d)
      PROVE  Dated'
  <2>1. /\ lock = None /\ lock' = p /\ pc' = [pc EXCEPT ![p] = "rm"]
        /\ job' = [job EXCEPT ![p].doc = d] /\ UNCHANGED <<history, before, clock>>
    BY <1>4 DEF DeleteFile, Acquire, Goto
  <2>2. pc'[p] = "rm" /\ DOMAIN job' = Proc /\ job'[p].doc = d
    BY <2>1 DEF Dated
  <2>3. /\ history' \in Histories /\ InOrder(history') /\ clock' \in 0 .. MaxWrites
        /\ \A c \in Doc : \A i \in DOMAIN history'[c] : history'[c][i].hash <= clock'
    BY <2>1 DEF Dated
  <2>4. QED
    BY <2>1, <2>2, <2>3, DatedAlone DEF Inside
<1>5. CASE PublishEntry(p) \/ PublishUnsealed(p)
  <2> DEFINE d == job[p].doc
             e == EntryOf(p)
  <2>1. pc[p] = "entry" /\ history' = [history EXCEPT ![d] = Append(@, e)]
        /\ UNCHANGED <<clock, before>>
    BY <1>5 DEF PublishEntry, PublishUnsealed, RecordEntry, locals
  <2>2. /\ lock = p /\ d \in Doc /\ e \in Entry /\ e.hash = clock
        /\ \A c \in Doc : \A i \in DOMAIN history[c] : history[c][i].hash < e.hash
        /\ \A i \in DOMAIN history[d] : history[d][i].version < e.version
        /\ history \in Histories /\ InOrder(history)
    BY <2>1 DEF Dated, Inside, EntryOf
  <2>3. \/ /\ pc' = [pc EXCEPT ![p] = "seal"] /\ lock' = lock /\ job' = job
        \/ /\ pc' = [pc EXCEPT ![p] = "idle"] /\ lock' = None /\ job' = [job EXCEPT ![p] = NoJob]
    BY <1>5 DEF PublishEntry, PublishUnsealed, Release, Goto, locals
  <2>4. DOMAIN job' = Proc /\ DOMAIN pc = Proc
    BY <2>3 DEF Dated
  <2> HIDE DEF d, e
  <2>5. /\ history' \in Histories /\ InOrder(history')
        /\ \A c \in Doc : \A i \in DOMAIN history'[c] : history'[c][i].hash <= clock'
    BY <2>1, <2>2, AppendedInOrder
  <2>6. clock' \in 0 .. MaxWrites
    BY <2>1 DEF Dated
  <2>7. CASE pc' = [pc EXCEPT ![p] = "seal"] /\ lock' = lock
    <3>1. pc'[p] = "seal"
      BY <2>4, <2>7
    <3>2. QED
      BY <2>1, <2>2, <2>4, <2>5, <2>6, <2>7, <3>1, DatedAlone DEF Inside
  <2>8. CASE pc' = [pc EXCEPT ![p] = "idle"] /\ lock' = None
    <3>1. pc'[p] = "idle" /\ None # p
      BY <2>4, <2>8, CheckpointAssumption
    <3>2. QED
      BY <2>1, <2>2, <2>4, <2>5, <2>6, <2>8, <3>1, DatedAlone DEF Inside
  <2>9. QED
    BY <2>3, <2>7, <2>8
<1>6. CASE CommitLive(p) \/ DeleteHistory(p)
  <2>1. /\ pc[p] \in {"live", "rm"} /\ lock' = None /\ pc' = [pc EXCEPT ![p] = "idle"]
        /\ job' = [job EXCEPT ![p] = NoJob] /\ UNCHANGED <<clock, before>>
        /\ history' = history \/ history' = [history EXCEPT ![job[p].doc] = <<>>]
    BY <1>6 DEF CommitLive, DeleteHistory, Release, Goto
  <2>2. lock = p /\ job[p].doc \in Doc /\ DOMAIN job' = Proc /\ pc'[p] = "idle" /\ None # p
    BY <2>1, CheckpointAssumption DEF Dated, Inside
  <2>3. /\ history \in Histories /\ InOrder(history) /\ clock' \in 0 .. MaxWrites
        /\ \A c \in Doc : \A i \in DOMAIN history[c] : history[c][i].hash <= clock'
    BY <2>1 DEF Dated
  <2>4. /\ history' \in Histories /\ InOrder(history')
        /\ \A c \in Doc : \A i \in DOMAIN history'[c] : history'[c][i].hash <= clock'
    <3>1. CASE history' = history
      BY <2>3, <3>1
    <3>2. CASE history' = [history EXCEPT ![job[p].doc] = <<>>]
      <4> DEFINE d == job[p].doc
      <4>1. d \in Doc /\ history' = [history EXCEPT ![d] = <<>>]
        BY <2>2, <3>2
      <4> HIDE DEF d
      <4>2. history' \in Histories /\ InOrder(history')
        BY <2>3, <4>1, RemovedInOrder
      <4>3. ASSUME NEW c \in Doc, NEW i \in DOMAIN history'[c]
            PROVE  history'[c][i].hash <= clock'
        <5>1. i \in DOMAIN history[c] /\ history'[c][i] = history[c][i]
          BY <2>3, <4>1, RemovedInOrder
        <5>2. QED
          BY <2>3, <5>1
      <4>4. QED
        BY <4>2, <4>3
    <3>3. QED
      BY <2>1, <3>1, <3>2
  <2>5. QED
    BY <2>1, <2>2, <2>3, <2>4, DatedAlone DEF Inside
<1>7. QED
  BY <1>2, <1>3, <1>4, <1>5, <1>6 DEF Write

\* What leaves the documents alone.
LEMMA RestInOrder ==
  ASSUME Dated, NEW p \in Proc, Seal(p) \/ Rebuild(p) \/ Crash(p) \/ Exit(p) \/ TearChain(p)
  PROVE  Dated'
<1>0. /\ history \in Histories /\ InOrder(history) /\ clock \in 0 .. MaxWrites
      /\ \A c \in Doc : \A i \in DOMAIN history[c] : history[c][i].hash <= clock
      /\ None # p /\ DOMAIN job = Proc /\ DOMAIN pc = Proc
  BY CheckpointAssumption DEF Dated
<1>1. UNCHANGED <<history, clock>>
  BY DEF Seal, SealWrites, SealRead, SealAppend, Point, Rebuild, RebuildRead, RebuildWrite,
         RebuildPoint, RebuildCheck, Crash, Exit, TearChain, documents
<1>2. CASE SealWrites(p)
  <2>1. /\ lock = None /\ lock' = p /\ pc' = [pc EXCEPT ![p] = "seal"] /\ UNCHANGED <<job, before>>
    BY <1>2 DEF SealWrites, Acquire, Goto, locals
  <2>2. pc'[p] = "seal"
    BY <1>0, <2>1
  <2>3. QED
    BY <1>0, <1>1, <2>1, <2>2, DatedAlone DEF Inside
<1>3. CASE SealRead(p) \/ SealAppend(p)
  <2>1. /\ pc[p] \in {"seal", "append"} /\ lock' = lock /\ UNCHANGED <<job, before>>
        /\ \E s \in {"append", "point"} : pc' = [pc EXCEPT ![p] = s]
    BY <1>3 DEF SealRead, SealAppend, Goto, locals
  <2>2. pc'[p] \in {"append", "point"} /\ lock = p
    BY <1>0, <2>1 DEF Dated, Inside
  <2>3. QED
    BY <1>0, <1>1, <2>1, <2>2, DatedAlone DEF Inside
<1>4. CASE Point(p)
  <2>1. /\ pc[p] = "point" /\ lock' = None /\ job' = [job EXCEPT ![p] = NoJob] /\ UNCHANGED before
        /\ pc' = [pc EXCEPT ![p] = "idle"]
    BY <1>4 DEF Point, Release, Goto
  <2>2. pc'[p] = "idle" /\ lock = p /\ DOMAIN job' = Proc
    BY <1>0, <2>1 DEF Dated, Inside
  <2>3. QED
    BY <1>0, <1>1, <2>1, <2>2, DatedAlone DEF Inside
<1>5. CASE Rebuild(p)
  <2>1. /\ pc[p] \notin Inside /\ UNCHANGED <<job, lock>>
        /\ \E s \in {"idle", "rebuild", "repoint", "recheck"} : pc' = [pc EXCEPT ![p] = s]
        /\ \E h \in {history, NoHistories} : before' = before \/ before' = [before EXCEPT ![p] = h]
    BY <1>5 DEF Rebuild, RebuildRead, RebuildWrite, RebuildPoint, RebuildCheck, Goto, locals, Inside
  <2>2. /\ pc'[p] \in {"idle", "rebuild", "repoint", "recheck"}
        /\ \A q \in Proc : q # p => pc'[q] = pc[q] /\ DOMAIN pc' = Proc
    BY <1>0, <2>1
  <2>3. before' \in [Proc -> Histories] /\ \A q \in Proc : InOrder(before'[q])
    BY <1>0, <2>1, NoneInOrder DEF Dated
  <2>4. \A q \in Proc : InOrder(before[q])' /\ InOrder(history)'
    BY <1>0, <1>1, <2>3 DEF InOrder
  <2>5. \A q \in Proc : EntryOf(q)' = EntryOf(q)
    BY <2>1 DEF EntryOf
  <2>6. DOMAIN pc' = Proc
    BY <1>0, <2>1
  <2>7. QED
    BY <1>0, <1>1, <2>1, <2>2, <2>3, <2>4, <2>5, <2>6 DEF Dated, Inside
<1>6. CASE Crash(p) \/ Exit(p) \/ TearChain(p)
  <2>1. /\ lock' = IF lock = p THEN None ELSE lock
        /\ pc' = [pc EXCEPT ![p] = "idle"] /\ job' = [job EXCEPT ![p] = NoJob]
        /\ before' = [before EXCEPT ![p] = NoHistories]
    BY <1>6 DEF Crash, Exit, TearChain, Die, Goto
  <2>2. /\ pc'[p] = "idle" /\ lock' # p /\ DOMAIN pc' = Proc /\ DOMAIN job' = Proc
        /\ \A q \in Proc : q # p => pc'[q] = pc[q] /\ job'[q] = job[q] /\ (lock' = q <=> lock = q)
    BY <1>0, <2>1, CheckpointAssumption
  <2>3. before' \in [Proc -> Histories] /\ \A q \in Proc : InOrder(before'[q])
    BY <1>0, <2>1, NoneInOrder DEF Dated
  <2>4. \A q \in Proc : InOrder(before[q])' /\ InOrder(history)'
    BY <1>0, <1>1, <2>3 DEF InOrder
  <2>5. \A q \in Proc : q # p => EntryOf(q)' = EntryOf(q)
    BY <2>2 DEF EntryOf
  <2>6. QED
    BY <1>0, <1>1, <2>2, <2>3, <2>4, <2>5 DEF Dated, Inside
<1>7. QED
  BY <1>2, <1>3, <1>4, <1>5, <1>6 DEF Seal

LEMMA AuthorsInOrder ==
  ASSUME Dated, UNCHANGED <<history, clock, lock, pc, job, before>>
  PROVE  Dated'
<1>1. ASSUME NEW q \in Proc
      PROVE  InOrder(before[q])' /\ EntryOf(q)' = EntryOf(q)
  <2>1. InOrder(before[q])
    BY DEF Dated
  <2>2. before' = before /\ job' = job
    OBVIOUS
  <2>3. QED
    BY <2>1, <2>2 DEF InOrder, EntryOf
<1>2. InOrder(history)'
  <2>1. InOrder(history) /\ history' = history
    BY DEF Dated
  <2>2. QED
    BY <2>1 DEF InOrder
<1>3. QED
  BY <1>1, <1>2 DEF Dated

\* Every history, on disk or as a rebuild read it, was recorded in the order of its
\* numbers and of the clock.
THEOREM Dating == Spec => []Dated
<1>1. ASSUME Init PROVE Dated
  <2>1. 0 \in 0 .. MaxWrites
    BY CheckpointAssumption
  <2>2. QED
    BY <1>1, <2>1, NoneInOrder, EmptySeq, CheckpointAssumption
       DEF Init, Dated, Inside, NoHistories
<1>2. ASSUME Dated, [Next]_vars PROVE Dated'
  <2>1. CASE \E p \in Proc : Write(p)
    BY <1>2, <2>1, WritesInOrder
  <2>2. CASE \E p \in Proc : Seal(p) \/ Rebuild(p) \/ Crash(p) \/ Exit(p) \/ TearChain(p)
    BY <1>2, <2>2, RestInOrder
  <2>3. CASE \/ \E d \in Doc : Create(d) \/ Garble(d)
             \/ \E d \in Doc, version \in 0 .. MaxVersion : HandEdit(d, version)
             \/ UNCHANGED vars
    <3>1. UNCHANGED <<history, clock, lock, pc, job, before>>
      BY <2>3 DEF Create, Garble, HandEdit, locals, vars
    <3>2. QED
      BY <1>2, <3>1, AuthorsInOrder
  <2>4. QED
    BY <1>2, <2>1, <2>2, <2>3 DEF Next
<1>3. QED
  BY <1>1, <1>2, PTL DEF Spec

--------------------------------------------------------------------------------
(* Types.                                                                  *)

LEMMA NoJobTypes ==
  /\ NoJob \in [doc: Doc \union {None}, version: 0 .. MaxVersion, hash: 0 .. MaxWrites]
  /\ NoHistories \in Histories
<1>1. <<>> \in Seq(Entry)
  BY EmptySeq
<1>2. QED
  BY <1>1, CheckpointAssumption DEF NoJob, NoHistories, Histories

LEMMA FileTypes ==
  /\ [version |-> 0, published |-> FALSE] \in File
  /\ \A version \in 0 .. MaxVersion : [version |-> version, published |-> TRUE] \in File
  BY CheckpointAssumption DEF File

LEMMA JobTypes ==
  ASSUME TypeOK, NEW p \in Proc, NEW d \in Doc, NEW n \in Version, TakeJob(p, d, n)
  PROVE  /\ clock' \in 0 .. MaxWrites /\ lock' = p /\ lock = None /\ pc[p] = "idle"
         /\ job' = [job EXCEPT ![p] = [doc |-> d, version |-> n, hash |-> clock + 1]]
         /\ job' \in [Proc -> [doc: Doc \union {None}, version: 0 .. MaxVersion,
                              hash: 0 .. MaxWrites]]
         /\ [version |-> n, hash |-> clock + 1] \in Entry
         /\ [version |-> n, published |-> TRUE] \in File
<1>1. clock + 1 \in 0 .. MaxWrites /\ n \in 0 .. MaxVersion
  BY CheckpointAssumption DEF TakeJob, TypeOK, Version
<1>2. QED
  BY <1>1 DEF TakeJob, Acquire, TypeOK, Entry, File

\* The head is read from the pointer or from the file.
LEMMA HeadTypes ==
  ASSUME TypeOK, ChainHead # None
  PROVE  ChainHead \in Checkpoint
<1>1. chain # <<>> => chain[Len(chain)] \in Checkpoint
  BY EmptySeq, LenProperties DEF TypeOK
<1>2. pointer # None => pointer.head \in Checkpoint
  BY DEF TypeOK
<1>3. QED
  BY <1>1, <1>2 DEF ChainHead

LEMMA HashIsSeq ==
  ASSUME NEW c \in Checkpoint
  PROVE  Log!HashOf(c) \in Seq(Payload)
<1>1. [number |-> c.number, at |-> c.at, sealed |-> c.sealed] \in Payload
  BY DEF Checkpoint, Payload
<1>2. QED
  BY <1>1, AppendProperties DEF Checkpoint, Log!HashOf

\* The hash bound to a published document is a recorded one, or none.
LEMMA SealedHash ==
  ASSUME TypeOK, NEW p \in Proc, NEW d \in Doc
  PROVE  HashToSeal(p, d) \in 0 .. MaxWrites
<1>1. RecordedHash(d) \in 0 .. MaxWrites
  <2> DEFINE same == {i \in DOMAIN history[d] : history[d][i].version = VersionToSeal(d)}
  <2>1. history[d] \in Seq(Entry)
    BY DEF TypeOK, Histories
  <2>2. \A i \in DOMAIN history[d] : history[d][i].hash \in 0 .. MaxWrites
    <3>1. \A i \in DOMAIN history[d] : history[d][i] \in Entry
      BY <2>1
    <3>2. QED
      BY <3>1 DEF Entry
  <2>3. history[d] # <<>> => Len(history[d]) \in DOMAIN history[d]
    BY <2>1, EmptySeq, LenProperties
  <2>4. same # {} => (CHOOSE i \in same : TRUE) \in DOMAIN history[d]
    OBVIOUS
  <2>5. 0 \in 0 .. MaxWrites
    BY CheckpointAssumption
  <2>6. RecordedHash(d) = CASE history[d] = <<>> -> 0
                            [] same # {} -> history[d][CHOOSE i \in same : TRUE].hash
                            [] OTHER -> history[d][Len(history[d])].hash
    BY DEF RecordedHash
  <2> HIDE DEF same
  <2>7. CASE history[d] = <<>>
    <3>1. same = {}
      BY <2>7 DEF same
    <3>2. QED
      BY <2>5, <2>6, <2>7, <3>1
  <2>8. CASE history[d] # <<>> /\ same # {}
    BY <2>2, <2>4, <2>6, <2>8
  <2>9. CASE history[d] # <<>> /\ same = {}
    BY <2>2, <2>3, <2>6, <2>9
  <2>10. QED
    BY <2>7, <2>8, <2>9
<1>2. Carries(p, d) => ChainHead.sealed[d] \in Entry
  BY HeadTypes DEF Carries, HeadSeals, Checkpoint, Snapshot
<1>3. job[p].hash \in 0 .. MaxWrites
  BY DEF TypeOK
<1>4. QED
  BY <1>1, <1>2, <1>3 DEF HashToSeal, Entry

LEMMA SealedSnapshot ==
  ASSUME TypeOK, NEW p \in Proc
  PROVE  SnapshotOf(p) \in Snapshot
<1>1. SUFFICES ASSUME NEW d \in Doc
               PROVE  (CASE IsPublished(d) -> [version |-> VersionToSeal(d),
                                               hash |-> HashToSeal(p, d)]
                         [] d \in unreadable /\ HeadSeals(d) -> ChainHead.sealed[d]
                         [] OTHER -> None) \in Entry \union {None}
  BY DEF SnapshotOf, Snapshot
<1>2. IsPublished(d) => VersionToSeal(d) \in Version
  BY CheckpointAssumption DEF TypeOK, IsPublished, VersionToSeal, File, Version
<1>3. IsPublished(d) => [version |-> VersionToSeal(d), hash |-> HashToSeal(p, d)] \in Entry
  BY <1>2, SealedHash DEF Entry
<1>4. HeadSeals(d) => ChainHead.sealed[d] \in Entry
  BY HeadTypes DEF HeadSeals, Checkpoint, Snapshot
<1>5. IsPublished(d) => d \notin unreadable
  BY DEF IsPublished
<1>6. QED
  BY <1>3, <1>4, <1>5

\* What a seal is to append.
LEMMA SealTypes ==
  ASSUME TypeOK, NEW p \in Proc, SealRead(p)
  PROVE  /\ cp' = [cp EXCEPT ![p] =
                     [number |-> IF ChainHead = None THEN 1 ELSE ChainHead.number + 1,
                      at     |-> clock,
                      sealed |-> SnapshotOf(p),
                      prev   |-> IF ChainHead = None THEN <<>> ELSE Log!HashOf(ChainHead)]]
         /\ cp'[p] \in Checkpoint /\ cp' \in [Proc -> Checkpoint \union {None}]
<1> DEFINE c == [number |-> IF ChainHead = None THEN 1 ELSE ChainHead.number + 1,
                 at     |-> clock,
                 sealed |-> SnapshotOf(p),
                 prev   |-> IF ChainHead = None THEN <<>> ELSE Log!HashOf(ChainHead)]
<1>1. cp' = [cp EXCEPT ![p] = c]
  BY DEF SealRead
<1>2. clock \in 0 .. MaxWrites /\ SnapshotOf(p) \in Snapshot
  BY SealedSnapshot DEF TypeOK
<1>3. ChainHead # None => ChainHead.number + 1 \in Nat /\ Log!HashOf(ChainHead) \in Seq(Payload)
  <2>1. SUFFICES ASSUME ChainHead # None
                 PROVE  ChainHead.number + 1 \in Nat /\ Log!HashOf(ChainHead) \in Seq(Payload)
    OBVIOUS
  <2>2. ChainHead \in Checkpoint
    BY <2>1, HeadTypes
  <2>3. QED
    BY <2>2, HashIsSeq DEF Checkpoint
<1>4. <<>> \in Seq(Payload) /\ 1 \in Nat
  BY EmptySeq
<1>5. c.number \in Nat /\ c.prev \in Seq(Payload)
  BY <1>3, <1>4
<1>6. c \in Checkpoint
  BY <1>2, <1>5 DEF Checkpoint
<1> HIDE DEF c
<1>7. cp'[p] = c /\ cp' \in [Proc -> Checkpoint \union {None}]
  BY <1>1, <1>6 DEF TypeOK
<1>8. QED
  BY <1>1, <1>6, <1>7 DEF c

LEMMA WriteTyped ==
  ASSUME Typed, Dated, NEW p \in Proc, Write(p)
  PROVE  Typed'
<1>0. TypeOK /\ \A q \in Proc : pc[q] \in {"append", "point"} => cp[q] # None
  BY DEF Typed
<1>1. ASSUME NEW d \in Doc, NEW n \in Version, PublishLive(p, d, n)
      PROVE  TypeOK'
  <2>1. /\ clock' \in 0 .. MaxWrites /\ lock' = p
        /\ job' \in [Proc -> [doc: Doc \union {None}, version: 0 .. MaxVersion,
                             hash: 0 .. MaxWrites]]
        /\ [version |-> n, published |-> TRUE] \in File
    BY <1>0, <1>1, JobTypes DEF PublishLive
  <2>2. QED
    BY <1>0, <1>1, <2>1 DEF PublishLive, chainFiles, Goto, TypeOK
<1>2. ASSUME NEW d \in Doc, NEW n \in Version, CommitEntry(p, d, n)
      PROVE  TypeOK'
  <2>1. /\ clock' \in 0 .. MaxWrites /\ lock' = p
        /\ job' \in [Proc -> [doc: Doc \union {None}, version: 0 .. MaxVersion,
                             hash: 0 .. MaxWrites]]
        /\ [version |-> n, hash |-> clock + 1] \in Entry
    BY <1>0, <1>2, JobTypes DEF CommitEntry
  <2>2. history' \in Histories
    <3>1. Append(history[d], [version |-> n, hash |-> clock + 1]) \in Seq(Entry)
      BY <1>0, <2>1, AppendProperties DEF TypeOK, Histories
    <3>2. QED
      BY <1>0, <1>2, <3>1 DEF CommitEntry, TypeOK, Histories
  <2>3. QED
    BY <1>0, <1>2, <2>1, <2>2 DEF CommitEntry, Touch, chainFiles, Goto, TypeOK
<1>3. ASSUME NEW d \in Doc, DeleteFile(p, d)
      PROVE  TypeOK'
  BY <1>0, <1>3 DEF DeleteFile, Acquire, Touch, chainFiles, Goto, TypeOK
<1>4. ASSUME PublishEntry(p) \/ PublishUnsealed(p)
      PROVE  TypeOK'
  <2>1. EntryOf(p) \in Entry /\ job[p].doc \in Doc
    BY <1>4 DEF PublishEntry, PublishUnsealed, Dated
  <2>2. history' \in Histories
    <3>1. Append(history[job[p].doc], EntryOf(p)) \in Seq(Entry)
      BY <1>0, <2>1, AppendProperties DEF TypeOK, Histories
    <3>2. QED
      BY <1>0, <1>4, <2>1, <3>1 DEF PublishEntry, PublishUnsealed, RecordEntry, TypeOK, Histories
  <2>3. ASSUME PublishEntry(p) PROVE TypeOK'
    BY <1>0, <2>1, <2>2, <2>3 DEF PublishEntry, RecordEntry, Touch, chainFiles, locals, Goto, TypeOK
  <2>4. ASSUME PublishUnsealed(p) PROVE TypeOK'
    BY <1>0, <2>1, <2>2, <2>4, NoJobTypes
       DEF PublishUnsealed, RecordEntry, Release, Touch, chainFiles, Goto, TypeOK
  <2>5. QED
    BY <1>4, <2>3, <2>4
<1>5. ASSUME CommitLive(p)
      PROVE  TypeOK'
  <2>1. job[p].doc \in Doc /\ [version |-> job[p].version, published |-> TRUE] \in File
    BY <1>0, <1>5, FileTypes DEF CommitLive, Dated, TypeOK
  <2>2. QED
    BY <1>0, <1>5, <2>1, NoJobTypes DEF CommitLive, Release, chainFiles, Goto, TypeOK
<1>6. ASSUME DeleteHistory(p)
      PROVE  TypeOK'
  <2>1. job[p].doc \in Doc /\ <<>> \in Seq(Entry)
    BY <1>6, EmptySeq DEF DeleteHistory, Dated
  <2>2. QED
    BY <1>0, <1>6, <2>1, NoJobTypes DEF DeleteHistory, Release, chainFiles, Goto, TypeOK, Histories
<1>7. TypeOK'
  BY <1>1, <1>2, <1>3, <1>4, <1>5, <1>6 DEF Write
<1>8. ASSUME NEW q \in Proc, pc'[q] \in {"append", "point"}
      PROVE  cp'[q] # None
  <2>1. /\ \E s \in {"entry", "live", "rm", "seal", "idle"} : pc' = [pc EXCEPT ![p] = s]
        /\ cp' = cp \/ cp' = [cp EXCEPT ![p] = None]
    BY DEF Write, PublishLive, CommitEntry, DeleteFile, PublishEntry, PublishUnsealed, CommitLive,
           DeleteHistory, Release, Goto, locals
  <2>2. q # p /\ pc'[q] = pc[q] /\ cp'[q] = cp[q]
    BY <1>0, <1>8, <2>1 DEF TypeOK
  <2>3. QED
    BY <1>0, <1>8, <2>2
<1>9. QED
  BY <1>7, <1>8 DEF Typed

LEMMA SealTyped ==
  ASSUME Typed, NEW p \in Proc, Seal(p)
  PROVE  Typed'
<1>0. TypeOK /\ \A q \in Proc : pc[q] \in {"append", "point"} => cp[q] # None
  BY DEF Typed
<1>1. CASE SealWrites(p)
  <2>1. TypeOK'
    BY <1>0, <1>1 DEF SealWrites, Acquire, documents, chainFiles, locals, Goto, TypeOK
  <2>2. QED
    BY <1>0, <1>1, <2>1 DEF SealWrites, locals, Goto, TypeOK, Typed
<1>2. CASE SealRead(p)
  <2>1. cp'[p] \in Checkpoint /\ cp' \in [Proc -> Checkpoint \union {None}]
        /\ \A q \in Proc : q # p => cp'[q] = cp[q]
    BY <1>0, <1>2, SealTypes DEF TypeOK
  <2>2. TypeOK'
    BY <1>0, <1>2, <2>1 DEF SealRead, documents, chainFiles, Goto, TypeOK
  <2>3. \A q \in Proc : q # p => pc'[q] = pc[q]
    BY <1>0, <1>2 DEF SealRead, Goto, TypeOK
  <2>4. QED
    BY <1>0, <2>1, <2>2, <2>3, NoneAssumption DEF Typed
<1>3. CASE SealAppend(p)
  <2>1. cp[p] \in Checkpoint
    BY <1>0, <1>3 DEF SealAppend, TypeOK
  <2>2. chain' \in Seq(Checkpoint)
    BY <1>0, <1>3, <2>1, AppendProperties DEF SealAppend, TypeOK
  <2>3. TypeOK'
    BY <1>0, <1>3, <2>2 DEF SealAppend, documents, locals, Goto, TypeOK
  <2>4. \A q \in Proc : cp'[q] = cp[q] /\ (q # p => pc'[q] = pc[q])
    BY <1>0, <1>3 DEF SealAppend, Goto, locals, TypeOK
  <2>5. QED
    BY <1>0, <2>1, <2>3, <2>4, NoneAssumption DEF Typed
<1>4. CASE Point(p)
  <2>1. cp[p] \in Checkpoint
    BY <1>0, <1>4 DEF Point, TypeOK
  <2>2. TypeOK'
    BY <1>0, <1>4, <2>1, NoJobTypes DEF Point, Release, documents, Goto, TypeOK
  <2>3. pc'[p] = "idle" /\ \A q \in Proc : q # p => pc'[q] = pc[q] /\ cp'[q] = cp[q]
    BY <1>0, <1>4 DEF Point, Release, Goto, TypeOK
  <2>4. QED
    BY <1>0, <2>2, <2>3 DEF Typed
<1>5. QED
  BY <1>1, <1>2, <1>3, <1>4 DEF Seal

LEMMA RebuildTyped ==
  ASSUME Typed, Dated, NEW p \in Proc, Rebuild(p)
  PROVE  Typed'
<1>0. TypeOK /\ \A q \in Proc : pc[q] \in {"append", "point"} => cp[q] # None
  BY DEF Typed
<1> DEFINE h == before[p]
<1>1. h \in Histories /\ InOrder(h)
  BY DEF Dated
<1>2. ASSUME RebuildRead(p)
      PROVE  TypeOK'
  <2>1. 1 \in 0 .. MaxAttempts
    BY CheckpointAssumption
  <2>2. QED
    BY <1>0, <1>2, <2>1 DEF RebuildRead, Goto, documents, chainFiles, TypeOK
<1>3. ASSUME RebuildWrite(p)
      PROVE  TypeOK'
  <2>1. chain' = DeriveCheckpointHistory(h)
    BY <1>3 DEF RebuildWrite
  <2>2. chain' \in Seq(Checkpoint)
    BY <1>1, <2>1, RebuiltChain
  <2>3. QED
    BY <1>0, <1>3, <2>2 DEF RebuildWrite, Goto, documents, locals, TypeOK
<1>4. ASSUME RebuildPoint(p)
      PROVE  TypeOK'
  <2> DEFINE D == DeriveCheckpointHistory(h)
  <2>1. D \in Seq(Checkpoint)
    BY <1>1, RebuiltChain
  <2>2. pointer' = IF D = <<>> THEN None ELSE [of |-> chain, head |-> D[Len(D)]]
    BY <1>4 DEF RebuildPoint
  <2> HIDE DEF D
  <2>3. D # <<>> => D[Len(D)] \in Checkpoint
    BY <2>1, EmptySeq, LenProperties
  <2>4. pointer' \in [of: Seq(Checkpoint), head: Checkpoint] \union {None}
    BY <1>0, <2>2, <2>3 DEF TypeOK
  <2>5. /\ pc' = [pc EXCEPT ![p] = "recheck"]
        /\ UNCHANGED <<live, unreadable, history, clock, file, chain, lock, touched, job, cp, before,
                       attempt>>
    BY <1>4 DEF RebuildPoint, Goto, documents, locals
  <2>6. QED
    BY <1>0, <2>4, <2>5 DEF TypeOK
<1>5. ASSUME RebuildCheck(p)
      PROVE  TypeOK'
  <2>1. /\ \E s \in {"idle", "rebuild"} : pc' = [pc EXCEPT ![p] = s]
        /\ \E g \in {NoHistories, history} : before' = [before EXCEPT ![p] = g]
        /\ \/ attempt' = [attempt EXCEPT ![p] = 0]
           \/ attempt[p] # MaxAttempts /\ attempt' = [attempt EXCEPT ![p] = attempt[p] + 1]
        /\ UNCHANGED <<live, unreadable, history, clock, file, chain, pointer, lock, touched, job, cp>>
    BY <1>5 DEF RebuildCheck, Goto, documents, chainFiles
  <2>2. /\ before' \in [Proc -> Histories]
        /\ pc' \in [Proc -> {"idle", "entry", "seal", "append", "point", "live", "rm",
                             "rebuild", "repoint", "recheck"}]
    BY <1>0, <2>1, NoJobTypes DEF TypeOK
  <2>3. attempt' \in [Proc -> 0 .. MaxAttempts]
    <3>1. attempt \in [Proc -> 0 .. MaxAttempts] /\ 0 \in 0 .. MaxAttempts
      BY <1>0, CheckpointAssumption DEF TypeOK
    <3>2. attempt[p] # MaxAttempts => attempt[p] + 1 \in 0 .. MaxAttempts
      BY <3>1, CheckpointAssumption
    <3>3. CASE attempt' = [attempt EXCEPT ![p] = 0]
      BY <3>1, <3>3
    <3>4. CASE attempt[p] # MaxAttempts /\ attempt' = [attempt EXCEPT ![p] = attempt[p] + 1]
      BY <3>1, <3>2, <3>4
    <3>5. QED
      BY <2>1, <3>3, <3>4
  <2>4. QED
    BY <1>0, <2>1, <2>2, <2>3 DEF TypeOK
<1>6. TypeOK'
  BY <1>2, <1>3, <1>4, <1>5 DEF Rebuild
<1>7. ASSUME NEW q \in Proc, pc'[q] \in {"append", "point"}
      PROVE  cp'[q] # None
  <2>1. /\ \E s \in {"idle", "rebuild", "repoint", "recheck"} : pc' = [pc EXCEPT ![p] = s]
        /\ cp' = cp
    BY DEF Rebuild, RebuildRead, RebuildWrite, RebuildPoint, RebuildCheck, Goto, locals
  <2>2. pc'[q] = pc[q]
    BY <1>0, <1>7, <2>1 DEF TypeOK
  <2>3. QED
    BY <1>0, <1>7, <2>1, <2>2
<1>8. QED
  BY <1>6, <1>7 DEF Typed

\* Faults, authors, and steps of nobody.
LEMMA RestTyped ==
  ASSUME Typed,
         \/ \E p \in Proc : Crash(p) \/ Exit(p) \/ TearChain(p)
         \/ \E d \in Doc : Create(d) \/ Garble(d)
         \/ \E d \in Doc, version \in 0 .. MaxVersion : HandEdit(d, version)
         \/ UNCHANGED vars
  PROVE  Typed'
<1>0. TypeOK /\ \A q \in Proc : pc[q] \in {"append", "point"} => cp[q] # None
  BY DEF Typed
<1>1. ASSUME NEW p \in Proc, Crash(p) \/ Exit(p) \/ TearChain(p)
      PROVE  Typed'
  <2>1. Die(p) /\ UNCHANGED <<live, unreadable, history, clock, pointer>>
    BY <1>1 DEF Crash, Exit, TearChain, documents, chainFiles
  <2>2. /\ file' \in {"absent", "ok", "corrupt"}
        /\ chain' = chain \/ chain' = <<>>
    BY <1>0, <1>1 DEF Crash, Exit, TearChain, chainFiles, TypeOK
  <2>3. chain' \in Seq(Checkpoint)
    BY <1>0, <2>2, EmptySeq DEF TypeOK
  <2>4. TypeOK'
    BY <1>0, <2>1, <2>2, <2>3, NoJobTypes, CheckpointAssumption DEF Die, Goto, TypeOK
  <2>5. pc'[p] = "idle" /\ \A q \in Proc : q # p => pc'[q] = pc[q] /\ cp'[q] = cp[q]
    BY <1>0, <2>1 DEF Die, Goto, TypeOK
  <2>6. QED
    BY <1>0, <2>4, <2>5 DEF Typed
<1>2. ASSUME UNCHANGED <<history, clock, file, chain, pointer, lock, touched, pc, job, cp, before, attempt>>,
             live' \in [Doc -> File \union {None}], unreadable' \in SUBSET Doc
      PROVE  Typed'
  <2>1. TypeOK'
    BY <1>0, <1>2 DEF TypeOK
  <2>2. QED
    BY <1>0, <1>2, <2>1 DEF Typed
<1>3. ASSUME NEW d \in Doc, Create(d) \/ Garble(d)
      PROVE  Typed'
  <2>1. UNCHANGED <<history, clock, file, chain, pointer, lock, touched, pc, job, cp, before, attempt>>
    BY <1>3 DEF Create, Garble, chainFiles, locals
  <2>2. live' \in [Doc -> File \union {None}] /\ unreadable' \in SUBSET Doc
    BY <1>0, <1>3, FileTypes DEF Create, Garble, TypeOK
  <2>3. QED
    BY <1>2, <2>1, <2>2
<1>4. ASSUME NEW d \in Doc, NEW version \in 0 .. MaxVersion, HandEdit(d, version)
      PROVE  Typed'
  <2>1. UNCHANGED <<history, clock, file, chain, pointer, lock, touched, pc, job, cp, before, attempt>>
    BY <1>4 DEF HandEdit, chainFiles, locals
  <2>2. live' \in [Doc -> File \union {None}] /\ unreadable' \in SUBSET Doc
    <3>1. [version |-> version, published |-> TRUE] \in File
      BY FileTypes
    <3>2. QED
      BY <1>0, <1>4, <3>1 DEF HandEdit, TypeOK
  <2>3. QED
    BY <1>2, <2>1, <2>2
<1>5. CASE UNCHANGED vars
  BY <1>0, <1>2, <1>5 DEF vars, TypeOK
<1>6. QED
  BY <1>1, <1>3, <1>4, <1>5

LEMMA InitTyped == Init => Typed
<1> SUFFICES ASSUME Init PROVE Typed
  OBVIOUS
<1>1. <<>> \in Seq(Checkpoint) /\ 0 \in 0 .. MaxWrites /\ 0 \in 0 .. MaxAttempts
  BY EmptySeq, CheckpointAssumption
<1>2. live \in [Doc -> File \union {None}]
  BY FileTypes DEF Init
<1>3. TypeOK
  BY <1>1, <1>2, NoJobTypes DEF Init, TypeOK
<1>4. QED
  BY <1>3 DEF Init, Typed

LEMMA TypedStep ==
  ASSUME Typed, Dated, [Next]_vars
  PROVE  Typed'
BY WriteTyped, SealTyped, RebuildTyped, RestTyped DEF Next

\* Typed is an invariant of every vault.
LEMMA TypedAlways == Spec => []Typed
<1>1. Typed /\ Dated /\ [Next]_vars => Typed'
  BY TypedStep
<1>2. QED
  BY <1>1, InitTyped, Dating, PTL DEF Spec

\* Type correctness, whatever happens to the vault.
THEOREM Types == Spec => []TypeOK
<1>1. Typed => TypeOK
  BY DEF Typed
<1>2. QED
  BY <1>1, TypedAlways, PTL

--------------------------------------------------------------------------------
(* The head of the chain.                                                  *)

LEMMA LastCheckpoint ==
  ASSUME ChainInv, chain # <<>>
  PROVE  /\ Len(chain) \in Nat \ {0} /\ DOMAIN chain = 1 .. Len(chain)
         /\ chain[Len(chain)] \in Checkpoint
         /\ chain[Len(chain)].number = Len(chain)
  BY EmptySeq, LenProperties DEF ChainInv, TypeOK, ChainLinked

\* Read from the pointer or from the file, the head is the last checkpoint.
LEMMA HeadIsLast ==
  ASSUME ChainInv
  PROVE  /\ ChainHead = IF chain = <<>> THEN None ELSE chain[Len(chain)]
         /\ ChainHead # None => ChainHead \in Checkpoint
  BY LastCheckpoint DEF ChainInv, PointerExact, ChainHead

\* A checkpoint that continues the chain may be appended to it.
LEMMA AppendKeepsLinked ==
  ASSUME ChainInv, NEW c \in Checkpoint, Log!Continues(chain, c), chain' = Append(chain, c)
  PROVE  /\ chain' \in Seq(Checkpoint) /\ ChainLinked'
         /\ Len(chain') = Len(chain) + 1 /\ chain'[Len(chain')] = c /\ chain' # <<>>
         /\ DOMAIN chain = 1 .. Len(chain)
         /\ \A i \in DOMAIN chain : chain'[i] = chain[i]
<1> DEFINE n == Len(chain)
<1>1. chain \in Seq(Checkpoint) /\ n \in Nat /\ DOMAIN chain = 1 .. n
  BY LenProperties DEF ChainInv, TypeOK
<1>2. /\ chain' \in Seq(Checkpoint) /\ Len(chain') = n + 1 /\ chain'[n + 1] = c
      /\ DOMAIN chain' = 1 .. n + 1
      /\ \A i \in 1 .. n : chain'[i] = chain[i]
  BY <1>1, AppendProperties, LenProperties
<1>3. chain' # <<>>
  BY <1>1, <1>2
<1>4. c.number = n + 1 /\ c.prev = IF n = 0 THEN <<>> ELSE Log!HashOf(chain[n])
  BY <1>1, EmptySeq DEF Log!Continues, Log!LastHash
<1> HIDE DEF n
<1>5. ASSUME NEW i \in 1 .. n + 1
      PROVE  /\ chain'[i].number = i
             /\ chain'[i].prev = IF i = 1 THEN <<>> ELSE Log!HashOf(chain'[i - 1])
  <2>1. CASE i \in 1 .. n
    <3>1. i # 1 => i - 1 \in 1 .. n
      BY <1>1, <2>1
    <3>2. QED
      BY <1>1, <1>2, <2>1, <3>1 DEF ChainInv, ChainLinked
  <2>2. CASE i = n + 1
    <3>1. i # 1 => i - 1 \in 1 .. n /\ i - 1 = n /\ n # 0
      BY <1>1, <2>2
    <3>2. i = 1 => n = 0
      BY <1>1, <2>2
    <3>3. QED
      BY <1>1, <1>2, <1>4, <2>2, <3>1, <3>2
  <2>3. QED
    BY <1>1, <2>1, <2>2
<1>6. ChainLinked'
  BY <1>2, <1>5 DEF ChainLinked
<1>7. QED
  BY <1>1, <1>2, <1>3, <1>6 DEF n

--------------------------------------------------------------------------------
(* Sealing.                                                                *)

\* What a seal reads continues the chain it read.
LEMMA SealContinuesChain ==
  ASSUME ChainInv, NEW p \in Proc, SealRead(p)
  PROVE  cp'[p] \in Checkpoint /\ Log!Continues(chain, cp'[p])
<1> DEFINE c == [number |-> IF ChainHead = None THEN 1 ELSE ChainHead.number + 1,
                 at     |-> clock,
                 sealed |-> SnapshotOf(p),
                 prev   |-> IF ChainHead = None THEN <<>> ELSE Log!HashOf(ChainHead)]
<1>1. cp'[p] = c /\ cp'[p] \in Checkpoint
  BY SealTypes DEF ChainInv, TypeOK
<1>2. CASE chain = <<>>
  <2>1. ChainHead = None /\ Len(chain) = 0
    BY <1>2, HeadIsLast, EmptySeq
  <2>2. QED
    BY <1>1, <1>2, <2>1 DEF Log!Continues, Log!LastHash
<1>3. CASE chain # <<>>
  <2>1. ChainHead = chain[Len(chain)] /\ ChainHead # None
        /\ ChainHead.number = Len(chain) /\ Len(chain) \in Nat
    BY <1>3, HeadIsLast, LastCheckpoint, NoneAssumption
  <2>2. QED
    BY <1>1, <1>3, <2>1 DEF Log!Continues, Log!LastHash
<1>4. QED
  BY <1>2, <1>3

--------------------------------------------------------------------------------
(* The steps.                                                              *)

\* Steps that leave the chain and its files alone.
LEMMA SameChain ==
  ASSUME ChainInv, UNCHANGED chainFiles
  PROVE  ChainLinked' /\ PointerExact' /\ (file # "ok" => chain = <<>>)'
  BY DEF ChainInv, chainFiles, ChainLinked, PointerExact

\* Nobody else is inside the lock when an operation takes it.
LEMMA NobodyElse ==
  ASSUME ChainInv, NEW p \in Proc, lock = None \/ lock = p
  PROVE  \A q \in Proc \ {p} : pc[q] = "idle"
<1>1. SUFFICES ASSUME NEW q \in Proc, q # p
               PROVE  pc[q] = "idle"
  OBVIOUS
<1>2. lock # q
  BY <1>1, CheckpointAssumption
<1>3. /\ pc[q] \notin {"entry", "seal", "append", "point", "live", "rm"}
      /\ pc[q] \notin {"rebuild", "repoint", "recheck"}
  BY <1>1, <1>2 DEF ChainInv, SealContinues
<1>4. QED
  BY <1>3 DEF ChainInv, TypeOK

LEMMA WriteKeepsChain ==
  ASSUME ChainInv, TypeOK', NEW p \in Proc, Write(p)
  PROVE  ChainInv'
<1>1. UNCHANGED chainFiles
  BY DEF Write, PublishLive, CommitEntry, DeleteFile, PublishEntry, PublishUnsealed, CommitLive,
         DeleteHistory
<1>2. ChainLinked' /\ PointerExact' /\ (file # "ok" => chain = <<>>)'
  BY <1>1, SameChain
<1>3. ASSUME NEW d \in Doc, NEW n \in Version, TakeJob(p, d, n)
      PROVE  /\ lock' = p /\ lock = None
             /\ job' = [job EXCEPT ![p] = [doc |-> d, version |-> n, hash |-> clock + 1]]
  BY <1>3 DEF TakeJob, Acquire
<1>4. ASSUME NEW d \in Doc, NEW n \in Version, PublishLive(p, d, n) \/ CommitEntry(p, d, n)
      PROVE  SealContinues'
  <2>1. TakeJob(p, d, n) /\ \E s \in {"entry", "live"} : pc' = [pc EXCEPT ![p] = s]
    BY <1>4 DEF PublishLive, CommitEntry, Goto
  <2>2. lock' = p /\ lock = None /\ job'[p].doc = d /\ job'[p].version = n
    BY <1>3, <2>1 DEF ChainInv, TypeOK
  <2>3. \A q \in Proc \ {p} : pc[q] = "idle"
    BY <2>2, NobodyElse
  <2>4. pc'[p] \in {"entry", "live"} /\ \A q \in Proc \ {p} : pc'[q] = "idle"
    BY <2>1, <2>3 DEF ChainInv, TypeOK
  <2>5. QED
    BY <2>2, <2>4 DEF SealContinues
<1>5. ASSUME NEW d \in Doc, DeleteFile(p, d)
      PROVE  SealContinues'
  <2>1. /\ lock = None /\ lock' = p /\ pc' = [pc EXCEPT ![p] = "rm"]
        /\ job' = [job EXCEPT ![p].doc = d]
    BY <1>5 DEF DeleteFile, Acquire, Goto
  <2>2. \A q \in Proc \ {p} : pc[q] = "idle"
    BY <2>1, NobodyElse
  <2>3. pc'[p] = "rm" /\ job'[p].doc = d /\ \A q \in Proc \ {p} : pc'[q] = "idle"
    BY <2>1, <2>2 DEF ChainInv, TypeOK
  <2>4. QED
    BY <2>1, <2>3 DEF SealContinues
<1>6. ASSUME PublishEntry(p)
      PROVE  SealContinues'
  <2>1. lock = p
    BY <1>6 DEF PublishEntry, ChainInv, SealContinues
  <2>2. QED
    BY <1>6, <2>1, NobodyElse DEF PublishEntry, locals, Goto, ChainInv, TypeOK, SealContinues
<1>7. ASSUME PublishUnsealed(p) \/ CommitLive(p) \/ DeleteHistory(p)
      PROVE  SealContinues'
  <2>1. lock = p /\ pc' = [pc EXCEPT ![p] = "idle"]
    BY <1>7 DEF PublishUnsealed, CommitLive, DeleteHistory, Release, Goto, ChainInv, SealContinues
  <2>2. \A q \in Proc : pc'[q] = "idle"
    BY <2>1, NobodyElse DEF ChainInv, TypeOK
  <2>3. QED
    BY <2>2 DEF SealContinues
<1>8. QED
  BY <1>2, <1>4, <1>5, <1>6, <1>7 DEF Write, ChainInv

\* The append: onto the chain, or as the first checkpoint of a new one.
LEMMA SealAppends ==
  ASSUME ChainInv, NEW p \in Proc, SealAppend(p)
  PROVE  /\ cp[p] \in Checkpoint /\ Log!Continues(chain, cp[p])
         /\ chain' = Append(chain, cp[p])
<1>1. cp[p] \in Checkpoint /\ Log!Continues(chain, cp[p])
  BY DEF SealAppend, ChainInv, TypeOK, SealContinues
<1>2. CASE cp[p].number = 1
  <2>1. Len(chain) = 0 /\ chain \in Seq(Checkpoint)
    BY <1>1, <1>2, LenProperties DEF Log!Continues, ChainInv, TypeOK
  <2>2. chain = <<>>
    BY <2>1, EmptySeq
  <2>3. QED
    BY <1>1, <1>2, <2>2 DEF SealAppend
<1>3. CASE cp[p].number # 1
  BY <1>1, <1>3 DEF SealAppend
<1>4. QED
  BY <1>2, <1>3

LEMMA SealKeepsChain ==
  ASSUME ChainInv, TypeOK', NEW p \in Proc, Seal(p)
  PROVE  ChainInv'
<1>1. CASE SealRead(p)
  <2>1. cp'[p] \in Checkpoint /\ Log!Continues(chain, cp'[p]) /\ cp'[p] # None
    BY <1>1, SealContinuesChain, NoneAssumption
  <2>2. pc[p] = "seal" /\ lock = p
    BY <1>1 DEF SealRead, ChainInv, SealContinues
  <2>3. ChainLinked' /\ PointerExact' /\ (file # "ok" => chain = <<>>)'
    BY <1>1, SameChain DEF SealRead
  <2>4. SealContinues'
    <3>1. /\ pc' = [pc EXCEPT ![p] = "append"]
          /\ UNCHANGED <<chain, file, lock, job>>
      BY <1>1 DEF SealRead, Goto, chainFiles
    <3>2. \A q \in Proc \ {p} : pc'[q] = "idle"
      BY <2>2, <3>1, NobodyElse DEF ChainInv, TypeOK
    <3>3. pc'[p] = "append"
      BY <3>1 DEF ChainInv, TypeOK
    <3>4. Log!Continues(chain, cp[p])'
      BY <2>1, <3>1 DEF Log!Continues, Log!LastHash, Log!HashOf
    <3>5. QED
      BY <2>1, <2>2, <3>1, <3>2, <3>3, <3>4 DEF SealContinues
  <2>5. QED
    BY <2>3, <2>4 DEF ChainInv
<1>2. CASE SealAppend(p)
  <2>1. /\ cp[p] \in Checkpoint /\ chain' = Append(chain, cp[p]) /\ ChainLinked'
        /\ chain'[Len(chain')] = cp[p] /\ chain' # <<>>
    BY <1>2, SealAppends, AppendKeepsLinked
  <2>2. /\ pc[p] = "append" /\ lock = p /\ file' = "ok" /\ pc' = [pc EXCEPT ![p] = "point"]
        /\ UNCHANGED <<pointer, lock, job, cp>>
    BY <1>2 DEF SealAppend, Goto, locals, ChainInv, SealContinues
  <2>3. PointerExact' /\ (file # "ok" => chain = <<>>)'
    BY <2>2 DEF ChainInv, PointerExact
  <2>4. pc'[p] = "point" /\ \A q \in Proc \ {p} : pc'[q] = "idle"
    BY <2>2, NobodyElse DEF ChainInv, TypeOK
  <2>5. SealContinues'
    BY <2>1, <2>2, <2>4 DEF SealContinues
  <2>6. QED
    BY <2>1, <2>3, <2>5 DEF ChainInv
<1>3. CASE Point(p)
  <2>1. pc[p] = "point" /\ lock = p /\ chain # <<>> /\ cp[p] = chain[Len(chain)]
    BY <1>3 DEF Point, ChainInv, SealContinues
  <2>2. pointer' = [of |-> chain, head |-> cp[p]] /\ UNCHANGED <<file, chain>>
    BY <1>3 DEF Point
  <2>3. ChainLinked' /\ PointerExact' /\ (file # "ok" => chain = <<>>)'
    BY <2>1, <2>2 DEF ChainInv, ChainLinked, PointerExact
  <2>4. \A q \in Proc : pc'[q] = "idle"
    BY <1>3, <2>1, NobodyElse DEF Point, Release, Goto, ChainInv, TypeOK
  <2>5. SealContinues'
    BY <2>4 DEF SealContinues
  <2>6. QED
    BY <2>3, <2>5 DEF ChainInv
<1>4. CASE SealWrites(p)
  <2>1. ChainLinked' /\ PointerExact' /\ (file # "ok" => chain = <<>>)'
    BY <1>4, SameChain DEF SealWrites
  <2>2. SealContinues'
    BY <1>4, NobodyElse DEF SealWrites, Acquire, chainFiles, locals, Goto, ChainInv, TypeOK,
                            SealContinues
  <2>3. QED
    BY <2>1, <2>2 DEF ChainInv
<1>5. QED
  BY <1>1, <1>2, <1>3, <1>4 DEF Seal

\* Steps that leave the chain, the lock and every process alone.
LEMMA SameSeals ==
  ASSUME ChainInv, UNCHANGED <<chain, file, lock, pc, job, cp, before>>
  PROVE  SealContinues'
<1>1. ASSUME NEW p \in Proc, pc[p] = "append"
      PROVE  Log!Continues(chain, cp[p])'
  BY <1>1 DEF ChainInv, SealContinues, Log!Continues, Log!LastHash, Log!HashOf
<1>2. ASSUME NEW p \in Proc, pc[p] \in {"repoint", "recheck"}
      PROVE  chain' = DeriveCheckpointHistory(before[p])'
  <2>1. chain = DeriveCheckpointHistory(before[p]) /\ before' = before /\ chain' = chain
    BY <1>2 DEF ChainInv, SealContinues
  <2>2. QED
    BY <2>1
<1>3. QED
  BY <1>1, <1>2 DEF ChainInv, SealContinues

\* A process that dies takes nothing with it but its own memory.
LEMMA DeathKeepsChain ==
  ASSUME ChainInv, TypeOK', NEW p \in Proc, Die(p), ChainLinked', PointerExact',
         (file # "ok" => chain = <<>>)', UNCHANGED <<chain, file>> \/ lock = p
  PROVE  ChainInv'
<1>1. /\ pc'[p] = "idle"
      /\ \A q \in Proc \ {p} : pc'[q] = pc[q] /\ job'[q] = job[q] /\ cp'[q] = cp[q]
  BY DEF Die, Goto, ChainInv, TypeOK
<1>2. CASE lock = p
  <2>1. \A q \in Proc : pc'[q] = "idle"
    BY <1>1, <1>2, NobodyElse
  <2>2. QED
    BY <2>1 DEF ChainInv, SealContinues
<1>3. CASE lock # p
  <2>1. UNCHANGED <<chain, file, lock>>
    BY <1>3 DEF Die
  <2>2. ASSUME NEW q \in Proc \ {p}, pc[q] = "append"
        PROVE  cp'[q] # None /\ Log!Continues(chain, cp[q])'
    BY <1>1, <2>1, <2>2 DEF ChainInv, SealContinues, Log!Continues, Log!LastHash, Log!HashOf
  <2>3. SealContinues'
    BY <1>1, <2>1, <2>2 DEF ChainInv, SealContinues
  <2>4. QED
    BY <2>3 DEF ChainInv
<1>4. QED
  BY <1>2, <1>3

LEMMA FaultKeepsChain ==
  ASSUME ChainInv, TypeOK', NEW p \in Proc, Crash(p) \/ Exit(p) \/ TearChain(p)
  PROVE  ChainInv'
<1>1. CASE Crash(p) \/ Exit(p)
  <2>1. UNCHANGED chainFiles /\ Die(p)
    BY <1>1 DEF Crash, Exit
  <2>2. ChainLinked' /\ PointerExact' /\ (file # "ok" => chain = <<>>)'
    BY <2>1, SameChain
  <2>3. QED
    BY <2>1, <2>2, DeathKeepsChain DEF chainFiles
<1>2. CASE TearChain(p)
  <2>1. /\ chain' = <<>> /\ file' = "corrupt" /\ pointer' = pointer /\ lock = p
        /\ Die(p)
    BY <1>2 DEF TearChain, ChainInv, SealContinues
  <2>2. ChainLinked' /\ PointerExact'
    BY <2>1, EmptySeq DEF ChainInv, ChainLinked, PointerExact
  <2>3. QED
    BY <2>1, <2>2, DeathKeepsChain
<1>3. QED
  BY <1>1, <1>2

LEMMA AuthorKeepsChain ==
  ASSUME ChainInv, TypeOK',
         \/ \E d \in Doc : Create(d) \/ Garble(d)
         \/ \E d \in Doc, version \in 0 .. MaxVersion : HandEdit(d, version)
         \/ UNCHANGED vars
  PROVE  ChainInv'
<1>1. UNCHANGED <<chainFiles, lock, pc, locals>>
  BY DEF Create, Garble, HandEdit, vars, chainFiles, locals
<1>2. SealContinues'
  BY <1>1, SameSeals DEF chainFiles, locals
<1>3. QED
  BY <1>1, <1>2, SameChain DEF ChainInv

--------------------------------------------------------------------------------
(* The theorems.                                                           *)

LEMMA InitChain == Init => ChainInv
<1> SUFFICES ASSUME Init PROVE ChainInv
  OBVIOUS
<1>1. TypeOK
  BY InitTyped DEF Typed
<1>2. DOMAIN <<>> = {}
  BY EmptySeq
<1>3. ChainLinked /\ PointerExact /\ SealContinues
  BY <1>2 DEF Init, ChainLinked, PointerExact, SealContinues
<1>4. QED
  BY <1>1, <1>3 DEF Init, ChainInv

\* Nobody rebuilds, or one process does everything.
Unraced == "rebuild" \notin Ops \/ \A p, q \in Proc : p = q

LEMMA NoRebuild ==
  ASSUME "rebuild" \notin Ops, ChainInv, NEW p \in Proc
  PROVE  ~Rebuild(p)
  BY DEF ChainInv, SealContinues, Rebuild, RebuildRead, RebuildWrite, RebuildPoint, RebuildCheck

\* A rebuild that nobody races leaves the chain it derived, and the pointer at its end.
LEMMA RebuildKeepsChain ==
  ASSUME Unraced, ChainInv, TypeOK', Dated, NEW p \in Proc, Rebuild(p)
  PROVE  ChainInv'
<1>0. /\ "rebuild" \in Ops /\ \A q \in Proc : q = p
      /\ before[p] \in Histories /\ InOrder(before[p])
  BY NoRebuild DEF Unraced, Dated
<1> DEFINE h == before[p]
<1>1. CASE RebuildRead(p) \/ RebuildCheck(p)
  <2>1. UNCHANGED chainFiles /\ \E s \in {"idle", "rebuild"} : pc' = [pc EXCEPT ![p] = s]
    BY <1>1 DEF RebuildRead, RebuildCheck, Goto
  <2>2. pc'[p] \in {"idle", "rebuild"}
    BY <2>1 DEF ChainInv, TypeOK
  <2>3. SealContinues'
    BY <1>0, <2>2 DEF SealContinues
  <2>4. QED
    BY <2>1, <2>3, SameChain DEF ChainInv
<1>2. CASE RebuildWrite(p)
  <2>1. /\ pc' = [pc EXCEPT ![p] = "repoint"] /\ chain' = DeriveCheckpointHistory(h) /\ file' = "ok"
        /\ UNCHANGED <<pointer, before>>
    BY <1>2 DEF RebuildWrite, Goto, documents, locals
  <2>2. \A i \in DOMAIN chain' :
          /\ chain'[i].number = i
          /\ chain'[i].prev = IF i = 1 THEN <<>> ELSE Log!HashOf(chain'[i - 1])
    BY <1>0, <2>1, RebuiltChain
  <2>3. ChainLinked' /\ PointerExact' /\ pc'[p] = "repoint"
    BY <2>1, <2>2 DEF ChainLinked, PointerExact, ChainInv, TypeOK
  <2>4. chain' = DeriveCheckpointHistory(before[p])'
    BY <2>1
  <2>5. SealContinues'
    BY <1>0, <2>3, <2>4 DEF SealContinues
  <2>6. QED
    BY <2>1, <2>3, <2>5 DEF ChainInv
<1>3. CASE RebuildPoint(p)
  <2>1. /\ pc[p] = "repoint" /\ pc' = [pc EXCEPT ![p] = "recheck"] /\ UNCHANGED <<file, chain, before>>
        /\ LET rebuilt == DeriveCheckpointHistory(h)
           IN  pointer' = IF rebuilt = <<>> THEN None
                          ELSE [of |-> chain, head |-> rebuilt[Len(rebuilt)]]
    BY <1>3 DEF RebuildPoint, Goto, documents, locals
  <2>2. chain = DeriveCheckpointHistory(h)
    BY <2>1 DEF ChainInv, SealContinues
  <2>3. pointer' = IF chain = <<>> THEN None ELSE [of |-> chain, head |-> chain[Len(chain)]]
    BY <2>1, <2>2
  <2>4. /\ ChainLinked' /\ PointerExact' /\ (file # "ok" => chain = <<>>)'
        /\ pc'[p] = "recheck"
    BY <2>1, <2>3 DEF ChainLinked, PointerExact, ChainInv, TypeOK
  <2>5. chain' = DeriveCheckpointHistory(before[p])'
    BY <2>1, <2>2
  <2>6. SealContinues'
    BY <1>0, <2>4, <2>5 DEF SealContinues
  <2>7. QED
    BY <2>4, <2>6 DEF ChainInv
<1>4. QED
  BY <1>1, <1>2, <1>3 DEF Rebuild

LEMMA NextKeepsChain ==
  ASSUME Unraced, ChainInv, TypeOK', Dated, [Next]_vars
  PROVE  ChainInv'
BY WriteKeepsChain, SealKeepsChain, RebuildKeepsChain, FaultKeepsChain, AuthorKeepsChain DEF Next

\* The state of the chain and of the seal under way, wherever writers crash,
\* exit or tear the file: every seal continues the chain it will be appended
\* to, and the pointer never names anything but the end of the chain it was
\* stamped with (createCheckpointFromVault, sealCheckpoint).
THEOREM Chained ==
  ASSUME Unraced
  PROVE  Spec => []ChainInv
<1>1. ChainInv /\ TypeOK' /\ Dated /\ [Next]_vars => ChainInv'
  BY NextKeepsChain
<1>2. QED
  BY <1>1, InitChain, Types, Dating, PTL DEF Spec

\* Every checkpoint in the file is numbered after its predecessor and hashed
\* over it, as long as nobody rebuilds while others publish
\* (verifyCheckpointChain).
THEOREM Linked ==
  ASSUME Unraced
  PROVE  Spec => []ChainLinked
<1>1. ChainInv => ChainLinked
  BY DEF ChainInv
<1>2. QED
  BY <1>1, Chained, PTL

\* A step of the checkpoint code extends the log by one checkpoint linked onto
\* the last, loses it whole to a torn append, starts it anew, or leaves it.
LEMMA StepRefines ==
  ASSUME "rebuild" \notin Ops, ChainInv, [Next]_vars
  PROVE  [Log!Next]_<<chain, file # "corrupt">>
<1>1. CASE \E p \in Proc : SealAppend(p)
  <2>1. PICK p \in Proc : SealAppend(p)
    BY <1>1
  <2>2. /\ cp[p] \in Checkpoint /\ Log!Continues(chain, cp[p])
        /\ chain' = Append(chain, cp[p]) /\ file' = "ok"
    BY <2>1, SealAppends DEF SealAppend
  <2>3. /\ Len(chain') = Len(chain) + 1 /\ chain'[Len(chain')] = cp[p]
        /\ \A i \in DOMAIN chain : chain'[i] = chain[i]
    BY <2>2, AppendKeepsLinked
  <2>4. CASE file # "corrupt"
    BY <2>2, <2>3, <2>4 DEF Log!Next, Log!Extend
  <2>5. CASE file = "corrupt"
    <3>1. chain = <<>>
      BY <2>5 DEF ChainInv
    <3>2. Len(chain') = 1 /\ chain'[1] = cp[p]
      BY <2>3, <3>1, EmptySeq
    <3>3. QED
      BY <2>2, <2>5, <3>1, <3>2 DEF Log!Next, Log!Restart
  <2>6. QED
    BY <2>4, <2>5
<1>2. CASE \E p \in Proc : TearChain(p)
  BY <1>2 DEF TearChain, Log!Next, Log!Damage
<1>3. CASE \E p \in Proc : \/ Write(p) \/ SealWrites(p) \/ SealRead(p) \/ Point(p)
                          \/ Crash(p) \/ Exit(p)
  BY <1>3 DEF Write, PublishLive, CommitEntry, DeleteFile, PublishEntry, PublishUnsealed,
              CommitLive, DeleteHistory, SealWrites, SealRead, Point, Crash, Exit, chainFiles
<1>4. CASE \/ \E d \in Doc : Create(d) \/ Garble(d)
           \/ \E d \in Doc, version \in 0 .. MaxVersion : HandEdit(d, version)
  BY <1>4 DEF Create, Garble, HandEdit, chainFiles
<1>5. CASE UNCHANGED vars
  BY <1>5 DEF vars
<1>6. QED
  BY <1>1, <1>2, <1>3, <1>4, <1>5, NoRebuild DEF Next, Seal

\* The checkpoint chain implements its abstract specification: seen by its
\* readers it is an append-only log (appendCheckpoint, startCheckpointHistory,
\* readCheckpointChainState).
THEOREM Refines ==
  ASSUME "rebuild" \notin Ops
  PROVE  Spec => ChainRefinesLog
<1>1. Init => Log!Init
  BY DEF Init, Log!Init
<1>2. ChainInv /\ [Next]_vars => [Log!Next]_<<chain, file # "corrupt">>
  BY StepRefines
<1>3. Spec => []ChainInv
  BY Chained DEF Unraced
<1>4. QED
  BY <1>1, <1>2, <1>3, PTL DEF Spec, ChainRefinesLog, Log!Spec

\* No checkpoint a rebuild derives contradicts the histories it was derived from.
LEMMA RebuiltVerifies ==
  ASSUME Dated
  PROVE  LET D == DeriveCheckpointHistory(history)
         IN  \A i \in DOMAIN D, d \in Doc : ~Mismatch(D[i], d)
<1> DEFINE D == DeriveCheckpointHistory(history)
<1>1. history \in Histories /\ InOrder(history)
  BY DEF Dated
<1>2. \A i \in DOMAIN D, d \in Doc :
        D[i].sealed[d] = None \/ \E j \in DOMAIN history[d] : D[i].sealed[d] = history[d][j]
  BY <1>1, RebuiltChain
<1> HIDE DEF D
<1>3. SUFFICES ASSUME NEW i \in DOMAIN D, NEW d \in Doc, Mismatch(D[i], d)
               PROVE  FALSE
  BY DEF D
<1>4. PICK j \in DOMAIN history[d] : D[i].sealed[d] = history[d][j]
  BY <1>2, <1>3 DEF Mismatch
<1>5. PICK k \in DOMAIN history[d] : /\ history[d][k].version = history[d][j].version
                                    /\ history[d][k].hash # history[d][j].hash
  BY <1>3, <1>4 DEF Mismatch
<1>6. j \in Nat /\ k \in Nat
  BY <1>1 DEF Histories
<1>7. history[d][j].version \in Nat /\ history[d][k].version \in Nat
  <2>1. history[d][j] \in Entry /\ history[d][k] \in Entry
    BY <1>1 DEF Histories
  <2>2. QED
    BY <2>1 DEF Entry, Version
<1>8. j < k \/ k < j
  BY <1>5, <1>6
<1>9. history[d][j].version # history[d][k].version
  BY <1>1, <1>7, <1>8 DEF InOrder
<1>10. QED
  BY <1>5, <1>9

\* A rebuild repairs the chain: once it has written and repointed, and nothing was
\* recorded meanwhile, verify finds nothing, the next seal links onto its last checkpoint,
\* and that binds the newest version of every document (rebuildCheckpointHistory).
THEOREM Heals ==
  ASSUME \A p, q \in Proc : p = q
  PROVE  Spec => []RebuildHeals
<1>1. ASSUME ChainInv, Dated, NEW p \in Proc, pc[p] = "recheck", before[p] = history
      PROVE  /\ ChainLinked /\ CrossChainVerifies
             /\ chain # <<>> => ChainHead = chain[Len(chain)]
             /\ \A d \in Doc :
                  history[d] # <<>> => ChainHead.sealed[d] = history[d][Len(history[d])]
  <2>1. chain = DeriveCheckpointHistory(history)
    <3>1. chain = DeriveCheckpointHistory(before[p])
      BY <1>1 DEF ChainInv, SealContinues
    <3>2. QED
      BY <1>1, <3>1
  <2>2. \A d \in Doc : history[d] # <<>> =>
          chain # <<>> /\ chain[Len(chain)].sealed[d] = history[d][Len(history[d])]
    <3>1. history \in Histories /\ InOrder(history)
      BY <1>1 DEF Dated
    <3>2. QED
      BY <2>1, <3>1, RebuiltChain
  <2>3. \A i \in DOMAIN chain, d \in Doc : ~Mismatch(chain[i], d)
    BY <1>1, <2>1, RebuiltVerifies
  <2>4. ChainHead = IF chain = <<>> THEN None ELSE chain[Len(chain)]
    BY <1>1, HeadIsLast
  <2>5. QED
    BY <1>1, <2>2, <2>3, <2>4 DEF ChainInv, CrossChainVerifies
<1>2. ChainInv /\ Dated => RebuildHeals
  BY <1>1 DEF RebuildHeals
<1>3. Spec => []ChainInv
  BY Chained DEF Unraced
<1>4. QED
  BY <1>2, <1>3, Dating, PTL

--------------------------------------------------------------------------------
(* What a publish seals.                                                   *)

\* Nobody else is inside the lock when a writer is.
LEMMA OneWriter ==
  ASSUME WriterInv, NEW p \in Proc, lock = None \/ lock = p,
         NEW q \in Proc, q # p
  PROVE  pc[q] \notin Inside
BY CheckpointAssumption DEF WriterInv, Inside

\* A step that a writer takes alone: what the others are doing does not hold the lock.
LEMMA WriterAlone ==
  ASSUME WriterInv, NEW p \in Proc, lock = None \/ lock = p, lock' \in {p, None},
         \E s : pc' = [pc EXCEPT ![p] = s], DOMAIN cp' = Proc,
         \A q \in Proc : q # p => job'[q] = job[q],
         live' \in [Doc -> File \union {None}], touched' \in [Proc -> SUBSET Doc],
         DOMAIN job' = Proc,
         lock' = p <=> pc'[p] \in Inside,
         pc'[p] \notin Inside => job'[p] = NoJob,
         pc'[p] \in {"entry", "live", "rm"} => job'[p].doc \in Doc,
         pc'[p] \in {"entry", "live"} => job'[p].version \in Version,
         pc'[p] \in {"entry", "seal"} /\ job'[p].doc \in Doc =>
           /\ job'[p].version \in Version
           /\ live'[job'[p].doc] = [version |-> job'[p].version, published |-> TRUE],
         pc'[p] = "seal" /\ job'[p].doc \in Doc => job'[p].doc \in touched'[p]
  PROVE  WriterInv'
<1>1. DOMAIN pc' = Proc /\ \A q \in Proc : q # p => pc'[q] = pc[q]
  BY DEF WriterInv, Inside
<1>2. ASSUME NEW q \in Proc, q # p
      PROVE  pc'[q] \notin Inside /\ lock' # q
  BY <1>1, <1>2, OneWriter, CheckpointAssumption DEF WriterInv, Inside
<1>3. QED
  BY <1>1, <1>2 DEF WriterInv, Inside

LEMMA WriteWrites ==
  ASSUME WriterInv, NEW p \in Proc, Write(p)
  PROVE  WriterInv'
<1>0. /\ NoJob \in [doc: Doc \union {None}, version: 0 .. MaxVersion, hash: 0 .. MaxWrites]
      /\ \A v \in Version : [version |-> v, published |-> TRUE] \in File
  BY NoJobTypes DEF File, Version
<1>1. ASSUME NEW d \in Doc, NEW n \in Version, TakeJob(p, d, n)
      PROVE  /\ lock = None /\ lock' = p /\ pc[p] = "idle"
             /\ DOMAIN job' = Proc
             /\ job'[p].doc = d /\ job'[p].version = n
             /\ \A q \in Proc : q # p => job'[q] = job[q]
  BY <1>1, CheckpointAssumption DEF TakeJob, Acquire, WriterInv, Version
<1>2. ASSUME NEW d \in Doc, NEW n \in Version, PublishLive(p, d, n)
      PROVE  WriterInv'
  <2>1. TakeJob(p, d, n)
    BY <1>2 DEF PublishLive
  <2>2. live' \in [Doc -> File \union {None}] /\ live'[d] = [version |-> n, published |-> TRUE]
    BY <1>0, <1>2 DEF PublishLive, WriterInv
  <2>3. pc' = [pc EXCEPT ![p] = "entry"] /\ pc'[p] = "entry" /\ touched' = touched /\ cp' = cp
    BY <1>2 DEF PublishLive, Goto, WriterInv
  <2>4. touched' \in [Proc -> SUBSET Doc] /\ DOMAIN cp' = Proc
    BY <2>3 DEF WriterInv, Inside
  <2>5. /\ lock = None /\ lock' = p /\ pc[p] = "idle" /\ DOMAIN job' = Proc
        /\ job'[p].doc = d /\ job'[p].version = n
        /\ \A q \in Proc : q # p => job'[q] = job[q]
    BY <1>1, <1>2, <2>1
  <2>6. QED
    BY <1>2, <2>2, <2>3, <2>4, <2>5, WriterAlone DEF Inside
<1>3. ASSUME NEW d \in Doc, NEW n \in Version, CommitEntry(p, d, n)
      PROVE  WriterInv'
  <2>1. TakeJob(p, d, n)
    BY <1>3 DEF CommitEntry
  <2>2. pc' = [pc EXCEPT ![p] = "live"] /\ pc'[p] = "live" /\ live' = live /\ cp' = cp
    BY <1>3 DEF CommitEntry, Goto, WriterInv
  <2>3. live' \in [Doc -> File \union {None}] /\ touched' \in [Proc -> SUBSET Doc] /\ DOMAIN cp' = Proc
    BY <1>3, <2>2 DEF CommitEntry, Touch, WriterInv
  <2>4. /\ lock = None /\ lock' = p /\ pc[p] = "idle" /\ DOMAIN job' = Proc
        /\ job'[p].doc = d /\ job'[p].version = n
        /\ \A q \in Proc : q # p => job'[q] = job[q]
    BY <1>1, <1>3, <2>1
  <2>5. QED
    BY <1>3, <2>2, <2>3, <2>4, WriterAlone DEF Inside
<1>4. ASSUME NEW d \in Doc, DeleteFile(p, d)
      PROVE  WriterInv'
  <2>1. /\ lock = None /\ lock' = p /\ pc' = [pc EXCEPT ![p] = "rm"] /\ pc'[p] = "rm" /\ cp' = cp
        /\ live' \in [Doc -> File \union {None}] /\ touched' \in [Proc -> SUBSET Doc] /\ DOMAIN cp' = Proc
    BY <1>4 DEF DeleteFile, Acquire, Touch, Goto, WriterInv
  <2>2. /\ DOMAIN job' = Proc
        /\ job'[p].doc = d /\ \A q \in Proc : q # p => job'[q] = job[q]
    BY <1>4 DEF DeleteFile, WriterInv
  <2>3. QED
    BY <2>1, <2>2, WriterAlone DEF Inside
<1>5. CASE PublishEntry(p)
  <2>1. /\ pc[p] = "entry" /\ pc' = [pc EXCEPT ![p] = "seal"] /\ pc'[p] = "seal"
        /\ UNCHANGED <<live, lock, job, cp>>
    BY <1>5 DEF PublishEntry, Goto, locals, WriterInv
  <2>2. lock = p /\ job[p].doc \in Doc /\ job[p].version \in Version
        /\ live[job[p].doc] = [version |-> job[p].version, published |-> TRUE]
    BY <2>1 DEF WriterInv, Inside
  <2>3. touched' \in [Proc -> SUBSET Doc] /\ job[p].doc \in touched'[p]
    BY <1>5, <2>2 DEF PublishEntry, RecordEntry, Touch, WriterInv
  <2>4. /\ live' \in [Doc -> File \union {None}] /\ DOMAIN cp' = Proc
        /\ DOMAIN job' = Proc
    BY <2>1 DEF WriterInv, Inside
  <2>5. QED
    BY <2>1, <2>2, <2>3, <2>4, WriterAlone DEF Inside
<1>6. CASE PublishUnsealed(p) \/ CommitLive(p) \/ DeleteHistory(p)
  <2>1. pc[p] \in {"entry", "live", "rm"} /\ Release(p)
    BY <1>6 DEF PublishUnsealed, CommitLive, DeleteHistory
  <2>2. lock = p /\ job[p].doc \in Doc /\ (pc[p] = "live" => job[p].version \in Version)
    BY <2>1 DEF WriterInv, Inside
  <2>3. /\ lock' = None /\ pc' = [pc EXCEPT ![p] = "idle"] /\ pc'[p] = "idle" /\ job'[p] = NoJob
        /\ DOMAIN job' = Proc
        /\ DOMAIN cp' = Proc /\ \A q \in Proc : q # p => job'[q] = job[q]
    BY <1>0, <2>1 DEF Release, Goto, WriterInv
  <2>4. live' \in [Doc -> File \union {None}]
    <3>1. CASE PublishUnsealed(p) \/ DeleteHistory(p)
      BY <3>1 DEF PublishUnsealed, DeleteHistory, WriterInv
    <3>2. CASE CommitLive(p)
      <4>1. [version |-> job[p].version, published |-> TRUE] \in File
        BY <1>0, <2>2, <3>2 DEF CommitLive
      <4>2. QED
        BY <2>2, <3>2, <4>1 DEF CommitLive, WriterInv
    <3>3. QED
      BY <1>6, <3>1, <3>2
  <2>5. touched' \in [Proc -> SUBSET Doc]
    BY <1>6, <2>2 DEF PublishUnsealed, CommitLive, DeleteHistory, RecordEntry, Touch, WriterInv
  <2>6. p # None
    BY CheckpointAssumption
  <2>7. QED
    BY <2>2, <2>3, <2>4, <2>5, <2>6, WriterAlone DEF Inside
<1>7. QED
  BY <1>2, <1>3, <1>4, <1>5, <1>6 DEF Write

LEMMA SealWritten ==
  ASSUME WriterInv, NEW p \in Proc, Seal(p)
  PROVE  WriterInv'
<1>0. /\ NoJob \in [doc: Doc \union {None}, version: 0 .. MaxVersion, hash: 0 .. MaxWrites]
      /\ NoJob.doc \notin Doc
  BY NoJobTypes, CheckpointAssumption DEF NoJob
<1>1. CASE SealWrites(p)
  <2>1. /\ lock = None /\ lock' = p /\ pc[p] = "idle" /\ pc' = [pc EXCEPT ![p] = "seal"] /\ pc'[p] = "seal"
        /\ UNCHANGED <<live, touched, job, cp>>
    BY <1>1 DEF SealWrites, Acquire, Goto, documents, locals, WriterInv
  <2>2. job'[p].doc \notin Doc
    BY <1>0, <2>1 DEF WriterInv, Inside
  <2>3. /\ live' \in [Doc -> File \union {None}] /\ DOMAIN cp' = Proc /\ touched' \in [Proc -> SUBSET Doc]
        /\ DOMAIN job' = Proc
    BY <2>1 DEF WriterInv, Inside
  <2>4. QED
    BY <2>1, <2>2, <2>3, WriterAlone DEF Inside
<1>2. CASE SealRead(p) \/ SealAppend(p)
  <2>1. pc[p] \in {"seal", "append"} /\ UNCHANGED <<live, lock, touched, job>>
    BY <1>2 DEF SealRead, SealAppend, documents, locals
  <2>2. pc' = [pc EXCEPT ![p] = "append"] \/ pc' = [pc EXCEPT ![p] = "point"]
    BY <1>2 DEF SealRead, SealAppend, Goto
  <2>3. lock = p /\ pc'[p] \in {"append", "point"}
    BY <2>1, <2>2 DEF WriterInv, Inside
  <2>4. DOMAIN cp' = Proc
    BY <1>2 DEF SealRead, SealAppend, locals, WriterInv
  <2>5. /\ live' \in [Doc -> File \union {None}] /\ touched' \in [Proc -> SUBSET Doc]
        /\ DOMAIN job' = Proc
    BY <2>1 DEF WriterInv, Inside
  <2>6. QED
    BY <2>1, <2>2, <2>3, <2>4, <2>5, WriterAlone DEF Inside
<1>3. CASE Point(p)
  <2>1. /\ pc[p] = "point" /\ lock' = None /\ pc' = [pc EXCEPT ![p] = "idle"] /\ live' = live
        /\ job' = [job EXCEPT ![p] = NoJob] /\ cp' = [cp EXCEPT ![p] = None]
        /\ touched' = [touched EXCEPT ![p] = {}]
    BY <1>3 DEF Point, Release, Goto, documents
  <2>2. /\ lock = p /\ pc'[p] = "idle" /\ job'[p] = NoJob /\ p # None
        /\ live' \in [Doc -> File \union {None}] /\ DOMAIN cp' = Proc /\ touched' \in [Proc -> SUBSET Doc]
        /\ DOMAIN job' = Proc
        /\ \A q \in Proc : q # p => job'[q] = job[q]
    BY <1>0, <2>1, CheckpointAssumption DEF WriterInv, Inside
  <2>3. QED
    BY <2>1, <2>2, WriterAlone DEF Inside
<1>4. QED
  BY <1>1, <1>2, <1>3 DEF Seal

\* A rebuild and a death change nothing a writer relies on.
LEMMA RestWrites ==
  ASSUME WriterInv, NEW p \in Proc, Rebuild(p) \/ Crash(p) \/ Exit(p) \/ TearChain(p)
  PROVE  WriterInv'
<1>1. CASE Rebuild(p)
  <2>1. /\ UNCHANGED <<live, touched, lock, job, cp>>
        /\ \E s \in {"idle", "rebuild", "repoint", "recheck"} : pc' = [pc EXCEPT ![p] = s]
        /\ pc[p] \in {"idle", "rebuild", "repoint", "recheck"}
    BY <1>1 DEF Rebuild, RebuildRead, RebuildWrite, RebuildPoint, RebuildCheck, Goto, documents, locals
  <2>2. QED
    BY <2>1 DEF WriterInv, Inside
<1>2. CASE Crash(p) \/ Exit(p) \/ TearChain(p)
  <2>1. /\ live' = live /\ lock' = (IF lock = p THEN None ELSE lock)
        /\ touched' = [touched EXCEPT ![p] = {}] /\ pc' = [pc EXCEPT ![p] = "idle"]
        /\ job' = [job EXCEPT ![p] = NoJob] /\ cp' = [cp EXCEPT ![p] = None]
    BY <1>2 DEF Crash, Exit, TearChain, Die, Goto, documents
  <2>2. /\ NoJob \in [doc: Doc \union {None}, version: 0 .. MaxVersion, hash: 0 .. MaxWrites]
        /\ p # None
    BY NoJobTypes, CheckpointAssumption
  <2>3. /\ pc'[p] = "idle" /\ job'[p] = NoJob /\ lock' # p /\ DOMAIN pc' = Proc /\ DOMAIN cp' = Proc
        /\ touched' \in [Proc -> SUBSET Doc]
        /\ DOMAIN job' = Proc
        /\ \A q \in Proc : q # p => pc'[q] = pc[q] /\ job'[q] = job[q] /\ touched'[q] = touched[q]
    BY <2>1, <2>2 DEF WriterInv, Inside
  <2>4. \A q \in Proc : q # p => (lock' = q <=> lock = q)
    BY <2>1, CheckpointAssumption
  <2>5. QED
    BY <2>1, <2>3, <2>4 DEF WriterInv, Inside
<1>3. QED
  BY <1>1, <1>2

\* An author changes no file while somebody writes, unless it is by hand.
LEMMA AuthorWrites ==
  ASSUME WriterInv, NEW d \in Doc, Create(d) \/ Garble(d)
  PROVE  WriterInv'
<1>1. UNCHANGED <<touched, lock, pc, job, cp>>
  BY DEF Create, Garble, locals
<1>2. CASE Garble(d)
  BY <1>1, <1>2 DEF Garble, WriterInv
<1>3. CASE Create(d)
  <2>1. live' = [live EXCEPT ![d] = [version |-> 0, published |-> FALSE]] /\ lock = None
    BY <1>3 DEF Create
  <2>2. live' \in [Doc -> File \union {None}]
    BY <2>1, FileTypes DEF WriterInv
  <2>3. \A p \in Proc : pc[p] \notin Inside
    BY <2>1, CheckpointAssumption DEF WriterInv
  <2>4. QED
    BY <1>1, <2>2, <2>3 DEF WriterInv, Inside
<1>4. QED
  BY <1>2, <1>3

LEMMA InitWrites == Init => WriterInv
<1> SUFFICES ASSUME Init PROVE WriterInv
  OBVIOUS
<1>1. live \in [Doc -> File \union {None}]
  <2>1. [version |-> 0, published |-> FALSE] \in File
    BY FileTypes
  <2>2. QED
    BY <2>1 DEF Init
<1>2. QED
  BY <1>1, CheckpointAssumption DEF Init, WriterInv, Inside

LEMMA WriterStep ==
  ASSUME "edit" \notin Faults, WriterInv, [Next]_vars
  PROVE  WriterInv'
<1>1. CASE \E p \in Proc : Write(p) \/ Seal(p) \/ Rebuild(p) \/ Crash(p) \/ Exit(p) \/ TearChain(p)
  BY <1>1, WriteWrites, SealWritten, RestWrites
<1>2. CASE \E d \in Doc : Create(d) \/ Garble(d)
  BY <1>2, AuthorWrites
<1>3. CASE UNCHANGED vars
  BY <1>3 DEF vars, WriterInv
<1>4. QED
  BY <1>1, <1>2, <1>3 DEF Next, HandEdit

\* Who writes holds the lock, and what is live and marked when a publish seals is
\* what it published: under every fault and beside every rebuild, unless somebody
\* edits the file by hand.
THEOREM Written ==
  ASSUME "edit" \notin Faults
  PROVE  Spec => []WriterInv
<1>1. WriterInv /\ [Next]_vars => WriterInv'
  BY WriterStep
<1>2. QED
  BY <1>1, InitWrites, PTL DEF Spec

\* Only the read of a seal takes a process from "seal" to "append".
LEMMA ReadsToSeal ==
  ASSUME DOMAIN pc = Proc, [Next]_vars, NEW p \in Proc, pc[p] = "seal", pc'[p] = "append"
  PROVE  SealRead(p)
<1>1. ASSUME NEW q \in Proc, NEW s, Goto(q, s), p # q \/ s # "append"
      PROVE  FALSE
  BY <1>1 DEF Goto
<1>2. ASSUME NEW q \in Proc, Write(q)
      PROVE  FALSE
  BY <1>1, <1>2 DEF Write, PublishLive, CommitEntry, DeleteFile, PublishEntry, PublishUnsealed, CommitLive,
                    DeleteHistory, Release
<1>3. ASSUME NEW q \in Proc, Seal(q)
      PROVE  SealRead(p)
  BY <1>1, <1>3 DEF Seal, SealWrites, SealRead, SealAppend, Point, Release
<1>4. ASSUME NEW q \in Proc, Rebuild(q) \/ Crash(q) \/ Exit(q) \/ TearChain(q)
      PROVE  FALSE
  BY <1>1, <1>4 DEF Rebuild, RebuildRead, RebuildWrite, RebuildPoint, RebuildCheck, Crash, Exit, TearChain, Die
<1>5. pc' # pc
  OBVIOUS
<1>6. ~\E d \in Doc : Create(d) \/ Garble(d)
  BY <1>5 DEF Create, Garble
<1>7. ~\E d \in Doc, version \in 0 .. MaxVersion : HandEdit(d, version)
  BY <1>5 DEF HandEdit
<1>8. ~UNCHANGED vars
  BY <1>5 DEF vars
<1>9. QED
  BY <1>2, <1>3, <1>4, <1>6, <1>7, <1>8 DEF Next

\* The checkpoint a publish returns holds the very entry it published, whoever else
\* commits, deletes, rebuilds or dies, as long as nobody edits the file by hand.
THEOREM SealsOwn ==
  ASSUME "edit" \notin Faults
  PROVE  Spec => SealsItsPublish
<1> DEFINE A == \A p \in Proc :
                  pc[p] = "seal" /\ pc'[p] = "append" /\ job[p].doc \in Doc \ unreadable =>
                    cp'[p].sealed[job[p].doc] = EntryOf(p)
<1>1. WriterInv /\ [Next]_vars => A
  <2>1. SUFFICES ASSUME WriterInv, [Next]_vars, NEW p \in Proc, pc[p] = "seal", pc'[p] = "append",
                        job[p].doc \in Doc \ unreadable
                 PROVE  cp'[p].sealed[job[p].doc] = EntryOf(p)
    OBVIOUS
  <2> DEFINE d == job[p].doc
  <2>2. SealRead(p)
    BY <2>1, ReadsToSeal DEF WriterInv
  <2>3. cp'[p].sealed = SnapshotOf(p)
    BY <2>1, <2>2 DEF SealRead, WriterInv
  <2>4. /\ job[p].version \in Version /\ d \in touched[p]
        /\ live[d] = [version |-> job[p].version, published |-> TRUE] /\ live[d] \in File \union {None}
    BY <2>1 DEF WriterInv
  <2>5. IsPublished(d) /\ VersionToSeal(d) = job[p].version
    <3>1. live[d] # None
      <4>1. live[d] \in File
        BY <2>4, CheckpointAssumption DEF File, Version
      <4>2. QED
        BY <4>1, NoneAssumption
    <3>2. live[d].version = job[p].version /\ live[d].published
      BY <2>4
    <3>3. job[p].version # 0
      BY <2>4 DEF Version
    <3>4. QED
      BY <2>1, <3>1, <3>2, <3>3 DEF IsPublished, VersionToSeal
  <2>6. HashToSeal(p, d) = job[p].hash
    BY <2>4, <2>5 DEF HashToSeal, Carries
  <2>7. SnapshotOf(p)[d] = [version |-> job[p].version, hash |-> job[p].hash]
    BY <2>1, <2>5, <2>6 DEF SnapshotOf
  <2>8. QED
    BY <2>3, <2>7 DEF EntryOf
<1>2. QED
  BY <1>1, Written, PTL DEF Spec, SealsItsPublish

--------------------------------------------------------------------------------
(* What a checkpoint binds, deletions included.                            *)

\* Every mark reaches the next seal: no history is removed, or one process writes
\* and does not exit.
MarksReach == "delete" \notin Ops \/ ("exit" \notin Faults /\ \A p, q \in Proc : p = q)

\* No rebuild meets a writer, nobody dies but in the append, and no file is edited or
\* garbled.
Undisturbed == Unraced /\ Faults \subseteq {"exit", "tear"} /\ MarksReach

\* The entries of a history, when one is appended or all are removed.
LEMMA EntriesAppended ==
  ASSUME NEW d \in Doc, NEW e \in Entry, history \in Histories,
         history' = [history EXCEPT ![d] = Append(@, e)]
  PROVE  /\ EntriesOf(d)' = EntriesOf(d) \union {e}
         /\ \A c \in Doc : c # d => EntriesOf(c)' = EntriesOf(c)
<1>1. history[d] \in Seq(Entry) /\ history'[d] = Append(history[d], e)
  BY DEF Histories
<1>2. /\ Len(history[d]) \in Nat /\ DOMAIN history[d] = 1 .. Len(history[d])
      /\ DOMAIN history'[d] = 1 .. Len(history[d]) + 1
      /\ \A i \in 1 .. Len(history[d]) : history'[d][i] = history[d][i]
      /\ history'[d][Len(history[d]) + 1] = e
  <2>1. Append(history[d], e) \in Seq(Entry)
    BY <1>1, AppendProperties
  <2>2. QED
    BY <1>1, <2>1, AppendProperties, LenProperties
<1>3. EntriesOf(d)' = EntriesOf(d) \union {e}
  <2> DEFINE n == Len(history[d])
  <2>1. \A x : x \in EntriesOf(d)' <=> \E i \in 1 .. n + 1 : x = history'[d][i]
    BY <1>2 DEF EntriesOf
  <2>2. \A x : x \in EntriesOf(d) <=> \E i \in 1 .. n : x = history[d][i]
    BY <1>2 DEF EntriesOf
  <2>3. \A i \in 1 .. n + 1 : i \in 1 .. n \/ i = n + 1
    BY <1>2
  <2>4. 1 .. n \subseteq 1 .. n + 1 /\ n + 1 \in 1 .. n + 1
    BY <1>2
  <2> HIDE DEF n
  <2>5. \A i \in 1 .. n : history'[d][i] = history[d][i]
    BY <1>2 DEF n
  <2>6. history'[d][n + 1] = e
    BY <1>2 DEF n
  <2>7. ASSUME NEW x
        PROVE  x \in EntriesOf(d)' <=> x \in EntriesOf(d) \/ x = e
    <3>1. ASSUME x \in EntriesOf(d)'
          PROVE  x \in EntriesOf(d) \/ x = e
      <4>1. PICK i \in 1 .. n + 1 : x = history'[d][i]
        BY <2>1, <3>1
      <4>2. QED
        BY <2>2, <2>3, <2>5, <2>6, <4>1
    <3>2. x \in EntriesOf(d) => x \in EntriesOf(d)'
      BY <2>1, <2>2, <2>4, <2>5
    <3>3. e \in EntriesOf(d)'
      BY <2>1, <2>4, <2>6
    <3>4. QED
      BY <3>1, <3>2, <3>3
  <2>8. QED
    BY <2>7
<1>4. \A c \in Doc : c # d => history'[c] = history[c]
  BY DEF Histories
<1>5. QED
  BY <1>3, <1>4 DEF EntriesOf

LEMMA EntriesSame ==
  ASSUME UNCHANGED history
  PROVE  \A d \in Doc : EntriesOf(d)' = EntriesOf(d)
BY DEF EntriesOf

\* The histories hold entries.
LEMMA EntriesTyped ==
  ASSUME ChainInv, NEW d \in Doc
  PROVE  EntriesOf(d) \subseteq Entry /\ (\A i \in DOMAIN history[d] : history[d][i] \in EntriesOf(d))
BY DEF ChainInv, TypeOK, Histories, EntriesOf

\* verify's question, asked of the set of a history's entries.
Bound(checkpoint, d, entries) ==
  checkpoint.sealed[d] # None /\ checkpoint.sealed[d].hash # 0 =>
    \A e \in entries :
      e.version = checkpoint.sealed[d].version =>
        e.hash = checkpoint.sealed[d].hash \/ ~(e.hash <= checkpoint.at)

LEMMA Verifies ==
  /\ CrossChainVerifies <=> \A i \in DOMAIN chain : \A d \in Doc : Bound(chain[i], d, EntriesOf(d))
  /\ CrossChainVerifies' <=> \A i \in DOMAIN chain' : \A d \in Doc : Bound(chain'[i], d, EntriesOf(d)')
BY DEF CrossChainVerifies, Mismatch, Bound, EntriesOf

LEMMA OthersOutside ==
  ASSUME WriterInv', NEW p \in Proc, lock' \in {p, None}
  PROVE  \A q \in Proc : q # p => pc'[q] \notin Inside
<1>1. ASSUME NEW q \in Proc, q # p
      PROVE  lock' # q
  BY <1>1, CheckpointAssumption
<1>2. ASSUME NEW q \in Proc
      PROVE  lock' = q <=> pc'[q] \in Inside
  BY <1>2 DEF WriterInv, Inside
<1>3. QED
  BY <1>1, <1>2

\* A step of the process that holds the lock, or takes it, is judged by what it does.
LEMMA RecordedAlone ==
  ASSUME WriterInv', NEW p \in Proc, lock' \in {p, None}, unreadable' = {},
         \A d \in Doc : \A e, f \in EntriesOf(d)' : e.version = f.version => e = f,
         \A d \in Doc : \A e \in EntriesOf(d)' : e.hash \in 1 .. clock',
         \A d \in Doc : live'[d] # None =>
           /\ live'[d].published => live'[d].version # 0
           /\ \/ live'[d].version = 0
              \/ \E e \in EntriesOf(d)' : e.version = live'[d].version
              \/ pc'[p] = "entry" /\ job'[p].doc = d,
         pc'[p] = "entry" =>
           /\ job'[p].hash = clock' /\ clock' > 0
           /\ \A e \in EntriesOf(job[p].doc)' : e.version # job'[p].version
           /\ \A i \in DOMAIN chain' : chain'[i].at < job'[p].hash,
         pc'[p] \in {"live", "seal"} /\ job'[p].doc \in Doc => EntryOf(p)' \in EntriesOf(job[p].doc)',
         pc'[p] = "rm" => live'[job'[p].doc] = None /\ job'[p].doc \in touched'[p] /\ "delete" \in Ops
  PROVE  Recorded'
<1>1. \A q \in Proc : q # p => pc'[q] \notin Inside
  BY OthersOutside
<1>2. QED
  BY <1>1 DEF Recorded, Inside

LEMMA HoldsAlone ==
  ASSUME WriterInv', NEW p \in Proc, lock' \in {p, None},
         pc'[p] \in {"append", "point"} =>
           /\ cp'[p].at <= clock'
           /\ \A d \in Doc : cp'[p].sealed[d] # None => cp'[p].sealed[d] \in EntriesOf(d)',
         \A i \in DOMAIN chain' : chain'[i].at <= clock',
         chain' # <<>> => \A d \in Doc : chain'[Len(chain')].sealed[d] # None =>
           \/ chain'[Len(chain')].sealed[d] \in EntriesOf(d)'
           \/ "delete" \in Ops /\ \A q \in Proc : d \in touched'[q]
  PROVE  SealsHold'
<1>1. \A q \in Proc : q # p => pc'[q] \notin Inside
  BY OthersOutside
<1>2. QED
  BY <1>1 DEF SealsHold, Inside

\* Nobody is about to record what is live, but who holds the lock.
LEMMA LiveRecorded ==
  ASSUME WriterInv, Recorded, NEW p \in Proc, lock \in {p, None}, pc[p] # "entry",
         NEW d \in Doc, live[d] # None
  PROVE  /\ live[d].published => live[d].version # 0
         /\ live[d].version = 0 \/ \E e \in EntriesOf(d) : e.version = live[d].version
<1>1. ASSUME NEW q \in Proc, pc[q] = "entry"
      PROVE  FALSE
  <2>1. lock = q
    BY <1>1 DEF WriterInv, Inside
  <2>2. QED
    BY <1>1, <2>1, CheckpointAssumption
<1>2. QED
  BY <1>1 DEF Recorded

\* What a step keeps that touches neither the histories nor the chain.
LEMMA NothingSealed ==
  ASSUME ChainInv, Recorded, SealsHold, CrossChainVerifies, UNCHANGED <<history, chain>>,
         clock' \in Nat, clock <= clock', \A q \in Proc : touched[q] \subseteq touched'[q]
  PROVE  /\ \A d \in Doc : EntriesOf(d)' = EntriesOf(d)
         /\ \A d \in Doc : \A e, f \in EntriesOf(d)' : e.version = f.version => e = f
         /\ \A d \in Doc : \A e \in EntriesOf(d)' : e.hash \in 1 .. clock'
         /\ \A i \in DOMAIN chain' : chain'[i].at <= clock /\ chain'[i].at <= clock'
         /\ chain' # <<>> => \A d \in Doc : chain'[Len(chain')].sealed[d] # None =>
              \/ chain'[Len(chain')].sealed[d] \in EntriesOf(d)'
              \/ "delete" \in Ops /\ \A q \in Proc : d \in touched'[q]
         /\ CrossChainVerifies'
<1>1. \A d \in Doc : EntriesOf(d)' = EntriesOf(d)
  BY EntriesSame
<1>2. clock \in Nat
  BY DEF ChainInv, TypeOK
<1>3. \A i \in DOMAIN chain : chain[i].at <= clock /\ chain[i].at <= clock'
  <2>1. ASSUME NEW i \in DOMAIN chain
        PROVE  chain[i].at \in Nat
    <3>1. chain[i] \in Checkpoint
      BY <2>1 DEF ChainInv, TypeOK
    <3>2. QED
      BY <3>1 DEF Checkpoint
  <2>2. QED
    BY <1>2, <2>1 DEF SealsHold
<1>4. \A d \in Doc : \A e \in EntriesOf(d) : e.hash \in 1 .. clock'
  BY <1>2 DEF Recorded
<1>5. \A d \in Doc : \A e, f \in EntriesOf(d) : e.version = f.version => e = f
  BY DEF Recorded
<1>6. chain # <<>> => \A d \in Doc : chain[Len(chain)].sealed[d] # None =>
        \/ chain[Len(chain)].sealed[d] \in EntriesOf(d)
        \/ "delete" \in Ops /\ \A q \in Proc : d \in touched'[q]
  BY DEF SealsHold
<1>7. CrossChainVerifies'
  BY DEF CrossChainVerifies, Mismatch
<1>8. QED
  BY <1>1, <1>3, <1>4, <1>5, <1>6, <1>7

\* What a step keeps that appends an entry of its own.
LEMMA EntryRecorded ==
  ASSUME ChainInv, Recorded, SealsHold, CrossChainVerifies, UNCHANGED chain,
         NEW d \in Doc, NEW e \in Entry, history' = [history EXCEPT ![d] = Append(@, e)],
         \A f \in EntriesOf(d) : f.version # e.version,
         clock' \in Nat, clock <= clock', e.hash = clock', clock' > 0,
         \A i \in DOMAIN chain : chain[i].at < e.hash,
         \A q \in Proc : touched[q] \subseteq touched'[q]
  PROVE  /\ EntriesOf(d)' = EntriesOf(d) \union {e}
         /\ \A c \in Doc : EntriesOf(c) \subseteq EntriesOf(c)'
         /\ \A c \in Doc : \A f, g \in EntriesOf(c)' : f.version = g.version => f = g
         /\ \A c \in Doc : \A f \in EntriesOf(c)' : f.hash \in 1 .. clock'
         /\ \A i \in DOMAIN chain' : chain'[i].at <= clock'
         /\ chain' # <<>> => \A c \in Doc : chain'[Len(chain')].sealed[c] # None =>
              \/ chain'[Len(chain')].sealed[c] \in EntriesOf(c)'
              \/ "delete" \in Ops /\ \A q \in Proc : c \in touched'[q]
         /\ CrossChainVerifies'
<1>1. EntriesOf(d)' = EntriesOf(d) \union {e} /\ \A c \in Doc : c # d => EntriesOf(c)' = EntriesOf(c)
  BY EntriesAppended DEF ChainInv, TypeOK
<1>2. clock \in Nat
  BY DEF ChainInv, TypeOK
<1>3. \A i \in DOMAIN chain : chain[i].at \in Nat /\ chain[i].at < e.hash
  <2>1. \A i \in DOMAIN chain : chain[i] \in Checkpoint
    BY DEF ChainInv, TypeOK
  <2>2. QED
    BY <2>1 DEF Checkpoint
<1>4. ASSUME NEW c \in Doc, NEW f \in EntriesOf(c)'
      PROVE  f \in EntriesOf(c) \/ (c = d /\ f = e)
  BY <1>1, <1>4
<1>5. \A c \in Doc : \A f, g \in EntriesOf(c)' : f.version = g.version => f = g
  <2>1. \A c \in Doc : \A f, g \in EntriesOf(c) : f.version = g.version => f = g
    BY DEF Recorded
  <2>2. QED
    BY <1>4, <2>1
<1>6. \A c \in Doc : \A f \in EntriesOf(c)' : f.hash \in 1 .. clock'
  <2>1. \A c \in Doc : \A f \in EntriesOf(c) : f.hash \in 1 .. clock
    BY DEF Recorded
  <2>2. QED
    BY <1>2, <1>4, <2>1
<1>7. \A c \in Doc : EntriesOf(c) \subseteq EntriesOf(c)'
  BY <1>1
<1>8. chain' # <<>> => \A c \in Doc : chain'[Len(chain')].sealed[c] # None =>
        \/ chain'[Len(chain')].sealed[c] \in EntriesOf(c)'
        \/ "delete" \in Ops /\ \A q \in Proc : c \in touched'[q]
  BY <1>7 DEF SealsHold
<1>9. CrossChainVerifies'
  <2>1. ASSUME NEW i \in DOMAIN chain, NEW c \in Doc
        PROVE  Bound(chain[i], c, EntriesOf(c)')
    <3>1. Bound(chain[i], c, EntriesOf(c))
      BY <2>1, Verifies
    <3>2. e.hash \in Nat /\ ~(e.hash <= chain[i].at)
      BY <1>3, <2>1
    <3>3. QED
      BY <1>4, <2>1, <3>1, <3>2 DEF Bound
  <2>2. QED
    BY <2>1, Verifies
<1>10. QED
  BY <1>1, <1>3, <1>5, <1>6, <1>7, <1>8, <1>9

\* Writing.
LEMMA WriteSeals ==
  ASSUME Undisturbed, ChainInv, ChainInv', WriterInv, WriterInv', Recorded, SealsHold, CrossChainVerifies,
         NEW p \in Proc, Write(p)
  PROVE  Recorded' /\ SealsHold' /\ CrossChainVerifies'
<1>0. clock \in Nat /\ clock' \in Nat /\ unreadable = {}
  BY DEF ChainInv, TypeOK, Recorded
<1>1. ASSUME NEW d \in Doc, NEW n \in Version, TakeJob(p, d, n)
      PROVE  /\ lock = None /\ lock' = p /\ pc[p] = "idle" /\ clock' = clock + 1
             /\ job'[p] = [doc |-> d, version |-> n, hash |-> clock + 1]
             /\ [version |-> n, hash |-> clock + 1] \in Entry
             /\ live[d] # None
             /\ \A e \in EntriesOf(d) : e.version # n
             /\ \A i \in DOMAIN chain : chain[i].at < clock + 1
  <2>1. /\ lock = None /\ lock' = p /\ pc[p] = "idle" /\ clock' = clock + 1
        /\ job' = [job EXCEPT ![p] = [doc |-> d, version |-> n, hash |-> clock + 1]]
        /\ live[d] # None /\ Outranks(n, d)
    BY <1>1 DEF TakeJob, Acquire
  <2>2. [version |-> n, hash |-> clock + 1] \in Entry
    BY <1>1, JobTypes DEF ChainInv
  <2>3. \A e \in EntriesOf(d) : e.version # n
    <3>1. \A i \in DOMAIN history[d] : history[d][i].version < n
      BY <2>1 DEF Outranks
    <3>2. n \in Nat
      BY DEF Version
    <3>3. QED
      BY <3>1, <3>2 DEF EntriesOf
  <2>4. \A i \in DOMAIN chain : chain[i].at \in Nat /\ chain[i].at <= clock
    <3>1. \A i \in DOMAIN chain : chain[i] \in Checkpoint
      BY DEF ChainInv, TypeOK
    <3>2. QED
      BY <3>1 DEF SealsHold, Checkpoint
  <2>5. job'[p] = [doc |-> d, version |-> n, hash |-> clock + 1]
    BY <2>1 DEF WriterInv
  <2>6. QED
    BY <1>0, <2>1, <2>2, <2>3, <2>4, <2>5
<1>2. ASSUME NEW d \in Doc, NEW n \in Version, PublishLive(p, d, n)
      PROVE  Recorded' /\ SealsHold' /\ CrossChainVerifies'
  <2>1. TakeJob(p, d, n)
    BY <1>2 DEF PublishLive
  <2>2. /\ lock = None /\ lock' = p /\ pc[p] = "idle" /\ clock' = clock + 1
        /\ job'[p] = [doc |-> d, version |-> n, hash |-> clock + 1]
        /\ \A e \in EntriesOf(d) : e.version # n
        /\ \A i \in DOMAIN chain : chain[i].at < clock + 1
    BY <1>1, <1>2, <2>1
  <2>3. /\ UNCHANGED <<history, chain, unreadable, touched>> /\ pc'[p] = "entry"
        /\ live' = [live EXCEPT ![d] = [version |-> n, published |-> TRUE]]
    BY <1>2 DEF PublishLive, Goto, chainFiles, WriterInv
  <2>4. /\ \A c \in Doc : EntriesOf(c)' = EntriesOf(c)
        /\ \A c \in Doc : \A e, f \in EntriesOf(c)' : e.version = f.version => e = f
        /\ \A c \in Doc : \A e \in EntriesOf(c)' : e.hash \in 1 .. clock'
        /\ \A i \in DOMAIN chain' : chain'[i].at <= clock'
        /\ chain' # <<>> => \A c \in Doc : chain'[Len(chain')].sealed[c] # None =>
             \/ chain'[Len(chain')].sealed[c] \in EntriesOf(c)'
             \/ "delete" \in Ops /\ \A q \in Proc : c \in touched'[q]
        /\ CrossChainVerifies'
    BY <1>0, <2>2, <2>3, NothingSealed
  <2>5. ASSUME NEW c \in Doc, live'[c] # None
        PROVE  /\ live'[c].published => live'[c].version # 0
               /\ \/ live'[c].version = 0
                  \/ \E e \in EntriesOf(c)' : e.version = live'[c].version
                  \/ pc'[p] = "entry" /\ job'[p].doc = c
    <3>1. CASE c = d
      <4>1. live'[d] = [version |-> n, published |-> TRUE] /\ n # 0
        BY <2>3 DEF WriterInv, Version
      <4>2. QED
        BY <2>2, <2>3, <3>1, <4>1
    <3>2. CASE c # d
      <4>1. live'[c] = live[c]
        BY <2>3, <3>2 DEF WriterInv
      <4>2. QED
        BY <2>2, <2>4, <2>5, <4>1, LiveRecorded
    <3>3. QED
      BY <3>1, <3>2
  <2>6. Recorded'
    <3>1. \A e \in EntriesOf(job[p].doc)' : e.version # job'[p].version
      <4>1. EntriesOf(job[p].doc)' = EntriesOf(d)'
        BY <2>2 DEF EntriesOf
      <4>2. QED
        BY <1>2, <2>2, <2>4, <4>1
    <3>2. job'[p].hash = clock' /\ clock' > 0 /\ \A i \in DOMAIN chain' : chain'[i].at < job'[p].hash
      BY <1>0, <2>2, <2>3
    <3>3. QED
      BY <1>0, <2>2, <2>3, <2>4, <2>5, <3>1, <3>2, RecordedAlone
  <2>7. SealsHold'
    BY <2>2, <2>3, <2>4, HoldsAlone
  <2>8. QED
    BY <2>4, <2>6, <2>7
<1>3. ASSUME NEW d \in Doc, NEW n \in Version, CommitEntry(p, d, n)
      PROVE  Recorded' /\ SealsHold' /\ CrossChainVerifies'
  <2> DEFINE e == [version |-> n, hash |-> clock + 1]
  <2>1. TakeJob(p, d, n)
    BY <1>3 DEF CommitEntry
  <2>2. /\ lock = None /\ lock' = p /\ pc[p] = "idle" /\ clock' = clock + 1
        /\ job'[p] = [doc |-> d, version |-> n, hash |-> clock + 1] /\ e \in Entry
        /\ \A f \in EntriesOf(d) : f.version # n
        /\ \A i \in DOMAIN chain : chain[i].at < clock + 1
    BY <1>1, <1>3, <2>1
  <2>3. /\ UNCHANGED <<live, chain, unreadable>> /\ pc'[p] = "live"
        /\ history' = [history EXCEPT ![d] = Append(@, e)]
        /\ \A q \in Proc : touched[q] \subseteq touched'[q]
    BY <1>3 DEF CommitEntry, Goto, Touch, chainFiles, WriterInv
  <2>4. /\ EntriesOf(d)' = EntriesOf(d) \union {e}
        /\ \A c \in Doc : EntriesOf(c) \subseteq EntriesOf(c)'
        /\ \A c \in Doc : \A f, g \in EntriesOf(c)' : f.version = g.version => f = g
        /\ \A c \in Doc : \A f \in EntriesOf(c)' : f.hash \in 1 .. clock'
        /\ \A i \in DOMAIN chain' : chain'[i].at <= clock'
        /\ chain' # <<>> => \A c \in Doc : chain'[Len(chain')].sealed[c] # None =>
             \/ chain'[Len(chain')].sealed[c] \in EntriesOf(c)'
             \/ "delete" \in Ops /\ \A q \in Proc : c \in touched'[q]
        /\ CrossChainVerifies'
    <3>1. e.version = n /\ e.hash = clock' /\ clock <= clock' /\ clock' > 0
      BY <1>0, <2>2
    <3> HIDE DEF e
    <3>2. (\A f \in EntriesOf(d) : f.version # e.version) /\ (\A i \in DOMAIN chain : chain[i].at < e.hash)
      BY <2>2, <3>1
    <3>3. QED
      BY <1>0, <1>3, <2>2, <2>3, <3>1, <3>2, EntryRecorded
  <2>5. ASSUME NEW c \in Doc, live'[c] # None
        PROVE  /\ live'[c].published => live'[c].version # 0
               /\ live'[c].version = 0 \/ \E f \in EntriesOf(c)' : f.version = live'[c].version
    BY <2>2, <2>3, <2>4, <2>5, LiveRecorded
  <2>6. EntryOf(p)' \in EntriesOf(job[p].doc)'
    <3>1. EntriesOf(job[p].doc)' = EntriesOf(d)' /\ EntryOf(p)' = e
      BY <2>2 DEF EntriesOf, EntryOf
    <3>2. QED
      BY <2>4, <3>1
  <2>7. Recorded'
    BY <1>0, <2>2, <2>3, <2>4, <2>5, <2>6, RecordedAlone
  <2>8. SealsHold'
    BY <2>2, <2>3, <2>4, HoldsAlone
  <2>9. QED
    BY <2>4, <2>7, <2>8
<1>4. ASSUME NEW d \in Doc, DeleteFile(p, d)
      PROVE  Recorded' /\ SealsHold' /\ CrossChainVerifies'
  <2>1. /\ lock = None /\ lock' = p /\ pc[p] = "idle" /\ pc'[p] = "rm" /\ "delete" \in Ops
        /\ UNCHANGED <<history, chain, clock>> /\ unreadable' = unreadable \ {d}
        /\ live' = [live EXCEPT ![d] = None] /\ job'[p].doc = d /\ live'[d] = None
        /\ d \in touched'[p] /\ \A q \in Proc : touched[q] \subseteq touched'[q]
    BY <1>4, CheckpointAssumption DEF DeleteFile, Acquire, Goto, Touch, chainFiles, WriterInv, Inside, NoJob
  <2> unreadable' = unreadable
    BY <1>0, <2>1
  <2>2. /\ \A c \in Doc : EntriesOf(c)' = EntriesOf(c)
        /\ \A c \in Doc : \A e, f \in EntriesOf(c)' : e.version = f.version => e = f
        /\ \A c \in Doc : \A e \in EntriesOf(c)' : e.hash \in 1 .. clock'
        /\ \A i \in DOMAIN chain' : chain'[i].at <= clock'
        /\ chain' # <<>> => \A c \in Doc : chain'[Len(chain')].sealed[c] # None =>
             \/ chain'[Len(chain')].sealed[c] \in EntriesOf(c)'
             \/ "delete" \in Ops /\ \A q \in Proc : c \in touched'[q]
        /\ CrossChainVerifies'
    BY <1>0, <2>1, NothingSealed
  <2>3. ASSUME NEW c \in Doc, live'[c] # None
        PROVE  /\ live'[c].published => live'[c].version # 0
               /\ live'[c].version = 0 \/ \E f \in EntriesOf(c)' : f.version = live'[c].version
    <3>1. live'[c] = live[c]
      BY <2>1, <2>3 DEF WriterInv
    <3>2. QED
      BY <2>1, <2>2, <2>3, <3>1, LiveRecorded
  <2>4. Recorded'
    BY <1>0, <2>1, <2>2, <2>3, RecordedAlone
  <2>5. SealsHold'
    BY <2>1, <2>2, HoldsAlone
  <2>6. QED
    BY <2>2, <2>4, <2>5
<1>5. CASE PublishEntry(p) \/ PublishUnsealed(p)
  <2>1. pc[p] = "entry" /\ RecordEntry(p) /\ UNCHANGED <<live, unreadable, clock, chain>>
    BY <1>5 DEF PublishEntry, PublishUnsealed, chainFiles
  <2>0. PICK d \in Doc, e \in {EntryOf(p)} : d = job[p].doc
    BY <2>1 DEF WriterInv
  <2>2. /\ lock = p /\ live[d] = [version |-> job[p].version, published |-> TRUE]
        /\ job[p].version \in Version
    BY <2>0, <2>1 DEF WriterInv, Inside
  <2>3. /\ job[p].hash = clock /\ clock > 0
        /\ \A f \in EntriesOf(d) : f.version # job[p].version
        /\ \A i \in DOMAIN chain : chain[i].at < job[p].hash
    BY <2>0, <2>1 DEF Recorded
  <2>4. e \in Entry /\ e.version = job[p].version /\ e.hash = job[p].hash
    BY <2>0, <2>2 DEF EntryOf, Entry, ChainInv, TypeOK
  <2>5. /\ history' = [history EXCEPT ![d] = Append(@, e)]
        /\ \A q \in Proc : touched[q] \subseteq touched'[q]
    BY <2>0, <2>1 DEF RecordEntry, Touch, WriterInv
  <2>6. /\ EntriesOf(d)' = EntriesOf(d) \union {e}
        /\ \A c \in Doc : EntriesOf(c) \subseteq EntriesOf(c)'
        /\ \A c \in Doc : \A f, g \in EntriesOf(c)' : f.version = g.version => f = g
        /\ \A c \in Doc : \A f \in EntriesOf(c)' : f.hash \in 1 .. clock'
        /\ \A i \in DOMAIN chain' : chain'[i].at <= clock'
        /\ chain' # <<>> => \A c \in Doc : chain'[Len(chain')].sealed[c] # None =>
             \/ chain'[Len(chain')].sealed[c] \in EntriesOf(c)'
             \/ "delete" \in Ops /\ \A q \in Proc : c \in touched'[q]
        /\ CrossChainVerifies'
    <3>1. /\ \A f \in EntriesOf(d) : f.version # e.version
          /\ \A i \in DOMAIN chain : chain[i].at < e.hash
          /\ e.hash = clock' /\ clock' > 0 /\ clock <= clock'
      BY <1>0, <2>1, <2>3, <2>4
    <3>2. QED
      BY <1>0, <2>1, <2>2, <2>4, <2>5, <3>1, EntryRecorded
  <2>7. ASSUME NEW c \in Doc, live'[c] # None
        PROVE  /\ live'[c].published => live'[c].version # 0
               /\ live'[c].version = 0 \/ \E f \in EntriesOf(c)' : f.version = live'[c].version
    <3>1. CASE c = d
      <4>1. live'[c].version = e.version /\ e \in EntriesOf(d)' /\ e.version # 0
        BY <2>1, <2>2, <2>4, <2>6, <3>1 DEF Version
      <4>2. QED
        BY <3>1, <4>1
    <3>2. CASE c # d
      <4>1. \A q \in Proc : q # p => pc[q] # "entry"
        BY <2>2 DEF WriterInv, Inside
      <4>2. QED
        BY <2>0, <2>1, <2>6, <2>7, <3>2, <4>1 DEF Recorded
    <3>3. QED
      BY <3>1, <3>2
  <2>8. /\ lock' \in {p, None} /\ pc'[p] \in {"seal", "idle"}
        /\ pc'[p] = "seal" => job' = job
    BY <1>5, <2>2 DEF PublishEntry, PublishUnsealed, Release, Goto, locals, WriterInv
  <2>9. pc'[p] = "seal" /\ job'[p].doc \in Doc => EntryOf(p)' \in EntriesOf(job[p].doc)'
    <3>1. ASSUME job' = job
          PROVE  EntriesOf(job[p].doc)' = EntriesOf(d)' /\ EntryOf(p)' = e
      BY <2>0, <3>1 DEF EntriesOf, EntryOf
    <3>2. QED
      BY <2>6, <2>8, <3>1
  <2>10. Recorded'
    BY <1>0, <2>1, <2>6, <2>7, <2>8, <2>9, RecordedAlone
  <2>11. SealsHold'
    BY <2>6, <2>8, HoldsAlone
  <2>12. QED
    BY <2>6, <2>10, <2>11
<1>6. CASE CommitLive(p)
  <2>0. PICK d \in Doc : d = job[p].doc
    BY <1>6 DEF CommitLive, WriterInv
  <2>1. /\ pc[p] = "live" /\ unreadable' = {} /\ UNCHANGED <<history, clock, chain, touched>>
        /\ live' = [live EXCEPT ![d] = [version |-> job[p].version, published |-> TRUE]]
        /\ lock' = None /\ pc'[p] = "idle"
    BY <1>0, <1>6, <2>0 DEF CommitLive, Release, Goto, chainFiles, WriterInv
  <2>2. lock = p /\ job[p].version \in Version
    BY <2>1 DEF WriterInv, Inside
  <2>3. EntryOf(p) \in EntriesOf(d)
    BY <2>0, <2>1 DEF Recorded
  <2>4. /\ \A c \in Doc : EntriesOf(c)' = EntriesOf(c)
        /\ \A c \in Doc : \A e, f \in EntriesOf(c)' : e.version = f.version => e = f
        /\ \A c \in Doc : \A e \in EntriesOf(c)' : e.hash \in 1 .. clock'
        /\ \A i \in DOMAIN chain' : chain'[i].at <= clock'
        /\ chain' # <<>> => \A c \in Doc : chain'[Len(chain')].sealed[c] # None =>
             \/ chain'[Len(chain')].sealed[c] \in EntriesOf(c)'
             \/ "delete" \in Ops /\ \A q \in Proc : c \in touched'[q]
        /\ CrossChainVerifies'
    BY <1>0, <2>1, NothingSealed
  <2>5. ASSUME NEW c \in Doc, live'[c] # None
        PROVE  /\ live'[c].published => live'[c].version # 0
               /\ live'[c].version = 0 \/ \E f \in EntriesOf(c)' : f.version = live'[c].version
    <3>1. CASE c = d
      <4>1. live'[c].version = EntryOf(p).version /\ EntryOf(p).version # 0
        BY <2>1, <2>2, <3>1 DEF EntryOf, WriterInv, Version
      <4>2. QED
        BY <2>3, <2>4, <3>1, <4>1
    <3>2. CASE c # d
      <4>1. live'[c] = live[c]
        BY <2>1, <3>2 DEF WriterInv
      <4>2. QED
        BY <2>1, <2>2, <2>4, <2>5, <4>1, LiveRecorded
    <3>3. QED
      BY <3>1, <3>2
  <2>6. Recorded'
    BY <2>1, <2>4, <2>5, RecordedAlone
  <2>7. SealsHold'
    BY <2>1, <2>4, HoldsAlone
  <2>8. QED
    BY <2>4, <2>6, <2>7
<1>7. CASE DeleteHistory(p)
  <2>0. PICK d \in Doc : d = job[p].doc
    BY <1>7 DEF DeleteHistory, WriterInv
  <2>1. /\ pc[p] = "rm" /\ UNCHANGED <<live, unreadable, clock, chain, touched>>
        /\ history' = [history EXCEPT ![d] = <<>>] /\ lock' = None /\ pc'[p] = "idle"
    BY <1>7, <2>0 DEF DeleteHistory, Release, Goto, chainFiles, WriterInv
  <2>2. lock = p
    BY <2>1 DEF WriterInv, Inside
  <2>3. live[d] = None /\ d \in touched[p] /\ "delete" \in Ops
    BY <2>0, <2>1 DEF Recorded
  <2>4. \A q \in Proc : d \in touched'[q]
    BY <2>1, <2>3 DEF Undisturbed, MarksReach
  <2>5. EntriesOf(d)' = {} /\ \A c \in Doc : c # d => EntriesOf(c)' = EntriesOf(c)
    <3>1. history'[d] = <<>> /\ \A c \in Doc : c # d => history'[c] = history[c]
      BY <2>1, <2>2 DEF ChainInv, TypeOK, Histories
    <3>2. DOMAIN history'[d] = {}
      BY <3>1, EmptySeq
    <3>3. QED
      BY <3>1, <3>2 DEF EntriesOf
  <2>6. \A c \in Doc : EntriesOf(c)' \subseteq EntriesOf(c)
    BY <2>5
  <2>7. /\ \A c \in Doc : \A e, f \in EntriesOf(c)' : e.version = f.version => e = f
        /\ \A c \in Doc : \A e \in EntriesOf(c)' : e.hash \in 1 .. clock'
    BY <2>1, <2>6 DEF Recorded
  <2>8. CrossChainVerifies'
    BY <2>1, <2>6, Verifies DEF Bound
  <2>9. ASSUME NEW c \in Doc, live'[c] # None
        PROVE  /\ live'[c].published => live'[c].version # 0
               /\ live'[c].version = 0 \/ \E f \in EntriesOf(c)' : f.version = live'[c].version
    <3>1. c # d /\ live'[c] = live[c]
      BY <2>1, <2>3, <2>9
    <3>2. QED
      BY <2>1, <2>2, <2>5, <2>9, <3>1, LiveRecorded
  <2>10. Recorded'
    BY <1>0, <2>1, <2>7, <2>9, RecordedAlone
  <2>11. SealsHold'
    <3>1. chain' # <<>> => \A c \in Doc : chain'[Len(chain')].sealed[c] # None =>
            \/ chain'[Len(chain')].sealed[c] \in EntriesOf(c)'
            \/ "delete" \in Ops /\ \A q \in Proc : c \in touched'[q]
      BY <2>1, <2>3, <2>4, <2>5 DEF SealsHold
    <3>2. \A i \in DOMAIN chain' : chain'[i].at <= clock'
      BY <2>1 DEF SealsHold
    <3>3. QED
      BY <2>1, <3>1, <3>2, HoldsAlone
  <2>12. QED
    BY <2>8, <2>10, <2>11
<1>8. QED
  BY <1>2, <1>3, <1>4, <1>5, <1>6, <1>7 DEF Write

\* What a seal reads is recorded.
LEMMA SealRecorded ==
  ASSUME ChainInv, WriterInv, Recorded, SealsHold, NEW p \in Proc, pc[p] = "seal", NEW d \in Doc,
         SnapshotOf(p)[d] # None
  PROVE  SnapshotOf(p)[d] \in EntriesOf(d)
<1>1. lock = p /\ IsPublished(d) /\ live[d] # None /\ d \notin unreadable
  BY DEF SnapshotOf, IsPublished, Recorded, WriterInv, Inside
<1>2. PICK e \in EntriesOf(d) : e.version = VersionToSeal(d)
  <2>1. live[d].published /\ live[d].version # 0
    BY <1>1, LiveRecorded DEF IsPublished
  <2>2. QED
    BY <1>1, <2>1, LiveRecorded DEF VersionToSeal
<1>3. SnapshotOf(p)[d] = [version |-> VersionToSeal(d), hash |-> HashToSeal(p, d)]
  BY <1>1 DEF SnapshotOf
<1>4. ASSUME NEW f \in EntriesOf(d), f.version = VersionToSeal(d), f.hash = HashToSeal(p, d)
      PROVE  SnapshotOf(p)[d] \in EntriesOf(d)
  <2>1. f \in Entry
    BY EntriesTyped
  <2>2. f = [version |-> f.version, hash |-> f.hash]
    BY <2>1 DEF Entry
  <2>3. QED
    BY <1>3, <1>4, <2>2
<1>5. CASE Carries(p, d)
  <2>1. /\ ChainHead.sealed[d] # None /\ ChainHead.sealed[d].version = VersionToSeal(d)
        /\ d \notin touched[p] /\ chain # <<>> /\ ChainHead = chain[Len(chain)]
    BY <1>5, HeadIsLast DEF Carries, HeadSeals
  <2>2. ChainHead.sealed[d] \in EntriesOf(d)
    BY <2>1 DEF SealsHold
  <2>3. HashToSeal(p, d) = ChainHead.sealed[d].hash
    BY <1>5 DEF HashToSeal
  <2>4. QED
    BY <1>4, <2>1, <2>2, <2>3
<1>6. CASE ~Carries(p, d) /\ d = job[p].doc /\ job[p].version = VersionToSeal(d)
  <2>1. EntryOf(p) \in EntriesOf(d) /\ EntryOf(p).version = VersionToSeal(d) /\ EntryOf(p).hash = HashToSeal(p, d)
    BY <1>6 DEF Recorded, EntryOf, HashToSeal
  <2>2. QED
    BY <1>4, <2>1
<1>7. CASE ~Carries(p, d) /\ ~(d = job[p].doc /\ job[p].version = VersionToSeal(d))
  <2> DEFINE same == {i \in DOMAIN history[d] : history[d][i].version = VersionToSeal(d)}
  <2>1. PICK i \in DOMAIN history[d] : e = history[d][i]
    BY DEF EntriesOf
  <2>2. i \in same
    BY <1>2, <2>1
  <2>3. history[d] # <<>>
    BY <2>1, EmptySeq
  <2>4. HashToSeal(p, d) = history[d][CHOOSE j \in same : TRUE].hash
    BY <1>7, <2>2, <2>3 DEF HashToSeal, RecordedHash
  <2>5. (CHOOSE j \in same : TRUE) \in same
    BY <2>2
  <2> HIDE DEF same
  <2>6. PICK j \in same : HashToSeal(p, d) = history[d][j].hash
    BY <2>4, <2>5
  <2>7. j \in DOMAIN history[d] /\ history[d][j].version = VersionToSeal(d)
    BY <2>6 DEF same
  <2>8. history[d][j] \in EntriesOf(d)
    BY <2>7, EntriesTyped
  <2>9. QED
    BY <1>4, <2>6, <2>7, <2>8
<1>8. QED
  BY <1>5, <1>6, <1>7

LEMMA SealSeals ==
  ASSUME ChainInv, ChainInv', WriterInv, WriterInv', Recorded, SealsHold, CrossChainVerifies,
         NEW p \in Proc, Seal(p)
  PROVE  Recorded' /\ SealsHold' /\ CrossChainVerifies'
<1>0. clock \in Nat /\ unreadable = {} /\ p # None
  BY CheckpointAssumption DEF ChainInv, TypeOK, Recorded
<1>1. /\ UNCHANGED <<live, unreadable, history, clock>>
      /\ lock \in {p, None} /\ lock' \in {p, None} /\ pc[p] # "entry" /\ pc'[p] \in {"seal", "append", "point", "idle"}
      /\ \A d \in Doc : EntriesOf(d)' = EntriesOf(d)
  BY EntriesSame DEF Seal, SealWrites, SealRead, SealAppend, Point, Acquire, Release, Goto, documents, WriterInv, Inside
<1>2. Recorded'
  <2>1. pc'[p] = "seal" => job'[p].doc \notin Doc
    <3>1. CASE SealWrites(p)
      <4>1. job'[p] = NoJob
        BY <3>1 DEF SealWrites, Acquire, locals, WriterInv, Inside
      <4>2. QED
        BY <4>1, CheckpointAssumption DEF NoJob
    <3>2. CASE SealRead(p) \/ SealAppend(p) \/ Point(p)
      BY <3>2 DEF SealRead, SealAppend, Point, Release, Goto, WriterInv
    <3>3. QED
      BY <3>1, <3>2 DEF Seal
  <2>2. /\ \A d \in Doc : \A e, f \in EntriesOf(d)' : e.version = f.version => e = f
        /\ \A d \in Doc : \A e \in EntriesOf(d)' : e.hash \in 1 .. clock'
    BY <1>1 DEF Recorded
  <2>3. ASSUME NEW c \in Doc, live'[c] # None
        PROVE  /\ live'[c].published => live'[c].version # 0
               /\ live'[c].version = 0 \/ \E f \in EntriesOf(c)' : f.version = live'[c].version
    BY <1>1, <2>3, LiveRecorded
  <2>4. QED
    BY <1>0, <1>1, <2>1, <2>2, <2>3, RecordedAlone
<1>3. CASE SealWrites(p) \/ SealRead(p) \/ Point(p)
  <2>1. UNCHANGED chain
    BY <1>3 DEF SealWrites, SealRead, Point, chainFiles
  <2>2. CrossChainVerifies' /\ \A i \in DOMAIN chain' : chain'[i].at <= clock'
    BY <1>1, <2>1, Verifies DEF SealsHold
  <2>3. CASE SealWrites(p) \/ SealRead(p)
    <3>1. touched' = touched /\ pc'[p] \in {"seal", "append"}
      BY <2>3 DEF SealWrites, SealRead, Goto, locals, WriterInv
    <3>2. chain' # <<>> => \A c \in Doc : chain'[Len(chain')].sealed[c] # None =>
            \/ chain'[Len(chain')].sealed[c] \in EntriesOf(c)'
            \/ "delete" \in Ops /\ \A q \in Proc : c \in touched'[q]
      BY <1>1, <2>1, <3>1 DEF SealsHold
    <3>3. pc'[p] = "append" => pc[p] = "seal" /\ cp'[p].at = clock /\ cp'[p].sealed = SnapshotOf(p)
      BY <2>3 DEF SealWrites, SealRead, Goto, WriterInv
    <3>4. pc'[p] \in {"append", "point"} =>
            /\ cp'[p].at <= clock'
            /\ \A d \in Doc : cp'[p].sealed[d] # None => cp'[p].sealed[d] \in EntriesOf(d)'
      BY <1>0, <1>1, <3>1, <3>3, SealRecorded
    <3>5. QED
      BY <1>1, <1>2, <2>2, <3>2, <3>4, HoldsAlone
  <2>4. CASE Point(p)
    <3>1. pc[p] = "point" /\ pc'[p] = "idle"
      BY <2>4 DEF Point, Release, Goto, WriterInv
    <3>2. chain[Len(chain)] = cp[p] /\ \A d \in Doc : cp[p].sealed[d] # None => cp[p].sealed[d] \in EntriesOf(d)
      BY <3>1 DEF ChainInv, SealContinues, SealsHold
    <3>3. chain' # <<>> => \A c \in Doc : chain'[Len(chain')].sealed[c] # None =>
            \/ chain'[Len(chain')].sealed[c] \in EntriesOf(c)'
            \/ "delete" \in Ops /\ \A q \in Proc : c \in touched'[q]
      BY <1>1, <2>1, <3>2
    <3>4. QED
      BY <1>1, <1>2, <2>2, <3>1, <3>3, HoldsAlone
  <2>5. QED
    BY <1>3, <2>3, <2>4
<1>4. CASE SealAppend(p)
  <2>1. pc[p] = "append" /\ pc'[p] = "point" /\ cp' = cp /\ cp[p] \in Checkpoint
    BY <1>4, SealAppends DEF SealAppend, Goto, locals, WriterInv
  <2>2. cp[p].at <= clock /\ \A d \in Doc : cp[p].sealed[d] # None => cp[p].sealed[d] \in EntriesOf(d)
    BY <2>1 DEF SealsHold
  <2>3. /\ chain'[Len(chain')] = cp[p]
        /\ \A i \in DOMAIN chain' : (i \in DOMAIN chain /\ chain'[i] = chain[i]) \/ chain'[i] = cp[p]
    <3>1. /\ chain' \in Seq(Checkpoint) /\ Len(chain') = Len(chain) + 1 /\ chain'[Len(chain')] = cp[p]
          /\ DOMAIN chain = 1 .. Len(chain)
          /\ \A i \in DOMAIN chain : chain'[i] = chain[i]
      BY <1>4, SealAppends, AppendKeepsLinked
    <3>2. DOMAIN chain' = 1 .. Len(chain') /\ Len(chain) \in Nat
      BY <3>1, LenProperties DEF ChainInv, TypeOK
    <3>3. \A i \in 1 .. Len(chain) + 1 : i \in 1 .. Len(chain) \/ i = Len(chain) + 1
      BY <3>2
    <3>4. QED
      BY <3>1, <3>2, <3>3
  <2>4. \A i \in DOMAIN chain' : chain'[i].at <= clock'
    BY <1>1, <2>2, <2>3 DEF SealsHold
  <2>5. CrossChainVerifies'
    <3>1. ASSUME NEW d \in Doc
          PROVE  Bound(cp[p], d, EntriesOf(d))
      BY <2>2, <3>1 DEF Bound, Recorded
    <3>2. ASSUME NEW i \in DOMAIN chain', NEW d \in Doc
          PROVE  Bound(chain'[i], d, EntriesOf(d)')
      BY <1>1, <2>3, <3>1, <3>2, Verifies
    <3>3. QED
      BY <3>2, Verifies
  <2>6. SealsHold'
    <3>1. /\ cp'[p].at <= clock'
          /\ \A d \in Doc : cp'[p].sealed[d] # None => cp'[p].sealed[d] \in EntriesOf(d)'
      BY <1>1, <2>1, <2>2
    <3>2. \A c \in Doc : chain'[Len(chain')].sealed[c] # None => chain'[Len(chain')].sealed[c] \in EntriesOf(c)'
      BY <1>1, <2>2, <2>3
    <3>3. QED
      BY <1>1, <1>2, <2>4, <3>1, <3>2, HoldsAlone
  <2>7. QED
    BY <1>2, <2>5, <2>6
<1>5. QED
  BY <1>2, <1>3, <1>4 DEF Seal

\* A mark is lost with a process only where no history is removed, or with the chain.
LEMMA DeathSeals ==
  ASSUME Undisturbed, ChainInv, ChainInv', WriterInv, WriterInv', Recorded, SealsHold, CrossChainVerifies,
         NEW p \in Proc, Crash(p) \/ Exit(p) \/ TearChain(p)
  PROVE  Recorded' /\ SealsHold' /\ CrossChainVerifies'
<1>1. /\ UNCHANGED <<live, unreadable, history, clock>> /\ Die(p) /\ ~Crash(p)
      /\ \A d \in Doc : EntriesOf(d)' = EntriesOf(d)
  BY EntriesSame DEF Crash, Exit, TearChain, documents, Undisturbed
<1>2. /\ pc'[p] = "idle" /\ pc[p] \in {"idle", "append"}
      /\ \A q \in Proc : q # p => pc'[q] = pc[q] /\ job'[q] = job[q] /\ cp'[q] = cp[q] /\ touched'[q] = touched[q]
  BY <1>1 DEF Die, Goto, Exit, TearChain, WriterInv
<1>3. \A i \in DOMAIN chain' : i \in DOMAIN chain /\ chain'[i] = chain[i]
  BY <1>1, EmptySeq DEF Exit, TearChain, chainFiles
<1>4. Recorded'
  <2>1. /\ unreadable' = {}
        /\ \A d \in Doc : \A e, f \in EntriesOf(d)' : e.version = f.version => e = f
        /\ \A d \in Doc : \A e \in EntriesOf(d)' : e.hash \in 1 .. clock'
    BY <1>1 DEF Recorded
  <2>2. ASSUME NEW d \in Doc, live'[d] # None
        PROVE  /\ live'[d].published => live'[d].version # 0
               /\ \/ live'[d].version = 0
                  \/ \E e \in EntriesOf(d)' : e.version = live'[d].version
                  \/ \E q \in Proc : pc'[q] = "entry" /\ job'[q].doc = d
    BY <1>1, <1>2, <2>2 DEF Recorded
  <2>3. ASSUME NEW q \in Proc, q # p
        PROVE  /\ EntryOf(q)' = EntryOf(q) /\ EntriesOf(job[q].doc)' = EntriesOf(job[q].doc)
    BY <1>1, <1>2, <2>3 DEF EntryOf, EntriesOf
  <2>4. ASSUME NEW q \in Proc
        PROVE  /\ pc'[q] = "entry" =>
                    /\ job'[q].hash = clock' /\ clock' > 0
                    /\ \A e \in EntriesOf(job[q].doc)' : e.version # job'[q].version
                    /\ \A i \in DOMAIN chain' : chain'[i].at < job'[q].hash
               /\ pc'[q] \in {"live", "seal"} /\ job'[q].doc \in Doc => EntryOf(q)' \in EntriesOf(job[q].doc)'
               /\ pc'[q] = "rm" => live'[job'[q].doc] = None /\ job'[q].doc \in touched'[q] /\ "delete" \in Ops
    <3>1. CASE q = p
      BY <1>2, <3>1
    <3>2. CASE q # p
      BY <1>1, <1>2, <1>3, <2>3, <2>4, <3>2 DEF Recorded
    <3>3. QED
      BY <3>1, <3>2
  <2>5. QED
    BY <2>1, <2>2, <2>4 DEF Recorded
<1>5. CrossChainVerifies'
  BY <1>1, <1>3, Verifies
<1>6. SealsHold'
  <2>1. \A i \in DOMAIN chain' : chain'[i].at <= clock'
    BY <1>1, <1>3 DEF SealsHold
  <2>2. ASSUME NEW q \in Proc, pc'[q] \in {"append", "point"}
        PROVE  /\ cp'[q].at <= clock'
               /\ \A d \in Doc : cp'[q].sealed[d] # None => cp'[q].sealed[d] \in EntriesOf(d)'
    BY <1>1, <1>2, <2>2 DEF SealsHold
  <2>3. chain' # <<>> => \A c \in Doc : chain'[Len(chain')].sealed[c] # None =>
          \/ chain'[Len(chain')].sealed[c] \in EntriesOf(c)'
          \/ "delete" \in Ops /\ \A q \in Proc : c \in touched'[q]
    <3>1. CASE TearChain(p)
      BY <3>1 DEF TearChain
    <3>2. CASE Exit(p)
      <4>1. chain' = chain /\ "delete" \notin Ops
        BY <3>2 DEF Exit, chainFiles, Undisturbed, MarksReach
      <4>2. QED
        BY <1>1, <4>1 DEF SealsHold
    <3>3. QED
      BY <1>1, <3>1, <3>2
  <2>4. QED
    BY <2>1, <2>2, <2>3 DEF SealsHold
<1>7. QED
  BY <1>4, <1>5, <1>6

\* A new draft records nothing.
LEMMA CreateSeals ==
  ASSUME ChainInv, WriterInv, WriterInv', Recorded, SealsHold, CrossChainVerifies, NEW d \in Doc, Create(d)
  PROVE  Recorded' /\ SealsHold' /\ CrossChainVerifies'
<1>1. /\ UNCHANGED <<unreadable, history, clock, chain, touched, pc, job, cp>> /\ lock = None
      /\ live' = [live EXCEPT ![d] = [version |-> 0, published |-> FALSE]]
      /\ \A c \in Doc : EntriesOf(c)' = EntriesOf(c)
  BY EntriesSame DEF Create, chainFiles, locals
<1>2. \A q \in Proc : pc[q] \notin Inside
  BY <1>1, CheckpointAssumption DEF WriterInv
<1>3. ASSUME NEW c \in Doc, live'[c] # None
      PROVE  /\ live'[c].published => live'[c].version # 0
             /\ live'[c].version = 0 \/ \E f \in EntriesOf(c)' : f.version = live'[c].version
  <2>1. CASE c = d
    BY <1>1, <2>1 DEF WriterInv
  <2>2. CASE c # d
    BY <1>1, <1>2, <1>3, <2>2 DEF Recorded, WriterInv, Inside
  <2>3. QED
    BY <2>1, <2>2
<1>4. Recorded'
  BY <1>1, <1>2, <1>3 DEF Recorded, Inside
<1>5. SealsHold'
  BY <1>1, <1>2 DEF SealsHold, Inside
<1>6. CrossChainVerifies'
  BY <1>1, Verifies
<1>7. QED
  BY <1>4, <1>5, <1>6

\* Nothing is recorded under a rebuild that nobody races.
LEMMA RebuildStaysTrue ==
  ASSUME Unraced, ChainInv, RebuildsWhatIs, [Next]_vars
  PROVE  RebuildsWhatIs'
<1>1. SUFFICES ASSUME NEW p \in Proc, pc'[p] \in {"rebuild", "repoint", "recheck"}
               PROVE  before'[p] = history'
  BY DEF RebuildsWhatIs
<1>2. CASE \E q \in Proc : Rebuild(q)
  <2>1. PICK q \in Proc : Rebuild(q)
    BY <1>2
  <2>2. p = q
    BY <2>1, NoRebuild DEF Unraced
  <2>3. QED
    BY <1>1, <2>1, <2>2
       DEF Rebuild, RebuildRead, RebuildWrite, RebuildPoint, RebuildCheck, Goto, documents, locals,
           RebuildsWhatIs, ChainInv, TypeOK
<1>3. CASE \E q \in Proc : Write(q) \/ Seal(q) \/ Crash(q) \/ Exit(q) \/ TearChain(q)
  <2>1. PICK q \in Proc : Write(q) \/ Seal(q) \/ Crash(q) \/ Exit(q) \/ TearChain(q)
    BY <1>3
  <2>2. \E s \in {"idle", "entry", "seal", "append", "point", "live", "rm"} : pc' = [pc EXCEPT ![q] = s]
    <3>1. CASE Write(q)
      BY <3>1 DEF Write, PublishLive, CommitEntry, DeleteFile, PublishEntry, PublishUnsealed, CommitLive,
                  DeleteHistory, Release, Goto
    <3>2. CASE Seal(q)
      BY <3>2 DEF Seal, SealWrites, SealRead, SealAppend, Point, Release, Goto
    <3>3. CASE Crash(q) \/ Exit(q) \/ TearChain(q)
      BY <3>3 DEF Crash, Exit, TearChain, Die, Goto
    <3>4. QED
      BY <2>1, <3>1, <3>2, <3>3
  <2>3. DOMAIN pc = Proc
    BY DEF ChainInv, TypeOK
  <2>4. p # q /\ pc[p] = pc'[p]
    BY <1>1, <2>2, <2>3
  <2>5. QED
    BY <1>1, <2>4 DEF ChainInv, SealContinues
<1>4. CASE \/ \E d \in Doc : Create(d) \/ Garble(d)
           \/ \E d \in Doc, version \in 0 .. MaxVersion : HandEdit(d, version)
           \/ UNCHANGED vars
  <2>1. UNCHANGED <<history, pc, before>>
    BY <1>4 DEF Create, Garble, HandEdit, locals, vars
  <2>2. QED
    BY <1>1, <2>1 DEF RebuildsWhatIs
<1>5. QED
  BY <1>2, <1>3, <1>4 DEF Next

\* What a rebuild that nobody races puts in the chain is what the histories record.
LEMMA RebuildSeals ==
  ASSUME Undisturbed, ChainInv, Dated, WriterInv, RebuildsWhatIs, Recorded, SealsHold, CrossChainVerifies,
         NEW p \in Proc, Rebuild(p)
  PROVE  Recorded' /\ SealsHold' /\ CrossChainVerifies'
<1>1. \A q \in Proc : q = p
  BY NoRebuild DEF Undisturbed, Unraced
<1>2. /\ UNCHANGED <<live, unreadable, history, clock, touched, job, cp>>
      /\ pc[p] \notin Inside
      /\ \E s \in {"idle", "rebuild", "repoint", "recheck"} : pc' = [pc EXCEPT ![p] = s]
  BY DEF Rebuild, RebuildRead, RebuildWrite, RebuildPoint, RebuildCheck, Goto, documents, locals, Inside
<1>3. pc'[p] \notin Inside
  BY <1>2 DEF WriterInv, Inside
<1>4. \A d \in Doc : EntriesOf(d)' = EntriesOf(d)
  BY <1>2, EntriesSame
<1>5. Recorded'
  BY <1>1, <1>2, <1>3, <1>4 DEF Recorded, Inside
<1>6. CASE UNCHANGED chain
  <2>1. SealsHold'
    BY <1>1, <1>2, <1>3, <1>4, <1>6 DEF SealsHold, Inside
  <2>2. CrossChainVerifies'
    BY <1>2, <1>6 DEF CrossChainVerifies, Mismatch
  <2>3. QED
    BY <1>5, <2>1, <2>2
<1>7. CASE RebuildWrite(p)
  <2>1. chain' = DeriveCheckpointHistory(history) /\ history' = history
    BY <1>2, <1>7 DEF RebuildWrite, RebuildsWhatIs
  <2>2. history \in Histories /\ InOrder(history)
    BY DEF Dated
  <2>3. \A i \in DOMAIN chain' : chain'[i].at <= clock'
    <3>1. SUFFICES ASSUME NEW i \in DOMAIN chain' PROVE chain'[i].at <= clock
      BY <1>2
    <3>2. PICK d \in Doc : \E j \in DOMAIN history[d] : chain'[i].at = history[d][j].hash
      BY <2>1, <2>2, RebuiltChain
    <3>3. QED
      BY <3>2 DEF Dated
  <2>4. chain' # <<>> => \A d \in Doc : chain'[Len(chain')].sealed[d] # None =>
          chain'[Len(chain')].sealed[d] \in EntriesOf(d)'
    <3>1. SUFFICES ASSUME chain' # <<>>, NEW d \in Doc, chain'[Len(chain')].sealed[d] # None
                   PROVE  chain'[Len(chain')].sealed[d] \in EntriesOf(d)
      BY <1>4
    <3>2. chain' \in Seq(Checkpoint)
      BY <2>1, <2>2, RebuiltChain
    <3>3. Len(chain') \in DOMAIN chain'
      BY <3>1, <3>2, EmptySeq, LenProperties
    <3>4. \E j \in DOMAIN history[d] : chain'[Len(chain')].sealed[d] = history[d][j]
      BY <2>1, <2>2, <3>1, <3>3, RebuiltChain
    <3>5. QED
      BY <3>4 DEF EntriesOf
  <2>5. SealsHold'
    BY <1>1, <1>3, <2>3, <2>4 DEF SealsHold, Inside
  <2>6. CrossChainVerifies'
    <3>1. \A i \in DOMAIN chain', d \in Doc : ~Mismatch(chain'[i], d)
      BY <2>1, RebuiltVerifies
    <3>2. QED
      BY <2>1, <3>1 DEF CrossChainVerifies, Mismatch
  <2>7. QED
    BY <1>5, <2>5, <2>6
<1>8. UNCHANGED chain \/ RebuildWrite(p)
  BY DEF Rebuild, RebuildRead, RebuildPoint, RebuildCheck, chainFiles
<1>9. QED
  BY <1>6, <1>7, <1>8

LEMMA SealStep ==
  ASSUME Undisturbed, ChainInv, ChainInv', Dated, Dated', WriterInv, WriterInv', RebuildsWhatIs,
         Recorded, SealsHold, CrossChainVerifies, [Next]_vars
  PROVE  Recorded' /\ SealsHold' /\ CrossChainVerifies'
<1>1. CASE \E p \in Proc : Write(p) \/ Seal(p)
  BY <1>1, WriteSeals, SealSeals
<1>2. CASE \E p \in Proc : Crash(p) \/ Exit(p) \/ TearChain(p)
  BY <1>2, DeathSeals
<1>3. CASE \E d \in Doc : Create(d)
  BY <1>3, CreateSeals
<1>4. CASE UNCHANGED vars
  BY <1>4 DEF vars, Recorded, SealsHold, CrossChainVerifies, Mismatch, EntriesOf, EntryOf
<1>5. CASE \E p \in Proc : Rebuild(p)
  BY <1>5, RebuildSeals
<1>6. ~\E d \in Doc : Garble(d)
  BY DEF Undisturbed, Garble
<1>7. ~\E d \in Doc, version \in 0 .. MaxVersion : HandEdit(d, version)
  BY DEF Undisturbed, HandEdit
<1>8. QED
  BY <1>1, <1>2, <1>3, <1>4, <1>5, <1>6, <1>7 DEF Next

\* The inductive invariant of what checkpoints bind, in a vault that nothing disturbs:
\* the head seals what is recorded, or a mark tells the next seal that it does not.
THEOREM Bindings ==
  ASSUME Undisturbed
  PROVE  Spec => []SealInv
<1>1. Init => Recorded /\ SealsHold /\ CrossChainVerifies
  <2> SUFFICES ASSUME Init PROVE Recorded /\ SealsHold /\ CrossChainVerifies
    OBVIOUS
  <2>1. DOMAIN <<>> = {}
    BY EmptySeq
  <2>2. \A d \in Doc : EntriesOf(d) = {}
    BY <2>1 DEF Init, NoHistories, EntriesOf
  <2>3. \A d \in Doc : live[d] # None => live[d] = [version |-> 0, published |-> FALSE]
    BY DEF Init
  <2>4. QED
    BY <2>1, <2>2, <2>3 DEF Init, Recorded, SealsHold, CrossChainVerifies
<1>2. Unraced /\ "edit" \notin Faults
  BY DEF Undisturbed
<1>3. Spec => []ChainInv
  BY <1>2, Chained
<1>4. Spec => []WriterInv
  BY <1>2, Written
<1>5. Spec => []RebuildsWhatIs
  <2>1. Init => RebuildsWhatIs
    BY DEF Init, RebuildsWhatIs
  <2>2. ChainInv /\ RebuildsWhatIs /\ [Next]_vars => RebuildsWhatIs'
    BY <1>2, RebuildStaysTrue
  <2>3. QED
    BY <1>3, <2>1, <2>2, PTL DEF Spec
<1>6. /\ ChainInv /\ ChainInv' /\ Dated /\ Dated' /\ WriterInv /\ WriterInv' /\ RebuildsWhatIs
      /\ Recorded /\ SealsHold /\ CrossChainVerifies /\ [Next]_vars
      => Recorded' /\ SealsHold' /\ CrossChainVerifies'
  BY SealStep
<1>7. WriterInv /\ Recorded /\ SealsHold /\ CrossChainVerifies => SealInv
  BY DEF SealInv
<1>8. QED
  BY <1>1, <1>3, <1>4, <1>5, <1>6, <1>7, Dating, PTL DEF Spec

\* verify finds the hashes of every checkpoint in the histories it binds, through
\* deletions and recreations that use a version number again.
THEOREM Crossed ==
  ASSUME Undisturbed
  PROVE  Spec => []CrossChainVerifies
<1>1. SealInv => CrossChainVerifies
  BY DEF SealInv
<1>2. Spec => []SealInv
  BY Bindings
<1>3. QED
  BY <1>1, <1>2, PTL

\* A checkpoint under construction binds a recorded version of each document to the
\* hash it was recorded with.
THEOREM SealsWhatIs ==
  ASSUME Undisturbed
  PROVE  Spec => []SealsRecorded
<1>1. SealInv => SealsRecorded
  BY DEF SealInv, SealsHold, SealsRecorded, EntriesOf
<1>2. Spec => []SealInv
  BY Bindings
<1>3. QED
  BY <1>1, <1>2, PTL

--------------------------------------------------------------------------------
(* What a checkpoint binds, where no document is deleted.                  *)

\* Where nobody deletes a document or edits a file's number by hand.
Kept == "delete" \notin Ops /\ "edit" \notin Faults

\* What is bound stays bound while the lasting bindings last.
LEMMA BindsMore ==
  ASSUME NEW c, NEW L, NEW M, L \subseteq M, Binds(c, L)
  PROVE  Binds(c, M)
BY DEF Binds

\* Entries of a history, seen in the model's terms.
LEMMA EntriesIn ==
  ASSUME Typed, NEW d \in Doc
  PROVE  /\ EntriesOf(d) \subseteq Entry
         /\ \A i \in DOMAIN history[d] : history[d][i] \in EntriesOf(d)
BY DEF Typed, TypeOK, Histories, EntriesOf

\* No step takes a lasting binding away.
LEMMA LastingLasts ==
  ASSUME Kept, Typed, Typed', Dated, WriterInv, BindingsLast, [Next]_vars
  PROVE  /\ \A d \in Doc : EntriesOf(d) \subseteq EntriesOf(d)'
         /\ Lasting \subseteq Lasting'
<1>0. /\ live \in [Doc -> File \union {None}] /\ live' \in [Doc -> File \union {None}]
      /\ DOMAIN pc = Proc /\ DOMAIN job = Proc /\ history \in Histories
      /\ \A d \in Doc : live[d] # None => live[d].version \in Nat
  <2>1. /\ live \in [Doc -> File \union {None}] /\ live' \in [Doc -> File \union {None}]
        /\ DOMAIN pc = Proc /\ DOMAIN job = Proc /\ history \in Histories
    BY DEF Typed, TypeOK
  <2>2. \A d \in Doc : live[d] # None => live[d].version \in 0 .. MaxVersion
    BY <2>1 DEF File
  <2>3. QED
    BY <2>1, <2>2, CheckpointAssumption
<1> DEFINE Keeps == \A d \in Doc, v \in Version : Passed(d, v) => Passed(d, v)'
           Grows == \A d \in Doc : EntriesOf(d) \subseteq EntriesOf(d)'
<1>1. ASSUME Keeps, Grows
      PROVE  Lasting \subseteq Lasting'
  <2>1. SUFFICES ASSUME NEW b \in [doc: Doc, entry: Entry], b \in Lasting
                 PROVE  b \in Lasting'
    BY DEF Lasting
  <2>2. b.doc \in Doc /\ b.entry.version \in Version
    BY DEF Entry
  <2>3. CASE b.entry.hash = 0
    BY <2>3 DEF Lasting
  <2>4. CASE b.entry \in EntriesOf(b.doc)
    <3>1. b.entry \in EntriesOf(b.doc)'
      BY <1>1, <2>2, <2>4
    <3>2. QED
      BY <3>1 DEF Lasting
  <2>5. CASE Passed(b.doc, b.entry.version)
    <3>1. Passed(b.doc, b.entry.version)'
      BY <1>1, <2>2, <2>5
    <3>2. QED
      BY <3>1 DEF Lasting
  <2>6. QED
    BY <2>1, <2>3, <2>4, <2>5 DEF Lasting
<1>2. ASSUME UNCHANGED <<live, history>>,
             \A q \in Proc : pc'[q] = "entry" => pc[q] = "entry" /\ job'[q] = job[q]
      PROVE  Keeps /\ Grows
  <2>1. \A d \in Doc : EntriesOf(d)' = EntriesOf(d)
    BY <1>2 DEF EntriesOf
  <2>2. QED
    BY <1>2, <2>1 DEF Passed
<1>3. ASSUME NEW p \in Proc, NEW c \in Doc, NEW n \in Version, TakeJob(p, c, n)
      PROVE  /\ live[c] # None /\ live[c].version < n /\ DOMAIN job' = Proc
             /\ job'[p].doc = c /\ job'[p].version = n /\ \A q \in Proc : q # p => job'[q] = job[q]
  BY <1>0, <1>3 DEF TakeJob, Outranks
<1>4. ASSUME NEW p \in Proc, NEW c \in Doc, NEW n \in Version, PublishLive(p, c, n)
      PROVE  Keeps /\ Grows
  <2>1. /\ history' = history /\ live' = [live EXCEPT ![c] = [version |-> n, published |-> TRUE]]
        /\ pc' = [pc EXCEPT ![p] = "entry"] /\ TakeJob(p, c, n)
    BY <1>4 DEF PublishLive, Goto
  <2>2. \A d \in Doc : EntriesOf(d)' = EntriesOf(d)
    BY <2>1 DEF EntriesOf
  <2>3. ASSUME NEW d \in Doc, NEW v \in Version, Passed(d, v)
        PROVE  Passed(d, v)'
    <3>1. live[d] # None /\ v <= live[d].version /\ v \in Nat /\ n \in Nat
      BY <2>3 DEF Passed, Version
    <3>2. live'[d] # None /\ v <= live'[d].version /\ (d = c => v < n)
      <4>1. CASE d = c
        <5>1. [version |-> n, published |-> TRUE] # None
          <6>1. [version |-> n, published |-> TRUE] \in File
            BY FileTypes DEF Version
          <6>2. QED
            BY <6>1, NoneAssumption
        <5>2. live'[d] = [version |-> n, published |-> TRUE]
          BY <1>0, <2>1, <4>1
        <5>3. live[c].version < n
          BY <1>3, <2>1
        <5>4. QED
          BY <1>0, <3>1, <4>1, <5>1, <5>2, <5>3
      <4>2. CASE d # c
        BY <1>0, <2>1, <3>1, <4>2
      <4>3. QED
        BY <4>1, <4>2
    <3>3. \A e \in EntriesOf(d)' : e.version # v
      BY <2>2, <2>3 DEF Passed
    <3>4. ASSUME NEW q \in Proc, pc'[q] = "entry", job'[q].doc = d
          PROVE  v < job'[q].version
      <4>1. CASE q = p
        BY <1>3, <2>1, <3>2, <3>4, <4>1
      <4>2. CASE q # p
        BY <1>0, <1>3, <2>1, <2>3, <3>4, <4>2 DEF Passed
      <4>3. QED
        BY <4>1, <4>2
    <3>5. QED
      BY <3>2, <3>3, <3>4 DEF Passed
  <2>4. QED
    BY <2>2, <2>3
<1>5. ASSUME NEW p \in Proc, NEW c \in Doc, NEW e \in Entry,
             history' = [history EXCEPT ![c] = Append(@, e)], live' = live,
             \A v \in Version : Passed(c, v) => v < e.version,
             \A q \in Proc : pc'[q] = "entry" => pc[q] = "entry" /\ job'[q] = job[q]
      PROVE  Keeps /\ Grows
  <2>1. /\ EntriesOf(c)' = EntriesOf(c) \union {e}
        /\ \A d \in Doc : d # c => EntriesOf(d)' = EntriesOf(d)
    BY <1>0, <1>5, EntriesAppended
  <2>2. ASSUME NEW d \in Doc, NEW v \in Version, Passed(d, v)
        PROVE  Passed(d, v)'
    <3>1. d = c => e.version # v
      BY <1>5, <2>2 DEF Version, Entry
    <3>2. \A f \in EntriesOf(d)' : f.version # v
      BY <2>1, <2>2, <3>1 DEF Passed
    <3>3. QED
      BY <1>5, <2>2, <3>2 DEF Passed
  <2>3. QED
    BY <2>1, <2>2
<1>6. ASSUME NEW p \in Proc, NEW c \in Doc, NEW n \in Version, CommitEntry(p, c, n)
      PROVE  Keeps /\ Grows
  <2>1. /\ TakeJob(p, c, n) /\ pc' = [pc EXCEPT ![p] = "live"] /\ live' = live
        /\ history' = [history EXCEPT ![c] = Append(@, [version |-> n, hash |-> clock + 1])]
    BY <1>6 DEF CommitEntry, Goto
  <2>2. [version |-> n, hash |-> clock + 1] \in Entry
    BY <2>1, JobTypes DEF Typed
  <2>3. \A v \in Version : Passed(c, v) => v < n
    <3>1. live[c] # None /\ live[c].version < n
      BY <1>3, <2>1
    <3>2. QED
      BY <1>0, <3>1 DEF Passed, Version
  <2>4. \A q \in Proc : pc'[q] = "entry" => pc[q] = "entry" /\ job'[q] = job[q]
    BY <1>0, <1>3, <2>1
  <2>5. QED
    BY <1>5, <2>1, <2>2, <2>3, <2>4
<1>7. ASSUME NEW p \in Proc, PublishEntry(p) \/ PublishUnsealed(p)
      PROVE  Keeps /\ Grows
  <2>1. pc[p] = "entry" /\ history' = [history EXCEPT ![job[p].doc] = Append(@, EntryOf(p))]
        /\ live' = live
    BY <1>7 DEF PublishEntry, PublishUnsealed, RecordEntry
  <2>2. job[p].doc \in Doc /\ EntryOf(p) \in Entry
    BY <2>1 DEF Dated
  <2>3. \A v \in Version : Passed(job[p].doc, v) => v < EntryOf(p).version
    BY <2>1 DEF Passed, EntryOf
  <2>4. \A q \in Proc : pc'[q] = "entry" => pc[q] = "entry" /\ job'[q] = job[q]
    BY <1>0, <1>7 DEF PublishEntry, PublishUnsealed, Release, Goto, locals
  <2>5. QED
    BY <1>5, <2>1, <2>2, <2>3, <2>4
<1>8. ASSUME NEW p \in Proc, CommitLive(p)
      PROVE  Keeps /\ Grows
  <2> DEFINE c == job[p].doc
             n == job[p].version
  <2>1. /\ pc[p] = "live" /\ history' = history
        /\ live' = [live EXCEPT ![c] = [version |-> n, published |-> TRUE]]
        /\ pc' = [pc EXCEPT ![p] = "idle"] /\ job' = [job EXCEPT ![p] = NoJob]
    BY <1>8 DEF CommitLive, Release, Goto
  <2>2. c \in Doc /\ n \in 0 .. MaxVersion /\ n \in Nat /\ live[c] # None /\ live[c].version < n
    BY <2>1, CheckpointAssumption DEF Dated, BindingsLast, Typed, TypeOK
  <2>3. \A d \in Doc : EntriesOf(d)' = EntriesOf(d)
    BY <2>1 DEF EntriesOf
  <2>4. [version |-> n, published |-> TRUE] # None
    BY <2>2, FileTypes, NoneAssumption
  <2>5. \A q \in Proc : pc'[q] = "entry" => pc[q] = "entry" /\ job'[q] = job[q]
    BY <1>0, <2>1
  <2> HIDE DEF c, n
  <2>6. ASSUME NEW d \in Doc, NEW v \in Version, Passed(d, v)
        PROVE  Passed(d, v)'
    <3>1. live[d] # None /\ v <= live[d].version /\ v \in Nat
      BY <2>6 DEF Passed, Version
    <3>2. live'[d] # None /\ v <= live'[d].version
      <4>1. CASE d = c
        <5>1. live'[d] = [version |-> n, published |-> TRUE]
          BY <1>0, <2>1, <4>1
        <5>2. QED
          BY <1>0, <2>2, <2>4, <3>1, <4>1, <5>1
      <4>2. CASE d # c
        BY <1>0, <2>1, <3>1, <4>2
      <4>3. QED
        BY <4>1, <4>2
    <3>3. QED
      BY <2>3, <2>5, <2>6, <3>2 DEF Passed
  <2>7. QED
    BY <2>3, <2>6
<1>9. ASSUME NEW c \in Doc, Create(c)
      PROVE  Keeps /\ Grows
  <2>1. /\ live[c] = None /\ live' = [live EXCEPT ![c] = [version |-> 0, published |-> FALSE]]
        /\ UNCHANGED <<history, pc, job>>
    BY <1>9 DEF Create, locals
  <2>2. \A d \in Doc : EntriesOf(d)' = EntriesOf(d)
    BY <2>1 DEF EntriesOf
  <2>3. ASSUME NEW d \in Doc, NEW v \in Version, Passed(d, v)
        PROVE  Passed(d, v)'
    <3>1. live'[d] = live[d]
      BY <1>0, <2>1, <2>3 DEF Passed
    <3>2. QED
      BY <2>1, <2>2, <2>3, <3>1 DEF Passed
  <2>4. QED
    BY <2>2, <2>3
<1>10. ASSUME NEW p \in Proc, Seal(p) \/ Rebuild(p) \/ Crash(p) \/ Exit(p) \/ TearChain(p)
       PROVE  Keeps /\ Grows
  <2>1. UNCHANGED <<live, history>>
    BY <1>10 DEF Seal, SealWrites, SealRead, SealAppend, Point, Rebuild, RebuildRead, RebuildWrite,
                 RebuildPoint, RebuildCheck, Crash, Exit, TearChain, documents
  <2>2. /\ \E s \in {"seal", "append", "point", "idle", "rebuild", "repoint", "recheck"} :
             pc' = [pc EXCEPT ![p] = s]
        /\ job' = job \/ job' = [job EXCEPT ![p] = NoJob]
    BY <1>10 DEF Seal, SealWrites, SealRead, SealAppend, Point, Rebuild, RebuildRead, RebuildWrite,
                 RebuildPoint, RebuildCheck, Crash, Exit, TearChain, Die, Release, Goto, locals
  <2>3. \A q \in Proc : pc'[q] = "entry" => pc[q] = "entry" /\ job'[q] = job[q]
    BY <1>0, <2>2
  <2>4. QED
    BY <1>2, <2>1, <2>3
<1>11. ASSUME (\E d \in Doc : Garble(d)) \/ UNCHANGED vars
       PROVE  Keeps /\ Grows
  <2>1. UNCHANGED <<live, history, pc, job>>
    BY <1>11 DEF Garble, locals, vars
  <2>2. QED
    BY <1>2, <2>1
<1>12. /\ \A p \in Proc, d \in Doc : ~DeleteFile(p, d)
       /\ \A p \in Proc : ~DeleteHistory(p)
       /\ \A d \in Doc, version \in 0 .. MaxVersion : ~HandEdit(d, version)
  BY DEF Kept, DeleteFile, DeleteHistory, HandEdit, BindingsLast
<1> HIDE DEF Keeps, Grows
<1>13. Keeps /\ Grows
  BY <1>4, <1>6, <1>7, <1>8, <1>9, <1>10, <1>11, <1>12 DEF Next, Write
<1>14. QED
  BY <1>1, <1>13 DEF Grows

\* What a seal puts together lasts: each binding is the head's, or recorded, or of a number
\* that a writer died before recording and that has been passed.
LEMMA SealLasts ==
  ASSUME Typed, Dated, WriterInv, BindingsLast, NEW p \in Proc, pc[p] = "seal"
  PROVE  \A d \in Doc : SnapshotOf(p)[d] # None => [doc |-> d, entry |-> SnapshotOf(p)[d]] \in Lasting
<1>0. TypeOK
  BY DEF Typed
<1>1. ASSUME NEW d \in Doc, HeadSeals(d)
      PROVE  [doc |-> d, entry |-> ChainHead.sealed[d]] \in Lasting
  <2>1. ChainHead # None /\ ChainHead.sealed[d] # None
    BY <1>1 DEF HeadSeals
  <2>2. chain # <<>> => Len(chain) \in DOMAIN chain
    BY <1>0, EmptySeq, LenProperties DEF TypeOK
  <2>3. Binds(ChainHead, Lasting)
    BY <2>1, <2>2 DEF ChainHead, BindingsLast
  <2>4. QED
    BY <2>1, <2>3 DEF Binds
<1>2. ASSUME NEW d \in Doc, IsPublished(d)
      PROVE  [doc |-> d, entry |-> [version |-> VersionToSeal(d), hash |-> HashToSeal(p, d)]] \in Lasting
  <2> DEFINE v == VersionToSeal(d)
             e == [version |-> v, hash |-> HashToSeal(p, d)]
  <2>1. live[d] # None /\ v = live[d].version /\ v \in Version
    <3>1. live[d] # None /\ live[d].published /\ live[d] \in File
      BY <1>0, <1>2 DEF IsPublished, TypeOK
    <3>2. live[d].version # 0
      BY <3>1 DEF BindingsLast
    <3>3. QED
      BY <3>1, <3>2, CheckpointAssumption DEF VersionToSeal, File, Version
  <2>2. e \in Entry
    BY <1>0, <2>1, SealedHash DEF Entry
  <2>3. history[d] \in Seq(Entry) /\ EntriesOf(d) \subseteq Entry
        /\ \A i \in DOMAIN history[d] : history[d][i] \in EntriesOf(d)
    BY <1>0, EntriesIn DEF TypeOK, Histories
  <2>4. CASE Carries(p, d)
    <3>1. HeadSeals(d) /\ ChainHead.sealed[d].version = v /\ HashToSeal(p, d) = ChainHead.sealed[d].hash
      BY <2>4 DEF Carries, HashToSeal
    <3>2. ChainHead.sealed[d] \in Entry
      BY <1>0, <3>1, HeadTypes DEF HeadSeals, Checkpoint, Snapshot
    <3>3. e = ChainHead.sealed[d]
      BY <3>1, <3>2 DEF Entry
    <3>4. QED
      BY <1>1, <3>1, <3>3
  <2>5. CASE ~Carries(p, d) /\ d = job[p].doc /\ job[p].version = v
    <3>1. HashToSeal(p, d) = job[p].hash
      BY <2>5 DEF HashToSeal
    <3>2. e = EntryOf(p)
      BY <2>5, <3>1 DEF EntryOf
    <3>3. e \in EntriesOf(d)
      BY <2>5, <3>2 DEF BindingsLast
    <3>4. QED
      BY <2>2, <3>3 DEF Lasting
  <2>6. CASE ~Carries(p, d) /\ ~(d = job[p].doc /\ job[p].version = v)
    <3> DEFINE same == {i \in DOMAIN history[d] : history[d][i].version = v}
    <3>1. HashToSeal(p, d) = RecordedHash(d)
      BY <2>6 DEF HashToSeal
    <3>2. RecordedHash(d) = CASE history[d] = <<>> -> 0
                              [] same # {} -> history[d][CHOOSE i \in same : TRUE].hash
                              [] OTHER -> history[d][Len(history[d])].hash
      BY DEF RecordedHash
    <3> HIDE DEF same
    <3>3. CASE history[d] = <<>>
      <4>1. same = {}
        BY <3>3, EmptySeq DEF same
      <4>2. e.hash = 0
        BY <3>1, <3>2, <3>3, <4>1
      <4>3. QED
        BY <2>2, <4>2 DEF Lasting
    <3>4. CASE history[d] # <<>> /\ same # {}
      <4>1. PICK i \in same : RecordedHash(d) = history[d][i].hash
        BY <3>2, <3>4
      <4>2. history[d][i] \in EntriesOf(d) /\ history[d][i] \in Entry /\ history[d][i].version = v
        BY <2>3, <4>1 DEF same
      <4>3. e = history[d][i]
        BY <3>1, <4>1, <4>2 DEF Entry
      <4>4. QED
        BY <2>2, <4>2, <4>3 DEF Lasting
    <3>5. CASE same = {}
      <4>1. \A f \in EntriesOf(d) : f.version # v
        BY <3>5 DEF same, EntriesOf
      <4>2. \A q \in Proc : pc[q] # "entry"
        BY CheckpointAssumption DEF WriterInv, Inside
      <4>3. v <= live[d].version
        BY <2>1 DEF Version
      <4>4. Passed(d, v)
        BY <2>1, <4>1, <4>2, <4>3 DEF Passed
      <4>5. QED
        BY <2>2, <4>4 DEF Lasting
    <3>6. QED
      BY <3>3, <3>4, <3>5
  <2>7. QED
    BY <2>4, <2>5, <2>6
<1>3. ASSUME NEW d \in Doc, SnapshotOf(p)[d] # None
      PROVE  [doc |-> d, entry |-> SnapshotOf(p)[d]] \in Lasting
  <2>1. SnapshotOf(p)[d] =
          CASE IsPublished(d) -> [version |-> VersionToSeal(d), hash |-> HashToSeal(p, d)]
            [] d \in unreadable /\ HeadSeals(d) -> ChainHead.sealed[d]
            [] OTHER -> None
    BY DEF SnapshotOf
  <2>2. CASE IsPublished(d)
    <3>1. SnapshotOf(p)[d] = [version |-> VersionToSeal(d), hash |-> HashToSeal(p, d)]
      <4>1. d \notin unreadable
        BY <2>2 DEF IsPublished
      <4>2. QED
        BY <2>1, <2>2, <4>1
    <3>2. QED
      BY <1>2, <2>2, <3>1
  <2>3. CASE ~IsPublished(d)
    <3>1. HeadSeals(d) /\ SnapshotOf(p)[d] = ChainHead.sealed[d]
      BY <1>3, <2>1, <2>3
    <3>2. QED
      BY <1>1, <3>1
  <2>4. QED
    BY <2>2, <2>3
<1>4. QED
  BY <1>3

\* What a rebuild derives from histories that are recorded still.
LEMMA RebuildLasts ==
  ASSUME Typed, Dated, BindingsLast, NEW p \in Proc
  PROVE  LET D == DeriveCheckpointHistory(before[p])
         IN  /\ D \in Seq(Checkpoint)
             /\ \A i \in DOMAIN D : Binds(D[i], Lasting)
<1> DEFINE h == before[p]
           D == DeriveCheckpointHistory(h)
<1>1. h \in Histories /\ InOrder(h)
  BY DEF Dated
<1>2. /\ D \in Seq(Checkpoint)
      /\ \A i \in DOMAIN D, d \in Doc :
           D[i].sealed[d] = None \/ \E j \in DOMAIN h[d] : D[i].sealed[d] = h[d][j]
  BY <1>1, RebuiltChain
<1>3. \A d \in Doc : \A j \in DOMAIN h[d] : h[d][j] \in EntriesOf(d)
  BY DEF BindingsLast
<1> HIDE DEF D, h
<1>4. ASSUME NEW i \in DOMAIN D, NEW d \in Doc, D[i].sealed[d] # None
      PROVE  [doc |-> d, entry |-> D[i].sealed[d]] \in Lasting
  <2>1. D[i].sealed[d] \in EntriesOf(d)
    BY <1>2, <1>3, <1>4
  <2>2. D[i].sealed[d] \in Entry
    BY <2>1, EntriesIn
  <2>3. QED
    BY <2>1, <2>2 DEF Lasting
<1>5. \A i \in DOMAIN D : Binds(D[i], Lasting)
  BY <1>4 DEF Binds
<1>6. QED
  BY <1>2, <1>5 DEF D, h

\* What comes into the chain, the pointer or a seal's hands lasts already.
LEMMA NewBindings ==
  ASSUME Typed, Dated, WriterInv, BindingsLast, [Next]_vars
  PROVE  /\ \A i \in DOMAIN chain' : Binds(chain'[i], Lasting)
         /\ pointer' # None => Binds(pointer'.head, Lasting)
         /\ \A p \in Proc : pc'[p] \in {"append", "point"} => Binds(cp'[p], Lasting)
<1>0. TypeOK /\ DOMAIN pc = Proc /\ DOMAIN cp = Proc /\ chain \in Seq(Checkpoint)
  BY DEF Typed, TypeOK
<1>1. \/ UNCHANGED chain
      \/ chain' = <<>>
      \/ \E p \in Proc : pc[p] = "append" /\ chain' \in {<<cp[p]>>, Append(chain, cp[p])}
      \/ \E p \in Proc : chain' = DeriveCheckpointHistory(before[p])
  BY DEF Next, Write, PublishLive, CommitEntry, DeleteFile, PublishEntry, PublishUnsealed, CommitLive,
         DeleteHistory, Seal, SealWrites, SealRead, SealAppend, Point, Rebuild, RebuildRead,
         RebuildWrite, RebuildPoint, RebuildCheck, Crash, Exit, TearChain, Create, Garble, HandEdit,
         chainFiles, vars
<1>2. \A i \in DOMAIN chain' : Binds(chain'[i], Lasting)
  <2>1. CASE UNCHANGED chain
    BY <2>1 DEF BindingsLast
  <2>2. CASE chain' = <<>>
    BY <2>2, EmptySeq
  <2>3. ASSUME NEW p \in Proc, pc[p] = "append", chain' \in {<<cp[p]>>, Append(chain, cp[p])}
        PROVE  \A i \in DOMAIN chain' : Binds(chain'[i], Lasting)
    <3>1. cp[p] \in Checkpoint /\ Binds(cp[p], Lasting)
      BY <1>0, <2>3 DEF Typed, TypeOK, BindingsLast
    <3>2. ASSUME NEW i \in DOMAIN chain'
          PROVE  chain'[i] = cp[p] \/ (i \in DOMAIN chain /\ chain'[i] = chain[i])
      <4>1. CASE chain' = <<cp[p]>>
        <5>1. DOMAIN chain' = 1 .. 1 /\ chain'[1] = cp[p]
          BY <4>1
        <5>2. i = 1
          BY <5>1
        <5>3. QED
          BY <5>1, <5>2
      <4>2. CASE chain' = Append(chain, cp[p])
        <5>1. DOMAIN chain' = 1 .. Len(chain) + 1 /\ Len(chain) \in Nat /\ DOMAIN chain = 1 .. Len(chain)
              /\ chain'[Len(chain) + 1] = cp[p] /\ \A k \in 1 .. Len(chain) : chain'[k] = chain[k]
          BY <1>0, <3>1, <4>2, AppendProperties, LenProperties
        <5>2. i \in 1 .. Len(chain) \/ i = Len(chain) + 1
          BY <5>1
        <5>3. QED
          BY <5>1, <5>2
      <4>3. QED
        BY <2>3, <4>1, <4>2
    <3>3. QED
      BY <3>1, <3>2 DEF BindingsLast
  <2>4. ASSUME NEW p \in Proc, chain' = DeriveCheckpointHistory(before[p])
        PROVE  \A i \in DOMAIN chain' : Binds(chain'[i], Lasting)
    BY <2>4, RebuildLasts
  <2>5. QED
    BY <1>1, <2>1, <2>2, <2>3, <2>4
<1>3. UNCHANGED pointer \/ \E p \in Proc : Point(p) \/ RebuildPoint(p)
  BY DEF Next, Write, PublishLive, CommitEntry, DeleteFile, PublishEntry, PublishUnsealed, CommitLive,
         DeleteHistory, Seal, SealWrites, SealRead, SealAppend, Rebuild, RebuildRead, RebuildWrite,
         RebuildCheck, Crash, Exit, TearChain, Create, Garble, HandEdit, chainFiles, vars
<1>4. ASSUME pointer' # None
      PROVE  Binds(pointer'.head, Lasting)
  <2>1. ASSUME NEW p \in Proc, Point(p)
        PROVE  Binds(pointer'.head, Lasting)
    <3>1. pc[p] = "point" /\ pointer'.head = cp[p]
      BY <2>1 DEF Point
    <3>2. QED
      BY <3>1 DEF BindingsLast
  <2>2. ASSUME NEW p \in Proc, RebuildPoint(p)
        PROVE  Binds(pointer'.head, Lasting)
    <3> DEFINE D == DeriveCheckpointHistory(before[p])
    <3>1. D \in Seq(Checkpoint) /\ \A i \in DOMAIN D : Binds(D[i], Lasting)
      BY RebuildLasts
    <3>2. pointer' = IF D = <<>> THEN None ELSE [of |-> chain, head |-> D[Len(D)]]
      BY <2>2 DEF RebuildPoint
    <3> HIDE DEF D
    <3>3. D # <<>> /\ pointer'.head = D[Len(D)]
      BY <1>4, <3>2
    <3>4. Len(D) \in DOMAIN D
      BY <3>1, <3>3, EmptySeq, LenProperties
    <3>5. QED
      BY <3>1, <3>3, <3>4
  <2>3. CASE UNCHANGED pointer
    BY <1>4, <2>3 DEF BindingsLast
  <2>4. QED
    BY <1>3, <2>1, <2>2, <2>3
<1>5. ASSUME NEW p \in Proc, pc'[p] \in {"append", "point"}
      PROVE  Binds(cp'[p], Lasting)
  <2>1. CASE SealRead(p)
    <3>1. pc[p] = "seal" /\ cp'[p].sealed = SnapshotOf(p)
      BY <1>0, <2>1, SealTypes DEF SealRead
    <3>2. QED
      BY <3>1, SealLasts DEF Binds
  <2>2. CASE pc[p] \in {"append", "point"} /\ cp'[p] = cp[p]
    BY <2>2 DEF BindingsLast
  <2>3. SealRead(p) \/ (pc[p] \in {"append", "point"} /\ cp'[p] = cp[p])
    <3>1. ASSUME NEW q \in Proc, Write(q) \/ Rebuild(q) \/ Crash(q) \/ Exit(q) \/ TearChain(q)
                                 \/ SealWrites(q) \/ Point(q)
          PROVE  pc[p] \in {"append", "point"} /\ cp'[p] = cp[p]
      <4>1. /\ \E s \in {"entry", "live", "rm", "seal", "idle", "rebuild", "repoint", "recheck"} :
                 pc' = [pc EXCEPT ![q] = s]
            /\ cp' = cp \/ cp' = [cp EXCEPT ![q] = None]
        BY <3>1 DEF Write, PublishLive, CommitEntry, DeleteFile, PublishEntry, PublishUnsealed,
                    CommitLive, DeleteHistory, Rebuild, RebuildRead, RebuildWrite, RebuildPoint,
                    RebuildCheck, Crash, Exit, TearChain, SealWrites, Point, Die, Release, Goto, locals
      <4>2. QED
        BY <1>0, <1>5, <4>1
    <3>2. ASSUME NEW q \in Proc, SealRead(q), q # p
          PROVE  pc[p] \in {"append", "point"} /\ cp'[p] = cp[p]
      BY <1>0, <1>5, <3>2 DEF SealRead, Goto
    <3>3. ASSUME NEW q \in Proc, SealAppend(q)
          PROVE  pc[p] \in {"append", "point"} /\ cp'[p] = cp[p]
      BY <1>0, <1>5, <3>3 DEF SealAppend, Goto, locals
    <3>4. CASE \/ \E d \in Doc : Create(d) \/ Garble(d)
               \/ \E d \in Doc, version \in 0 .. MaxVersion : HandEdit(d, version)
               \/ UNCHANGED vars
      <4>1. UNCHANGED <<pc, cp>>
        BY <3>4 DEF Create, Garble, HandEdit, locals, vars
      <4>2. QED
        BY <1>5, <4>1
    <3>5. QED
      BY <3>1, <3>2, <3>3, <3>4 DEF Next, Seal
  <2>4. QED
    BY <2>1, <2>2, <2>3
<1>6. QED
  BY <1>2, <1>4, <1>5

LEMMA BindingsStep ==
  ASSUME Kept, Typed, Typed', Dated, Dated', WriterInv, WriterInv', BindingsLast, [Next]_vars
  PROVE  BindingsLast'
<1>0. /\ DOMAIN pc = Proc /\ DOMAIN job = Proc /\ DOMAIN before = Proc /\ DOMAIN live = Doc
      /\ \A d \in Doc : EntriesOf(d) \subseteq EntriesOf(d)'
      /\ Lasting \subseteq Lasting'
  BY LastingLasts DEF Typed, TypeOK
<1>1. /\ \A i \in DOMAIN chain' : Binds(chain'[i], Lasting')
      /\ pointer' # None => Binds(pointer'.head, Lasting')
      /\ \A p \in Proc : pc'[p] \in {"append", "point"} => Binds(cp'[p], Lasting')
  BY <1>0, NewBindings, BindsMore
<1>2. ASSUME NEW d \in Doc, live'[d] # None, live'[d].published
      PROVE  live'[d].version # 0
  <2>1. \/ live'[d] = live[d]
        \/ live'[d].version \in Version
        \/ live'[d].published = FALSE
    <3>1. CASE UNCHANGED live
      BY <3>1
    <3>2. ASSUME NEW c \in Doc, NEW n \in Version, live' = [live EXCEPT ![c] = [version |-> n, published |-> TRUE]]
          PROVE  live'[d] = live[d] \/ live'[d].version \in Version
      BY <1>0, <3>2
    <3>3. ASSUME NEW c \in Doc, live' = [live EXCEPT ![c] = [version |-> 0, published |-> FALSE]]
          PROVE  live'[d] = live[d] \/ live'[d].published = FALSE
      BY <1>0, <3>3
    <3>4. ASSUME NEW p \in Proc, CommitLive(p)
          PROVE  /\ live' = [live EXCEPT ![job[p].doc] = [version |-> job[p].version, published |-> TRUE]]
                 /\ job[p].doc \in Doc /\ job[p].version \in Version
      BY <3>4 DEF CommitLive, WriterInv, Inside
    <3>5. /\ \A p \in Proc, c \in Doc : ~DeleteFile(p, c)
          /\ \A c \in Doc, version \in 0 .. MaxVersion : ~HandEdit(c, version)
      BY DEF Kept, DeleteFile, HandEdit
    <3>6. \/ UNCHANGED live
          \/ \E c \in Doc, n \in Version : live' = [live EXCEPT ![c] = [version |-> n, published |-> TRUE]]
          \/ \E c \in Doc : live' = [live EXCEPT ![c] = [version |-> 0, published |-> FALSE]]
          \/ \E p \in Proc : CommitLive(p)
      BY <3>5 DEF Next, Write, PublishLive, CommitEntry, PublishEntry, PublishUnsealed,
             DeleteHistory, Seal, SealWrites, SealRead, SealAppend, Point, Rebuild, RebuildRead,
             RebuildWrite, RebuildPoint, RebuildCheck, Crash, Exit, TearChain, Create, Garble,
             documents, vars
    <3>7. QED
      BY <3>1, <3>2, <3>3, <3>4, <3>6
  <2>2. QED
    BY <1>2, <2>1, CheckpointAssumption DEF BindingsLast, Version
<1>3. ASSUME NEW p \in Proc, NEW d \in Doc, NEW i \in DOMAIN before'[p][d]
      PROVE  before'[p][d][i] \in EntriesOf(d)'
  <2>1. before'[p] = before[p] \/ before'[p] = history \/ before'[p] = NoHistories
    <3>1. \/ UNCHANGED before
          \/ \E q \in Proc : \E g \in {history, NoHistories} : before' = [before EXCEPT ![q] = g]
      BY DEF Next, Write, PublishLive, CommitEntry, DeleteFile, PublishEntry, PublishUnsealed, CommitLive,
         DeleteHistory, Seal, SealWrites, SealRead, SealAppend, Point, Rebuild, RebuildRead,
         RebuildWrite, RebuildPoint, RebuildCheck, Crash, Exit, TearChain, Die, Create, Garble, HandEdit,
         locals, vars
    <3>2. QED
      BY <1>0, <3>1
  <2>2. CASE before'[p] = before[p]
    BY <1>0, <1>3, <2>2 DEF BindingsLast
  <2>3. CASE before'[p] = history
    BY <1>0, <1>3, <2>3, EntriesIn
  <2>4. CASE before'[p] = NoHistories
    BY <1>3, <2>4, EmptySeq DEF NoHistories
  <2>5. QED
    BY <2>1, <2>2, <2>3, <2>4
<1>4. ASSUME NEW p \in Proc
      PROVE  /\ pc'[p] # "rm"
             /\ pc'[p] = "live" => \A d \in Doc : job'[p].doc = d =>
                  live'[d] # None /\ live'[d].version < job'[p].version
             /\ pc'[p] = "seal" => \A d \in Doc : job'[p].doc = d =>
                  [version |-> job'[p].version, hash |-> job'[p].hash] \in EntriesOf(d)'
  <2> DEFINE Goal == /\ pc'[p] # "rm"
                     /\ pc'[p] = "live" => \A d \in Doc : job'[p].doc = d =>
                          live'[d] # None /\ live'[d].version < job'[p].version
                     /\ pc'[p] = "seal" => \A d \in Doc : job'[p].doc = d =>
                          [version |-> job'[p].version, hash |-> job'[p].hash] \in EntriesOf(d)'
  <2>1. ASSUME pc'[p] = pc[p], job'[p] = job[p], pc[p] = "live" => live' = live
        PROVE  Goal
    <3>1. pc[p] # "rm"
      BY DEF BindingsLast
    <3>2. ASSUME pc[p] = "live", NEW d \in Doc, job[p].doc = d
          PROVE  live[d] # None /\ live[d].version < job[p].version
      BY <3>2 DEF BindingsLast
    <3>3. ASSUME pc[p] = "seal", NEW d \in Doc, job[p].doc = d
          PROVE  [version |-> job[p].version, hash |-> job[p].hash] \in EntriesOf(d)'
      <4>1. EntryOf(p) \in EntriesOf(d)
        BY <3>3 DEF BindingsLast
      <4>2. QED
        BY <1>0, <4>1 DEF EntryOf
    <3>4. QED
      BY <2>1, <3>1, <3>2, <3>3
  <2>2. ASSUME pc'[p] \notin {"rm", "live", "seal"}
        PROVE  Goal
    BY <2>2
  <2>3. ASSUME NEW c \in Doc, NEW n \in Version, PublishLive(p, c, n) \/ CommitEntry(p, c, n)
        PROVE  Goal
    <3>1. CASE PublishLive(p, c, n)
      BY <1>0, <2>2, <3>1 DEF PublishLive, Goto
    <3>2. CASE CommitEntry(p, c, n)
      <4>1. pc'[p] = "live" /\ live' = live /\ TakeJob(p, c, n)
        BY <1>0, <3>2 DEF CommitEntry, Goto
      <4>2. live[c] # None /\ live[c].version < n /\ job'[p].doc = c /\ job'[p].version = n
        BY <1>0, <4>1 DEF TakeJob, Outranks
      <4>3. QED
        BY <4>1, <4>2
    <3>3. QED
      BY <2>3, <3>1, <3>2
  <2>4. ASSUME PublishEntry(p)
        PROVE  Goal
    <3>1. pc[p] = "entry" /\ pc'[p] = "seal" /\ job' = job
          /\ history' = [history EXCEPT ![job[p].doc] = Append(@, EntryOf(p))]
      BY <1>0, <2>4 DEF PublishEntry, RecordEntry, Goto, locals
    <3>2. PICK c \in Doc : c = job[p].doc
      BY <3>1 DEF Dated
    <3>3. PICK e \in Entry : e = EntryOf(p)
      BY <3>1 DEF Dated
    <3>4. history' = [history EXCEPT ![c] = Append(@, e)] /\ history \in Histories
      BY <3>1, <3>2, <3>3 DEF Dated
    <3>5. e \in EntriesOf(c)'
      <4>1. EntriesOf(c)' = EntriesOf(c) \union {e}
        BY <3>4, EntriesAppended
      <4>2. QED
        BY <4>1
    <3>6. e = [version |-> job'[p].version, hash |-> job'[p].hash] /\ job'[p].doc = c
      BY <3>1, <3>2, <3>3 DEF EntryOf
    <3>7. QED
      BY <3>1, <3>5, <3>6
  <2>5. ASSUME PublishUnsealed(p) \/ CommitLive(p) \/ DeleteHistory(p) \/ Rebuild(p) \/ Crash(p)
               \/ Exit(p) \/ TearChain(p) \/ SealRead(p) \/ SealAppend(p) \/ Point(p)
        PROVE  Goal
    <3>1. \E s \in {"idle", "rebuild", "repoint", "recheck", "append", "point"} :
            pc' = [pc EXCEPT ![p] = s]
      BY <2>5 DEF PublishUnsealed, CommitLive, DeleteHistory, Rebuild, RebuildRead, RebuildWrite,
                  RebuildPoint, RebuildCheck, Crash, Exit, TearChain, SealRead, SealAppend, Point,
                  Release, Die, Goto
    <3>2. QED
      BY <1>0, <2>2, <3>1
  <2>6. ASSUME SealWrites(p)
        PROVE  Goal
    <3>1. pc[p] = "idle" /\ pc'[p] = "seal" /\ job' = job
      BY <1>0, <2>6 DEF SealWrites, Acquire, Goto, locals
    <3>2. job[p].doc \notin Doc
      <4>1. job[p] = NoJob
        BY <3>1 DEF WriterInv, Inside
      <4>2. QED
        BY <4>1, CheckpointAssumption DEF NoJob
    <3>3. QED
      BY <3>1, <3>2
  <2>7. ASSUME NEW q \in Proc, q # p,
               Write(q) \/ Seal(q) \/ Rebuild(q) \/ Crash(q) \/ Exit(q) \/ TearChain(q)
        PROVE  Goal
    <3>1. pc'[p] = pc[p] /\ job'[p] = job[p]
      BY <1>0, <2>7 DEF Write, PublishLive, CommitEntry, DeleteFile, PublishEntry, PublishUnsealed,
         CommitLive, DeleteHistory, TakeJob, Seal, SealWrites, SealRead, SealAppend, Point, Rebuild,
         RebuildRead, RebuildWrite, RebuildPoint, RebuildCheck, Crash, Exit, TearChain, Die, Release,
         Goto, locals
    <3>2. ASSUME pc[p] = "live"
          PROVE  live' = live
      <4>1. lock = p /\ lock # None /\ pc[q] \notin Inside
        <5>1. lock = p
          BY <3>2 DEF WriterInv, Inside
        <5>2. QED
          BY <2>7, <5>1, OneWriter, CheckpointAssumption
      <4>2. ~Acquire(q) /\ pc[q] # "live"
        BY <4>1 DEF Acquire, Inside
      <4>3. QED
        BY <2>7, <4>2 DEF Write, PublishLive, CommitEntry, DeleteFile, PublishEntry, PublishUnsealed,
           CommitLive, DeleteHistory, TakeJob, Seal, SealWrites, SealRead, SealAppend, Point, Rebuild,
           RebuildRead, RebuildWrite, RebuildPoint, RebuildCheck, Crash, Exit, TearChain, documents
    <3>3. QED
      BY <2>1, <3>1, <3>2
  <2>8. ASSUME \/ \E d \in Doc : Create(d) \/ Garble(d)
               \/ \E d \in Doc, version \in 0 .. MaxVersion : HandEdit(d, version)
               \/ UNCHANGED vars
        PROVE  Goal
    <3>1. UNCHANGED <<pc, job>>
      BY <2>8 DEF Create, Garble, HandEdit, locals, vars
    <3>2. ASSUME pc[p] = "live"
          PROVE  live' = live
      <4>1. lock # None
        <5>1. lock = p
          BY <3>2 DEF WriterInv, Inside
        <5>2. QED
          BY <5>1, CheckpointAssumption
      <4>2. QED
        BY <2>8, <4>1 DEF Create, Garble, HandEdit, Kept, vars
    <3>3. QED
      BY <2>1, <3>1, <3>2
  <2>9. \A c \in Doc : ~DeleteFile(p, c)
    BY DEF Kept, DeleteFile
  <2> HIDE DEF Goal
  <2>10. Goal
    BY <2>3, <2>4, <2>5, <2>6, <2>7, <2>8, <2>9 DEF Next, Write, Seal
  <2>11. QED
    BY <2>10 DEF Goal
<1>5. \A p \in Proc :
        /\ pc'[p] = "live" => job'[p].doc \in Doc
        /\ \A d \in Doc : (job'[p].doc = d) =>
             EntryOf(p)' = [version |-> job'[p].version, hash |-> job'[p].hash]
  BY DEF WriterInv, EntryOf
<1>6. QED
  BY <1>1, <1>2, <1>3, <1>4, <1>5 DEF BindingsLast, EntryOf

\* Whoever dies wherever, whatever cannot be read and whichever rebuild races: what is
\* bound names what is recorded, or what never will be.
THEOREM Lasts ==
  ASSUME Kept
  PROVE  Spec => []BindingsLast
<1>1. ASSUME Init PROVE BindingsLast
  <2>1. DOMAIN <<>> = {}
    BY EmptySeq
  <2>2. \A d \in Doc : live[d] # None => live[d] = [version |-> 0, published |-> FALSE]
    BY <1>1 DEF Init
  <2>3. \A d \in Doc : DOMAIN NoHistories[d] = {}
    BY <2>1 DEF NoHistories
  <2>4. QED
    BY <1>1, <2>1, <2>2, <2>3 DEF Init, BindingsLast
<1>2. Kept /\ Typed /\ Typed' /\ Dated /\ Dated' /\ WriterInv /\ WriterInv' /\ BindingsLast /\ [Next]_vars
      => BindingsLast'
  BY BindingsStep
<1>3. Spec => []WriterInv
  BY Written DEF Kept
<1>4. QED
  BY <1>1, <1>2, <1>3, TypedAlways, Dating, Kept, PTL DEF Spec

\* verify finds the hashes of every checkpoint in the histories it binds, through crashes,
\* torn appends, files that cannot be read and rebuilds that race the writers, where no
\* document is deleted.
THEOREM CrossedThroughout ==
  ASSUME Kept
  PROVE  Spec => []CrossChainVerifies
<1>1. ASSUME Typed, Dated, BindingsLast, NEW i \in DOMAIN chain, NEW d \in Doc
      PROVE  ~Mismatch(chain[i], d)
  <2>1. SUFFICES ASSUME Mismatch(chain[i], d)
                 PROVE  FALSE
    OBVIOUS
  <2> DEFINE b == chain[i].sealed[d]
  <2>2. b # None /\ b.hash # 0
    BY <2>1 DEF Mismatch
  <2>3. PICK j \in DOMAIN history[d] : history[d][j].version = b.version /\ history[d][j].hash # b.hash
    BY <2>1 DEF Mismatch
  <2>4. [doc |-> d, entry |-> b] \in Lasting
    BY <1>1, <2>2 DEF BindingsLast, Binds
  <2>5. history[d][j] \in EntriesOf(d)
    BY <1>1, EntriesIn
  <2>6. CASE b \in EntriesOf(d)
    <3>1. PICK k \in DOMAIN history[d] : b = history[d][k]
      BY <2>6 DEF EntriesOf
    <3>2. /\ j \in Nat /\ k \in Nat /\ history[d][j] \in Entry /\ history[d][k] \in Entry
      BY <1>1, <3>1 DEF Dated, Histories
    <3>3. j < k \/ k < j
      BY <2>3, <3>1, <3>2
    <3>4. history[d][j].version # history[d][k].version
      BY <1>1, <3>2, <3>3 DEF Dated, InOrder, Entry, Version
    <3>5. QED
      BY <2>3, <3>1, <3>4
  <2>7. CASE Passed(d, b.version)
    BY <2>3, <2>5, <2>7 DEF Passed
  <2>8. QED
    BY <2>2, <2>4, <2>6, <2>7 DEF Lasting
<1>2. Typed /\ Dated /\ BindingsLast => CrossChainVerifies
  BY <1>1 DEF CrossChainVerifies
<1>3. QED
  BY <1>2, Lasts, TypedAlways, Dating, PTL
================================================================================
