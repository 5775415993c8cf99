--------------------------- MODULE VaultIndex_proofs ---------------------------
(***************************************************************************)
(* A manifest that passes for current describes the disk, and a checkpoint  *)
(* sealed from it seals the disk: for every set of folders, processes and   *)
(* stamps, with crashes, hand edits and an older engine in between.         *)
(***************************************************************************)
EXTENDS VaultIndex, SequenceTheorems, TLAPS

\* The empty list is one of folders.
LEMMA EmptyList == <<>> \in Seq(Folder)
  OBVIOUS

\* None is no process, stamp, folder, listing or manifest.
LEMMA NoneIsNone ==
  /\ None \notin Proc /\ None \notin Gen /\ None \notin Folder
  /\ None \notin Listing /\ None \notin Manifest
  BY NoneAssumption

\* Every step keeps the types.
LEMMA TypeStep ==
  ASSUME TypeOK, IndexTyped, [Next]_vars
  PROVE  TypeOK'
<1> USE BoundAssumption
<1>1. ASSUME NEW p \in Proc, NEW f \in Folder, Begin(p, f) PROVE TypeOK'
  BY EmptyList, <1>1 DEF Begin, vault, local, Goto, Leave, Meets, Mark, TypeOK, Steps, Listing, Edition, Manifest, Refreshed, Fresh
<1>2. ASSUME NEW p \in Proc, WriteFile(p) PROVE TypeOK'
  <2>1. disk' \in Listing
    <3>1. at[p] \in Folder => disk[at[p]] + 1 \in Edition
      BY <1>2 DEF WriteFile, TypeOK, Listing, Edition
    <3>2. disk' = [disk EXCEPT ![at[p]] = disk[at[p]] + 1]
      BY <1>2 DEF WriteFile
    <3>3. QED
      BY <3>1, <3>2 DEF TypeOK, Listing
  <2>2. CASE op[p] = "draft"
    BY <1>2, <2>1, <2>2 DEF WriteFile, vault, local, Goto, Leave, Meets, Mark, TypeOK, Steps, Listing, Edition, Manifest
  <2>3. CASE op[p] = "publish"
    BY <1>2, <2>1, <2>3 DEF WriteFile, vault, local, Goto, Leave, Meets, Mark, TypeOK, Steps, Listing, Edition, Manifest
  <2>4. CASE op[p] \notin {"draft", "publish"}
    <3>1. Leave(p) /\ UNCHANGED <<edited, manifest, pending, context, head, raced>>
      BY <1>2, <2>4 DEF WriteFile
    <3>2. QED
      BY <3>1, <2>1, EmptyList DEF vault, local, Goto, Leave, Meets, Mark, TypeOK, Steps, Listing, Edition, Manifest
  <2>5. QED
    BY <2>2, <2>3, <2>4
<1>3. ASSUME NEW p \in Proc, Seal(p) PROVE TypeOK'
  BY EmptyList, <1>3 DEF Seal, vault, local, Goto, Leave, Meets, Mark, TypeOK, Steps, Listing, Edition, Manifest, Refreshed, Fresh
<1>4. ASSUME NEW p \in Proc, Look(p) PROVE TypeOK'
  <2>1. Refreshed(at[p]) \in Listing \/ manifest = None
    BY DEF Refreshed, TypeOK, Listing, Manifest
  <2>2. Len(pending) \in Nat
    BY DEF TypeOK
  <2>3. num' \in [Proc -> 0 .. MaxHead]
    BY <1>4 DEF Look, TypeOK
  <2>4. docs' \in [Proc -> Listing \cup {None}]
    <3>1. docs' = docs \/ (manifest # None /\ docs' = [docs EXCEPT ![p] = Refreshed(at[p])])
      BY <1>4 DEF Look, Current
    <3>2. QED
      BY <3>1, <2>1 DEF TypeOK
  <2>7. covered' \in [Proc -> Nat]
    BY <1>4, <2>2 DEF Look, TypeOK
  <2>5. pc' \in [Proc -> Steps]
    BY <1>4 DEF Look, Goto, TypeOK, Steps
  <2>6. QED
    BY <1>4, <2>3, <2>4, <2>5, <2>7 DEF Look, vault, TypeOK
<1>5. ASSUME NEW p \in Proc, Crawl(p) PROVE TypeOK'
  BY EmptyList, <1>5 DEF Crawl, vault, local, Goto, Leave, Meets, Mark, TypeOK, Steps, Listing, Edition, Manifest, Refreshed, Fresh
<1>6. ASSUME NEW p \in Proc, WriteManifest(p) PROVE TypeOK'
  <2>1. PICK g \in Gen : manifest' = [docs |-> docs[p], head |-> num[p], gen |-> g]
    BY <1>6 DEF WriteManifest, Fresh, TypeOK, IndexTyped
  <2>2. manifest' \in Manifest
    BY <1>6, <2>1 DEF WriteManifest, TypeOK, IndexTyped, Manifest
  <2>3. QED
    BY <1>6, <2>2, EmptyList DEF WriteManifest, vault, local, Goto, Leave, Meets, Mark, TypeOK, Steps, Listing, Edition, Manifest, StillEdited, Fresh
<1>7. ASSUME NEW p \in Proc, ReadPending(p) PROVE TypeOK'
  <2>1. SubSeq(pending, covered[p] + 1, Len(pending)) \in Seq(Folder)
    BY SubSeqProperties DEF TypeOK
  <2>2. rest' \in [Proc -> Seq(Folder)]
    BY <1>7, <2>1 DEF ReadPending, TypeOK
  <2>3. pc' \in [Proc -> Steps]
    <3>1. {"context", "keep"} \subseteq Steps /\ pc \in [Proc -> Steps]
      BY DEF TypeOK, Steps
    <3>2. pc' = [pc EXCEPT ![p] = "context"] \/ pc' = [pc EXCEPT ![p] = "keep"]
      BY <1>7 DEF ReadPending, Goto
    <3>3. QED
      BY <3>1, <3>2
  <2>4. QED
    BY <1>7, <2>2, <2>3 DEF ReadPending, vault, TypeOK
<1>8. ASSUME NEW p \in Proc, DropPending(p) PROVE TypeOK'
  BY EmptyList, <1>8 DEF DropPending, vault, local, Goto, Leave, Meets, Mark, TypeOK, Steps, Listing, Edition, Manifest, Refreshed, Fresh
<1>9. ASSUME NEW p \in Proc, WriteContext(p) PROVE TypeOK'
  BY EmptyList, <1>9 DEF WriteContext, vault, local, Goto, Leave, Meets, Mark, TypeOK, Steps, Listing, Edition, Manifest, Refreshed, Fresh
<1>10. ASSUME NEW p \in Proc, IndexCrawl(p) PROVE TypeOK'
  BY EmptyList, <1>10 DEF IndexCrawl, vault, local, Goto, Leave, Meets, Mark, TypeOK, Steps, Listing, Edition, Manifest, Refreshed, Fresh
<1>11. ASSUME NEW p \in Proc, IndexContext(p) PROVE TypeOK'
  BY EmptyList, <1>11 DEF IndexContext, vault, local, Goto, Leave, Meets, Mark, TypeOK, Steps, Listing, Edition, Manifest, Refreshed, Fresh
<1>12. ASSUME NEW p \in Proc, IndexManifest(p) PROVE TypeOK'
  <2>1. PICK g \in Gen : manifest' = [docs |-> docs[p], head |-> num[p], gen |-> g]
    BY <1>12 DEF IndexManifest, Fresh, TypeOK, IndexTyped
  <2>2. manifest' \in Manifest
    BY <1>12, <2>1 DEF IndexManifest, TypeOK, IndexTyped, Manifest
  <2>3. QED
    BY <1>12, <2>2, EmptyList DEF IndexManifest, vault, local, Goto, Leave, Meets, Mark, TypeOK, Steps, Listing, Edition, Manifest, StillEdited, Fresh
<1>13. ASSUME NEW p \in Proc, Rebuild(p) PROVE TypeOK'
  BY EmptyList, <1>13 DEF Rebuild, vault, local, Goto, Leave, Meets, Mark, TypeOK, Steps, Listing, Edition, Manifest, Refreshed, Fresh
<1>14. ASSUME NEW p \in Proc, Crash(p) PROVE TypeOK'
  BY EmptyList, <1>14 DEF Crash, vault, local, Goto, Leave, Meets, Mark, TypeOK, Steps, Listing, Edition, Manifest, Refreshed, Fresh
<1>15. ASSUME NEW f \in Folder, Edit(f) PROVE TypeOK'
  BY EmptyList, <1>15 DEF Edit, vault, local, Goto, Leave, Meets, Mark, TypeOK, Steps, Listing, Edition, Manifest, Refreshed, Fresh
<1>16. ASSUME NEW f \in Folder, Older(f) PROVE TypeOK'
  BY EmptyList, <1>16 DEF Older, vault, local, Goto, Leave, Meets, Mark, TypeOK, Steps, Listing, Edition, Manifest, Refreshed, Fresh
<1>17. CASE UNCHANGED vars
  BY EmptyList, <1>17 DEF vars, vault, local, Goto, Leave, Meets, Mark, TypeOK, Steps, Listing, Edition, Manifest, Refreshed, Fresh
<1>18. QED
  BY <1>1, <1>2, <1>3, <1>4, <1>5, <1>6, <1>7, <1>8, <1>9, <1>10, <1>11, <1>12, <1>13, <1>14, <1>15, <1>16, <1>17 DEF Next

\* An update has what it writes, and no number runs ahead of the chain.
LEMMA TypedStep ==
  ASSUME TypeOK, IndexTyped, [Next]_vars
  PROVE  IndexTyped'
<1> USE BoundAssumption
<1>1. ASSUME NEW p \in Proc, NEW f \in Folder, Begin(p, f) PROVE IndexTyped'
  BY NoneIsNone, <1>1 DEF Begin, vault, local, Goto, Leave, Meets, Mark, TypeOK, IndexTyped, Fresh, Steps
<1>2. ASSUME NEW p \in Proc, WriteFile(p) PROVE IndexTyped'
  BY NoneIsNone, <1>2 DEF WriteFile, vault, local, Goto, Leave, Meets, Mark, TypeOK, IndexTyped, Fresh, Steps
<1>3. ASSUME NEW p \in Proc, Seal(p) PROVE IndexTyped'
  <2>1. head \in Nat /\ (manifest # None => manifest.head \in Nat)
        /\ \A q \in Proc : num[q] \in Nat
    BY DEF TypeOK, Manifest
  <2>2. head' = head + 1 /\ manifest' = manifest /\ gen' = gen
        /\ \A q \in Proc : /\ num'[q] \in {num[q], head + 1}
                           /\ pc'[q] = "look" \/ (pc'[q] = pc[q] /\ docs'[q] = docs[q])
    BY <1>3 DEF Seal, Goto, TypeOK
  <2>3. manifest' # None => manifest'.head <= head'
    BY <2>1, <2>2 DEF IndexTyped
  <2>4. ASSUME NEW q \in Proc
        PROVE  num'[q] <= head'
    <3>1. num[q] <= head /\ num[q] \in Nat
      BY <2>1 DEF IndexTyped
    <3>2. num'[q] = num[q] \/ num'[q] = head + 1
      BY <2>2
    <3>3. QED
      BY <2>1, <2>2, <3>1, <3>2
  <2>5. ASSUME NEW q \in Proc
        PROVE  /\ pc'[q] \in {"manifest", "restamp", "remanifest"} => docs'[q] # None
               /\ pc'[q] \in {"drop", "keep", "context", "remanifest"} => gen'[q] # None
    BY <2>2, <2>5 DEF IndexTyped
  <2>6. QED
    BY <2>3, <2>4, <2>5 DEF IndexTyped
<1>4. ASSUME NEW p \in Proc, Look(p) PROVE IndexTyped'
  <2>1. manifest # None => Refreshed(at[p]) \in Listing
    BY DEF Refreshed, TypeOK, Listing, Manifest
  <2>2. pc'[p] = "manifest" => docs'[p] # None
    BY <1>4, <2>1, NoneIsNone DEF Look, Goto, TypeOK, Current
  <2>3. pc'[p] \in {"manifest", "crawl"}
    BY <1>4 DEF Look, Goto, TypeOK
  <2>4. \A q \in Proc \ {p} : pc'[q] = pc[q] /\ docs'[q] = docs[q]
    BY <1>4 DEF Look, Goto, TypeOK
  <2>5. gen' = gen
    BY <1>4 DEF Look
  <2>6. QED
    BY <1>4, <2>2, <2>3, <2>4, <2>5 DEF IndexTyped, Look, TypeOK, vault
<1>5. ASSUME NEW p \in Proc, Crawl(p) PROVE IndexTyped'
  BY NoneIsNone, <1>5 DEF Crawl, vault, local, Goto, Leave, Meets, Mark, TypeOK, IndexTyped, Fresh, Steps
<1>6. ASSUME NEW p \in Proc, WriteManifest(p) PROVE IndexTyped'
  <2>1. manifest' # None /\ manifest'.head = num[p] /\ head' = head
    BY <1>6, NoneIsNone DEF WriteManifest, TypeOK, IndexTyped, Manifest, Fresh
  <2>2. QED
    BY <1>6, <2>1, NoneIsNone DEF WriteManifest, vault, local, Goto, Leave, Meets, Mark, TypeOK, IndexTyped, Fresh, Steps
<1>7. ASSUME NEW p \in Proc, ReadPending(p) PROVE IndexTyped'
  BY NoneIsNone, <1>7 DEF ReadPending, vault, local, Goto, Leave, Meets, Mark, TypeOK, IndexTyped, Fresh, Steps
<1>8. ASSUME NEW p \in Proc, DropPending(p) PROVE IndexTyped'
  BY NoneIsNone, <1>8 DEF DropPending, vault, local, Goto, Leave, Meets, Mark, TypeOK, IndexTyped, Fresh, Steps
<1>9. ASSUME NEW p \in Proc, WriteContext(p) PROVE IndexTyped'
  BY NoneIsNone, <1>9 DEF WriteContext, vault, local, Goto, Leave, Meets, Mark, TypeOK, IndexTyped, Fresh, Steps
<1>10. ASSUME NEW p \in Proc, IndexCrawl(p) PROVE IndexTyped'
  BY NoneIsNone, <1>10 DEF IndexCrawl, vault, local, Goto, Leave, Meets, Mark, TypeOK, IndexTyped, Fresh, Steps
<1>11. ASSUME NEW p \in Proc, IndexContext(p) PROVE IndexTyped'
  BY NoneIsNone, <1>11 DEF IndexContext, vault, local, Goto, Leave, Meets, Mark, TypeOK, IndexTyped, Fresh, Steps
<1>12. ASSUME NEW p \in Proc, IndexManifest(p) PROVE IndexTyped'
  <2>1. manifest' # None /\ manifest'.head = num[p] /\ head' = head
    BY <1>12, NoneIsNone DEF IndexManifest, TypeOK, IndexTyped, Manifest, Fresh
  <2>2. QED
    BY <1>12, <2>1, NoneIsNone DEF IndexManifest, vault, local, Goto, Leave, Meets, Mark, TypeOK, IndexTyped, Fresh, Steps
<1>13. ASSUME NEW p \in Proc, Rebuild(p) PROVE IndexTyped'
  BY NoneIsNone, <1>13 DEF Rebuild, vault, local, Goto, Leave, Meets, Mark, TypeOK, IndexTyped, Fresh, Steps
<1>14. ASSUME NEW p \in Proc, Crash(p) PROVE IndexTyped'
  BY NoneIsNone, <1>14 DEF Crash, vault, local, Goto, Leave, Meets, Mark, TypeOK, IndexTyped, Fresh, Steps
<1>15. ASSUME NEW f \in Folder, Edit(f) PROVE IndexTyped'
  BY NoneIsNone, <1>15 DEF Edit, vault, local, Goto, Leave, Meets, Mark, TypeOK, IndexTyped, Fresh, Steps
<1>16. ASSUME NEW f \in Folder, Older(f) PROVE IndexTyped'
  <2>1. head \in Nat /\ (manifest # None => manifest.head \in Nat)
        /\ \A q \in Proc : num[q] \in Nat
    BY DEF TypeOK, Manifest
  <2>2. head' \in {head, head + 1} /\ UNCHANGED <<manifest, pc, num, docs, gen>>
    BY <1>16 DEF Older, local
  <2>3. QED
    BY <2>1, <2>2 DEF IndexTyped
<1>17. CASE UNCHANGED vars
  BY NoneIsNone, <1>17 DEF vars, vault, local, Goto, Leave, Meets, Mark, TypeOK, IndexTyped, Fresh, Steps
<1>18. QED
  BY <1>1, <1>2, <1>3, <1>4, <1>5, <1>6, <1>7, <1>8, <1>9, <1>10, <1>11, <1>12, <1>13, <1>14, <1>15, <1>16, <1>17 DEF Next

\* An operation that is not idle is the only one, and the lock is nobody else's.
LEMMA OnlyOne ==
  ASSUME IndexInv, raced = {}, NEW p \in Proc, pc[p] # "idle"
  PROVE  /\ \A q \in Proc \ {p} : pc[q] = "idle" /\ lock # q /\ docs[q] = None
         /\ WriteInv(p) /\ UpdateInv(p) /\ CurrentDescribesDisk /\ TypeOK
  BY DEF IndexInv, Alone, WriteInv

\* What holds of an operation that has not begun.
LEMMA IdleInv ==
  ASSUME NEW q, pc[q] = "idle", lock # q, docs[q] = None
  PROVE  WriteInv(q) /\ UpdateInv(q)
  BY DEF WriteInv, UpdateInv

LEMMA IdleInvPrime ==
  ASSUME NEW q, pc'[q] = "idle", lock' # q, docs'[q] = None
  PROVE  WriteInv(q)' /\ UpdateInv(q)'
  BY DEF WriteInv, UpdateInv

LEMMA CurrentIs ==
  \A h : Current({h}) <=> manifest # None /\ manifest.head = h /\ manifest.gen = context
  BY DEF Current

\* What leaves a current manifest true to the disk.
LEMMA StaysCurrent ==
  ASSUME CurrentDescribesDisk, raced = {}, TypeOK, manifest' = manifest, head' = head,
         context' \in {context, None}, edited \subseteq edited', Marked \subseteq Marked',
         manifest # None => \A f \in Folder \ edited' : disk'[f] = disk[f] \/ f \in Marked'
  PROVE  CurrentDescribesDisk'
<1>1. ASSUME manifest # None, manifest.head = head', manifest.gen = context'
      PROVE  \A f \in Folder \ edited' : manifest.docs[f] = disk'[f] \/ f \in Marked'
  <2>1. manifest.gen \in Gen
    BY <1>1 DEF TypeOK, Manifest
  <2>2. context' = context
    BY <1>1, <2>1, NoneIsNone
  <2>3. Current({head})
    BY <1>1, <2>2, CurrentIs
  <2>4. \A f \in Folder \ edited : manifest.docs[f] = disk[f] \/ f \in Marked
    BY <2>3 DEF CurrentDescribesDisk
  <2>5. QED
    BY <1>1, <2>4
<1>2. Current({head})' => manifest' # None /\ manifest'.head = head' /\ manifest'.gen = context'
  BY DEF Current
<1>3. QED
  BY <1>1, <1>2 DEF CurrentDescribesDisk

\* What is marked stays marked, and the folder of a write is among it.
LEMMA MarkAdds ==
  ASSUME TypeOK, NEW f \in Folder, Mark(f)
  PROVE  Marked \subseteq Marked' /\ (manifest # None => f \in Marked')
<1>1. pending \in Seq(Folder)
  BY DEF TypeOK
<1>2. pending' = Append(pending, f) => Marked' = Marked \cup {f}
  BY <1>1, AppendProperties DEF Marked
<1>3. QED
  BY <1>2 DEF Mark, Marked

\* A manifest with the documents on disk is described by them, current or not.
LEMMA SoundDescribes ==
  ASSUME manifest' # None => \A f \in Folder \ edited' : manifest'.docs[f] = disk'[f]
  PROVE  CurrentDescribesDisk'
<1>1. Current({head})' => manifest' # None
  BY DEF Current
<1>2. QED
  BY <1>1 DEF CurrentDescribesDisk

\* Once context.yaml has another stamp the manifest is not current.
LEMMA OtherStamp ==
  ASSUME manifest' = manifest, manifest # None => manifest.gen # context'
  PROVE  CurrentDescribesDisk'
<1>1. ~Current({head})'
  BY DEF Current
<1>2. QED
  BY <1>1 DEF CurrentDescribesDisk

\* Re-reading the changed and the pending folders of a manifest that describes
\* the disk gives the documents on disk.
LEMMA RefreshIsSound ==
  ASSUME Describes, NEW f
  PROVE  Sound(Refreshed(f))
  BY DEF Describes, Sound, Refreshed

\* Writing a manifest settles the edited folders it has right.
LEMMA SettledSound ==
  ASSUME NEW ds, Sound(ds), edited' = StillEdited(ds), disk' = disk, edited \subseteq Folder
  PROVE  Sound(ds)'
  BY DEF Sound, StillEdited

\* The invariant, operation by operation.
LEMMA StateStep ==
  ASSUME IndexInv, raced' = {}, [Next]_vars
  PROVE  Alone' /\ CurrentDescribesDisk' /\ \A q \in Proc : WriteInv(q)' /\ UpdateInv(q)'
<1> DEFINE Goal == Alone' /\ CurrentDescribesDisk' /\ \A q \in Proc : WriteInv(q)' /\ UpdateInv(q)'
<1> USE BoundAssumption
<1>1. ASSUME NEW p \in Proc, NEW f \in Folder, Begin(p, f) PROVE Goal
  <2>1. raced = {} /\ lock = None /\ \A r \in Proc : pc[r] = "idle"
    BY <1>1 DEF Begin, Meets
  <2>2. CurrentDescribesDisk /\ TypeOK /\ \A r \in Proc : docs[r] = None
    BY <2>1 DEF IndexInv, WriteInv
  <2>3. \A r \in Proc \ {p} : pc'[r] = "idle" /\ lock' # r /\ docs'[r] = None
    BY <1>1, <2>1, <2>2, NoneIsNone DEF Begin, Goto, Leave, TypeOK, local, vault
  <2>8. Marked \subseteq Marked' /\ (manifest # None => f \in Marked')
    BY <1>1, <2>2, MarkAdds DEF Begin
  <2>4. WriteInv(p)'
    BY <1>1, <2>1, <2>2, <2>8 DEF Begin, Goto, WriteInv, TypeOK
  <2>5. UpdateInv(p)'
    BY <1>1, <2>2 DEF Begin, Goto, UpdateInv, TypeOK
  <2>6. CurrentDescribesDisk'
    BY <1>1, <2>1, <2>2, <2>8, StaysCurrent DEF Begin
  <2>7. QED
    BY <2>3, <2>4, <2>5, <2>6, IdleInvPrime DEF Alone
<1>2. ASSUME NEW p \in Proc, WriteFile(p) PROVE Goal
  <2>1. raced = {} /\ pc[p] = "write"
    BY <1>2 DEF WriteFile
  <2>2. /\ \A r \in Proc \ {p} : pc[r] = "idle" /\ lock # r /\ docs[r] = None
        /\ WriteInv(p) /\ UpdateInv(p) /\ CurrentDescribesDisk /\ TypeOK
    BY <2>1, OnlyOne
  <2>3. at[p] \in Folder /\ docs[p] = None /\ (manifest # None => at[p] \in Marked)
    BY <2>1, <2>2 DEF WriteInv
  <2>4. /\ \A f \in Folder \ {at[p]} : disk'[f] = disk[f]
        /\ UNCHANGED <<edited, manifest, pending, context, head, raced>> /\ Marked' = Marked
    BY <1>2, <2>2, <2>3 DEF WriteFile, TypeOK, Listing, Marked
  <2>5. CurrentDescribesDisk'
    BY <2>1, <2>2, <2>3, <2>4, StaysCurrent
  <2>6. CASE op[p] = "draft"
    <3>1. pc' = [pc EXCEPT ![p] = "look"] /\ UNCHANGED <<lock, local>>
      BY <1>2, <2>6 DEF WriteFile, Goto
    <3>2. WriteInv(p)' /\ UpdateInv(p)'
      BY <2>1, <2>2, <2>3, <2>4, <2>6, <3>1 DEF WriteInv, UpdateInv, TypeOK, local
    <3>3. QED
      BY <2>2, <2>5, <3>1, <3>2, IdleInvPrime DEF Alone, TypeOK, local
  <2>7. CASE op[p] = "publish"
    <3>1. pc' = [pc EXCEPT ![p] = "seal"] /\ UNCHANGED <<lock, local>>
      BY <1>2, <2>7 DEF WriteFile, Goto
    <3>2. WriteInv(p)' /\ UpdateInv(p)'
      BY <2>1, <2>2, <2>3, <2>4, <2>7, <3>1 DEF WriteInv, UpdateInv, TypeOK, local
    <3>3. QED
      BY <2>2, <2>5, <3>1, <3>2, IdleInvPrime DEF Alone, TypeOK, local
  <2>8. CASE op[p] \notin {"draft", "publish"}
    <3>1. Leave(p)
      BY <1>2, <2>8 DEF WriteFile
    <3>2. \A r \in Proc : pc'[r] = "idle" /\ lock' # r /\ docs'[r] = None
      BY <2>2, <3>1, NoneIsNone DEF Leave, Goto, TypeOK
    <3>3. QED
      BY <2>5, <3>2, IdleInvPrime DEF Alone
  <2>9. QED
    BY <2>6, <2>7, <2>8
<1>3. ASSUME NEW p \in Proc, Seal(p) PROVE Goal
  <2>1. raced = {} /\ pc[p] # "idle"
    BY <1>3 DEF Seal
  <2>2. /\ \A r \in Proc \ {p} : pc[r] = "idle" /\ lock # r /\ docs[r] = None
        /\ WriteInv(p) /\ UpdateInv(p) /\ CurrentDescribesDisk /\ TypeOK
    BY <2>1, OnlyOne
  <2>3. \A r \in Proc \ {p} : pc'[r] = "idle" /\ lock' # r /\ docs'[r] = None
    BY <1>3, <2>1, <2>2, NoneIsNone DEF Seal, Goto, Leave, TypeOK, local, vault
  <2>4. WriteInv(p)'
    <3>1. /\ pc'[p] = "look" /\ op'[p] = "publish" /\ num'[p] = head' /\ at'[p] \in Folder
          /\ lock' = p /\ (manifest' # None => at'[p] \in Marked')
      BY <1>3, <2>2 DEF Seal, Goto, WriteInv, TypeOK, Marked
    <3>2. docs'[p] = None => Current({head})
      BY <1>3, <2>2, NoneIsNone DEF Seal, TypeOK
    <3>3. Current({head}) => manifest # None /\ manifest.head = head /\ manifest.gen = context /\ Describes
      BY <2>1, <2>2, CurrentIs DEF CurrentDescribesDisk, Describes
    <3>4. Describes => Describes'
      BY <1>3 DEF Seal, Describes, Marked
    <3>5. UNCHANGED <<manifest, context>> /\ head' = head + 1
      BY <1>3 DEF Seal
    <3>6. QED
      BY <3>1, <3>2, <3>3, <3>4, <3>5 DEF WriteInv
  <2>5. UpdateInv(p)'
    <3>1. docs'[p] \in {None, disk} /\ disk' = disk /\ pc'[p] = "look"
      BY <1>3, <2>2 DEF Seal, Goto, TypeOK
    <3>2. QED
      BY <3>1 DEF UpdateInv, Sound
  <2>6. CurrentDescribesDisk'
    <3>1. manifest # None => manifest.head \in Nat /\ manifest.head <= head
      BY <2>2 DEF IndexInv, IndexTyped, TypeOK, Manifest
    <3>2. head \in Nat /\ head' = head + 1 /\ manifest' = manifest
      BY <1>3, <2>2 DEF Seal, TypeOK
    <3>3. ~Current({head})'
      BY <3>1, <3>2 DEF Current
    <3>4. QED
      BY <3>3 DEF CurrentDescribesDisk
  <2>7. QED
    BY <2>3, <2>4, <2>5, <2>6, IdleInvPrime DEF Alone
<1>4. ASSUME NEW p \in Proc, Look(p) PROVE Goal
  <2>1. raced = {} /\ pc[p] # "idle"
    BY <1>4 DEF Look
  <2>2. /\ \A r \in Proc \ {p} : pc[r] = "idle" /\ lock # r /\ docs[r] = None
        /\ WriteInv(p) /\ UpdateInv(p) /\ CurrentDescribesDisk /\ TypeOK
    BY <2>1, OnlyOne
  <2>3. \A r \in Proc \ {p} : pc'[r] = "idle" /\ lock' # r /\ docs'[r] = None
    BY <1>4, <2>1, <2>2, NoneIsNone DEF Look, Goto, Leave, TypeOK, local, vault
  <2>4. WriteInv(p)'
    <3>1. /\ pc'[p] \in {"manifest", "crawl"} /\ op' = op /\ lock' = lock
          /\ (pc'[p] = "crawl" => docs'[p] = None)
      BY <1>4, <2>2 DEF Look, Goto, TypeOK
    <3>2. op[p] # "rebuild" => lock = p
      BY <2>1, <2>2 DEF WriteInv
    <3>3. QED
      BY <3>1, <3>2 DEF WriteInv
  <2>5. UpdateInv(p)'
    <3>1. UNCHANGED <<disk, edited, head>> /\ pc'[p] \in {"manifest", "crawl"}
      BY <1>4, <2>2 DEF Look, Goto, TypeOK, vault
    <3>2. num'[p] = head
      BY <1>4, <2>2 DEF Look, WriteInv, TypeOK
    <3>3. \/ docs'[p] = docs[p]
          \/ op[p] # "rebuild" /\ docs[p] = None /\ Current(Heads(p)) /\ docs'[p] = Refreshed(at[p])
      BY <1>4, <2>2 DEF Look, TypeOK
    <3>4. (op[p] # "rebuild" /\ docs[p] = None /\ Current(Heads(p))) => Describes
      BY <1>4, <2>1, <2>2 DEF Look, Heads, WriteInv, CurrentDescribesDisk, Describes
    <3>5. docs'[p] # None => Sound(docs'[p])
      BY <2>2, <3>3, <3>4, RefreshIsSound DEF UpdateInv
    <3>6. Sound(docs'[p]) => Sound(docs[p])'
      BY <3>1 DEF Sound
    <3>7. QED
      BY <3>1, <3>2, <3>5, <3>6 DEF UpdateInv
  <2>6. CurrentDescribesDisk'
    BY <1>4, <2>1, <2>2, StaysCurrent DEF Look, vault, Marked
  <2>7. QED
    BY <2>3, <2>4, <2>5, <2>6, IdleInvPrime DEF Alone
<1>5. ASSUME NEW p \in Proc, Crawl(p) PROVE Goal
  <2>1. raced = {} /\ pc[p] # "idle"
    BY <1>5 DEF Crawl
  <2>2. /\ \A r \in Proc \ {p} : pc[r] = "idle" /\ lock # r /\ docs[r] = None
        /\ WriteInv(p) /\ UpdateInv(p) /\ CurrentDescribesDisk /\ TypeOK
    BY <2>1, OnlyOne
  <2>3. \A r \in Proc \ {p} : pc'[r] = "idle" /\ lock' # r /\ docs'[r] = None
    BY <1>5, <2>1, <2>2, NoneIsNone DEF Crawl, Goto, Leave, TypeOK, local, vault
  <2>4. WriteInv(p)'
    BY <1>5, <2>2 DEF Crawl, Goto, WriteInv, TypeOK
  <2>5. UpdateInv(p)'
    BY <1>5, <2>2 DEF Crawl, Goto, UpdateInv, TypeOK, vault, Sound
  <2>6. CurrentDescribesDisk'
    BY <1>5, <2>1, <2>2, StaysCurrent DEF Crawl, vault, Marked
  <2>7. QED
    BY <2>3, <2>4, <2>5, <2>6, IdleInvPrime DEF Alone
<1>6. ASSUME NEW p \in Proc, WriteManifest(p) PROVE Goal
  <2>1. raced = {} /\ pc[p] # "idle"
    BY <1>6 DEF WriteManifest
  <2>2. /\ \A r \in Proc \ {p} : pc[r] = "idle" /\ lock # r /\ docs[r] = None
        /\ WriteInv(p) /\ UpdateInv(p) /\ CurrentDescribesDisk /\ TypeOK
    BY <2>1, OnlyOne
  <2>3. \A r \in Proc \ {p} : pc'[r] = "idle" /\ lock' # r /\ docs'[r] = None
    BY <1>6, <2>1, <2>2, NoneIsNone DEF WriteManifest, Goto, Leave, TypeOK, local, vault
  <2>8. manifest'.docs = docs[p] /\ manifest' # None /\ docs' = docs
        /\ manifest'.gen = gen'[p] /\ Sound(docs[p])' /\ Sound(manifest.docs)'
    <3>1. PICK g \in Fresh : gen' = [gen EXCEPT ![p] = g]
                             /\ manifest' = [docs |-> docs[p], head |-> num[p], gen |-> g]
      BY <1>6 DEF WriteManifest
    <3>2. manifest'.docs = docs[p] /\ manifest'.gen = gen'[p] /\ docs' = docs
      BY <1>6, <2>2, <3>1 DEF WriteManifest, TypeOK
    <3>3. docs[p] # None
      BY <1>6 DEF WriteManifest, IndexInv, IndexTyped
    <3>4. manifest' \in Manifest
      BY <1>6, <2>2, <3>1, <3>3 DEF WriteManifest, TypeOK, Fresh, Manifest
    <3>5. Sound(docs[p])
      BY <2>2, <3>3 DEF UpdateInv
    <3>6. \A f \in Folder \ edited' : docs[p][f] = disk'[f]
      BY <1>6, <3>5 DEF WriteManifest, StillEdited, Sound
    <3>7. QED
      BY <3>2, <3>4, <3>6, NoneIsNone DEF Sound
  <2>4. WriteInv(p)'
    BY <1>6, <2>2 DEF WriteManifest, Goto, WriteInv, TypeOK
  <2>5. UpdateInv(p)'
    BY <1>6, <2>2, <2>8 DEF WriteManifest, Goto, UpdateInv, TypeOK
  <2>6. CurrentDescribesDisk'
    BY <2>8, SoundDescribes DEF Sound
  <2>7. QED
    BY <2>3, <2>4, <2>5, <2>6, IdleInvPrime DEF Alone
<1>7. ASSUME NEW p \in Proc, ReadPending(p) PROVE Goal
  <2>1. raced = {} /\ pc[p] # "idle"
    BY <1>7 DEF ReadPending
  <2>2. /\ \A r \in Proc \ {p} : pc[r] = "idle" /\ lock # r /\ docs[r] = None
        /\ WriteInv(p) /\ UpdateInv(p) /\ CurrentDescribesDisk /\ TypeOK
    BY <2>1, OnlyOne
  <2>3. \A r \in Proc \ {p} : pc'[r] = "idle" /\ lock' # r /\ docs'[r] = None
    BY <1>7, <2>1, <2>2, NoneIsNone DEF ReadPending, Goto, Leave, TypeOK, local, vault
  <2>4. WriteInv(p)'
    BY <1>7, <2>2 DEF ReadPending, Goto, WriteInv, TypeOK, vault
  <2>5. UpdateInv(p)'
    BY <1>7, <2>2 DEF ReadPending, Goto, UpdateInv, TypeOK, vault, Sound
  <2>6. CurrentDescribesDisk'
    BY <1>7, <2>1, <2>2, StaysCurrent DEF ReadPending, vault, Marked
  <2>7. QED
    BY <2>3, <2>4, <2>5, <2>6, IdleInvPrime DEF Alone
<1>8. ASSUME NEW p \in Proc, DropPending(p) PROVE Goal
  <2>1. raced = {} /\ pc[p] # "idle"
    BY <1>8 DEF DropPending
  <2>2. /\ \A r \in Proc \ {p} : pc[r] = "idle" /\ lock # r /\ docs[r] = None
        /\ WriteInv(p) /\ UpdateInv(p) /\ CurrentDescribesDisk /\ TypeOK
    BY <2>1, OnlyOne
  <2>3. \A r \in Proc \ {p} : pc'[r] = "idle" /\ lock' # r /\ docs'[r] = None
    BY <1>8, <2>1, <2>2, NoneIsNone DEF DropPending, Goto, Leave, TypeOK, local, vault
  <2>4. WriteInv(p)'
    BY <1>8, <2>2 DEF DropPending, Goto, WriteInv, TypeOK, local
  <2>5. UpdateInv(p)'
    BY <1>8, <2>2 DEF DropPending, Goto, UpdateInv, TypeOK, local, Sound
  <2>6. CurrentDescribesDisk'
    BY <1>8, <2>2, SoundDescribes DEF DropPending, UpdateInv, Sound
  <2>7. QED
    BY <2>3, <2>4, <2>5, <2>6, IdleInvPrime DEF Alone
<1>9. ASSUME NEW p \in Proc, WriteContext(p) PROVE Goal
  <2>1. raced = {} /\ pc[p] # "idle"
    BY <1>9 DEF WriteContext
  <2>2. /\ \A r \in Proc \ {p} : pc[r] = "idle" /\ lock # r /\ docs[r] = None
        /\ WriteInv(p) /\ UpdateInv(p) /\ CurrentDescribesDisk /\ TypeOK
    BY <2>1, OnlyOne
  <2>3. \A r \in Proc \ {p} : pc'[r] = "idle" /\ lock' # r /\ docs'[r] = None
    BY <1>9, <2>1, <2>2, NoneIsNone DEF WriteContext, Goto, Leave, TypeOK, local, vault
  <2>4. pc'[p] = "idle" /\ lock' # p /\ docs'[p] = None
    BY <1>9, <2>2, NoneIsNone DEF WriteContext, Leave, Goto, TypeOK
  <2>5. WriteInv(p)' /\ UpdateInv(p)'
    BY <2>4, IdleInvPrime
  <2>6. CurrentDescribesDisk'
    BY <1>9, <2>2, SoundDescribes DEF WriteContext, UpdateInv, Sound
  <2>7. QED
    BY <2>3, <2>5, <2>6, IdleInvPrime DEF Alone
<1>10. ASSUME NEW p \in Proc, IndexCrawl(p) PROVE Goal
  <2>1. raced = {} /\ lock = None /\ \A r \in Proc : pc[r] = "idle"
    BY <1>10 DEF IndexCrawl, Meets
  <2>2. CurrentDescribesDisk /\ TypeOK /\ \A r \in Proc : docs[r] = None
    BY <2>1 DEF IndexInv, WriteInv
  <2>3. \A r \in Proc \ {p} : pc'[r] = "idle" /\ lock' # r /\ docs'[r] = None
    BY <1>10, <2>1, <2>2, NoneIsNone DEF IndexCrawl, Goto, Leave, TypeOK, local, vault
  <2>4. WriteInv(p)'
    BY <1>10, <2>2 DEF IndexCrawl, Goto, WriteInv, TypeOK
  <2>5. UpdateInv(p)'
    BY <1>10, <2>2 DEF IndexCrawl, Goto, UpdateInv, TypeOK, vault, Sound
  <2>6. CurrentDescribesDisk'
    BY <1>10, <2>1, <2>2, StaysCurrent DEF IndexCrawl, vault, Marked
  <2>7. QED
    BY <2>3, <2>4, <2>5, <2>6, IdleInvPrime DEF Alone
<1>11. ASSUME NEW p \in Proc, IndexContext(p) PROVE Goal
  <2>1. raced = {} /\ pc[p] # "idle"
    BY <1>11 DEF IndexContext
  <2>2. /\ \A r \in Proc \ {p} : pc[r] = "idle" /\ lock # r /\ docs[r] = None
        /\ WriteInv(p) /\ UpdateInv(p) /\ CurrentDescribesDisk /\ TypeOK
    BY <2>1, OnlyOne
  <2>3. \A r \in Proc \ {p} : pc'[r] = "idle" /\ lock' # r /\ docs'[r] = None
    BY <1>11, <2>1, <2>2, NoneIsNone DEF IndexContext, Goto, Leave, TypeOK, local, vault
  <2>4. WriteInv(p)'
    BY <1>11, <2>2 DEF IndexContext, Goto, WriteInv, TypeOK
  <2>5. UpdateInv(p)'
    <3>1. PICK g \in Fresh : gen' = [gen EXCEPT ![p] = g] /\ context' = g
      BY <1>11 DEF IndexContext
    <3>2. gen'[p] = context' /\ context' # None /\ (manifest' # None => manifest'.gen # context')
      BY <1>11, <2>2, <3>1, NoneIsNone DEF IndexContext, Fresh, TypeOK
    <3>3. pc'[p] = "remanifest" /\ num'[p] = head' /\ docs' = docs
          /\ (docs[p] # None => Sound(docs[p])')
      BY <1>11, <2>2 DEF IndexContext, Goto, TypeOK, UpdateInv, Sound
    <3>4. QED
      BY <3>2, <3>3 DEF UpdateInv
  <2>6. CurrentDescribesDisk'
    BY <1>11, OtherStamp DEF IndexContext, Fresh
  <2>7. QED
    BY <2>3, <2>4, <2>5, <2>6, IdleInvPrime DEF Alone
<1>12. ASSUME NEW p \in Proc, IndexManifest(p) PROVE Goal
  <2>1. raced = {} /\ pc[p] # "idle"
    BY <1>12 DEF IndexManifest
  <2>2. /\ \A r \in Proc \ {p} : pc[r] = "idle" /\ lock # r /\ docs[r] = None
        /\ WriteInv(p) /\ UpdateInv(p) /\ CurrentDescribesDisk /\ TypeOK
    BY <2>1, OnlyOne
  <2>3. \A r \in Proc \ {p} : pc'[r] = "idle" /\ lock' # r /\ docs'[r] = None
    BY <1>12, <2>1, <2>2, NoneIsNone DEF IndexManifest, Goto, Leave, TypeOK, local, vault
  <2>4. pc'[p] = "idle" /\ lock' # p /\ docs'[p] = None
    BY <1>12, <2>2, NoneIsNone DEF IndexManifest, Leave, Goto, TypeOK
  <2>5. WriteInv(p)' /\ UpdateInv(p)'
    BY <2>4, IdleInvPrime
  <2>6. CurrentDescribesDisk'
    <3>1. manifest'.docs = docs[p]
      BY <1>12 DEF IndexManifest
    <3>2. Sound(docs[p])
      BY <1>12, <2>2 DEF IndexManifest, IndexInv, IndexTyped, UpdateInv
    <3>3. \A f \in Folder \ edited' : docs[p][f] = disk'[f]
      BY <1>12, <3>2 DEF IndexManifest, StillEdited, Sound
    <3>4. QED
      BY <3>1, <3>3, SoundDescribes DEF Sound
  <2>7. QED
    BY <2>3, <2>5, <2>6, IdleInvPrime DEF Alone
<1>13. ASSUME NEW p \in Proc, Rebuild(p) PROVE Goal
  <2>1. raced = {} /\ lock = None /\ \A r \in Proc : pc[r] = "idle"
    BY <1>13 DEF Rebuild, Meets
  <2>2. CurrentDescribesDisk /\ TypeOK /\ \A r \in Proc : docs[r] = None
    BY <2>1 DEF IndexInv, WriteInv
  <2>3. \A r \in Proc \ {p} : pc'[r] = "idle" /\ lock' # r /\ docs'[r] = None
    BY <1>13, <2>1, <2>2, NoneIsNone DEF Rebuild, Goto, Leave, TypeOK, local, vault
  <2>4. WriteInv(p)'
    BY <1>13, <2>2 DEF Rebuild, Goto, WriteInv, TypeOK
  <2>5. UpdateInv(p)'
    BY <1>13, <2>2 DEF Rebuild, Goto, UpdateInv, TypeOK, vault, Sound
  <2>6. CurrentDescribesDisk'
    <3>1. CASE manifest' = None
      BY <3>1, SoundDescribes
    <3>2. CASE UNCHANGED <<manifest, pending>>
      BY <1>13, <2>1, <2>2, <3>2, StaysCurrent DEF Rebuild, Marked
    <3>3. QED
      BY <1>13, <3>1, <3>2 DEF Rebuild
  <2>7. QED
    BY <2>3, <2>4, <2>5, <2>6, IdleInvPrime DEF Alone
<1>14. ASSUME NEW p \in Proc, Crash(p) PROVE Goal
  <2>1. raced = {} /\ pc[p] # "idle"
    BY <1>14 DEF Crash
  <2>2. /\ \A r \in Proc \ {p} : pc[r] = "idle" /\ lock # r /\ docs[r] = None
        /\ WriteInv(p) /\ UpdateInv(p) /\ CurrentDescribesDisk /\ TypeOK
    BY <2>1, OnlyOne
  <2>3. \A r \in Proc \ {p} : pc'[r] = "idle" /\ lock' # r /\ docs'[r] = None
    BY <1>14, <2>1, <2>2, NoneIsNone DEF Crash, Goto, Leave, TypeOK, local, vault
  <2>4. pc'[p] = "idle" /\ lock' # p /\ docs'[p] = None
    BY <1>14, <2>2, NoneIsNone DEF Crash, Leave, Goto, TypeOK
  <2>5. WriteInv(p)' /\ UpdateInv(p)'
    BY <2>4, IdleInvPrime
  <2>6. CurrentDescribesDisk'
    BY <1>14, <2>1, <2>2, StaysCurrent DEF Crash, Marked
  <2>7. QED
    BY <2>3, <2>5, <2>6, IdleInvPrime DEF Alone
<1>15. ASSUME NEW f \in Folder, Edit(f) PROVE Goal
  <2>1. /\ raced = {} /\ Alone /\ TypeOK /\ CurrentDescribesDisk
        /\ \A q \in Proc : WriteInv(q) /\ UpdateInv(q)
    BY <1>15 DEF Edit, IndexInv
  <2>2. /\ UNCHANGED <<manifest, pending, context, head, lock, pc, op, at, docs, num, gen>>
        /\ edited \subseteq edited' /\ Marked' = Marked
        /\ \A g \in Folder \ edited' : disk'[g] = disk[g]
    BY <1>15, <2>1 DEF Edit, local, TypeOK, Listing, Marked
  <2>3. CurrentDescribesDisk'
    BY <2>1, <2>2, StaysCurrent
  <2>4. Describes => Describes'
    BY <2>2 DEF Describes
  <2>5. \A q \in Proc : WriteInv(q)'
    BY <2>1, <2>2, <2>4 DEF WriteInv
  <2>6. \A q \in Proc : UpdateInv(q)'
    BY <2>1, <2>2 DEF UpdateInv, Sound
  <2>7. Alone'
    BY <2>1, <2>2 DEF Alone
  <2>8. QED
    BY <2>3, <2>5, <2>6, <2>7
<1>16. ASSUME NEW f \in Folder, Older(f) PROVE Goal
  <2>1. raced = {} /\ \A q \in Proc : pc[q] = "idle" /\ pc'[q] = "idle"
    BY <1>16 DEF Older
  <2>2. \A q \in Proc : lock' # q /\ docs'[q] = None
    BY <1>16, <2>1, NoneIsNone DEF Older, local, IndexInv, WriteInv
  <2>3. CurrentDescribesDisk'
    BY <1>16, OtherStamp DEF Older, Fresh
  <2>4. QED
    BY <2>1, <2>2, <2>3, IdleInvPrime DEF Alone
<1>17. CASE UNCHANGED vars
  <2>1. /\ raced = {} /\ Alone /\ TypeOK /\ CurrentDescribesDisk
        /\ \A q \in Proc : WriteInv(q) /\ UpdateInv(q)
    BY <1>17 DEF vars, IndexInv
  <2>2. /\ UNCHANGED <<disk, edited, manifest, pending, context, head, lock, pc, op, at, docs, num, gen>>
        /\ Marked' = Marked
    BY <1>17 DEF vars, vault, local, Marked
  <2>3. CurrentDescribesDisk'
    BY <2>1, <2>2, StaysCurrent
  <2>4. QED
    BY <2>1, <2>2, <2>3 DEF Alone, WriteInv, UpdateInv, Sound, Describes
<1>18. QED
  BY <1>1, <1>2, <1>3, <1>4, <1>5, <1>6, <1>7, <1>8, <1>9, <1>10, <1>11, <1>12, <1>13, <1>14,
     <1>15, <1>16, <1>17 DEF Next


\* The inductive invariant holds in every state.
THEOREM Indexing == Spec => []IndexInv
<1>1. Init => IndexInv
  BY NoneIsNone, EmptyList, BoundAssumption
     DEF Init, IndexInv, TypeOK, IndexTyped, Alone, WriteInv, UpdateInv, CurrentDescribesDisk,
         Current, Steps, Listing, Edition
<1>2. IndexInv /\ [Next]_vars => IndexInv'
  <2> SUFFICES ASSUME IndexInv, [Next]_vars
               PROVE  IndexInv'
    OBVIOUS
  <2>1. TypeOK' /\ IndexTyped'
    BY TypeStep, TypedStep DEF IndexInv
  <2>2. raced' = {} => /\ Alone'
                       /\ \A p \in Proc : WriteInv(p)' /\ UpdateInv(p)'
                       /\ CurrentDescribesDisk'
    BY StateStep
  <2>3. QED
    BY <2>1, <2>2 DEF IndexInv
<1>3. QED
  BY <1>1, <1>2, PTL DEF Spec

\* A manifest that passes for current describes the disk, whatever a process has
\* done when it dies, unless a rebuild without the lock ran beside an operation.
THEOREM CurrentDescribes == Spec => []CurrentDescribesDisk
<1>1. IndexInv => CurrentDescribesDisk
  BY DEF IndexInv, CurrentDescribesDisk
<1>2. QED
  BY <1>1, Indexing, PTL

\* A checkpoint that takes its documents from the manifest seals those on disk.
THEOREM SealsDisk == Spec => SealsTheDisk
<1>1. ASSUME IndexInv, NEW p \in Proc, Seal(p), raced = {}
      PROVE  \A f \in Folder \ edited : SealDocs(p)[f] = disk[f]
  <2>1. Current({head}) => Describes
    BY <1>1 DEF IndexInv, CurrentDescribesDisk, Describes
  <2>2. Current({head}) => Sound(Refreshed(at[p]))
    BY <2>1, RefreshIsSound
  <2>3. QED
    BY <2>2 DEF SealDocs, Sound
<1>2. IndexInv /\ [Next]_vars =>
        [\A p \in Proc : (Seal(p) /\ raced = {}) =>
            \A f \in Folder \ edited : SealDocs(p)[f] = disk[f]]_vars
  BY <1>1
<1>3. QED
  BY <1>2, Indexing, PTL DEF Spec, SealsTheDisk

=============================================================================
