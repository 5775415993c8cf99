--------------------------- MODULE DocHistory_proofs ---------------------------
(***************************************************************************)
(* The version ledger of one document stays one verifiable chain: for      *)
(* every set of bodies, bound and keyframe interval, under crashes, torn   *)
(* histories and hand edits.                                               *)
(***************************************************************************)
EXTENDS DocHistory, SequenceTheorems, WellFoundedInduction, TLAPS

--------------------------------------------------------------------------------
(* Numbering.                                                              *)

\* Every non-empty set of naturals has a least element.
LEMMA LeastElement ==
  ASSUME NEW T, T \subseteq Nat, T # {}
  PROVE  \E x \in T : \A y \in T : x <= y
<1>1. PICK x \in T : \A y \in T : <<y, x>> \notin OpToRel(<, Nat)
  BY NatLessThanWellFounded, WFMin
<1>2. \A y \in T : ~(y < x)
  BY <1>1 DEF OpToRel
<1>3. QED
  BY <1>2

\* nextVersion outranks everything it is given, and 1 .. MaxVersion + 1 has room.
LEMMA LeastAboveOutranks ==
  ASSUME NEW S, S \subseteq 0 .. MaxVersion
  PROVE  /\ LeastAbove(S) \in 1 .. MaxVersion + 1
         /\ \A s \in S : s < LeastAbove(S)
<1> DEFINE Above == {n \in 1 .. MaxVersion + 1 : \A s \in S : s < n}
<1> USE LedgerAssumption
<1>1. MaxVersion + 1 \in Above
  OBVIOUS
<1>2. PICK n \in Above : \A m \in Above : n <= m
  <2>1. Above \subseteq Nat /\ Above # {}
    BY <1>1
  <2>2. QED
    BY ONLY <2>1, LeastElement
<1>3. n \in 1 .. MaxVersion + 1 /\ (\A s \in S : s < n)
      /\ (\A m \in 1 .. MaxVersion + 1 : (\A s \in S : s < m) => n <= m)
  BY <1>2
<1>4. QED
  BY <1>3 DEF LeastAbove

LEMMA NextVersionOutranks ==
  ASSUME TypeOK, NEW hint \in 0 .. MaxVersion
  PROVE  /\ NextVersion(hint, entries, md, diff) \in 1 .. MaxVersion + 1
         /\ \A v \in Recorded(entries) : v < NextVersion(hint, entries, md, diff)
<1>1. \A i \in DOMAIN entries : entries[i].version \in Version
  <2>1. \A i \in DOMAIN entries : entries[i] \in Entry
    BY DEF TypeOK
  <2>2. QED
    BY <2>1 DEF Entry
<1>2. {hint} \union Recorded(entries) \union SealedOnDisk(md, diff) \subseteq 0 .. MaxVersion
  BY <1>1, LedgerAssumption DEF Recorded, SealedOnDisk, Version
<1>3. QED
  BY <1>2, LeastAboveOutranks DEF NextVersion

--------------------------------------------------------------------------------
(* Entries.                                                                *)

LEMMA AppendEntry ==
  ASSUME TypeOK, NEW e \in Entry
  PROVE  /\ Append(entries, e) \in Seq(Entry)
         /\ Len(Append(entries, e)) = Len(entries) + 1
         /\ DOMAIN Append(entries, e) = 1 .. Len(entries) + 1
         /\ \A i \in 1 .. Len(entries) : Append(entries, e)[i] = entries[i]
         /\ Append(entries, e)[Len(entries) + 1] = e
         /\ DOMAIN entries = 1 .. Len(entries)
         /\ Len(entries) \in Nat
  BY AppendProperties, LenProperties DEF TypeOK

LEMMA RebuiltIsText ==
  \A v : Reconstruct(known, md, diff, v) \in Text \union {NoText}
  BY DEF Reconstruct

--------------------------------------------------------------------------------
(* createVersion's two writes.                                             *)

\* The entry about to be appended is well formed and matches its artifact.
LEMMA EntryNowVerifies ==
  ASSUME LedgerInv, pc \in {"seeded", "append"}
  PROVE  /\ EntryNow \in Entry
         /\ EntryNow.version = text.version
         /\ ~EntryNow.tombstone
         /\ EntryNow.chain = ChainHash(LastChain(entries), EntryNow.hash, text.version)
         /\ ContentVerifies(EntryNow, md, diff)
         /\ EntryNow.keyframe => md[text.version] # NoText
<1> USE LedgerAssumption, NothingAssumption DEF LedgerInv
<1>1. known = entries /\ text.version \in Version
  BY DEF JobConsistent
<1>2. LastChain(entries) \in Seq(Link)
  <2>1. CASE entries = <<>>
    BY <2>1 DEF LastChain
  <2>2. CASE entries # <<>>
    <3>1. Len(entries) \in DOMAIN entries
      BY <2>2, LenProperties, EmptySeq DEF TypeOK
    <3>2. entries[Len(entries)] \in Entry
      BY <3>1 DEF TypeOK
    <3>3. QED
      BY <2>2, <3>2 DEF LastChain, Entry
  <2>3. QED
    BY <2>1, <2>2
<1> DEFINE hash == IF keyframe THEN md[text.version] ELSE diff[text.version]
<1>3. hash \in Text \union Diff
  BY <1>1 DEF ArtifactWritten, TypeOK, DiffFiles
<1>4. [version |-> text.version, hash |-> hash] \in Link
  BY <1>1, <1>3 DEF Link
<1>5. ChainHash(LastChain(entries), hash, text.version) \in Seq(Link)
  BY <1>2, <1>4, AppendProperties DEF ChainHash
<1>6. EntryNow = [version |-> text.version, keyframe |-> keyframe, hash |-> hash,
                  chain |-> ChainHash(LastChain(entries), hash, text.version),
                  tombstone |-> FALSE]
  BY <1>1 DEF EntryNow, NewEntry
<1> HIDE DEF hash
<1>7. EntryNow \in Entry
  BY <1>1, <1>3, <1>5, <1>6 DEF Entry, TypeOK
<1>8. /\ EntryNow.version = text.version /\ ~EntryNow.tombstone
      /\ EntryNow.keyframe = keyframe /\ EntryNow.hash = hash
      /\ EntryNow.chain = ChainHash(LastChain(entries), hash, text.version)
  BY <1>6
<1>9. ContentVerifies(EntryNow, md, diff) /\ (keyframe => md[text.version] # NoText)
  BY <1>8 DEF hash, ContentVerifies, ArtifactWritten, TypeOK
<1>10. QED
  BY <1>7, <1>8, <1>9

\* appendVersionEntry keeps the ledger one increasing, verifiable chain.
LEMMA AppendKeepsLedger ==
  ASSUME LedgerInv, pc \in {"seeded", "append"}, AppendVersionEntry, UNCHANGED <<md, diff>>
  PROVE  /\ entries' \in Seq(Entry)
         /\ VersionsIncrease' /\ HistoryVerifies'
         /\ Recorded(entries)' = Recorded(entries) \union {text.version}
<1> DEFINE e == EntryNow
           n == Len(entries)
<1>1. /\ e \in Entry /\ e.version = text.version /\ ~e.tombstone
      /\ e.chain = ChainHash(LastChain(entries), e.hash, text.version)
      /\ ContentVerifies(e, md, diff)
      /\ e.keyframe => md[text.version] # NoText
  BY EntryNowVerifies
<1>2. entries' = Append(entries, e)
  BY DEF AppendVersionEntry
<1> HIDE DEF e
<1>3. /\ entries' \in Seq(Entry) /\ DOMAIN entries' = 1 .. n + 1 /\ n \in Nat
      /\ \A i \in 1 .. n : entries'[i] = entries[i]
      /\ entries'[n + 1] = e /\ DOMAIN entries = 1 .. n
  BY <1>1, <1>2, AppendEntry DEF LedgerInv
<1> HIDE DEF n
<1>4. \A i \in DOMAIN entries : entries[i] \in Entry
  BY DEF LedgerInv, TypeOK
<1>5. Recorded(entries)' = Recorded(entries) \union {text.version}
  BY <1>1, <1>3 DEF Recorded
<1>6. \A v \in Recorded(entries) : v < text.version
  BY DEF LedgerInv, JobConsistent, Recorded
<1>7. VersionsIncrease'
  <2>1. \A i \in DOMAIN entries : entries[i].version < text.version
    BY <1>6 DEF Recorded
  <2>2. SUFFICES ASSUME NEW i \in DOMAIN entries', NEW j \in DOMAIN entries', i < j
                 PROVE  entries'[i].version < entries'[j].version
    BY DEF VersionsIncrease
  <2>3. i \in 1 .. n
    BY <1>3, <2>2
  <2>4. CASE j \in 1 .. n
    BY <1>3, <2>2, <2>3, <2>4 DEF LedgerInv, VersionsIncrease
  <2>5. CASE j = n + 1
    BY <1>1, <1>3, <2>1, <2>3, <2>5
  <2>6. QED
    BY <1>3, <2>4, <2>5
<1>8. \A i \in DOMAIN entries' :
        /\ ContentVerifies(entries'[i], md, diff)
        /\ entries'[i].keyframe => md[entries'[i].version] # NoText
  BY <1>1, <1>3 DEF LedgerInv, HistoryVerifies, VerifyDocumentChain
<1>9. ChainVerifies(entries')
  <2>1. SUFFICES ASSUME NEW i \in 1 .. n + 1
                 PROVE  entries'[i].chain =
                          ChainHash(IF i = 1 THEN <<>> ELSE entries'[i - 1].chain,
                                    entries'[i].hash, entries'[i].version)
    BY <1>3 DEF ChainVerifies
  <2>2. CASE i \in 1 .. n
    BY <1>3, <2>2 DEF LedgerInv, HistoryVerifies, VerifyDocumentChain, ChainVerifies
  <2>3. CASE i = n + 1
    <3>1. LastChain(entries) = IF n = 0 THEN <<>> ELSE entries[n].chain
      BY EmptySeq, LenProperties DEF LastChain, n, LedgerInv, TypeOK
    <3>2. QED
      BY <1>1, <1>3, <2>3, <3>1
  <2>4. QED
    BY <1>3, <2>2, <2>3
<1>10. HistoryVerifies'
  BY <1>8, <1>9, UNCHANGED <<md, diff>> DEF HistoryVerifies, VerifyDocumentChain
<1>11. QED
  BY <1>3, <1>5, <1>7, <1>10

--------------------------------------------------------------------------------
(* The steps.                                                              *)

\* Steps that leave the ledger and its artifacts alone keep what is said of them.
LEMMA SameLedger ==
  ASSUME LedgerInv, UNCHANGED <<entries, md, diff>>
  PROVE  VersionsIncrease' /\ HistoryVerifies' /\ Recorded(entries)' = Recorded(entries)
  BY DEF LedgerInv, VersionsIncrease, HistoryVerifies, VerifyDocumentChain, ChainVerifies,
         ContentVerifies, Recorded

LEMMA BlankIsText == Blank \in Text
  BY LedgerAssumption DEF Blank, Text

\* An operation that ends, in success, failure or death, leaves the ledger as it is.
LEMMA DoneKeepsLedger ==
  ASSUME LedgerInv, Done, doc' \in Text, UNCHANGED <<ledger, entries, md, diff>>,
         refused' \in BOOLEAN, written' \in [Version -> Text \union {NoText}]
  PROVE  LedgerInv'
<1>1. VersionsIncrease' /\ HistoryVerifies'
  BY SameLedger
<1>2. <<>> \in Seq(Entry)
  BY EmptySeq
<1>3. TypeOK'
  BY <1>2, BlankIsText DEF LedgerInv, TypeOK, Done
<1>4. JobConsistent' /\ ArtifactWritten'
  BY DEF LedgerInv, JobConsistent, ArtifactWritten, Done
<1>5. QED
  BY <1>1, <1>3, <1>4 DEF LedgerInv

\* What an exclusive create that succeeds changes: one artifact of one version.
LEMMA SealedArtifact ==
  ASSUME LedgerInv, pc \in {"seed", "artifact"}, NEW next \in {"seeded", "append"},
         SealArtifact(next), pc' = next
  PROVE  /\ text.version \in Version
         /\ md' \in KeyframeFiles /\ diff' \in DiffFiles /\ keyframe' \in BOOLEAN
         /\ \A v \in Version \ {text.version} : md'[v] = md[v] /\ diff'[v] = diff[v]
         /\ IF keyframe' THEN md'[text.version] = text ELSE diff'[text.version] # NoDiff
         /\ SealedOnDisk(md', diff') = SealedOnDisk(md, diff) \union {text.version}
         /\ UNCHANGED <<doc, ledger, entries, op, known, text, refused, written>>
<1> USE NothingAssumption
<1> DEFINE asKeyframe == StoredAsKeyframe(text, known, md, diff)
           v == text.version
           patch == ArtifactOf(text, FALSE, known, md, diff)
<1>1. v \in Version /\ text \in Text
  BY DEF LedgerInv, TypeOK, JobConsistent
<1>2. /\ keyframe' = asKeyframe
      /\ IF asKeyframe
         THEN md' = [md EXCEPT ![v] = text] /\ UNCHANGED diff
         ELSE diff' = [diff EXCEPT ![v] = patch] /\ UNCHANGED md
      /\ UNCHANGED <<doc, ledger, entries, op, known, text, refused, written>>
  BY DEF SealArtifact, Done
<1>3. md \in KeyframeFiles /\ diff \in DiffFiles
  BY DEF LedgerInv, TypeOK
<1>4. asKeyframe \in BOOLEAN
  BY DEF StoredAsKeyframe
<1>5. ~asKeyframe => patch \in Diff
  <2>1. ~asKeyframe => Reconstruct(known, md, diff, v - 1) # NoText
    BY DEF StoredAsKeyframe
  <2>2. Reconstruct(known, md, diff, v - 1) \in Text \union {NoText}
    BY RebuiltIsText
  <2>3. QED
    BY <1>1, <2>1, <2>2 DEF ArtifactOf, Diff
<1> HIDE DEF asKeyframe, patch
<1>6. CASE asKeyframe
  <2>1. md' \in KeyframeFiles /\ diff' \in DiffFiles /\ md'[v] = text
        /\ \A u \in Version \ {v} : md'[u] = md[u]
    BY <1>1, <1>2, <1>3, <1>6 DEF KeyframeFiles, DiffFiles
  <2>2. SealedOnDisk(md', diff') = SealedOnDisk(md, diff) \union {v}
    BY <1>1, <1>2, <1>6, <2>1 DEF SealedOnDisk
  <2>3. QED
    BY <1>1, <1>2, <1>4, <1>6, <2>1, <2>2
<1>7. CASE ~asKeyframe
  <2>1. md' \in KeyframeFiles /\ diff' \in DiffFiles /\ diff'[v] # NoDiff
        /\ \A u \in Version \ {v} : diff'[u] = diff[u]
    BY <1>1, <1>2, <1>3, <1>5, <1>7 DEF KeyframeFiles, DiffFiles
  <2>2. SealedOnDisk(md', diff') = SealedOnDisk(md, diff) \union {v}
    BY <1>1, <1>2, <1>7, <2>1 DEF SealedOnDisk
  <2>3. QED
    BY <1>1, <1>2, <1>4, <1>7, <2>1, <2>2
<1>8. QED
  BY <1>4, <1>6, <1>7

\* createVersion's exclusive create, whether it succeeds or meets a leftover.
LEMMA SealKeepsLedger ==
  ASSUME LedgerInv, NEW next \in {"seeded", "append"},
         pc = IF next = "seeded" THEN "seed" ELSE "artifact",
         SealArtifact(next)
  PROVE  LedgerInv'
<1>1. CASE pc' = next
  <2>1. /\ text.version \in Version
        /\ md' \in KeyframeFiles /\ diff' \in DiffFiles /\ keyframe' \in BOOLEAN
        /\ \A v \in Version \ {text.version} : md'[v] = md[v] /\ diff'[v] = diff[v]
        /\ IF keyframe' THEN md'[text.version] = text ELSE diff'[text.version] # NoDiff
        /\ SealedOnDisk(md', diff') = SealedOnDisk(md, diff) \union {text.version}
        /\ UNCHANGED <<doc, ledger, entries, op, known, text, refused, written>>
    BY <1>1, SealedArtifact
  <2>2. TypeOK'
    BY <1>1, <2>1 DEF LedgerInv, TypeOK
  <2>3. \A i \in DOMAIN entries : entries[i].version \in Version \ {text.version}
    <3>1. \A i \in DOMAIN entries : entries[i] \in Entry
      BY DEF LedgerInv, TypeOK
    <3>2. \A i \in DOMAIN entries : entries[i].version \in Version
      BY <3>1 DEF Entry
    <3>3. CASE next = "seeded"
      <4>1. entries = <<>>
        BY <3>3 DEF LedgerInv, JobConsistent
      <4>2. DOMAIN entries = {}
        BY <4>1
      <4>3. QED
        BY <4>2
    <3>4. CASE next = "append"
      <4>1. \A v \in Recorded(entries) : v < text.version
        BY <3>4 DEF LedgerInv, JobConsistent
      <4>2. QED
        BY <2>1, <3>2, <4>1 DEF Recorded, Version
    <3>5. QED
      BY <3>3, <3>4
  <2>4. HistoryVerifies'
    BY <2>1, <2>3 DEF LedgerInv, HistoryVerifies, VerifyDocumentChain, ChainVerifies,
                      ContentVerifies
  <2>5. VersionsIncrease'
    BY <2>1 DEF LedgerInv, VersionsIncrease
  <2>6. ArtifactWritten'
    BY <1>1, <2>1 DEF ArtifactWritten
  <2>7. JobConsistent'
    <3>1. Recorded(entries)' = Recorded(entries)
      BY <2>1 DEF Recorded
    <3>2. next = "seeded" => RoomFor(text.version)'
      <4>1. {text.version} \union Recorded(entries) \union SealedOnDisk(md', diff')
              = {text.version} \union Recorded(entries) \union SealedOnDisk(md, diff)
        BY <2>1
      <4>2. NextVersion(text.version, entries, md', diff')
              = NextVersion(text.version, entries, md, diff)
        BY <4>1 DEF NextVersion
      <4>3. next = "seeded" => RoomFor(text.version)
        BY DEF LedgerInv, JobConsistent
      <4>4. QED
        BY <2>1, <4>2, <4>3 DEF RoomFor
    <3>3. QED
      BY <1>1, <2>1, <3>1, <3>2 DEF LedgerInv, JobConsistent
  <2>8. QED
    BY <2>2, <2>4, <2>5, <2>6, <2>7 DEF LedgerInv
<1>2. CASE pc' # next
  <2>1. Done /\ refused' = TRUE /\ UNCHANGED <<disk, written>>
    BY <1>2 DEF SealArtifact
  <2>2. QED
    BY <2>1, DoneKeepsLedger DEF disk, LedgerInv, TypeOK
<1>3. QED
  BY <1>1, <1>2

\* The start of an approval, a rollback or a direct edit.
LEMMA CommitReadKeepsLedger ==
  ASSUME LedgerInv, NEW body \in Body, NEW hint \in 0 .. MaxVersion, CommitRead(body, hint)
  PROVE  LedgerInv'
<1> DEFINE number == NextVersion(hint, entries, md, diff)
<1>1. number \in Version /\ \A v \in Recorded(entries) : v < number
  BY NextVersionOutranks DEF CommitRead, RoomFor, LedgerInv
<1> HIDE DEF number
<1>2. text' = [version |-> number, body |-> body] /\ text'.version = number
  BY DEF CommitRead, number
<1>3. VersionsIncrease' /\ HistoryVerifies' /\ Recorded(entries)' = Recorded(entries)
  BY SameLedger DEF CommitRead
<1>4. text' \in Text
  BY <1>1, <1>2, LedgerAssumption DEF Text, Version
<1>5. TypeOK'
  BY <1>4 DEF LedgerInv, TypeOK, CommitRead, QuarantineIfCorrupt
<1>6. JobConsistent'
  BY <1>1, <1>2, <1>3 DEF LedgerInv, JobConsistent, CommitRead, QuarantineIfCorrupt
<1>7. ArtifactWritten'
  BY DEF ArtifactWritten, CommitRead
<1>8. QED
  BY <1>3, <1>5, <1>6, <1>7 DEF LedgerInv

\* The append of createVersion: of the seed, of a publish, of a commit.
LEMMA AppendStepTypes ==
  ASSUME LedgerInv, pc \in {"seeded", "append"}, AppendVersionEntry, UNCHANGED <<md, diff>>
  PROVE  /\ ledger' = "ok" /\ entries' \in Seq(Entry)
         /\ written' \in [Version -> Text \union {NoText}]
         /\ VersionsIncrease' /\ HistoryVerifies'
<1>1. text.version \in Version /\ text \in Text
  BY DEF LedgerInv, JobConsistent, TypeOK
<1>2. QED
  BY <1>1, AppendKeepsLedger DEF AppendVersionEntry, LedgerInv, TypeOK

--------------------------------------------------------------------------------
(* The theorems.                                                           *)

LEMMA InitLedger == Init => LedgerInv
<1>1. <<>> \in Seq(Entry) /\ DOMAIN <<>> = {}
  BY EmptySeq
<1>2. SUFFICES ASSUME Init PROVE LedgerInv
  OBVIOUS
<1>3. TypeOK
  BY <1>1, <1>2, BlankIsText DEF Init, TypeOK, KeyframeFiles, DiffFiles
<1>4. VersionsIncrease /\ HistoryVerifies
  BY <1>1, <1>2 DEF Init, VersionsIncrease, HistoryVerifies, VerifyDocumentChain, ChainVerifies
<1>5. JobConsistent /\ ArtifactWritten
  BY <1>2 DEF Init, JobConsistent, ArtifactWritten
<1>6. QED
  BY <1>3, <1>4, <1>5 DEF LedgerInv

LEMMA PublishKeepsLedger == LedgerInv /\ Publish => LedgerInv'
<1> SUFFICES ASSUME LedgerInv, Publish PROVE LedgerInv'
  OBVIOUS
<1>1. CASE PublishRead
  <2>1. VersionsIncrease' /\ HistoryVerifies'
    BY <1>1, SameLedger DEF PublishRead
  <2>2. TypeOK'
    BY <1>1 DEF PublishRead, QuarantineIfCorrupt, LedgerInv, TypeOK
  <2>3. RoomFor(text.version)'
    BY <1>1 DEF PublishRead, RoomFor
  <2>4. NeedsSeed => doc.version \in Version /\ entries = <<>>
    BY LedgerAssumption DEF NeedsSeed, LedgerInv, TypeOK, JobConsistent, Text, Version
  <2>5. JobConsistent'
    BY <1>1, <2>3, <2>4 DEF PublishRead, QuarantineIfCorrupt, LedgerInv, TypeOK, JobConsistent
  <2>6. ArtifactWritten'
    BY <1>1 DEF PublishRead, ArtifactWritten
  <2>7. QED
    BY <2>1, <2>2, <2>5, <2>6 DEF LedgerInv
<1>2. CASE SeedArtifact
  BY <1>2, SealKeepsLedger DEF SeedArtifact
<1>3. CASE SeedAppend
  <2>1. /\ ledger' = "ok" /\ entries' \in Seq(Entry)
        /\ written' \in [Version -> Text \union {NoText}]
        /\ VersionsIncrease' /\ HistoryVerifies'
        /\ Recorded(entries)' = Recorded(entries) \union {text.version}
    BY <1>3, AppendStepTypes, AppendKeepsLedger DEF SeedAppend
  <2>2. TypeOK'
    BY <1>3, <2>1 DEF SeedAppend, LedgerInv, TypeOK
  <2>3. RoomFor(text.version)'
    <3>1. RoomFor(text.version)
      BY <1>3 DEF SeedAppend, LedgerInv, JobConsistent
    <3>2. {text.version} \union Recorded(entries') \union SealedOnDisk(md, diff)
            = {text.version} \union Recorded(entries) \union SealedOnDisk(md, diff)
      BY <2>1
    <3>3. QED
      BY <1>3, <3>1, <3>2 DEF RoomFor, NextVersion, SeedAppend
  <2>4. JobConsistent'
    BY <1>3, <2>1, <2>3 DEF SeedAppend, LedgerInv, JobConsistent
  <2>5. ArtifactWritten'
    BY <1>3 DEF SeedAppend, ArtifactWritten
  <2>6. QED
    BY <2>1, <2>2, <2>4, <2>5 DEF LedgerInv
<1>4. CASE PublishLive
  <2> DEFINE number == NextVersion(text.version, entries, md, diff)
  <2>1. text \in Text /\ text.version \in 0 .. MaxVersion /\ known = entries
    BY <1>4 DEF PublishLive, LedgerInv, TypeOK, JobConsistent, Text
  <2>2. number \in Version /\ \A v \in Recorded(entries) : v < number
    BY <1>4, <2>1, NextVersionOutranks DEF PublishLive, RoomFor, LedgerInv, JobConsistent
  <2> HIDE DEF number
  <2>3. text' = [text EXCEPT !.version = number]
    BY <1>4, <2>1 DEF PublishLive, number
  <2>4. text' \in Text /\ text'.version = number
    BY <2>1, <2>2, <2>3, LedgerAssumption DEF Text, Version
  <2>5. VersionsIncrease' /\ HistoryVerifies' /\ Recorded(entries)' = Recorded(entries)
    BY <1>4, SameLedger DEF PublishLive
  <2>6. TypeOK'
    BY <1>4, <2>4 DEF PublishLive, LedgerInv, TypeOK
  <2>7. JobConsistent'
    BY <1>4, <2>2, <2>4, <2>5 DEF PublishLive, LedgerInv, JobConsistent
  <2>8. ArtifactWritten'
    BY <1>4 DEF PublishLive, ArtifactWritten
  <2>9. QED
    BY <2>5, <2>6, <2>7, <2>8 DEF LedgerInv
<1>5. CASE PublishArtifact
  BY <1>5, SealKeepsLedger DEF PublishArtifact
<1>6. CASE PublishAppend
  <2>1. /\ ledger' = "ok" /\ entries' \in Seq(Entry)
        /\ written' \in [Version -> Text \union {NoText}]
        /\ VersionsIncrease' /\ HistoryVerifies'
    BY <1>6, AppendStepTypes DEF PublishAppend
  <2>2. <<>> \in Seq(Entry)
    BY EmptySeq
  <2>3. TypeOK'
    BY <1>6, <2>1, <2>2, BlankIsText DEF PublishAppend, Done, LedgerInv, TypeOK
  <2>4. JobConsistent' /\ ArtifactWritten'
    BY <1>6, <2>1 DEF PublishAppend, Done, JobConsistent, ArtifactWritten
  <2>5. QED
    BY <2>1, <2>3, <2>4 DEF LedgerInv
<1>7. QED
  BY <1>1, <1>2, <1>3, <1>4, <1>5, <1>6 DEF Publish

LEMMA CommitKeepsLedger == LedgerInv /\ Commit => LedgerInv'
<1> SUFFICES ASSUME LedgerInv, Commit PROVE LedgerInv'
  OBVIOUS
<1>1. \A v : Reconstruct(entries, md, diff, v) # NoText =>
        /\ v \in 0 .. MaxVersion
        /\ Reconstruct(entries, md, diff, v).body \in Body
  <2>1. SUFFICES ASSUME NEW v, Reconstruct(entries, md, diff, v) # NoText
                 PROVE  /\ v \in 0 .. MaxVersion
                        /\ Reconstruct(entries, md, diff, v).body \in Body
    OBVIOUS
  <2>2. v \in Recorded(entries) /\ Reconstruct(entries, md, diff, v) \in Text
    BY <2>1 DEF Reconstruct
  <2>3. \A i \in DOMAIN entries : entries[i] \in Entry
    BY DEF LedgerInv, TypeOK
  <2>4. v \in Version
    BY <2>2, <2>3 DEF Recorded, Entry
  <2>5. QED
    BY <2>2, <2>4, LedgerAssumption DEF Text, Version
<1>2. CASE \E given \in Text : Approve(given)
  BY <1>2, CommitReadKeepsLedger DEF Approve, Text
<1>3. CASE \E given \in Text : CzarDirectEdit(given)
  BY <1>3, CommitReadKeepsLedger DEF CzarDirectEdit, Text
<1>4. CASE \E version \in Version : Rollback(version)
  BY <1>1, <1>4, CommitReadKeepsLedger DEF Rollback
<1>5. CASE CommitArtifact
  BY <1>5, SealKeepsLedger DEF CommitArtifact
<1>6. CASE CommitAppend
  <2>1. /\ ledger' = "ok" /\ entries' \in Seq(Entry)
        /\ written' \in [Version -> Text \union {NoText}]
        /\ VersionsIncrease' /\ HistoryVerifies'
    BY <1>6, AppendStepTypes DEF CommitAppend
  <2>2. TypeOK'
    BY <1>6, <2>1 DEF CommitAppend, LedgerInv, TypeOK
  <2>3. JobConsistent' /\ ArtifactWritten'
    BY <1>6, <2>1 DEF CommitAppend, LedgerInv, JobConsistent, ArtifactWritten
  <2>4. QED
    BY <2>1, <2>2, <2>3 DEF LedgerInv
<1>7. CASE CommitLive
  <2>1. doc' \in Text
    BY <1>7 DEF CommitLive, LedgerInv, TypeOK
  <2>2. QED
    BY <1>7, <2>1, DoneKeepsLedger DEF CommitLive, LedgerInv, TypeOK
<1>8. QED
  BY <1>2, <1>3, <1>4, <1>5, <1>6, <1>7 DEF Commit

LEMMA NextLedger == LedgerInv /\ [Next]_vars => LedgerInv'
<1> SUFFICES ASSUME LedgerInv, [Next]_vars PROVE LedgerInv'
  OBVIOUS
<1>1. CASE Publish
  BY <1>1, PublishKeepsLedger
<1>2. CASE Commit
  BY <1>2, CommitKeepsLedger
<1>3. CASE \E edited \in Text : HandEdit(edited)
  <2>1. doc' \in Text /\ UNCHANGED <<ledger, entries, md, diff, op, pc, known, text,
                                     keyframe, refused, written>>
    BY <1>3 DEF HandEdit
  <2>2. VersionsIncrease' /\ HistoryVerifies' /\ Recorded(entries)' = Recorded(entries)
    BY <2>1, SameLedger
  <2>3. TypeOK'
    BY <2>1 DEF LedgerInv, TypeOK
  <2>4. JobConsistent' /\ ArtifactWritten'
    BY <2>1, <2>2 DEF LedgerInv, JobConsistent, ArtifactWritten, RoomFor
  <2>5. QED
    BY <2>2, <2>3, <2>4 DEF LedgerInv
<1>4. CASE Crash
  BY <1>4, DoneKeepsLedger DEF Crash, disk, LedgerInv, TypeOK
<1>5. CASE TearHistory
  <2>1. /\ ledger' = "corrupt" /\ entries' = <<>> /\ Done
        /\ UNCHANGED <<doc, md, diff, refused>>
        /\ written' = [v \in Version |-> NoText]
    BY <1>5 DEF TearHistory
  <2>2. <<>> \in Seq(Entry) /\ DOMAIN <<>> = {}
    BY EmptySeq
  <2>3. VersionsIncrease' /\ HistoryVerifies'
    BY <2>1, <2>2 DEF VersionsIncrease, HistoryVerifies, VerifyDocumentChain, ChainVerifies
  <2>4. TypeOK'
    BY <2>1, <2>2, BlankIsText DEF Done, LedgerInv, TypeOK
  <2>5. JobConsistent' /\ ArtifactWritten'
    BY <2>1 DEF Done, JobConsistent, ArtifactWritten
  <2>6. QED
    BY <2>3, <2>4, <2>5 DEF LedgerInv
<1>6. CASE UNCHANGED vars
  <2>1. VersionsIncrease' /\ HistoryVerifies' /\ Recorded(entries)' = Recorded(entries)
    BY <1>6, SameLedger DEF vars
  <2>2. TypeOK' /\ JobConsistent' /\ ArtifactWritten'
    BY <1>6, <2>1 DEF vars, LedgerInv, TypeOK, JobConsistent, ArtifactWritten, RoomFor
  <2>3. QED
    BY <2>1, <2>2 DEF LedgerInv
<1>7. QED
  BY <1>1, <1>2, <1>3, <1>4, <1>5, <1>6 DEF Next

\* The inductive invariant of every execution: an operation in flight has read
\* the history as it still is, and what it is about to record outranks it.
THEOREM Ledger == Spec => []LedgerInv
<1>1. QED
  BY InitLedger, NextLedger, PTL DEF Spec

\* Numbering of publish.ts and approval.ts through nextVersion: however the
\* operations, crashes, torn histories and hand edits interleave, no version is
\* recorded twice in a history, nor out of order.
THEOREM Numbering == Spec => []VersionsIncrease
<1>1. LedgerInv => VersionsIncrease
  BY DEF LedgerInv
<1>2. QED
  BY <1>1, Ledger, PTL

\* Whatever an operation leaves behind when it dies, the history on disk passes
\* verifyDocumentChain: createVersion seals the artifact before the entry that
\* hashes it and never writes over one that is recorded.
THEOREM Verifiable == Spec => []HistoryVerifies
<1>1. LedgerInv => HistoryVerifies
  BY DEF LedgerInv
<1>2. QED
  BY <1>1, Ledger, PTL

--------------------------------------------------------------------------------
(* A number denotes one text.                                              *)

LEMMA NextVersionIsFree ==
  ASSUME TypeOK, NEW hint \in 0 .. MaxVersion
  PROVE  NextVersion(hint, entries, md, diff) \notin SealedOnDisk(md, diff)
<1> DEFINE Taken == {hint} \union Recorded(entries) \union SealedOnDisk(md, diff)
<1>1. \A i \in DOMAIN entries : entries[i].version \in Version
  <2>1. \A i \in DOMAIN entries : entries[i] \in Entry
    BY DEF TypeOK
  <2>2. QED
    BY <2>1 DEF Entry
<1>2. Taken \subseteq 0 .. MaxVersion
  BY <1>1, LedgerAssumption DEF Recorded, SealedOnDisk, Version
<1>3. LeastAbove(Taken) \in Nat /\ \A s \in Taken : s \in Nat /\ s < LeastAbove(Taken)
  BY <1>2, LeastAboveOutranks, LedgerAssumption
<1>4. QED
  BY <1>3 DEF NextVersion

\* The number chosen is free, and stays so until its artifact is sealed.
LEMMA NumberKept ==
  ASSUME LedgerInv, NumberFree, [Next]_vars
  PROVE  /\ NumberFree'
         /\ \A v \in SealedOnDisk(md, diff) :
              pc = "seed" \/ (md'[v] = md[v] /\ diff'[v] = diff[v])
<1>1. ASSUME NEW next \in {"seeded", "append"}, SealArtifact(next), pc = "artifact"
      PROVE  /\ pc' # "artifact"
             /\ \A v \in SealedOnDisk(md, diff) : md'[v] = md[v] /\ diff'[v] = diff[v]
  BY <1>1 DEF SealArtifact, Done, disk, NumberFree, SealedOnDisk, LedgerInv, TypeOK,
              KeyframeFiles, DiffFiles
<1>2. CASE PublishArtifact \/ CommitArtifact
  BY <1>1, <1>2 DEF PublishArtifact, CommitArtifact, NumberFree
<1>3. CASE SeedArtifact
  BY <1>3 DEF SeedArtifact, SealArtifact, Done, NumberFree
<1>4. ASSUME NEW body, NEW hint \in 0 .. MaxVersion, CommitRead(body, hint)
      PROVE  NumberFree' /\ UNCHANGED <<md, diff>>
  <2>1. text'.version = NextVersion(hint, entries, md, diff)
    BY <1>4 DEF CommitRead
  <2>2. QED
    BY <1>4, <2>1, NextVersionIsFree DEF CommitRead, NumberFree, LedgerInv
<1>5. CASE PublishLive
  <2>1. known = entries /\ text \in Text /\ text.version \in 0 .. MaxVersion
    BY <1>5 DEF PublishLive, LedgerInv, JobConsistent, TypeOK, Text
  <2>2. text'.version = NextVersion(text.version, entries, md, diff)
    BY <1>5, <2>1 DEF PublishLive, Text
  <2>3. QED
    BY <1>5, <2>1, <2>2, NextVersionIsFree DEF PublishLive, NumberFree, LedgerInv
<1>6. CASE \E given \in Text : Approve(given) \/ CzarDirectEdit(given)
  BY <1>4, <1>6 DEF Approve, CzarDirectEdit, Text
<1>7. CASE \E version \in Version : Rollback(version)
  BY <1>4, <1>7, LedgerAssumption DEF Rollback, Version
<1>8. CASE PublishRead \/ SeedAppend \/ PublishAppend \/ CommitAppend \/ CommitLive
           \/ (\E edited \in Text : HandEdit(edited)) \/ Crash \/ TearHistory \/ UNCHANGED vars
  BY <1>8 DEF PublishRead, SeedAppend, PublishAppend, CommitAppend, CommitLive, HandEdit,
              Crash, TearHistory, Done, disk, vars, NumberFree, SealedOnDisk
<1>9. QED
  BY <1>2, <1>3, <1>5, <1>6, <1>7, <1>8 DEF Next, Publish, Commit

\* versioning.ts:69-71, "no v{N}.md / v{N}.diff is ever reused": past a torn history
\* and the artifacts of dead writers, no number that is on disk is numbered again.
THEOREM NumbersStay == Spec => NumberNeverReused
<1>1. Init => NumberFree
  BY DEF Init, NumberFree
<1>2. LedgerInv /\ NumberFree /\ [Next]_vars => NumberFree'
  BY NumberKept
<1>3. LedgerInv /\ NumberFree /\ [Next]_vars =>
        [\A v \in SealedOnDisk(md, diff) :
           pc = "seed" \/ (md'[v] = md[v] /\ diff'[v] = diff[v])]_vars
  BY NumberKept
<1>4. QED
  BY <1>1, <1>2, <1>3, Ledger, PTL DEF Spec, NumberNeverReused

--------------------------------------------------------------------------------
(* Replay: the fold of reconstructFromHistory.                             *)

\* A set whose greatest element is known.
LEMMA Greatest ==
  ASSUME NEW k \in Nat, NEW s, s \subseteq 1 .. k, k \in s
  PROVE  Max(s) = k
<1>1. \A x \in s : x \in Nat /\ k >= x
  OBVIOUS
<1>2. \A m \in s : (\A x \in s : m >= x) => m = k
  BY <1>1
<1>3. QED
  BY <1>1, <1>2 DEF Max

\* One step of the replay from an anchor.
Replayed(anchor, t, entry) == IF entry.version > anchor THEN ReplayEntry(t, entry, md, diff) ELSE t

\* What has been rebuilt, from the entries of each set of positions.
Rebuilt(h, base, anchor, list, s) ==
  h[s] = IF s = {} THEN base ELSE Replayed(anchor, h[s \ {Max(s)}], list[Max(s)])

\* The fold.
Replay(base, anchor, list) ==
  (CHOOSE h : h = [s \in SUBSET DOMAIN list |->
                     IF s = {} THEN base ELSE Replayed(anchor, h[s \ {Max(s)}], list[Max(s)])])
    [DOMAIN list]

\* A rebuild is that fold over the replay list, from the anchor's file.
LEMMA RebuildFolds ==
  ASSUME NEW target
  PROVE  LET anchor == AnchorVersion(entries, target)
         IN  Rebuild(entries, md, diff, target) =
               Replay(md[anchor], anchor, ReplayList(entries, anchor, target))
BY DEF Rebuild, FoldLeft, MapThenFoldSet, Replayed, Replay

\* The fold is defined on the sets of the first positions, however many.
LEMMA RebuiltExists ==
  ASSUME NEW base, NEW anchor, NEW list, NEW n \in Nat
  PROVE  \E h : \A s \in SUBSET (1 .. n) : Rebuilt(h, base, anchor, list, s)
<1> DEFINE T == {k \in Nat : ~\E h : \A s \in SUBSET (1 .. k) : Rebuilt(h, base, anchor, list, s)}
<1>1. SUFFICES ASSUME T # {} PROVE FALSE
  OBVIOUS
<1>2. T \subseteq Nat
  OBVIOUS
<1>3. PICK k \in T : \A j \in T : k <= j
  BY <1>1, <1>2, LeastElement
<1>4. CASE k = 0
  <2> DEFINE h == [s \in {{}} |-> base]
  <2>1. \A s \in SUBSET (1 .. 0) : s = {}
    OBVIOUS
  <2>2. \A s \in SUBSET (1 .. 0) : Rebuilt(h, base, anchor, list, s)
    BY <2>1 DEF Rebuilt
  <2>3. QED
    BY <1>3, <1>4, <2>2
<1>5. CASE k # 0
  <2>1. k \in Nat /\ k - 1 \in Nat /\ k - 1 \notin T
    BY <1>3, <1>5
  <2>2. PICK g : \A s \in SUBSET (1 .. k - 1) : Rebuilt(g, base, anchor, list, s)
    BY <2>1
  <2> DEFINE h == [s \in SUBSET (1 .. k) |->
                     IF k \in s THEN Replayed(anchor, g[s \ {k}], list[k]) ELSE g[s]]
  <2>3. ASSUME NEW s \in SUBSET (1 .. k)
        PROVE  Rebuilt(h, base, anchor, list, s)
    <3>1. CASE k \in s
      <4>1. Max(s) = k /\ s # {}
        BY <2>1, <2>3, <3>1, Greatest
      <4>2. s \ {k} \in SUBSET (1 .. k) /\ k \notin s \ {k}
        BY <2>3
      <4>3. h[s \ {k}] = g[s \ {k}]
        BY <4>2
      <4>4. h[s] = Replayed(anchor, g[s \ {k}], list[k])
        BY <2>3, <3>1
      <4> HIDE DEF h
      <4>5. QED
        BY <4>1, <4>3, <4>4 DEF Rebuilt
    <3>2. CASE k \notin s
      <4>1. s \in SUBSET (1 .. k - 1)
        BY <2>1, <2>3, <3>2
      <4>2. Rebuilt(g, base, anchor, list, s)
        BY <2>2, <4>1
      <4>3. s \ {Max(s)} \in SUBSET (1 .. k) /\ k \notin s \ {Max(s)}
        BY <2>3, <3>2
      <4>4. h[s] = g[s] /\ h[s \ {Max(s)}] = g[s \ {Max(s)}]
        BY <2>3, <3>2, <4>3
      <4> HIDE DEF h
      <4>5. QED
        BY <4>2, <4>4 DEF Rebuilt
    <3>3. QED
      BY <3>1, <3>2
  <2>4. \E f : \A s \in SUBSET (1 .. k) : Rebuilt(f, base, anchor, list, s)
    <3> HIDE DEF h
    <3>1. QED
      BY <2>3
  <2>5. QED
    BY <1>3, <2>4
<1>6. QED
  BY <1>4, <1>5

\* The fold, step by step.
LEMMA FoldSteps ==
  ASSUME NEW base, NEW anchor, NEW list, NEW n \in Nat, DOMAIN list = 1 .. n
  PROVE  \E r : /\ r[0] = base
                /\ \A k \in 1 .. n : r[k] = Replayed(anchor, r[k - 1], list[k])
                /\ Replay(base, anchor, list) = r[n]
<1> DEFINE Right(h) == h = [s \in SUBSET (1 .. n) |->
                              IF s = {} THEN base
                              ELSE Replayed(anchor, h[s \ {Max(s)}], list[Max(s)])]
<1>1. \E h : Right(h)
  <2>1. PICK g : \A s \in SUBSET (1 .. n) : Rebuilt(g, base, anchor, list, s)
    BY RebuiltExists
  <2> DEFINE h == [s \in SUBSET (1 .. n) |-> g[s]]
  <2>2. ASSUME NEW s \in SUBSET (1 .. n)
        PROVE  h[s] = IF s = {} THEN base ELSE Replayed(anchor, h[s \ {Max(s)}], list[Max(s)])
    <3>1. s \ {Max(s)} \in SUBSET (1 .. n)
      BY <2>2
    <3>2. h[s] = g[s] /\ h[s \ {Max(s)}] = g[s \ {Max(s)}]
      BY <2>2, <3>1
    <3> HIDE DEF h
    <3>3. QED
      BY <2>1, <2>2, <3>2 DEF Rebuilt
  <2>3. h = [s \in SUBSET (1 .. n) |-> h[s]]
    OBVIOUS
  <2> HIDE DEF h
  <2>4. Right(h)
    BY <2>2, <2>3
  <2>5. QED
    BY <2>4
<1> DEFINE f == CHOOSE h : Right(h)
<1>2. Right(f)
  BY <1>1
<1>3. Replay(base, anchor, list) = f[1 .. n]
  BY DEF Replay
<1> HIDE DEF f
<1> DEFINE r == [k \in 0 .. n |-> f[1 .. k]]
<1>4. r[0] = base
  <2>1. 1 .. 0 = {} /\ 0 \in 0 .. n
    OBVIOUS
  <2>2. f[{}] = base
    BY <1>2
  <2>3. QED
    BY <2>1, <2>2, Zenon
<1>5. ASSUME NEW k \in 1 .. n
      PROVE  r[k] = Replayed(anchor, r[k - 1], list[k])
  <2>1. 1 .. k \in SUBSET (1 .. n) /\ k \in 1 .. k /\ k \in Nat
    BY <1>5
  <2>2. Max(1 .. k) = k
    BY <2>1, Greatest
  <2>3. (1 .. k) \ {k} = 1 .. k - 1
    BY <2>1
  <2>4. 1 .. k # {}
    BY <2>1
  <2>5. f[1 .. k] = Replayed(anchor, f[(1 .. k) \ {Max(1 .. k)}], list[Max(1 .. k)])
    BY <1>2, <2>1, <2>4
  <2>6. r[k] = f[1 .. k] /\ r[k - 1] = f[1 .. k - 1]
    BY <1>5
  <2>7. QED
    BY <2>2, <2>3, <2>5, <2>6
<1>6. Replay(base, anchor, list) = r[n]
  BY <1>3
<1> HIDE DEF r
<1>7. QED
  BY <1>4, <1>5, <1>6

\* Every non-empty set of naturals up to a bound has a greatest element.
LEMMA GreatestElement ==
  ASSUME NEW n \in Nat, NEW S, S \subseteq 1 .. n, S # {}
  PROVE  \E x \in S : \A y \in S : y <= x
<1> DEFINE T == {n - y : y \in S}
<1>1. T \subseteq Nat /\ T # {}
  <2>1. \A y \in S : n - y \in Nat
    OBVIOUS
  <2>2. QED
    BY <2>1
<1>2. PICK m \in T : \A z \in T : m <= z
  BY <1>1, LeastElement
<1>3. PICK x \in S : m = n - x
  OBVIOUS
<1>4. \A y \in S : n - x <= n - y
  BY <1>2, <1>3
<1>5. QED
  BY <1>3, <1>4

\* Every entry stands for the text it was recorded for.
Faithful == \A i \in DOMAIN entries : EntryFaithful(i)

\* What a target's replay starts from, and how far it goes.
LEMMA ReplaySpan ==
  ASSUME TypeOK, VersionsIncrease, Faithful, NEW t \in DOMAIN entries
  PROVE  LET v == entries[t].version
         IN  \E a \in 1 .. t :
               /\ entries[a].keyframe /\ \A i \in 1 .. t : i > a => ~entries[i].keyframe
               /\ Anchors(entries, v) # {}
               /\ AnchorVersion(entries, v) = entries[a].version
               /\ ReplayList(entries, entries[a].version, v) = SubSeq(entries, 1, t)
<1> DEFINE n == Len(entries)
           v == entries[t].version
           A == {i \in 1 .. t : entries[i].keyframe}
<1>1. DOMAIN entries = 1 .. n /\ n \in Nat /\ t \in 1 .. n
  BY LenProperties DEF TypeOK
<1>2. \A i \in 1 .. n : entries[i] \in Entry
  BY <1>1 DEF TypeOK
<1>3. \A i \in 1 .. n : entries[i].version \in Nat
  BY <1>2, LedgerAssumption DEF Entry, Version
<1>4. \A i, j \in 1 .. n : i < j => entries[i].version < entries[j].version
  BY <1>1 DEF VersionsIncrease
<1>5. \A i, j \in 1 .. n : entries[i].version <= entries[j].version <=> i <= j
  BY <1>1, <1>3, <1>4
<1>6. \A i \in 1 .. n : ~entries[i].tombstone
  BY <1>1 DEF Faithful, EntryFaithful
<1>7. Anchors(entries, v) = A
  BY <1>1, <1>5, <1>6 DEF Anchors
<1>8. A # {}
  <2>1. 1 \in DOMAIN entries /\ 1 \in 1 .. t /\ ~(1 > 1)
    BY <1>1
  <2>2. EntryFaithful(1)
    BY <2>1, Zenon DEF Faithful
  <2>3. entries[1].keyframe
    BY <2>1, <2>2, Zenon DEF EntryFaithful
  <2>4. QED
    BY <2>1, <2>3
<1>9. PICK a \in A : \A j \in A : j <= a
  <2>1. t \in Nat /\ A \subseteq 1 .. t
    BY <1>1
  <2>2. QED
    BY <1>8, <2>1, GreatestElement
<1>10. a \in 1 .. t /\ a \in 1 .. n /\ entries[a].keyframe
       /\ \A i \in 1 .. t : i > a => ~entries[i].keyframe
  BY <1>1, <1>9
<1>11. AnchorVersion(entries, v) = entries[a].version
  <2>1. \A i \in A : (\A j \in A : j <= i) => i = a
    BY <1>1, <1>9
  <2>2. (CHOOSE i \in A : \A j \in A : j <= i) = a
    BY <1>9, <2>1
  <2>3. QED
    BY <1>7, <2>2, Zenon DEF AnchorVersion
<1>12. ReplayList(entries, entries[a].version, v) = SubSeq(entries, 1, t)
  <2> DEFINE past == {i \in DOMAIN entries : entries[i].version > entries[a].version
                                            /\ entries[i].version > v}
             first == CHOOSE i \in past : \A j \in past : i <= j
             upTo == IF past = {} THEN Len(entries) ELSE first - 1
  <2>1. past = {i \in 1 .. n : i > t}
    BY <1>1, <1>3, <1>5, <1>10
  <2>2. upTo = t
    <3>1. CASE t = n
      BY <1>1, <2>1, <3>1
    <3>2. CASE t # n
      <4>1. t + 1 \in past /\ \A j \in past : t + 1 <= j
        BY <1>1, <2>1, <3>2
      <4>2. \A i \in past : (\A j \in past : i <= j) => i = t + 1
        BY <1>1, <2>1, <4>1
      <4> HIDE DEF past
      <4>3. first = t + 1
        BY <4>1, <4>2
      <4> HIDE DEF first
      <4>4. past # {} /\ t \in Nat
        BY <1>1, <4>1
      <4>5. QED
        BY <4>3, <4>4
    <3>3. QED
      BY <3>1, <3>2
  <2>3. ReplayList(entries, entries[a].version, v) = SubSeq(entries, 1, upTo)
    BY DEF ReplayList
  <2>4. QED
    BY <2>2, <2>3, Zenon
<1>13. QED
  BY <1>7, <1>8, <1>10, <1>11, <1>12

\* The replay of a recorded version ends in the text it was recorded for.
LEMMA ReadsBack ==
  ASSUME TypeOK, VersionsIncrease, HistoryVerifies, Faithful, NEW t \in DOMAIN entries
  PROVE  Reconstruct(entries, md, diff, entries[t].version) = written[entries[t].version]
<1> USE NothingAssumption
<1> DEFINE n == Len(entries)
           v == entries[t].version
<1>1. DOMAIN entries = 1 .. n /\ n \in Nat /\ t \in 1 .. n
  BY LenProperties DEF TypeOK
<1>2. \A i \in 1 .. n : entries[i] \in Entry
  BY <1>1 DEF TypeOK
<1>3. \A i \in 1 .. n : entries[i].version \in Nat /\ entries[i].version \in Version
  BY <1>2, LedgerAssumption DEF Entry, Version
<1>4. \A i, j \in 1 .. n : i < j => entries[i].version < entries[j].version
  BY <1>1 DEF VersionsIncrease
<1>5. \A i, j \in 1 .. n : entries[i].version <= entries[j].version <=> i <= j
  BY <1>1, <1>3, <1>4
<1>6. PICK a \in 1 .. t :
         /\ entries[a].keyframe /\ \A i \in 1 .. t : i > a => ~entries[i].keyframe
         /\ Anchors(entries, v) # {}
         /\ AnchorVersion(entries, v) = entries[a].version
         /\ ReplayList(entries, entries[a].version, v) = SubSeq(entries, 1, t)
  BY ReplaySpan
<1> DEFINE w == entries[a].version
           list == SubSeq(entries, 1, t)
<1>7. DOMAIN list = 1 .. t /\ \A k \in 1 .. t : list[k] = entries[k]
  <2>1. entries \in Seq(Entry)
    BY DEF TypeOK
  <2>2. Len(list) = t /\ list \in Seq(Entry) /\ \A k \in 1 .. t : list[k] = entries[k]
    BY <1>1, <2>1, SubSeqProperties
  <2>3. QED
    BY <1>1, <2>2, LenProperties
<1>8. PICK r : /\ r[0] = md[w]
               /\ \A k \in 1 .. t : r[k] = Replayed(w, r[k - 1], list[k])
               /\ Rebuild(entries, md, diff, v) = r[t]
  <2>1. Rebuild(entries, md, diff, v) = Replay(md[w], w, list)
    BY <1>6, RebuildFolds
  <2>2. t \in Nat
    BY <1>1
  <2> HIDE DEF list, w, v
  <2>3. QED
    BY <1>7, <2>1, <2>2, FoldSteps
<1> DEFINE At(k) == IF k <= a THEN w ELSE entries[k].version
           T == {k \in 0 .. t : r[k] # written[At(k)]}
<1>9. a \in 1 .. n /\ a \in Nat /\ t \in Nat /\ w \in Nat
  BY <1>1, <1>3
<1>10. md[w] = written[w] /\ written[w] \in Text
  <2>1. entries[a].keyframe /\ EntryFaithful(a)
    BY <1>1, <1>6, <1>9 DEF Faithful
  <2>2. md[w] \in {NoText, entries[a].hash} /\ md[w] # NoText
    BY <1>1, <1>9, <2>1 DEF HistoryVerifies, VerifyDocumentChain, ContentVerifies, EntryFaithful
  <2>3. QED
    BY <2>1, <2>2 DEF EntryFaithful
<1>11. T = {}
  <2>1. SUFFICES ASSUME T # {} PROVE FALSE
    OBVIOUS
  <2>2. T \subseteq Nat
    OBVIOUS
  <2>3. PICK k \in T : \A j \in T : k <= j
    BY <2>1, <2>2, LeastElement
  <2>4. k # 0
    BY <1>8, <1>9, <1>10, <2>3
  <2>5. k \in 1 .. t /\ k - 1 \in 0 .. t /\ k - 1 \notin T /\ k \in 1 .. n
    BY <1>1, <2>3, <2>4
  <2>6. r[k - 1] = written[At(k - 1)]
    BY <2>5
  <2>7. r[k] = Replayed(w, r[k - 1], entries[k])
    BY <1>7, <1>8, <2>5
  <2>8. CASE k <= a
    <3>1. ~(entries[k].version > w)
      BY <1>3, <1>5, <1>9, <2>5, <2>8
    <3>2. r[k] = r[k - 1] /\ At(k) = At(k - 1)
      BY <1>9, <2>5, <2>7, <2>8, <3>1 DEF Replayed
    <3>3. QED
      BY <2>3, <2>6, <3>2
  <2>9. CASE k > a
    <3>1. entries[k].version > w /\ k - 1 \in 1 .. n
      BY <1>3, <1>4, <1>9, <2>5, <2>9
    <3>2. At(k - 1) = entries[k - 1].version /\ At(k) = entries[k].version
      BY <1>9, <2>5, <2>9
    <3>3. ~entries[k].keyframe /\ EntryFaithful(k) /\ EntryFaithful(k - 1)
      BY <1>1, <1>6, <2>5, <2>9, <3>1 DEF Faithful
    <3>4. entries[k].hash = [from |-> written[entries[k - 1].version],
                             to |-> written[entries[k].version]]
          /\ ~entries[k].tombstone /\ written[entries[k - 1].version] \in Text
          /\ written[entries[k].version] \in Text
      BY <3>3 DEF EntryFaithful
    <3>5. diff[entries[k].version] = entries[k].hash
      BY <1>1, <2>5, <3>3, <3>4 DEF HistoryVerifies, VerifyDocumentChain, ContentVerifies
    <3>6. entries[k].hash \in Diff
      BY <3>4 DEF Diff
    <3>7. r[k] = ReplayEntry(r[k - 1], entries[k], md, diff)
      BY <2>7, <3>1 DEF Replayed
    <3>8. r[k - 1] = written[entries[k - 1].version] /\ r[k - 1] # NoText
      BY <2>6, <3>2, <3>4
    <3>9. r[k] = ApplyPatch(r[k - 1], entries[k].hash)
      BY <3>3, <3>4, <3>5, <3>6, <3>7, <3>8 DEF ReplayEntry
    <3>10. r[k] = written[entries[k].version]
      BY <3>4, <3>8, <3>9 DEF ApplyPatch
    <3>11. QED
      BY <2>3, <3>2, <3>10
  <2>10. QED
    BY <1>9, <2>5, <2>8, <2>9
<1>12. Rebuild(entries, md, diff, v) = written[v]
  <2>1. t \in 0 .. t
    BY <1>9
  <2>2. r[t] = written[At(t)]
    BY <1>11, <2>1
  <2>3. At(t) = v
    BY <1>9
  <2>4. QED
    BY <1>8, <2>2, <2>3
<1>13. v \in Recorded(entries)
  BY DEF Recorded
<1>14. ~Forgotten(entries, v)
  <2>1. {i \in DOMAIN entries : entries[i].version = v} = {t}
    BY <1>1, <1>3, <1>5
  <2>2. (CHOOSE i \in {t} : \A j \in {t} : i <= j) = t
    BY <1>9
  <2>3. ~entries[t].tombstone
    BY DEF Faithful, EntryFaithful
  <2>4. QED
    BY <2>1, <2>2, <2>3, Zenon DEF Forgotten
<1>15. written[v] \in Text
  BY DEF Faithful, EntryFaithful
<1>16. QED
  BY <1>6, <1>12, <1>13, <1>14, <1>15 DEF Reconstruct

\* A diff that is sealed leads from what the head of the history was recorded for.
LEMMA SealFaithful ==
  ASSUME FaithfulInv, NEW next \in {"seeded", "append"},
         pc = IF next = "seeded" THEN "seed" ELSE "artifact",
         SealArtifact(next)
  PROVE  Faithful' /\ ArtifactFaithful'
<1>1. LedgerInv /\ Faithful /\ TypeOK /\ VersionsIncrease /\ HistoryVerifies
  BY DEF FaithfulInv, Faithful, LedgerInv
<1>2. UNCHANGED <<entries, written>>
  BY DEF SealArtifact, Done, disk
<1>3. Faithful'
  BY <1>1, <1>2 DEF Faithful, EntryFaithful
<1>4. CASE pc' # next
  <2>1. pc' = "idle"
    BY <1>4 DEF SealArtifact, Done
  <2>2. QED
    BY <1>3, <2>1 DEF ArtifactFaithful
<1>5. CASE pc' = next
  <2> DEFINE v == text.version
             asKeyframe == StoredAsKeyframe(text, known, md, diff)
             before == Reconstruct(entries, md, diff, v - 1)
  <2>1. /\ keyframe' = asKeyframe /\ text' = text /\ known = entries
        /\ ~asKeyframe => diff' = [diff EXCEPT ![v] = [from |-> before, to |-> text]]
    <3>1. known = entries
      BY <1>1 DEF LedgerInv, JobConsistent
    <3>2. /\ keyframe' = asKeyframe /\ text' = text
          /\ ~asKeyframe => diff' = [diff EXCEPT ![v] = ArtifactOf(text, FALSE, known, md, diff)]
      BY <1>5 DEF SealArtifact, Done
    <3>3. QED
      BY <3>1, <3>2 DEF ArtifactOf
  <2>2. SUFFICES ASSUME ~keyframe'
                 PROVE  entries # <<>> /\ diff'[v] = [from |-> written[HeadVersion], to |-> text]
    BY <1>2, <1>3, <2>1 DEF ArtifactFaithful, HeadVersion
  <2>3. entries # <<>> /\ before # NoText
    BY <2>1, <2>2 DEF StoredAsKeyframe
  <2>4. next = "append" /\ v \in Version /\ \A u \in Recorded(entries) : u < v
    BY <1>1, <2>3 DEF LedgerInv, JobConsistent
  <2>5. v - 1 \in Recorded(entries)
    BY <2>3 DEF Reconstruct
  <2>6. Len(entries) \in DOMAIN entries /\ DOMAIN entries = 1 .. Len(entries) /\ Len(entries) \in Nat
    BY <1>1, <2>3, LenProperties, EmptySeq DEF TypeOK
  <2>7. \A i \in DOMAIN entries : entries[i].version \in Nat
    <3>1. \A i \in DOMAIN entries : entries[i] \in Entry
      BY <1>1 DEF TypeOK
    <3>2. QED
      BY <3>1, LedgerAssumption DEF Entry, Version
  <2>8. HeadVersion = v - 1
    <3>1. PICK i \in DOMAIN entries : entries[i].version = v - 1
      BY <2>5 DEF Recorded
    <3>2. HeadVersion < v /\ HeadVersion \in Nat
      BY <2>4, <2>6, <2>7 DEF HeadVersion, Recorded
    <3>3. entries[i].version <= HeadVersion
      <4>1. CASE i = Len(entries)
        BY <2>6, <2>7, <4>1 DEF HeadVersion
      <4>2. CASE i # Len(entries)
        BY <1>1, <2>6, <2>7, <4>2 DEF HeadVersion, VersionsIncrease
      <4>3. QED
        BY <4>1, <4>2
    <3>4. v \in Nat
      BY <2>4, LedgerAssumption DEF Version
    <3>5. QED
      BY <3>1, <3>2, <3>3, <3>4
  <2>9. before = written[HeadVersion]
    <3>1. Reconstruct(entries, md, diff, entries[Len(entries)].version)
            = written[entries[Len(entries)].version]
      BY <1>1, <2>6, ReadsBack
    <3>2. QED
      BY <2>8, <3>1 DEF HeadVersion
  <2> HIDE DEF before, asKeyframe
  <2>10. diff'[v] = [from |-> before, to |-> text]
    BY <1>1, <2>1, <2>2, <2>4 DEF TypeOK, DiffFiles
  <2>11. QED
    BY <2>3, <2>9, <2>10
<1>6. QED
  BY <1>4, <1>5

\* The entry appended stands for the text in hand.
LEMMA AppendFaithful ==
  ASSUME FaithfulInv, pc \in {"seeded", "append"}, AppendVersionEntry,
         UNCHANGED <<md, diff>>
  PROVE  Faithful'
<1> DEFINE n == Len(entries)
           v == text.version
           e == EntryNow
<1>1. LedgerInv /\ Faithful /\ TypeOK /\ text \in Text
  BY DEF FaithfulInv, Faithful, LedgerInv, TypeOK
<1>2. v \in Version /\ v \notin Recorded(entries)
  <2>1. CASE pc = "seeded"
    BY <1>1, <2>1 DEF LedgerInv, JobConsistent, Recorded
  <2>2. CASE pc = "append"
    BY <1>1, <2>2, LedgerAssumption DEF LedgerInv, JobConsistent, Version
  <2>3. QED
    BY <2>1, <2>2
<1>3. e \in Entry /\ e.version = v /\ ~e.tombstone
  BY <1>1, EntryNowVerifies
<1>4. /\ e.keyframe = keyframe
      /\ e.hash = IF keyframe THEN md[v] ELSE diff[v]
  BY DEF EntryNow, NewEntry
<1>5. entries' = Append(entries, e)
  BY DEF AppendVersionEntry
<1>6. written' = [written EXCEPT ![v] = text] /\ written \in [Version -> Text \union {NoText}]
  BY <1>1 DEF AppendVersionEntry, TypeOK
<1> HIDE DEF e
<1>7. /\ DOMAIN entries' = 1 .. n + 1 /\ n \in Nat
      /\ \A i \in 1 .. n : entries'[i] = entries[i]
      /\ entries'[n + 1] = e /\ DOMAIN entries = 1 .. n
  BY <1>1, <1>3, <1>5, AppendEntry
<1>8. \A i \in 1 .. n : entries[i].version \in Version \ {v}
  <2>1. \A i \in 1 .. n : entries[i] \in Entry
    BY <1>1, <1>7 DEF TypeOK
  <2>2. QED
    BY <1>2, <1>7, <2>1 DEF Entry, Recorded
<1>9. \A i \in 1 .. n : written'[entries[i].version] = written[entries[i].version]
  BY <1>6, <1>8
<1>10. written'[v] = text
  BY <1>2, <1>6
<1>11. ASSUME NEW i \in 1 .. n
       PROVE  EntryFaithful(i)'
  <2>1. EntryFaithful(i)
    BY <1>1, <1>7 DEF Faithful
  <2>2. i > 1 => i - 1 \in 1 .. n
    BY <1>7
  <2>3. QED
    BY <1>7, <1>9, <2>1, <2>2 DEF EntryFaithful
<1>12. ASSUME NEW i, i = n + 1
       PROVE  EntryFaithful(i)'
  <2>1. CASE keyframe
    <3>1. e.keyframe /\ e.hash = text
      BY <1>1, <1>4, <2>1 DEF LedgerInv, ArtifactWritten
    <3>2. ~entries'[i].tombstone /\ written'[entries'[i].version] = text
          /\ entries'[i].keyframe /\ entries'[i].hash = text
      BY <1>3, <1>7, <1>10, <1>12, <3>1
    <3>3. QED
      BY <1>1, <3>2 DEF EntryFaithful
  <2>2. CASE ~keyframe
    <3>1. entries # <<>> /\ e.hash = [from |-> written[HeadVersion], to |-> text] /\ ~e.keyframe
      BY <1>4, <2>2 DEF FaithfulInv, ArtifactFaithful
    <3>2. n \in 1 .. n /\ i > 1 /\ i - 1 = n
      BY <1>1, <1>7, <1>12, <3>1, LenProperties, EmptySeq DEF TypeOK
    <3>3. HeadVersion = entries'[i - 1].version
          /\ written[HeadVersion] = written'[HeadVersion]
      BY <1>7, <1>9, <1>12, <3>2 DEF HeadVersion
    <3>4. ~entries'[i].tombstone /\ written'[entries'[i].version] = text
          /\ ~entries'[i].keyframe
          /\ entries'[i].hash = [from |-> written'[entries'[i - 1].version], to |-> text]
      <4>1. ~entries'[i].tombstone /\ written'[entries'[i].version] = text
            /\ ~entries'[i].keyframe
        BY <1>3, <1>7, <1>10, <1>12, <3>1
      <4>2. entries'[i].hash = [from |-> written[HeadVersion], to |-> text]
        BY <1>7, <1>12, <3>1
      <4>3. QED
        BY <3>3, <4>1, <4>2
    <3>5. QED
      BY <1>1, <3>2, <3>4 DEF EntryFaithful
  <2>3. QED
    BY <2>1, <2>2
<1>13. Faithful'
  <2>1. \A i \in 1 .. n + 1 : i \in 1 .. n \/ i = n + 1
    BY <1>7
  <2>2. ASSUME NEW i \in 1 .. n + 1
        PROVE  EntryFaithful(i)'
    <3>1. CASE i \in 1 .. n
      BY <1>11, <3>1
    <3>2. CASE i = n + 1
      BY <1>12, <3>2
    <3>3. QED
      BY <2>1, <2>2, <3>1, <3>2
  <2>3. QED
    BY <1>7, <2>2 DEF Faithful
<1>14. QED
  BY <1>13

\* Every step keeps the entries faithful.
LEMMA NextFaithful == FaithfulInv /\ [Next]_vars => FaithfulInv'
<1> SUFFICES ASSUME FaithfulInv, [Next]_vars PROVE FaithfulInv'
  OBVIOUS
<1>1. LedgerInv'
  BY NextLedger DEF FaithfulInv
<1>2. Faithful /\ ArtifactFaithful
  BY DEF FaithfulInv, Faithful
<1>3. SUFFICES Faithful' /\ ArtifactFaithful'
  BY <1>1 DEF FaithfulInv, Faithful
<1>4. CASE SeedArtifact \/ PublishArtifact \/ CommitArtifact
  BY <1>4, SealFaithful DEF SeedArtifact, PublishArtifact, CommitArtifact
<1>5. CASE SeedAppend \/ PublishAppend \/ CommitAppend
  <2>1. /\ pc \in {"seeded", "append"} /\ AppendVersionEntry /\ UNCHANGED <<md, diff>>
        /\ pc' \in {"number", "idle", "live"}
    BY <1>5 DEF SeedAppend, PublishAppend, CommitAppend, Done
  <2>2. QED
    BY <2>1, AppendFaithful DEF ArtifactFaithful
<1>6. CASE TearHistory
  BY <1>6 DEF TearHistory, Done, Faithful, ArtifactFaithful
<1>7. CASE PublishRead \/ PublishLive \/ CommitLive \/ Crash
            \/ \E body, hint : CommitRead(body, hint)
  <2>1. UNCHANGED <<entries, written>> /\ pc' \in {"seed", "number", "artifact", "idle"}
    BY <1>7 DEF PublishRead, PublishLive, CommitLive, Crash, CommitRead, Done, disk
  <2>2. QED
    BY <1>2, <2>1 DEF Faithful, EntryFaithful, ArtifactFaithful
<1>8. CASE (\E edited \in Text : HandEdit(edited)) \/ UNCHANGED vars
  <2>1. UNCHANGED <<entries, written, diff, text, keyframe, pc>>
    BY <1>8 DEF HandEdit, vars
  <2>2. QED
    BY <1>2, <2>1 DEF Faithful, EntryFaithful, ArtifactFaithful, HeadVersion
<1>9. QED
  <2>1. Commit => CommitArtifact \/ CommitAppend \/ CommitLive \/ \E body, hint : CommitRead(body, hint)
    BY DEF Commit, Approve, CzarDirectEdit, Rollback
  <2>2. QED
    BY <1>4, <1>5, <1>6, <1>7, <1>8, <2>1 DEF Next, Publish

\* What the replay rests on: a keyframe holds the text of its version, a diff leads
\* there from the text of the entry before it.
THEOREM EntriesFaithful == Spec => []FaithfulInv
<1>1. Init => FaithfulInv
  <2>1. Init => LedgerInv
    BY InitLedger
  <2>2. QED
    BY <2>1 DEF Init, FaithfulInv, ArtifactFaithful
<1>2. QED
  BY <1>1, NextFaithful, PTL DEF Spec

\* reconstructFromHistory: every recorded version rebuilds to the very text it was
\* recorded for, however many diffs lead there and wherever writers died.
THEOREM ReadsWhatWasWritten == Spec => []ReadBack
<1>1. FaithfulInv => ReadBack
  <2>1. SUFFICES ASSUME FaithfulInv, NEW v \in Recorded(entries)
                 PROVE  Reconstruct(entries, md, diff, v) = written[v]
    BY DEF ReadBack
  <2>2. PICK t \in DOMAIN entries : entries[t].version = v
    BY DEF Recorded
  <2>3. TypeOK /\ VersionsIncrease /\ HistoryVerifies /\ Faithful
    BY <2>1 DEF FaithfulInv, LedgerInv, Faithful
  <2>4. QED
    BY <2>2, <2>3, ReadsBack
<1>2. QED
  BY <1>1, EntriesFaithful, PTL
================================================================================
