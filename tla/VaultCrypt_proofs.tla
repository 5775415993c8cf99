--------------------------- MODULE VaultCrypt_proofs ---------------------------
(***************************************************************************)
(* Nothing a vault has sealed is ever locked out by its own migrations: for *)
(* every set of files, histories, keys and clients, with crashes at every   *)
(* step and configs deleted and restored by hand.                           *)
(***************************************************************************)
EXTENDS VaultCrypt, SequenceTheorems, TLAPS

\* Sealing or opening the notes of a history keeps their number.
LEMMA SealedTypes ==
  ASSUME NEW s \in Seq(Seal), NEW k \in Key
  PROVE  /\ Resealed(s, k) \in Seq(Seal) /\ Len(Resealed(s, k)) = Len(s)
         /\ Opened(s, k) \in Seq(Seal) /\ Len(Opened(s, k)) = Len(s)
         /\ DOMAIN Resealed(s, k) = DOMAIN s /\ DOMAIN Opened(s, k) = DOMAIN s
         /\ \A i \in DOMAIN s : /\ Resealed(s, k)[i] = (IF s[i] = None THEN k ELSE s[i])
                                /\ Opened(s, k)[i] = (IF s[i] = k THEN None ELSE s[i])
<1>1. Len(s) \in Nat /\ DOMAIN s = 1 .. Len(s) /\ \A i \in 1 .. Len(s) : s[i] \in Seal
  OBVIOUS
<1>2. Resealed(s, k) \in [1 .. Len(s) -> Seal] /\ Opened(s, k) \in [1 .. Len(s) -> Seal]
  BY <1>1 DEF Resealed, Opened, Seal
<1>3. QED
  BY <1>1, <1>2 DEF Resealed, Opened

LEMMA NoNotes == <<>> \in Seq(Seal)
  OBVIOUS

\* Every step keeps the types.
LEMMA TypeStep ==
  ASSUME TypeOK, JobInv, [Next]_vars
  PROVE  TypeOK'
<1> USE KeyAssumption, NameAssumption, BoundAssumption
<1>1. CASE Start
  BY NoNotes, <1>1 DEF Start, vaultVars, jobVars, clientVars, Go, Release, NoHistories, Free, TypeOK, Steps, Seal, Sealed, Swept, Unremoved, Histories, Marked, MayCreate, InTemp
<1>2. CASE Unlock
  <2>1. CASE config \in keys
    BY <1>2, <2>1 DEF Unlock, vaultVars, jobVars, clientVars, Go, Release, NoHistories, Free, TypeOK, Steps, Seal, Sealed, Swept, Unremoved, Histories, Marked, MayCreate, InTemp
  <2>2. CASE ~(config \in keys)
    BY <1>2, <2>2, NoNotes DEF Unlock, vaultVars, jobVars, clientVars, Go, Release, NoHistories, Free, TypeOK, Steps, Seal, Sealed, Swept, Unremoved, Histories, Marked, MayCreate, InTemp
  <2>3. QED
    BY <2>1, <2>2
<1>3. CASE NotEncrypted
  BY NoNotes, <1>3 DEF NotEncrypted, vaultVars, jobVars, clientVars, Go, Release, NoHistories, Free, TypeOK, Steps, Seal, Sealed, Swept, Unremoved, Histories, Marked, MayCreate, InTemp
<1>4. CASE Create
  <2>1. CASE MayCreate
    BY <1>4, <2>1 DEF Create, vaultVars, jobVars, clientVars, Go, Release, NoHistories, Free, TypeOK, Steps, Seal, Sealed, Swept, Unremoved, Histories, Marked, MayCreate, InTemp
  <2>2. CASE ~(MayCreate)
    BY <1>4, <2>2, NoNotes DEF Create, vaultVars, jobVars, clientVars, Go, Release, NoHistories, Free, TypeOK, Steps, Seal, Sealed, Swept, Unremoved, Histories, Marked, MayCreate, InTemp
  <2>3. QED
    BY <2>1, <2>2
<1>5. CASE StoreKey
  BY <1>5 DEF StoreKey, JobInv, vaultVars, jobVars, clientVars, Go, Release, NoHistories, Free, TypeOK, Steps, Seal, Sealed, Swept, Unremoved, Histories, Marked, MayCreate, InTemp
<1>6. CASE WriteConfig
  BY NoNotes, <1>6 DEF WriteConfig, vaultVars, jobVars, clientVars, Go, Release, NoHistories, Free, TypeOK, Steps, Seal, Sealed, Swept, Unremoved, Histories, Marked, MayCreate, InTemp
<1>7. ASSUME NEW f \in File, SealFile(f) PROVE TypeOK'
  BY NoNotes, <1>7 DEF SealFile, vaultVars, jobVars, clientVars, Go, Release, NoHistories, Free, TypeOK, Steps, Seal, Sealed, Swept, Unremoved, Histories, Marked, MayCreate, InTemp
<1>8. CASE AllSealed
  BY NoNotes, <1>8 DEF AllSealed, vaultVars, jobVars, clientVars, Go, Release, NoHistories, Free, TypeOK, Steps, Seal, Sealed, Swept, Unremoved, Histories, Marked, MayCreate, InTemp
<1>9. ASSUME NEW d \in Doc, ResealHistory(d) PROVE TypeOK'
  <2>1. CASE d \notin torn
    <3>1. key \in Key /\ notes[d] \in Seq(Seal)
      BY <1>9 DEF ResealHistory, JobInv, Holding, TypeOK, Seal
    <3>2. Resealed(notes[d], key) \in Seq(Seal)
      BY <3>1, SealedTypes
    <3>3. notes' \in [Doc -> Seq(Seal)]
      BY <1>9, <2>1, <3>2 DEF ResealHistory, TypeOK
    <3>4. QED
      BY <1>9, <2>1, <3>3 DEF ResealHistory, TypeOK, clientVars
  <2>2. CASE d \in torn
    BY <1>9, <2>2, NoNotes DEF ResealHistory, Release, Go, NoHistories, TypeOK, Seal, Steps, clientVars
  <2>3. QED
    BY <2>1, <2>2
<1>10. CASE Encrypted
  BY NoNotes, <1>10 DEF Encrypted, vaultVars, jobVars, clientVars, Go, Release, NoHistories, Free, TypeOK, Steps, Seal, Sealed, Swept, Unremoved, Histories, Marked, MayCreate, InTemp
<1>11. CASE ReadHistories
  <2>1. key \in Key
    BY <1>11 DEF ReadHistories, JobInv, Holding, TypeOK, Seal
  <2>2. \A d \in Doc : Opened(notes[d], key) \in Seq(Seal)
    BY <2>1, SealedTypes DEF TypeOK
  <2>3. DOMAIN memory' \subseteq Doc /\ memory' \in [DOMAIN memory' -> Seq(Seal)]
    BY <1>11, <2>2 DEF ReadHistories, Histories
  <2>4. QED
    BY <1>11, <2>3 DEF ReadHistories, vaultVars, jobVars, clientVars, Go, Release, NoHistories, Free, TypeOK, Steps, Seal, Sealed, Swept, Unremoved, Histories, Marked, MayCreate, InTemp
<1>12. ASSUME NEW f \in File, OpenFile(f) PROVE TypeOK'
  <2>1. CASE file[f] = key
    BY <1>12, <2>1 DEF OpenFile, vaultVars, jobVars, clientVars, Go, Release, NoHistories, Free, TypeOK, Steps, Seal, Sealed, Swept, Unremoved, Histories, Marked, MayCreate, InTemp
  <2>2. CASE file[f] # key
    BY <1>12, <2>2, NoNotes DEF OpenFile, vaultVars, jobVars, clientVars, Go, Release, NoHistories, Free, TypeOK, Steps, Seal, Sealed, Swept, Unremoved, Histories, Marked, MayCreate, InTemp
  <2>3. QED
    BY <2>1, <2>2
<1>13. CASE AllOpened
  BY NoNotes, <1>13 DEF AllOpened, vaultVars, jobVars, clientVars, Go, Release, NoHistories, Free, TypeOK, Steps, Seal, Sealed, Swept, Unremoved, Histories, Marked, MayCreate, InTemp
<1>14. ASSUME NEW d \in Doc, WriteHistory(d) PROVE TypeOK'
  <2>1. memory[d] \in Seq(Seal)
    BY <1>14 DEF WriteHistory, JobInv, TypeOK
  <2>2. notes' \in [Doc -> Seq(Seal)]
    BY <1>14, <2>1 DEF WriteHistory, TypeOK
  <2>3. QED
    BY <1>14, <2>2 DEF WriteHistory, TypeOK, clientVars
<1>15. CASE HistoriesWritten
  BY NoNotes, <1>15 DEF HistoriesWritten, vaultVars, jobVars, clientVars, Go, Release, NoHistories, Free, TypeOK, Steps, Seal, Sealed, Swept, Unremoved, Histories, Marked, MayCreate, InTemp
<1>16. CASE RemoveConfig
  BY NoNotes, <1>16 DEF RemoveConfig, vaultVars, jobVars, clientVars, Go, Release, NoHistories, Free, TypeOK, Steps, Seal, Sealed, Swept, Unremoved, Histories, Marked, MayCreate, InTemp
<1>17. CASE DeleteKey
  BY NoNotes, <1>17 DEF DeleteKey, vaultVars, jobVars, clientVars, Go, Release, NoHistories, Free, TypeOK, Steps, Seal, Sealed, Swept, Unremoved, Histories, Marked, MayCreate, InTemp
<1>18. ASSUME NEW c \in Client, Check(c) PROVE TypeOK'
  BY NoNotes, <1>18 DEF Check, vaultVars, jobVars, clientVars, Go, Release, NoHistories, Free, TypeOK, Steps, Seal, Sealed, Swept, Unremoved, Histories, Marked, MayCreate, InTemp
<1>19. ASSUME NEW c \in Client, Lapse(c) PROVE TypeOK'
  BY NoNotes, <1>19 DEF Lapse, vaultVars, jobVars, clientVars, Go, Release, NoHistories, Free, TypeOK, Steps, Seal, Sealed, Swept, Unremoved, Histories, Marked, MayCreate, InTemp
<1>20. ASSUME NEW c \in Client, NEW f \in File, Write(c, f) PROVE TypeOK'
  BY NoNotes, <1>20 DEF Write, vaultVars, jobVars, clientVars, Go, Release, NoHistories, Free, TypeOK, Steps, Seal, Sealed, Swept, Unremoved, Histories, Marked, MayCreate, InTemp
<1>21. ASSUME NEW c \in Client, NEW d \in Doc, AppendNote(c, d) PROVE TypeOK'
  BY NoNotes, <1>21 DEF AppendNote, vaultVars, jobVars, clientVars, Go, Release, NoHistories, Free, TypeOK, Steps, Seal, Sealed, Swept, Unremoved, Histories, Marked, MayCreate, InTemp
<1>22. CASE Crash
  BY NoNotes, <1>22 DEF Crash, vaultVars, jobVars, clientVars, Go, Release, NoHistories, Free, TypeOK, Steps, Seal, Sealed, Swept, Unremoved, Histories, Marked, MayCreate, InTemp
<1>23. CASE Drop
  BY NoNotes, <1>23 DEF Drop, vaultVars, jobVars, clientVars, Go, Release, NoHistories, Free, TypeOK, Steps, Seal, Sealed, Swept, Unremoved, Histories, Marked, MayCreate, InTemp
<1>24. CASE Restore
  BY NoNotes, <1>24 DEF Restore, vaultVars, jobVars, clientVars, Go, Release, NoHistories, Free, TypeOK, Steps, Seal, Sealed, Swept, Unremoved, Histories, Marked, MayCreate, InTemp
<1>25. CASE UNCHANGED vars
  BY NoNotes, <1>25 DEF vars, vaultVars, jobVars, clientVars, Go, Release, NoHistories, Free, TypeOK, Steps, Seal, Sealed, Swept, Unremoved, Histories, Marked, MayCreate, InTemp
<1>26. ASSUME NEW d \in Doc, Quarantine(d) PROVE TypeOK'
  BY NoNotes, <1>26 DEF Quarantine, vaultVars, jobVars, clientVars, Go, Release, NoHistories, Free, TypeOK, Steps, Seal, Sealed, Swept, Unremoved, Histories, Marked, MayCreate, InTemp
<1>27. ASSUME NEW d \in Doc, Garble(d) PROVE TypeOK'
  BY NoNotes, <1>27 DEF Garble, vaultVars, jobVars, clientVars, Go, Release, NoHistories, Free, TypeOK, Steps, Seal, Sealed, Swept, Unremoved, Histories, Marked, MayCreate, InTemp
<1>28. ASSUME NEW d \in Doc, Mend(d) PROVE TypeOK'
  BY NoNotes, <1>28 DEF Mend, vaultVars, jobVars, clientVars, Go, Release, NoHistories, Free, TypeOK, Steps, Seal, Sealed, Swept, Unremoved, Histories, Marked, MayCreate, InTemp
<1>29. QED
  BY <1>1, <1>2, <1>3, <1>4, <1>5, <1>6, <1>7, <1>8, <1>9, <1>10, <1>11, <1>12, <1>13, <1>14, <1>15, <1>16, <1>17, <1>18, <1>19, <1>20, <1>21, <1>22, <1>23, <1>24, <1>25, <1>26, <1>27, <1>28 DEF Next, Encrypt, Decrypt, Use

\* The key store and the deleted configs, step by step.
LEMMA KeysStep ==
  ASSUME TypeOK, KeysInv, JobInv, [Next]_vars
  PROVE  KeysInv'
<1> USE KeyAssumption, NameAssumption, BoundAssumption
<1>1. CASE Start
  BY <1>1 DEF Start, vaultVars, jobVars, clientVars, Go, Release, NoHistories, Free, TypeOK, KeysInv, JobInv, Holding, Seal, Sealed
<1>2. CASE Unlock
  BY <1>2 DEF Unlock, vaultVars, jobVars, clientVars, Go, Release, NoHistories, Free, TypeOK, KeysInv, JobInv, Holding, Seal, Sealed
<1>3. CASE NotEncrypted
  BY <1>3 DEF NotEncrypted, vaultVars, jobVars, clientVars, Go, Release, NoHistories, Free, TypeOK, KeysInv, JobInv, Holding, Seal, Sealed
<1>4. CASE Create
  BY <1>4 DEF Create, vaultVars, jobVars, clientVars, Go, Release, NoHistories, Free, TypeOK, KeysInv, JobInv, Holding, Seal, Sealed
<1>5. CASE StoreKey
  BY <1>5 DEF StoreKey, vaultVars, jobVars, clientVars, Go, Release, NoHistories, Free, TypeOK, KeysInv, JobInv, Holding, Seal, Sealed
<1>6. CASE WriteConfig
  BY <1>6 DEF WriteConfig, vaultVars, jobVars, clientVars, Go, Release, NoHistories, Free, TypeOK, KeysInv, JobInv, Holding, Seal, Sealed
<1>7. ASSUME NEW f \in File, SealFile(f) PROVE KeysInv'
  BY <1>7 DEF SealFile, vaultVars, jobVars, clientVars, Go, Release, NoHistories, Free, TypeOK, KeysInv, JobInv, Holding, Seal, Sealed
<1>8. CASE AllSealed
  BY <1>8 DEF AllSealed, vaultVars, jobVars, clientVars, Go, Release, NoHistories, Free, TypeOK, KeysInv, JobInv, Holding, Seal, Sealed
<1>9. ASSUME NEW d \in Doc, ResealHistory(d) PROVE KeysInv'
  BY <1>9 DEF ResealHistory, vaultVars, jobVars, clientVars, Go, Release, NoHistories, Free, TypeOK, KeysInv, JobInv, Holding, Seal, Sealed
<1>10. CASE Encrypted
  BY <1>10 DEF Encrypted, vaultVars, jobVars, clientVars, Go, Release, NoHistories, Free, TypeOK, KeysInv, JobInv, Holding, Seal, Sealed
<1>11. CASE ReadHistories
  BY <1>11 DEF ReadHistories, vaultVars, jobVars, clientVars, Go, Release, NoHistories, Free, TypeOK, KeysInv, JobInv, Holding, Seal, Sealed
<1>12. ASSUME NEW f \in File, OpenFile(f) PROVE KeysInv'
  BY <1>12 DEF OpenFile, vaultVars, jobVars, clientVars, Go, Release, NoHistories, Free, TypeOK, KeysInv, JobInv, Holding, Seal, Sealed
<1>13. CASE AllOpened
  BY <1>13 DEF AllOpened, vaultVars, jobVars, clientVars, Go, Release, NoHistories, Free, TypeOK, KeysInv, JobInv, Holding, Seal, Sealed
<1>14. ASSUME NEW d \in Doc, WriteHistory(d) PROVE KeysInv'
  BY <1>14 DEF WriteHistory, vaultVars, jobVars, clientVars, Go, Release, NoHistories, Free, TypeOK, KeysInv, JobInv, Holding, Seal, Sealed
<1>15. CASE HistoriesWritten
  BY <1>15 DEF HistoriesWritten, vaultVars, jobVars, clientVars, Go, Release, NoHistories, Free, TypeOK, KeysInv, JobInv, Holding, Seal, Sealed
<1>16. CASE RemoveConfig
  BY <1>16 DEF RemoveConfig, vaultVars, jobVars, clientVars, Go, Release, NoHistories, Free, TypeOK, KeysInv, JobInv, Holding, Seal, Sealed
<1>17. CASE DeleteKey
  BY <1>17 DEF DeleteKey, vaultVars, jobVars, clientVars, Go, Release, NoHistories, Free, TypeOK, KeysInv, JobInv, Holding, Seal, Sealed
<1>18. ASSUME NEW c \in Client, Check(c) PROVE KeysInv'
  BY <1>18 DEF Check, vaultVars, jobVars, clientVars, Go, Release, NoHistories, Free, TypeOK, KeysInv, JobInv, Holding, Seal, Sealed
<1>19. ASSUME NEW c \in Client, Lapse(c) PROVE KeysInv'
  BY <1>19 DEF Lapse, vaultVars, jobVars, clientVars, Go, Release, NoHistories, Free, TypeOK, KeysInv, JobInv, Holding, Seal, Sealed
<1>20. ASSUME NEW c \in Client, NEW f \in File, Write(c, f) PROVE KeysInv'
  BY <1>20 DEF Write, vaultVars, jobVars, clientVars, Go, Release, NoHistories, Free, TypeOK, KeysInv, JobInv, Holding, Seal, Sealed
<1>21. ASSUME NEW c \in Client, NEW d \in Doc, AppendNote(c, d) PROVE KeysInv'
  BY <1>21 DEF AppendNote, vaultVars, jobVars, clientVars, Go, Release, NoHistories, Free, TypeOK, KeysInv, JobInv, Holding, Seal, Sealed
<1>22. CASE Crash
  BY <1>22 DEF Crash, vaultVars, jobVars, clientVars, Go, Release, NoHistories, Free, TypeOK, KeysInv, JobInv, Holding, Seal, Sealed
<1>23. CASE Drop
  BY <1>23 DEF Drop, vaultVars, jobVars, clientVars, Go, Release, NoHistories, Free, TypeOK, KeysInv, JobInv, Holding, Seal, Sealed
<1>24. CASE Restore
  BY <1>24 DEF Restore, vaultVars, jobVars, clientVars, Go, Release, NoHistories, Free, TypeOK, KeysInv, JobInv, Holding, Seal, Sealed
<1>25. CASE UNCHANGED vars
  BY <1>25 DEF vars, vaultVars, jobVars, clientVars, Go, Release, NoHistories, Free, TypeOK, KeysInv, JobInv, Holding, Seal, Sealed
<1>26. ASSUME NEW d \in Doc, Quarantine(d) PROVE KeysInv'
  BY <1>26 DEF Quarantine, vaultVars, jobVars, clientVars, Go, Release, NoHistories, Free, TypeOK, KeysInv, JobInv, Holding, Seal, Sealed
<1>27. ASSUME NEW d \in Doc, Garble(d) PROVE KeysInv'
  BY <1>27 DEF Garble, vaultVars, jobVars, clientVars, Go, Release, NoHistories, Free, TypeOK, KeysInv, JobInv, Holding, Seal, Sealed
<1>28. ASSUME NEW d \in Doc, Mend(d) PROVE KeysInv'
  BY <1>28 DEF Mend, vaultVars, jobVars, clientVars, Go, Release, NoHistories, Free, TypeOK, KeysInv, JobInv, Holding, Seal, Sealed
<1>29. QED
  BY <1>1, <1>2, <1>3, <1>4, <1>5, <1>6, <1>7, <1>8, <1>9, <1>10, <1>11, <1>12, <1>13, <1>14, <1>15, <1>16, <1>17, <1>18, <1>19, <1>20, <1>21, <1>22, <1>23, <1>24, <1>25, <1>26, <1>27, <1>28 DEF Next, Encrypt, Decrypt, Use

\* What a migration knows.
LEMMA JobStep ==
  ASSUME TypeOK, KeysInv, JobInv, [Next]_vars
  PROVE  JobInv'
<1> USE KeyAssumption, NameAssumption, BoundAssumption
<1>1. CASE Start
  BY SealedTypes, <1>1 DEF Start, vaultVars, jobVars, clientVars, Go, Release, NoHistories, Free, TypeOK, KeysInv, JobInv, Holding, Seal, Sealed, Steps, Swept, Unremoved, Histories, InTemp, MayCreate
<1>2. CASE Unlock
  BY SealedTypes, <1>2 DEF Unlock, vaultVars, jobVars, clientVars, Go, Release, NoHistories, Free, TypeOK, KeysInv, JobInv, Holding, Seal, Sealed, Steps, Swept, Unremoved, Histories, InTemp, MayCreate
<1>3. CASE NotEncrypted
  BY SealedTypes, <1>3 DEF NotEncrypted, vaultVars, jobVars, clientVars, Go, Release, NoHistories, Free, TypeOK, KeysInv, JobInv, Holding, Seal, Sealed, Steps, Swept, Unremoved, Histories, InTemp, MayCreate
<1>4. CASE Create
  BY SealedTypes, <1>4 DEF Create, vaultVars, jobVars, clientVars, Go, Release, NoHistories, Free, TypeOK, KeysInv, JobInv, Holding, Seal, Sealed, Steps, Swept, Unremoved, Histories, InTemp, MayCreate
<1>5. CASE StoreKey
  BY SealedTypes, <1>5 DEF StoreKey, vaultVars, jobVars, clientVars, Go, Release, NoHistories, Free, TypeOK, KeysInv, JobInv, Holding, Seal, Sealed, Steps, Swept, Unremoved, Histories, InTemp, MayCreate
<1>6. CASE WriteConfig
  BY SealedTypes, <1>6 DEF WriteConfig, vaultVars, jobVars, clientVars, Go, Release, NoHistories, Free, TypeOK, KeysInv, JobInv, Holding, Seal, Sealed, Steps, Swept, Unremoved, Histories, InTemp, MayCreate
<1>7. ASSUME NEW f \in File, SealFile(f) PROVE JobInv'
  BY SealedTypes, <1>7 DEF SealFile, vaultVars, jobVars, clientVars, Go, Release, NoHistories, Free, TypeOK, KeysInv, JobInv, Holding, Seal, Sealed, Steps, Swept, Unremoved, Histories, InTemp, MayCreate
<1>8. CASE AllSealed
  BY SealedTypes, <1>8 DEF AllSealed, vaultVars, jobVars, clientVars, Go, Release, NoHistories, Free, TypeOK, KeysInv, JobInv, Holding, Seal, Sealed, Steps, Swept, Unremoved, Histories, InTemp, MayCreate
<1>9. ASSUME NEW d \in Doc, ResealHistory(d) PROVE JobInv'
  <2>1. CASE d \notin torn
    <3>1. key \in Key /\ notes[d] \in Seq(Seal)
      BY <1>9 DEF ResealHistory, JobInv, Holding, TypeOK, Seal
    <3>2. notes'[d] = Resealed(notes[d], key) /\ \A e \in Doc \ {d} : notes'[e] = notes[e]
      BY <1>9, <2>1 DEF ResealHistory, TypeOK
    <3>3. \A i \in DOMAIN notes'[d] : notes'[d][i] # None
      BY <3>1, <3>2, SealedTypes
    <3>4. QED
      BY <1>9, <2>1, <3>2, <3>3 DEF ResealHistory, JobInv, Holding, Free, Sealed
  <2>2. CASE d \in torn
    BY <1>9, <2>2 DEF ResealHistory, Release, Go, JobInv, Holding, Free, Sealed
  <2>3. QED
    BY <2>1, <2>2
<1>10. CASE Encrypted
  BY SealedTypes, <1>10 DEF Encrypted, vaultVars, jobVars, clientVars, Go, Release, NoHistories, Free, TypeOK, KeysInv, JobInv, Holding, Seal, Sealed, Steps, Swept, Unremoved, Histories, InTemp, MayCreate
<1>11. CASE ReadHistories
  BY SealedTypes, <1>11 DEF ReadHistories, vaultVars, jobVars, clientVars, Go, Release, NoHistories, Free, TypeOK, KeysInv, JobInv, Holding, Seal, Sealed, Steps, Swept, Unremoved, Histories, InTemp, MayCreate
<1>12. ASSUME NEW f \in File, OpenFile(f) PROVE JobInv'
  BY SealedTypes, <1>12 DEF OpenFile, vaultVars, jobVars, clientVars, Go, Release, NoHistories, Free, TypeOK, KeysInv, JobInv, Holding, Seal, Sealed, Steps, Swept, Unremoved, Histories, InTemp, MayCreate
<1>13. CASE AllOpened
  BY SealedTypes, <1>13 DEF AllOpened, vaultVars, jobVars, clientVars, Go, Release, NoHistories, Free, TypeOK, KeysInv, JobInv, Holding, Seal, Sealed, Steps, Swept, Unremoved, Histories, InTemp, MayCreate
<1>14. ASSUME NEW d \in Doc, WriteHistory(d) PROVE JobInv'
  <2>1. /\ key \in Key /\ notes[d] \in Seq(Seal) /\ d \in todo
        /\ memory[d] = Opened(notes[d], key)
    BY <1>14 DEF WriteHistory, JobInv, Holding, TypeOK, Seal
  <2>2. notes'[d] = Opened(notes[d], key) /\ \A e \in Doc \ {d} : notes'[e] = notes[e]
    BY <1>14, <2>1 DEF WriteHistory, TypeOK
  <2>3. \A i \in DOMAIN notes'[d] : notes'[d][i] # key
    BY <2>1, <2>2, SealedTypes
  <2>4. QED
    BY <1>14, <2>2, <2>3 DEF WriteHistory, JobInv, Holding, Free, Sealed
<1>15. CASE HistoriesWritten
  BY SealedTypes, <1>15 DEF HistoriesWritten, vaultVars, jobVars, clientVars, Go, Release, NoHistories, Free, TypeOK, KeysInv, JobInv, Holding, Seal, Sealed, Steps, Swept, Unremoved, Histories, InTemp, MayCreate
<1>16. CASE RemoveConfig
  BY SealedTypes, <1>16 DEF RemoveConfig, vaultVars, jobVars, clientVars, Go, Release, NoHistories, Free, TypeOK, KeysInv, JobInv, Holding, Seal, Sealed, Steps, Swept, Unremoved, Histories, InTemp, MayCreate
<1>17. CASE DeleteKey
  BY SealedTypes, <1>17 DEF DeleteKey, vaultVars, jobVars, clientVars, Go, Release, NoHistories, Free, TypeOK, KeysInv, JobInv, Holding, Seal, Sealed, Steps, Swept, Unremoved, Histories, InTemp, MayCreate
<1>18. ASSUME NEW c \in Client, Check(c) PROVE JobInv'
  BY SealedTypes, <1>18 DEF Check, vaultVars, jobVars, clientVars, Go, Release, NoHistories, Free, TypeOK, KeysInv, JobInv, Holding, Seal, Sealed, Steps, Swept, Unremoved, Histories, InTemp, MayCreate
<1>19. ASSUME NEW c \in Client, Lapse(c) PROVE JobInv'
  BY SealedTypes, <1>19 DEF Lapse, vaultVars, jobVars, clientVars, Go, Release, NoHistories, Free, TypeOK, KeysInv, JobInv, Holding, Seal, Sealed, Steps, Swept, Unremoved, Histories, InTemp, MayCreate
<1>20. ASSUME NEW c \in Client, NEW f \in File, Write(c, f) PROVE JobInv'
  BY SealedTypes, <1>20 DEF Write, vaultVars, jobVars, clientVars, Go, Release, NoHistories, Free, TypeOK, KeysInv, JobInv, Holding, Seal, Sealed, Steps, Swept, Unremoved, Histories, InTemp, MayCreate
<1>21. ASSUME NEW c \in Client, NEW d \in Doc, AppendNote(c, d) PROVE JobInv'
  BY SealedTypes, <1>21 DEF AppendNote, vaultVars, jobVars, clientVars, Go, Release, NoHistories, Free, TypeOK, KeysInv, JobInv, Holding, Seal, Sealed, Steps, Swept, Unremoved, Histories, InTemp, MayCreate
<1>22. CASE Crash
  BY SealedTypes, <1>22 DEF Crash, vaultVars, jobVars, clientVars, Go, Release, NoHistories, Free, TypeOK, KeysInv, JobInv, Holding, Seal, Sealed, Steps, Swept, Unremoved, Histories, InTemp, MayCreate
<1>23. CASE Drop
  BY SealedTypes, <1>23 DEF Drop, vaultVars, jobVars, clientVars, Go, Release, NoHistories, Free, TypeOK, KeysInv, JobInv, Holding, Seal, Sealed, Steps, Swept, Unremoved, Histories, InTemp, MayCreate
<1>24. CASE Restore
  BY SealedTypes, <1>24 DEF Restore, vaultVars, jobVars, clientVars, Go, Release, NoHistories, Free, TypeOK, KeysInv, JobInv, Holding, Seal, Sealed, Steps, Swept, Unremoved, Histories, InTemp, MayCreate
<1>25. CASE UNCHANGED vars
  BY SealedTypes, <1>25 DEF vars, vaultVars, jobVars, clientVars, Go, Release, NoHistories, Free, TypeOK, KeysInv, JobInv, Holding, Seal, Sealed, Steps, Swept, Unremoved, Histories, InTemp, MayCreate
<1>26. ASSUME NEW d \in Doc, Quarantine(d) PROVE JobInv'
  BY SealedTypes, <1>26 DEF Quarantine, vaultVars, jobVars, clientVars, Go, Release, NoHistories, Free, TypeOK, KeysInv, JobInv, Holding, Seal, Sealed, Steps, Swept, Unremoved, Histories, InTemp, MayCreate
<1>27. ASSUME NEW d \in Doc, Garble(d) PROVE JobInv'
  BY SealedTypes, <1>27 DEF Garble, vaultVars, jobVars, clientVars, Go, Release, NoHistories, Free, TypeOK, KeysInv, JobInv, Holding, Seal, Sealed, Steps, Swept, Unremoved, Histories, InTemp, MayCreate
<1>28. ASSUME NEW d \in Doc, Mend(d) PROVE JobInv'
  BY SealedTypes, <1>28 DEF Mend, vaultVars, jobVars, clientVars, Go, Release, NoHistories, Free, TypeOK, KeysInv, JobInv, Holding, Seal, Sealed, Steps, Swept, Unremoved, Histories, InTemp, MayCreate
<1>29. QED
  BY <1>1, <1>2, <1>3, <1>4, <1>5, <1>6, <1>7, <1>8, <1>9, <1>10, <1>11, <1>12, <1>13, <1>14, <1>15, <1>16, <1>17, <1>18, <1>19, <1>20, <1>21, <1>22, <1>23, <1>24, <1>25, <1>26, <1>27, <1>28 DEF Next, Encrypt, Decrypt, Use

\* Sealed files keep opening.
LEMMA FilesStep ==
  ASSUME MigrationInv, FilesOpen, [Next]_vars
  PROVE  FilesOpen'
<1> USE KeyAssumption, NameAssumption, BoundAssumption
<1>1. CASE Start
  BY <1>1 DEF Start, vaultVars, jobVars, clientVars, Go, Release, NoHistories, Free, MigrationInv, TypeOK, KeysInv, JobInv, Holding, FilesOpen, Opens, Seal, Sealed, Marked
<1>2. CASE Unlock
  BY <1>2 DEF Unlock, vaultVars, jobVars, clientVars, Go, Release, NoHistories, Free, MigrationInv, TypeOK, KeysInv, JobInv, Holding, FilesOpen, Opens, Seal, Sealed, Marked
<1>3. CASE NotEncrypted
  BY <1>3 DEF NotEncrypted, vaultVars, jobVars, clientVars, Go, Release, NoHistories, Free, MigrationInv, TypeOK, KeysInv, JobInv, Holding, FilesOpen, Opens, Seal, Sealed, Marked
<1>4. CASE Create
  BY <1>4 DEF Create, vaultVars, jobVars, clientVars, Go, Release, NoHistories, Free, MigrationInv, TypeOK, KeysInv, JobInv, Holding, FilesOpen, Opens, Seal, Sealed, Marked
<1>5. CASE StoreKey
  BY <1>5 DEF StoreKey, vaultVars, jobVars, clientVars, Go, Release, NoHistories, Free, MigrationInv, TypeOK, KeysInv, JobInv, Holding, FilesOpen, Opens, Seal, Sealed, Marked
<1>6. CASE WriteConfig
  BY <1>6 DEF WriteConfig, vaultVars, jobVars, clientVars, Go, Release, NoHistories, Free, MigrationInv, TypeOK, KeysInv, JobInv, Holding, FilesOpen, Opens, Seal, Sealed, Marked
<1>7. ASSUME NEW f \in File, SealFile(f) PROVE FilesOpen'
  BY <1>7 DEF SealFile, vaultVars, jobVars, clientVars, Go, Release, NoHistories, Free, MigrationInv, TypeOK, KeysInv, JobInv, Holding, FilesOpen, Opens, Seal, Sealed, Marked
<1>8. CASE AllSealed
  BY <1>8 DEF AllSealed, vaultVars, jobVars, clientVars, Go, Release, NoHistories, Free, MigrationInv, TypeOK, KeysInv, JobInv, Holding, FilesOpen, Opens, Seal, Sealed, Marked
<1>9. ASSUME NEW d \in Doc, ResealHistory(d) PROVE FilesOpen'
  BY <1>9 DEF ResealHistory, vaultVars, jobVars, clientVars, Go, Release, NoHistories, Free, MigrationInv, TypeOK, KeysInv, JobInv, Holding, FilesOpen, Opens, Seal, Sealed, Marked
<1>10. CASE Encrypted
  BY <1>10 DEF Encrypted, vaultVars, jobVars, clientVars, Go, Release, NoHistories, Free, MigrationInv, TypeOK, KeysInv, JobInv, Holding, FilesOpen, Opens, Seal, Sealed, Marked
<1>11. CASE ReadHistories
  BY <1>11 DEF ReadHistories, vaultVars, jobVars, clientVars, Go, Release, NoHistories, Free, MigrationInv, TypeOK, KeysInv, JobInv, Holding, FilesOpen, Opens, Seal, Sealed, Marked
<1>12. ASSUME NEW f \in File, OpenFile(f) PROVE FilesOpen'
  BY <1>12 DEF OpenFile, vaultVars, jobVars, clientVars, Go, Release, NoHistories, Free, MigrationInv, TypeOK, KeysInv, JobInv, Holding, FilesOpen, Opens, Seal, Sealed, Marked
<1>13. CASE AllOpened
  BY <1>13 DEF AllOpened, vaultVars, jobVars, clientVars, Go, Release, NoHistories, Free, MigrationInv, TypeOK, KeysInv, JobInv, Holding, FilesOpen, Opens, Seal, Sealed, Marked
<1>14. ASSUME NEW d \in Doc, WriteHistory(d) PROVE FilesOpen'
  BY <1>14 DEF WriteHistory, vaultVars, jobVars, clientVars, Go, Release, NoHistories, Free, MigrationInv, TypeOK, KeysInv, JobInv, Holding, FilesOpen, Opens, Seal, Sealed, Marked
<1>15. CASE HistoriesWritten
  BY <1>15 DEF HistoriesWritten, vaultVars, jobVars, clientVars, Go, Release, NoHistories, Free, MigrationInv, TypeOK, KeysInv, JobInv, Holding, FilesOpen, Opens, Seal, Sealed, Marked
<1>16. CASE RemoveConfig
  BY <1>16 DEF RemoveConfig, vaultVars, jobVars, clientVars, Go, Release, NoHistories, Free, MigrationInv, TypeOK, KeysInv, JobInv, Holding, FilesOpen, Opens, Seal, Sealed, Marked
<1>17. CASE DeleteKey
  BY <1>17 DEF DeleteKey, vaultVars, jobVars, clientVars, Go, Release, NoHistories, Free, MigrationInv, TypeOK, KeysInv, JobInv, Holding, FilesOpen, Opens, Seal, Sealed, Marked
<1>18. ASSUME NEW c \in Client, Check(c) PROVE FilesOpen'
  BY <1>18 DEF Check, vaultVars, jobVars, clientVars, Go, Release, NoHistories, Free, MigrationInv, TypeOK, KeysInv, JobInv, Holding, FilesOpen, Opens, Seal, Sealed, Marked
<1>19. ASSUME NEW c \in Client, Lapse(c) PROVE FilesOpen'
  BY <1>19 DEF Lapse, vaultVars, jobVars, clientVars, Go, Release, NoHistories, Free, MigrationInv, TypeOK, KeysInv, JobInv, Holding, FilesOpen, Opens, Seal, Sealed, Marked
<1>20. ASSUME NEW c \in Client, NEW f \in File, Write(c, f) PROVE FilesOpen'
  BY <1>20 DEF Write, vaultVars, jobVars, clientVars, Go, Release, NoHistories, Free, MigrationInv, TypeOK, KeysInv, JobInv, Holding, FilesOpen, Opens, Seal, Sealed, Marked
<1>21. ASSUME NEW c \in Client, NEW d \in Doc, AppendNote(c, d) PROVE FilesOpen'
  BY <1>21 DEF AppendNote, vaultVars, jobVars, clientVars, Go, Release, NoHistories, Free, MigrationInv, TypeOK, KeysInv, JobInv, Holding, FilesOpen, Opens, Seal, Sealed, Marked
<1>22. CASE Crash
  BY <1>22 DEF Crash, vaultVars, jobVars, clientVars, Go, Release, NoHistories, Free, MigrationInv, TypeOK, KeysInv, JobInv, Holding, FilesOpen, Opens, Seal, Sealed, Marked
<1>23. CASE Drop
  BY <1>23 DEF Drop, vaultVars, jobVars, clientVars, Go, Release, NoHistories, Free, MigrationInv, TypeOK, KeysInv, JobInv, Holding, FilesOpen, Opens, Seal, Sealed, Marked
<1>24. CASE Restore
  BY <1>24 DEF Restore, vaultVars, jobVars, clientVars, Go, Release, NoHistories, Free, MigrationInv, TypeOK, KeysInv, JobInv, Holding, FilesOpen, Opens, Seal, Sealed, Marked
<1>25. CASE UNCHANGED vars
  BY <1>25 DEF vars, vaultVars, jobVars, clientVars, Go, Release, NoHistories, Free, MigrationInv, TypeOK, KeysInv, JobInv, Holding, FilesOpen, Opens, Seal, Sealed, Marked
<1>26. ASSUME NEW d \in Doc, Quarantine(d) PROVE FilesOpen'
  BY <1>26 DEF Quarantine, vaultVars, jobVars, clientVars, Go, Release, NoHistories, Free, MigrationInv, TypeOK, KeysInv, JobInv, Holding, FilesOpen, Opens, Seal, Sealed, Marked
<1>27. ASSUME NEW d \in Doc, Garble(d) PROVE FilesOpen'
  BY <1>27 DEF Garble, vaultVars, jobVars, clientVars, Go, Release, NoHistories, Free, MigrationInv, TypeOK, KeysInv, JobInv, Holding, FilesOpen, Opens, Seal, Sealed, Marked
<1>28. ASSUME NEW d \in Doc, Mend(d) PROVE FilesOpen'
  BY <1>28 DEF Mend, vaultVars, jobVars, clientVars, Go, Release, NoHistories, Free, MigrationInv, TypeOK, KeysInv, JobInv, Holding, FilesOpen, Opens, Seal, Sealed, Marked
<1>29. QED
  BY <1>1, <1>2, <1>3, <1>4, <1>5, <1>6, <1>7, <1>8, <1>9, <1>10, <1>11, <1>12, <1>13, <1>14, <1>15, <1>16, <1>17, <1>18, <1>19, <1>20, <1>21, <1>22, <1>23, <1>24, <1>25, <1>26, <1>27, <1>28 DEF Next, Encrypt, Decrypt, Use

\* So do sealed notes.
LEMMA NotesStep ==
  ASSUME MigrationInv, NotesOpen, [Next]_vars
  PROVE  NotesOpen'
<1> USE KeyAssumption, NameAssumption, BoundAssumption
<1>1. CASE Start
  BY SealedTypes, <1>1 DEF Start, vaultVars, jobVars, clientVars, Go, Release, NoHistories, Free, MigrationInv, TypeOK, KeysInv, JobInv, Holding, NotesOpen, Seal, Sealed, Resealed, Opened
<1>2. CASE Unlock
  BY SealedTypes, <1>2 DEF Unlock, vaultVars, jobVars, clientVars, Go, Release, NoHistories, Free, MigrationInv, TypeOK, KeysInv, JobInv, Holding, NotesOpen, Seal, Sealed, Resealed, Opened
<1>3. CASE NotEncrypted
  BY SealedTypes, <1>3 DEF NotEncrypted, vaultVars, jobVars, clientVars, Go, Release, NoHistories, Free, MigrationInv, TypeOK, KeysInv, JobInv, Holding, NotesOpen, Seal, Sealed, Resealed, Opened
<1>4. CASE Create
  BY SealedTypes, <1>4 DEF Create, vaultVars, jobVars, clientVars, Go, Release, NoHistories, Free, MigrationInv, TypeOK, KeysInv, JobInv, Holding, NotesOpen, Seal, Sealed, Resealed, Opened
<1>5. CASE StoreKey
  BY SealedTypes, <1>5 DEF StoreKey, vaultVars, jobVars, clientVars, Go, Release, NoHistories, Free, MigrationInv, TypeOK, KeysInv, JobInv, Holding, NotesOpen, Seal, Sealed, Resealed, Opened
<1>6. CASE WriteConfig
  BY SealedTypes, <1>6 DEF WriteConfig, vaultVars, jobVars, clientVars, Go, Release, NoHistories, Free, MigrationInv, TypeOK, KeysInv, JobInv, Holding, NotesOpen, Seal, Sealed, Resealed, Opened
<1>7. ASSUME NEW f \in File, SealFile(f) PROVE NotesOpen'
  BY SealedTypes, <1>7 DEF SealFile, vaultVars, jobVars, clientVars, Go, Release, NoHistories, Free, MigrationInv, TypeOK, KeysInv, JobInv, Holding, NotesOpen, Seal, Sealed, Resealed, Opened
<1>8. CASE AllSealed
  BY SealedTypes, <1>8 DEF AllSealed, vaultVars, jobVars, clientVars, Go, Release, NoHistories, Free, MigrationInv, TypeOK, KeysInv, JobInv, Holding, NotesOpen, Seal, Sealed, Resealed, Opened
<1>9. ASSUME NEW d \in Doc, ResealHistory(d) PROVE NotesOpen'
  <2>1. CASE d \notin torn
    <3>1. key \in Key /\ key = config /\ key \in keys /\ notes[d] \in Seq(Seal)
      BY <1>9 DEF ResealHistory, MigrationInv, KeysInv, JobInv, Holding, TypeOK, Seal
    <3>2. notes'[d] = Resealed(notes[d], key) /\ \A e \in Doc \ {d} : notes'[e] = notes[e]
      BY <1>9, <2>1 DEF ResealHistory, MigrationInv, TypeOK
    <3>3. DOMAIN notes'[d] = DOMAIN notes[d]
          /\ \A i \in DOMAIN notes[d] : notes'[d][i] \in {notes[d][i], key}
      BY <3>1, <3>2, SealedTypes
    <3>4. QED
      BY <1>9, <3>1, <3>2, <3>3 DEF ResealHistory, NotesOpen, clientVars
  <2>2. CASE d \in torn
    BY <1>9, <2>2 DEF ResealHistory, NotesOpen, clientVars
  <2>3. QED
    BY <2>1, <2>2
<1>10. CASE Encrypted
  BY SealedTypes, <1>10 DEF Encrypted, vaultVars, jobVars, clientVars, Go, Release, NoHistories, Free, MigrationInv, TypeOK, KeysInv, JobInv, Holding, NotesOpen, Seal, Sealed, Resealed, Opened
<1>11. CASE ReadHistories
  BY SealedTypes, <1>11 DEF ReadHistories, vaultVars, jobVars, clientVars, Go, Release, NoHistories, Free, MigrationInv, TypeOK, KeysInv, JobInv, Holding, NotesOpen, Seal, Sealed, Resealed, Opened
<1>12. ASSUME NEW f \in File, OpenFile(f) PROVE NotesOpen'
  BY SealedTypes, <1>12 DEF OpenFile, vaultVars, jobVars, clientVars, Go, Release, NoHistories, Free, MigrationInv, TypeOK, KeysInv, JobInv, Holding, NotesOpen, Seal, Sealed, Resealed, Opened
<1>13. CASE AllOpened
  BY SealedTypes, <1>13 DEF AllOpened, vaultVars, jobVars, clientVars, Go, Release, NoHistories, Free, MigrationInv, TypeOK, KeysInv, JobInv, Holding, NotesOpen, Seal, Sealed, Resealed, Opened
<1>14. ASSUME NEW d \in Doc, WriteHistory(d) PROVE NotesOpen'
  <2>1. /\ key \in Key /\ notes[d] \in Seq(Seal) /\ d \in todo
        /\ memory[d] = Opened(notes[d], key)
    BY <1>14 DEF WriteHistory, MigrationInv, JobInv, Holding, TypeOK, Seal
  <2>2. notes'[d] = Opened(notes[d], key) /\ \A e \in Doc \ {d} : notes'[e] = notes[e]
    BY <1>14, <2>1 DEF WriteHistory, MigrationInv, TypeOK
  <2>3. DOMAIN notes'[d] = DOMAIN notes[d]
        /\ \A i \in DOMAIN notes[d] : notes'[d][i] \in {notes[d][i], None}
    BY <2>1, <2>2, SealedTypes
  <2>4. QED
    BY <1>14, <2>2, <2>3 DEF WriteHistory, NotesOpen, clientVars
<1>15. CASE HistoriesWritten
  BY SealedTypes, <1>15 DEF HistoriesWritten, vaultVars, jobVars, clientVars, Go, Release, NoHistories, Free, MigrationInv, TypeOK, KeysInv, JobInv, Holding, NotesOpen, Seal, Sealed, Resealed, Opened
<1>16. CASE RemoveConfig
  BY SealedTypes, <1>16 DEF RemoveConfig, vaultVars, jobVars, clientVars, Go, Release, NoHistories, Free, MigrationInv, TypeOK, KeysInv, JobInv, Holding, NotesOpen, Seal, Sealed, Resealed, Opened
<1>17. CASE DeleteKey
  BY SealedTypes, <1>17 DEF DeleteKey, vaultVars, jobVars, clientVars, Go, Release, NoHistories, Free, MigrationInv, TypeOK, KeysInv, JobInv, Holding, NotesOpen, Seal, Sealed, Resealed, Opened
<1>18. ASSUME NEW c \in Client, Check(c) PROVE NotesOpen'
  BY SealedTypes, <1>18 DEF Check, vaultVars, jobVars, clientVars, Go, Release, NoHistories, Free, MigrationInv, TypeOK, KeysInv, JobInv, Holding, NotesOpen, Seal, Sealed, Resealed, Opened
<1>19. ASSUME NEW c \in Client, Lapse(c) PROVE NotesOpen'
  BY SealedTypes, <1>19 DEF Lapse, vaultVars, jobVars, clientVars, Go, Release, NoHistories, Free, MigrationInv, TypeOK, KeysInv, JobInv, Holding, NotesOpen, Seal, Sealed, Resealed, Opened
<1>20. ASSUME NEW c \in Client, NEW f \in File, Write(c, f) PROVE NotesOpen'
  <2>1. Doc \ stale' = Doc \ stale
    BY <1>20 DEF Write, Marked
  <2>2. QED
    BY <1>20, <2>1 DEF Write, NotesOpen
<1>21. ASSUME NEW c \in Client, NEW d \in Doc, AppendNote(c, d) PROVE NotesOpen'
  BY SealedTypes, <1>21 DEF AppendNote, vaultVars, jobVars, clientVars, Go, Release, NoHistories, Free, MigrationInv, TypeOK, KeysInv, JobInv, Holding, NotesOpen, Seal, Sealed, Resealed, Opened
<1>22. CASE Crash
  BY SealedTypes, <1>22 DEF Crash, vaultVars, jobVars, clientVars, Go, Release, NoHistories, Free, MigrationInv, TypeOK, KeysInv, JobInv, Holding, NotesOpen, Seal, Sealed, Resealed, Opened
<1>23. CASE Drop
  BY SealedTypes, <1>23 DEF Drop, vaultVars, jobVars, clientVars, Go, Release, NoHistories, Free, MigrationInv, TypeOK, KeysInv, JobInv, Holding, NotesOpen, Seal, Sealed, Resealed, Opened
<1>24. CASE Restore
  BY SealedTypes, <1>24 DEF Restore, vaultVars, jobVars, clientVars, Go, Release, NoHistories, Free, MigrationInv, TypeOK, KeysInv, JobInv, Holding, NotesOpen, Seal, Sealed, Resealed, Opened
<1>25. CASE UNCHANGED vars
  BY SealedTypes, <1>25 DEF vars, vaultVars, jobVars, clientVars, Go, Release, NoHistories, Free, MigrationInv, TypeOK, KeysInv, JobInv, Holding, NotesOpen, Seal, Sealed, Resealed, Opened
<1>26. ASSUME NEW d \in Doc, Quarantine(d) PROVE NotesOpen'
  BY SealedTypes, <1>26 DEF Quarantine, vaultVars, jobVars, clientVars, Go, Release, NoHistories, Free, MigrationInv, TypeOK, KeysInv, JobInv, Holding, NotesOpen, Seal, Sealed, Resealed, Opened
<1>27. ASSUME NEW d \in Doc, Garble(d) PROVE NotesOpen'
  BY SealedTypes, <1>27 DEF Garble, vaultVars, jobVars, clientVars, Go, Release, NoHistories, Free, MigrationInv, TypeOK, KeysInv, JobInv, Holding, NotesOpen, Seal, Sealed, Resealed, Opened
<1>28. ASSUME NEW d \in Doc, Mend(d) PROVE NotesOpen'
  BY SealedTypes, <1>28 DEF Mend, vaultVars, jobVars, clientVars, Go, Release, NoHistories, Free, MigrationInv, TypeOK, KeysInv, JobInv, Holding, NotesOpen, Seal, Sealed, Resealed, Opened
<1>29. QED
  BY <1>1, <1>2, <1>3, <1>4, <1>5, <1>6, <1>7, <1>8, <1>9, <1>10, <1>11, <1>12, <1>13, <1>14, <1>15, <1>16, <1>17, <1>18, <1>19, <1>20, <1>21, <1>22, <1>23, <1>24, <1>25, <1>26, <1>27, <1>28 DEF Next, Encrypt, Decrypt, Use


--------------------------------------------------------------------------------
(* The theorems.                                                           *)

LEMMA InitialMigration == Init => MigrationInv
  BY KeyAssumption, NoNotes DEF Init, MigrationInv, TypeOK, KeysInv, JobInv, Steps, Holding,
     Seal, Sealed, Free, NoHistories

\* The keys and the steps of the migrations stay consistent, whatever crashes,
\* clients and deleted configs do in between.
THEOREM Migration == Spec => []MigrationInv
<1>1. Init => MigrationInv
  BY InitialMigration
<1>2. MigrationInv /\ [Next]_vars => MigrationInv'
  BY TypeStep, KeysStep, JobStep DEF MigrationInv
<1>3. QED
  BY <1>1, <1>2, PTL DEF Spec

\* encryptVault and decryptVault (migrate.ts) never lock out a file: at every
\* instant, each sealed file opens with the key the vault then has.
THEOREM FilesStayOpen == Spec => []FilesOpen
<1>1. Init => FilesOpen
  BY KeyAssumption DEF Init, FilesOpen, Sealed
<1>2. MigrationInv /\ FilesOpen /\ [Next]_vars => FilesOpen'
  BY FilesStep
<1>3. QED
  BY <1>1, <1>2, Migration, PTL DEF Spec

\* Nor a note, though decryptVault rewrites the histories from memory after the
\* files.
THEOREM NotesStayOpen == Spec => []NotesOpen
<1>1. Init => NotesOpen
  BY DEF Init, NotesOpen
<1>2. MigrationInv /\ NotesOpen /\ [Next]_vars => NotesOpen'
  BY NotesStep
<1>3. QED
  BY <1>1, <1>2, Migration, PTL DEF Spec

\* When encryptVault returns nothing is left in plaintext.
THEOREM EncryptLeavesNone == Spec => []EncryptSealsAll
<1>1. MigrationInv => EncryptSealsAll
  BY DEF MigrationInv, JobInv, EncryptSealsAll, Free
<1>2. QED
  BY <1>1, Migration, PTL

\* Rewriting a history from memory loses no entry.
LEMMA RewritesKeepNotes ==
  ASSUME MigrationInv, Next, NEW d \in Doc \ torn
  PROVE  Len(notes'[d]) >= Len(notes[d])
<1> USE KeyAssumption
<1>1. notes[d] \in Seq(Seal) /\ Len(notes[d]) \in Nat
  BY DEF MigrationInv, TypeOK
<1>2. CASE notes' = notes
  BY <1>1, <1>2
<1>3. ASSUME NEW e \in Doc, ResealHistory(e), e \notin torn PROVE Len(notes'[d]) >= Len(notes[d])
  <2>1. key \in Key
    BY <1>3 DEF ResealHistory, MigrationInv, JobInv, Holding, TypeOK, Seal
  <2>2. notes'[d] \in {notes[d], Resealed(notes[d], key)}
    BY <1>3 DEF ResealHistory, MigrationInv, TypeOK
  <2>3. QED
    BY <1>1, <2>1, <2>2, SealedTypes
<1>4. ASSUME NEW e \in Doc, WriteHistory(e) PROVE Len(notes'[d]) >= Len(notes[d])
  <2>1. key \in Key /\ memory[e] = Opened(notes[e], key)
    BY <1>4 DEF WriteHistory, MigrationInv, JobInv, Holding, TypeOK, Seal
  <2>2. notes'[d] \in {notes[d], Opened(notes[d], key)}
    BY <1>4, <2>1 DEF WriteHistory, MigrationInv, TypeOK
  <2>3. QED
    BY <1>1, <2>1, <2>2, SealedTypes
<1>5. ASSUME NEW c \in Client, NEW e \in Doc, AppendNote(c, e)
      PROVE  Len(notes'[d]) >= Len(notes[d])
  <2>1. handle[c] \in Seal
    BY DEF MigrationInv, TypeOK
  <2>2. notes'[d] \in {notes[d], Append(notes[d], handle[c])}
    BY <1>5 DEF AppendNote, MigrationInv, TypeOK
  <2>3. Len(Append(notes[d], handle[c])) = Len(notes[d]) + 1
    BY <1>1, <2>1
  <2>4. QED
    BY <1>1, <2>2, <2>3
<1>6. ASSUME NEW e \in Doc, Quarantine(e) PROVE notes'[d] = notes[d]
  BY <1>6 DEF Quarantine, MigrationInv, TypeOK
<1>7. ASSUME NEW e \in Doc, Garble(e) \/ Mend(e) \/ (ResealHistory(e) /\ e \in torn)
      PROVE  notes' = notes
  BY <1>7 DEF Garble, Mend, ResealHistory
<1>8. QED
  BY <1>1, <1>2, <1>3, <1>4, <1>5, <1>6, <1>7 DEF Next, Encrypt, Decrypt, Use, Start, Unlock,
     NotEncrypted, Create, StoreKey, WriteConfig, SealFile, AllSealed, Encrypted, ReadHistories,
     OpenFile, AllOpened, HistoriesWritten, RemoveConfig, DeleteKey, Check, Lapse, Write, Crash,
     Drop, Restore, vaultVars

\* No migration loses a history entry that was appended after it read.
THEOREM NotesStayThere == Spec => NotesKept
<1>1. MigrationInv /\ [Next]_vars
        => [\A d \in Doc \ torn : Len(notes'[d]) >= Len(notes[d])]_vars
  BY RewritesKeepNotes
<1>2. QED
  BY <1>1, Migration, PTL DEF Spec, NotesKept
=============================================================================
