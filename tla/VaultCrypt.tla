------------------------------ MODULE VaultCrypt ------------------------------
(***************************************************************************)
(* Encryption at rest: the two migrations of encryption/migrate.ts, which   *)
(* turn a vault into ciphertext and back in place, file by file, under the  *)
(* vault write lock, and the clients of the vault (a command, a long-lived  *)
(* MCP server), which seal what they write with the handle of storage.ts,   *)
(* re-read from the config file at most once per second.                    *)
(*                                                                          *)
(* A file, or a note of a document's history, is its seal: the id of the    *)
(* data key it is sealed under, None when it is plaintext (Absent for a     *)
(* file that does not exist).  A key is one vault id with its KEK and DEK.  *)
(***************************************************************************)
EXTENDS Naturals, Sequences

CONSTANTS
    File,       \* the sensitive files: documents, keyframes, diffs, ...
    Doc,        \* the documents that have a history.yaml
    Key,        \* the ids of the data keys that may ever be created
    Client,     \* the processes that write to the vault
    None,       \* no key: plaintext, no config, a plain vault's handle
    Absent,     \* the seal of a file that does not exist
    MaxNotes,   \* bound: the notes a history may hold
    Faults      \* which faults may strike: "crash", "drop", "garble", "unlink"

ASSUME KeyAssumption == None \notin Key /\ Absent \notin Key /\ None # Absent
ASSUME BoundAssumption == MaxNotes \in Nat
ASSUME NameAssumption == File \cap Doc = {}

VARIABLES
    config,     \* .context/encryption.yaml: its key id, or None
    keys,       \* the key store: the ids whose KEK it holds
    made,       \* the key ids ever created
    file,       \* file -> its seal
    notes,      \* document -> the seals of its history's notes, oldest first
    orphan,     \* the files and histories with a plaintext temp file beside them
    torn,       \* the documents whose history.yaml does not parse
    op,         \* the migration that holds the lock: "encrypt" or "decrypt"
    pc,         \* where that migration stands, "idle" when there is none
    key,        \* the key id of its handle
    todo,       \* the histories it has still to rewrite
    memory,     \* decrypt's histories: document -> its notes, opened before the files are
    failed,     \* what did not parse or could not be removed since it began
    handle,     \* client -> the key id of its cached handle, or None
    fresh,      \* the clients that checked the config within the last second
    stale,      \* what was last sealed by a handle the config no longer names
    dropped,    \* the key ids whose config was deleted by hand
    missed      \* the documents whose history failed in a decryption that ended

vaultVars == <<config, keys, made, file, notes, orphan, torn>>
jobVars == <<op, pc, key, todo, memory, failed>>
clientVars == <<handle, fresh, stale, dropped, missed>>
vars == <<vaultVars, jobVars, clientVars>>

Seal == Key \cup {None}
Steps == {"idle", "load", "store", "config", "seal", "reseal",
          "read", "open", "reopen", "unlink", "erase"}

TypeOK ==
    /\ config \in Seal /\ key \in Seal
    /\ keys \subseteq Key /\ made \subseteq Key /\ dropped \subseteq Key
    /\ file \in [File -> Seal \cup {Absent}]
    /\ notes \in [Doc -> Seq(Seal)] /\ torn \subseteq Doc /\ missed \subseteq Doc
    /\ DOMAIN memory \subseteq Doc /\ memory \in [DOMAIN memory -> Seq(Seal)]
    /\ failed \subseteq File \cup Doc
    /\ orphan \subseteq File \cup Doc /\ stale \subseteq File \cup Doc
    /\ op \in {"encrypt", "decrypt"} /\ pc \in Steps
    /\ todo \subseteq Doc
    /\ handle \in [Client -> Seal] /\ fresh \subseteq Client

NoHistories == [d \in {} |-> <<>>]

Init ==
    /\ config = None /\ keys = {} /\ made = {} /\ dropped = {}
    /\ file \in [File -> {None, Absent}]
    /\ notes = [d \in Doc |-> <<>>] /\ memory = NoHistories
    /\ orphan = {} /\ stale = {} /\ todo = {} /\ torn = {} /\ failed = {} /\ missed = {}
    /\ op = "encrypt" /\ pc = "idle" /\ key = None
    /\ handle = [c \in Client |-> None] /\ fresh = {}

-----------------------------------------------------------------------------
(* Seals.                                                                  *)

Sealed(f) == file[f] \in Key

\* sealEntry after openHistoryFields: what is plaintext, or opens with k, comes
\* out sealed under k; a field that does not open stays as it is.
Resealed(s, k) == [i \in DOMAIN s |-> IF s[i] = None THEN k ELSE s[i]]

\* Mutant: decryptVault writes back the histories as it read them.
OpenedNot(s, k) == s

\* openHistoryFields: what opens with k is plaintext.
Opened(s, k) == [i \in DOMAIN s |-> IF s[i] = k THEN None ELSE s[i]]

\* Mutant: The migration does not wait for the vault lock, nor the clients for it.
FreeAlways == TRUE

\* withVaultLock: no migration holds the lock.
Free == pc = "idle"

Go(s) == pc' = s
Release == Go("idle") /\ key' = None /\ todo' = {}
           /\ memory' = NoHistories /\ failed' = {} /\ UNCHANGED op

-----------------------------------------------------------------------------
(* Both migrations start by sweeping the temp files of an interrupted one; *)
(* only the *.enc.tmp names match, so a history's temp file stays.         *)

\* Mutant: The sweep is left out.
SweptNothing == orphan

Swept == orphan \ File

\* The temp files whose unlink fails, which the sweep swallows.
Unremoved == IF "unlink" \in Faults THEN SUBSET (orphan \cap File) ELSE {{}}

Start ==
    /\ Free
    /\ op' \in {"encrypt", "decrypt"}
    /\ \E kept \in Unremoved : orphan' = Swept \cup kept /\ failed' = torn \cup kept
    /\ Go("load")
    /\ UNCHANGED <<config, keys, made, file, notes, torn, key, todo, memory, clientVars>>

\* VaultCrypto.load and unlock, when there is a config.
Unlock ==
    /\ pc = "load" /\ config # None
    /\ IF config \in keys
       THEN /\ key' = config
            /\ Go(IF op = "encrypt" THEN "seal" ELSE "read")
            /\ UNCHANGED <<op, todo, memory, failed>>
       ELSE Release
    /\ UNCHANGED <<vaultVars, clientVars>>

\* decrypt without a config: NOT_ENCRYPTED.
NotEncrypted ==
    /\ pc = "load" /\ op = "decrypt" /\ config = None
    /\ Release
    /\ UNCHANGED <<vaultVars, clientVars>>

\* encrypt without a config: refused when some file is sealed already, for the
\* config was lost then, not never made.
MayCreate == \A f \in File : ~Sealed(f)

Create ==
    /\ pc = "load" /\ op = "encrypt" /\ config = None
    /\ IF MayCreate
       THEN \E k \in Key \ made :
              /\ made' = made \cup {k} /\ key' = k
              /\ Go("store")
              /\ UNCHANGED <<op, todo, memory, failed>>
       ELSE Release /\ UNCHANGED made
    /\ UNCHANGED <<config, keys, file, notes, orphan, torn, clientVars>>

-----------------------------------------------------------------------------
(* encryptVault: key first, config second, content last.                   *)

\* Mutant: encryptVault writes the config before it stores the key.
StoreKeyLate == pc = "store" /\ config' = key /\ Go("config")
    /\ UNCHANGED <<keys, made, file, notes, orphan, torn, op, key, todo, memory, failed, clientVars>>

StoreKey ==
    /\ pc = "store"
    /\ keys' = keys \cup {key}
    /\ Go("config")
    /\ UNCHANGED <<config, made, file, notes, orphan, torn, op, key, todo, memory, failed, clientVars>>

WriteConfig ==
    /\ pc = "config"
    /\ config' = key
    /\ Go("seal")
    /\ UNCHANGED <<keys, made, file, notes, orphan, torn, op, key, todo, memory, failed, clientVars>>

\* One plaintext file: its temp file holds ciphertext, so that the write and
\* the rename are one step here.
SealFile(f) ==
    /\ pc = "seal" /\ file[f] = None
    /\ file' = [file EXCEPT ![f] = key]
    /\ UNCHANGED <<config, keys, made, notes, orphan, torn, jobVars, clientVars>>

\* findAllHistories: what does not parse is left out, and nobody is told.
Histories == Doc \ torn

AllSealed ==
    /\ pc = "seal" /\ \A f \in File : file[f] # None
    /\ Go("reseal") /\ todo' = Histories
    /\ UNCHANGED <<vaultVars, op, key, memory, failed, clientVars>>

ResealHistory(d) ==
    /\ pc = "reseal" /\ d \in todo
    /\ IF d \notin torn
       THEN /\ notes' = [notes EXCEPT ![d] = Resealed(@, key)]
            /\ todo' = todo \ {d}
            /\ UNCHANGED <<op, pc, key, memory, failed>>
       ELSE Release /\ UNCHANGED notes         \* CorruptHistoryError
    /\ UNCHANGED <<config, keys, made, file, orphan, torn, clientVars>>

Encrypted ==
    /\ pc = "reseal" /\ todo = {}
    /\ Release
    /\ UNCHANGED <<vaultVars, clientVars>>

-----------------------------------------------------------------------------
(* decryptVault: the histories are read first and written last, and the    *)
(* config and the key go only when everything is plaintext.                *)

ReadHistories ==
    /\ pc = "read"
    /\ memory' = [d \in Histories |-> Opened(notes[d], key)]
    /\ Go("open")
    /\ UNCHANGED <<vaultVars, op, key, todo, failed, clientVars>>

\* openText of every sealed file, written through a plaintext temp file.
OpenFile(f) ==
    /\ pc = "open" /\ Sealed(f)
    /\ IF file[f] = key
       THEN file' = [file EXCEPT ![f] = None] /\ UNCHANGED jobVars
       ELSE Release /\ UNCHANGED file           \* ForeignVaultKeyError
    /\ UNCHANGED <<config, keys, made, notes, orphan, torn, clientVars>>

AllOpened ==
    /\ pc = "open" /\ \A f \in File : ~Sealed(f)
    /\ Go("reopen") /\ todo' = DOMAIN memory
    /\ UNCHANGED <<vaultVars, op, key, memory, failed, clientVars>>

\* writeHistory, once storage seals no longer; again through a temp file.
WriteHistory(d) ==
    /\ pc = "reopen" /\ d \in todo
    /\ notes' = [notes EXCEPT ![d] = memory[d]] /\ torn' = torn \ {d}
    /\ todo' = todo \ {d}
    /\ UNCHANGED <<config, keys, made, file, orphan, op, pc, key, memory, failed, clientVars>>

HistoriesWritten ==
    /\ pc = "reopen" /\ todo = {}
    /\ Go("unlink")
    /\ UNCHANGED <<vaultVars, op, key, todo, memory, failed, clientVars>>

RemoveConfig ==
    /\ pc = "unlink"
    /\ config' = None /\ missed' = missed \cup (failed \cap Doc)
    /\ Go("erase")
    /\ UNCHANGED <<keys, made, file, notes, orphan, torn, op, key, todo, memory, failed,
                   handle, fresh, stale, dropped>>

\* keyStore.delete, whose failure is swallowed.
DeleteKey ==
    /\ pc = "erase"
    /\ keys' \in {keys, keys \ {key}}
    /\ Release
    /\ UNCHANGED <<config, made, file, notes, orphan, torn, clientVars>>

-----------------------------------------------------------------------------
(* A client: getVaultCrypto re-reads the config when it last did so more   *)
(* than a second ago, and uses the cached handle otherwise.                *)

\* Reads take no lock: a client may look at the config at any time.
Check(c) ==
    /\ c \notin fresh
    /\ handle' = [handle EXCEPT ![c] = config]
    /\ fresh' = fresh \cup {c}
    /\ UNCHANGED <<vaultVars, jobVars, stale, dropped, missed>>

\* A second passes.
Lapse(c) ==
    /\ c \in fresh
    /\ fresh' = fresh \ {c}
    /\ UNCHANGED <<vaultVars, jobVars, handle, stale, dropped, missed>>

Marked(x, k) == IF k \in {None, config} THEN stale \ {x} ELSE stale \cup {x}

\* Under the lock, with a handle just checked: a document is created, or
\* rewritten when it opens.
Write(c, f) ==
    /\ Free /\ c \in fresh
    /\ file[f] \in {Absent, None, handle[c]}
    /\ file' = [file EXCEPT ![f] = handle[c]]
    /\ stale' = Marked(f, handle[c])
    /\ UNCHANGED <<config, keys, made, notes, orphan, torn, jobVars, handle, fresh, dropped, missed>>

\* appendVersionEntry of an entry with a note: the entries before it are not
\* touched.
AppendNote(c, d) ==
    /\ Free /\ c \in fresh /\ d \notin torn /\ Len(notes[d]) < MaxNotes
    /\ notes' = [notes EXCEPT ![d] = Append(@, handle[c])]
    /\ stale' = IF handle[c] \in {None, config} THEN stale ELSE stale \cup {d}
    /\ UNCHANGED <<config, keys, made, file, orphan, torn, jobVars, handle, fresh, dropped, missed>>

\* historyOrRepair: a publish sets a history that does not parse aside, and its
\* notes with it, and starts another.
Quarantine(d) ==
    /\ Free /\ d \in torn
    /\ notes' = [notes EXCEPT ![d] = <<>>]
    /\ torn' = torn \ {d} /\ stale' = stale \ {d} /\ missed' = missed \ {d}
    /\ UNCHANGED <<config, keys, made, file, orphan, jobVars, handle, fresh, dropped>>

-----------------------------------------------------------------------------
(* Faults.                                                                 *)

\* What a decrypt may be about to rename: written as plaintext to a temp file.
InTemp == CASE pc = "open"   -> {f \in File : file[f] = key}
            [] pc = "reopen" -> todo
            [] OTHER         -> {}

\* The migrating process dies, perhaps between a write and its rename; its lock
\* is stolen in time (VaultLock).  Or one of its calls throws: the same.
Crash ==
    /\ "crash" \in Faults /\ ~Free
    /\ \/ UNCHANGED orphan
       \/ \E x \in InTemp : orphan' = orphan \cup {x}
    /\ Release
    /\ UNCHANGED <<config, keys, made, file, notes, torn, clientVars>>

\* Someone deletes the config, or a checkout loses it; and puts back the one
\* that the sealed files name.
Drop ==
    /\ "drop" \in Faults /\ Free /\ config # None
    /\ config' = None /\ dropped' = dropped \cup {config}
    /\ UNCHANGED <<keys, made, file, notes, orphan, torn, jobVars, handle, fresh, stale, missed>>

Restore ==
    /\ Free /\ config = None
    /\ \E k \in dropped :
         /\ \A f \in File : Sealed(f) => file[f] = k
         /\ config' = k /\ dropped' = dropped \ {k}
    /\ UNCHANGED <<keys, made, file, notes, orphan, torn, jobVars, handle, fresh, stale, missed>>

\* An append that died halfway, a merge, a hand edit: a history.yaml does not
\* parse, though its notes are in it; and its author mends it.
Garble(d) ==
    /\ "garble" \in Faults /\ d \notin torn
    /\ torn' = torn \cup {d} /\ failed' = IF Free THEN failed ELSE failed \cup {d}
    /\ UNCHANGED <<config, keys, made, file, notes, orphan, op, pc, key, todo, memory, clientVars>>

Mend(d) ==
    /\ d \in torn
    /\ torn' = torn \ {d}
    /\ UNCHANGED <<config, keys, made, file, notes, orphan, jobVars, clientVars>>

Encrypt == Create \/ StoreKey \/ WriteConfig \/ AllSealed \/ Encrypted
           \/ (\E f \in File : SealFile(f)) \/ (\E d \in Doc : ResealHistory(d))
Decrypt == NotEncrypted \/ ReadHistories \/ AllOpened \/ HistoriesWritten
           \/ RemoveConfig \/ DeleteKey
           \/ (\E f \in File : OpenFile(f))
           \/ (\E d \in Doc : WriteHistory(d))
Use == \E c \in Client : \/ Check(c) \/ Lapse(c)
                         \/ \E f \in File : Write(c, f)
                         \/ \E d \in Doc : AppendNote(c, d)

Next == Start \/ Unlock \/ Encrypt \/ Decrypt \/ Use \/ Crash \/ Drop \/ Restore
        \/ (\E d \in Doc : Quarantine(d) \/ Garble(d) \/ Mend(d))

Spec == Init /\ [][Next]_vars

-----------------------------------------------------------------------------
(* Properties.                                                             *)

\* What is sealed under k opens, or will once the config someone deleted is
\* put back.
Opens(k) == k \in keys /\ (config = k \/ (config = None /\ k \in dropped))

\* Whatever the migration has done when it dies, "an interruption at any point
\* leaves a vault that can still be unlocked (or is still plaintext)": a config
\* names a key in the store, and every sealed file opens with the key the vault
\* has then.  The exception is what a client sealed with a handle the config no
\* longer named: getVaultCrypto looks at the config once per second only.
FilesOpen ==
    /\ config # None => config \in keys
    /\ \A f \in File \ stale : Sealed(f) => Opens(file[f])

\* So do the notes of the histories, which decryptVault holds in memory alone
\* between the opening of the files and the end.  The refusal to create a key
\* beside sealed content looks at the files only: a note whose config was
\* deleted by hand may meet a second key, and waits for its own to come back.
\* The exception is a history that did not parse at some time while a vault was
\* decrypted: it is passed over, and its notes stay sealed under the key that
\* decryptVault then deletes.
NotesOpen ==
    \A d \in Doc \ (stale \cup missed) : \A i \in DOMAIN notes[d] :
        LET k == notes[d][i] IN
          k # None => k \in keys /\ (config = k \/ k \in dropped)

\* When encryptVault returns there is no plaintext left: no file, no note of a
\* history that parsed throughout, and no plaintext copy of a file beside it
\* from a decrypt that died earlier, unless that copy could not be removed.
EncryptSealsAll ==
    (op = "encrypt" /\ pc = "reseal" /\ todo = {}) =>
        /\ \A f \in File : file[f] # None
        /\ \A d \in Doc \ failed : \A i \in DOMAIN notes[d] : notes[d][i] # None
        /\ orphan \cap File \subseteq failed

\* A migration rewrites the histories it read earlier: no entry that was
\* appended in between is lost, unless the history does not parse.
NotesKept ==
    [][\A d \in Doc \ torn : Len(notes'[d]) >= Len(notes[d])]_vars

-----------------------------------------------------------------------------
(* The strengthening from which the four follow.                           *)

\* The key store and the config files deleted by hand.
KeysInv ==
    /\ dropped \subseteq keys /\ keys \subseteq made
    /\ config \notin dropped
    /\ config # None => config \in keys

Holding == {"seal", "reseal", "read", "open", "reopen", "unlink"}

\* What a migration knows at each of its steps: its key is the vault's from the
\* moment a config names it to the moment the config goes, it creates and
\* removes a config only where no file is sealed, and the histories it still
\* has in memory differ from those on disk by their seals alone.
JobInv ==
    /\ ~Free => torn \subseteq failed /\ orphan \cap File \subseteq failed
    /\ pc \in Holding => key = config /\ key # None
    /\ pc \in {"store", "config", "seal", "reseal"} => op = "encrypt"
    /\ pc \in {"store", "config", "erase"} =>
         /\ config = None /\ key \in made \ dropped
    /\ pc = "config" => key \in keys
    /\ pc \in {"store", "config", "reopen", "unlink", "erase"} =>
         \A f \in File : ~Sealed(f)
    /\ pc = "reseal" =>
         /\ \A f \in File : file[f] # None
         /\ \A d \in Doc \ (todo \cup failed) : \A i \in DOMAIN notes[d] : notes[d][i] # None
    /\ pc = "open" =>
         /\ Doc \ failed \subseteq DOMAIN memory
         /\ \A d \in DOMAIN memory : memory[d] = Opened(notes[d], key)
    /\ pc = "reopen" =>
         /\ todo \subseteq DOMAIN memory
         /\ \A d \in todo : memory[d] = Opened(notes[d], key)
    /\ pc \in {"reopen", "unlink"} =>
         \A d \in Doc \ (todo \cup failed) : \A i \in DOMAIN notes[d] : notes[d][i] # key
    /\ pc \in {"unlink", "erase"} => todo = {}
    /\ pc = "erase" =>
         \A d \in Doc \ missed : \A i \in DOMAIN notes[d] : notes[d][i] # key

\* The inductive invariant.
MigrationInv == TypeOK /\ KeysInv /\ JobInv
=============================================================================
