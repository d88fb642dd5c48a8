-------------------------- MODULE CredentialStore --------------------------
(***************************************************************************)
(* The durable commit protocol of the credential store: an encrypted file  *)
(* replaced by rename, a TPM NV counter that holds the generation of the   *)
(* last committed file, a directory lock, and the in-memory copy of the    *)
(* process that holds the lock (the daemon, or one vauthctl command).      *)
(*                                                                         *)
(* Faults: every system call of the commit may fail, the TPM may report a  *)
(* failure whether or not the increment took effect, a process may be      *)
(* killed between any two steps, and a power failure may undo a rename     *)
(* whose directory was not yet synchronised.                               *)
(***************************************************************************)
EXTENDS Storage

CONSTANTS
    Daemon,             \* the vauth service
    Admins,             \* vauthctl invocations
    NoProcess,
    SettledBeforeRecovery   \* environment: the kernel has written a renamed
                            \* store file's directory back before a new process
                            \* finishes the interrupted commit

ASSUME SettledBeforeRecoveryIsBoolean == SettledBeforeRecovery \in BOOLEAN

Processes == {Daemon} \cup Admins

ASSUME NoProcessIsNone == NoProcess \notin Processes

File == [generation : 0 .. MaxGeneration, storage : StorageType]

\* read_store_file returning nullopt; save_storage never writes generation 0
MissingFile == [generation |-> 0, storage |-> EmptyStorage]

VARIABLES
    visible,            \* the store file as every process sees it
    durable,            \* the store file a power failure would leave
    counter,            \* generationCounter_->read(), the TPM NV counter
    lockHolder,         \* the process whose CredentialStoreLock is held
    pc,                 \* where each process is in its use of the store
    stored,             \* stored_ of each process
    generation,         \* generation_ of each process
    requiresReload,     \* requiresReload_ of each process
    updated,            \* the candidate map of the commit in progress
    committed           \* history: the contents of generation `counter'

vars == <<visible, durable, counter, lockHolder, pc, stored, generation,
          requiresReload, updated, committed>>

files == <<visible, durable>>
memory == <<stored, generation>>

Steps == {"down", "loading", "ready",
          "write", "sync", "increment", "verify", "recheck"}

(* Types; the generations of the file and the TPM counter never pass the   *)
(* largest one: save_storage refuses the commit before it would.           *)
TypeOK ==
    /\ visible \in File
    /\ durable \in File
    /\ counter \in 0 .. MaxGeneration
    /\ lockHolder \in Processes \cup {NoProcess}
    /\ pc \in [Processes -> Steps]
    /\ stored \in [Processes -> StorageType]
    /\ generation \in [Processes -> 0 .. MaxGeneration]
    /\ requiresReload \in [Processes -> BOOLEAN]
    /\ updated \in [Processes -> StorageType]
    /\ committed \in StorageType

Init ==
    /\ visible = MissingFile
    /\ durable = MissingFile
    /\ counter = 0
    /\ lockHolder = NoProcess
    /\ pc = [p \in Processes |-> "down"]
    /\ stored = [p \in Processes |-> EmptyStorage]
    /\ generation = [p \in Processes |-> 0]
    /\ requiresReload = [p \in Processes |-> FALSE]
    /\ updated = [p \in Processes |-> EmptyStorage]
    /\ committed = EmptyStorage

-----------------------------------------------------------------------------
(* The lifetime of a process that uses the store.                          *)

MutCanLock(p) == TRUE

(* flock(LOCK_EX | LOCK_NB): a process that does not get the lock throws   *)
(* before it constructs a CredentialStore.                                 *)
CanLock(p) == lockHolder = NoProcess

Start(p) ==
    /\ pc[p] = "down"
    /\ CanLock(p)
    /\ lockHolder' = p
    /\ pc' = [pc EXCEPT ![p] = "loading"]
    /\ UNCHANGED <<files, counter, memory, requiresReload, updated, committed>>

(* The process is gone: its memory is lost and the lock is released.       *)
Leave(p) ==
    /\ lockHolder' = IF lockHolder = p THEN NoProcess ELSE lockHolder
    /\ pc' = [pc EXCEPT ![p] = "down"]
    /\ stored' = [stored EXCEPT ![p] = EmptyStorage]
    /\ generation' = [generation EXCEPT ![p] = 0]
    /\ requiresReload' = [requiresReload EXCEPT ![p] = FALSE]
    /\ updated' = [updated EXCEPT ![p] = EmptyStorage]

(* A normal exit, an uncaught exception, or a kill at any step.            *)
Exit(p) ==
    /\ pc[p] # "down"
    /\ Leave(p)
    /\ UNCHANGED <<files, counter, committed>>

(* Everything stops; the directory entry on disk is the new or the old one.*)
PowerFailure ==
    /\ \E survivor \in {visible, durable} :
        visible' = survivor /\ durable' = survivor
    /\ lockHolder' = NoProcess
    /\ pc' = [p \in Processes |-> "down"]
    /\ stored' = [p \in Processes |-> EmptyStorage]
    /\ generation' = [p \in Processes |-> 0]
    /\ requiresReload' = [p \in Processes |-> FALSE]
    /\ updated' = [p \in Processes |-> EmptyStorage]
    /\ UNCHANGED <<counter, committed>>

-----------------------------------------------------------------------------
(* CredentialStore::load.                                                  *)

(* The generations load accepts; any other file is a rollback or an        *)
(* inconsistency and load throws.                                          *)
Interrupted(f) == f.generation = counter + 1

(* The TPM increments its counter; what it counts is the visible file.     *)
Increment ==
    /\ counter' = counter + 1
    /\ committed' = visible.storage

(* load() does not synchronise the directory before it lets the counter    *)
(* follow the file.                                                        *)
RecoverCounter ==
    /\ Interrupted(visible)
    /\ SettledBeforeRecovery => durable = visible
    /\ Increment

TakeFile(p, f) ==
    /\ stored' = [stored EXCEPT ![p] = f.storage]
    /\ generation' = [generation EXCEPT ![p] = f.generation]
    /\ requiresReload' = [requiresReload EXCEPT ![p] = FALSE]
    /\ pc' = [pc EXCEPT ![p] = "ready"]

LoadCommitted(p) ==
    /\ pc[p] = "loading"
    /\ visible.generation = counter
    /\ TakeFile(p, visible)
    /\ UNCHANGED <<files, counter, lockHolder, updated, committed>>

(* An interrupted commit is finished: the counter follows the file.        *)
LoadInterrupted(p) ==
    /\ pc[p] = "loading"
    /\ RecoverCounter
    /\ TakeFile(p, visible)
    /\ UNCHANGED <<files, lockHolder, updated>>

(* load throws and the process ends: a read fails, or the file is refused, *)
(* or the recovery increment is not confirmed although it took effect.     *)
LoadFails(p) ==
    /\ pc[p] = "loading"
    /\ Leave(p)
    /\ \/ UNCHANGED <<counter, committed>>
       \/ RecoverCounter
    /\ UNCHANGED files

-----------------------------------------------------------------------------
(* The operations.  Each computes the candidate map from a copy of stored_ *)
(* and enters save_storage; an operation whose checks fail throws and      *)
(* changes nothing.                                                        *)

(* save_storage up to the write: it refuses after an interrupted commit,   *)
(* when the counter moved, and at the last generation.                     *)
SaveStorage(p, candidate) ==
    /\ pc[p] = "ready"
    /\ ~requiresReload[p]
    /\ counter = generation[p]
    /\ generation[p] < MaxGeneration
    /\ updated' = [updated EXCEPT ![p] = candidate]
    /\ pc' = [pc EXCEPT ![p] = "write"]
    /\ UNCHANGED <<files, counter, lockHolder, memory, requiresReload, committed>>

(* MakeCredential in the daemon.                                           *)
Put(p, id, owner, rp, user, discoverable) ==
    LET cred == NewCredential(owner, rp, user, discoverable, generation[p] + 1)
    IN  /\ CanPut(stored[p], id, cred)
        /\ SaveStorage(p, AfterPut(stored[p], id, cred))

(* GetAssertion and GetNextAssertion in the daemon.                        *)
IncrementSigCount(p, id, owner) ==
    /\ OwnedBy(stored[p], id, owner)
    /\ CanIncrementSigCount(stored[p], id)
    /\ SaveStorage(p, AfterIncrement(stored[p], id))

(* vauthctl credential delete, and vauthctl store clear.                   *)
EraseCredential(p, id, owner) ==
    /\ OwnedBy(stored[p], id, owner)
    /\ SaveStorage(p, AfterErase(stored[p], id))

Clear(p) == SaveStorage(p, EmptyStorage)

-----------------------------------------------------------------------------
(* The commit: atomic_write_file, then the counter.                        *)

NewFile(p) == [generation |-> generation[p] + 1, storage |-> updated[p]]

(* save_storage throws: the candidate map is dropped.                      *)
Throw(p) ==
    /\ pc' = [pc EXCEPT ![p] = "ready"]
    /\ updated' = [updated EXCEPT ![p] = EmptyStorage]

(* The temporary file is written, synchronised and renamed over the store. *)
Rename(p) ==
    /\ pc[p] = "write"
    /\ visible' = NewFile(p)
    /\ pc' = [pc EXCEPT ![p] = "sync"]
    /\ UNCHANGED <<durable, counter, lockHolder, memory, requiresReload,
                   updated, committed>>

(* Creating, writing, synchronising or renaming the temporary file fails.  *)
WriteFails(p) ==
    /\ pc[p] = "write"
    /\ Throw(p)
    /\ UNCHANGED <<files, counter, lockHolder, memory, requiresReload, committed>>

MutSyncDirectory(p) ==
    /\ pc[p] = "sync"
    /\ pc' = [pc EXCEPT ![p] = "increment"]
    /\ UNCHANGED <<files, counter, lockHolder, memory, requiresReload,
                   updated, committed>>

SyncDirectory(p) ==
    /\ pc[p] = "sync"
    /\ durable' = visible
    /\ pc' = [pc EXCEPT ![p] = "increment"]
    /\ UNCHANGED <<visible, counter, lockHolder, memory, requiresReload,
                   updated, committed>>

(* The renamed file stays; requiresReload_ is not set on this path.        *)
SyncDirectoryFails(p) ==
    /\ pc[p] = "sync"
    /\ Throw(p)
    /\ UNCHANGED <<files, counter, lockHolder, memory, requiresReload, committed>>

IncrementCounter(p) ==
    /\ pc[p] = "increment"
    /\ Increment
    /\ pc' = [pc EXCEPT ![p] = "verify"]
    /\ UNCHANGED <<files, lockHolder, memory, requiresReload, updated>>

(* increment() throws, with or without effect on the TPM.                  *)
IncrementCounterFails(p) ==
    /\ pc[p] = "increment"
    /\ Increment \/ UNCHANGED <<counter, committed>>
    /\ requiresReload' = [requiresReload EXCEPT ![p] = TRUE]
    /\ pc' = [pc EXCEPT ![p] = "recheck"]
    /\ UNCHANGED <<files, lockHolder, memory, updated>>

(* The candidate becomes the in-memory state and the operation returns.    *)
Publish(p) ==
    /\ generation' = [generation EXCEPT ![p] = @ + 1]
    /\ stored' = [stored EXCEPT ![p] = updated[p]]
    /\ requiresReload' = [requiresReload EXCEPT ![p] = FALSE]
    /\ updated' = [updated EXCEPT ![p] = EmptyStorage]
    /\ pc' = [pc EXCEPT ![p] = "ready"]

VerifyCounter(p) ==
    /\ pc[p] = "verify"
    /\ counter = generation[p] + 1
    /\ Publish(p)
    /\ UNCHANGED <<files, counter, lockHolder, committed>>

(* The read throws, or returns another value.                              *)
VerifyCounterFails(p) ==
    /\ pc[p] = "verify"
    /\ requiresReload' = [requiresReload EXCEPT ![p] = TRUE]
    /\ pc' = [pc EXCEPT ![p] = "recheck"]
    /\ UNCHANGED <<files, counter, lockHolder, memory, updated, committed>>

MutRecheck(p) ==
    /\ pc[p] = "recheck"
    /\ Publish(p)
    /\ UNCHANGED <<files, counter, lockHolder, committed>>

(* The catch block reads the counter once more.                            *)
Recheck(p) ==
    /\ pc[p] = "recheck"
    /\ counter = generation[p] + 1
    /\ Publish(p)
    /\ UNCHANGED <<files, counter, lockHolder, committed>>

(* That read throws, or the counter did not advance: the store stays       *)
(* closed until it is loaded again.                                        *)
RecheckFails(p) ==
    /\ pc[p] = "recheck"
    /\ Throw(p)
    /\ UNCHANGED <<files, counter, lockHolder, memory, requiresReload, committed>>

(* The kernel writes the directory back on its own.                        *)
Writeback ==
    /\ durable # visible
    /\ durable' = visible
    /\ UNCHANGED <<visible, counter, lockHolder, pc, memory, requiresReload,
                   updated, committed>>

-----------------------------------------------------------------------------
Operation(p) ==
    \/ /\ p = Daemon
       /\ \E id \in CredentialIds, owner \in Owners :
            \/ \E rp \in RpIds, user \in UserIds, discoverable \in BOOLEAN :
                    Put(p, id, owner, rp, user, discoverable)
            \/ IncrementSigCount(p, id, owner)
    \/ /\ p \in Admins
       /\ \/ \E id \in CredentialIds, owner \in Owners :
                EraseCredential(p, id, owner)
          \/ Clear(p)

CommitStep(p) ==
    \/ Rename(p) \/ WriteFails(p)
    \/ SyncDirectory(p) \/ SyncDirectoryFails(p)
    \/ IncrementCounter(p) \/ IncrementCounterFails(p)
    \/ VerifyCounter(p) \/ VerifyCounterFails(p)
    \/ Recheck(p) \/ RecheckFails(p)

Next ==
    \/ \E p \in Processes :
        \/ Start(p) \/ Exit(p)
        \/ LoadCommitted(p) \/ LoadInterrupted(p) \/ LoadFails(p)
        \/ Operation(p)
        \/ CommitStep(p)
    \/ PowerFailure
    \/ Writeback

Spec == Init /\ [][Next]_vars

-----------------------------------------------------------------------------
(* Whatever stops the processes, and wherever, the store file that is left *)
(* is one load() accepts: it is the committed contents under the counter's *)
(* generation, or one whole operation ahead of it.  A daemon is never      *)
(* locked out by its own interrupted commit, and a committed operation is  *)
(* never lost.                                                             *)
RecoverableFile(f) ==
    \/ f.generation = counter /\ f.storage = committed
    \/ Interrupted(f) /\ OneOperation(committed, f.storage, counter + 1)

(* Both the file other processes see and the one a power failure would     *)
(* leave are such files, at every step of save_storage and load.           *)
Recoverable == RecoverableFile(visible) /\ RecoverableFile(durable)

(* A process that answers from memory (no operation in progress, and       *)
(* require_ready() passes) answers from the committed contents, also after *)
(* failed commits and after another process used the store.                *)
MemoryIsCommitted ==
    \A p \in Processes :
        pc[p] = "ready" /\ ~requiresReload[p] =>
            stored[p] = committed /\ generation[p] = counter

(* "The file is deliberately committed before the NV counter"             *)
(* (ARCHITECTURE.md): the file that survives a power failure is never      *)
(* behind the counter, so load() never takes an interrupted commit for a   *)
(* rollback.  It needs SettledBeforeRecovery: load() itself lets the       *)
(* counter follow a renamed file without synchronising the directory.      *)
FileCommittedBeforeCounter == durable.generation >= counter

(* No owner ever has two discoverable credentials for one account, so the  *)
(* credentials offered by find_for_assertion are of different accounts.    *)
OneDiscoverablePerAccount ==
    \A i, j \in Contained(committed) :
        i # j => ~SameAccount(committed[i], committed[j])

(* creationOrder, which sorts the credentials of an assertion, identifies  *)
(* the commit that created the credential: never two with the same one,    *)
(* although the generation of a failed commit is used again.               *)
CreationOrderDistinct ==
    \A i, j \in Contained(committed) :
        /\ committed[i].creationOrder <= counter
        /\ i # j => committed[i].creationOrder # committed[j].creationOrder

(* The credentials of the store are told apart by the order of an          *)
(* assertion and by their accounts, across crashes and failed commits.     *)
CredentialsDistinct == OneDiscoverablePerAccount /\ CreationOrderDistinct

(* The abstract store, read off the TPM counter and what it counts.        *)
Durable == INSTANCE DurableStore WITH value <- committed, version <- counter

(* The commit protocol implements the durable store: every change of the   *)
(* authoritative contents is one whole operation on them, under the next   *)
(* generation; crashes and failures are stuttering steps.                  *)
ImplementsDurableStore == Durable!Spec
=============================================================================
