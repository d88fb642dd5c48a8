---------------------------- MODULE DeviceProofs ----------------------------
(***************************************************************************)
(* Proofs about the two components below the event loop: the credential    *)
(* store, for every set of credentials, processes and every bound, and the *)
(* frame processor, for every frame size, channel set and number of        *)
(* messages.                                                               *)
(*                                                                         *)
(* The store: the inductive invariant IInv adds to Recoverable what each   *)
(* step of a commit in progress knows: which file is visible, which one is *)
(* durable, and how the counter relates to generation_ of the process.     *)
(*                                                                         *)
(* The frames: what is being assembled always has the number of bytes its  *)
(* sequence number says, so the 7-bit sequence never overflows for a       *)
(* message within the payload limit; and nothing is being assembled while  *)
(* a request is executed (FrameInv).                                       *)
(***************************************************************************)
EXTENDS CredentialStore, FrameAssembly, TLAPS

\* A leaf that names no prover is for Zenon.
USE ZenonT(60)

(* Only the process that holds the lock is past "down".                    *)
OnlyHolder == \A p \in Processes : pc[p] # "down" => lockHolder = p

(* What process p may rely on at each step.                                *)
Knows(p) ==
    /\ pc[p] = "ready" /\ ~requiresReload[p] =>
            stored[p] = committed /\ generation[p] = counter
    /\ pc[p] \in {"write", "sync", "increment"} =>
            /\ stored[p] = committed
            /\ generation[p] = counter
            /\ counter < MaxGeneration
            /\ OneOperation(committed, updated[p], counter + 1)
    /\ pc[p] \in {"sync", "increment"} => visible = NewFile(p)
    /\ pc[p] = "increment" => durable = visible
    /\ pc[p] = "verify" =>
            counter = generation[p] + 1 /\ committed = updated[p]
    /\ pc[p] = "recheck" =>
            /\ requiresReload[p]
            /\ counter = generation[p] + 1 => committed = updated[p]

IInv ==
    /\ TypeOK
    /\ OnlyHolder
    /\ Recoverable
    /\ \A p \in Processes : Knows(p)

-----------------------------------------------------------------------------
(* One operation on a well-formed map gives a well-formed map.             *)
LEMMA OneOperationType ==
    ASSUME NEW s \in StorageType, NEW t, NEW g \in 1 .. MaxGeneration,
           OneOperation(s, t, g)
    PROVE  t \in StorageType
<1>1. CASE PutStep(s, t, g)
  <2>1. PICK id \in CredentialIds, owner \in Owners, rp \in RpIds,
             user \in UserIds, discoverable \in BOOLEAN :
             t = AfterPut(s, id, NewCredential(owner, rp, user, discoverable, g))
    BY <1>1 DEF PutStep
  <2>2. NewCredential(owner, rp, user, discoverable, g) \in StoredCredential
    BY SMTT(60), SignCountBound DEF NewCredential, StoredCredential
  <2>3. WithoutAccount(s, NewCredential(owner, rp, user, discoverable, g))
            \in StorageType
    BY DEF WithoutAccount, StorageType
  <2>4. QED  BY <2>1, <2>2, <2>3 DEF AfterPut, StorageType
<1>2. CASE EraseStep(s, t)
  BY <1>2 DEF EraseStep, AfterErase, StorageType
<1>3. CASE SigCountStep(s, t)
  <2>1. PICK id \in CredentialIds :
             /\ s[id] # NoCredential
             /\ s[id].signCount < MaxSignCount
             /\ t = AfterIncrement(s, id)
    BY <1>3 DEF SigCountStep, OwnedBy, CanIncrementSigCount
  <2>2. s[id] \in StoredCredential
    BY <2>1 DEF StorageType
  <2>3. [s[id] EXCEPT !.signCount = @ + 1] \in StoredCredential
    BY SMTT(60), <2>1, <2>2, SignCountBound DEF StoredCredential
  <2>4. QED  BY <2>1, <2>3 DEF AfterIncrement, StorageType
<1>4. CASE t = EmptyStorage
  BY <1>4 DEF EmptyStorage, StorageType
<1>5. QED  BY <1>1, <1>2, <1>3, <1>4 DEF OneOperation

(* Every operation of a ready process enters save_storage with a candidate *)
(* that is one operation away from the committed contents.                 *)
LEMMA OperationCandidate ==
    ASSUME IInv, NEW p \in Processes, Operation(p)
    PROVE  \E candidate \in StorageType :
               /\ SaveStorage(p, candidate)
               /\ OneOperation(committed, candidate, counter + 1)
<1> DEFINE Op(c) == SaveStorage(p, c) /\ OneOperation(stored[p], c, generation[p] + 1)
<1>1. \E c : Op(c)
  <2>1. CASE \E id \in CredentialIds, owner \in Owners, rp \in RpIds,
                user \in UserIds, discoverable \in BOOLEAN :
                Put(p, id, owner, rp, user, discoverable)
    BY <2>1 DEF Put, OneOperation, PutStep
  <2>2. CASE \E id \in CredentialIds, owner \in Owners :
                IncrementSigCount(p, id, owner)
    BY <2>2 DEF IncrementSigCount, OneOperation, SigCountStep
  <2>3. CASE \E id \in CredentialIds, owner \in Owners :
                EraseCredential(p, id, owner)
    BY <2>3 DEF EraseCredential, OneOperation, EraseStep
  <2>4. CASE Clear(p)
    BY <2>4 DEF Clear, OneOperation
  <2>5. QED  BY <2>1, <2>2, <2>3, <2>4 DEF Operation
<1>2. PICK c : Op(c)
  BY <1>1
<1>3. pc[p] = "ready" /\ ~requiresReload[p] /\ generation[p] < MaxGeneration
  BY <1>2 DEF SaveStorage
<1>4. stored[p] = committed /\ generation[p] = counter
  BY <1>3 DEF IInv, Knows
<1>5. counter + 1 \in 1 .. MaxGeneration /\ committed \in StorageType
  BY SMTT(60), <1>3, <1>4, GenerationBound DEF IInv, TypeOK
<1>6. OneOperation(committed, c, counter + 1)
  BY <1>2, <1>4
<1>7. c \in StorageType
  BY <1>5, <1>6, OneOperationType
<1>8. QED  BY <1>2, <1>6, <1>7

-----------------------------------------------------------------------------
(* While p is past "down", every other process is down.                    *)
LEMMA OthersDown ==
    ASSUME IInv, NEW p \in Processes, pc[p] # "down" \/ lockHolder = NoProcess
    PROVE  \A q \in Processes : q # p => pc[q] = "down"
BY NoProcessIsNone DEF IInv, OnlyHolder

\* The initial states satisfy the invariant.
LEMMA InitIInv == Init => IInv
<1> SUFFICES ASSUME Init PROVE IInv
  OBVIOUS
<1>1. EmptyStorage \in StorageType
  BY DEF EmptyStorage, StorageType
<1>2. TypeOK
  BY SMTT(60), <1>1, GenerationBound DEF Init, TypeOK, File, MissingFile, Steps
<1>3. Recoverable
  BY DEF Init, Recoverable, RecoverableFile, MissingFile
<1>4. OnlyHolder /\ \A p \in Processes : Knows(p)
  BY DEF Init, OnlyHolder, Knows
<1>5. QED  BY <1>2, <1>3, <1>4 DEF IInv

(* Ending a process keeps the invariant when the files and the counter do. *)
LEMMA LeaveIInv ==
    ASSUME IInv, NEW p \in Processes, Leave(p), UNCHANGED files,
           pc[p] # "down",
           \/ UNCHANGED <<counter, committed>>
           \/ /\ counter' \in 0 .. MaxGeneration
              /\ committed' \in StorageType
              /\ Recoverable'
    PROVE  IInv'
<1>1. EmptyStorage \in StorageType
  BY DEF EmptyStorage, StorageType
<1>2. TypeOK'
  BY SMTT(60), <1>1, GenerationBound DEF IInv, TypeOK, Leave, files, Steps
<1>3. pc' = [q \in Processes |-> "down"]
  BY OthersDown DEF Leave, IInv, TypeOK
<1>4. OnlyHolder' /\ (\A q \in Processes : Knows(q))'
  BY <1>3 DEF OnlyHolder, Knows
<1>5. Recoverable'
  BY DEF IInv, Recoverable, RecoverableFile, Interrupted, files
<1>6. QED  BY <1>2, <1>4, <1>5 DEF IInv

(* The recovery increment of load() keeps the files recoverable, because   *)
(* the file that is counted is the one that is durable.                    *)
LEMMA RecoverCounterFiles ==
    ASSUME SettledBeforeRecovery, IInv, RecoverCounter, UNCHANGED files
    PROVE  /\ counter' \in 0 .. MaxGeneration
           /\ committed' \in StorageType
           /\ Recoverable'
           /\ counter' = visible.generation
           /\ committed' = visible.storage
BY DEF IInv, TypeOK, File, RecoverCounter, Increment, Interrupted, files,
       Recoverable, RecoverableFile

\* A process that takes the lock knows nothing of the store yet.
LEMMA StartIInv ==
    ASSUME IInv, NEW p \in Processes, Start(p)
    PROVE  IInv'
<1>1. TypeOK'
  BY DEF IInv, TypeOK, Start, files, memory, Steps
<1>2. Recoverable'
  BY DEF IInv, Recoverable, RecoverableFile, Interrupted, Start, files
<1>3. \A q \in Processes : pc'[q] = IF q = p THEN "loading" ELSE "down"
  BY OthersDown DEF Start, CanLock, IInv, TypeOK
<1>4. OnlyHolder' /\ (\A q \in Processes : Knows(q))'
  BY SMTT(60), <1>3 DEF OnlyHolder, Knows, Start
<1>5. QED  BY <1>1, <1>2, <1>4 DEF IInv

(* Steps of the lock holder p that keep it running: what remains to show   *)
(* is the type, the files, and what p itself knows afterwards.             *)
LEMMA HolderIInv ==
    ASSUME IInv, NEW p \in Processes, pc[p] # "down", NEW step \in Steps,
           pc' = [pc EXCEPT ![p] = step], UNCHANGED lockHolder,
           TypeOK', Recoverable', Knows(p)'
    PROVE  IInv'
<1>1. \A q \in Processes : q # p => pc'[q] = "down"
  BY OthersDown DEF IInv, TypeOK
<1>2. OnlyHolder'
  BY <1>1 DEF IInv, OnlyHolder
<1>3. (\A q \in Processes : Knows(q))'
  BY <1>1 DEF Knows
<1>4. QED  BY <1>2, <1>3 DEF IInv

\* load() takes the file the counter vouches for, or completes its commit.
LEMMA LoadIInv ==
    ASSUME SettledBeforeRecovery, IInv, NEW p \in Processes,
           LoadCommitted(p) \/ LoadInterrupted(p)
    PROVE  IInv'
<1>1. /\ counter' \in 0 .. MaxGeneration
      /\ committed' \in StorageType
      /\ Recoverable'
      /\ counter' = visible.generation
      /\ committed' = visible.storage
  <2>1. CASE LoadCommitted(p)
    BY SMTT(60), <2>1 DEF IInv, TypeOK, File, LoadCommitted, files, Recoverable,
                RecoverableFile, Interrupted
  <2>2. CASE LoadInterrupted(p)
    BY <2>2, RecoverCounterFiles DEF LoadInterrupted
  <2>3. QED  BY <2>1, <2>2
<1>2. /\ pc[p] = "loading"
      /\ TakeFile(p, visible)
      /\ UNCHANGED <<files, lockHolder, updated>>
  BY DEF LoadCommitted, LoadInterrupted
<1>3. TypeOK'
  BY <1>1, <1>2 DEF IInv, TypeOK, File, TakeFile, files, Steps
<1>4. Knows(p)'
  BY <1>1, <1>2 DEF Knows, TakeFile, IInv, TypeOK
<1>5. QED  BY <1>1, <1>2, <1>3, <1>4, HolderIInv DEF TakeFile, Steps

\* An operation renames a file one generation ahead of the counter, or throws.
LEMMA OperationIInv ==
    ASSUME IInv, NEW p \in Processes, Operation(p)
    PROVE  IInv'
<1>1. PICK candidate \in StorageType :
          /\ SaveStorage(p, candidate)
          /\ OneOperation(committed, candidate, counter + 1)
  BY OperationCandidate
<1>2. TypeOK'
  BY <1>1 DEF IInv, TypeOK, SaveStorage, files, memory, Steps
<1>3. Recoverable'
  BY <1>1 DEF IInv, SaveStorage, files, Recoverable, RecoverableFile, Interrupted
<1>4. Knows(p)'
  BY <1>1 DEF IInv, TypeOK, Knows, SaveStorage, files, memory
<1>5. QED  BY <1>1, <1>2, <1>3, <1>4, HolderIInv DEF SaveStorage, Steps

-----------------------------------------------------------------------------
(* The steps of a commit.                                                  *)
LEMMA RenameIInv ==
    ASSUME IInv, NEW p \in Processes, Rename(p)
    PROVE  IInv'
<1>1. /\ generation[p] = counter
      /\ counter < MaxGeneration
      /\ OneOperation(committed, updated[p], counter + 1)
  BY DEF IInv, Knows, Rename
<1>2. NewFile(p) \in File
  BY SMTT(60), <1>1, GenerationBound DEF IInv, TypeOK, NewFile, File
<1>3. TypeOK'
  BY <1>2 DEF IInv, TypeOK, Rename, memory, Steps
<1>4. Recoverable'
  BY <1>1 DEF IInv, Recoverable, RecoverableFile, Interrupted, Rename, NewFile
<1>5. Knows(p)'
  BY <1>1 DEF IInv, TypeOK, Knows, Rename, NewFile, memory
<1>6. QED  BY <1>3, <1>4, <1>5, HolderIInv DEF Rename, Steps

\* After the directory sync the new generation cannot be lost any more.
LEMMA SyncDirectoryIInv ==
    ASSUME IInv, NEW p \in Processes, SyncDirectory(p)
    PROVE  IInv'
<1>1. TypeOK'
  BY DEF IInv, TypeOK, SyncDirectory, memory, Steps
<1>2. Recoverable'
  BY DEF IInv, Recoverable, RecoverableFile, Interrupted, SyncDirectory
<1>3. Knows(p)'
  BY DEF IInv, TypeOK, Knows, SyncDirectory, NewFile, memory
<1>4. QED  BY <1>1, <1>2, <1>3, HolderIInv DEF SyncDirectory, Steps

(* A step that throws leaves the files, the counter and generation_ alone. *)
LEMMA ThrowIInv ==
    ASSUME IInv, NEW p \in Processes,
           WriteFails(p) \/ SyncDirectoryFails(p) \/ RecheckFails(p)
    PROVE  IInv'
<1>1. /\ pc[p] \in {"write", "sync", "recheck"}
      /\ Throw(p)
      /\ UNCHANGED <<files, counter, lockHolder, memory, requiresReload, committed>>
  BY DEF WriteFails, SyncDirectoryFails, RecheckFails
<1>2. EmptyStorage \in StorageType
  BY DEF EmptyStorage, StorageType
<1>3. TypeOK'
  BY <1>1, <1>2 DEF IInv, TypeOK, Throw, files, memory, Steps
<1>4. Recoverable'
  BY <1>1 DEF IInv, Recoverable, RecoverableFile, Interrupted, files
<1>5. Knows(p)'
  BY <1>1 DEF IInv, TypeOK, Knows, Throw, files, memory
<1>6. QED  BY <1>1, <1>3, <1>4, <1>5, HolderIInv DEF Throw, Steps

(* The TPM counts the file that p renamed and synchronised.                *)
LEMMA IncrementFiles ==
    ASSUME IInv, NEW p \in Processes, pc[p] = "increment", Increment,
           UNCHANGED files
    PROVE  /\ counter' \in 0 .. MaxGeneration
           /\ committed' \in StorageType
           /\ Recoverable'
           /\ counter' = generation[p] + 1
           /\ committed' = updated[p]
<1>1. /\ visible = NewFile(p) /\ durable = visible
      /\ generation[p] = counter /\ counter < MaxGeneration
  BY DEF IInv, Knows
<1>2. QED
  BY SMTT(60), <1>1, GenerationBound
     DEF IInv, TypeOK, NewFile, Increment, Recoverable, RecoverableFile, files

\* The counter advances only onto a file that is durable.
LEMMA CountIInv ==
    ASSUME IInv, NEW p \in Processes,
           IncrementCounter(p) \/ IncrementCounterFails(p)
    PROVE  IInv'
<1>1. CASE IncrementCounter(p)
  <2>1. /\ counter' \in 0 .. MaxGeneration
        /\ committed' \in StorageType
        /\ Recoverable'
        /\ counter' = generation[p] + 1
        /\ committed' = updated[p]
    BY <1>1, IncrementFiles DEF IncrementCounter
  <2>2. TypeOK'
    BY <1>1, <2>1 DEF IInv, TypeOK, IncrementCounter, files, memory, Steps
  <2>3. Knows(p)'
    BY <1>1, <2>1 DEF IInv, TypeOK, Knows, IncrementCounter, memory
  <2>4. QED  BY <1>1, <2>1, <2>2, <2>3, HolderIInv DEF IncrementCounter, Steps
<1>2. CASE IncrementCounterFails(p) /\ Increment
  <2>1. /\ counter' \in 0 .. MaxGeneration
        /\ committed' \in StorageType
        /\ Recoverable'
        /\ counter' = generation[p] + 1
        /\ committed' = updated[p]
    BY <1>2, IncrementFiles DEF IncrementCounterFails
  <2>2. TypeOK'
    BY <1>2, <2>1 DEF IInv, TypeOK, IncrementCounterFails, files, memory, Steps
  <2>3. Knows(p)'
    BY <1>2, <2>1 DEF IInv, TypeOK, Knows, IncrementCounterFails, memory
  <2>4. QED  BY <1>2, <2>1, <2>2, <2>3, HolderIInv DEF IncrementCounterFails, Steps
<1>3. CASE IncrementCounterFails(p) /\ UNCHANGED <<counter, committed>>
  <2>1. TypeOK'
    BY <1>3 DEF IInv, TypeOK, IncrementCounterFails, files, memory, Steps
  <2>2. Recoverable'
    BY <1>3 DEF IInv, Recoverable, RecoverableFile, Interrupted,
                IncrementCounterFails, files
  <2>3. Knows(p)'
    BY SMTT(60), <1>3 DEF IInv, TypeOK, Knows, IncrementCounterFails, memory
  <2>4. QED  BY <1>3, <2>1, <2>2, <2>3, HolderIInv DEF IncrementCounterFails, Steps
<1>4. QED  BY <1>1, <1>2, <1>3 DEF IncrementCounterFails

\* Memory takes the candidate once the counter has reached its generation.
LEMMA PublishIInv ==
    ASSUME IInv, NEW p \in Processes, VerifyCounter(p) \/ Recheck(p)
    PROVE  IInv'
<1>1. /\ pc[p] \in {"verify", "recheck"}
      /\ counter = generation[p] + 1
      /\ Publish(p)
      /\ UNCHANGED <<files, counter, lockHolder, committed>>
  BY DEF VerifyCounter, Recheck
<1>2. committed = updated[p]
  BY <1>1 DEF IInv, Knows
<1>3. EmptyStorage \in StorageType
  BY DEF EmptyStorage, StorageType
<1>4. TypeOK'
  BY <1>1, <1>2, <1>3 DEF IInv, TypeOK, Publish, files, Steps
<1>5. Recoverable'
  BY <1>1 DEF IInv, Recoverable, RecoverableFile, Interrupted, files
<1>6. Knows(p)'
  BY <1>1, <1>2 DEF IInv, TypeOK, Knows, Publish
<1>7. QED  BY <1>1, <1>4, <1>5, <1>6, HolderIInv DEF Publish, Steps

\* A counter that cannot be read leaves the commit to the recheck.
LEMMA VerifyFailsIInv ==
    ASSUME IInv, NEW p \in Processes, VerifyCounterFails(p)
    PROVE  IInv'
<1>1. TypeOK'
  BY DEF IInv, TypeOK, VerifyCounterFails, files, memory, Steps
<1>2. Recoverable'
  BY DEF IInv, Recoverable, RecoverableFile, Interrupted, VerifyCounterFails, files
<1>3. Knows(p)'
  BY DEF IInv, TypeOK, Knows, VerifyCounterFails, memory
<1>4. QED  BY <1>1, <1>2, <1>3, HolderIInv DEF VerifyCounterFails, Steps

\* Power failures and write-back lose nothing the counter vouches for.
LEMMA EnvironmentIInv ==
    ASSUME IInv, PowerFailure \/ Writeback
    PROVE  IInv'
<1>1. CASE PowerFailure
  <2>1. EmptyStorage \in StorageType
    BY DEF EmptyStorage, StorageType
  <2>2. TypeOK'
    BY SMTT(60), <1>1, <2>1, GenerationBound DEF IInv, TypeOK, PowerFailure, Steps
  <2>3. Recoverable'
    BY <1>1 DEF IInv, Recoverable, RecoverableFile, Interrupted, PowerFailure
  <2>4. OnlyHolder' /\ (\A q \in Processes : Knows(q))'
    BY <1>1 DEF OnlyHolder, Knows, PowerFailure
  <2>5. QED  BY <2>2, <2>3, <2>4 DEF IInv
<1>2. CASE Writeback
  <2>1. TypeOK' /\ OnlyHolder'
    BY <1>2 DEF IInv, TypeOK, OnlyHolder, Writeback, memory
  <2>2. Recoverable'
    BY <1>2 DEF IInv, Recoverable, RecoverableFile, Interrupted, Writeback
  <2>3. ASSUME NEW q \in Processes PROVE Knows(q)'
    BY <1>2 DEF IInv, Knows, NewFile, Writeback, memory
  <2>4. QED  BY <2>1, <2>2, <2>3 DEF IInv
<1>3. QED  BY <1>1, <1>2

-----------------------------------------------------------------------------
\* Every step preserves the invariant.
LEMMA NextIInv ==
    ASSUME SettledBeforeRecovery, IInv, [Next]_vars
    PROVE  IInv'
<1>1. ASSUME NEW p \in Processes, Start(p) PROVE IInv'
  BY <1>1, StartIInv
<1>2. ASSUME NEW p \in Processes, Exit(p) PROVE IInv'
  BY <1>2, LeaveIInv DEF Exit
<1>3. ASSUME NEW p \in Processes, LoadCommitted(p) \/ LoadInterrupted(p)
      PROVE  IInv'
  BY <1>3, LoadIInv
<1>4. ASSUME NEW p \in Processes, LoadFails(p) PROVE IInv'
  <2>1. CASE UNCHANGED <<counter, committed>>
    BY <1>4, <2>1, LeaveIInv DEF LoadFails
  <2>2. CASE RecoverCounter
    BY <1>4, <2>2, LeaveIInv, RecoverCounterFiles DEF LoadFails
  <2>3. QED  BY <1>4, <2>1, <2>2 DEF LoadFails
<1>5. ASSUME NEW p \in Processes, Operation(p) PROVE IInv'
  BY <1>5, OperationIInv
<1>6. ASSUME NEW p \in Processes, CommitStep(p) PROVE IInv'
  BY <1>6, RenameIInv, SyncDirectoryIInv, ThrowIInv, CountIInv, PublishIInv,
     VerifyFailsIInv DEF CommitStep
<1>7. CASE PowerFailure \/ Writeback
  BY <1>7, EnvironmentIInv
<1>8. CASE UNCHANGED vars
  <2>1. TypeOK' /\ OnlyHolder' /\ Recoverable'
    BY <1>8 DEF vars, IInv, TypeOK, OnlyHolder, Recoverable, RecoverableFile,
                Interrupted
  <2>2. ASSUME NEW q \in Processes PROVE Knows(q)'
    BY <1>8 DEF vars, IInv, Knows, NewFile
  <2>3. QED  BY <2>1, <2>2 DEF IInv
<1>9. QED
  BY <1>1, <1>2, <1>3, <1>4, <1>5, <1>6, <1>7, <1>8 DEF Next

\* The invariant holds in every reachable state.
LEMMA InvariantHolds ==
    ASSUME SettledBeforeRecovery
    PROVE  Spec => []IInv
<1>1. IInv /\ [Next]_vars => IInv'
  BY NextIInv
<1>2. QED  BY <1>1, InitIInv, PTL DEF Spec

(* The variables keep their types.                                         *)
THEOREM TypeCorrect ==
    ASSUME SettledBeforeRecovery
    PROVE  Spec => []TypeOK
<1>1. IInv => TypeOK
  BY DEF IInv
<1>2. QED  BY <1>1, InvariantHolds, PTL

(* The store file that any crash or power failure leaves is one load()     *)
(* accepts, and holds the committed contents or one operation more.        *)
THEOREM AlwaysRecoverable ==
    ASSUME SettledBeforeRecovery
    PROVE  Spec => []Recoverable
<1>1. IInv => Recoverable
  BY DEF IInv
<1>2. QED  BY <1>1, InvariantHolds, PTL

(* The file that survives a power failure is never behind the counter.     *)
THEOREM NeverTakenForRollback ==
    ASSUME SettledBeforeRecovery
    PROVE  Spec => []FileCommittedBeforeCounter
<1>1. IInv => FileCommittedBeforeCounter
  BY SMTT(60) DEF IInv, TypeOK, File, Recoverable, RecoverableFile, Interrupted,
         FileCommittedBeforeCounter
<1>2. QED  BY <1>1, InvariantHolds, PTL

(* A process that answers from memory answers from the committed contents. *)
THEOREM AnswersCommitted ==
    ASSUME SettledBeforeRecovery
    PROVE  Spec => []MemoryIsCommitted
<1>1. IInv => MemoryIsCommitted
  BY DEF IInv, Knows, MemoryIsCommitted
<1>2. QED  BY <1>1, InvariantHolds, PTL

-----------------------------------------------------------------------------
(* The commit protocol implements the durable store.                       *)
LEMMA SameOperators ==
    ASSUME NEW s, NEW t, NEW g
    PROVE  /\ Durable!OneOperation(s, t, g) <=> OneOperation(s, t, g)
           /\ Durable!EmptyStorage = EmptyStorage
<1>1. Durable!PutStep(s, t, g) <=> PutStep(s, t, g)
  <2>1. \A cred : Durable!WithoutAccount(s, cred) = WithoutAccount(s, cred)
    BY DEF WithoutAccount, SameAccount, Durable!WithoutAccount,
                 Durable!SameAccount
  <2>2. \A r : Durable!Contained(r) = Contained(r)
    BY DEF Contained, Durable!Contained
  <2>3. ASSUME NEW id, NEW cred
        PROVE  Durable!CanPut(s, id, cred) <=> CanPut(s, id, cred)
    <3>1. Durable!Contained(Durable!WithoutAccount(s, cred)) =
              Contained(WithoutAccount(s, cred))
      BY <2>1, <2>2, Zenon
    <3>2. \A S : Durable!Cardinality(S) = Cardinality(S)
      BY DEF Cardinality, Durable!Cardinality
    <3>3. QED  BY <3>1, <3>2, Zenon DEF CanPut, Durable!CanPut
  <2>4. \A id, cred : Durable!AfterPut(s, id, cred) = AfterPut(s, id, cred)
    BY <2>1 DEF AfterPut, Durable!AfterPut
  <2>5. \A owner, rp, user, discoverable :
            Durable!NewCredential(owner, rp, user, discoverable, g) =
                NewCredential(owner, rp, user, discoverable, g)
    BY DEF NewCredential, Durable!NewCredential
  <2>6. QED  BY SMTT(60), <2>3, <2>4, <2>5 DEF PutStep, Durable!PutStep
<1>2. Durable!EraseStep(s, t) <=> EraseStep(s, t)
  BY DEF EraseStep, OwnedBy, AfterErase, Durable!EraseStep, Durable!OwnedBy,
         Durable!AfterErase
<1>3. Durable!SigCountStep(s, t) <=> SigCountStep(s, t)
  BY DEF SigCountStep, OwnedBy, CanIncrementSigCount, AfterIncrement,
         Durable!SigCountStep, Durable!OwnedBy, Durable!CanIncrementSigCount,
         Durable!AfterIncrement
<1>4. Durable!EmptyStorage = EmptyStorage
  BY DEF EmptyStorage, Durable!EmptyStorage
<1>5. QED  BY <1>1, <1>2, <1>3, <1>4 DEF OneOperation, Durable!OneOperation

\* A step of the store is one abstract commit, or changes nothing abstract.
LEMMA StepIsCommit ==
    ASSUME SettledBeforeRecovery, IInv, [Next]_vars
    PROVE  [Durable!Commit]_<<committed, counter>>
<1>1. ASSUME RecoverCounter PROVE Durable!Commit
  BY SMTT(60), <1>1, GenerationBound, SameOperators
     DEF IInv, TypeOK, File, Recoverable, RecoverableFile, RecoverCounter,
         Increment, Interrupted, Durable!Commit
<1>2. ASSUME NEW p \in Processes, pc[p] = "increment", Increment
      PROVE  Durable!Commit
  <2>1. /\ visible = NewFile(p)
        /\ counter < MaxGeneration
        /\ OneOperation(committed, updated[p], counter + 1)
    BY <1>2 DEF IInv, Knows
  <2>2. QED  BY <1>2, <2>1, SameOperators DEF Increment, NewFile, Durable!Commit
<1>3. ASSUME NEW p \in Processes, LoadInterrupted(p) \/ LoadFails(p)
      PROVE  [Durable!Commit]_<<committed, counter>>
  BY <1>1, <1>3 DEF LoadInterrupted, LoadFails
<1>4. ASSUME NEW p \in Processes, IncrementCounter(p) \/ IncrementCounterFails(p)
      PROVE  [Durable!Commit]_<<committed, counter>>
  BY <1>2, <1>4 DEF IncrementCounter, IncrementCounterFails
<1>5. ASSUME NEW p \in Processes,
             Start(p) \/ Exit(p) \/ LoadCommitted(p)
      PROVE  UNCHANGED <<committed, counter>>
  BY <1>5 DEF Start, Exit, LoadCommitted
<1>6. ASSUME NEW p \in Processes,
             \/ Rename(p) \/ WriteFails(p) \/ SyncDirectory(p)
             \/ SyncDirectoryFails(p) \/ VerifyCounter(p)
             \/ VerifyCounterFails(p) \/ Recheck(p) \/ RecheckFails(p)
      PROVE  UNCHANGED <<committed, counter>>
  BY <1>6 DEF Rename, WriteFails, SyncDirectory, SyncDirectoryFails,
              VerifyCounter, VerifyCounterFails, Recheck, RecheckFails
<1>7. ASSUME NEW p \in Processes, Operation(p)
      PROVE  UNCHANGED <<committed, counter>>
  BY <1>7, OperationCandidate DEF SaveStorage
<1>8. CASE PowerFailure \/ Writeback \/ UNCHANGED vars
  BY <1>8 DEF PowerFailure, Writeback, vars
<1>9. QED
  BY <1>3, <1>4, <1>5, <1>6, <1>7, <1>8 DEF Next, CommitStep

(* Every change of the authoritative contents is one whole operation on    *)
(* them, committed under the next generation.                              *)
THEOREM Implements ==
    ASSUME SettledBeforeRecovery
    PROVE  Spec => ImplementsDurableStore
<1>1. Init => Durable!Init
  BY SameOperators DEF Init, Durable!Init
<1>2. IInv /\ [Next]_vars => [Durable!Commit]_<<committed, counter>>
  BY StepIsCommit
<1>3. QED
  BY <1>1, <1>2, InvariantHolds, PTL DEF Spec, Durable!Spec, ImplementsDurableStore

-----------------------------------------------------------------------------
(* What one operation preserves of the map itself.                         *)
Ordered(s, g) ==
    \A i, j \in Contained(s) :
        /\ s[i].creationOrder <= g
        /\ i # j => s[i].creationOrder # s[j].creationOrder

OneAccount(s) ==
    \A i, j \in Contained(s) : i # j => ~SameAccount(s[i], s[j])

(* An ID of the new map is the credential being put, or was in the old map *)
(* with the same account and creationOrder.                                *)
LEMMA PutKeeps ==
    ASSUME NEW s \in StorageType, NEW t, NEW g \in Nat, g + 1 <= MaxGeneration,
           Ordered(s, g), OneAccount(s), PutStep(s, t, g + 1)
    PROVE  Ordered(t, g + 1) /\ OneAccount(t)
<1>1. PICK id \in CredentialIds, owner \in Owners, rp \in RpIds,
           user \in UserIds, discoverable \in BOOLEAN :
           t = AfterPut(s, id, NewCredential(owner, rp, user, discoverable, g + 1))
  BY DEF PutStep
<1> DEFINE cred == NewCredential(owner, rp, user, discoverable, g + 1)
<1>2. \A i \in CredentialIds :
          t[i] = IF i = id THEN cred ELSE WithoutAccount(s, cred)[i]
  BY <1>1 DEF AfterPut, WithoutAccount
<1>3. cred.creationOrder = g + 1 /\ cred.discoverable = discoverable
  BY DEF NewCredential
<1> HIDE DEF cred
<1>4. \A i \in Contained(t) : i # id =>
          /\ i \in Contained(s)
          /\ t[i] = s[i]
          /\ ~(discoverable /\ SameAccount(s[i], cred))
  BY <1>2, <1>3 DEF Contained, WithoutAccount
<1>5. \A i \in Contained(s) : s[i].creationOrder \in Int
  BY SMTT(60), GenerationBound DEF Contained, StorageType, StoredCredential
<1>6. Ordered(t, g + 1)
  <2>1. id \in CredentialIds /\ t[id].creationOrder = g + 1
    BY <1>2, <1>3
  <2>2. \A i \in Contained(t) : i # id =>
            t[i].creationOrder = s[i].creationOrder /\ s[i].creationOrder \in Int
            /\ s[i].creationOrder <= g
    BY <1>4, <1>5 DEF Ordered
  <2>3. \A i, j \in Contained(t) :
            i # id /\ j # id /\ i # j => s[i].creationOrder # s[j].creationOrder
    BY <1>4 DEF Ordered
  <2>4. QED  BY SMTT(60), <2>1, <2>2, <2>3 DEF Ordered
<1>7. OneAccount(t)
  <2>1. \A i \in Contained(t) : i # id =>
            ~SameAccount(t[i], cred) /\ ~SameAccount(cred, t[i])
    BY <1>3, <1>4 DEF SameAccount
  <2>2. QED  BY <1>2, <1>4, <2>1 DEF OneAccount, Contained
<1>8. QED  BY <1>6, <1>7

\* Erasing, counting and clearing keep the order and the accounts apart.
LEMMA OthersKeep ==
    ASSUME NEW s \in StorageType, NEW t, NEW g \in Nat,
           Ordered(s, g), OneAccount(s),
           EraseStep(s, t) \/ SigCountStep(s, t) \/ t = EmptyStorage
    PROVE  Ordered(t, g + 1) /\ OneAccount(t)
<1>1. \A i \in Contained(t) :
          /\ i \in Contained(s)
          /\ t[i].creationOrder = s[i].creationOrder
          /\ t[i].discoverable = s[i].discoverable
          /\ t[i].ownerUid = s[i].ownerUid
          /\ t[i].rpId = s[i].rpId
          /\ t[i].userId = s[i].userId
  <2>1. CASE EraseStep(s, t)
    BY <2>1 DEF EraseStep, AfterErase, StorageType, Contained
  <2>2. CASE SigCountStep(s, t)
    <3>1. PICK id \in CredentialIds :
               s[id] # NoCredential /\ t = AfterIncrement(s, id)
      BY <2>2 DEF SigCountStep, OwnedBy
    <3>2. s[id] \in StoredCredential
      BY <3>1 DEF StorageType
    <3>3. \A i \in CredentialIds :
              t[i] = IF i = id THEN [s[id] EXCEPT !.signCount = @ + 1] ELSE s[i]
      BY <3>1 DEF AfterIncrement, StorageType
    <3>4. QED  BY ZenonT(60), <3>1, <3>2, <3>3 DEF Contained, StoredCredential
  <2>3. CASE t = EmptyStorage
    BY <2>3 DEF EmptyStorage, Contained
  <2>4. QED  BY <2>1, <2>2, <2>3
<1>2. \A i \in Contained(s) : s[i].creationOrder \in Int
  BY SMTT(60), GenerationBound DEF Contained, StorageType, StoredCredential
<1>3. Ordered(t, g + 1)
  BY SMTT(60), <1>1, <1>2 DEF Ordered
<1>4. OneAccount(t)
  BY SMTT(60), <1>1 DEF OneAccount, SameAccount
<1>5. QED  BY <1>3, <1>4

(* creationOrder identifies a credential, and an account has at most one   *)
(* discoverable credential, across crashes and failed commits.             *)
THEOREM MapWellFormed ==
    ASSUME SettledBeforeRecovery
    PROVE  Spec => []CredentialsDistinct
<1> DEFINE Good == Ordered(committed, counter) /\ OneAccount(committed)
<1>1. Init => Good
  BY DEF Init, Ordered, OneAccount, Contained, EmptyStorage
<1>2. ASSUME IInv, Good, [Durable!Commit]_<<committed, counter>>
      PROVE  Good'
  <2>1. committed \in StorageType /\ counter \in Nat
    BY SMTT(60), <1>2 DEF IInv, TypeOK
  <2>2. CASE UNCHANGED <<committed, counter>>
    BY <1>2, <2>2 DEF Ordered, OneAccount, Contained
  <2>3. CASE Durable!Commit
    <3>1. /\ counter' = counter + 1 /\ counter + 1 <= MaxGeneration
          /\ OneOperation(committed, committed', counter + 1)
      BY SMTT(60), <2>1, <2>3, GenerationBound, SameOperators DEF Durable!Commit
    <3>2. Ordered(committed', counter + 1) /\ OneAccount(committed')
      BY <1>2, <2>1, <3>1, PutKeeps, OthersKeep DEF OneOperation
    <3>3. QED  BY <3>1, <3>2 DEF Ordered, OneAccount, Contained
  <2>4. QED  BY <1>2, <2>2, <2>3
<1>3. IInv /\ [Next]_vars => [Durable!Commit]_<<committed, counter>>
  BY StepIsCommit
<1>4. Good => CredentialsDistinct
  BY DEF Ordered, OneAccount, CredentialsDistinct, CreationOrderDistinct, OneDiscoverablePerAccount
<1> HIDE DEF Good
<1>5. QED  BY <1>1, <1>2, <1>3, <1>4, InvariantHolds, PTL DEF Spec

-----------------------------------------------------------------------------
(* The frame processor.                                                    *)

(* process() on any frame keeps the counts of the message being assembled. *)
Counted(r) ==
    /\ r \in Report
    /\ r.cid # NoChannel =>
        /\ Len(r.payload) = MAX_INIT_PAYLOAD_SIZE + r.seq * MAX_CONT_PAYLOAD_SIZE
        /\ Len(r.payload) < r.len

\* The reset report of FrameProcessor is well formed.
LEMMA NoReportCounted == Counted(NoReport)
BY SMTT(60), FrameSizes DEF Counted, NoReport, Report, Commands

\* A prefix of a frame's data is a byte string of the length taken.
LEMMA TakeSeq ==
    ASSUME NEW room \in Nat, NEW data \in [1 .. room -> Bytes],
           NEW n \in 0 .. room
    PROVE  Take(data, n) \in Seq(Bytes) /\ Len(Take(data, n)) = n
<1>1. data \in Seq(Bytes) /\ Len(data) = room
  BY SMTT(60)
<1>2. QED  BY SMTT(60), <1>1 DEF Take

\* The length of two byte strings joined.
LEMMA Appended ==
    ASSUME NEW s \in Seq(Bytes), NEW t \in Seq(Bytes)
    PROVE  s \o t \in Seq(Bytes) /\ Len(s \o t) = Len(s) + Len(t)
BY SMTT(60)

\* Completing or keeping a report leaves a well-formed one.
LEMMA AdvanceCounted ==
    ASSUME NEW r \in Report,
           Len(r.payload) = r.len \/ Counted(r)
    PROVE  Counted(Advance(r).incoming)
BY NoReportCounted DEF Advance, Outcome

\* An accepted initial frame starts a well-formed report.
LEMMA StartedCounted ==
    ASSUME NEW f \in Frame, f.initial, ~BadLength(f)
    PROVE  Started(f) \in Report
           /\ (Len(Started(f).payload) = f.len \/ Counted(Started(f)))
<1> DEFINE n == Smaller(f.len, MAX_INIT_PAYLOAD_SIZE)
<1>1. /\ f.cid \in Hosts /\ f.cmd \in Commands
      /\ f.len \in 0 .. CTAPHID_MAX_PAYLOAD_SIZE
      /\ f.data \in [1 .. MAX_INIT_PAYLOAD_SIZE -> Bytes]
  <2>1. f \in [initial : {TRUE}, cid : Hosts, cmd : Commands, len : Nat,
               data : [1 .. MAX_INIT_PAYLOAD_SIZE -> Bytes]]
    BY DEF Frame
  <2>2. ~(f.len > CTAPHID_MAX_PAYLOAD_SIZE)
    BY DEF BadLength
  <2>3. QED  BY SMTT(60), <2>1, <2>2, FrameSizes
<1>2. n \in 0 .. MAX_INIT_PAYLOAD_SIZE
      /\ (n = f.len \/ (n = MAX_INIT_PAYLOAD_SIZE /\ n < f.len))
  BY SMTT(60), <1>1, FrameSizes DEF Smaller
<1>3. Take(f.data, n) \in Seq(Bytes) /\ Len(Take(f.data, n)) = n
  BY <1>1, <1>2, FrameSizes, TakeSeq
<1> HIDE DEF n
<1>4. Started(f) = [cid |-> f.cid, cmd |-> f.cmd, len |-> f.len, seq |-> 0,
                    payload |-> Take(f.data, n)]
  BY DEF Started, n
<1>5. Started(f) \in Report
  BY SMTT(60), <1>1, <1>3, <1>4 DEF Report, Hosts, Cids
<1>6. QED  BY SMTT(60), <1>1, <1>2, <1>3, <1>4, <1>5, FrameSizes DEF Counted

\* An accepted continuation frame extends it to a well-formed one.
LEMMA ExtendedCounted ==
    ASSUME NEW f \in Frame, ~f.initial, Counted(incoming), Assembling
    PROVE  Extended(f) \in Report
           /\ (Len(Extended(f).payload) = Extended(f).len \/ Counted(Extended(f)))
<1> DEFINE remaining == incoming.len - Len(incoming.payload)
           n == Smaller(remaining, MAX_CONT_PAYLOAD_SIZE)
<1>1. f.data \in [1 .. MAX_CONT_PAYLOAD_SIZE -> Bytes]
  BY DEF Frame
<1>2. /\ incoming \in Report
      /\ incoming.payload \in Seq(Bytes) /\ Len(incoming.payload) \in Nat
      /\ incoming.len \in Nat /\ incoming.seq \in Nat
      /\ Len(incoming.payload) =
             MAX_INIT_PAYLOAD_SIZE + incoming.seq * MAX_CONT_PAYLOAD_SIZE
      /\ Len(incoming.payload) < incoming.len
  BY SMTT(60), FrameSizes DEF Counted, Report, Assembling
<1>3. /\ n \in 0 .. MAX_CONT_PAYLOAD_SIZE
      /\ n = remaining \/ (n = MAX_CONT_PAYLOAD_SIZE /\ n < remaining)
  <2>1. remaining \in Nat
    BY SMTT(60), <1>2
  <2> HIDE DEF remaining
  <2>2. QED  BY SMTT(60), <2>1, FrameSizes DEF Smaller
<1>4. Take(f.data, n) \in Seq(Bytes) /\ Len(Take(f.data, n)) = n
  <2> HIDE DEF n
  <2>1. QED  BY <1>1, <1>3, FrameSizes, TakeSeq
<1> DEFINE p == incoming.payload \o Take(f.data, n)
<1>5. p \in Seq(Bytes) /\ Len(p) = Len(incoming.payload) + n
  BY <1>2, <1>4, Appended
<1>6. Extended(f) = [incoming EXCEPT !.seq = @ + 1, !.payload = p]
  BY DEF Extended
<1> HIDE DEF p, n
<1>7. /\ Extended(f) \in Report
      /\ Extended(f).payload = p
      /\ Extended(f).len = incoming.len
      /\ Extended(f).cid = incoming.cid
      /\ Extended(f).seq = incoming.seq + 1
  <2>1. Extended(f) = [cid |-> incoming.cid, cmd |-> incoming.cmd,
                       len |-> incoming.len, payload |-> p,
                       seq |-> incoming.seq + 1]
    BY <1>2, <1>6 DEF Report
  <2>2. QED  BY SMTT(60), <1>2, <1>5, <2>1 DEF Report
<1>8. CASE n = remaining
  BY SMTT(60), <1>2, <1>5, <1>7, <1>8
<1>9. CASE n = MAX_CONT_PAYLOAD_SIZE /\ n < remaining
  <2>1. Len(p) < incoming.len
    BY SMTT(60), <1>2, <1>5, <1>9, FrameSizes
  <2>2. Len(p) = MAX_INIT_PAYLOAD_SIZE + (incoming.seq + 1) * MAX_CONT_PAYLOAD_SIZE
    BY SMTT(60), <1>2, <1>5, <1>9, FrameSizes
  <2>3. QED  BY <1>7, <2>1, <2>2 DEF Counted
<1>10. QED  BY <1>3, <1>8, <1>9

\* process() leaves a well-formed report whatever the frame.
LEMMA ProcessCounted ==
    ASSUME Counted(incoming), NEW f \in Frame, NEW activeCid, NEW allocatedCids
    PROVE  Counted(Process(f, activeCid, allocatedCids).incoming)
<1>1. CASE f.initial
  BY <1>1, NoReportCounted, StartedCounted, AdvanceCounted
     DEF Process, ProcessInitial, Outcome, Started
<1>2. CASE ~f.initial
  BY <1>2, NoReportCounted, ExtendedCounted, AdvanceCounted
     DEF Process, ProcessContinuation, Outcome, Continues
<1>3. QED  BY <1>1, <1>2

-----------------------------------------------------------------------------
(* What the host of c has still to write is the end of its message, and    *)
(* what is being assembled for c is the beginning of it - unless the       *)
(* message's first frame was not taken: it is yet to be written, or it was *)
(* refused for its length, or it was a CANCEL with nothing to cancel.      *)

Accepted(m) ==
    /\ ~BadLength([cmd |-> m.cmd, len |-> Len(m.payload)])
    /\ m.cmd # "CANCEL"

Framed(c) == Stringify(c, message[c].cmd, message[c].payload, Padding)

RestOfMessage(c) ==
    LET written == Len(Framed(c)) - Len(outbox[c])
    IN  /\ Len(outbox[c]) <= Len(Framed(c))
        /\ \A i \in 1 .. Len(outbox[c]) :
                outbox[c][i] = Framed(c)[written + i]

Prefix(s, t) == Len(s) <= Len(t) /\ \A i \in 1 .. Len(s) : s[i] = t[i]

BeginningOfMessage(c) ==
    /\ incoming.cid = c
    /\ Accepted(message[c])
    /\ Len(outbox[c]) < Len(Framed(c))
    =>
    /\ incoming.cmd = message[c].cmd
    /\ incoming.len = Len(message[c].payload)
    /\ Prefix(incoming.payload, message[c].payload)

(* A message neither answered nor refused is the one being assembled, and  *)
(* the processor expects its next frame.                                   *)
Pending(c) ==
    /\ c \notin settled
    /\ message[c].cmd # "CANCEL"
    /\ Len(outbox[c]) < Len(Framed(c))
    =>
    /\ incoming.cid = c
    /\ incoming.len = Len(message[c].payload)
    /\ incoming.seq + 1 = Len(Framed(c)) - Len(outbox[c])

ResultOK ==
    \/ result.kind \in {"nothing", "error"}
    \/ result.kind = "report" /\ result.report.cid \in Hosts

FrameInv ==
    /\ FrameTypeOK
    /\ Counted(incoming)
    /\ Assembling => incoming.cid \in allocated
    /\ ActiveExcludesIncoming
    /\ ResultOK
    /\ RoundTrip
    /\ \A c \in Hosts : RestOfMessage(c) /\ BeginningOfMessage(c) /\ Pending(c)

-----------------------------------------------------------------------------
(* stringify.                                                              *)

\* stringify() writes at least one frame.
LEMMA FrameCountPositive ==
    ASSUME NEW n \in Nat
    PROVE  FrameCount(n) \in Nat \ {0} /\ (n = 0 => FrameCount(n) = 1)
<1>1. CASE n <= MAX_INIT_PAYLOAD_SIZE
  BY SMTT(60), <1>1, FrameSizes DEF FrameCount
<1>2. CASE n > MAX_INIT_PAYLOAD_SIZE
  <2> DEFINE a == n - MAX_INIT_PAYLOAD_SIZE + MAX_CONT_PAYLOAD_SIZE - 1
  <2>1. a \in Nat /\ MAX_CONT_PAYLOAD_SIZE \in Nat \ {0}
    BY SMTT(60), <1>2, FrameSizes
  <2>2. a \div MAX_CONT_PAYLOAD_SIZE \in Nat
    <3> HIDE DEF a
    <3> QED  BY <2>1, Z3
  <2>3. FrameCount(n) = 1 + (a \div MAX_CONT_PAYLOAD_SIZE)
    BY SMTT(60), <1>2, FrameSizes DEF FrameCount
  <2>4. QED  BY SMTT(60), <1>2, <2>2, <2>3, FrameSizes
<1>3. QED  BY SMTT(60), <1>1, <1>2, FrameSizes

\* stringify() fills every frame to its size.
LEMMA PaddedData ==
    ASSUME NEW payload \in Seq(Bytes), NEW k \in Nat \ {0}
    PROVE  Padded(payload, Padding, k) \in [1 .. FrameRoom(k) -> Bytes]
<1>1. Padding \in Bytes
  BY SMTT(60), BytesTellTheirMessage, MessageBound, FrameSizes DEF Padding
<1>2. FrameStart(k) \in Nat \ {0}
  BY SMTT(60), FrameSizes DEF FrameStart
<1>3. \A i \in 1 .. FrameRoom(k) :
        FrameStart(k) + i - 1 <= Len(payload)
            => payload[FrameStart(k) + i - 1] \in Bytes
  BY SMTT(60), <1>2
<1>4. QED  BY <1>1, <1>3 DEF Padded

\* The frames stringify() writes: how many, their headers and their data.
LEMMA StringifyFrames ==
    ASSUME NEW c \in Hosts, NEW cmd \in Commands, NEW payload \in Seq(Bytes)
    PROVE  LET S == Stringify(c, cmd, payload, Padding)
           IN  /\ S \in Seq(Frame)
               /\ Len(S) = FrameCount(Len(payload))
               /\ S[1] = [initial |-> TRUE, cid |-> c, cmd |-> cmd,
                          len |-> Len(payload), data |-> Padded(payload, Padding, 1)]
               /\ \A k \in 2 .. Len(S) :
                    S[k] = [initial |-> FALSE, cid |-> c, seq |-> k - 2,
                            data |-> Padded(payload, Padding, k)]
<1> DEFINE S == Stringify(c, cmd, payload, Padding)
           n == FrameCount(Len(payload))
           first == [initial |-> TRUE, cid |-> c, cmd |-> cmd,
                     len |-> Len(payload), data |-> Padded(payload, Padding, 1)]
           rest(k) == [initial |-> FALSE, cid |-> c, seq |-> k - 2,
                       data |-> Padded(payload, Padding, k)]
<1>1. n \in Nat \ {0}
  BY SMTT(60), FrameCountPositive
<1>2. S = [k \in 1 .. n |-> IF k = 1 THEN first ELSE rest(k)]
  BY DEF Stringify
<1>3. first \in Frame
  <2>1. Padded(payload, Padding, 1) \in [1 .. MAX_INIT_PAYLOAD_SIZE -> Bytes]
    BY SMTT(60), PaddedData DEF FrameRoom
  <2>2. Len(payload) \in Nat
    BY SMTT(60)
  <2>3. first \in [initial : {TRUE}, cid : Hosts, cmd : Commands, len : Nat,
                   data : [1 .. MAX_INIT_PAYLOAD_SIZE -> Bytes]]
    BY <2>1, <2>2, Zenon
  <2>4. QED  BY <2>3, Zenon DEF Frame
<1>4. \A k \in 2 .. n : rest(k) \in Frame
  <2> TAKE k \in 2 .. n
  <2>1. Padded(payload, Padding, k) \in [1 .. MAX_CONT_PAYLOAD_SIZE -> Bytes]
    BY SMTT(60), <1>1, PaddedData DEF FrameRoom
  <2>2. k - 2 \in Nat
    BY SMTT(60), <1>1
  <2>3. QED  BY <2>1, <2>2 DEF Frame
<1> HIDE DEF S, n, first, rest
<1>5. S \in [1 .. n -> Frame]
  BY SMTT(60), <1>1, <1>2, <1>3, <1>4
<1>6. S \in Seq(Frame) /\ Len(S) = n
  BY SMTT(60), <1>1, <1>5
<1>7. S[1] = first /\ \A k \in 2 .. Len(S) : S[k] = rest(k)
  BY SMTT(60), <1>1, <1>2, <1>6
<1>8. QED  BY <1>6, <1>7, Zenon DEF S, n, first, rest

\* The payloads the hosts write are byte strings.
LEMMA PayloadTyped ==
    ASSUME NEW m \in 0 .. MaxMessages, NEW n \in 0 .. CTAPHID_MAX_PAYLOAD_SIZE + 1
    PROVE  Payload(m, n) \in Seq(Bytes)
<1>1. \A i \in 1 .. n : <<m, i>> \in Bytes
  BY SMTT(60), BytesTellTheirMessage, MessageBound, FrameSizes
<1>2. QED  BY SMTT(60), <1>1, FrameSizes DEF Payload

-----------------------------------------------------------------------------
(* The first frame, and each further one in its turn, add the right bytes. *)

\* The payload of an initial frame is the message's beginning.
LEMMA StartedPrefix ==
    ASSUME NEW payload \in Seq(Bytes), NEW f \in Frame, f.initial,
           f.len = Len(payload), ~BadLength(f),
           f.data = Padded(payload, Padding, 1)
    PROVE  Prefix(Started(f).payload, payload)
<1> DEFINE n == Smaller(f.len, MAX_INIT_PAYLOAD_SIZE)
<1>1. n \in 0 .. MAX_INIT_PAYLOAD_SIZE /\ n <= Len(payload)
  BY SMTT(60), FrameSizes DEF Smaller
<1>2. f.data \in [1 .. MAX_INIT_PAYLOAD_SIZE -> Bytes]
  BY SMTT(60), PaddedData DEF FrameRoom
<1>3. Started(f).payload = Take(f.data, n)
  BY DEF Started
<1> HIDE DEF n
<1>4. Len(Take(f.data, n)) = n /\ \A i \in 1 .. n : Take(f.data, n)[i] = f.data[i]
  BY SMTT(60), <1>1, <1>2, FrameSizes, TakeSeq DEF Take
<1>5. \A i \in 1 .. n : f.data[i] = payload[i]
  BY SMTT(60), <1>1, FrameSizes DEF Padded, FrameStart, FrameRoom
<1>6. QED  BY <1>1, <1>3, <1>4, <1>5 DEF Prefix

\* A prefix extended by the bytes that follow it is a prefix.
LEMMA PrefixAppended ==
    ASSUME NEW got \in Seq(Bytes), NEW more \in Seq(Bytes),
           NEW payload \in Seq(Bytes), Prefix(got, payload),
           Len(got) + Len(more) <= Len(payload),
           \A i \in 1 .. Len(more) : more[i] = payload[Len(got) + i]
    PROVE  Prefix(got \o more, payload)
<1>1. /\ Len(got \o more) = Len(got) + Len(more)
      /\ \A i \in 1 .. Len(got) + Len(more) :
            (got \o more)[i] = IF i <= Len(got) THEN got[i] ELSE more[i - Len(got)]
  BY SMTT(60)
<1>2. ASSUME NEW i \in 1 .. Len(got) + Len(more)
      PROVE  (got \o more)[i] = payload[i]
  <2>1. CASE i <= Len(got)
    BY SMTT(60), <1>1, <2>1 DEF Prefix
  <2>2. CASE i > Len(got)
    <3>1. i - Len(got) \in 1 .. Len(more) /\ Len(got) + (i - Len(got)) = i
      BY SMTT(60), <2>2
    <3>2. more[i - Len(got)] = payload[i]
      BY <3>1
    <3>3. QED  BY SMTT(60), <1>1, <2>2, <3>2
  <2>3. QED  BY SMTT(60), <2>1, <2>2
<1>3. QED  BY <1>1, <1>2 DEF Prefix

\* A continuation frame in sequence extends the prefix.
LEMMA ExtendedPrefix ==
    ASSUME NEW payload \in Seq(Bytes), NEW f \in Frame, ~f.initial,
           Counted(incoming), Assembling,
           incoming.len = Len(payload), Prefix(incoming.payload, payload),
           f.data = Padded(payload, Padding, incoming.seq + 2)
    PROVE  Prefix(Extended(f).payload, payload)
<1> DEFINE got == incoming.payload
           n == Smaller(incoming.len - Len(got), MAX_CONT_PAYLOAD_SIZE)
           k == incoming.seq + 2
           more == Take(f.data, n)
<1>1. /\ got \in Seq(Bytes) /\ Len(got) \in Nat
      /\ incoming.seq \in Nat
      /\ Len(got) = MAX_INIT_PAYLOAD_SIZE + incoming.seq * MAX_CONT_PAYLOAD_SIZE
      /\ Len(got) < incoming.len
  BY SMTT(60), FrameSizes DEF Counted, Report, Assembling
<1>2. n \in 0 .. MAX_CONT_PAYLOAD_SIZE /\ Len(got) + n <= Len(payload)
  <2>1. Len(got) \in Nat /\ Len(payload) \in Nat /\ Len(got) < Len(payload)
        /\ n = Smaller(Len(payload) - Len(got), MAX_CONT_PAYLOAD_SIZE)
    BY SMTT(60), <1>1
  <2> HIDE DEF got, n
  <2>2. QED  BY SMTT(60), <2>1, FrameSizes DEF Smaller
<1>3. Extended(f).payload = got \o more
  BY DEF Extended, Counted, Report
<1>4. k \in Nat \ {0, 1} /\ k - 2 = incoming.seq /\ f.data = Padded(payload, Padding, k)
  <2>1. f.data = Padded(payload, Padding, k)
    OBVIOUS
  <2>2. k \in Nat \ {0, 1} /\ k - 2 = incoming.seq
    BY SMTT(60), <1>1
  <2>3. QED  BY <2>1, <2>2
<1>5. FrameRoom(k) = MAX_CONT_PAYLOAD_SIZE /\ FrameStart(k) = Len(got) + 1
  <2> HIDE DEF k, got
  <2>1. k # 1
    BY <1>4
  <2>2. FrameStart(k) = MAX_INIT_PAYLOAD_SIZE + (k - 2) * MAX_CONT_PAYLOAD_SIZE + 1
    BY <2>1 DEF FrameStart
  <2>3. QED  BY <2>1, <2>2, <1>1, <1>4 DEF FrameRoom
<1> HIDE DEF k, n
<1>6. f.data \in [1 .. MAX_CONT_PAYLOAD_SIZE -> Bytes]
  BY <1>4, <1>5, PaddedData
<1>7. more \in Seq(Bytes) /\ Len(more) = n
  BY <1>2, <1>6, FrameSizes, TakeSeq
<1>8. \A i \in 1 .. n : more[i] = f.data[i]
  <2>1. f.data \in Seq(Bytes) /\ Len(f.data) = MAX_CONT_PAYLOAD_SIZE
    BY SMTT(60), <1>6, FrameSizes
  <2>2. QED  BY SMTT(60), <1>2, <2>1 DEF Take
<1> HIDE DEF got, more
<1>9. \A i \in 1 .. n : f.data[i] = payload[Len(got) + i]
  <2> TAKE i \in 1 .. n
  <2>1. i \in 1 .. MAX_CONT_PAYLOAD_SIZE /\ FrameStart(k) + i - 1 = Len(got) + i
    BY SMTT(60), <1>1, <1>2, <1>5, FrameSizes
  <2>2. f.data[i] = IF Len(got) + i <= Len(payload) THEN payload[Len(got) + i] ELSE Padding
    BY <1>4, <1>5, <2>1 DEF Padded
  <2>3. Len(got) + i <= Len(payload)
    <3>1. Len(got) \in Nat /\ Len(payload) \in Nat /\ n \in Nat /\ i \in 1 .. n
      BY SMTT(60), <1>1, <1>2, FrameSizes
    <3>2. QED  BY SMTT(60), <1>2, <3>1
  <2>4. QED  BY <2>2, <2>3
<1>10. Prefix(got \o more, payload)
  <2>1. \A i \in 1 .. Len(more) : more[i] = payload[Len(got) + i]
    BY <1>7, <1>8, <1>9
  <2>2. Prefix(got, payload)
    BY DEF got
  <2>3. QED  BY <1>1, <1>2, <1>7, <2>1, <2>2, PrefixAppended
<1>11. QED  BY <1>3, <1>10

\* A prefix of full length is the message.
LEMMA WholePrefix ==
    ASSUME NEW s \in Seq(Bytes), NEW t \in Seq(Bytes), Prefix(s, t), Len(s) = Len(t)
    PROVE  s = t
BY SMTT(60) DEF Prefix

-----------------------------------------------------------------------------
(* The frame a host delivers, and what process() makes of it.              *)

Delivered(c) == Head(outbox[c])

\* The frame on the wire is the one stringify() wrote at that place.
LEMMA DeliveredFrame ==
    ASSUME FrameInv, NEW c \in Hosts, outbox[c] # <<>>
    PROVE  LET written == Len(Framed(c)) - Len(outbox[c])
               f == Delivered(c)
           IN  /\ f \in Frame /\ f.cid = c
               /\ written \in Nat
               /\ written = 0 =>
                    /\ f.initial /\ f.cmd = message[c].cmd
                    /\ f.len = Len(message[c].payload)
                    /\ f.data = Padded(message[c].payload, Padding, 1)
               /\ written > 0 =>
                    /\ ~f.initial /\ f.seq = written - 1
                    /\ f.data = Padded(message[c].payload, Padding, written + 1)
                    /\ Len(message[c].payload) # 0
<1> DEFINE payload == message[c].payload
           S == Framed(c)
           written == Len(S) - Len(outbox[c])
<1>1. /\ payload \in Seq(Bytes) /\ message[c].cmd \in Commands
      /\ outbox[c] \in Seq(Frame)
  BY DEF FrameInv, FrameTypeOK
<1>2. /\ S \in Seq(Frame)
      /\ Len(S) = FrameCount(Len(payload))
      /\ S[1] = [initial |-> TRUE, cid |-> c, cmd |-> message[c].cmd,
                 len |-> Len(payload), data |-> Padded(payload, Padding, 1)]
      /\ \A k \in 2 .. Len(S) :
            S[k] = [initial |-> FALSE, cid |-> c, seq |-> k - 2,
                    data |-> Padded(payload, Padding, k)]
  BY <1>1, StringifyFrames DEF Framed
<1> HIDE DEF S, payload
<1>3. Len(outbox[c]) \in Nat \ {0} /\ Delivered(c) = outbox[c][1] /\ Delivered(c) \in Frame
  BY SMTT(60), <1>1 DEF Delivered
<1>4. /\ Len(outbox[c]) <= Len(S)
      /\ outbox[c][1] = S[written + 1]
  <2>1. RestOfMessage(c)
    BY DEF FrameInv
  <2>2. 1 \in 1 .. Len(outbox[c])
    BY SMTT(60), <1>3
  <2>3. QED  BY <2>1, <2>2 DEF RestOfMessage, S
<1>5. Len(S) \in Nat /\ written \in Nat /\ written + 1 \in 1 .. Len(S)
  <2>1. S \in Seq(Frame) /\ Len(outbox[c]) \in Nat \ {0} /\ Len(outbox[c]) <= Len(S)
    BY <1>2, <1>3, <1>4
  <2>2. \A q \in Seq(Frame) : Len(q) \in Nat
    BY SMTT(60)
  <2>3. Len(S) \in Nat
    BY <2>1, <2>2
  <2>4. QED  BY SMTT(60), <2>1, <2>3
<1>6. CASE written = 0
  <2>1. Delivered(c) = S[1]
    <3>1. written + 1 = 1
      BY SMTT(60), <1>6
    <3> HIDE DEF written
    <3>2. QED  BY <1>3, <1>4, <3>1
  <2>2. QED  BY SMTT(60), <1>2, <1>3, <1>5, <1>6, <2>1 DEF S, payload
<1>7. CASE written > 0
  <2>1. written + 1 \in 2 .. Len(S) /\ (written + 1) - 2 = written - 1
    BY SMTT(60), <1>5, <1>7
  <2>2. Delivered(c) = [initial |-> FALSE, cid |-> c, seq |-> written - 1,
                        data |-> Padded(payload, Padding, written + 1)]
    BY <1>2, <1>3, <1>4, <2>1
  <2>3. Len(payload) # 0
    BY SMTT(60), <1>2, <1>7, <2>1, FrameCountPositive
  <2>4. Delivered(c).cid = c /\ ~Delivered(c).initial
        /\ Delivered(c).seq = written - 1
        /\ Delivered(c).data = Padded(payload, Padding, written + 1)
    BY SMTT(60), <2>2
  <2>5. written # 0
    BY SMTT(60), <1>7
  <2>6. QED  BY <1>3, <1>5, <2>3, <2>4, <2>5, Zenon DEF S, payload
<1>8. QED
  <2>1. written = 0 \/ written > 0
    BY SMTT(60), <1>5
  <2>2. QED  BY <1>6, <1>7, <2>1

(* The parts of FrameInv that a step of the processor on channel c decides.    *)
StepOK(o, c) ==
    /\ Counted(o.incoming)
    /\ o.incoming.cid # NoChannel => o.incoming.cid \in allocated /\ active = NoChannel
    /\ o.incoming = incoming \/ o.incoming = NoReport \/ o.incoming.cid = c
    /\ \/ o.result.kind \in {"nothing", "error"}
       \/ /\ o.result.kind = "report" /\ o.result.report.cid = c
          /\ o.incoming = NoReport
          /\ ~BadLength([cmd |-> message[c].cmd, len |-> Len(message[c].payload)])
                => /\ o.result.report.cmd = message[c].cmd
                   /\ o.result.report.payload = message[c].payload
    /\ o.incoming.cid = c /\ Accepted(message[c])
        => /\ o.incoming.cmd = message[c].cmd
           /\ o.incoming.len = Len(message[c].payload)
           /\ Prefix(o.incoming.payload, message[c].payload)
    /\ Assembling /\ incoming.cid # c => o.incoming = incoming
    /\ \/ c \in settled \cup Settles(o.result)
       \/ message[c].cmd = "CANCEL"
       \/ /\ o.incoming.cid = c
          /\ o.incoming.len = Len(message[c].payload)
          /\ o.incoming.seq = Len(Framed(c)) - Len(outbox[c])

\* The channel whose message an outcome settles.
LEMMA SettlesChannel ==
    ASSUME NEW r
    PROVE  /\ r.kind = "report" => Settles(r) = {r.report.cid}
           /\ r.kind = "error" => Settles(r) = {r.cid}
           /\ r.kind = "nothing" => Settles(r) = {}
BY DEF Settles

\* No host uses the reserved channel of the reset report.
LEMMA NoReportIsNone ==
    NoReport.cid = NoChannel /\ \A c \in Hosts : c # NoChannel
BY NoChannelIsNone DEF NoReport, Hosts, Cids

\* A host that has written nothing yet is at its first frame.
LEMMA WrittenNothing ==
    ASSUME FrameInv, NEW c \in Hosts, Len(outbox[c]) = Len(Framed(c))
    PROVE  Len(Framed(c)) - Len(outbox[c]) = 0
<1>1. Len(outbox[c]) \in Nat
  BY SMTT(60) DEF FrameInv, FrameTypeOK
<1>2. QED  BY SMTT(60), <1>1

\* process() of a host's initial frame.
LEMMA InitialStep ==
    ASSUME FrameInv, NEW c \in Hosts, outbox[c] # <<>>, Len(outbox[c]) = Len(Framed(c))
    PROVE  StepOK(Process(Delivered(c), active, allocated), c)
<1> DEFINE f == Delivered(c)
           payload == message[c].payload
           o == Process(f, active, allocated)
<1>1. /\ f \in Frame /\ f.cid = c /\ f.initial /\ f.cmd = message[c].cmd
      /\ f.len = Len(payload) /\ f.data = Padded(payload, Padding, 1)
  BY WrittenNothing, DeliveredFrame, Zenon
<1>2. Counted(o.incoming)
  BY <1>1, ProcessCounted DEF FrameInv
<1>3. payload \in Seq(Bytes)
  BY DEF FrameInv, FrameTypeOK
<1>4. BadLength(f) <=> BadLength([cmd |-> message[c].cmd, len |-> Len(payload)])
  BY <1>1 DEF BadLength
<1>5. o = ProcessInitial(f, active, allocated)
  BY <1>1 DEF Process
<1>6. /\ Assembling => incoming.cid \in allocated /\ active = NoChannel
      /\ c # NoChannel /\ NoReport.cid = NoChannel
  BY NoReportIsNone DEF FrameInv, ActiveExcludesIncoming
<1>0. Len(Framed(c)) - Len(outbox[c]) = 0
  BY WrittenNothing
<1>00. SUFFICES StepOK(o, c)
  OBVIOUS
<1> HIDE DEF f, payload, o
<1>7. CASE BadLength(f)
  <2>1. o.incoming = incoming /\ o.result.kind = "error" /\ o.result.cid = c
    BY <1>1, <1>5, <1>7 DEF ProcessInitial, Outcome, Failed
  <2>2. ~Accepted(message[c])
    BY <1>4, <1>7 DEF Accepted, payload
  <2>3. QED  BY <1>1, <1>2, <1>6, <2>1, <2>2, SettlesChannel DEF StepOK, Assembling
<1>8. CASE ~BadLength(f) /\ StrayCancel(f, active)
  <2>1. o.incoming = incoming /\ o.result.kind = "nothing"
    BY <1>5, <1>8 DEF ProcessInitial, Outcome, Nothing
  <2>2. ~Accepted(message[c]) /\ message[c].cmd = "CANCEL"
    BY <1>1, <1>8 DEF Accepted, StrayCancel
  <2>3. QED  BY <1>1, <1>2, <1>6, <2>1, <2>2, SettlesChannel DEF StepOK, Assembling
<1>9. CASE ~BadLength(f) /\ ~StrayCancel(f, active) /\ Busy(f, active)
  <2>1. o.incoming = incoming /\ o.result.kind = "error" /\ o.result.cid = c
    BY <1>1, <1>5, <1>9 DEF ProcessInitial, Outcome, Failed
  <2>2. incoming.cid # c
    BY <1>1, <1>6, <1>9 DEF Busy, Assembling
  <2>3. QED  BY <1>1, <1>2, <1>6, <2>1, <2>2, SettlesChannel DEF StepOK, Assembling
<1>10. CASE /\ ~BadLength(f) /\ ~StrayCancel(f, active) /\ ~Busy(f, active)
            /\ UnknownChannel(f, allocated)
  <2>1. o.incoming = incoming /\ o.result.kind = "error" /\ o.result.cid = c
    BY <1>1, <1>5, <1>10 DEF ProcessInitial, Outcome, Failed
  <2>2. incoming.cid # c
    BY <1>1, <1>6, <1>10 DEF UnknownChannel, Assembling
  <2>3. QED  BY <1>1, <1>2, <1>6, <2>1, <2>2, SettlesChannel DEF StepOK, Assembling
<1>11. CASE /\ ~BadLength(f) /\ ~StrayCancel(f, active) /\ ~Busy(f, active)
            /\ ~UnknownChannel(f, allocated) /\ Assembling /\ f.cmd # "INIT"
  <2>1. o.incoming = NoReport /\ o.result.kind = "error" /\ o.result.cid = incoming.cid
    BY <1>5, <1>11 DEF ProcessInitial, Outcome, Failed
  <2>0. incoming.cid = c
    BY <1>1, <1>11 DEF Busy
  <2>2. QED  BY <1>2, <1>6, <2>0, <2>1, SettlesChannel DEF StepOK
<1>12. CASE /\ ~BadLength(f) /\ ~StrayCancel(f, active) /\ ~Busy(f, active)
            /\ ~UnknownChannel(f, allocated) /\ ~(Assembling /\ f.cmd # "INIT")
  <2> DEFINE r == Started(f)
  <2>1. o = Advance(r)
    BY <1>5, <1>12 DEF ProcessInitial
  <2>2. r.cid = c /\ r.cmd = message[c].cmd /\ r.len = Len(payload)
    BY <1>1 DEF Started
  <2>3. r \in Report /\ Prefix(r.payload, payload)
    BY <1>1, <1>3, <1>12, StartedCounted, StartedPrefix
  <2>4. r.payload \in Seq(Bytes)
    BY <2>3 DEF Report
  <2>5. c \in allocated
    <3>1. c # CTAPHID_BROADCAST_CID \/ c \in allocated \/ f.cmd = "INIT"
      BY <1>1, <1>12 DEF UnknownChannel
    <3>2. QED  BY <1>1, <1>12, BroadcastIsNoChannel DEF UnknownChannel, Hosts
  <2>0. r.seq = 0 /\ (Assembling => incoming.cid = c)
    BY <1>1, <1>12 DEF Started, Busy
  <2>6. CASE Len(r.payload) = r.len
    <3>1. o.incoming = NoReport /\ o.result.kind = "report" /\ o.result.report = r
      BY <2>1, <2>6 DEF Advance, Outcome, Completed
    <3>2. r.payload = payload
      BY <1>3, <2>2, <2>3, <2>4, <2>6, WholePrefix
    <3>3. QED  BY <1>2, <1>6, <2>0, <2>2, <3>1, <3>2, SettlesChannel DEF StepOK, payload
  <2>7. CASE Len(r.payload) # r.len
    <3>1. o.incoming = r /\ o.result.kind = "nothing"
      BY <2>1, <2>7 DEF Advance, Outcome, Nothing
    <3>2. active = NoChannel
      <4>1. SUFFICES ASSUME active # NoChannel PROVE FALSE
        OBVIOUS
      <4>2. f.cmd \in {"CANCEL", "INIT"}
        BY <1>12, <4>1 DEF Busy
      <4>3. f.len <= MAX_INIT_PAYLOAD_SIZE
        BY SMTT(60), <1>12, <4>2, FrameSizes DEF BadLength
      <4>4. r.payload = Take(f.data, f.len)
        BY <4>3 DEF Started, Smaller
      <4>5. f.data \in [1 .. MAX_INIT_PAYLOAD_SIZE -> Bytes]
        BY SMTT(60), <1>1, <1>3, PaddedData DEF FrameRoom
      <4>6. f.len \in 0 .. MAX_INIT_PAYLOAD_SIZE
        BY SMTT(60), <1>1, <1>3, <4>3
      <4>7. Len(r.payload) = f.len
        <5>1. Take(f.data, f.len) \in Seq(Bytes) /\ Len(Take(f.data, f.len)) = f.len
          BY <4>5, <4>6, FrameSizes, TakeSeq
        <5>2. QED  BY <4>4, <5>1
      <4>8. QED  BY <2>7, <4>7, <1>1, <2>2
    <3>3. QED  BY <1>0, <1>2, <1>6, <2>0, <2>2, <2>3, <2>5, <3>1, <3>2, SettlesChannel
               DEF StepOK, payload
  <2>8. QED  BY <2>6, <2>7
<1>13. QED  BY <1>7, <1>8, <1>9, <1>10, <1>11, <1>12

\* process() of a host's continuation frame.
LEMMA ContinuationStep ==
    ASSUME FrameInv, NEW c \in Hosts, outbox[c] # <<>>, Len(outbox[c]) < Len(Framed(c))
    PROVE  StepOK(Process(Delivered(c), active, allocated), c)
<1> DEFINE f == Delivered(c)
           payload == message[c].payload
           written == Len(Framed(c)) - Len(outbox[c])
           o == Process(f, active, allocated)
<1>1. /\ f \in Frame /\ f.cid = c /\ written \in Nat /\ written > 0
      /\ ~f.initial /\ f.seq = written - 1
      /\ f.data = Padded(payload, Padding, written + 1)
      /\ Len(payload) # 0
  <2>1. written \in Nat
    BY DeliveredFrame, Zenon
  <2>2. Len(outbox[c]) \in Nat
    BY SMTT(60) DEF FrameInv, FrameTypeOK
  <2>3. Len(Framed(c)) \in Nat
    <3>1. message[c].payload \in Seq(Bytes) /\ message[c].cmd \in Commands
      BY DEF FrameInv, FrameTypeOK
    <3>2. Framed(c) \in Seq(Frame)
      BY <3>1, StringifyFrames DEF Framed
    <3>3. QED  BY SMTT(60), <3>2
  <2>4. written > 0
    BY SMTT(60), <2>1, <2>2, <2>3
  <2>5. QED  BY <2>1, <2>4, DeliveredFrame, Zenon
<1>2. Counted(o.incoming) /\ Counted(incoming)
  BY <1>1, ProcessCounted DEF FrameInv
<1>3. payload \in Seq(Bytes)
  BY DEF FrameInv, FrameTypeOK
<1>4. o = ProcessContinuation(f)
  BY <1>1 DEF Process
<1>5. /\ Assembling => incoming.cid \in allocated /\ active = NoChannel
      /\ c # NoChannel /\ NoReport.cid = NoChannel
  BY NoReportIsNone DEF FrameInv, ActiveExcludesIncoming
<1>6. BeginningOfMessage(c) /\ Pending(c)
  BY DEF FrameInv
<1>0. c \in settled \/ message[c].cmd = "CANCEL" \/
      (incoming.cid = c /\ incoming.seq = f.seq /\ incoming.len = Len(payload))
  <2>1. incoming.seq \in Nat
    BY DEF FrameInv, FrameTypeOK, Report
  <2>2. QED  BY SMTT(60), <1>1, <1>6, <2>1 DEF Pending
<1>00. SUFFICES StepOK(o, c)
  OBVIOUS
<1> HIDE DEF f, payload, o, written
<1>7. CASE ~Continues(f)
  <2>1. o.incoming = incoming /\ o.result.kind = "nothing"
    BY <1>4, <1>7 DEF ProcessContinuation, Outcome, Nothing
  <2>2. incoming.cid # c
    BY <1>1, <1>5, <1>7 DEF Continues, Assembling
  <2>3. QED  BY <1>0, <1>2, <1>5, <2>1, <2>2, SettlesChannel DEF StepOK, Assembling
<1>8. CASE Continues(f) /\ f.seq # incoming.seq
  <2>1. o.incoming = NoReport /\ o.result.kind = "error"
    BY <1>4, <1>8 DEF ProcessContinuation, Outcome, Failed
  <2>2. incoming.cid = c
    BY <1>1, <1>8 DEF Continues
  <2>3. QED  BY <1>0, <1>2, <1>5, <1>8, <2>1, <2>2, SettlesChannel DEF StepOK, payload
<1>9. CASE Continues(f) /\ f.seq = incoming.seq
  <2> DEFINE r == Extended(f)
  <2>1. o = Advance(r)
    BY <1>4, <1>9 DEF ProcessContinuation
  <2>2. incoming.cid = c /\ Assembling
    BY <1>1, <1>9 DEF Continues
  <2>3. incoming.seq + 2 = written + 1
    BY SMTT(60), <1>1, <1>9
  <2>4. r \in Report
    BY <1>1, <1>2, <2>2, ExtendedCounted
  <2>5. r.cid = c /\ r.cmd = incoming.cmd /\ r.len = incoming.len
        /\ r.payload \in Seq(Bytes)
    BY <1>2, <2>2, <2>4 DEF Extended, Counted, Report
  <2>6. Accepted(message[c]) =>
            /\ incoming.cmd = message[c].cmd
            /\ incoming.len = Len(payload)
            /\ Prefix(incoming.payload, payload)
    BY <1>6, <2>2 DEF BeginningOfMessage, payload
  <2>7. Accepted(message[c]) => Prefix(r.payload, payload)
    <3>1. f.data = Padded(payload, Padding, incoming.seq + 2)
      BY <1>1, <2>3
    <3>2. QED  BY <1>1, <1>2, <1>3, <2>2, <2>6, <3>1, ExtendedPrefix
  <2>8. CASE Len(r.payload) = r.len
    <3>1. o.incoming = NoReport /\ o.result.kind = "report" /\ o.result.report = r
      BY <2>1, <2>8 DEF Advance, Outcome, Completed
    <3>2. Accepted(message[c]) => r.payload = payload
      BY <1>3, <2>5, <2>6, <2>7, <2>8, WholePrefix
    <3>3. ~BadLength([cmd |-> message[c].cmd, len |-> Len(payload)])
            => Accepted(message[c])
      BY <1>1 DEF BadLength, Accepted, payload
    <3>4. QED
      BY <1>2, <1>5, <2>2, <2>5, <2>6, <3>1, <3>2, <3>3, SettlesChannel
         DEF StepOK, payload
  <2>9. CASE Len(r.payload) # r.len
    <3>1. o.incoming = r /\ o.result.kind = "nothing"
      BY <2>1, <2>9 DEF Advance, Outcome, Nothing
    <3>2. r.seq = written
      <4>1. r.seq = incoming.seq + 1
        BY <1>2 DEF Extended, Counted, Report
      <4>2. QED  BY SMTT(60), <1>1, <1>9, <4>1
    <3>3. QED
      BY <1>0, <1>2, <1>5, <2>2, <2>5, <2>6, <2>7, <3>1, <3>2, SettlesChannel
         DEF written, StepOK, payload
  <2>10. QED  BY <2>8, <2>9
<1>10. QED  BY <1>7, <1>8, <1>9

-----------------------------------------------------------------------------
\* An error report goes to the channel of a host.
LEMMA ErrorChannel ==
    ASSUME FrameInv, NEW c \in Hosts, outbox[c] # <<>>,
           Process(Delivered(c), active, allocated).result.kind = "error"
    PROVE  Process(Delivered(c), active, allocated).result.cid \in Hosts
<1> DEFINE f == Delivered(c)
<1>1. f \in Frame /\ f.cid = c
  BY DeliveredFrame, Zenon
<1>2. Assembling => incoming.cid \in Hosts
  BY DEF FrameInv, FrameTypeOK, Hosts
<1> HIDE DEF f
<1>3. Process(f, active, allocated).result.kind = "error"
  BY DEF f
<1>4. Process(f, active, allocated).result.cid \in Hosts
  BY <1>1, <1>2, <1>3
     DEF Process, ProcessInitial, ProcessContinuation, Continues, Advance,
         Outcome, Nothing, Completed, Failed
<1>5. QED  BY <1>4 DEF f

\* The initial states satisfy the invariant.
LEMMA InitInvariant == FrameInit => FrameInv
<1> SUFFICES ASSUME FrameInit PROVE FrameInv
  OBVIOUS
<1> USE DEF FrameInit
<1>1. NoMessage \in [cmd : Commands, payload : Seq(Bytes)]
  BY SMTT(60) DEF NoMessage, Commands
<1>2. FrameTypeOK
  BY SMTT(60), <1>1, NoReportCounted, MessageBound DEF FrameTypeOK, Counted, Hosts
<1>3. Counted(incoming) /\ ~Assembling /\ ActiveExcludesIncoming
  BY NoReportCounted, NoReportIsNone DEF Assembling, ActiveExcludesIncoming
<1>4. result.kind = "nothing"
  BY DEF Nothing
<1>5. ResultOK /\ RoundTrip
  BY <1>4 DEF ResultOK, RoundTrip
<1>6. ASSUME NEW c \in Hosts 
      PROVE  RestOfMessage(c) /\ BeginningOfMessage(c) /\ Pending(c)
  <2>1. outbox[c] = <<>> /\ Len(outbox[c]) = 0
    OBVIOUS
  <2>2. Framed(c) \in Seq(Frame)
    BY <1>1, StringifyFrames DEF Framed
  <2>3. incoming.cid # c
    BY NoReportIsNone
  <2>4. c \in settled
    OBVIOUS
  <2>5. QED  BY SMTT(60), <2>1, <2>2, <2>3, <2>4 DEF RestOfMessage, BeginningOfMessage, Pending
<1>7. QED  BY <1>2, <1>3, <1>5, <1>6 DEF FrameInv

\* A host that frames a message preserves the invariant.
LEMMA WriteInvariant ==
    ASSUME FrameInv, NEW c \in Hosts, NEW cmd \in Commands,
           NEW n \in 0 .. CTAPHID_MAX_PAYLOAD_SIZE + 1, Write(c, cmd, n)
    PROVE  FrameInv'
<1> DEFINE payload == Payload(messages + 1, n)
           m == [cmd |-> cmd, payload |-> payload]
           S == Stringify(c, cmd, payload, Padding)
<1>1. messages' \in 0 .. MaxMessages /\ payload \in Seq(Bytes)
  <2>1. messages \in 0 .. MaxMessages /\ messages < MaxMessages /\ messages' = messages + 1
    BY DEF FrameInv, FrameTypeOK, Write
  <2>2. messages + 1 \in 0 .. MaxMessages
    BY SMTT(60), <2>1, MessageBound
  <2>3. QED  BY <2>1, <2>2, PayloadTyped
<1>2. S \in Seq(Frame)
  BY <1>1, StringifyFrames
<1>3. /\ message' = [message EXCEPT ![c] = m]
      /\ outbox' = [outbox EXCEPT ![c] = S]
      /\ settled' = settled \ {c}
      /\ UNCHANGED <<incoming, allocated, active, result>>
  BY DEF Write
<1>4. m \in [cmd : Commands, payload : Seq(Bytes)]
  BY <1>1
<1> HIDE DEF S, m, payload
<1>5. FrameTypeOK'
  BY <1>1, <1>2, <1>3, <1>4 DEF FrameInv, FrameTypeOK
<1>6. /\ Counted(incoming)' /\ (Assembling => incoming.cid \in allocated)'
      /\ ActiveExcludesIncoming' /\ ResultOK'
  BY <1>3 DEF FrameInv, Counted, Assembling, ActiveExcludesIncoming, ResultOK
<1>7. \A d \in Hosts : d # c => message'[d] = message[d] /\ outbox'[d] = outbox[d]
  BY <1>3 DEF FrameInv, FrameTypeOK
<1>8. message'[c] = m /\ outbox'[c] = S
  BY <1>3 DEF FrameInv, FrameTypeOK
<1>9. RoundTrip'
  <2> SUFFICES ASSUME result.kind = "report", result.report.cid \in settled'
               PROVE  LET r == result.report
                          written == message'[r.cid]
                      IN  ~BadLength([cmd |-> written.cmd, len |-> Len(written.payload)])
                          => r.cmd = written.cmd /\ r.payload = written.payload
    BY <1>3 DEF RoundTrip, BadLength
  <2>1. result.report.cid \in Hosts \ {c} /\ result.report.cid \in settled
    BY <1>3 DEF FrameInv, FrameTypeOK
  <2>2. QED  BY <1>7, <2>1 DEF FrameInv, RoundTrip
<1>10. ASSUME NEW d \in Hosts 
      PROVE  RestOfMessage(d)' /\ BeginningOfMessage(d)' /\ Pending(d)'
  <2>1. CASE d = c
    <3>1. Framed(d)' = S /\ outbox'[d] = S
      BY SMTT(60), <1>8, <2>1 DEF Framed, S, m
    <3>2. Len(S) \in Nat /\ \A i \in 1 .. Len(S) : S[i] = S[Len(S) - Len(S) + i]
      BY SMTT(60), <1>2
    <3>3. QED  BY SMTT(60), <3>1, <3>2 DEF RestOfMessage, BeginningOfMessage, Pending
  <2>2. CASE d # c
    <3>1. Framed(d)' = Framed(d) /\ message'[d] = message[d] /\ outbox'[d] = outbox[d]
      BY <1>7, <2>2 DEF Framed
    <3>2. RestOfMessage(d) /\ BeginningOfMessage(d) /\ Pending(d)
      BY DEF FrameInv
    <3>3. d \in settled' <=> d \in settled
      BY <1>3, <2>2
    <3>4. QED  BY <1>3, <3>1, <3>2, <3>3
               DEF RestOfMessage, BeginningOfMessage, Pending, Accepted, BadLength
  <2>3. QED  BY <2>1, <2>2
<1>11. QED  BY <1>5, <1>6, <1>9, <1>10 DEF FrameInv

\* The frames that remain once the first is delivered.
LEMMA TailOf ==
    ASSUME NEW s \in Seq(Frame), s # <<>>
    PROVE  /\ Len(Tail(s)) = Len(s) - 1
           /\ \A i \in 1 .. Len(s) - 1 : Tail(s)[i] = s[i + 1]
BY SMTT(60)

\* Delivering a frame preserves the invariant.
LEMMA DeliverInvariant ==
    ASSUME FrameInv, NEW c \in Hosts, Deliver(c)
    PROVE  FrameInv'
<1> DEFINE o == Process(Delivered(c), active, allocated)
<1>1. /\ outbox[c] # <<>>
      /\ incoming' = o.incoming /\ result' = o.result
      /\ settled' = settled \cup Settles(o.result)
      /\ active' = IF o.result.kind = "report" /\ o.result.report.cmd = "CBOR"
                   THEN o.result.report.cid ELSE active
      /\ outbox' = [outbox EXCEPT ![c] = Tail(@)]
      /\ UNCHANGED <<allocated, message, messages>>
  BY DEF Deliver, Apply, Delivered
<1>2. /\ outbox[c] \in Seq(Frame) /\ Framed(c) \in Seq(Frame)
      /\ RestOfMessage(c)
  <2>1. message[c].payload \in Seq(Bytes) /\ message[c].cmd \in Commands
    BY DEF FrameInv, FrameTypeOK
  <2>2. QED  BY <2>1, StringifyFrames DEF FrameInv, FrameTypeOK, Framed
<1>3. StepOK(o, c)
  <2>1. Len(outbox[c]) = Len(Framed(c)) \/ Len(outbox[c]) < Len(Framed(c))
    <3>1. \A q \in Seq(Frame) : Len(q) \in Nat
      BY SMTT(60)
    <3>2. Len(outbox[c]) \in Nat /\ Len(Framed(c)) \in Nat /\ Len(outbox[c]) <= Len(Framed(c))
      BY <1>2, <3>1 DEF RestOfMessage
    <3>3. \A a, b \in Nat : a <= b => a = b \/ a < b
      BY SMTT(60)
    <3>4. QED  BY <3>2, <3>3
  <2>2. QED  BY <1>1, <2>1, InitialStep, ContinuationStep
<1> HIDE DEF o
<1>4. Settles(o.result) \subseteq Hosts
  <2>1. CASE o.result.kind = "report"
    BY <1>3, <2>1 DEF StepOK, Settles
  <2>2. CASE o.result.kind = "error"
    <3>1. o.result.cid \in Hosts
      BY <1>1, <2>2, ErrorChannel DEF o
    <3>2. QED  BY <2>2, <3>1 DEF Settles
  <2>3. CASE o.result.kind = "nothing"
    BY <2>3 DEF Settles
  <2>4. QED  BY <1>3, <2>1, <2>2, <2>3 DEF StepOK
<1>5. outbox'[c] = Tail(outbox[c]) /\ \A d \in Hosts : d # c => outbox'[d] = outbox[d]
  BY <1>1 DEF FrameInv, FrameTypeOK
<1>6. FrameTypeOK'
  <2>1. incoming' \in Report /\ active' \in Channels \cup {NoChannel}
    BY <1>1, <1>3 DEF StepOK, Counted, FrameInv, FrameTypeOK, Hosts
  <2>2. outbox' \in [Hosts -> Seq(Frame)]
    <3>1. Tail(outbox[c]) \in Seq(Frame)
      BY SMTT(60), <1>1, <1>2
    <3>2. QED  BY <1>1, <3>1 DEF FrameInv, FrameTypeOK
  <2>3. QED  BY <1>1, <1>4, <2>1, <2>2 DEF FrameInv, FrameTypeOK
<1>7. Counted(incoming)'
  BY <1>1, <1>3 DEF StepOK, Counted
<1>8. (Assembling => incoming.cid \in allocated)' /\ ActiveExcludesIncoming'
  BY <1>1, <1>3, NoReportIsNone
     DEF StepOK, Assembling, ActiveExcludesIncoming
<1>9. ResultOK' /\ RoundTrip'
  BY <1>1, <1>3 DEF StepOK, ResultOK, RoundTrip, BadLength
<1>10. ASSUME NEW d \in Hosts 
      PROVE  RestOfMessage(d)' /\ BeginningOfMessage(d)' /\ Pending(d)'
  <2>1. Framed(d)' = Framed(d) /\ message'[d] = message[d]
    BY <1>1 DEF Framed
  <2>2. RestOfMessage(d) /\ BeginningOfMessage(d) /\ Pending(d)
    BY DEF FrameInv
  <2>3. CASE d # c
    <3>1. outbox'[d] = outbox[d]
      BY <1>5, <2>3
    <3>2. incoming' = incoming \/ incoming'.cid # d
      BY <1>1, <1>3, <2>3, NoReportIsNone DEF StepOK
    <3>3. RestOfMessage(d)' /\ BeginningOfMessage(d)'
      BY <2>1, <2>2, <3>1, <3>2 DEF RestOfMessage, BeginningOfMessage, Accepted, BadLength
    <3>4. incoming.cid = d => incoming' = incoming
      BY <1>1, <1>3, <2>3, NoReportIsNone DEF StepOK, Assembling
    <3>5. Pending(d)'
      BY <1>1, <2>1, <2>2, <3>1, <3>4 DEF Pending
    <3>6. QED  BY <3>3, <3>5
  <2>4. CASE d = c
    <3>1. /\ Len(outbox'[c]) = Len(outbox[c]) - 1
          /\ \A i \in 1 .. Len(outbox[c]) - 1 : outbox'[c][i] = outbox[c][i + 1]
      BY <1>1, <1>2, <1>5, TailOf
    <3>2. RestOfMessage(c)'
      <4> DEFINE w == Len(Framed(c)) - Len(outbox[c])
      <4>1. Len(Framed(c)) \in Nat /\ Len(outbox[c]) \in Nat /\ w \in Int
        BY SMTT(60), <1>2
      <4>2. ASSUME NEW i \in 1 .. Len(outbox[c]) - 1
            PROVE  outbox'[c][i] = Framed(c)[Len(Framed(c)) - (Len(outbox[c]) - 1) + i]
        <5>1. i + 1 \in 1 .. Len(outbox[c])
              /\ w + (i + 1) = Len(Framed(c)) - (Len(outbox[c]) - 1) + i
          BY SMTT(60), <4>1
        <5>2. outbox[c][i + 1] = Framed(c)[w + (i + 1)]
          BY <1>2, <5>1 DEF RestOfMessage
        <5>3. QED  BY <3>1, <5>1, <5>2
      <4>3. Len(outbox[c]) - 1 <= Len(Framed(c))
        BY SMTT(60), <1>2, <4>1 DEF RestOfMessage
      <4>4. QED  BY <2>1, <2>4, <3>1, <4>2, <4>3 DEF RestOfMessage
    <3>3. BeginningOfMessage(c)'
      BY <1>1, <1>3, <2>1, <2>4 DEF StepOK, BeginningOfMessage, Accepted, BadLength
    <3>4. Pending(c)'
      <4>1. o.incoming \in Report /\ o.incoming.seq \in Nat
        BY <1>3 DEF StepOK, Counted, Report
      <4>2. o.incoming.seq = Len(Framed(c)) - Len(outbox[c])
            => o.incoming.seq + 1 = Len(Framed(c)) - (Len(outbox[c]) - 1)
        BY SMTT(60), <1>2, <4>1
      <4>3. QED  BY <1>1, <1>3, <2>1, <2>4, <3>1, <4>2 DEF StepOK, Pending
    <3>5. QED  BY <2>4, <3>2, <3>3, <3>4
  <2>5. QED  BY <2>3, <2>4
<1>11. QED  BY <1>6, <1>7, <1>8, <1>9, <1>10 DEF FrameInv

\* expire() preserves the invariant.
LEMMA TimeOutInvariant ==
    ASSUME FrameInv, TimeOut
    PROVE  FrameInv'
<1>1. /\ incoming' = NoReport
      /\ result' = Failed(incoming.cid, "TIMEOUT") /\ result'.kind = "error"
      /\ settled' = settled \cup {incoming.cid} /\ incoming.cid \in Hosts
      /\ active' = active
      /\ UNCHANGED <<allocated, outbox, message, messages>>
  BY DEF TimeOut, Apply, Expired, Outcome, Failed, Settles, FrameInv, FrameTypeOK, Hosts
<1>2. FrameTypeOK' /\ Counted(incoming)'
  BY <1>1, NoReportCounted DEF FrameInv, FrameTypeOK, Counted
<1>3. (Assembling => incoming.cid \in allocated)' /\ ActiveExcludesIncoming'
  BY <1>1, NoReportIsNone DEF Assembling, ActiveExcludesIncoming
<1>4. ResultOK' /\ RoundTrip'
  BY <1>1 DEF ResultOK, RoundTrip
<1>5. ASSUME NEW d \in Hosts 
      PROVE  RestOfMessage(d)' /\ BeginningOfMessage(d)' /\ Pending(d)'
  <2>1. Framed(d)' = Framed(d) /\ incoming'.cid # d
    BY <1>1, NoReportIsNone DEF Framed
  <2>2. RestOfMessage(d) /\ Pending(d)
    BY DEF FrameInv
  <2>3. RestOfMessage(d)' /\ BeginningOfMessage(d)'
    BY <1>1, <2>1, <2>2 DEF RestOfMessage, BeginningOfMessage
  <2>4. Pending(d)'
    BY <1>1, <2>1, <2>2 DEF Pending
  <2>5. QED  BY <2>3, <2>4
<1>6. QED  BY <1>2, <1>3, <1>4, <1>5 DEF FrameInv

\* A step that leaves the frames alone preserves the invariant.
LEMMA Unmoved ==
    ASSUME FrameInv, active' \in {active, NoChannel},
           UNCHANGED <<incoming, allocated, outbox, message, result, settled, messages>>
    PROVE  FrameInv'
<1>1. FrameTypeOK' /\ Counted(incoming)' /\ (Assembling => incoming.cid \in allocated)'
  BY DEF FrameInv, FrameTypeOK, Counted, Assembling
<1>2. ActiveExcludesIncoming' /\ ResultOK' /\ RoundTrip'
  BY DEF FrameInv, ActiveExcludesIncoming, Assembling, ResultOK, RoundTrip, BadLength
<1>3. ASSUME NEW d \in Hosts 
      PROVE  RestOfMessage(d)' /\ BeginningOfMessage(d)' /\ Pending(d)'
  <2>1. Framed(d)' = Framed(d)
    BY DEF Framed
  <2>2. RestOfMessage(d) /\ BeginningOfMessage(d) /\ Pending(d)
    BY DEF FrameInv
  <2>3. RestOfMessage(d)' /\ Pending(d)'
    BY <2>1, <2>2 DEF RestOfMessage, Pending
  <2>4. BeginningOfMessage(d)'
    BY <2>1, <2>2 DEF BeginningOfMessage, Accepted, BadLength
  <2>5. QED  BY <2>3, <2>4
<1>4. QED  BY <1>1, <1>2, <1>3 DEF FrameInv

\* Every step preserves the invariant.
LEMMA NextInvariant == FrameInv /\ [FrameNext]_frameVars => FrameInv'
<1> SUFFICES ASSUME FrameInv, [FrameNext]_frameVars PROVE FrameInv'
  OBVIOUS
<1>1. ASSUME NEW c \in Hosts, NEW cmd \in {"INIT", "CANCEL", "PING", "CBOR"},
             NEW n \in 0 .. CTAPHID_MAX_PAYLOAD_SIZE + 1, Write(c, cmd, n)
      PROVE  FrameInv'
  <2>1. cmd \in Commands
    BY DEF Commands
  <2>2. QED  BY <1>1, <2>1, WriteInvariant
<1>2. ASSUME NEW c \in Hosts, Deliver(c) PROVE FrameInv'
  BY <1>2, DeliverInvariant
<1>3. CASE TimeOut
  BY <1>3, TimeOutInvariant
<1>4. CASE Finish
  BY <1>4, Unmoved DEF Finish
<1>5. CASE UNCHANGED frameVars
  BY <1>5, Unmoved DEF frameVars
<1>6. QED  BY <1>1, <1>2, <1>3, <1>4, <1>5 DEF FrameNext

\* Cancelling a factor of an inequality.
LEMMA SevenBits ==
    ASSUME NEW seq \in Nat, NEW room \in Nat \ {0}, NEW n \in Nat,
           seq * room < n * room
    PROVE  seq < n
<1>1. SUFFICES ASSUME seq >= n PROVE FALSE
  BY SMTT(60)
<1>2. PICK d \in Nat : seq = n + d
  BY SMTT(60), <1>1
<1>3. d * room \in Nat
  BY SMTT(60)
<1>4. seq * room = n * room + d * room
  BY SMTT(60), <1>2
<1>5. QED  BY SMTT(60), <1>3, <1>4

\* The invariant of the frame processor and its hosts holds in every reachable
\* state, for all frame sizes.
THEOREM FrameInductive == FrameSpec => []FrameInv
BY InitInvariant, NextInvariant, PTL DEF FrameSpec

(* Every value the frame processor and its callers reach is well formed,   *)
(* for all frame sizes.                                                    *)
THEOREM FrameTypes == FrameSpec => []FrameTypeOK
<1>1. FrameInv => FrameTypeOK
  BY DEF FrameInv
<1>2. QED  BY <1>1, FrameInductive, PTL

(* process() reassembles what stringify() framed, for every payload size,  *)
(* every frame geometry and every interleaving of the channels' frames.    *)
THEOREM ReassemblyExact == FrameSpec => []RoundTrip
<1>1. FrameInv => RoundTrip
  BY DEF FrameInv
<1>2. QED  BY <1>1, FrameInductive, PTL

(* process() never leaves a message half assembled while a request is      *)
(* executed.                                                               *)
THEOREM NothingAssembledWhileActive == FrameSpec => []ActiveExcludesIncoming
<1>1. FrameInv => ActiveExcludesIncoming
  BY DEF FrameInv
<1>2. QED  BY <1>1, FrameInductive, PTL

(* next_sequence never wraps: a payload within CTAPHID_MAX_PAYLOAD_SIZE is *)
(* complete before the 129th continuation frame.                           *)
THEOREM SequenceNeverWraps == FrameSpec => []SequenceMatchesPayload
<1>1. FrameInv => SequenceMatchesPayload
  <2> SUFFICES ASSUME FrameInv, Assembling
               PROVE  /\ Len(incoming.payload) =
                            MAX_INIT_PAYLOAD_SIZE + incoming.seq * MAX_CONT_PAYLOAD_SIZE
                      /\ Len(incoming.payload) < incoming.len
                      /\ incoming.seq < SequenceNumbers
    BY DEF SequenceMatchesPayload
  <2>1. /\ incoming.seq \in Nat /\ incoming.len \in 0 .. CTAPHID_MAX_PAYLOAD_SIZE
        /\ Len(incoming.payload) =
               MAX_INIT_PAYLOAD_SIZE + incoming.seq * MAX_CONT_PAYLOAD_SIZE
        /\ Len(incoming.payload) < incoming.len
    BY DEF FrameInv, Counted, Assembling, Report
  <2>2. incoming.seq * MAX_CONT_PAYLOAD_SIZE < SequenceNumbers * MAX_CONT_PAYLOAD_SIZE
    <3> DEFINE a == incoming.seq * MAX_CONT_PAYLOAD_SIZE
               b == SequenceNumbers * MAX_CONT_PAYLOAD_SIZE
    <3>1. a \in Int /\ b \in Int
      BY SMTT(60), <2>1, FrameSizes DEF SequenceNumbers
    <3>2. MAX_INIT_PAYLOAD_SIZE + a < MAX_INIT_PAYLOAD_SIZE + b
      <4>1. MAX_INIT_PAYLOAD_SIZE + a < incoming.len
        BY <2>1
      <4> HIDE DEF a
      <4>2. QED  BY SMTT(60), <2>1, <3>1, <4>1, FrameSizes, PayloadFitsSequence
    <3> HIDE DEF a, b
    <3>3. a < b
      BY SMTT(60), <3>1, <3>2, FrameSizes
    <3>4. QED  BY <3>3 DEF a, b
  <2>3. QED  BY <2>1, <2>2, SevenBits, FrameSizes DEF SequenceNumbers
<1>2. QED  BY <1>1, FrameInductive, PTL

\* Rounding down loses less than one divisor.
LEMMA DivisionCovers ==
    ASSUME NEW a \in Nat, NEW room \in Nat \ {0}
    PROVE  a < (a \div room) * room + room
BY Z3

(* stringify cuts a payload into enough frames to carry all of it.         *)
LEMMA FramesCoverPayload ==
    ASSUME NEW n \in Nat
    PROVE  n <= MAX_INIT_PAYLOAD_SIZE + (FrameCount(n) - 1) * MAX_CONT_PAYLOAD_SIZE
<1>1. CASE n <= MAX_INIT_PAYLOAD_SIZE
  <2>1. FrameCount(n) - 1 = 0
    BY SMTT(60), <1>1 DEF FrameCount
  <2>2. QED  BY SMTT(60), <1>1, <2>1, FrameSizes
<1>2. CASE n > MAX_INIT_PAYLOAD_SIZE
  <2> DEFINE a == n - MAX_INIT_PAYLOAD_SIZE + MAX_CONT_PAYLOAD_SIZE - 1
             q == a \div MAX_CONT_PAYLOAD_SIZE
             covered == q * MAX_CONT_PAYLOAD_SIZE
  <2>1. a \in Nat
    BY SMTT(60), <1>2, FrameSizes
  <2>2. q \in Nat /\ a < covered + MAX_CONT_PAYLOAD_SIZE
    <3> HIDE DEF a
    <3>1. q \in Nat
      BY <2>1, FrameSizes, Z3
    <3>2. QED  BY <2>1, <3>1, FrameSizes, DivisionCovers
  <2>3. FrameCount(n) - 1 = q
    <3>1. FrameCount(n) = 1 + q
      BY SMTT(60), <1>2, FrameSizes DEF FrameCount
    <3> HIDE DEF q
    <3>2. QED  BY SMTT(60), <2>2, <3>1
  <2> HIDE DEF q
  <2>4. covered \in Int
    BY SMTT(60), <2>2, FrameSizes
  <2> HIDE DEF covered
  <2>5. n <= MAX_INIT_PAYLOAD_SIZE + covered
    BY SMTT(60), <1>2, <2>2, <2>4, FrameSizes
  <2>6. QED  BY <2>3, <2>5 DEF covered
<1>3. QED  BY SMTT(60), <1>1, <1>2, FrameSizes

(* Every message a host writes out is answered: returned, or refused with  *)
(* an error frame; process() drops none silently, whatever its length.     *)
THEOREM EveryMessageSettled == FrameSpec => []NoSilentLoss
<1>1. FrameInv => NoSilentLoss
  <2> SUFFICES ASSUME FrameInv, NEW c \in Hosts, outbox[c] = <<>>,
                      message[c].cmd # "CANCEL", c \notin settled
               PROVE  FALSE
    BY DEF NoSilentLoss
  <2> DEFINE n == Len(message[c].payload)
  <2>1. n \in Nat /\ Len(Framed(c)) = FrameCount(n) /\ FrameCount(n) \in Nat \ {0}
    <3>1. message[c].payload \in Seq(Bytes) /\ message[c].cmd \in Commands
      BY DEF FrameInv, FrameTypeOK
    <3>2. n \in Nat
      BY SMTT(60), <3>1
    <3>3. Len(Framed(c)) = FrameCount(n)
      BY <3>1, StringifyFrames DEF Framed
    <3> HIDE DEF n
    <3>4. QED  BY <3>2, <3>3, FrameCountPositive
  <2>2. Len(outbox[c]) = 0
    BY SMTT(60)
  <2> HIDE DEF n
  <2>3. /\ incoming.cid = c /\ incoming.len = n
        /\ incoming.seq + 1 = FrameCount(n)
    <3>1. Pending(c)
      BY DEF FrameInv
    <3>2. Len(outbox[c]) < Len(Framed(c)) /\ Len(Framed(c)) - Len(outbox[c]) = FrameCount(n)
      BY SMTT(60), <2>1, <2>2
    <3>3. QED  BY <3>1, <3>2 DEF Pending, n
  <2>4. /\ incoming.seq \in Nat /\ Len(incoming.payload) \in Nat
        /\ Len(incoming.payload) =
               MAX_INIT_PAYLOAD_SIZE + incoming.seq * MAX_CONT_PAYLOAD_SIZE
        /\ Len(incoming.payload) < incoming.len
    BY SMTT(60), <2>3, NoReportIsNone DEF FrameInv, Counted, Report
  <2>5. incoming.seq = FrameCount(n) - 1
    BY SMTT(60), <2>1, <2>3, <2>4
  <2>6. n <= Len(incoming.payload)
    BY <2>1, <2>4, <2>5, FramesCoverPayload
  <2>7. QED  BY SMTT(60), <2>1, <2>3, <2>4, <2>6
<1>2. QED  BY <1>1, FrameInductive, PTL
=============================================================================
