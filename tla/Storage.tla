------------------------------ MODULE Storage ------------------------------
(***************************************************************************)
(* The value a credential store holds (CredentialStore::Storage, a map     *)
(* from credential ID to StoredCredential) and what one operation of the   *)
(* store does to it.  Everything here is a pure function of the map; the   *)
(* durable commit protocol is in CredentialStore.                          *)
(*                                                                         *)
(* A credential keeps the fields the code branches on.  Names, algorithm   *)
(* and TPM blobs are left out: no operation of the store reads them.       *)
(***************************************************************************)
EXTENDS Integers, FiniteSets

CONSTANTS
    CredentialIds,      \* credential IDs (32 random bytes in the code)
    Owners,             \* local UIDs
    RpIds,              \* relying-party IDs
    UserIds,            \* user handles
    NoCredential,       \* marks an ID the map does not contain
    MaxGeneration,      \* stands for the largest uint64_t generation
    MaxSignCount,       \* stands for the largest uint32_t signature counter
    MAX_CREDENTIALS     \* 4096 in the code

ASSUME GenerationBound == MaxGeneration \in Nat
ASSUME SignCountBound == MaxSignCount \in Nat
ASSUME CredentialBound == MAX_CREDENTIALS \in Nat

StoredCredential ==
    [ownerUid : Owners, rpId : RpIds, userId : UserIds,
     discoverable : BOOLEAN, creationOrder : 1 .. MaxGeneration,
     signCount : 0 .. MaxSignCount]

ASSUME NoCredentialIsNone == NoCredential \notin StoredCredential

StorageType == [CredentialIds -> StoredCredential \cup {NoCredential}]

EmptyStorage == [id \in CredentialIds |-> NoCredential]

Contained(s) == {id \in CredentialIds : s[id] # NoCredential}

-----------------------------------------------------------------------------
(* CredentialStore::put, up to save_storage: a discoverable credential     *)
(* replaces the discoverable credential of the same account.               *)

SameAccount(c, d) ==
    /\ c.discoverable /\ d.discoverable
    /\ c.ownerUid = d.ownerUid
    /\ c.rpId = d.rpId
    /\ c.userId = d.userId

MutWithoutAccount(s, cred) == s

WithoutAccount(s, cred) ==
    [id \in CredentialIds |->
        IF s[id] # NoCredential /\ cred.discoverable /\ SameAccount(s[id], cred)
        THEN NoCredential ELSE s[id]]

MutCanPut(s, id, cred) == TRUE

CanPut(s, id, cred) ==
    /\ s[id] = NoCredential
    /\ Cardinality(Contained(WithoutAccount(s, cred))) < MAX_CREDENTIALS

AfterPut(s, id, cred) == [WithoutAccount(s, cred) EXCEPT ![id] = cred]

NewCredential(owner, rp, user, discoverable, order) ==
    [ownerUid |-> owner, rpId |-> rp, userId |-> user,
     discoverable |-> discoverable, creationOrder |-> order, signCount |-> 0]

(* CredentialStore::erase and CredentialStore::incrementSigCount.          *)
OwnedBy(s, id, owner) == s[id] # NoCredential /\ s[id].ownerUid = owner

AfterErase(s, id) == [s EXCEPT ![id] = NoCredential]

CanIncrementSigCount(s, id) == s[id].signCount < MaxSignCount

AfterIncrement(s, id) == [s EXCEPT ![id].signCount = @ + 1]

-----------------------------------------------------------------------------
(* t is s after exactly one operation of the store, committed as           *)
(* generation g.                                                           *)
PutStep(s, t, g) ==
    \E id \in CredentialIds, owner \in Owners, rp \in RpIds, user \in UserIds,
       discoverable \in BOOLEAN :
        LET cred == NewCredential(owner, rp, user, discoverable, g)
        IN  CanPut(s, id, cred) /\ t = AfterPut(s, id, cred)

EraseStep(s, t) ==
    \E id \in CredentialIds, owner \in Owners :
        OwnedBy(s, id, owner) /\ t = AfterErase(s, id)

SigCountStep(s, t) ==
    \E id \in CredentialIds, owner \in Owners :
        /\ OwnedBy(s, id, owner)
        /\ CanIncrementSigCount(s, id)
        /\ t = AfterIncrement(s, id)

OneOperation(s, t, g) ==
    PutStep(s, t, g) \/ EraseStep(s, t) \/ SigCountStep(s, t) \/ t = EmptyStorage
=============================================================================
