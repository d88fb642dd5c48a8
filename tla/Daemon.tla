------------------------------- MODULE Daemon -------------------------------
(***************************************************************************)
(* The life of the authenticator's keys: vauth.service and the commands of *)
(* vauthctl that open the credential store, beside the provisioning runs   *)
(* of module Provisioning.  Each opener follows the order of main(): the   *)
(* installed authorization, the store lock, the sealed database key, for   *)
(* the daemon a parent key in the TPM, then the store.  What follows a     *)
(* database key is abstracted to its number: the key of the store file,    *)
(* the parent's authorization and the authorization of every credential    *)
(* are derived from it.                                                    *)
(***************************************************************************)
EXTENDS Provisioning

CONSTANTS
    Credentials,        \* credential IDs
    Slots               \* transient objects the TPM has room for

ASSUME CredentialsAreFresh == None \notin Credentials
ASSUME RoomForParentAndKey == Slots \in Nat /\ Slots >= 2

VARIABLES
    opener,             \* per opener: its place, authorization and database key
    keyOf,              \* per credential: the database key its TPM key depends on; 0: none
    fileKey,            \* the database key of the store file; 0: no file
    transient,          \* transient objects the daemon's TPM context holds
    signing,            \* the credential whose key sign() has loaded, or None
    inUse               \* history: some opener has loaded the store

storeVars == <<keyOf, fileKey>>
providerVars == <<transient, signing>>
daemonVars == <<opener, storeVars, providerVars, inUse>>
allVars == <<vars, daemonVars>>

Places == {"stopped", "lock", "unseal", "provide", "load", "open"}

\* The places at which the store lock is held.
Locked == Places \ {"stopped", "lock"}
Stopped == [at |-> "stopped", auth |-> None, key |-> 0]

DaemonTypeOK ==
    /\ TypeOK
    /\ opener \in [Others -> [at : Places, auth : Authorizations \cup {None},
                              key : 0 .. MaxKeys]]
    /\ keyOf \in [Credentials -> 0 .. MaxKeys]
    /\ fileKey \in 0 .. MaxKeys
    /\ transient \in 0 .. Slots
    /\ signing \in Credentials \cup {None}
    /\ inUse \in BOOLEAN

DaemonInit ==
    /\ Init
    /\ opener = [o \in Others |-> Stopped]
    /\ keyOf = [c \in Credentials |-> 0]
    /\ fileKey = 0
    /\ transient = 0
    /\ signing = None
    /\ inUse = FALSE

-----------------------------------------------------------------------------
(* Start-up, in the order of main(): any exception ends the process, see   *)
(* Exit.                                                                   *)

At(o, place) == opener' = [opener EXCEPT ![o].at = place]

\* LoadCredentialEncrypted and StoreAuthorization.
Start(o) ==
    /\ opener[o].at = "stopped"
    /\ installed # None
    /\ opener' = [opener EXCEPT ![o] = [at |-> "lock", auth |-> installed, key |-> 0]]
    /\ UNCHANGED <<vars, storeVars, providerVars, inUse>>

\* CredentialStoreLock: somebody else's lock is an exception.
Lock(o) ==
    /\ opener[o].at = "lock"
    /\ lock = None
    /\ lock' = o
    /\ At(o, "unseal")
    /\ UNCHANGED <<files, tpm, run, provisioned, saved, disturbed,
                   storeVars, providerVars, inUse>>

\* unseal_key(): the seal opens with the authorization it was created with.
Unseal(o, daemon) ==
    /\ opener[o].at = "unseal"
    /\ seal # None /\ seal = opener[o].auth
    /\ opener' = [opener EXCEPT ![o] = [at |-> IF daemon THEN "provide" ELSE "load",
                                        auth |-> seal, key |-> sealed]]
    /\ UNCHANGED <<vars, storeVars, providerVars, inUse>>

\* CredentialKeyProvider: Esys_CreatePrimary under the derived authorization.
Provide(o) ==
    /\ opener[o].at = "provide"
    /\ transient < Slots
    /\ transient' = transient + 1
    /\ At(o, "load")
    /\ UNCHANGED <<vars, storeVars, signing, inUse>>

\* CredentialStore::load(): the counter must be readable, and a file must be
\* one that the database key decrypts.
Load(o) ==
    /\ opener[o].at = "load"
    /\ counter # None /\ counter = opener[o].auth
    /\ fileKey \in {0, opener[o].key}
    /\ At(o, "open")
    /\ inUse' = TRUE
    /\ UNCHANGED <<vars, storeVars, providerVars>>

-----------------------------------------------------------------------------
(* With the store open.                                                    *)

\* create() and put(): a key under the parent, with an authorization derived
\* from the database key and the credential's ID.
Register(o, c) ==
    /\ opener[o].at = "open" /\ transient > 0 /\ signing = None
    /\ keyOf[c] = 0
    /\ keyOf' = [keyOf EXCEPT ![c] = opener[o].key]
    /\ fileKey' = opener[o].key
    /\ UNCHANGED <<vars, opener, providerVars, inUse>>

\* sign() up to Esys_Load, which needs room for the key beside its parent.
LoadKey(o, c) ==
    /\ opener[o].at = "open" /\ transient > 0 /\ signing = None
    /\ keyOf[c] # 0
    /\ transient < Slots
    /\ transient' = transient + 1
    /\ signing' = c
    /\ UNCHANGED <<vars, opener, storeVars, inUse>>

\* A sign() that leaves its key loaded.
MutSign(o) ==
    /\ opener[o].at = "open" /\ signing # None
    /\ signing' = None
    /\ UNCHANGED <<vars, opener, storeVars, transient, inUse>>

\* The rest of sign(): whether it returns or throws, the destructor of
\* TpmTransientHandle flushes the key.
Sign(o) ==
    /\ opener[o].at = "open" /\ signing # None
    /\ transient' = transient - 1
    /\ signing' = None
    /\ UNCHANGED <<vars, opener, storeVars, inUse>>

\* vauthctl credential erase and store clear: the TPM objects stay.
Erase(o, c) ==
    /\ opener[o].at = "open" /\ transient = 0
    /\ keyOf[c] # 0
    /\ keyOf' = [keyOf EXCEPT ![c] = 0]
    /\ UNCHANGED <<vars, opener, fileKey, providerVars, inUse>>

\* A command ends, the daemon is stopped, either throws or is killed: the lock
\* and the transient objects go with the process.
Exit(o) ==
    /\ opener[o].at # "stopped"
    /\ opener' = [opener EXCEPT ![o] = Stopped]
    /\ lock' = IF lock = o THEN None ELSE lock
    /\ transient' = IF lock = o THEN 0 ELSE transient
    /\ signing' = IF lock = o THEN None ELSE signing
    /\ UNCHANGED <<files, tpm, run, provisioned, saved, disturbed, storeVars, inUse>>

\* put() and erase() have synced the store file before they return.
DaemonPowerFailure ==
    /\ PowerFailure
    /\ opener' = [o \in Others |-> Stopped]
    /\ transient' = 0
    /\ signing' = None
    /\ UNCHANGED <<storeVars, inUse>>

OpenerNext(o) ==
    \/ Start(o) \/ Lock(o)
    \/ \E daemon \in BOOLEAN : Unseal(o, daemon)
    \/ Provide(o) \/ Load(o)
    \/ \E c \in Credentials : Register(o, c) \/ LoadKey(o, c) \/ Erase(o, c)
    \/ Sign(o)
    \/ Exit(o)

DaemonNext ==
    \/ \E a \in Admins : Invocation(a) /\ UNCHANGED daemonVars
    \/ Writeback /\ UNCHANGED daemonVars
    \/ \E o \in Others : OpenerNext(o)
    \/ DaemonPowerFailure

DaemonSpec == DaemonInit /\ [][DaemonNext]_allVars

-----------------------------------------------------------------------------
(* Properties *)

\* Once an invocation has reported success, or anybody has opened the store, no
\* later step, whether a provisioning run fails, is killed or meets a daemon
\* that starts while it runs, removes or replaces the counter or the database
\* key; nor the installed authorization, unless a power failure has undone its
\* link().
InUseKept ==
    [][provisioned \/ inUse => UNCHANGED tpm /\ (lost' \/ installed' = installed)]_allVars

\* A daemon that has opened the store can use every credential in it: the store
\* file and each credential's key depend on the very database key it unsealed,
\* in this or in an earlier life, and between operations sign() finds room in
\* the TPM for a key, whatever failed before.
CredentialsUsable ==
    \A o \in Others : opener[o].at = "open" =>
        /\ fileKey \in {0, opener[o].key}
        /\ \A c \in Credentials : keyOf[c] \in {0, opener[o].key}
        /\ signing = None => transient < Slots
=============================================================================
