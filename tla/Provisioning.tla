---------------------------- MODULE Provisioning ----------------------------
(***************************************************************************)
(* vauthctl provision: ensure_provisioning_authorization installs the      *)
(* encrypted authorization, then a transient systemd unit runs             *)
(* FapiStoreSecurity::provision under the store lock.  Several             *)
(* administrators may run it at once, any call may fail, a run may be      *)
(* killed between any two calls, and the power may fail.  The front end    *)
(* waits for its unit, so one record stands for both.                      *)
(***************************************************************************)
EXTENDS Naturals

CONSTANTS
    Admins,             \* concurrent invocations of vauthctl provision
    Authorizations,     \* what ProvisioningAuthorization draws
    Others,             \* the daemon and commands that take the same store lock
    MaxKeys,            \* bound: database keys sealed
    None

ASSUME NoneIsFresh == None \notin Admins \cup Authorizations \cup Others
ASSUME OthersAreOther == Others \cap Admins = {}
ASSUME KeyBound == MaxKeys \in Nat

VARIABLES
    installed,      \* /etc/credstore.encrypted/vauth-db-auth
    durable,        \* what of it has reached the disk
    counter,        \* the NV counter: the authorization it was created with
    seal,           \* the FAPI seal: the authorization it was created with
    sealed,         \* database keys sealed so far; the seal holds the last
    lock,           \* who holds the flock on the store directory
    run,            \* each invocation: its next call and its authorization
    provisioned,    \* some invocation has reported success
    saved,          \* history: authorizations an administrator typed SAVED for
    disturbed,      \* history: a unit was killed, or one of its deletions failed
    lost            \* history: a power failure has undone an installation

files == <<installed, durable, lost>>
tpm == <<counter, seal, sealed>>
vars == <<files, tpm, lock, run, provisioned, saved, disturbed>>

UnitSteps == {"create_nv", "initialize", "create_seal", "verify",
              "delete_counter", "delete_both", "delete_key"}
Steps == {"idle", "confirm", "encrypt", "install", "launch", "acquire"} \cup UnitSteps

\* Types; and no run is past the front end without an authorization:
\* ensure_provisioning_authorization has found or installed one.
TypeOK ==
    /\ installed \in Authorizations \cup {None}
    /\ durable \in Authorizations \cup {None}
    /\ counter \in Authorizations \cup {None}
    /\ seal \in Authorizations \cup {None}
    /\ sealed \in 0 .. MaxKeys
    /\ lock \in Admins \cup Others \cup {None}
    /\ run \in [Admins -> [at : Steps, auth : Authorizations \cup {None}]]
    /\ \A a \in Admins : run[a].at \notin {"idle", "launch"} => run[a].auth \in Authorizations
    /\ provisioned \in BOOLEAN
    /\ saved \subseteq Authorizations
    /\ disturbed \in BOOLEAN
    /\ lost \in BOOLEAN

Idle == [at |-> "idle", auth |-> None]

Init ==
    /\ installed = None
    /\ durable = None
    /\ counter = None
    /\ seal = None
    /\ sealed = 0
    /\ lock = None
    /\ run = [a \in Admins |-> Idle]
    /\ provisioned = FALSE
    /\ saved = {}
    /\ disturbed = FALSE
    /\ lost = FALSE

Goto(a, step) == run' = [run EXCEPT ![a].at = step]

\* An exception in the front end, or a unit that could not start.
GiveUp(a) == run' = [run EXCEPT ![a] = Idle]

\* The unit ends; closing its directory descriptor releases the lock.
UnitEnds(a) ==
    /\ GiveUp(a)
    /\ lock' = None

-----------------------------------------------------------------------------
(* ensure_provisioning_authorization *)

\* 192 random bits: no authorization that anything else still holds.
Fresh ==
    Authorizations \ ({installed, durable, counter, seal} \cup {run[b].auth : b \in Admins})

\* credential_exists, else a fresh authorization is shown.
Begin(a) ==
    /\ run[a].at = "idle"
    /\ \/ /\ installed # None
          /\ Goto(a, "launch")
       \/ /\ installed = None
          /\ \E auth \in Fresh : run' = [run EXCEPT ![a] = [at |-> "confirm", auth |-> auth]]
    /\ UNCHANGED <<files, tpm, lock, provisioned, saved, disturbed>>

\* An authorization that is not asked to be saved.
MutConfirm(a) ==
    /\ run[a].at = "confirm"
    /\ Goto(a, "encrypt")
    /\ UNCHANGED <<files, tpm, lock, provisioned, saved, disturbed>>

\* Type SAVED, or cancel.
Confirm(a) ==
    /\ run[a].at = "confirm"
    /\ \/ Goto(a, "encrypt") /\ saved' = saved \cup {run[a].auth}
       \/ GiveUp(a) /\ UNCHANGED saved
    /\ UNCHANGED <<files, tpm, lock, provisioned, disturbed>>

\* systemd-creds writes the temporary file; its checks and chmod.
Encrypt(a) ==
    /\ run[a].at = "encrypt"
    /\ Goto(a, "install") \/ GiveUp(a)
    /\ UNCHANGED <<files, tpm, lock, provisioned, saved, disturbed>>

\* rename() in the place of link().
MutInstall(a) ==
    /\ run[a].at = "install"
    /\ installed' = run[a].auth
    /\ Goto(a, "launch")
    /\ UNCHANGED <<durable, lost, tpm, lock, provisioned, saved, disturbed>>

\* link() refuses an existing name; the unlink() after it may still fail.
Install(a) ==
    /\ run[a].at = "install"
    /\ \/ /\ installed = None
          /\ installed' = run[a].auth
          /\ Goto(a, "launch") \/ GiveUp(a)
       \/ /\ GiveUp(a)
          /\ UNCHANGED installed
    /\ UNCHANGED <<durable, lost, tpm, lock, provisioned, saved, disturbed>>

-----------------------------------------------------------------------------
(* The managed unit *)

\* systemd-run: the unit is given the authorization installed by now.
Launch(a) ==
    /\ run[a].at = "launch"
    /\ \/ run' = [run EXCEPT ![a] = [at |-> "acquire", auth |-> installed]]
       \/ GiveUp(a)
    /\ UNCHANGED <<files, tpm, lock, provisioned, saved, disturbed>>

\* CredentialStoreLock does not wait; then the preflight of the hierarchy.
Acquire(a) ==
    /\ run[a].at = "acquire"
    /\ \/ /\ lock = None
          /\ lock' = a
          /\ Goto(a, "create_nv")
       \/ /\ GiveUp(a)
          /\ UNCHANGED lock
    /\ UNCHANGED <<files, tpm, provisioned, saved, disturbed>>

\* Fapi_CreateNv inside the try block, whose handler deletes both objects.
MutCreateNv(a) ==
    /\ run[a].at = "create_nv"
    /\ \/ /\ counter = None
          /\ counter' = run[a].auth
          /\ Goto(a, "initialize")
       \/ /\ Goto(a, "delete_both")
          /\ UNCHANGED counter
    /\ UNCHANGED <<files, seal, sealed, lock, provisioned, saved, disturbed>>

\* Fapi_CreateNv refuses a path that exists; its failure is thrown as it is.
CreateNv(a) ==
    /\ run[a].at = "create_nv"
    /\ \/ /\ counter = None
          /\ counter' = run[a].auth
          /\ Goto(a, "initialize")
          /\ UNCHANGED lock
       \/ /\ UnitEnds(a)
          /\ UNCHANGED counter
    /\ UNCHANGED <<files, seal, sealed, provisioned, saved, disturbed>>

\* Fapi_NvIncrement, the origin read back, and Fapi_GetRandom.
Initialize(a) ==
    /\ run[a].at = "initialize"
    /\ Goto(a, "create_seal") \/ Goto(a, "delete_counter")
    /\ UNCHANGED <<files, tpm, lock, provisioned, saved, disturbed>>

\* Fapi_CreateSeal; key_created tells the handler what there is to delete.
CreateSeal(a) ==
    /\ run[a].at = "create_seal"
    /\ \/ /\ seal = None /\ sealed < MaxKeys
          /\ seal' = run[a].auth
          /\ sealed' = sealed + 1
          /\ Goto(a, "verify")
       \/ /\ Goto(a, "delete_counter")
          /\ UNCHANGED <<seal, sealed>>
    /\ UNCHANGED <<files, counter, lock, provisioned, saved, disturbed>>

\* A handler that was never told of the key.
MutVerify(a) ==
    /\ run[a].at = "verify"
    /\ \/ /\ UnitEnds(a)
          /\ provisioned' = TRUE
       \/ /\ Goto(a, "delete_counter")
          /\ UNCHANGED <<lock, provisioned>>
    /\ UNCHANGED <<files, tpm, saved, disturbed>>

\* unseal_key and read; the only return of provision().
Verify(a) ==
    /\ run[a].at = "verify"
    /\ \/ /\ UnitEnds(a)
          /\ provisioned' = TRUE
       \/ /\ Goto(a, "delete_both")
          /\ UNCHANGED <<lock, provisioned>>
    /\ UNCHANGED <<files, tpm, saved, disturbed>>

\* Fapi_Delete of the counter, whose failure does not stop the handler.
DeleteCounter(a) ==
    /\ run[a].at \in {"delete_counter", "delete_both"}
    /\ \/ /\ counter' = None
          /\ UNCHANGED disturbed
       \/ /\ disturbed' = TRUE
          /\ UNCHANGED counter
    /\ IF run[a].at = "delete_both"
       THEN Goto(a, "delete_key") /\ UNCHANGED lock
       ELSE UnitEnds(a)
    /\ UNCHANGED <<files, seal, sealed, provisioned, saved>>

\* Fapi_Delete of the key.
DeleteKey(a) ==
    /\ run[a].at = "delete_key"
    /\ \/ /\ seal' = None
          /\ UNCHANGED disturbed
       \/ /\ disturbed' = TRUE
          /\ UNCHANGED seal
    /\ UnitEnds(a)
    /\ UNCHANGED <<files, counter, sealed, provisioned, saved>>

\* A signal or a reboot; the kernel releases what the unit held.
Killed(a) ==
    /\ run[a].at # "idle"
    /\ GiveUp(a)
    /\ lock' = IF lock = a THEN None ELSE lock
    /\ disturbed' = (disturbed \/ lock = a)
    /\ UNCHANGED <<files, tpm, provisioned, saved>>

\* The kernel writes the directory of the credential back; nothing in
\* ensure_provisioning_authorization waits for it.
Writeback ==
    /\ durable' = installed
    /\ UNCHANGED <<installed, lost, tpm, lock, run, provisioned, saved, disturbed>>

\* Every process is gone, and the credential is what the disk holds.
PowerFailure ==
    /\ installed' = durable
    /\ lost' = (lost \/ installed # durable)
    /\ run' = [a \in Admins |-> Idle]
    /\ lock' = None
    /\ disturbed' = (disturbed \/ lock \in Admins)
    /\ UNCHANGED <<durable, tpm, provisioned, saved>>

\* The daemon, or another command of vauthctl, takes or leaves the lock.
OtherLocks(o) ==
    /\ \/ lock = None /\ lock' = o
       \/ lock = o /\ lock' = None
    /\ UNCHANGED <<files, tpm, run, provisioned, saved, disturbed>>

Unit(a) ==
    \/ Launch(a) \/ Acquire(a)
    \/ CreateNv(a) \/ Initialize(a) \/ CreateSeal(a) \/ Verify(a)
    \/ DeleteCounter(a) \/ DeleteKey(a)

Invocation(a) ==
    \/ Begin(a) \/ Confirm(a) \/ Encrypt(a) \/ Install(a)
    \/ Unit(a)
    \/ Killed(a)

Next ==
    \/ \E a \in Admins : Invocation(a)
    \/ Writeback
    \/ PowerFailure
    \/ \E o \in Others : OtherLocks(o)

Spec == Init /\ [][Next]_vars

-----------------------------------------------------------------------------
(* Properties *)

\* Whatever invocations overlap, fail or are killed, every TPM object there is
\* was created with the authorization that is installed, so the daemon's
\* LoadCredentialEncrypted opens it: link() lets one first-time run win.  Only
\* a power failure that undoes link() separates them.
InstalledOpensObjects ==
    \/ lost
    \/ counter \in {None, installed} /\ seal \in {None, installed}

\* No TPM object is ever created with an authorization that the administrator
\* has not confirmed to have saved; so also after a power failure that lost the
\* installed one, the recovery of the README can restore it.
SavedOpensObjects == counter \in saved \cup {None} /\ seal \in saved \cup {None}

\* A failed provision() leaves neither object or both: unless a unit was killed
\* or a deletion failed, no half-provisioned TPM is left behind between units.
AllOrNothing ==
    ~disturbed /\ lock \notin Admins => (counter = None <=> seal = None)

\* Once an invocation has reported success, no later invocation, whether it
\* fails or is killed, removes or replaces the counter or the key; nor the
\* installed authorization, unless a power failure has undone its link().
ProvisionedKept ==
    [][provisioned => UNCHANGED tpm /\ (lost' \/ installed' = installed)]_vars
=============================================================================
