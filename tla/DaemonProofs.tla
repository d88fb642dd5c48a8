---------------------------- MODULE DaemonProofs ----------------------------
(***************************************************************************)
(* The keys' whole life for any administrators, openers, credentials and   *)
(* authorizations.  First the properties of Provisioning: the inductive    *)
(* invariant says what each step of a unit knows of the two objects while  *)
(* it holds the lock.  An opener is one of the other holders of the store  *)
(* lock there, so everything proved of Provisioning carries over; the lock *)
(* then separates the openers from the runs that still create or delete    *)
(* the TPM objects.                                                        *)
(***************************************************************************)
EXTENDS Daemon, TLAPS

-----------------------------------------------------------------------------
(* Provisioning.                                                           *)


\* Past Fapi_CreateNv: only the run that created the counter is here.
Creating == UnitSteps \ {"create_nv"}

\* The lock is held by exactly the unit that is past CredentialStoreLock.
LockHeld == \A a \in Admins : lock = a <=> run[a].at \in UnitSteps

\* A unit works with the installed authorization.
UnitAuthorized ==
    \A a \in Admins :
        /\ run[a].at \in UnitSteps \cup {"acquire", "launch"} => installed # None
        /\ run[a].at \in UnitSteps \cup {"acquire"} => run[a].auth = installed

\* What is installed, or on the disk, has been saved before.
Saved ==
    /\ {installed, durable} \subseteq saved \cup {None}
    /\ \A a \in Admins : run[a].at \in {"encrypt", "install"} => run[a].auth \in saved

\* What a unit that nothing has disturbed knows of the objects.
Knows ==
    \A a \in Admins :
        /\ run[a].at \in {"initialize", "create_seal", "delete_counter", "verify", "delete_both"}
              => counter # None
        /\ run[a].at \in {"verify", "delete_both", "delete_key"} => seal # None
        /\ ~disturbed =>
              /\ run[a].at = "create_nv" => (counter = None <=> seal = None)
              /\ run[a].at \in {"initialize", "create_seal", "delete_counter"} => seal = None
              /\ run[a].at = "delete_key" => counter = None

\* After a success nobody is past Fapi_CreateNv.
Kept ==
    provisioned =>
        /\ counter # None
        /\ seal # None
        /\ \A a \in Admins : run[a].at \notin Creating

IInv ==
    /\ TypeOK
    /\ LockHeld
    /\ UnitAuthorized
    /\ Saved
    /\ SavedOpensObjects
    /\ InstalledOpensObjects
    /\ AllOrNothing
    /\ Knows
    /\ Kept

\* Initially nothing is installed, created or running.
LEMMA InitInductive == Init => IInv
<1> SUFFICES ASSUME Init PROVE IInv
  OBVIOUS
<1>1. \A a \in Admins : run[a] = Idle
  BY ZenonT(60) DEF Init
<1>2. TypeOK
  <2>1. sealed \in 0 .. MaxKeys
    BY KeyBound DEF Init
  <2> QED
    BY ZenonT(60), <1>1, <2>1 DEF Init, TypeOK, Idle, Steps
<1>3. LockHeld /\ UnitAuthorized /\ Knows
  BY <1>1, NoneIsFresh DEF Init, LockHeld, UnitAuthorized, Knows, Idle, UnitSteps
<1>4. Saved /\ SavedOpensObjects /\ InstalledOpensObjects /\ AllOrNothing
  BY <1>1 DEF Init, Saved, SavedOpensObjects, InstalledOpensObjects, AllOrNothing, Idle
<1>5. Kept
  BY ZenonT(60) DEF Init, Kept
<1> QED
  BY <1>2, <1>3, <1>4, <1>5 DEF IInv

\* The steps of the front end, up to link(), preserve the invariant.
LEMMA FrontEndInductive ==
  ASSUME IInv, NEW a \in Admins, Begin(a) \/ Confirm(a) \/ Encrypt(a) \/ Install(a)
  PROVE  IInv'
<1> USE NoneIsFresh, OthersAreOther DEF IInv, TypeOK, LockHeld, UnitAuthorized, Saved,
        SavedOpensObjects, InstalledOpensObjects, AllOrNothing, Knows, Kept, Idle, Steps, UnitSteps, Creating, Goto, GiveUp, UnitEnds, tpm, files
<1>1. CASE Begin(a)
  BY SMTT(60), <1>1 DEF Begin, Fresh
<1>2. CASE Confirm(a)
  BY SMTT(60), <1>2 DEF Confirm
<1>3. CASE Encrypt(a)
  BY SMTT(60), <1>3 DEF Encrypt
<1>4. CASE Install(a)
  BY SMTT(60), <1>4 DEF Install
<1> QED
  BY ZenonT(60), <1>1, <1>2, <1>3, <1>4

\* The steps of the unit, and its death, preserve the invariant.
LEMMA UnitInductive ==
  ASSUME IInv, NEW a \in Admins, Unit(a) \/ Killed(a)
  PROVE  IInv'
<1> USE NoneIsFresh, OthersAreOther DEF IInv, TypeOK, LockHeld, UnitAuthorized, Saved,
        SavedOpensObjects, InstalledOpensObjects, AllOrNothing, Knows, Kept, Idle, Steps, UnitSteps, Creating, Goto, GiveUp, UnitEnds, tpm, files
<1>1. CASE Launch(a)
  BY SMTT(60), <1>1 DEF Launch
<1>2. CASE Acquire(a)
  BY SMTT(60), <1>2 DEF Acquire
<1>3. CASE CreateNv(a)
  BY <1>3 DEF CreateNv
<1>4. CASE Initialize(a)
  BY <1>4 DEF Initialize
<1>5. CASE CreateSeal(a)
  <2>1. run[a].at = "create_seal" /\ lock = a /\ counter # None /\ installed # None
        /\ run[a].auth = installed
    BY <1>5 DEF CreateSeal
  <2>2. CASE seal = None /\ seal' = run[a].auth /\ sealed' = sealed + 1 /\ sealed < MaxKeys
             /\ Goto(a, "verify")
    <3>1. sealed' \in 0 .. MaxKeys
      BY <2>2, KeyBound
    <3>2. TypeOK'
      BY ZenonT(60), <1>5, <2>1, <2>2, <3>1 DEF CreateSeal
    <3>3. LockHeld' /\ UnitAuthorized' /\ Knows' /\ Kept'
      BY SMTT(60), <1>5, <2>1, <2>2 DEF CreateSeal
    <3>4. Saved' /\ SavedOpensObjects' /\ InstalledOpensObjects' /\ AllOrNothing'
      BY SMTT(60), <1>5, <2>1, <2>2 DEF CreateSeal
    <3> QED
      BY <3>2, <3>3, <3>4
  <2>3. CASE Goto(a, "delete_counter") /\ UNCHANGED <<seal, sealed>>
    BY SMTT(60), <1>5, <2>1, <2>3 DEF CreateSeal
  <2> QED
    BY ZenonT(60), <1>5, <2>2, <2>3 DEF CreateSeal
<1>6. CASE Verify(a)
  <2>1. run[a].at = "verify" /\ lock = a /\ counter # None /\ seal # None
    BY <1>6 DEF Verify
  <2>2. CASE UnitEnds(a) /\ provisioned' = TRUE
    <3>1. \A b \in Admins : run'[b].at \notin UnitSteps
      BY <1>6, <2>1, <2>2 DEF Verify
    <3>2. TypeOK' /\ LockHeld' /\ UnitAuthorized'
      BY <1>6, <2>1, <2>2, <3>1 DEF Verify
    <3>3. Saved' /\ SavedOpensObjects' /\ InstalledOpensObjects'
      BY <1>6, <2>1, <2>2, <3>1 DEF Verify
    <3>5. AllOrNothing' /\ Knows'
      BY <1>6, <2>1, <2>2, <3>1 DEF Verify
    <3>4. Kept'
      BY ZenonT(60), <1>6, <2>1, <2>2, <3>1 DEF Verify
    <3> QED
      BY <3>2, <3>3, <3>4, <3>5
  <2>3. CASE Goto(a, "delete_both") /\ UNCHANGED <<lock, provisioned>>
    BY SMTT(60), ZenonT(60), <1>6, <2>3 DEF Verify
  <2> QED
    BY ZenonT(60), <1>6, <2>2, <2>3 DEF Verify
<1>7. CASE DeleteCounter(a)
  <2>1. lock = a /\ counter # None /\ ~provisioned
    BY <1>7 DEF DeleteCounter
  <2>2. /\ counter' \in {None, counter}
        /\ disturbed' \in BOOLEAN
        /\ ~disturbed' => ~disturbed /\ counter' = None
        /\ UNCHANGED <<files, seal, sealed, provisioned, saved>>
    <3>1. CASE counter' = None /\ disturbed' = disturbed
      BY <1>7, <3>1 DEF DeleteCounter
    <3>2. CASE disturbed' = TRUE /\ counter' = counter
      BY ZenonT(60), <1>7, <3>2 DEF DeleteCounter
    <3> QED
      BY <1>7, <3>1, <3>2, Zenon DEF DeleteCounter
  <2>3. CASE run[a].at = "delete_both"
    <3>1. run' = [run EXCEPT ![a].at = "delete_key"] /\ lock' = lock
      BY <1>7, <2>3 DEF DeleteCounter
    <3>2. TypeOK'
      BY <2>2, <3>1, <2>3
    <3>3. LockHeld' /\ UnitAuthorized'
      BY <2>2, <2>3, <3>1
    <3>4. InstalledOpensObjects' /\ AllOrNothing' /\ Kept'
      BY <2>1, <2>2, <3>1
    <3>5. Knows'
      BY ZenonT(60), <2>1, <2>2, <2>3, <3>1
    <3>6. Saved' /\ SavedOpensObjects'
      BY <2>2, <2>3, <3>1
    <3> QED
      BY <3>2, <3>3, <3>4, <3>5, <3>6
  <2>4. CASE run[a].at = "delete_counter"
    <3>1. run' = [run EXCEPT ![a] = Idle] /\ lock' = None
      BY ZenonT(60), <1>7, <2>4 DEF DeleteCounter
    <3>2. \A b \in Admins : run'[b].at \notin UnitSteps
      BY ZenonT(60), <2>1, <3>1
    <3>3. TypeOK'
      <4>1. run' \in [Admins -> [at : Steps, auth : Authorizations \cup {None}]]
        BY ZenonT(60), <3>1
      <4> HIDE DEF Steps
      <4> QED
        BY <2>2, <3>1, <4>1
    <3>4. LockHeld' /\ UnitAuthorized' /\ Knows'
      BY ZenonT(60), <2>2, <3>1, <3>2
    <3>5. InstalledOpensObjects' /\ AllOrNothing' /\ Kept'
      BY SMTT(60), <2>1, <2>2, <2>4, <3>1
    <3>6. Saved' /\ SavedOpensObjects'
      BY SMTT(60), <2>2, <2>4, <3>1
    <3> QED
      BY <3>3, <3>4, <3>5, <3>6
  <2> QED
    BY <1>7, <2>3, <2>4 DEF DeleteCounter
<1>8. CASE DeleteKey(a)
  BY ZenonT(60), <1>8 DEF DeleteKey
<1>9. CASE Killed(a)
  BY ZenonT(60), <1>9 DEF Killed
<1> QED
  BY ZenonT(60), <1>1, <1>2, <1>3, <1>4, <1>5, <1>6, <1>7, <1>8, <1>9 DEF Unit

\* So do the steps of the kernel, of a power failure and of the other holders
\* of the lock.
LEMMA EnvironmentInductive ==
  ASSUME IInv, Writeback \/ PowerFailure \/ \E o \in Others : OtherLocks(o)
  PROVE  IInv'
<1> USE NoneIsFresh, OthersAreOther DEF IInv, TypeOK, LockHeld, UnitAuthorized, Saved,
        SavedOpensObjects, InstalledOpensObjects, AllOrNothing, Knows, Kept, Idle, Steps,
        UnitSteps, Creating, tpm, files
<1>1. CASE Writeback
  BY SMTT(60), <1>1 DEF Writeback
<1>2. CASE PowerFailure
  <2>1. \A a \in Admins : run'[a] = Idle
    BY ZenonT(60), <1>2 DEF PowerFailure
  <2>2. TypeOK'
    <3>1. Idle \in [at : Steps, auth : Authorizations \cup {None}] /\ Idle.at = "idle"
      BY ZenonT(60)
    <3> HIDE DEF Idle, Steps
    <3>2. /\ run' \in [Admins -> [at : Steps, auth : Authorizations \cup {None}]]
          /\ \A a \in Admins : run'[a].at = "idle"
      BY ZenonT(60), <1>2, <2>1, <3>1 DEF PowerFailure
    <3>3. disturbed' \in BOOLEAN /\ lost' \in BOOLEAN
      BY ZenonT(60), <1>2 DEF PowerFailure
    <3> QED
      BY ZenonT(60), <1>2, <3>2, <3>3 DEF PowerFailure
  <2>3. LockHeld' /\ UnitAuthorized' /\ Knows'
    BY ZenonT(60), <1>2, <2>1 DEF PowerFailure
  <2>4. Saved' /\ SavedOpensObjects' /\ Kept'
    BY SMTT(60), <1>2, <2>1 DEF PowerFailure
  <2>5. InstalledOpensObjects'
    <3>1. CASE installed = durable
      BY ZenonT(60), <1>2, <3>1 DEF PowerFailure
    <3>2. CASE installed # durable
      BY ZenonT(60), <1>2, <3>2 DEF PowerFailure
    <3> QED
      BY <3>1, <3>2
  <2>6. AllOrNothing'
    BY ZenonT(60), <1>2 DEF PowerFailure
  <2> QED
    BY <2>2, <2>3, <2>4, <2>5, <2>6
<1>3. ASSUME NEW o \in Others, OtherLocks(o) PROVE IInv'
  BY SMTT(60), <1>3 DEF OtherLocks
<1> QED
  BY ZenonT(60), <1>1, <1>2, <1>3

\* Every step, and stuttering, preserves the invariant.
LEMMA StepInductive == ASSUME IInv, [Next]_vars PROVE IInv'
<1>1. CASE Next
  BY <1>1, FrontEndInductive, UnitInductive, EnvironmentInductive DEF Next, Invocation
<1>2. CASE UNCHANGED vars
  BY <1>2 DEF vars, files, tpm, IInv, TypeOK, LockHeld, UnitAuthorized, Saved,
     SavedOpensObjects, InstalledOpensObjects, AllOrNothing, Knows, Kept
<1> QED
  BY <1>1, <1>2

\* The invariant holds in every state of every interleaving of provisioning runs.
THEOREM Inductive == Spec => []IInv
<1>1. Init => IInv
  BY InitInductive
<1>2. IInv /\ [Next]_vars => IInv'
  BY StepInductive
<1> QED
  BY <1>1, <1>2, PTL DEF Spec

\* Every unit runs with an authorization, and the state has its types.
THEOREM TypeCorrect == Spec => []TypeOK
<1>1. IInv => TypeOK
  BY DEF IInv
<1> QED
  BY <1>1, Inductive, PTL

\* However many runs of vauthctl provision overlap, the installed authorization
\* is the one of every TPM object: link() and the store lock suffice.
THEOREM OneAuthorization == Spec => []InstalledOpensObjects
<1>1. IInv => InstalledOpensObjects
  BY DEF IInv
<1> QED
  BY <1>1, Inductive, PTL

\* The handler of provision() leaves no half-provisioned TPM unless it is
\* killed or a deletion fails.
THEOREM CleansUp == Spec => []AllOrNothing
<1>1. IInv => AllOrNothing
  BY DEF IInv
<1> QED
  BY <1>1, Inductive, PTL

\* No TPM object depends on an authorization that was not saved, so what the
\* missing directory sync of link() can lose, the recovery can restore.
THEOREM RecoveryPossible == Spec => []SavedOpensObjects
<1>1. IInv => SavedOpensObjects
  BY DEF IInv
<1> QED
  BY <1>1, Inductive, PTL

\* While both objects exist and nobody is creating them, no step touches them.
LEMMA ObjectsKept ==
  ASSUME IInv, Next, counter # None, seal # None, \A a \in Admins : run[a].at \notin Creating
  PROVE  UNCHANGED tpm /\ (lost' \/ installed' = installed)
<1>1. lost \/ installed # None
  BY DEF IInv, InstalledOpensObjects
<1>2. ASSUME NEW a \in Admins, Begin(a) \/ Confirm(a) \/ Encrypt(a) \/ Install(a)
      PROVE  UNCHANGED tpm /\ (lost' \/ installed' = installed)
  BY <1>1, <1>2 DEF Begin, Confirm, Encrypt, Install, tpm, files
<1>3. ASSUME NEW a \in Admins, Unit(a) \/ Killed(a)
      PROVE  UNCHANGED tpm /\ installed' = installed
  BY <1>3 DEF Unit, Launch, Acquire, CreateNv, Initialize, CreateSeal, Verify,
     DeleteCounter, DeleteKey, Killed, Creating, UnitSteps, tpm, files
<1>4. CASE Writeback \/ PowerFailure \/ \E o \in Others : OtherLocks(o)
  BY ZenonT(60), <1>4 DEF Writeback, PowerFailure, OtherLocks, IInv, TypeOK, tpm, files
<1> QED
  BY <1>2, <1>3, <1>4 DEF Next, Invocation

\* A provisioned authenticator survives every later run of vauthctl provision.
THEOREM NeverReprovisioned == Spec => ProvisionedKept
<1>1. IInv /\ [Next]_vars => [provisioned => UNCHANGED tpm /\ (lost' \/ installed' = installed)]_vars
  BY ZenonT(60), ObjectsKept DEF IInv, Kept
<1> QED
  BY <1>1, Inductive, PTL DEF Spec, ProvisionedKept

-----------------------------------------------------------------------------
(* The openers.                                                            *)


\* The lock is held by exactly the opener that is past CredentialStoreLock.
OpenerLocks == \A o \in Others : lock = o <=> opener[o].at \in Locked

\* What an opener that has unsealed the database key knows.
OpenerKnows ==
    \A o \in Others :
        /\ opener[o].at \in {"provide", "load", "open"} => seal # None /\ opener[o].key = sealed
        /\ opener[o].at = "open" => inUse

\* The transient objects: a parent at most, and a key while sign() runs.
ParentAndKey ==
    /\ transient <= 1 + (IF signing = None THEN 0 ELSE 1)
    /\ signing # None => \E o \in Others : opener[o].at = "open" /\ transient >= 1
    /\ \A o \in Others : opener[o].at \in {"unseal", "provide"} => transient = 0
    /\ lock \notin Others => transient = 0 /\ signing = None

\* Whoever has opened the store has found both objects, and nobody creates
\* them again; before that there are no credentials.
UsedObjects ==
    /\ inUse => /\ counter # None /\ seal # None
                /\ \A a \in Admins : run[a].at \notin Creating
    /\ fileKey \in {0, sealed} /\ (~inUse => fileKey = 0)
    /\ \A c \in Credentials : keyOf[c] \in {0, sealed} /\ (~inUse => keyOf[c] = 0)

DInv ==
    /\ DaemonTypeOK
    /\ OpenerLocks
    /\ OpenerKnows
    /\ ParentAndKey
    /\ UsedObjects

\* Every step of the composition is a step of Provisioning, or none.
LEMMA StepSimulates == ASSUME [DaemonNext]_allVars PROVE [Next]_vars
<1>1. CASE UNCHANGED allVars
  BY <1>1 DEF allVars
<1>2. CASE \E a \in Admins : Invocation(a)
  BY <1>2 DEF Next
<1>3. CASE Writeback \/ DaemonPowerFailure
  BY <1>3 DEF Next, DaemonPowerFailure
<1>4. ASSUME NEW o \in Others, OpenerNext(o) PROVE [Next]_vars
  <2>1. CASE Lock(o)
    BY <2>1 DEF Lock, Next, OtherLocks
  <2>2. CASE Exit(o)
    <3>1. CASE lock = o
      BY <2>2, <3>1 DEF Exit, Next, OtherLocks
    <3>2. CASE lock # o
      BY <2>2, <3>2 DEF Exit, vars
    <3> QED
      BY <3>1, <3>2
  <2>3. CASE UNCHANGED vars
    BY <2>3
  <2> QED
    BY ZenonT(60), <1>4, <2>1, <2>2, <2>3
       DEF OpenerNext, Start, Unseal, Provide, Load, Register, LoadKey, Sign, Erase
<1> QED
  BY <1>1, <1>2, <1>3, <1>4 DEF DaemonNext

\* The composition implements the provisioning specification, so its theorems
\* hold while daemons and commands start, run and die.
THEOREM ImplementsProvisioning == DaemonSpec => Spec
<1>1. DaemonInit => Init
  BY DEF DaemonInit
<1>2. [DaemonNext]_allVars => [Next]_vars
  BY StepSimulates
<1> QED
  BY <1>1, <1>2, PTL DEF DaemonSpec, Spec

\* Initially nothing is open and nothing stored.
LEMMA DaemonInitInductive == DaemonInit => DInv
<1> SUFFICES ASSUME DaemonInit PROVE DInv
  OBVIOUS
<1> USE DEF DaemonInit
<1>1. \A o \in Others : opener[o] = Stopped
  BY ZenonT(60)
<1>2. TypeOK
  BY ZenonT(60), InitInductive DEF IInv
<1>3. 0 \in 0 .. MaxKeys /\ 0 \in 0 .. Slots
  BY KeyBound, RoomForParentAndKey
<1>4. DaemonTypeOK
  BY ZenonT(60), <1>2, <1>3 DEF DaemonTypeOK, Stopped, Places
<1>5. OpenerLocks /\ OpenerKnows
  BY ZenonT(60), <1>1, NoneIsFresh DEF Init, OpenerLocks, OpenerKnows, Stopped, Locked, Places
<1>6. ParentAndKey
  BY <1>1 DEF ParentAndKey, Stopped
<1>7. UsedObjects
  BY DEF UsedObjects, Init
<1> QED
  BY <1>4, <1>5, <1>6, <1>7 DEF DInv

\* A provisioning run preserves the invariant: while it creates or deletes the
\* objects it holds the lock, and nobody has opened the store yet.
LEMMA InvocationInductive ==
  ASSUME IInv, IInv', DInv, NEW a \in Admins, Invocation(a), UNCHANGED daemonVars
  PROVE  DInv'
<1> USE DEF daemonVars, storeVars, providerVars
<1>1. lock' \in Others => lock' = lock
  BY OthersAreOther, NoneIsFresh DEF Invocation, Begin, Confirm, Encrypt, Install, Unit,
     Launch, Acquire, CreateNv, Initialize, CreateSeal, Verify, DeleteCounter, DeleteKey,
     Killed, UnitEnds, GiveUp, Goto
<1>2. lock \in Others => run[a].at \notin UnitSteps
  BY OthersAreOther DEF IInv, LockHeld
<1>3. lock \in Others => lock' = lock /\ UNCHANGED tpm
  BY <1>2, NoneIsFresh, OthersAreOther DEF Invocation, Begin, Confirm, Encrypt, Install, Unit,
     Launch, Acquire, CreateNv, Initialize, CreateSeal, Verify, DeleteCounter, DeleteKey,
     Killed, UnitSteps, tpm
<1>4. inUse => UNCHANGED tpm /\ \A b \in Admins : run'[b].at \notin Creating
  <2> SUFFICES ASSUME inUse
               PROVE  UNCHANGED tpm /\ \A b \in Admins : run'[b].at \notin Creating
    OBVIOUS
  <2>1. counter # None /\ seal # None /\ \A b \in Admins : run[b].at \notin Creating
    BY ZenonT(60) DEF DInv, UsedObjects
  <2>2. UNCHANGED tpm
    BY ZenonT(60), <2>1, ObjectsKept DEF Next
  <2>3. run'[a].at \notin Creating /\ \A b \in Admins \ {a} : run'[b] = run[b]
    BY <2>1 DEF IInv, TypeOK, Invocation, Begin, Confirm, Encrypt, Install, Unit, Launch, Acquire,
       CreateNv, Initialize, CreateSeal, Verify, DeleteCounter, DeleteKey, Killed, UnitEnds,
       GiveUp, Goto, Idle, Creating, UnitSteps
  <2> QED
    BY ZenonT(60), <2>1, <2>2, <2>3
<1>5. DaemonTypeOK'
  BY ZenonT(60) DEF DInv, DaemonTypeOK, IInv
<1>6. OpenerLocks'
  BY ZenonT(60), <1>1, <1>3 DEF DInv, OpenerLocks
<1>7. OpenerKnows'
  <2>1. \A o \in Others : opener[o].at \in {"provide", "load", "open"} => lock = o
    BY ZenonT(60) DEF DInv, OpenerLocks, Locked, Places
  <2> QED
    BY ZenonT(60), <1>3, <2>1 DEF DInv, OpenerKnows, tpm
<1>8. ParentAndKey'
  BY ZenonT(60), <1>3 DEF DInv, ParentAndKey
<1>9. UsedObjects'
  BY ZenonT(60), <1>4 DEF DInv, UsedObjects, tpm
<1> QED
  BY <1>5, <1>6, <1>7, <1>8, <1>9 DEF DInv

\* So do the kernel, a power failure and the steps of an opener.
LEMMA EnvironmentDaemonInductive ==
  ASSUME IInv, IInv', DInv, (Writeback /\ UNCHANGED daemonVars) \/ DaemonPowerFailure
  PROVE  DInv'
<1> USE DEF daemonVars, storeVars, providerVars
<1>1. DaemonTypeOK'
  <2>1. CASE Writeback /\ UNCHANGED daemonVars
    BY ZenonT(60), <2>1 DEF DInv, DaemonTypeOK, IInv
  <2>2. CASE DaemonPowerFailure
    <3>1. Stopped \in [at : Places, auth : Authorizations \cup {None}, key : 0 .. MaxKeys]
      BY KeyBound DEF Stopped, Places
    <3>2. 0 \in 0 .. Slots
      BY RoomForParentAndKey
    <3> QED
      BY ZenonT(60), <2>2, <3>1, <3>2 DEF DaemonPowerFailure, DInv, DaemonTypeOK, IInv
  <2> QED
    BY <2>1, <2>2
<1>2. CASE Writeback /\ UNCHANGED daemonVars
  <2>1. OpenerLocks' /\ OpenerKnows' /\ ParentAndKey'
    BY ZenonT(60), <1>2 DEF Writeback, DInv, OpenerLocks, OpenerKnows, ParentAndKey, tpm
  <2>2. UsedObjects'
    BY ZenonT(60), <1>2 DEF Writeback, DInv, UsedObjects, tpm
  <2> QED
    BY <1>1, <2>1, <2>2 DEF DInv
<1>3. CASE DaemonPowerFailure
  <2>1. \A o \in Others : opener'[o] = Stopped
    BY ZenonT(60), <1>3 DEF DaemonPowerFailure
  <2>2. lock' = None /\ transient' = 0 /\ signing' = None
    BY ZenonT(60), <1>3 DEF DaemonPowerFailure, PowerFailure
  <2>3. OpenerLocks' /\ OpenerKnows'
    BY SMTT(60), <2>1, <2>2, NoneIsFresh DEF OpenerLocks, OpenerKnows, Stopped, Locked, Places
  <2>4. ParentAndKey'
    BY <2>1, <2>2 DEF ParentAndKey, Stopped
  <2>5. \A a \in Admins : run'[a].at = "idle"
    BY ZenonT(60), <1>3 DEF DaemonPowerFailure, PowerFailure, Idle
  <2>6. UsedObjects'
    BY SMTT(60), <1>3, <2>5 DEF DaemonPowerFailure, PowerFailure, DInv, UsedObjects, tpm,
       Creating, UnitSteps
  <2> QED
    BY <1>1, <2>3, <2>4, <2>6 DEF DInv
<1> QED
  BY <1>2, <1>3

\* The place of one opener changes: the others stay where they are, and off
\* the lock if this one holds it.
LEMMA OpenerInductive ==
  ASSUME IInv, IInv', DInv, NEW o \in Others, OpenerNext(o)
  PROVE  DInv'
<1> USE DEF storeVars, providerVars
<1>1. \A p \in Others : p # o /\ opener[o].at \in Locked => opener[p].at \notin Locked
  BY ZenonT(60) DEF DInv, OpenerLocks
<1>2. CASE Start(o)
  <2>1. /\ opener[o].at = "stopped" /\ installed # None
        /\ opener' = [opener EXCEPT ![o] = [at |-> "lock", auth |-> installed, key |-> 0]]
        /\ UNCHANGED <<vars, storeVars, providerVars, inUse>>
    BY <1>2 DEF Start
  <2>2. DaemonTypeOK'
    BY SMTT(60), <2>1, KeyBound DEF DInv, DaemonTypeOK, IInv, TypeOK, Places
  <2>3. OpenerLocks' /\ OpenerKnows'
    BY SMTT(60), <2>1 DEF DInv, OpenerLocks, OpenerKnows, DaemonTypeOK, Locked, Places, vars, tpm
  <2>4. ParentAndKey'
    BY SMTT(60), <2>1 DEF DInv, ParentAndKey, DaemonTypeOK, vars
  <2>5. UsedObjects'
    BY ZenonT(60), <2>1 DEF DInv, UsedObjects, vars, tpm
  <2> QED
    BY <2>2, <2>3, <2>4, <2>5 DEF DInv
<1>3. CASE Lock(o)
  <2>1. /\ opener[o].at = "lock" /\ lock = None /\ lock' = o
        /\ opener' = [opener EXCEPT ![o].at = "unseal"]
        /\ UNCHANGED <<tpm, run, storeVars, providerVars, inUse>>
    BY <1>3 DEF Lock, At
  <2>2. transient = 0 /\ signing = None
    BY ZenonT(60), <2>1, NoneIsFresh DEF DInv, ParentAndKey
  <2>3. DaemonTypeOK'
    BY SMTT(60), <2>1 DEF DInv, DaemonTypeOK, IInv, Places
  <2>4. OpenerLocks' /\ OpenerKnows'
    BY SMTT(60), <2>1, NoneIsFresh
       DEF DInv, OpenerLocks, OpenerKnows, DaemonTypeOK, Locked, Places, tpm
  <2>5. ParentAndKey'
    BY SMTT(60), <2>1, <2>2 DEF ParentAndKey
  <2>6. UsedObjects'
    BY ZenonT(60), <2>1 DEF DInv, UsedObjects, tpm
  <2> QED
    BY <2>3, <2>4, <2>5, <2>6 DEF DInv
<1>4. ASSUME NEW daemon \in BOOLEAN, Unseal(o, daemon) PROVE DInv'
  <2>1. PICK place \in {"provide", "load"} :
        /\ opener[o].at = "unseal" /\ seal # None
        /\ opener' = [opener EXCEPT ![o] = [at |-> place, auth |-> seal, key |-> sealed]]
        /\ UNCHANGED <<vars, storeVars, providerVars, inUse>>
    BY ZenonT(60), <1>4 DEF Unseal
  <2>2. lock = o
    BY ZenonT(60), <2>1 DEF DInv, OpenerLocks, Locked, Places
  <2>3. DaemonTypeOK'
    BY SMTT(60), <2>1 DEF DInv, DaemonTypeOK, IInv, TypeOK, Places
  <2>4. OpenerLocks' /\ OpenerKnows'
    BY SMTT(60), <2>1 DEF DInv, OpenerLocks, OpenerKnows, DaemonTypeOK, Locked, Places, vars, tpm
  <2>5. ParentAndKey'
    BY SMTT(60), <2>1, <2>2 DEF DInv, ParentAndKey, DaemonTypeOK, vars
  <2>6. UsedObjects'
    BY ZenonT(60), <2>1 DEF DInv, UsedObjects, vars, tpm
  <2> QED
    BY <2>3, <2>4, <2>5, <2>6 DEF DInv
<1>5. CASE Provide(o)
  <2>1. /\ opener[o].at = "provide" /\ transient < Slots /\ transient' = transient + 1
        /\ opener' = [opener EXCEPT ![o].at = "load"]
        /\ UNCHANGED <<vars, storeVars, signing, inUse>>
    BY <1>5 DEF Provide, At
  <2>2. lock = o
    BY ZenonT(60), <2>1 DEF DInv, OpenerLocks, Locked, Places
  <2>3. DaemonTypeOK'
    BY SMTT(60), <2>1, RoomForParentAndKey DEF DInv, DaemonTypeOK, IInv, Places
  <2>4. OpenerLocks' /\ OpenerKnows'
    BY SMTT(60), <2>1 DEF DInv, OpenerLocks, OpenerKnows, DaemonTypeOK, Locked, Places, vars, tpm
  <2>5. transient = 0
    BY ZenonT(60), <2>1 DEF DInv, ParentAndKey
  <2>6. ParentAndKey'
    BY SMTT(60), <1>1, <2>1, <2>2, <2>5 DEF DInv, ParentAndKey, DaemonTypeOK, vars, Locked, Places
  <2>7. UsedObjects'
    BY ZenonT(60), <2>1 DEF DInv, UsedObjects, vars, tpm
  <2> QED
    BY <2>3, <2>4, <2>6, <2>7 DEF DInv
<1>6. CASE Load(o)
  <2>1. /\ opener[o].at = "load" /\ counter # None /\ inUse' = TRUE
        /\ opener' = [opener EXCEPT ![o].at = "open"]
        /\ UNCHANGED <<vars, storeVars, providerVars>>
    BY <1>6 DEF Load, At
  <2>2. lock = o
    BY ZenonT(60), <2>1 DEF DInv, OpenerLocks, Locked, Places
  <2>3. DaemonTypeOK'
    BY SMTT(60), <2>1 DEF DInv, DaemonTypeOK, IInv, Places
  <2>4. OpenerLocks' /\ OpenerKnows'
    BY SMTT(60), <2>1 DEF DInv, OpenerLocks, OpenerKnows, DaemonTypeOK, Locked, Places, vars, tpm
  <2>5. ParentAndKey'
    BY SMTT(60), <1>1, <2>1, <2>2 DEF DInv, ParentAndKey, DaemonTypeOK, vars, Locked, Places
  <2>6. \A a \in Admins : run[a].at \notin Creating
    BY ZenonT(60), <2>2, OthersAreOther DEF IInv, LockHeld, Creating
  <2>7. seal # None
    BY ZenonT(60), <2>1 DEF DInv, OpenerKnows
  <2>8. UsedObjects'
    BY ZenonT(60), <2>1, <2>6, <2>7 DEF DInv, UsedObjects, vars, tpm
  <2> QED
    BY <2>3, <2>4, <2>5, <2>8 DEF DInv
<1>7. ASSUME NEW c \in Credentials, Register(o, c) \/ Erase(o, c) PROVE DInv'
  <2>1. PICK k \in {0, opener[o].key} :
        /\ opener[o].at = "open"
        /\ keyOf' = [keyOf EXCEPT ![c] = k]
        /\ fileKey' \in {fileKey, opener[o].key}
        /\ UNCHANGED <<vars, opener, providerVars, inUse>>
    BY <1>7 DEF Register, Erase
  <2>2. inUse /\ opener[o].key = sealed
    BY ZenonT(60), <2>1 DEF DInv, OpenerKnows
  <2>3. DaemonTypeOK'
    BY SMTT(60), <2>1, KeyBound DEF DInv, DaemonTypeOK, IInv
  <2>4. OpenerLocks' /\ OpenerKnows'
    BY ZenonT(60), <2>1 DEF DInv, OpenerLocks, OpenerKnows, vars, tpm
  <2>5. ParentAndKey'
    BY ZenonT(60), <2>1 DEF DInv, ParentAndKey, vars
  <2>6. UsedObjects'
    BY SMTT(60), <2>1, <2>2 DEF DInv, UsedObjects, DaemonTypeOK, vars, tpm
  <2> QED
    BY <2>3, <2>4, <2>5, <2>6 DEF DInv
<1>8. ASSUME NEW c \in Credentials, LoadKey(o, c) PROVE DInv'
  <2>1. /\ opener[o].at = "open" /\ signing = None /\ transient > 0 /\ transient < Slots
        /\ transient' = transient + 1 /\ signing' = c
        /\ UNCHANGED <<vars, opener, storeVars, inUse>>
    BY <1>8 DEF LoadKey
  <2>2. lock = o
    BY ZenonT(60), <2>1 DEF DInv, OpenerLocks, Locked, Places
  <2>3. DaemonTypeOK'
    BY SMTT(60), <2>1, RoomForParentAndKey DEF DInv, DaemonTypeOK, IInv
  <2>4. OpenerLocks' /\ OpenerKnows' /\ UsedObjects'
    BY ZenonT(60), <2>1 DEF DInv, OpenerLocks, OpenerKnows, UsedObjects, vars, tpm
  <2>5. ParentAndKey'
    BY SMTT(60), <1>1, <2>1, <2>2, CredentialsAreFresh DEF DInv, ParentAndKey, DaemonTypeOK, vars, Locked, Places
  <2> QED
    BY <2>3, <2>4, <2>5 DEF DInv
<1>9. CASE Sign(o)
  <2>1. /\ opener[o].at = "open" /\ signing # None
        /\ transient' = transient - 1 /\ signing' = None
        /\ UNCHANGED <<vars, opener, storeVars, inUse>>
    BY <1>9 DEF Sign
  <2>2. lock = o
    BY ZenonT(60), <2>1 DEF DInv, OpenerLocks, Locked, Places
  <2>3. transient >= 1
    BY ZenonT(60), <2>1 DEF DInv, ParentAndKey
  <2>4. DaemonTypeOK'
    BY SMTT(60), <2>1, <2>3, RoomForParentAndKey DEF DInv, DaemonTypeOK, IInv
  <2>5. OpenerLocks' /\ OpenerKnows' /\ UsedObjects'
    BY ZenonT(60), <2>1 DEF DInv, OpenerLocks, OpenerKnows, UsedObjects, vars, tpm
  <2>6. ParentAndKey'
    BY SMTT(60), <1>1, <2>1, <2>2 DEF DInv, ParentAndKey, DaemonTypeOK, vars, Locked, Places
  <2> QED
    BY <2>4, <2>5, <2>6 DEF DInv
<1>10. CASE Exit(o)
  <2>1. /\ opener' = [opener EXCEPT ![o] = Stopped]
        /\ lock' = (IF lock = o THEN None ELSE lock)
        /\ transient' = (IF lock = o THEN 0 ELSE transient)
        /\ signing' = (IF lock = o THEN None ELSE signing)
        /\ UNCHANGED <<tpm, run, storeVars, inUse>>
    BY <1>10 DEF Exit
  <2>2. DaemonTypeOK'
    BY SMTT(60), <2>1, KeyBound, RoomForParentAndKey
       DEF DInv, DaemonTypeOK, IInv, Places, Stopped
  <2>3. OpenerLocks' /\ OpenerKnows'
    BY SMTT(60), <2>1, NoneIsFresh
       DEF DInv, OpenerLocks, OpenerKnows, DaemonTypeOK, Locked, Places, tpm, Stopped
  <2>4. ParentAndKey'
    <3>1. CASE lock = o
      BY SMTT(60), <2>1, <3>1, <1>1, NoneIsFresh
         DEF DInv, OpenerLocks, ParentAndKey, DaemonTypeOK, Stopped, Locked, Places
    <3>2. CASE lock # o
      BY SMTT(60), <2>1, <3>2
         DEF DInv, OpenerLocks, ParentAndKey, DaemonTypeOK, Stopped, Locked, Places
    <3> QED
      BY <3>1, <3>2
  <2>5. UsedObjects'
    BY ZenonT(60), <2>1 DEF DInv, UsedObjects, tpm
  <2> QED
    BY <2>2, <2>3, <2>4, <2>5 DEF DInv
<1> QED
  BY ZenonT(60), <1>2, <1>3, <1>4, <1>5, <1>6, <1>7, <1>8, <1>9, <1>10 DEF OpenerNext

\* Both invariants hold in every state of the composition.
THEOREM DaemonInductive == DaemonSpec => [](IInv /\ DInv)
<1>1. DaemonInit => IInv /\ DInv
  BY InitInductive, DaemonInitInductive DEF DaemonInit
<1>2. IInv /\ DInv /\ [DaemonNext]_allVars => DInv'
  <2> SUFFICES ASSUME IInv, DInv, [DaemonNext]_allVars PROVE DInv'
    OBVIOUS
  <2>1. IInv'
    BY StepSimulates, StepInductive
  <2>2. CASE UNCHANGED allVars
    BY ZenonT(60), <2>2 DEF allVars, daemonVars, storeVars, providerVars, vars, tpm, DInv, DaemonTypeOK, TypeOK,
       OpenerLocks, OpenerKnows, ParentAndKey, UsedObjects, files
  <2>3. CASE DaemonNext
    BY ZenonT(60), <2>1, <2>3, InvocationInductive, EnvironmentDaemonInductive, OpenerInductive
       DEF DaemonNext
  <2> QED
    BY <2>2, <2>3
<1> QED
  BY <1>1, <1>2, Inductive, ImplementsProvisioning, PTL DEF DaemonSpec

\* A daemon that has opened the store can sign with every credential in it, in
\* its first life or a later one: the database key it derives their
\* authorizations from has not been replaced, and sign() leaks no handle.
THEOREM StoredKeysUsable == DaemonSpec => []CredentialsUsable
<1>1. DInv => CredentialsUsable
  <2> SUFFICES ASSUME DInv, NEW o \in Others, opener[o].at = "open"
               PROVE  /\ fileKey \in {0, opener[o].key}
                      /\ \A c \in Credentials : keyOf[c] \in {0, opener[o].key}
                      /\ signing = None => transient < Slots
    BY ZenonT(60) DEF CredentialsUsable
  <2>1. opener[o].key = sealed
    BY ZenonT(60) DEF DInv, OpenerKnows
  <2>2. fileKey \in {0, sealed} /\ \A c \in Credentials : keyOf[c] \in {0, sealed}
    BY ZenonT(60) DEF DInv, UsedObjects
  <2>3. signing = None => transient < Slots
    BY RoomForParentAndKey DEF DInv, ParentAndKey, DaemonTypeOK
  <2> QED
    BY ZenonT(60), <2>1, <2>2, <2>3
<1> QED
  BY <1>1, DaemonInductive, PTL

\* Once provisioned or in use, the TPM objects outlive every provisioning run,
\* daemon, command, kill and power failure.
THEOREM InUseNeverReplaced == DaemonSpec => InUseKept
<1>1. IInv /\ DInv /\ [DaemonNext]_allVars =>
        [provisioned \/ inUse => UNCHANGED tpm /\ (lost' \/ installed' = installed)]_allVars
  <2> SUFFICES ASSUME IInv, DInv, [DaemonNext]_allVars, provisioned \/ inUse
               PROVE  UNCHANGED tpm /\ (lost' \/ installed' = installed)
    OBVIOUS
  <2>1. counter # None /\ seal # None /\ \A a \in Admins : run[a].at \notin Creating
    BY ZenonT(60) DEF IInv, Kept, DInv, UsedObjects
  <2>2. CASE Next
    BY <2>1, <2>2, ObjectsKept
  <2>3. CASE UNCHANGED vars
    BY <2>3 DEF vars, files
  <2> QED
    BY <2>2, <2>3, StepSimulates
<1> QED
  BY <1>1, DaemonInductive, PTL DEF DaemonSpec, InUseKept
=============================================================================
