-------------------------- MODULE CommandHandler --------------------------
(***************************************************************************)
(* The CTAP worker: execute_ctap_request and CTAPCommandHandler::handle on *)
(* its own thread, with MakeCredential, GetAssertion, GetNextAssertion and *)
(* the continuation state (AssertionSequence) they share.                  *)
(*                                                                         *)
(* The worker meets the event loop only in the stop token, which it reads  *)
(* at its cancellation points, and in `completion'.  Everything between    *)
(* two of those points is one step.  What a request asks for (options,     *)
(* lists, relying party) and what the user, the TPM and the CBOR decoder   *)
(* answer are choices of the step that reads them.                         *)
(*                                                                         *)
(* The store is the durable map that CredentialStore implements: an        *)
(* operation commits, or throws and leaves the map alone.                  *)
(***************************************************************************)
EXTENDS Storage, Sequences
LOCAL INSTANCE FiniteSetsExt

CONSTANTS
    Contexts,           \* UserContext: [uid, session] of a registered agent
    NoContext,          \* no agent is registered
    NoCid               \* originCid_ 0

ASSUME ContextsTyped ==
    /\ \A c \in Contexts : c.uid \in Owners
    /\ NoContext \notin Contexts

ASSUME FiniteStore == \A ids \in SUBSET CredentialIds : Cardinality(ids) \in Nat

VARIABLES
    stored,             \* stored_ of the store
    generation,         \* generation_ of the store
    requiresReload,     \* requiresReload_ of the store
    context,            \* the context of the agent registered now
    sequence,           \* getAssertion_.sequence
    task,               \* the request the worker executes
    stop,               \* the worker's stop token
    pc,                 \* where the worker is
    user,               \* user_context of the operation
    chosen,             \* the credentials the operation works on, copied
    result,             \* the packet the operation returns
    completion          \* what the worker hands to the event loop

store == <<stored, generation, requiresReload>>
worker == <<task, pc, user, chosen, result>>
handlerVars == <<store, context, sequence, worker, stop, completion>>

(* Command bytes: MakeCredential 0x01, GetAssertion 0x02, GetInfo 0x04,    *)
(* GetNextAssertion 0x08; 0x03 stands for every other one.                 *)
MakeCredential == 1
GetAssertion == 2
GetInfo == 4
GetNextAssertion == 8
CommandBytes == {1, 2, 3, 4, 8}

NoTask == [generation |-> 0, cid |-> NoCid, command |-> 3, size |-> 0]
NoSequence == [origin |-> NoCid, owner |-> NoContext, remaining |-> <<>>]
NoCompletion == [generation |-> 0]

(* A packet: an error, or the success of a command.  An assertion carries  *)
(* its credential, counter and the user context it was made for.           *)
Error(code) == [ok |-> FALSE, code |-> code]
Success(what) == [ok |-> TRUE, what |-> what]
Assertion(copy, count, c) ==
    [ok |-> TRUE, what |-> "assertion", id |-> copy.id, count |-> count, for |-> c]

NoResult == Error("none")

Idle ==
    /\ task = NoTask /\ pc = "idle" /\ user = NoContext
    /\ chosen = <<>> /\ result = NoResult

-----------------------------------------------------------------------------
(* CredentialStore::find_for_assertion.  An allow list yields matches in   *)
(* its own order, of which only the first is ever used; without one, the   *)
(* discoverable credentials, newest first.                                 *)

Copies == [id : CredentialIds, signCount : 0 .. MaxSignCount]
Copy(id) == [id |-> id, signCount |-> stored[id].signCount]

Matching(rp, owner) ==
    {id \in Contained(stored) : stored[id].ownerUid = owner /\ stored[id].rpId = rp}

(* The one order of the IDs, since creation orders are distinct.           *)
NewestFirst(ids) ==
    {s \in [1 .. Cardinality(ids) -> ids] :
        \A i, j \in 1 .. Cardinality(ids) :
            i < j => stored[s[i]].creationOrder > stored[s[j]].creationOrder}

Discoverable(rp, owner) ==
    LET ids == {id \in Matching(rp, owner) : stored[id].discoverable}
    IN  {[i \in 1 .. Cardinality(ids) |-> Copy(s[i])] : s \in NewestFirst(ids)}

FindForAssertion(rp, owner) ==
    {<<>>} \cup Discoverable(rp, owner) \cup {<<Copy(id)>> : id \in Matching(rp, owner)}

(* AssertionSequence::begin and ::next.  `elapsed': more than 30 seconds   *)
(* since the last use.                                                     *)
SequenceBegin(cid, c, copies) == [origin |-> cid, owner |-> c, remaining |-> copies]

MutSequenceAllows(s, cid, c, elapsed) == s.origin = cid /\ ~elapsed

SequenceAllows(s, cid, c, elapsed) == s.origin = cid /\ s.owner = c /\ ~elapsed

SequenceAfter(s) ==
    IF Len(s.remaining) = 1 THEN NoSequence
    ELSE [s EXCEPT !.remaining = Tail(@)]

-----------------------------------------------------------------------------
(* The worker returns a packet or an exception that becomes one.           *)

Return(r) ==
    /\ result' = r
    /\ pc' = "publish"

(* An operation on the assertion sequence that fails clears it; every      *)
(* other operation cleared it when it began.                               *)
Fail(code) ==
    /\ Return(Error(code))
    /\ sequence' = NoSequence
    /\ UNCHANGED <<store, context, task, user, chosen, stop, completion>>

(* cancellation_point throws OperationCancelled.                           *)
Cancelled == Fail("KEEPALIVE_CANCEL")

Proceed(step) ==
    /\ pc' = step
    /\ UNCHANGED <<store, context, task, stop, result, completion>>

(* handle() up to current_context: the replaced sequence is cleared, and   *)
(* requests that need no user are answered.                                *)
Begin ==
    /\ pc = "begin"
    /\ \/ stop /\ Cancelled
       \/ /\ ~stop
          /\ CASE task.command = GetInfo ->
                    /\ sequence' = NoSequence
                    /\ Return(IF task.size = 1 THEN Success("info")
                                               ELSE Error("INVALID_COMMAND"))
                    /\ UNCHANGED <<store, context, task, user, chosen, stop, completion>>
               [] task.command \in {MakeCredential, GetAssertion} ->
                    \/ Fail("INVALID_CBOR")
                    \/ /\ task.size > 1
                       /\ sequence' = NoSequence
                       /\ Proceed("context")
                       /\ UNCHANGED <<user, chosen>>
               [] task.command = GetNextAssertion ->
                    IF sequence.origin # task.cid
                    THEN /\ Return(Error("NOT_ALLOWED"))
                         /\ UNCHANGED <<store, context, sequence, task, user,
                                        chosen, stop, completion>>
                    ELSE IF task.size # 1 THEN Fail("INVALID_COMMAND")
                    ELSE Proceed("context") /\ UNCHANGED <<sequence, user, chosen>>
               [] OTHER -> Fail("INVALID_COMMAND")

(* build_response up to the user interaction.                              *)
Look ==
    CASE task.command = MakeCredential ->
            \* a credential of the exclude list is found, or none is
            \/ /\ ~requiresReload
               /\ \E rp \in RpIds : Matching(rp, context.uid) # {}
               /\ Proceed("exclude")
               /\ UNCHANGED <<sequence, chosen>>
            \/ Proceed("interact") /\ UNCHANGED <<sequence, chosen>>
      [] task.command = GetAssertion ->
            \E rp \in RpIds :
                /\ ~requiresReload
                /\ chosen' \in FindForAssertion(rp, context.uid)
                /\ Proceed("interact") \/ Proceed("commit")
                /\ UNCHANGED sequence
      [] OTHER ->
            /\ sequence' = SequenceAfter(sequence)
            /\ chosen' = <<Head(sequence.remaining)>>
            /\ Proceed("commit")

Context ==
    /\ pc = "context"
    /\ \/ stop /\ Cancelled
       \/ ~stop /\ context = NoContext /\ Fail("OTHER")
       \/ /\ ~stop
          /\ context # NoContext
          /\ IF task.command = GetNextAssertion
             THEN \E elapsed \in BOOLEAN :
                    IF SequenceAllows(sequence, task.cid, context, elapsed)
                    THEN Look /\ user' = context
                    ELSE Fail("NOT_ALLOWED")
             ELSE \/ Look /\ user' = context
                  \/ requiresReload /\ Fail("OTHER")
                  \/ Fail("INVALID_REQUEST")

(* request_presence or request_verification, and the cancellation point    *)
(* after it.  Approval needs the context to be still the current one.      *)
Interact ==
    /\ pc \in {"exclude", "interact"}
    /\ \/ Fail("DENIED")            \* denied, cancelled or timed out
       \/ Fail("OTHER")             \* no agent, or the infrastructure failed
       \/ stop /\ Cancelled
       \/ /\ ~stop
          /\ context = user
          /\ IF pc = "exclude" THEN Fail("CREDENTIAL_EXCLUDED")
             ELSE Proceed("commit") /\ UNCHANGED <<sequence, user, chosen>>

-----------------------------------------------------------------------------
(* Signing and the store operation, after the last cancellation point.     *)

(* save_storage throws; an unconfirmed commit closes the store.            *)
StoreFails ==
    /\ Return(Error("OTHER"))
    /\ sequence' = NoSequence
    /\ requiresReload' \in {requiresReload, TRUE}
    /\ UNCHANGED <<stored, generation, context, task, user, chosen, stop, completion>>

Commit(t) ==
    /\ ~requiresReload
    /\ generation < MaxGeneration
    /\ stored' = t
    /\ generation' = generation + 1
    /\ UNCHANGED <<requiresReload, context, task, user, chosen, stop, completion>>

CreateCredential ==
    \/ \E id \in CredentialIds, rp \in RpIds, u \in UserIds, discoverable \in BOOLEAN :
        LET cred == NewCredential(user.uid, rp, u, discoverable, generation + 1)
        IN  /\ CanPut(stored, id, cred)
            /\ Commit(AfterPut(stored, id, cred))
            /\ Return(Success("credential"))
            /\ UNCHANGED sequence
    \/ \* the relying party is a dummy: nothing is stored
       /\ Return(Success("credential"))
       /\ UNCHANGED <<store, context, sequence, task, user, chosen, stop, completion>>

MutNextCount(copy) == copy.signCount

(* generate_single_credential_payload signs the copied counter plus one,   *)
(* modulo its width, and then increments the stored one.                   *)
NextCount(copy) == (copy.signCount + 1) % (MaxSignCount + 1)

(* Only GetAssertion without an allow list finds more than one credential. *)
StartSequence(copies) ==
    sequence' = IF task.command = GetAssertion /\ Len(copies) > 1
                THEN SequenceBegin(task.cid, user, Tail(copies))
                ELSE sequence

SignAssertion ==
    LET copy == Head(chosen)
    IN  /\ OwnedBy(stored, copy.id, user.uid)
        /\ CanIncrementSigCount(stored, copy.id)
        /\ Commit(AfterIncrement(stored, copy.id))
        /\ Return(Assertion(copy, NextCount(copy), user))
        /\ StartSequence(chosen)

Finish ==
    /\ pc = "commit"
    /\ IF task.command # MakeCredential /\ chosen = <<>> THEN Fail("NO_CREDENTIALS")
       ELSE \/ stop /\ Cancelled
            \/ ~stop /\ StoreFails
            \/ ~stop /\ task.command = MakeCredential /\ CreateCredential
            \/ ~stop /\ task.command # MakeCredential /\ SignAssertion

MutPublish ==
    /\ pc = "publish"
    /\ ~stop
    /\ completion' = [generation |-> task.generation, cid |-> task.cid, packet |-> result]
    /\ pc' = "done"
    /\ UNCHANGED <<store, context, sequence, task, user, chosen, stop, result>>

(* The thread's last step, under completion_mutex.                         *)
Publish ==
    /\ pc = "publish"
    /\ completion' = [generation |-> task.generation, cid |-> task.cid, packet |-> result]
    /\ pc' = "done"
    /\ UNCHANGED <<store, context, sequence, task, user, chosen, stop, result>>

WorkerStep == Begin \/ Context \/ Interact \/ Finish \/ Publish

(* Agents come and go (AgentRegistry), at any time.                        *)
ContextChanges ==
    /\ context' \in (Contexts \cup {NoContext}) \ {context}
    /\ UNCHANGED <<store, sequence, worker, stop, completion>>

-----------------------------------------------------------------------------
WellFormed(s, g) ==
    /\ \A i \in Contained(s) : s[i].creationOrder <= g
    /\ \A i, j \in Contained(s) :
        i # j => /\ s[i].creationOrder # s[j].creationOrder
                 /\ ~SameAccount(s[i], s[j])

(* The daemon starts with a store that was loaded, made by one commit for  *)
(* each credential and each signature.                                     *)
HandlerInit ==
    /\ generation = Cardinality(Contained(stored))
                     + MapThenSumSet(LAMBDA id : stored[id].signCount, Contained(stored))
    /\ generation \in 0 .. MaxGeneration
    /\ WellFormed(stored, generation)
    /\ requiresReload = FALSE
    /\ context \in Contexts \cup {NoContext}
    /\ sequence = NoSequence
    /\ Idle
    /\ stop = FALSE
    /\ completion = NoCompletion
=============================================================================
