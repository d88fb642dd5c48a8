------------------------- MODULE AgentServiceProofs -------------------------
(***************************************************************************)
(* The ceremony and the D-Bus thread for any agents, requests and prompts. *)
(*                                                                         *)
(* The worker owns the pending interaction from begin() to                 *)
(* ~InteractionScope, but the D-Bus thread may drop it or answer it at any *)
(* moment in between.  What the worker relies on is kept in two forms:     *)
(* what the registry itself guarantees of a pending interaction, and what  *)
(* its state may be where the worker stands, as long as the worker's agent *)
(* is registered.  A registration that was dropped never returns, because  *)
(* generations only grow.  The worker's steps come first, then those of    *)
(* the D-Bus thread, then what follows from the invariant.                 *)
(***************************************************************************)
EXTENDS AgentServiceInvariants, TLAPS

\* A leaf that names no prover is for Zenon.
USE ZenonT(60)

-----------------------------------------------------------------------------
(* The registry's operations, field by field.                              *)

\* begin() opens the interaction with the next request ID.
LEMMA BeginFields ==
    ASSUME RegistryTypeOK, NEW u \in Users, nextRequestId <= MaxInteractions, Begin(u)
    PROVE  /\ RegistryTypeOK'
           /\ current'.requestId = nextRequestId /\ current'.user = u /\ current'.state = "none"
           /\ current'.presenceResponse = "none" /\ ~current'.cancelRequested
           /\ ~current'.responseClosed /\ current'.promptId = 0 /\ ~current'.secretSubmitted
<1>1. current' = [requestId |-> nextRequestId, user |-> u, state |-> "none",
                  presenceResponse |-> "none", cancelRequested |-> FALSE,
                  responseClosed |-> FALSE, promptId |-> 0, secretSubmitted |-> FALSE]
  BY DEF Begin, NoInteraction
<1>2. current' \in PendingInteraction
  BY SMTT(60), <1>1, RegistryBounds DEF RegistryTypeOK, PendingInteraction
<1>3. /\ secretResponse' = NoSecret /\ nextPromptId' = nextPromptId
      /\ nextRequestId' = nextRequestId + 1
  BY DEF Begin
<1>4. nextRequestId' \in 1 .. MaxInteractions + 1
  BY SMTT(60), <1>3, RegistryBounds DEF RegistryTypeOK
<1> QED
  BY <1>1, <1>2, <1>3, <1>4 DEF RegistryTypeOK

\* A dropped interaction has the initial fields.
LEMMA NoInteractionFields ==
    /\ NoInteraction \in PendingInteraction /\ NoInteraction.requestId = 0
    /\ NoInteraction.user = NoUser /\ NoInteraction.state = "none"
    /\ NoInteraction.presenceResponse = "none" /\ ~NoInteraction.cancelRequested
    /\ ~NoInteraction.responseClosed /\ NoInteraction.promptId = 0
    /\ ~NoInteraction.secretSubmitted
BY SMTT(60), RegistryBounds DEF NoInteraction, PendingInteraction

\* end() and clear_for() drop the interaction and its secret, or nothing.
LEMMA DropTypes ==
    ASSUME RegistryTypeOK, NEW mine \in BOOLEAN, Drop(mine)
    PROVE  RegistryTypeOK'
BY NoInteractionFields DEF Drop, RegistryTypeOK

\* A terminal state drops the interaction; another one is recorded in it.
LEMMA TransitionFields ==
    ASSUME RegistryTypeOK, NEW s \in States \ Terminal, Transition(s),
           s = "secret_required" => nextPromptId <= MaxPrompts
    PROVE  /\ RegistryTypeOK'
           /\ current'.requestId = current.requestId /\ current'.user = current.user
           /\ current'.state = s
           /\ current'.presenceResponse = current.presenceResponse
           /\ current'.cancelRequested = current.cancelRequested
           /\ current'.responseClosed = current.responseClosed
           /\ IF s = "secret_required"
              THEN /\ current'.promptId = nextPromptId /\ ~current'.secretSubmitted
                   /\ secretResponse' = NoSecret /\ nextPromptId' = nextPromptId + 1
              ELSE /\ current'.promptId = 0
                   /\ current'.secretSubmitted = current.secretSubmitted
                   /\ UNCHANGED <<secretResponse, nextPromptId>>
           /\ nextRequestId' = nextRequestId
<1>1. CASE s = "secret_required"
  <2>1. current' = [requestId |-> current.requestId, user |-> current.user, state |-> s,
                    presenceResponse |-> current.presenceResponse,
                    cancelRequested |-> current.cancelRequested,
                    responseClosed |-> current.responseClosed,
                    promptId |-> nextPromptId, secretSubmitted |-> FALSE]
    BY <1>1 DEF Transition, RegistryTypeOK, PendingInteraction
  <2>2. current' \in PendingInteraction
    BY SMTT(60), <1>1, <2>1, RegistryBounds DEF RegistryTypeOK, PendingInteraction
  <2>3. /\ secretResponse' = NoSecret /\ nextPromptId' = nextPromptId + 1
        /\ nextRequestId' = nextRequestId
    BY <1>1 DEF Transition
  <2>4. nextPromptId' \in 1 .. MaxPrompts + 1
    BY SMTT(60), <1>1, <2>3, RegistryBounds DEF RegistryTypeOK
  <2> QED
    BY <1>1, <2>1, <2>2, <2>3, <2>4 DEF RegistryTypeOK
<1>2. CASE s # "secret_required"
  <2>1. current' = [requestId |-> current.requestId, user |-> current.user, state |-> s,
                    presenceResponse |-> current.presenceResponse,
                    cancelRequested |-> current.cancelRequested,
                    responseClosed |-> current.responseClosed,
                    promptId |-> 0, secretSubmitted |-> current.secretSubmitted]
    BY <1>2 DEF Transition, RegistryTypeOK, PendingInteraction
  <2>2. current' \in PendingInteraction
    BY SMTT(60), <2>1, RegistryBounds DEF RegistryTypeOK, PendingInteraction
  <2>3. UNCHANGED <<secretResponse, nextRequestId, nextPromptId>>
    BY <1>2 DEF Transition
  <2> QED
    BY <1>2, <2>1, <2>2, <2>3 DEF RegistryTypeOK
<1> QED
  BY <1>1, <1>2

\* The fields that no answer of the agent and no wait changes.
SameInteraction ==
    /\ current'.requestId = current.requestId /\ current'.user = current.user
    /\ current'.state = current.state /\ current'.promptId = current.promptId
    /\ UNCHANGED <<nextRequestId, nextPromptId>>

\* respond_to_presence().
LEMMA RespondFields ==
    ASSUME RegistryTypeOK, NEW response \in {"approved", "denied"}, RespondToPresence(response)
    PROVE  /\ RegistryTypeOK' /\ SameInteraction /\ secretResponse' = secretResponse
           /\ current'.presenceResponse = response /\ current'.responseClosed
           /\ current'.cancelRequested = current.cancelRequested
           /\ current'.secretSubmitted = current.secretSubmitted
<1>1. current' = [requestId |-> current.requestId, user |-> current.user,
                  state |-> current.state, presenceResponse |-> response,
                  cancelRequested |-> current.cancelRequested, responseClosed |-> TRUE,
                  promptId |-> current.promptId, secretSubmitted |-> current.secretSubmitted]
  BY DEF RespondToPresence, RegistryTypeOK, PendingInteraction
<1>2. current' \in PendingInteraction
  BY <1>1 DEF RegistryTypeOK, PendingInteraction
<1>3. UNCHANGED <<secretResponse, nextRequestId, nextPromptId>>
  BY DEF RespondToPresence
<1> QED
  BY <1>1, <1>2, <1>3 DEF RegistryTypeOK, SameInteraction

\* submit_secret().
LEMMA SubmitFields ==
    ASSUME RegistryTypeOK, NEW r \in Requests, NEW p \in 1 .. MaxPrompts, SubmitSecret(r, p)
    PROVE  /\ RegistryTypeOK' /\ SameInteraction
           /\ secretResponse'.requestId = r /\ secretResponse'.promptId = p
           /\ current'.presenceResponse = current.presenceResponse
           /\ current'.responseClosed = current.responseClosed
           /\ current'.cancelRequested = current.cancelRequested
           /\ current'.secretSubmitted
<1>1. current' = [requestId |-> current.requestId, user |-> current.user,
                  state |-> current.state, presenceResponse |-> current.presenceResponse,
                  cancelRequested |-> current.cancelRequested,
                  responseClosed |-> current.responseClosed,
                  promptId |-> current.promptId, secretSubmitted |-> TRUE]
  BY DEF SubmitSecret, RegistryTypeOK, PendingInteraction
<1>2. current' \in PendingInteraction
  BY <1>1 DEF RegistryTypeOK, PendingInteraction
<1>3. /\ secretResponse' = [requestId |-> r, promptId |-> p]
      /\ UNCHANGED <<nextRequestId, nextPromptId>>
  BY DEF SubmitSecret
<1> QED
  BY <1>1, <1>2, <1>3 DEF RegistryTypeOK, SameInteraction, Secrets, Requests

\* request_cancel().
LEMMA CancelFields ==
    ASSUME RegistryTypeOK, RequestCancel
    PROVE  /\ RegistryTypeOK' /\ SameInteraction /\ secretResponse' = secretResponse
           /\ current'.presenceResponse = current.presenceResponse
           /\ current'.responseClosed /\ current'.cancelRequested
           /\ current'.secretSubmitted = current.secretSubmitted
<1>1. current' = [requestId |-> current.requestId, user |-> current.user,
                  state |-> current.state, presenceResponse |-> current.presenceResponse,
                  cancelRequested |-> TRUE, responseClosed |-> TRUE,
                  promptId |-> current.promptId, secretSubmitted |-> current.secretSubmitted]
  BY DEF RequestCancel, RegistryTypeOK, PendingInteraction
<1>2. current' \in PendingInteraction
  BY <1>1 DEF RegistryTypeOK, PendingInteraction
<1>3. UNCHANGED <<secretResponse, nextRequestId, nextPromptId>>
  BY DEF RequestCancel
<1> QED
  BY <1>1, <1>2, <1>3 DEF RegistryTypeOK, SameInteraction

\* The return of a wait closes the response or takes the secret.
LEMMA WaitFields ==
    ASSUME RegistryTypeOK, NEW status, AfterWait(status)
    PROVE  /\ RegistryTypeOK' /\ SameInteraction
           /\ secretResponse' = IF status = "provided" THEN NoSecret ELSE secretResponse
           /\ current'.presenceResponse = current.presenceResponse
           /\ current'.cancelRequested = current.cancelRequested
           /\ current.responseClosed => current'.responseClosed
           /\ current'.secretSubmitted = current.secretSubmitted
<1>1. CASE current' = current
  BY <1>1 DEF AfterWait, RegistryTypeOK, SameInteraction
<1>2. CASE current' = [current EXCEPT !.responseClosed = TRUE]
  <2>1. current' = [requestId |-> current.requestId, user |-> current.user,
                    state |-> current.state, presenceResponse |-> current.presenceResponse,
                    cancelRequested |-> current.cancelRequested, responseClosed |-> TRUE,
                    promptId |-> current.promptId,
                    secretSubmitted |-> current.secretSubmitted]
    BY <1>2 DEF RegistryTypeOK, PendingInteraction
  <2>2. current' \in PendingInteraction
    BY <2>1 DEF RegistryTypeOK, PendingInteraction
  <2> QED
    BY <2>1, <2>2 DEF AfterWait, RegistryTypeOK, SameInteraction
<1> QED
  BY <1>1, <1>2 DEF AfterWait

\* NoUser is no registration.
LEMMA NoUserIsNobody == NoUser \notin Users
BY SMTT(60), RegistryBounds DEF NoUser, Users

-----------------------------------------------------------------------------
(* What most steps of the worker do.                                       *)

USE DEF IInv, Starting, Checking, Verifying, Publishing, Holding, registryVars, agentVars,
        environment, threadVars, ceremony, history

\* What a wait that gives up may do to the pending interaction.
Kept ==
    /\ SameInteraction /\ secretResponse' = secretResponse
    /\ current'.presenceResponse = current.presenceResponse
    /\ current'.cancelRequested = current.cancelRequested
    /\ current.responseClosed => current'.responseClosed
    /\ current'.secretSubmitted = current.secretSubmitted
    /\ current.requestId = 0 => current' = current

\* A step that leaves the registry alone keeps the pending interaction.
LEMMA KeptUnchanged == ASSUME UNCHANGED registryVars PROVE Kept
BY DEF Kept, SameInteraction

\* The types, when nothing else changes.
LEMMA TypesKept ==
    ASSUME IInv, registered' \in Users \cup {NoUser}, user' \in Users \cup {NoUser},
           seen' \in Users \cup {NoUser}, outcome' \in Outcomes,
           UNCHANGED <<registryVars, nextGeneration, environment, failed, dbus, events, shown,
                       request, kind>>
    PROVE  TypeOK' /\ DBusTypes' /\ EventTypes'
BY DEF TypeOK, RegistryTypeOK, DBusTypes, EventTypes

\* Before begin() nothing is pending.
LEMMA StartsAfresh ==
    ASSUME IInv, TypeOK', DBusTypes', EventTypes', pc \in Starting \cup {"idle"}, pc' \in Starting,
           UNCHANGED <<registryVars, agentVars, consent, cancels, outcome>>,
           nextRequestId <= MaxInteractions, user'.generation < nextGeneration,
           pc' \in {"begin", "begin_registry"} => user' \in Users
    PROVE  IInv'
<1>1. current.requestId = 0
  BY DEF Owned
<1>2. Issued' /\ Owned' /\ Answers' /\ SecretPending'
  BY <1>1 DEF Issued, Owned, Answers, SecretPending
<1>3. Plan' /\ Stage' /\ SecretTaken' /\ NeverInvalidTransition'
  BY <1>1 DEF Plan, Stage, SecretTaken, NeverInvalidTransition
<1>4. Granted'
  BY DEF Granted
<1> QED
  BY <1>2, <1>3, <1>4

\* The ceremony ends without an approval.
LEMMA EndsUnapproved ==
    ASSUME IInv, TypeOK', DBusTypes', EventTypes', pc' = "end",
           outcome' \in Outcomes \ {"approved", "logic_error"}, registered' \in {registered, NoUser},
           UNCHANGED <<registryVars, nextGeneration, consent, cancels, user, request>>
    PROVE  IInv'
<1>1. Issued'
  BY SMTT(60) DEF Issued, TypeOK, NoUser
<1>2. Owned' /\ Answers' /\ SecretPending'
  BY DEF Owned, Answers, SecretPending
<1>3. Plan' /\ Stage' /\ SecretTaken' /\ Granted' /\ NeverInvalidTransition'
  BY DEF Plan, Stage, Opening, SecretTaken, Granted, NeverInvalidTransition
<1> QED
  BY <1>1, <1>2, <1>3

\* The worker reports that it does not approve.
LEMMA Refuses ==
    ASSUME IInv, TypeOK', DBusTypes', EventTypes', Kept,
           pc \in Verifying \cup {"wait", "check", "check_unregister"},
           pc' = "publish", publishing'.then = "end",
           publishing'.state \in {"cancelled", "timed_out",
               IF kind = "presence" THEN "presence_denied" ELSE "verification_failed"},
           outcome' \in Outcomes \ {"approved", "logic_error"}, registered' \in {registered, NoUser},
           UNCHANGED <<nextGeneration, user, request, kind, consent, cancels>>
    PROVE  IInv'
<1>1. Issued'
  BY SMTT(60) DEF Issued, TypeOK, NoUser, Kept, SameInteraction
<1>2. Owned'
  BY DEF Owned, Kept, SameInteraction
<1>3. Answers' /\ SecretPending'
  BY DEF Answers, SecretPending, Kept, SameInteraction
<1>4. Plan'
  BY DEF Plan, TypeOK
<1>5. Stage'
  BY NoUserIsNobody DEF Stage, Opening, Owned, Kept, SameInteraction
<1>6. SecretTaken' /\ NeverInvalidTransition'
  BY DEF SecretTaken, Progress, NeverInvalidTransition
<1>7. Granted'
  BY DEF Granted
<1> QED
  BY <1>1, <1>2, <1>3, <1>4, <1>5, <1>6, <1>7

\* The verification goes on, or a decision is about to be checked: one that
\* the user made.
LEMMA Continues ==
    ASSUME IInv, TypeOK', DBusTypes', EventTypes',
           UNCHANGED <<registryVars, agentVars, consent, cancels, user, request, kind, outcome>>,
           \/ pc \in {"verify", "receive"} /\ pc' \in {"verify", "receive"}
           \/ pc = "check" /\ pc' = "check_clear"
           \/ pc = "receive" /\ pc' = "check" /\ request \in successes'
           \/ /\ pc = "wait" /\ pc' = "check"
              /\ current.requestId # 0 /\ current.presenceResponse = "approved"
              /\ ~current.cancelRequested
    PROVE  IInv'
<1>1. Issued' /\ SecretPending' /\ NeverInvalidTransition'
  BY DEF Issued, SecretPending, NeverInvalidTransition
<1>2. Owned' /\ Answers'
  BY DEF Owned, Answers
<1>3. Plan' /\ SecretTaken'
  BY DEF Plan, SecretTaken
<1>4. Stage'
  BY DEF Stage, Opening
<1>5. Granted'
  BY DEF Granted, Answers, Owned, Plan
<1> QED
  BY <1>1, <1>2, <1>3, <1>4, <1>5

-----------------------------------------------------------------------------
(* The steps of the worker that leave the interaction registry alone.      *)

\* A command needs the user.
LEMMA StartCeremonyInductive == ASSUME IInv, StartCeremony PROVE IInv'
<1>1. TypeOK' /\ NoUser.generation < nextGeneration
  BY SMTT(60), RegistryBounds DEF StartCeremony, TypeOK, RegistryTypeOK, NoUser
<1>2. DBusTypes' /\ EventTypes'
  BY DEF StartCeremony, DBusTypes, EventTypes
<1> QED
  BY <1>1, <1>2, StartsAfresh DEF StartCeremony

\* current_context() before begin().
LEMMA StartInductive == ASSUME IInv, Start PROVE IInv'
<1>1. /\ pc = "start"
      /\ UNCHANGED <<registryVars, agentVars, environment, failed, dbus, events, shown, request,
                     kind, consent, cancels>>
  BY DEF Start
<1>2. /\ seen' \in {seen, registered}
      /\ \/ pc' = "end" /\ outcome' = "error" /\ user' = user
         \/ pc' = "start_clear" /\ outcome' = outcome /\ user' = user
         \/ pc' = "begin" /\ outcome' = outcome /\ registered # NoUser /\ user' = registered
  BY <1>1 DEF Start, CurrentContext, Goto, Finish
<1>3. TypeOK' /\ DBusTypes' /\ EventTypes'
  BY <1>1, <1>2, TypesKept DEF TypeOK, Outcomes
<1>4. /\ nextRequestId <= MaxInteractions
      /\ user.generation < nextGeneration /\ registered.generation < nextGeneration
  BY <1>1 DEF Issued
<1>5. pc' = "begin" => user' \in Users
  BY <1>2 DEF TypeOK
<1> QED
  BY <1>1, <1>2, <1>3, <1>4, <1>5, StartsAfresh, EndsUnapproved DEF Outcomes

\* is_current before begin().
LEMMA BeginInteractionInductive == ASSUME IInv, BeginInteraction PROVE IInv'
<1>1. /\ pc = "begin"
      /\ UNCHANGED <<registryVars, agentVars, environment, failed, dbus, events, shown, request,
                     kind, consent, cancels, user, seen>>
  BY DEF BeginInteraction, WorkerOnly
<1>2. \/ pc' = "begin_registry" /\ outcome' = outcome
      \/ pc' = "end" /\ outcome' = "error"
  BY DEF BeginInteraction, Goto, Finish
<1>3. TypeOK' /\ DBusTypes' /\ EventTypes'
  BY <1>1, <1>2, TypesKept DEF TypeOK, Outcomes
<1>4. user \in Users /\ nextRequestId <= MaxInteractions /\ user.generation < nextGeneration
  BY <1>1 DEF Owned, Issued
<1> QED
  BY <1>1, <1>2, <1>3, <1>4, StartsAfresh, EndsUnapproved DEF Outcomes

\* context_is_still_current: the decision stands, or is rejected.
LEMMA CheckInductive == ASSUME IInv, Check PROVE IInv'
<1>1. /\ pc = "check"
      /\ UNCHANGED <<registryVars, agentVars, environment, failed, dbus, events, shown, request,
                     kind, consent, cancels, successes, user>>
  BY DEF Check, CurrentContext
<1>2. /\ seen' \in {seen, registered}
      /\ \/ pc' = "end" /\ outcome' = "error"
         \/ pc' = "check_clear" /\ outcome' = outcome
         \/ Confirm
         \/ Reject
  BY <1>1 DEF Check, CurrentContext, Goto, Finish
<1>3. outcome' \in Outcomes
  BY <1>2 DEF Confirm, Reject, Publish, TypeOK, Outcomes
<1>4. TypeOK' /\ DBusTypes' /\ EventTypes'
  BY <1>1, <1>2, <1>3, TypesKept DEF TypeOK
<1>5. CASE Confirm
  <2>1. /\ pc' = "publish" /\ publishing'.then = "end" /\ outcome' = "approved"
        /\ publishing'.state = IF kind = "presence" THEN "presence_approved"
                                                    ELSE "verification_succeeded"
    BY SMTT(60), <1>5 DEF Confirm, Publish
  <2>2. Issued' /\ Owned' /\ Answers' /\ SecretPending'
    BY <1>1, <2>1 DEF Issued, Owned, Answers, SecretPending
  <2>3. Plan' /\ SecretTaken' /\ NeverInvalidTransition'
    BY <1>1, <2>1 DEF Plan, SecretTaken, Progress, NeverInvalidTransition, TypeOK
  <2>4. Stage'
    BY <1>1, <2>1 DEF Stage, Opening
  <2>5. Granted'
    BY <1>1, <2>1 DEF Granted
  <2> QED
    BY <1>4, <2>2, <2>3, <2>4, <2>5
<1>6. CASE Reject
  <2>1. /\ pc' = "publish" /\ publishing'.then = "end" /\ outcome' \in {"denied", "error"}
        /\ publishing'.state = IF kind = "presence" THEN "presence_denied"
                                                    ELSE "verification_failed"
    BY SMTT(60), <1>6 DEF Reject, Publish
  <2> QED
    BY <1>1, <1>4, <2>1, Refuses, KeptUnchanged DEF Outcomes
<1>7. CASE pc' = "check_clear" /\ outcome' = outcome
  BY <1>1, <1>4, <1>7, Continues
<1>8. CASE pc' = "end" /\ outcome' = "error"
  BY <1>1, <1>4, <1>8, EndsUnapproved DEF Outcomes
<1> QED
  BY <1>2, <1>5, <1>6, <1>7, <1>8

\* The worker drops the registration it found inactive.
LEMMA DiscardUnregisterInductive == ASSUME IInv, DiscardUnregister PROVE IInv'
<1>1. /\ registered' \in {registered, NoUser} /\ seen' = NoUser
      /\ UNCHANGED <<registryVars, nextGeneration, environment, failed, dbus, events, shown,
                     request, kind, consent, cancels, user>>
  BY DEF DiscardUnregister, Unregistered
<1>2. \/ pc' = "end" /\ outcome' = "error"
      \/ pc = "check_unregister" /\ Reject
  BY DEF DiscardUnregister, Finish
<1>3. outcome' \in Outcomes
  BY <1>2 DEF Reject, Publish, Outcomes
<1>4. TypeOK' /\ DBusTypes' /\ EventTypes'
  BY <1>1, <1>3, TypesKept DEF TypeOK
<1>5. CASE pc' = "end" /\ outcome' = "error"
  BY <1>1, <1>4, <1>5, EndsUnapproved DEF Outcomes
<1>6. CASE pc = "check_unregister" /\ Reject
  <2>1. /\ pc' = "publish" /\ publishing'.then = "end" /\ outcome' \in {"denied", "error"}
        /\ publishing'.state = IF kind = "presence" THEN "presence_denied"
                                                    ELSE "verification_failed"
    BY SMTT(60), <1>6 DEF Reject, Publish
  <2> QED
    BY <1>1, <1>4, <1>6, <2>1, Refuses, KeptUnchanged DEF Outcomes
<1> QED
  BY <1>2, <1>5, <1>6

\* The turn of run_verifier_service up to the poll.
LEMMA VerifyInductive == ASSUME IInv, Verify PROVE IInv'
<1>1. /\ pc = "verify"
      /\ UNCHANGED <<registryVars, agentVars, environment, failed, dbus, events, shown, request,
                     kind, consent, cancels, user, seen>>
  BY DEF Verify, WorkerOnly
<1>2. \/ pc' = "receive" /\ outcome' = outcome
      \/ /\ pc' = "publish" /\ publishing'.then = "end"
         /\ publishing'.state \in {"cancelled", "timed_out"}
         /\ outcome' \in {"operation_cancelled", "cancelled", "timed_out"}
  BY SMTT(60) DEF Verify, Publish, Goto
<1>3. TypeOK' /\ DBusTypes' /\ EventTypes'
  BY <1>1, <1>2, TypesKept DEF TypeOK, Outcomes
<1> QED
  BY <1>1, <1>2, <1>3, Continues, Refuses, KeptUnchanged DEF Outcomes

\* The poll: a success of PAM is recorded before it is checked.
LEMMA ReceiveInductive == ASSUME IInv, Receive PROVE IInv'
<1>1. /\ pc = "receive" /\ kind = "verification"
      /\ UNCHANGED <<registryVars, agentVars, environment, failed, dbus, events, shown, request,
                     kind, consent, cancels, user, seen>>
  BY DEF Receive, Plan
<1>2. \/ pc' = "verify" /\ outcome' = outcome
      \/ pc' = "check" /\ outcome' = outcome /\ request \in successes'
      \/ /\ pc' = "publish" /\ publishing'.then = "end"
         /\ publishing'.state \in {"verification_failed", "timed_out"}
         /\ outcome' \in {"error", "timed_out", "denied"}
      \/ /\ pc' = "publish" /\ outcome' = "none"
         /\ publishing' = [state |-> "verification_information", then |-> "verify"]
      \/ /\ pc' = "publish" /\ outcome' = "none" /\ nextPromptId <= MaxPrompts
         /\ publishing' = [state |-> "secret_required", then |-> "wait_secret"]
  BY SMTT(60) DEF Receive, Publish, Goto
<1>3. TypeOK' /\ DBusTypes' /\ EventTypes'
  BY <1>1, <1>2, TypesKept DEF TypeOK, Outcomes
<1>4. CASE pc' \in {"verify", "check"}
  BY <1>1, <1>2, <1>3, <1>4, Continues
<1>5. CASE /\ pc' = "publish" /\ publishing'.then = "end"
           /\ publishing'.state \in {"verification_failed", "timed_out"}
           /\ outcome' \in {"error", "timed_out", "denied"}
  BY <1>1, <1>3, <1>5, Refuses, KeptUnchanged DEF Outcomes
<1>6. CASE /\ pc' = "publish" /\ outcome' = "none"
           /\ \/ publishing' = [state |-> "verification_information", then |-> "verify"]
              \/ /\ publishing' = [state |-> "secret_required", then |-> "wait_secret"]
                 /\ nextPromptId <= MaxPrompts
  <2>1. Issued' /\ Owned'
    BY SMTT(60), <1>1, <1>6 DEF Issued, Owned
  <2>2. Answers' /\ SecretPending' /\ NeverInvalidTransition' /\ Granted'
    BY <1>1, <1>6 DEF Answers, SecretPending, NeverInvalidTransition, Granted
  <2>3. Plan' /\ SecretTaken'
    BY SMTT(60), <1>1, <1>6 DEF Plan, SecretTaken
  <2>4. Stage'
    BY SMTT(60), <1>1, <1>6 DEF Stage, Opening
  <2> QED
    BY <1>3, <2>1, <2>2, <2>3, <2>4
<1> QED
  BY <1>2, <1>4, <1>5, <1>6

\* A prompt that could not be published.
LEMMA RefusedInductive == ASSUME IInv, Refused PROVE IInv'
<1>1. /\ pc = "refused" /\ kind = "verification"
      /\ UNCHANGED <<registryVars, agentVars, environment, failed, dbus, events, shown, request,
                     kind, consent, cancels, user, seen>>
  BY DEF Refused, WorkerOnly, Plan
<1>2. /\ pc' = "publish" /\ publishing'.then = "end"
      /\ publishing'.state \in {"cancelled", "verification_failed"}
      /\ outcome' \in {"cancelled", "error"}
  BY SMTT(60) DEF Refused, Publish
<1>3. TypeOK' /\ DBusTypes' /\ EventTypes'
  BY <1>1, <1>2, TypesKept DEF TypeOK, Outcomes
<1> QED
  BY <1>1, <1>2, <1>3, Refuses, KeptUnchanged DEF Outcomes

\* What the worker does when a state is not published: a prompt is refused,
\* and a decision ends the ceremony.
LEMMA AfterPublishing ==
    ASSUME Plan, Granted, pc \in Publishing
    PROVE  /\ Unpublished \in {"wait", "verify", "refused", "end"}
           /\ outcome = "approved" => Unpublished = "end" /\ publishing.then = "end"
BY DEF Plan, Granted, Unpublished

\* A decision stands while the worker publishes it, as long as the response
\* stays closed.
LEMMA GrantedKept ==
    ASSUME Granted, outcome' = outcome, pc' # "check",
           outcome = "approved" =>
               pc' = "end" \/ (pc' \in Publishing /\ publishing'.then = "end"),
           UNCHANGED <<kind, consent, cancels, request, user, successes>>,
           current'.requestId # 0 => /\ current.requestId # 0
                                     /\ current'.responseClosed = current.responseClosed
    PROVE  Granted'
BY DEF Granted

\* A state is skipped: the agent is not registered, or has cancelled.
LEMMA Skips ==
    ASSUME IInv, TypeOK', DBusTypes', EventTypes', pc \in Publishing, pc' = Unpublished,
           (registered # user /\ pc = "publish") \/ current.cancelRequested,
           UNCHANGED <<registryVars, agentVars, consent, cancels, successes, user, request, kind,
                       outcome>>
    PROVE  IInv'
<1>1. Unpublished \in {"wait", "verify", "refused", "end"}
  BY AfterPublishing
<1>2. Issued' /\ Owned' /\ Answers' /\ SecretPending' /\ NeverInvalidTransition'
  BY <1>1 DEF Issued, Owned, Answers, SecretPending, NeverInvalidTransition
<1>3. Plan' /\ SecretTaken'
  BY <1>1 DEF Plan, SecretTaken, Unpublished, Progress
<1>4. Stage'
  BY <1>1 DEF Stage, Opening, Answers
<1>5. Granted'
  BY AfterPublishing, GrantedKept
<1> QED
  BY <1>2, <1>3, <1>4, <1>5

\* is_current before transition(): a state of an agent that is not
\* registered is skipped.
LEMMA PublishStateInductive == ASSUME IInv, PublishState PROVE IInv'
<1>1. /\ pc = "publish"
      /\ UNCHANGED <<registryVars, agentVars, environment, failed, dbus, events, shown, request,
                     kind, consent, cancels, successes, user, seen>>
  BY DEF PublishState, WorkerOnly
<1>2. \/ pc' = "end" /\ outcome' = "error"
      \/ pc' = Unpublished /\ outcome' = outcome /\ registered # user
      \/ /\ pc' = "transition" /\ outcome' = outcome /\ publishing' = publishing
         /\ registered = user
  BY DEF PublishState, Goto, Finish
<1>3. TypeOK' /\ DBusTypes' /\ EventTypes'
  BY <1>1, <1>2, TypesKept DEF TypeOK, Outcomes
<1>4. CASE pc' = "end" /\ outcome' = "error"
  BY <1>1, <1>3, <1>4, EndsUnapproved DEF Outcomes
<1>5. CASE pc' = Unpublished /\ outcome' = outcome /\ registered # user
  BY <1>1, <1>3, <1>5, Skips
<1>6. CASE /\ pc' = "transition" /\ outcome' = outcome /\ publishing' = publishing
           /\ registered = user
  <2>1. Issued' /\ Owned' /\ Answers' /\ SecretPending' /\ NeverInvalidTransition'
    BY <1>1, <1>6 DEF Issued, Owned, Answers, SecretPending, NeverInvalidTransition
  <2>2. Plan' /\ SecretTaken'
    BY <1>1, <1>6 DEF Plan, SecretTaken
  <2>3. Stage'
    BY <1>1, <1>6 DEF Stage, Opening
  <2>4. Granted'
    BY <1>1, <1>6 DEF Granted
  <2> QED
    BY <1>3, <2>1, <2>2, <2>3, <2>4
<1> QED
  BY <1>2, <1>4, <1>5, <1>6

-----------------------------------------------------------------------------
(* The steps of the worker that use the interaction registry.              *)

\* begin(): nothing is pending, so it succeeds.
LEMMA BeginRegistryInductive == ASSUME IInv, BeginRegistry PROVE IInv'
<1>1. current = NoInteraction /\ user \in Users /\ nextRequestId <= MaxInteractions
  BY DEF BeginRegistry, Owned, Issued
<1>2. /\ Begin(user) /\ request' = nextRequestId /\ pc' = "publish" /\ outcome' = "none"
      /\ \/ /\ kind' = "presence"
            /\ publishing' = [state |-> "presence_required", then |-> "wait"]
         \/ /\ kind' = "verification"
            /\ publishing' = [state |-> "verification_started", then |-> "verify"]
  BY <1>1 DEF BeginRegistry, Publish
<1>3. UNCHANGED <<threadVars, events, successes, user, seen>>
  BY DEF BeginRegistry
<1>4. /\ RegistryTypeOK'
      /\ current'.requestId = nextRequestId /\ current'.user = user /\ current'.state = "none"
      /\ current'.presenceResponse = "none" /\ ~current'.cancelRequested
      /\ ~current'.responseClosed /\ current'.promptId = 0 /\ ~current'.secretSubmitted
  BY <1>1, <1>2, BeginFields DEF TypeOK
<1>5. /\ secretResponse' = NoSecret /\ nextRequestId' = nextRequestId + 1
      /\ nextPromptId' = nextPromptId
  BY <1>2 DEF Begin
<1>6. TypeOK'
  BY SMTT(60), <1>1, <1>2, <1>3, <1>4, RegistryBounds DEF TypeOK, RegistryTypeOK, Outcomes
<1>7. DBusTypes' /\ EventTypes'
  BY <1>3 DEF DBusTypes, EventTypes
<1>8. nextRequestId \in Nat \ {0} /\ nextRequestId \notin cancels
  BY SMTT(60) DEF TypeOK, RegistryTypeOK, Issued
<1>9. Issued'
  BY SMTT(60), <1>2, <1>3, <1>4, <1>5, <1>8 DEF Issued
<1>10. Owned' /\ Plan' /\ Granted'
  BY SMTT(60), <1>1, <1>2, <1>3, <1>4, <1>8 DEF Owned, Plan, Granted
<1>11. Answers' /\ SecretPending' /\ SecretTaken' /\ NeverInvalidTransition'
  BY <1>2, <1>3, <1>4, <1>5, <1>8
     DEF Answers, SecretPending, SecretTaken, NeverInvalidTransition
<1>12. Stage'
  BY SMTT(60), <1>2, <1>4 DEF Stage, Opening
<1> QED
  BY <1>6, <1>7, <1>9, <1>10, <1>11, <1>12

\* The interaction is gone, and the worker goes on or ends.
LEMMA Gone ==
    ASSUME IInv, TypeOK', DBusTypes', EventTypes', current' = NoInteraction,
           secretResponse' = NoSecret, Plan', Granted', outcome' # "logic_error",
           UNCHANGED <<nextRequestId, nextPromptId, agentVars, cancels, user>>,
           pc' \in Starting => pc \in Starting,
           pc' \in {"begin", "begin_registry"} => pc' = pc,
           pc' \in Publishing => pc \in Publishing /\ publishing' = publishing
    PROVE  IInv'
<1>1. current'.requestId = 0 /\ current'.state = "none"
  BY NoInteractionFields
<1>2. Issued'
  BY SMTT(60), <1>1 DEF Issued, TypeOK, RegistryTypeOK
<1>3. Owned'
  BY <1>1 DEF Owned
<1>4. Answers'
  BY SMTT(60), <1>1, NoInteractionFields DEF Answers, Issued, TypeOK, RegistryTypeOK
<1>5. SecretPending' /\ Stage' /\ SecretTaken' /\ NeverInvalidTransition'
  BY <1>1 DEF SecretPending, Stage, SecretTaken, NeverInvalidTransition
<1> QED
  BY <1>2, <1>3, <1>4, <1>5

\* transition(): the state follows from where the worker stands, so it is
\* recorded, or suppressed after a cancellation, or the interaction is gone.
LEMMA PublishTransitionInductive == ASSUME IInv, PublishTransition PROVE IInv'
<1>1. /\ pc = "transition"
      /\ UNCHANGED <<agentVars, environment, failed, dbus, shown, request, kind, consent, cancels,
                     successes, user, seen>>
  BY DEF PublishTransition, WorkerOnly
<1>2. CASE ~Matches(user, request)
  <2>1. pc' = "end" /\ outcome' = "error" /\ UNCHANGED <<registryVars, events>>
    BY <1>2 DEF PublishTransition, Finish
  <2>2. TypeOK' /\ DBusTypes' /\ EventTypes'
    BY <1>1, <2>1, TypesKept DEF TypeOK, Outcomes
  <2> QED
    BY <1>1, <2>1, <2>2, EndsUnapproved DEF Outcomes
<1>3. CASE Matches(user, request)
  <2>1. current.requestId # 0 /\ current.requestId = request
    BY <1>3 DEF Matches
  <2>2. ValidTransition(current.state, publishing.state)
    BY <1>1, <2>1 DEF TypeOK, Stage, Plan, Opening, ValidTransition, Progress,
       Terminal, States
  <2>3. CASE Suppressed(publishing.state)
    <3>1. /\ pc' = Unpublished /\ outcome' = outcome /\ current.cancelRequested
          /\ UNCHANGED <<registryVars, events>>
      BY <1>3, <2>2, <2>3 DEF PublishTransition, Goto, Suppressed
    <3>2. TypeOK' /\ DBusTypes' /\ EventTypes'
      BY <1>1, <3>1, TypesKept DEF TypeOK
    <3> QED
      BY <1>1, <3>1, <3>2, Skips
  <2>4. CASE ~Suppressed(publishing.state)
    <3>1. Transition(publishing.state) /\ pc' = publishing.then /\ outcome' = outcome
      BY <1>3, <2>2, <2>4 DEF PublishTransition, Goto
    <3>2. publishing.state \in States /\ user \in Users /\ request \in Requests
      BY SMTT(60), <1>1, <2>1 DEF Plan, Owned, TypeOK, States, Progress, Terminal, Requests
    <3>3. DBusTypes' /\ EventTypes'
      <4>1. events' = Append(events, [user |-> user, requestId |-> request,
                                      state |-> publishing.state,
                                      promptId |-> PromptOf(publishing.state)])
        BY <1>3, <2>2, <2>4 DEF PublishTransition, Enqueue
      <4>2. PromptOf(publishing.state) \in 0 .. MaxPrompts
        BY SMTT(60), <1>1, RegistryBounds DEF PromptOf, TypeOK, RegistryTypeOK, Issued
      <4>3. EventTypes'
        BY SMTT(60), <3>2, <4>1, <4>2 DEF EventTypes, StateEvents
      <4> QED
        BY <1>1, <4>3 DEF DBusTypes
    <3>4. CASE publishing.state \in Terminal
      <4>1. /\ current' = NoInteraction /\ secretResponse' = NoSecret
            /\ UNCHANGED <<nextRequestId, nextPromptId>>
        BY <3>1, <3>4 DEF Transition
      <4>2. pc' = "end"
        BY <1>1, <3>1, <3>4 DEF Plan, Terminal
      <4>3. TypeOK'
        BY <1>1, <3>1, <4>1, NoInteractionFields DEF TypeOK, RegistryTypeOK
      <4>4. Granted'
        BY <1>1, <3>1, <4>1, <4>2, NoInteractionFields, GrantedKept
      <4>5. Plan' /\ outcome' # "logic_error"
        BY <3>1, <4>2 DEF Plan, NeverInvalidTransition
      <4> QED
        BY <1>1, <3>3, <4>1, <4>2, <4>3, <4>4, <4>5, Gone
    <3>5. CASE publishing.state \notin Terminal
      <4>1. publishing.state = "secret_required" => nextPromptId <= MaxPrompts
        BY <1>1 DEF Issued
      <4>2. /\ RegistryTypeOK'
            /\ current'.requestId = current.requestId /\ current'.user = current.user
            /\ current'.state = publishing.state
            /\ current'.presenceResponse = current.presenceResponse
            /\ current'.cancelRequested = current.cancelRequested
            /\ current'.responseClosed = current.responseClosed
            /\ IF publishing.state = "secret_required"
               THEN /\ current'.promptId = nextPromptId /\ ~current'.secretSubmitted
                    /\ secretResponse' = NoSecret /\ nextPromptId' = nextPromptId + 1
               ELSE /\ current'.promptId = 0
                    /\ current'.secretSubmitted = current.secretSubmitted
                    /\ UNCHANGED <<secretResponse, nextPromptId>>
            /\ nextRequestId' = nextRequestId
        BY <3>1, <3>2, <3>5, <4>1, TransitionFields DEF TypeOK
      <4>3. TypeOK'
        BY SMTT(60), <1>1, <3>1, <4>2 DEF TypeOK, RegistryTypeOK
      <4>4. \/ publishing.state = "presence_required" /\ kind = "presence" /\ pc' = "wait"
            \/ /\ publishing.state = "secret_required" /\ kind = "verification"
               /\ pc' = "wait_secret"
            \/ /\ publishing.state \in Progress \ {"secret_required"} /\ kind = "verification"
               /\ pc' = "verify"
        BY <1>1, <3>1, <3>5 DEF Plan, Progress, Terminal
      <4>5. secretResponse' = NoSecret
        BY <1>1, <2>1, <4>2, <4>4 DEF SecretPending, SecretTaken, Stage, Opening,
           Progress
      <4>6. Issued' /\ SecretPending'
        BY <1>1, <4>2, <4>4, <4>5 DEF Issued, SecretPending, TypeOK, RegistryTypeOK
      <4>7. Owned'
        BY <1>1, <2>1, <4>2, <4>4 DEF Owned
      <4>8. Answers' /\ Plan' /\ NeverInvalidTransition'
        BY <1>1, <3>1, <4>2, <4>4 DEF Answers, Plan, NeverInvalidTransition, Progress
      <4>9. Stage' /\ SecretTaken'
        BY <1>1, <4>2, <4>4, <4>5 DEF Stage, Opening, SecretTaken, Progress
      <4>10. Granted'
        BY <1>1, <3>1, <4>2, <4>4, AfterPublishing, GrantedKept DEF Unpublished
      <4> QED
        BY <3>3, <4>3, <4>6, <4>7, <4>8, <4>9, <4>10
    <3> QED
      BY <3>4, <3>5
  <2> QED
    BY <2>3, <2>4
<1> QED
  BY <1>2, <1>3

\* A wait that gives up keeps the interaction.
LEMMA WaitKept ==
    ASSUME TypeOK, NEW status, AfterWait(status), status # "provided",
           current.requestId = 0 => status = "invalidated"
    PROVE  Kept /\ RegistryTypeOK'
<1>1. RegistryTypeOK
  BY DEF TypeOK
<1>2. current.requestId = 0 => current' = current
  BY DEF AfterWait
<1> QED
  BY <1>1, <1>2, WaitFields DEF Kept

\* The wait for presence returns: what it approves, the agent approved and
\* did not cancel.
LEMMA WaitForPresenceInductive == ASSUME IInv, WaitForPresence PROVE IInv'
<1> DEFINE status == PresenceWait(user, request, stop, late)
<1>1. /\ pc = "wait" /\ kind = "presence"
      /\ UNCHANGED <<agentVars, environment, failed, dbus, events, shown, request, kind, consent,
                     cancels, successes, user, seen>>
  BY DEF WaitForPresence, WorkerOnly, Plan
<1>2. /\ status = "approved" => /\ current.requestId # 0 /\ ~current.cancelRequested
                                /\ current.presenceResponse = "approved"
      /\ status # "provided"
      /\ current.requestId = 0 => status = "invalidated"
  BY DEF PresenceWait, Matches, TypeOK, RegistryTypeOK, PendingInteraction
<1>3. \/ pc' = "end" /\ outcome' = "error" /\ UNCHANGED registryVars
      \/ /\ pc' = "check" /\ outcome' = outcome /\ status = "approved"
         /\ UNCHANGED registryVars
      \/ /\ pc' = "publish" /\ publishing'.then = "end"
         /\ publishing'.state \in {"presence_denied", "cancelled", "timed_out"}
         /\ outcome' \in {"denied", "cancelled", "operation_cancelled", "timed_out"}
         /\ AfterWait(status)
  BY SMTT(60), <1>2 DEF WaitForPresence, Publish, Goto, Finish, AfterWait
<1> HIDE DEF status
<1>4. CASE UNCHANGED registryVars /\ pc' \in {"end", "check"}
  <2>1. TypeOK' /\ DBusTypes' /\ EventTypes'
    BY <1>1, <1>3, <1>4, TypesKept DEF TypeOK, Outcomes
  <2> QED
    BY <1>1, <1>2, <1>3, <1>4, <2>1, EndsUnapproved, Continues DEF Outcomes
<1>5. CASE /\ pc' = "publish" /\ publishing'.then = "end"
           /\ publishing'.state \in {"presence_denied", "cancelled", "timed_out"}
           /\ outcome' \in {"denied", "cancelled", "operation_cancelled", "timed_out"}
           /\ AfterWait(status)
  <2>1. Kept /\ RegistryTypeOK'
    BY <1>2, <1>5, WaitKept
  <2>2. TypeOK' /\ DBusTypes' /\ EventTypes'
    BY <1>1, <1>5, <2>1
       DEF TypeOK, DBusTypes, EventTypes, Outcomes, Kept, SameInteraction
  <2> QED
    BY <1>1, <1>5, <2>1, <2>2, Refuses DEF Outcomes
<1> QED
  BY <1>3, <1>4, <1>5

\* The wait for a secret returns: the secret is taken before the next turn.
LEMMA WaitForSecretInductive == ASSUME IInv, WaitForSecret PROVE IInv'
<1> DEFINE status == SecretWait(user, request, prompt, stop, late)
<1>1. /\ pc = "wait_secret" /\ kind = "verification"
      /\ UNCHANGED <<agentVars, environment, failed, dbus, events, shown, request, kind, consent,
                     cancels, successes, user, seen>>
  BY DEF WaitForSecret, WorkerOnly, Plan
<1>2. /\ status = "provided" => current.requestId # 0 /\ secretResponse # NoSecret
      /\ current.requestId = 0 => status = "invalidated"
  BY DEF SecretWait, Matches
<1>3. \/ pc' = "end" /\ outcome' = "error" /\ UNCHANGED registryVars
      \/ /\ pc' = "verify" /\ outcome' = outcome /\ status = "provided"
         /\ secretResponse' = NoSecret /\ UNCHANGED <<current, nextRequestId, nextPromptId>>
      \/ /\ pc' = "publish" /\ publishing'.then = "end" /\ status # "provided"
         /\ publishing'.state \in {"verification_failed", "cancelled", "timed_out"}
         /\ outcome' \in {"error", "cancelled", "operation_cancelled", "timed_out"}
         /\ AfterWait(status)
  BY SMTT(60) DEF WaitForSecret, Publish, Goto, Finish, AfterWait
<1> HIDE DEF status
<1>4. CASE pc' = "end" /\ outcome' = "error" /\ UNCHANGED registryVars
  <2>1. TypeOK' /\ DBusTypes' /\ EventTypes'
    BY <1>1, <1>4, TypesKept DEF TypeOK, Outcomes
  <2> QED
    BY <1>1, <1>4, <2>1, EndsUnapproved DEF Outcomes
<1>5. CASE /\ pc' = "verify" /\ outcome' = outcome /\ status = "provided"
           /\ secretResponse' = NoSecret /\ UNCHANGED <<current, nextRequestId, nextPromptId>>
  <2>1. TypeOK' /\ DBusTypes' /\ EventTypes'
    BY <1>1, <1>5 DEF TypeOK, RegistryTypeOK, DBusTypes, EventTypes
  <2>2. current.secretSubmitted
    BY <1>2, <1>5 DEF SecretPending
  <2>3. Issued' /\ Owned' /\ Answers' /\ NeverInvalidTransition'
    BY <1>1, <1>5 DEF Issued, Owned, Answers, NeverInvalidTransition
  <2>4. SecretPending' /\ Plan' /\ SecretTaken'
    BY <1>1, <1>5, <2>2 DEF SecretPending, Plan, SecretTaken
  <2>5. Stage' /\ Granted'
    BY <1>1, <1>5 DEF Stage, Opening, Granted
  <2> QED
    BY <2>1, <2>3, <2>4, <2>5
<1>6. CASE /\ pc' = "publish" /\ publishing'.then = "end" /\ status # "provided"
           /\ publishing'.state \in {"verification_failed", "cancelled", "timed_out"}
           /\ outcome' \in {"error", "cancelled", "operation_cancelled", "timed_out"}
           /\ AfterWait(status)
  <2>1. Kept /\ RegistryTypeOK'
    BY <1>2, <1>6, WaitKept
  <2>2. TypeOK' /\ DBusTypes' /\ EventTypes'
    BY <1>1, <1>6, <2>1
       DEF TypeOK, DBusTypes, EventTypes, Outcomes, Kept, SameInteraction
  <2> QED
    BY <1>1, <1>6, <2>1, <2>2, Refuses DEF Outcomes
<1> QED
  BY <1>3, <1>4, <1>5, <1>6

\* The pending interaction is dropped with its secret, or both stay.
LEMMA Dropped ==
    ASSUME TypeOK, NEW mine \in BOOLEAN, Drop(mine)
    PROVE  /\ RegistryTypeOK' /\ UNCHANGED <<nextRequestId, nextPromptId>>
           /\ \/ mine /\ current' = NoInteraction /\ secretResponse' = NoSecret
              \/ ~mine /\ current' = current /\ secretResponse' = secretResponse
BY DropTypes DEF TypeOK, Drop

\* The worker drops the interaction of the agent it found inactive.
LEMMA DiscardClearInductive == ASSUME IInv, DiscardClear PROVE IInv'
<1>1. /\ \/ pc = "start_clear" /\ pc' = "start_unregister"
         \/ pc = "check_clear" /\ pc' = "check_unregister"
      /\ UNCHANGED <<agentVars, environment, failed, dbus, events, shown, request, kind, consent,
                     cancels, successes, user, seen, outcome>>
  BY DEF DiscardClear, Goto, WorkerOnly
<1>2. /\ RegistryTypeOK' /\ UNCHANGED <<nextRequestId, nextPromptId>>
      /\ \/ current' = NoInteraction /\ secretResponse' = NoSecret
         \/ current' = current /\ secretResponse' = secretResponse
  BY Dropped DEF DiscardClear, ClearFor
<1>3. TypeOK' /\ DBusTypes' /\ EventTypes'
  BY <1>1, <1>2, NoInteractionFields DEF TypeOK, DBusTypes, EventTypes
<1>4. Plan' /\ Granted' /\ outcome' # "logic_error"
  BY <1>1, NoInteractionFields DEF Plan, Granted, NeverInvalidTransition
<1>5. CASE current' = NoInteraction /\ secretResponse' = NoSecret
  BY <1>1, <1>2, <1>3, <1>4, <1>5, Gone
<1>6. CASE UNCHANGED registryVars
  <2>1. Issued' /\ Owned' /\ Answers' /\ SecretPending'
    BY <1>1, <1>6 DEF Issued, Owned, Answers, SecretPending
  <2>2. Stage' /\ SecretTaken' /\ NeverInvalidTransition'
    BY <1>1, <1>4, <1>6 DEF Stage, Opening, SecretTaken, NeverInvalidTransition
  <2> QED
    BY <1>3, <1>4, <2>1, <2>2
<1> QED
  BY <1>2, <1>5, <1>6

\* ~InteractionScope: what is pending is the worker's, so it is dropped.
LEMMA EndInteractionInductive == ASSUME IInv, EndInteraction PROVE IInv'
<1>1. /\ pc = "end" /\ pc' = "idle" /\ kind' = "presence" /\ outcome' = "none"
      /\ consent' = {}
      /\ UNCHANGED <<agentVars, environment, failed, dbus, shown, cancels, events, user, request,
                     seen>>
  BY DEF EndInteraction
<1>2. /\ RegistryTypeOK' /\ UNCHANGED <<nextRequestId, nextPromptId>>
      /\ \/ Matches(user, request) /\ current' = NoInteraction /\ secretResponse' = NoSecret
         \/ ~Matches(user, request) /\ current' = current /\ secretResponse' = secretResponse
  BY Dropped DEF EndInteraction, End, Matches
<1>3. current' = NoInteraction /\ secretResponse' = NoSecret
  BY <1>2 DEF Owned, SecretPending, Matches
<1>4. TypeOK' /\ DBusTypes' /\ EventTypes'
  BY <1>1, <1>2, <1>3, NoInteractionFields
     DEF TypeOK, Outcomes, DBusTypes, EventTypes
<1>5. Plan' /\ Granted' /\ outcome' # "logic_error"
  BY <1>1 DEF Plan, Granted
<1> QED
  BY <1>1, <1>2, <1>3, <1>4, <1>5, Gone

-----------------------------------------------------------------------------
(* Steps that change neither the registries nor the ceremony.              *)

\* The invariant is about the registries, the ceremony and its history; the
\* handler, the environment and the events only have types.
LEMMA Unaffected ==
    ASSUME IInv, TypeOK', DBusTypes', EventTypes', UNCHANGED <<registryVars, agentVars, history>>,
           UNCHANGED <<pc, user, request, kind, publishing, outcome>>
    PROVE  IInv'
<1>1. Issued' /\ Owned' /\ Answers' /\ SecretPending'
  BY DEF Issued, Owned, Answers, SecretPending
<1>2. Plan' /\ Stage' /\ SecretTaken'
  BY DEF Plan, Stage, Opening, SecretTaken
<1>3. Granted' /\ NeverInvalidTransition'
  BY DEF Granted, NeverInvalidTransition
<1> QED
  BY <1>1, <1>2, <1>3

\* The platform cancels, or the deadline passes.
LEMMA RequestStopInductive == ASSUME IInv, RequestStop \/ DeadlinePasses PROVE IInv'
BY Unaffected DEF RequestStop, DeadlinePasses, TypeOK, RegistryTypeOK, DBusTypes,
   EventTypes

\* The handler that serves a call or a name change, and a change of session.
LEMMA HandlerInductive ==
    ASSUME IInv, NEW a \in Agents,
           \/ RegisterAgent(a) \/ UnregisterAgent(a) \/ Disconnected(a) \/ SessionChanges(a)
           \/ \E m \in Methods : Call(a, m)
    PROVE  IInv'
<1>1. UNCHANGED <<registryVars, agentVars, history, events, failed, ceremony, shown>>
  BY DEF RegisterAgent, UnregisterAgent, Disconnected, SessionChanges, Call, HandlerOnly
<1>2. activeSession' \subseteq Agents /\ connected' \subseteq Agents
  BY DEF RegisterAgent, UnregisterAgent, Disconnected, SessionChanges, Call, HandlerOnly,
     TypeOK
<1>3. TypeOK' /\ EventTypes'
  BY <1>1, <1>2 DEF TypeOK, RegistryTypeOK, EventTypes
<1>4. DBusTypes'
  <2>1. CASE dbus' = dbus
    BY <2>1 DEF DBusTypes
  <2>2. CASE \/ Handler("register", a, NoUser, "idle")
             \/ Discard(a, registered, "register")
             \/ Discard("none", registered, "idle")
             \/ \E m \in Methods : Handler(m, "none", registered, "idle")
    BY SMTT(60), <2>2 DEF DBusTypes, DBusSteps, Methods, Handler, Discard, TypeOK
  <2> QED
    BY <2>1, <2>2 DEF RegisterAgent, UnregisterAgent, Disconnected, SessionChanges, Call
<1> QED
  BY <1>1, <1>3, <1>4, Unaffected

\* An event is sent or dropped.
LEMMA SendEventInductive == ASSUME IInv, SendEvent PROVE IInv'
<1>1. UNCHANGED <<registryVars, agentVars, environment, failed, dbus, ceremony, history>>
  BY DEF SendEvent
<1>2. Head(events) \in StateEvents /\ EventTypes'
  BY SMTT(60) DEF SendEvent, EventTypes
<1>3. shown' \in [Requests -> States \cup {"none"}]
  BY <1>2 DEF SendEvent, StateEvents, TypeOK
<1>4. TypeOK' /\ DBusTypes'
  BY <1>1, <1>3 DEF TypeOK, RegistryTypeOK, DBusTypes
<1> QED
  BY <1>1, <1>2, <1>4, Unaffected

\* The event loop fails.
LEMMA LoopFailsInductive == ASSUME IInv, LoopFails PROVE IInv'
<1>1. UNCHANGED <<registryVars, agentVars, environment, events, ceremony, shown, history>>
  BY DEF LoopFails
<1>2. TypeOK' /\ EventTypes'
  BY <1>1 DEF LoopFails, TypeOK, RegistryTypeOK, EventTypes
<1>3. DBusTypes'
  BY SMTT(60) DEF LoopFails, DBusTypes, DBusSteps, Handler, Discard, TypeOK
<1> QED
  BY <1>1, <1>2, <1>3, Unaffected

-----------------------------------------------------------------------------
(* The D-Bus thread changes the registries.                                *)

\* AgentRegistry::register_agent: the new generation is nobody's yet.
LEMMA RegisterInductive == ASSUME IInv, Register PROVE IInv'
<1>1. /\ dbus' = IdleHandler /\ dbus.step = "register"
      /\ UNCHANGED <<registryVars, environment, events, failed, ceremony, shown, history>>
  BY DEF Register
<1>2. DBusTypes' /\ EventTypes'
  BY <1>1 DEF DBusTypes, EventTypes, DBusSteps, IdleHandler
<1>3. CASE UNCHANGED agentVars
  <2>1. TypeOK'
    BY <1>1, <1>3 DEF TypeOK, RegistryTypeOK
  <2> QED
    BY <1>1, <1>2, <1>3, <2>1, Unaffected
<1>4. CASE /\ registered' = [agent |-> dbus.agent, generation |-> nextGeneration]
           /\ nextGeneration' = nextGeneration + 1 /\ nextGeneration <= MaxRegistrations
  <2>1. /\ registered' \in Users /\ registered'.generation = nextGeneration
        /\ nextGeneration' \in 1 .. MaxRegistrations + 1
    BY SMTT(60), <1>1, <1>4, RegistryBounds DEF TypeOK, Users, DBusTypes
  <2>2. registered' # user /\ user.generation < nextGeneration'
    BY SMTT(60), <1>4, <2>1 DEF Issued, TypeOK, Users, NoUser
  <2>3. TypeOK'
    BY <1>1, <2>1 DEF TypeOK, RegistryTypeOK
  <2>4. Issued'
    BY SMTT(60), <1>1, <1>4, <2>1, <2>2 DEF Issued, TypeOK, RegistryTypeOK
  <2>5. Owned' /\ Answers' /\ SecretPending' /\ Plan'
    BY <1>1 DEF Owned, Answers, SecretPending, Plan
  <2>6. SecretTaken' /\ Granted' /\ NeverInvalidTransition'
    BY <1>1 DEF SecretTaken, Granted, NeverInvalidTransition
  <2>7. Stage'
    BY <1>1, <2>2 DEF Stage, Opening
  <2> QED
    BY <1>2, <2>3, <2>4, <2>5, <2>6, <2>7
<1> QED
  BY <1>3, <1>4 DEF Register

\* AgentRegistry::unregister_agent.
LEMMA UnregisterInductive == ASSUME IInv, Unregister PROVE IInv'
<1>1. /\ registered' \in {registered, NoUser}
      /\ UNCHANGED <<registryVars, nextGeneration, environment, events, failed, ceremony, shown,
                     history>>
  BY DEF Unregister, Unregistered
<1>2. DBusTypes'
  <2>1. CASE dbus.then = "idle"
    BY <2>1 DEF Unregister, DBusTypes, DBusSteps, IdleHandler
  <2>2. CASE dbus.then # "idle"
    <3>1. dbus.then = "register" /\ dbus.agent \in Agents
      BY <2>2 DEF DBusTypes
    <3>2. dbus' = [dbus EXCEPT !.step = "register", !.user = NoUser, !.then = "idle"]
      BY <2>2, <3>1 DEF Unregister
    <3>3. dbus' = [step |-> "register", agent |-> dbus.agent, user |-> NoUser, then |-> "idle"]
      BY <3>2 DEF DBusTypes
    <3> QED
      BY <3>1, <3>3 DEF DBusTypes, DBusSteps
  <2> QED
    BY <2>1, <2>2
<1>3. TypeOK' /\ EventTypes'
  BY <1>1 DEF TypeOK, RegistryTypeOK, EventTypes
<1>4. Issued'
  BY SMTT(60), <1>1 DEF Issued, TypeOK, NoUser
<1>5. Owned' /\ Answers' /\ SecretPending' /\ Plan'
  BY <1>1 DEF Owned, Answers, SecretPending, Plan
<1>6. SecretTaken' /\ Granted' /\ NeverInvalidTransition'
  BY <1>1 DEF SecretTaken, Granted, NeverInvalidTransition
<1>7. Stage'
  BY <1>1, NoUserIsNobody DEF Stage, Opening, Owned
<1> QED
  BY <1>2, <1>3, <1>4, <1>5, <1>6, <1>7

\* clear_for(): the interaction of the agent that leaves is dropped.
LEMMA ClearInductive == ASSUME IInv, Clear PROVE IInv'
<1>1. UNCHANGED <<agentVars, environment, events, failed, ceremony, shown, history>>
  BY DEF Clear
<1>2. /\ RegistryTypeOK' /\ UNCHANGED <<nextRequestId, nextPromptId>>
      /\ \/ current' = NoInteraction /\ secretResponse' = NoSecret
         \/ current' = current /\ secretResponse' = secretResponse
  BY Dropped DEF Clear, ClearFor
<1>3. DBusTypes'
  BY DEF Clear, DBusTypes, DBusSteps
<1>4. TypeOK' /\ EventTypes'
  BY <1>1, <1>2, NoInteractionFields DEF TypeOK, EventTypes
<1>5. Plan' /\ Granted' /\ outcome' # "logic_error"
  <2>1. Plan' /\ outcome' # "logic_error"
    BY <1>1 DEF Plan, NeverInvalidTransition
  <2>2. Granted'
    BY <1>1, <1>2, NoInteractionFields DEF Granted
  <2> QED
    BY <2>1, <2>2
<1>6. CASE current' = NoInteraction /\ secretResponse' = NoSecret
  BY <1>1, <1>2, <1>3, <1>4, <1>5, <1>6, Gone
<1>7. CASE UNCHANGED registryVars
  BY <1>1, <1>3, <1>4, <1>7, Unaffected
<1> QED
  BY <1>2, <1>6, <1>7

\* respond_to_presence(): only while the response is open.
LEMMA RespondInductive ==
    ASSUME IInv, NEW r \in Requests, NEW response \in {"approved", "denied"}, Respond(r, response)
    PROVE  IInv'
<1>1. /\ dbus' = IdleHandler
      /\ UNCHANGED <<agentVars, environment, events, failed, ceremony, shown, cancels, successes>>
  BY DEF Respond
<1>2. DBusTypes' /\ EventTypes'
  BY <1>1 DEF DBusTypes, EventTypes, DBusSteps, IdleHandler
<1>3. CASE ~AcceptsPresence(dbus.user, r)
  <2>1. UNCHANGED <<registryVars, history>>
    BY <1>1, <1>3 DEF Respond
  <2>2. TypeOK'
    BY <1>1, <2>1 DEF TypeOK, RegistryTypeOK
  <2> QED
    BY <1>1, <1>2, <2>1, <2>2, Unaffected
<1>4. CASE AcceptsPresence(dbus.user, r)
  <2>1. /\ current.state = "presence_required"
        /\ consent \subseteq consent'
        /\ response = "approved" => <<current.requestId, current.user>> \in consent'
    BY <1>4 DEF Respond, AcceptsPresence, Matches
  <2>2. /\ RegistryTypeOK' /\ SameInteraction /\ secretResponse' = secretResponse
        /\ current'.presenceResponse = response /\ current'.responseClosed
        /\ current'.cancelRequested = current.cancelRequested
        /\ current'.secretSubmitted = current.secretSubmitted
    BY <1>4, RespondFields DEF Respond, TypeOK
  <2>3. TypeOK'
    BY <1>1, <2>2 DEF TypeOK, SameInteraction
  <2>4. Issued' /\ SecretPending' /\ Plan' /\ NeverInvalidTransition'
    BY <1>1, <2>2 DEF Issued, SecretPending, Plan, NeverInvalidTransition, SameInteraction
  <2>5. Owned'
    BY <1>1, <1>4, <2>2 DEF Owned, SameInteraction, AcceptsPresence, Matches
  <2>6. Answers'
    BY <1>1, <2>1, <2>2 DEF Answers, SameInteraction
  <2>7. Stage' /\ SecretTaken'
    BY <1>1, <2>2 DEF Stage, Opening, SecretTaken, SameInteraction
  <2>8. Granted'
    BY <1>1, <2>1, <2>2 DEF Granted
  <2> QED
    BY <1>2, <2>3, <2>4, <2>5, <2>6, <2>7, <2>8
<1> QED
  BY <1>3, <1>4

\* submit_secret(): the first secret for the prompt.
LEMMA SubmitInductive ==
    ASSUME IInv, NEW r \in Requests, NEW p \in 1 .. MaxPrompts, Submit(r, p)
    PROVE  IInv'
<1>1. /\ dbus' = IdleHandler
      /\ UNCHANGED <<agentVars, environment, events, failed, ceremony, shown, history>>
  BY DEF Submit
<1>2. DBusTypes' /\ EventTypes'
  BY <1>1 DEF DBusTypes, EventTypes, DBusSteps, IdleHandler
<1>3. CASE ~AcceptsSecret(dbus.user, r, p)
  <2>1. UNCHANGED registryVars
    BY <1>3 DEF Submit
  <2>2. TypeOK'
    BY <1>1, <2>1 DEF TypeOK, RegistryTypeOK
  <2> QED
    BY <1>1, <1>2, <2>1, <2>2, Unaffected
<1>4. CASE AcceptsSecret(dbus.user, r, p)
  <2>1. /\ current.requestId = r /\ current.requestId # 0 /\ current.promptId = p
        /\ current.state = "secret_required" /\ ~current.secretSubmitted
    BY <1>4 DEF AcceptsSecret, Matches
  <2>2. /\ RegistryTypeOK' /\ SameInteraction
        /\ secretResponse'.requestId = r /\ secretResponse'.promptId = p
        /\ current'.presenceResponse = current.presenceResponse
        /\ current'.responseClosed = current.responseClosed
        /\ current'.cancelRequested = current.cancelRequested
        /\ current'.secretSubmitted
    BY <1>4, SubmitFields DEF Submit, TypeOK
  <2>3. TypeOK'
    BY <1>1, <2>2 DEF TypeOK, SameInteraction
  <2>4. Issued' /\ Plan' /\ NeverInvalidTransition' /\ Granted'
    BY <1>1, <2>2 DEF Issued, Plan, NeverInvalidTransition, Granted, SameInteraction
  <2>5. Owned'
    BY <1>1, <2>1, <2>2 DEF Owned, SameInteraction
  <2>6. Answers' /\ Stage'
    BY <1>1, <2>2 DEF Answers, Stage, Opening, SameInteraction
  <2>7. SecretPending'
    BY <2>1, <2>2 DEF SecretPending, SameInteraction
  <2>8. SecretTaken'
    BY <1>1, <2>1, <2>2 DEF SecretTaken, SameInteraction
  <2> QED
    BY <1>2, <2>3, <2>4, <2>5, <2>6, <2>7, <2>8
<1> QED
  BY <1>3, <1>4

\* request_cancel(): only while the response is open, so never after an
\* approval was accepted.
LEMMA CancelInductive == ASSUME IInv, NEW r \in Requests, Cancel(r) PROVE IInv'
<1>1. /\ dbus' = IdleHandler
      /\ UNCHANGED <<agentVars, environment, events, failed, ceremony, shown, consent, successes>>
  BY DEF Cancel
<1>2. DBusTypes' /\ EventTypes'
  BY <1>1 DEF DBusTypes, EventTypes, DBusSteps, IdleHandler
<1>3. CASE ~AcceptsCancel(dbus.user, r)
  <2>1. UNCHANGED <<registryVars, history>>
    BY <1>1, <1>3 DEF Cancel
  <2>2. TypeOK'
    BY <1>1, <2>1 DEF TypeOK, RegistryTypeOK
  <2> QED
    BY <1>1, <1>2, <2>1, <2>2, Unaffected
<1>4. CASE AcceptsCancel(dbus.user, r)
  <2>1. /\ current.requestId = r /\ current.requestId # 0 /\ current.state # "none"
        /\ ~current.responseClosed /\ cancels' = cancels \cup {r}
    BY <1>4 DEF Cancel, AcceptsCancel, Matches
  <2>2. /\ RegistryTypeOK' /\ SameInteraction /\ secretResponse' = secretResponse
        /\ current'.presenceResponse = current.presenceResponse
        /\ current'.responseClosed /\ current'.cancelRequested
        /\ current'.secretSubmitted = current.secretSubmitted
    BY <1>4, CancelFields DEF Cancel, TypeOK
  <2>3. TypeOK'
    BY <1>1, <2>2 DEF TypeOK, SameInteraction
  <2>4. Issued'
    BY SMTT(60), <1>1, <2>1, <2>2 DEF Issued, SameInteraction, Requests, TypeOK, RegistryTypeOK
  <2>5. Owned'
    BY <1>1, <2>1, <2>2 DEF Owned, SameInteraction
  <2>6. Answers'
    BY <1>1, <2>1, <2>2 DEF Answers, SameInteraction
  <2>7. SecretPending' /\ Plan' /\ NeverInvalidTransition'
    BY <1>1, <2>2 DEF SecretPending, Plan, NeverInvalidTransition, SameInteraction
  <2>8. Stage' /\ SecretTaken'
    BY <1>1, <2>2 DEF Stage, Opening, SecretTaken, SameInteraction
  <2>9. Granted'
    BY <1>1, <2>1, <2>2 DEF Granted
  <2> QED
    BY <1>2, <2>3, <2>4, <2>5, <2>6, <2>7, <2>8, <2>9
<1> QED
  BY <1>3, <1>4

-----------------------------------------------------------------------------
(* The invariant, and what follows from it.                                *)

\* Nothing is registered, pending or queued at start.
LEMMA InitInductive == ASSUME Init PROVE IInv
<1> USE DEF Init, RegistryInit
<1>1. TypeOK
  <2>1. /\ RegistryTypeOK /\ nextGeneration \in 1 .. MaxRegistrations + 1
        /\ request \in 0 .. MaxInteractions
    BY SMTT(60), RegistryBounds, NoInteractionFields DEF RegistryTypeOK
  <2>2. shown \in [Requests -> States \cup {"none"}]
    OBVIOUS
  <2> QED
    BY <2>1, <2>2, NoInteractionFields DEF TypeOK, Outcomes
<1>2. DBusTypes /\ EventTypes
  BY SMTT(60) DEF DBusTypes, EventTypes, DBusSteps, IdleHandler
<1>3. Issued
  BY SMTT(60), NoInteractionFields DEF Issued, NoUser
<1>4. Owned /\ Answers /\ SecretPending
  BY NoInteractionFields DEF Owned, Answers, SecretPending
<1>5. Plan /\ Stage /\ SecretTaken /\ Granted /\ NeverInvalidTransition
  BY NoInteractionFields DEF Plan, Stage, SecretTaken, Granted, NeverInvalidTransition
<1> QED
  BY <1>1, <1>2, <1>3, <1>4, <1>5

\* Every step of the D-Bus thread, the ceremony and the environment keeps IInv.
LEMMA NextInductive == ASSUME IInv, [Next]_vars PROVE IInv'
<1>1. CASE DBusThread
  BY <1>1, HandlerInductive, RegisterInductive, ClearInductive, UnregisterInductive,
     SendEventInductive, LoopFailsInductive, RespondInductive, CancelInductive, SubmitInductive
     DEF DBusThread
<1>2. CASE CeremonyStep
  BY <1>2, StartInductive, BeginInteractionInductive, BeginRegistryInductive,
     PublishStateInductive, PublishTransitionInductive, WaitForPresenceInductive, CheckInductive,
     DiscardClearInductive, DiscardUnregisterInductive, VerifyInductive, ReceiveInductive,
     RefusedInductive, WaitForSecretInductive, EndInteractionInductive
     DEF CeremonyStep
<1>3. CASE StartCeremony \/ RequestStop \/ DeadlinePasses \/ \E a \in Agents : SessionChanges(a)
  BY <1>3, StartCeremonyInductive, RequestStopInductive, HandlerInductive
<1>4. CASE UNCHANGED vars
  <2>1. TypeOK' /\ DBusTypes' /\ EventTypes'
    BY <1>4 DEF vars, TypeOK, RegistryTypeOK, DBusTypes, EventTypes
  <2> QED
    BY <1>4, <2>1, Unaffected DEF vars
<1> QED
  BY <1>1, <1>2, <1>3, <1>4 DEF Next

\* The inductive invariant of the ceremony and the D-Bus thread.
THEOREM Inductive == Spec => []IInv
<1>1. Init => IInv
  BY InitInductive
<1>2. IInv /\ [Next]_vars => IInv'
  BY NextInductive
<1> QED
  BY <1>1, <1>2, PTL DEF Spec

\* begin() never finds another interaction in its way, for any number of
\* agents, registrations and ceremonies.
THEOREM BeginNeverRefused == Spec => []NothingPending
<1>1. IInv => NothingPending
  BY DEF Owned, NothingPending
<1> QED
  BY <1>1, Inductive, PTL

\* Whatever the agents, the broker and the platform do, an approval is the
\* user's: presence that this registration approved and did not cancel, or a
\* success of PAM, in the very interaction.
THEOREM OnlyTheUserApproves == Spec => []ApprovedByUser
<1>1. IInv => ApprovedByUser
  BY DEF Granted, ApprovedByUser
<1> QED
  BY <1>1, Inductive, PTL

\* A secret never reaches a prompt it was not submitted for.
THEOREM SecretReachesItsPrompt == Spec => []SecretForPrompt
<1>1. IInv => SecretForPrompt
  BY DEF SecretPending, SecretForPrompt
<1> QED
  BY <1>1, Inductive, PTL

\* transition() never throws for the order of the states.
THEOREM TransitionsValid == Spec => []NeverInvalidTransition
BY Inductive, PTL DEF IInv

\* A step that shows and queues nothing, and opens no interaction.
Silent ==
    /\ UNCHANGED <<events, shown, nextRequestId>>
    /\ \/ UNCHANGED agentVars
       \/ registered' = NoUser /\ UNCHANGED nextGeneration
       \/ registered'.generation = nextGeneration /\ nextGeneration' = nextGeneration + 1
    /\ \/ current'.requestId = 0
       \/ /\ current'.requestId = current.requestId /\ current'.user = current.user
          /\ current'.state = current.state

\* The types of the events in the queue.
LEMMA EventFields ==
    ASSUME EventTypes, NEW i \in 1 .. Len(events)
    PROVE  /\ events[i].user \in Users /\ Of(i) \in Requests /\ events[i].state \in States
           /\ events[i].user # NoUser
<1>1. events[i] \in StateEvents
  BY SMTT(60) DEF EventTypes
<1> QED
  BY <1>1, NoUserIsNobody DEF StateEvents, Of

\* A registration never returns, so a silent step changes nothing for the
\* agents whose events are queued.
LEMMA SilentFlow == ASSUME IInv, FlowInv, Silent PROVE FlowInv'
<1>1. /\ nextGeneration \in Nat /\ nextGeneration <= nextGeneration'
      /\ nextGeneration' \in Nat
  BY SMTT(60) DEF Silent, TypeOK
<1>2. ASSUME NEW u \in Users, u.generation < nextGeneration, registered' = u
      PROVE  registered = u
  BY SMTT(60), <1>2, NoUserIsNobody DEF Silent, Users, TypeOK
<1>3. InOrder'
  <2>1. ASSUME NEW i \in 1 .. Len(events)
        PROVE  events[i].user.generation < nextGeneration'
    BY SMTT(60), <1>1, EventFields DEF FlowInv, InOrder, Users
  <2> QED
    BY <2>1 DEF FlowInv, InOrder, Silent, Of
<1>4. Following'
  <2> SUFFICES ASSUME NEW i \in 1 .. Len(events), registered' = events[i].user
               PROVE  events[i].state \in Flow!Follows(Told(i))
    BY DEF Silent, Following, Told, Of
  <2>1. registered = events[i].user
    BY <1>2, EventFields DEF FlowInv, InOrder
  <2> QED
    BY <2>1 DEF FlowInv, Following
<1>5. Joined'
  <2> SUFFICES ASSUME current'.requestId # 0 PROVE Joined'
    BY DEF Joined
  <2>1. /\ current'.requestId = current.requestId /\ current'.user = current.user
        /\ current'.state = current.state /\ current.requestId # 0
    BY DEF Silent
  <2>2. registered' = current.user => registered = current.user
    BY <1>2, <2>1 DEF Owned, Issued
  <2>3. Latest' = Latest
    BY <2>1 DEF Latest, Of, Silent
  <2> QED
    BY <2>1, <2>2, <2>3 DEF FlowInv, Joined, Of, Silent
<1> QED
  BY <1>3, <1>4, <1>5 DEF FlowInv

\* Every step but three is silent.
LEMMA CeremonyIsSilent ==
    ASSUME IInv, StartCeremony \/ CeremonyStep \/ RequestStop \/ DeadlinePasses,
           ~BeginRegistry, ~PublishTransition
    PROVE  Silent
<1>1. CASE \/ StartCeremony \/ Start \/ BeginInteraction \/ PublishState \/ Check
           \/ Verify \/ Receive \/ Refused \/ RequestStop \/ DeadlinePasses
  BY <1>1 DEF Silent, StartCeremony, Start, BeginInteraction, PublishState, Check,
     Verify, Receive, Refused, RequestStop, DeadlinePasses, WorkerOnly
<1>2. CASE DiscardUnregister
  BY <1>2 DEF Silent, DiscardUnregister, Unregistered
<1>3. CASE DiscardClear
  BY <1>3, NoInteractionFields DEF Silent, DiscardClear, ClearFor, Drop, WorkerOnly
<1>4. CASE EndInteraction
  BY <1>4, NoInteractionFields DEF Silent, EndInteraction, End, Drop
<1>5. CASE WaitForPresence \/ WaitForSecret
  <2>1. UNCHANGED <<events, shown, agentVars>>
    BY <1>5 DEF WaitForPresence, WaitForSecret, WorkerOnly
  <2>2. UNCHANGED registryVars \/ \E status : AfterWait(status)
    BY <1>5 DEF WaitForPresence, WaitForSecret
  <2>3. UNCHANGED registryVars \/ SameInteraction
    BY <2>2, WaitFields DEF TypeOK
  <2> QED
    BY <2>1, <2>3 DEF Silent, SameInteraction
<1> QED
  BY <1>1, <1>2, <1>3, <1>4, <1>5 DEF CeremonyStep

\* No handler of the D-Bus thread but the sending of events shows agents a state.
LEMMA HandlerIsSilent ==
    ASSUME IInv, DBusThread \/ (\E a \in Agents : SessionChanges(a)), ~SendEvent
    PROVE  Silent
<1>1. CASE \E a \in Agents : \/ RegisterAgent(a) \/ UnregisterAgent(a) \/ Disconnected(a)
                             \/ SessionChanges(a) \/ \E m \in Methods : Call(a, m)
  BY <1>1 DEF Silent, RegisterAgent, UnregisterAgent, Disconnected, SessionChanges,
     Call, HandlerOnly
<1>2. CASE Register
  BY SMTT(60), <1>2 DEF Silent, Register
<1>3. CASE Clear
  BY <1>3, NoInteractionFields DEF Silent, Clear, ClearFor, Drop
<1>4. CASE Unregister \/ LoopFails
  BY <1>4 DEF Silent, Unregister, Unregistered, LoopFails
<1>5. CASE \E r \in Requests : \E response \in {"approved", "denied"} : Respond(r, response)
  <2>1. PICK r \in Requests, response \in {"approved", "denied"} : Respond(r, response)
    BY <1>5
  <2>2. UNCHANGED registryVars \/ SameInteraction
    BY <2>1, RespondFields DEF Respond, TypeOK
  <2> QED
    BY <2>1, <2>2 DEF Respond, Silent, SameInteraction
<1>6. CASE \E r \in Requests : Cancel(r)
  <2>1. PICK r \in Requests : Cancel(r)
    BY <1>6
  <2>2. UNCHANGED registryVars \/ SameInteraction
    BY <2>1, CancelFields DEF Cancel, TypeOK
  <2> QED
    BY <2>1, <2>2 DEF Cancel, Silent, SameInteraction
<1>7. CASE \E r \in Requests : \E p \in 1 .. MaxPrompts : Submit(r, p)
  <2>1. PICK r \in Requests, p \in 1 .. MaxPrompts : Submit(r, p)
    BY <1>7
  <2>2. UNCHANGED registryVars \/ SameInteraction
    BY <2>1, SubmitFields DEF Submit, TypeOK
  <2> QED
    BY <2>1, <2>2 DEF Submit, Silent, SameInteraction
<1> QED
  BY <1>1, <1>2, <1>3, <1>4, <1>5, <1>6, <1>7 DEF DBusThread

\* begin() opens a request that nothing was queued or shown for.
LEMMA BeginFlow == ASSUME IInv, FlowInv, BeginRegistry PROVE FlowInv'
<1>1. current = NoInteraction /\ user \in Users /\ nextRequestId <= MaxInteractions
  BY DEF BeginRegistry, Owned, Issued
<1>2. Begin(user) /\ UNCHANGED <<events, shown, agentVars>>
  BY <1>1 DEF BeginRegistry
<1>3. /\ current'.requestId = nextRequestId /\ current'.state = "none"
      /\ nextRequestId' = nextRequestId + 1 /\ nextRequestId \in Requests
  <2>1. RegistryTypeOK /\ nextRequestId' = nextRequestId + 1
    BY <1>2 DEF TypeOK, Begin
  <2>2. nextRequestId \in Requests
    BY SMTT(60), <1>1, <2>1 DEF RegistryTypeOK, Requests
  <2> QED
    BY <1>1, <1>2, <2>1, <2>2, BeginFields
<1>4. InOrder'
  BY SMTT(60), <1>2, <1>3, EventFields DEF FlowInv, InOrder, Of, Requests
<1>5. Following'
  BY <1>2 DEF FlowInv, Following, Told, Of
<1>6. Joined'
  <2>1. ASSUME NEW i \in 1 .. Len(events) PROVE Of(i) # nextRequestId
    BY SMTT(60), EventFields, <1>3 DEF FlowInv, InOrder, Requests
  <2>2. shown[nextRequestId] = "none"
    BY SMTT(60), <1>3 DEF FlowInv, InOrder, Requests
  <2>3. Latest' = "none"
    BY SMTT(60), <1>2, <1>3, <2>1, <2>2 DEF Latest, Of, EventTypes
  <2> QED
    BY SMTT(60), <1>2, <1>3, <2>1, <2>3 DEF Joined, Of, Requests
<1> QED
  BY <1>4, <1>5, <1>6 DEF FlowInv

\* The queue has a length.
LEMMA QueueLength == ASSUME EventTypes PROVE Len(events) \in Nat
BY SMTT(60) DEF EventTypes

\* transition() queues a state that follows the one before.
LEMMA PublishFlow == ASSUME IInv, IInv', FlowInv, PublishTransition PROVE FlowInv'
<1>1. UNCHANGED <<shown, agentVars, nextRequestId>> /\ pc = "transition"
  BY DEF PublishTransition, WorkerOnly, Transition
<1>2. CASE UNCHANGED <<registryVars, events>>
  BY <1>1, <1>2, SilentFlow DEF Silent
<1>3. CASE /\ Transition(publishing.state) /\ Matches(user, request)
           /\ ValidTransition(current.state, publishing.state)
           /\ Enqueue([user |-> user, requestId |-> request, state |-> publishing.state,
                       promptId |-> PromptOf(publishing.state)])
  <2>0. PICK n \in Nat : n = Len(events)
    BY QueueLength
  <2>1. /\ current.requestId = request /\ current.requestId # 0 /\ current.user = user
        /\ user \in Users /\ request = nextRequestId - 1 /\ request \in Requests
        /\ nextRequestId \in Nat
    <3>1. /\ current.requestId = request /\ current.requestId # 0 /\ current.user = user
          /\ user \in Users /\ request = nextRequestId - 1 /\ request \in 0 .. MaxInteractions
          /\ nextRequestId \in 1 .. MaxInteractions + 1
      BY <1>3 DEF Matches, Owned, FlowInv, Joined, TypeOK, RegistryTypeOK
    <3>2. request \in Requests /\ nextRequestId \in Nat
      BY SMTT(60), <3>1, RegistryBounds DEF Requests
    <3> QED
      BY <3>1, <3>2
  <2>2. /\ n = Len(events) /\ Len(events') = n + 1
        /\ \A i \in 1 .. n : events'[i] = events[i]
        /\ events'[n + 1].user = user /\ events'[n + 1].requestId = request
        /\ events'[n + 1].state = publishing.state
    BY SMTT(60), <1>3, <2>0 DEF Enqueue, EventTypes
  <2>3. current'.requestId # 0 => /\ current'.requestId = request /\ current'.user = user
                                  /\ current'.state = publishing.state
    <3>1. CASE publishing.state \in Terminal
      BY <1>3, <3>1, NoInteractionFields DEF Transition
    <3>2. CASE publishing.state \notin Terminal
      <4>1. publishing.state \in States \ Terminal
        BY <1>1, <3>2 DEF Plan, States, Progress, Terminal
      <4>2. publishing.state = "secret_required" => nextPromptId <= MaxPrompts
        BY <1>1 DEF Issued
      <4> QED
        BY <1>3, <2>1, <4>1, <4>2, TransitionFields DEF TypeOK
    <3> QED
      BY <3>1, <3>2
  <2>4. publishing.state \in Flow!Follows(current.state)
    BY <1>3 DEF ValidTransition, Flow!Follows, Flow!Opening, Flow!Verifying, Flow!Ended,
       Progress
  <2>5. ASSUME NEW i \in 1 .. n
        PROVE  Of(i) <= request /\ (Of(i) = request => events[i].user = user)
    BY SMTT(60), <2>1, <2>2, EventFields DEF FlowInv, InOrder, Joined, Requests
  <2>6. InOrder'
    <3>1. ASSUME NEW r \in Requests, r > request PROVE shown[r] = "none"
      BY SMTT(60), <2>1, <3>1 DEF FlowInv, InOrder, Requests
    <3>2. request < nextRequestId /\ user.generation < nextGeneration
      BY <2>1 DEF Issued
    <3>3. ASSUME NEW i \in 1 .. n + 1
          PROVE  /\ events'[i].requestId < nextRequestId
                 /\ events'[i].user.generation < nextGeneration
                 /\ \A r \in Requests : r > events'[i].requestId => shown[r] = "none"
      <4>1. CASE i = n + 1
        BY <2>2, <3>1, <3>2, <4>1
      <4>2. CASE i \in 1 .. n
        BY <2>2, <4>2 DEF FlowInv, InOrder, Of
      <4> QED
        BY SMTT(60), <2>2, <4>1, <4>2
    <3>4. ASSUME NEW i \in 1 .. n + 1, NEW j \in 1 .. i
          PROVE  /\ events'[j].requestId <= events'[i].requestId
                 /\ events'[j].requestId = events'[i].requestId => events'[j].user = events'[i].user
      <4>1. CASE i = n + 1 /\ j = n + 1
        BY SMTT(60), <2>1, <2>2, <4>1 DEF Requests
      <4>2. CASE i = n + 1 /\ j \in 1 .. n
        BY <2>2, <2>5, <4>2 DEF Of
      <4>3. CASE i \in 1 .. n /\ j \in 1 .. n
        BY <2>2, <4>3 DEF FlowInv, InOrder, Of
      <4> QED
        BY SMTT(60), <2>2, <4>1, <4>2, <4>3
    <3>5. \A r \in Requests : r >= nextRequestId => shown[r] = "none"
      BY DEF FlowInv, InOrder
    <3> QED
      BY <1>1, <2>2, <3>3, <3>4, <3>5 DEF InOrder, Of
  <2>7. registered = user => Latest = current.state
    BY <2>1 DEF FlowInv, Joined
  <2>8. Following'
    <3>1. ASSUME NEW i \in 1 .. n PROVE Told(i)' = Told(i)
      BY SMTT(60), <1>1, <2>2 DEF Told, Of
    <3>2. Told(n + 1)' = Latest
      <4>1. Told(n + 1)' = IF n > 0 /\ events'[n].requestId = request THEN events'[n].state
                                                                  ELSE shown[request]
        BY SMTT(60), <1>1, <2>2 DEF Told, Of
      <4>2. events # <<>> <=> n > 0
        BY SMTT(60), <2>2 DEF EventTypes
      <4>3. n > 0 => events'[n] = events[n]
        BY SMTT(60), <2>2
      <4> QED
        BY <2>1, <2>2, <4>1, <4>2, <4>3 DEF Latest, Of
    <3>3. ASSUME NEW i \in 1 .. n, registered = events[i].user
          PROVE  events[i].state \in Flow!Follows(Told(i)')
      BY <2>2, <3>1, <3>3 DEF FlowInv, Following
    <3>4. registered = user => publishing.state \in Flow!Follows(Told(n + 1)')
      BY <2>4, <2>7, <3>2
    <3> HIDE DEF Told
    <3> SUFFICES ASSUME NEW i \in 1 .. n + 1, registered = events'[i].user
                 PROVE  events'[i].state \in Flow!Follows(Told(i)')
      BY <1>1, <2>2 DEF Following
    <3>5. CASE i = n + 1
      BY <2>2, <3>4, <3>5
    <3>6. CASE i \in 1 .. n
      BY <2>2, <3>3, <3>6
    <3> QED
      BY SMTT(60), <2>2, <3>5, <3>6
  <2>9. Joined'
    <3>1. current'.requestId # 0 => Latest' = publishing.state
      BY SMTT(60), <2>2, <2>3 DEF Latest, Of, EventTypes
    <3>2. ASSUME NEW i \in 1 .. n + 1, events'[i].requestId = request
          PROVE  events'[i].user = user
      BY SMTT(60), <2>1, <2>2, <3>2 DEF FlowInv, Joined, Of
    <3> QED
      BY <1>1, <2>1, <2>2, <2>3, <3>1, <3>2 DEF Joined, Of
  <2> QED
    BY <2>6, <2>8, <2>9 DEF FlowInv
<1> QED
  BY <1>2, <1>3 DEF PublishTransition

\* send_queued_events shows the first event to its agent, or drops it when
\* that agent is gone, and with it the rest of the request.
LEMMA SendFlow == ASSUME IInv, FlowInv, SendEvent PROVE FlowInv' /\ [Flow!Next]_shown
<1>0. PICK n \in Nat : n = Len(events)
  BY QueueLength
<1>1. /\ n = Len(events) /\ n > 0 /\ Head(events) = events[1] /\ Len(events') = n - 1
      /\ \A i \in 1 .. n - 1 : events'[i] = events[i + 1]
  BY SMTT(60), <1>0 DEF SendEvent, EventTypes
<1>2. UNCHANGED <<registryVars, agentVars>>
  BY DEF SendEvent
<1>3. /\ Of(1) \in Requests /\ events[1].state \in States /\ events[1].state # "none"
      /\ shown \in [Requests -> States \cup {"none"}]
  BY SMTT(60), <1>1, EventFields DEF TypeOK, States, Progress, Terminal
<1>4. \/ registered = events[1].user /\ shown' = [shown EXCEPT ![Of(1)] = events[1].state]
      \/ registered # events[1].user /\ shown' = shown
  BY <1>1 DEF SendEvent, Of
<1>5. [Flow!Next]_shown
  <2>1. \A later \in Of(1) + 1 .. MaxInteractions : shown[later] = "none"
    BY SMTT(60), <1>1, <1>3, RegistryBounds DEF FlowInv, InOrder, Requests
  <2>2. registered = events[1].user => events[1].state \in Flow!Follows(shown[Of(1)])
    BY SMTT(60), <1>1 DEF FlowInv, Following, Told
  <2> QED
    BY <1>3, <1>4, <2>1, <2>2 DEF Flow!Next, Flow!Signal, Flow!Requests, Requests
<1>6. ASSUME NEW r \in Requests, r # Of(1) PROVE shown'[r] = shown[r]
  BY <1>3, <1>4, <1>6
<1>7. ASSUME NEW i \in 1 .. n, NEW j \in 1 .. i
      PROVE  /\ Of(j) \in Nat /\ Of(i) \in Nat /\ Of(j) <= Of(i) /\ Of(i) < nextRequestId
             /\ Of(j) = Of(i) => events[j].user = events[i].user
  <2>1. j \in 1 .. n
    BY SMTT(60)
  <2>2. Of(i) \in Nat /\ Of(j) \in Nat
    BY SMTT(60), <1>1, <2>1, EventFields DEF Requests
  <2>3. /\ Of(i) < nextRequestId
        /\ \A k \in 1 .. i : /\ Of(k) <= Of(i)
                             /\ Of(k) = Of(i) => events[k].user = events[i].user
    BY <1>1 DEF FlowInv, InOrder
  <2> QED
    BY <2>2, <2>3
<1>8. InOrder'
  <2>1. ASSUME NEW i \in 2 .. n, NEW r \in Requests, r > Of(i) PROVE shown'[r] = "none"
    <3>1. Of(1) <= Of(i) /\ Of(1) \in Nat /\ Of(i) \in Nat
      BY SMTT(60), <1>1, <1>7
    <3>2. shown[r] = "none"
      BY SMTT(60), <1>1, <2>1 DEF FlowInv, InOrder
    <3> QED
      BY SMTT(60), <1>6, <2>1, <3>1, <3>2 DEF Requests
  <2>2. ASSUME NEW r \in Requests, r >= nextRequestId PROVE shown'[r] = "none"
    <3>1. Of(1) < nextRequestId /\ Of(1) \in Nat
      BY SMTT(60), <1>1, <1>7
    <3> QED
      BY SMTT(60), <1>6, <2>2, <3>1 DEF FlowInv, InOrder, Requests, TypeOK, RegistryTypeOK
  <2>3. ASSUME NEW i \in 1 .. n PROVE events[i].user.generation < nextGeneration
    BY <1>1 DEF FlowInv, InOrder
  <2>4. ASSUME NEW i \in 1 .. n - 1
        PROVE  /\ i + 1 \in 2 .. n /\ i + 1 \in 1 .. n /\ i + 1 \in 1 .. i + 1
               /\ Of(i)' = Of(i + 1) /\ events'[i].user = events[i + 1].user
    BY SMTT(60), <1>1 DEF Of
  <2>5. ASSUME NEW i \in 1 .. n - 1
        PROVE  /\ Of(i)' < nextRequestId /\ events'[i].user.generation < nextGeneration
               /\ \A r \in Requests : r > Of(i)' => shown'[r] = "none"
    BY <1>1, <1>7, <2>1, <2>3, <2>4
  <2>6. ASSUME NEW i \in 1 .. n - 1, NEW j \in 1 .. i
        PROVE  Of(j)' <= Of(i)' /\ (Of(j)' = Of(i)' => events'[j].user = events'[i].user)
    <3>1. j \in 1 .. n - 1 /\ j + 1 \in 1 .. i + 1
      BY SMTT(60)
    <3> QED
      BY <1>7, <2>4, <3>1
  <2> HIDE DEF Of
  <2> QED
    BY <1>1, <1>2, <2>2, <2>5, <2>6 DEF InOrder
<1>9. Following'
  <2> SUFFICES ASSUME NEW i \in 1 .. n - 1, registered = events[i + 1].user
               PROVE  events[i + 1].state \in Flow!Follows(Told(i)')
    BY <1>1, <1>2 DEF Following
  <2>1. events[i + 1].state \in Flow!Follows(Told(i + 1))
    BY SMTT(60), <1>1 DEF FlowInv, Following
  <2>2. Told(i)' = IF i > 1 /\ Of(i) = Of(i + 1) THEN events[i].state ELSE shown'[Of(i + 1)]
    BY SMTT(60), <1>1 DEF Told, Of
  <2>3. Told(i + 1) = IF Of(i) = Of(i + 1) THEN events[i].state ELSE shown[Of(i + 1)]
    BY SMTT(60), <1>1 DEF Told
  <2>4. /\ Of(1) \in Nat /\ Of(i) \in Nat /\ Of(i + 1) \in Nat
        /\ Of(1) <= Of(i) /\ Of(i) <= Of(i + 1)
        /\ Of(i) = Of(i + 1) => events[i].user = events[i + 1].user
    <3>1. i \in 1 .. n /\ i + 1 \in 1 .. n /\ 1 \in 1 .. i /\ i \in 1 .. i + 1
      BY SMTT(60), <1>1
    <3> QED
      BY <1>7, <3>1
  <2>5. Of(i + 1) \in Requests
    BY SMTT(60), <1>1, EventFields
  <2>6. Told(i)' = Told(i + 1)
    <3>1. CASE Of(i) # Of(i + 1)
      BY SMTT(60), <1>6, <2>2, <2>3, <2>4, <2>5, <3>1
    <3>2. CASE Of(i) = Of(i + 1) /\ i > 1
      BY <2>2, <2>3, <3>2
    <3>3. CASE Of(i) = Of(i + 1) /\ i = 1
      BY <1>3, <1>4, <2>2, <2>3, <2>4, <3>3
    <3> QED
      BY SMTT(60), <3>1, <3>2, <3>3
  <2> QED
    BY <2>1, <2>6
<1>10. Joined'
  <2> SUFFICES ASSUME current.requestId # 0 PROVE Joined'
    BY <1>2 DEF Joined
  <2>1. /\ current.requestId = nextRequestId - 1 /\ nextRequestId \in Nat
        /\ current.requestId \in Requests
        /\ \A i \in 1 .. n : Of(i) = current.requestId => events[i].user = current.user
        /\ registered = current.user => Latest = current.state
    BY SMTT(60), <1>1 DEF FlowInv, Joined, TypeOK, RegistryTypeOK, PendingInteraction, Requests
  <2>2. Of(1) = current.requestId => Of(n) = current.requestId
    BY SMTT(60), <1>1, <1>7, <2>1
  <2>3. ASSUME registered = current.user PROVE Latest' = Latest
    <3>1. CASE n = 1 /\ Of(1) = current.requestId
      <4>1. events' = <<>> /\ events # <<>> /\ n = 1
        BY SMTT(60), <1>1, <3>1 DEF SendEvent, EventTypes
      <4>2. Latest' = shown'[Of(1)] /\ Latest = events[1].state
        BY <1>1, <1>2, <3>1, <4>1 DEF Latest, Of
      <4>3. registered = events[1].user
        BY SMTT(60), <2>1, <2>3, <3>1
      <4> QED
        BY <1>3, <1>4, <4>2, <4>3
    <3>2. CASE n > 1 /\ Of(n) = current.requestId
      BY SMTT(60), <1>1, <1>2, <3>2 DEF Latest, Of, EventTypes
    <3>3. CASE Of(n) # current.requestId
      <4>1. Latest' = shown'[current.requestId] /\ Latest = shown[current.requestId]
        BY SMTT(60), <1>1, <1>2, <3>3 DEF Latest, Of, EventTypes
      <4> QED
        BY <1>6, <2>1, <2>2, <3>3, <4>1
    <3> QED
      BY SMTT(60), <1>1, <3>1, <3>2, <3>3
  <2> QED
    BY SMTT(60), <1>1, <1>2, <2>1, <2>3 DEF Joined, Of
<1> QED
  BY <1>5, <1>8, <1>9, <1>10 DEF FlowInv

\* Nothing is queued or shown at first.
LEMMA FlowInit == ASSUME Init PROVE FlowInv /\ Flow!Init
BY SMTT(60), NoInteractionFields
   DEF Init, RegistryInit, FlowInv, InOrder, Following, Joined, Flow!Init, Flow!Requests,
       Requests

\* Every step keeps the order of the events, and shows a state of the flow or
\* nothing.
LEMMA FlowNext ==
    ASSUME IInv, IInv', FlowInv, [Next]_vars
    PROVE  FlowInv' /\ [Flow!Next]_shown
<1>1. CASE SendEvent
  BY <1>1, SendFlow
<1>2. CASE BeginRegistry
  BY <1>2, BeginFlow DEF BeginRegistry
<1>3. CASE PublishTransition
  BY <1>3, PublishFlow DEF PublishTransition, WorkerOnly
<1>4. CASE ~SendEvent /\ ~BeginRegistry /\ ~PublishTransition
  <2>1. Silent
    <3>1. CASE UNCHANGED vars
      BY <3>1 DEF vars, Silent
    <3> QED
      BY <1>4, <3>1, CeremonyIsSilent, HandlerIsSilent DEF Next
  <2> QED
    BY <2>1, SilentFlow DEF Silent
<1> QED
  BY <1>1, <1>2, <1>3, <1>4

\* publish_state and send_queued_events implement the documented flow, for
\* any agents, interactions and prompts.
THEOREM AgentsSeeTheFlow == Spec => ImplementsFlow
<1>1. Init => FlowInv /\ Flow!Init
  BY FlowInit
<1>2. IInv /\ IInv' /\ FlowInv /\ [Next]_vars => FlowInv' /\ [Flow!Next]_shown
  BY FlowNext
<1> QED
  BY <1>1, <1>2, Inductive, PTL DEF Spec, ImplementsFlow, Flow!Spec
=============================================================================
