------------------------ MODULE InteractionRegistry ------------------------
(***************************************************************************)
(* InteractionRegistry: the one interaction that may be pending between    *)
(* the CTAP worker and the user's agent.  Every operation runs under the   *)
(* registry's mutex, so each is one step: the condition under which it     *)
(* throws or refuses, and its effect.                                      *)
(***************************************************************************)
EXTENDS Integers

CONSTANTS
    Agents,             \* unique bus names
    MaxRegistrations,   \* bound: agent registrations
    MaxInteractions,    \* bound: interactions begun
    MaxPrompts          \* bound: secret prompts published

ASSUME RegistryBounds ==
    /\ MaxRegistrations \in Nat
    /\ MaxInteractions \in Nat
    /\ MaxPrompts \in Nat

VARIABLES
    current,            \* current_, the PendingInteraction
    secretResponse,     \* secretResponse_: for which prompt it was submitted
    nextRequestId,      \* nextRequestId_
    nextPromptId        \* nextPromptId_

registryVars == <<current, secretResponse, nextRequestId, nextPromptId>>

(* UserContextBinding of a registered agent: its name and generation.  An  *)
(* agent belongs to one session, a session to one user.                    *)
Users == [agent : Agents, generation : 1 .. MaxRegistrations]
NoUser == [agent |-> "none", generation |-> 0]

Progress == {"verification_started", "verification_information",
             "verification_error", "secret_required"}
Terminal == {"presence_approved", "presence_denied", "verification_succeeded",
             "verification_failed", "cancelled", "timed_out"}
States == Progress \cup Terminal \cup {"presence_required"}

PendingInteraction ==
    [requestId : 0 .. MaxInteractions, user : Users \cup {NoUser},
     state : States \cup {"none"}, presenceResponse : {"none", "approved", "denied"},
     cancelRequested : BOOLEAN, responseClosed : BOOLEAN,
     promptId : 0 .. MaxPrompts, secretSubmitted : BOOLEAN]

NoInteraction ==
    [requestId |-> 0, user |-> NoUser, state |-> "none", presenceResponse |-> "none",
     cancelRequested |-> FALSE, responseClosed |-> FALSE,
     promptId |-> 0, secretSubmitted |-> FALSE]

Secrets == [requestId : 1 .. MaxInteractions, promptId : 1 .. MaxPrompts]
NoSecret == [requestId |-> 0, promptId |-> 0]

RegistryTypeOK ==
    /\ current \in PendingInteraction
    /\ secretResponse \in Secrets \cup {NoSecret}
    /\ nextRequestId \in 1 .. MaxInteractions + 1
    /\ nextPromptId \in 1 .. MaxPrompts + 1

RegistryInit ==
    /\ current = NoInteraction
    /\ secretResponse = NoSecret
    /\ nextRequestId = 1
    /\ nextPromptId = 1

(* The interaction u and r name is the pending one.                        *)
Matches(u, r) == r # 0 /\ current.requestId = r /\ current.user = u

ValidTransition(previous, next) ==
    CASE previous = "none" -> next \in {"presence_required", "verification_started"}
      [] previous = "presence_required" ->
            next \in {"presence_approved", "presence_denied", "cancelled", "timed_out"}
      [] previous \in Progress ->
            next \in Progress \cup {"verification_succeeded", "verification_failed",
                                    "cancelled", "timed_out"}
      [] OTHER -> FALSE

-----------------------------------------------------------------------------
(* begin(), when nothing is pending.                                       *)
Begin(u) ==
    /\ current' = [NoInteraction EXCEPT !.requestId = nextRequestId, !.user = u]
    /\ secretResponse' = NoSecret
    /\ nextRequestId' = nextRequestId + 1
    /\ UNCHANGED nextPromptId

(* transition(), when it does not throw: after a cancellation only         *)
(* `cancelled' is recorded and published.                                  *)
Suppressed(s) == current.cancelRequested /\ s # "cancelled"

Transition(s) ==
    IF s \in Terminal
    THEN /\ current' = NoInteraction
         /\ secretResponse' = NoSecret
         /\ UNCHANGED <<nextRequestId, nextPromptId>>
    ELSE IF s = "secret_required"
    THEN /\ current' = [current EXCEPT !.state = s, !.promptId = nextPromptId,
                                       !.secretSubmitted = FALSE]
         /\ secretResponse' = NoSecret
         /\ nextPromptId' = nextPromptId + 1
         /\ UNCHANGED nextRequestId
    ELSE /\ current' = [current EXCEPT !.state = s, !.promptId = 0]
         /\ UNCHANGED <<secretResponse, nextRequestId, nextPromptId>>

PromptOf(s) == IF s = "secret_required" THEN nextPromptId ELSE 0

-----------------------------------------------------------------------------
(* The agent's calls: accepted, or answered with InvalidInteraction.       *)

AcceptsPresence(u, r) ==
    /\ Matches(u, r)
    /\ current.state = "presence_required"
    /\ ~current.responseClosed

RespondToPresence(response) ==
    /\ current' = [current EXCEPT !.presenceResponse = response, !.responseClosed = TRUE]
    /\ UNCHANGED <<secretResponse, nextRequestId, nextPromptId>>

MutAcceptsSecret(u, r, p) ==
    /\ Matches(u, r)
    /\ current.state = "secret_required"
    /\ ~current.secretSubmitted
    /\ ~current.cancelRequested

AcceptsSecret(u, r, p) ==
    /\ Matches(u, r)
    /\ p # 0 /\ current.promptId = p
    /\ current.state = "secret_required"
    /\ ~current.secretSubmitted
    /\ ~current.cancelRequested

SubmitSecret(r, p) ==
    /\ current' = [current EXCEPT !.secretSubmitted = TRUE]
    /\ secretResponse' = [requestId |-> r, promptId |-> p]
    /\ UNCHANGED <<nextRequestId, nextPromptId>>

MutAcceptsCancel(u, r) == Matches(u, r) /\ current.state # "none"

AcceptsCancel(u, r) ==
    /\ Matches(u, r)
    /\ current.state # "none"
    /\ ~current.responseClosed

RequestCancel ==
    /\ current' = [current EXCEPT !.cancelRequested = TRUE, !.responseClosed = TRUE]
    /\ UNCHANGED <<secretResponse, nextRequestId, nextPromptId>>

-----------------------------------------------------------------------------
(* wait_for_presence() and wait_for_secret(): what one turn of their loop  *)
(* returns, in the order of its tests; "waiting" when it waits again.      *)

MutPresenceWait(u, r, stop, late) ==
    IF ~Matches(u, r) THEN "invalidated"
    ELSE IF stop THEN "platform_cancelled"
    ELSE IF current.cancelRequested THEN "client_cancelled"
    ELSE IF current.presenceResponse # "none" THEN current.presenceResponse
    ELSE "waiting"

PresenceWait(u, r, stop, late) ==
    IF ~Matches(u, r) THEN "invalidated"
    ELSE IF stop THEN "platform_cancelled"
    ELSE IF current.cancelRequested THEN "client_cancelled"
    ELSE IF current.presenceResponse # "none" THEN current.presenceResponse
    ELSE IF late THEN "timed_out" ELSE "waiting"

SecretWait(u, r, p, stop, late) ==
    IF ~(Matches(u, r) /\ p # 0 /\ current.promptId = p) THEN "invalidated"
    ELSE IF stop THEN "platform_cancelled"
    ELSE IF current.cancelRequested THEN "client_cancelled"
    ELSE IF secretResponse # NoSecret THEN "provided"
    ELSE IF late THEN "timed_out" ELSE "waiting"

(* The effect of returning: giving up closes the response, a secret is     *)
(* moved out.                                                              *)
AfterWait(status) ==
    /\ current' = IF status \in {"platform_cancelled", "timed_out"}
                  THEN [current EXCEPT !.responseClosed = TRUE] ELSE current
    /\ secretResponse' = IF status = "provided" THEN NoSecret ELSE secretResponse
    /\ UNCHANGED <<nextRequestId, nextPromptId>>

CancellationRequested(u, r) == ~Matches(u, r) \/ current.cancelRequested

(* end() and clear_for(): the pending interaction is dropped if it is the  *)
(* one, or is the user's.                                                  *)
Drop(mine) ==
    /\ current' = IF mine THEN NoInteraction ELSE current
    /\ secretResponse' = IF mine THEN NoSecret ELSE secretResponse
    /\ UNCHANGED <<nextRequestId, nextPromptId>>

MutEnd(u, r) == Drop(Matches(u, r) /\ current.state # "none")

End(u, r) == Drop(Matches(u, r))

ClearFor(u) == Drop(u # NoUser /\ current.user = u)
=============================================================================
