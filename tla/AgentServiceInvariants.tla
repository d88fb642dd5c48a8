----------------------- MODULE AgentServiceInvariants -----------------------
(***************************************************************************)
(* The inductive invariants of the ceremony and the D-Bus thread.  IInv is *)
(* about the pending interaction and the worker, FlowInv about the queued  *)
(* events and what the agents have been told.                              *)
(***************************************************************************)
EXTENDS AgentService

Starting == {"start", "start_clear", "start_unregister", "begin", "begin_registry"}
Checking == {"check", "check_clear", "check_unregister"}
Verifying == {"verify", "receive", "refused", "wait_secret"}
Publishing == {"publish", "transition"}
Holding == Checking \cup Verifying \cup Publishing \cup {"wait", "end"}
DBusSteps == {"idle", "register", "clear", "unregister"} \cup Methods
StateEvents == [user : Users, requestId : Requests, state : States, promptId : 0 .. MaxPrompts]

\* Types of the variables that TypeOK leaves out.
DBusTypes ==
    /\ dbus \in [step : DBusSteps, agent : Agents \cup {"none"}, user : Users \cup {NoUser},
                 then : {"idle", "register"}]
    /\ "register" \in {dbus.step, dbus.then} => dbus.agent \in Agents

EventTypes == events \in Seq(StateEvents)

\* The counters: what was issued lies below them, and there is room for what
\* the worker is about to take.
Issued ==
    /\ registered.generation < nextGeneration /\ user.generation < nextGeneration
    /\ current.requestId < nextRequestId
    /\ cancels \subseteq 1 .. nextRequestId - 1
    /\ pc \in Starting => nextRequestId <= MaxInteractions
    /\ pc \in Publishing /\ publishing.state = "secret_required" => nextPromptId <= MaxPrompts

\* A pending interaction is the worker's.
Owned ==
    /\ pc \in {"begin", "begin_registry"} => user \in Users
    /\ IF current.requestId = 0
       THEN current = NoInteraction
       ELSE /\ pc \in Holding
            /\ current.requestId = request /\ current.user = user
            /\ user \in Users

\* What the registry records of the answers to the pending interaction.
Answers ==
    /\ current.presenceResponse # "none" => current.responseClosed
    /\ current.presenceResponse = "approved" => <<current.requestId, current.user>> \in consent
    /\ current.cancelRequested => current.state # "none"
    /\ current.requestId \in cancels => current.cancelRequested

\* A secret waits for the prompt of the pending interaction, which takes no
\* other one.
SecretPending ==
    secretResponse # NoSecret =>
        /\ current.requestId # 0 /\ current.state = "secret_required" /\ current.secretSubmitted
        /\ secretResponse.requestId = current.requestId
        /\ secretResponse.promptId = current.promptId

\* What the worker does with a state once it is published.
Plan ==
    /\ pc = "wait" => kind = "presence"
    /\ pc \in Verifying => kind = "verification"
    /\ pc \in Publishing =>
          CASE publishing.state = "presence_required" -> publishing.then = "wait" /\ kind = "presence"
            [] publishing.state \in {"verification_started", "verification_information"} ->
                  publishing.then = "verify" /\ kind = "verification"
            [] publishing.state = "secret_required" ->
                  publishing.then = "wait_secret" /\ kind = "verification"
            [] publishing.state \in {"presence_approved", "presence_denied"} ->
                  publishing.then = "end" /\ kind = "presence"
            [] publishing.state \in {"verification_succeeded", "verification_failed"} ->
                  publishing.then = "end" /\ kind = "verification"
            [] publishing.state \in {"cancelled", "timed_out"} -> publishing.then = "end"
            [] OTHER -> FALSE

\* The state of the pending interaction where the worker stands.
Opening == pc \in Publishing /\ publishing.state \in {"presence_required", "verification_started"}

Stage ==
    current.requestId # 0 /\ (registered = user \/ pc = "transition") =>
        IF Opening THEN current.state = "none"
        ELSE pc # "end" => IF kind = "presence" THEN current.state = "presence_required"
                                                ELSE current.state \in Progress

\* Between two prompts the worker has taken the secret of the earlier one.
SecretTaken ==
    /\ current.requestId # 0 /\ current.state = "secret_required"
    /\ \/ pc \in {"verify", "receive", "refused"}
       \/ pc \in Publishing /\ publishing.state \in Progress
    => current.secretSubmitted /\ secretResponse = NoSecret

\* What the worker approves, from the moment it stops waiting.
Granted ==
    /\ outcome = "approved" => pc = "end" \/ (pc \in Publishing /\ publishing.then = "end")
    /\ pc = "check" \/ outcome = "approved" =>
          IF kind = "presence"
          THEN /\ <<request, user>> \in consent /\ request \notin cancels
               /\ current.requestId # 0 => current.responseClosed
          ELSE request \in successes

IInv ==
    /\ TypeOK /\ DBusTypes /\ EventTypes
    /\ Issued
    /\ Owned
    /\ Answers
    /\ SecretPending
    /\ Plan
    /\ Stage
    /\ SecretTaken
    /\ Granted
    /\ NeverInvalidTransition

-----------------------------------------------------------------------------
(* What the agents are shown is the documented flow.  The queue holds the  *)
(* states in the order in which they were published; each follows the one  *)
(* before it, in the queue or shown, as long as its agent is registered;   *)
(* and the last one is the state of the pending interaction.               *)

Of(i) == events[i].requestId

\* The state the agent was told before the i-th event.
Told(i) == IF i > 1 /\ Of(i - 1) = Of(i) THEN events[i - 1].state ELSE shown[Of(i)]

\* The last state of the pending interaction that was shown or is queued.
Latest ==
    IF events # <<>> /\ Of(Len(events)) = current.requestId
    THEN events[Len(events)].state ELSE shown[current.requestId]

InOrder ==
    /\ \A i \in 1 .. Len(events) :
          /\ Of(i) < nextRequestId /\ events[i].user.generation < nextGeneration
          /\ \A r \in Requests : r > Of(i) => shown[r] = "none"
          /\ \A j \in 1 .. i : /\ Of(j) <= Of(i)
                               /\ Of(j) = Of(i) => events[j].user = events[i].user
    /\ \A r \in Requests : r >= nextRequestId => shown[r] = "none"

Following ==
    \A i \in 1 .. Len(events) :
        registered = events[i].user => events[i].state \in Flow!Follows(Told(i))

Joined ==
    current.requestId # 0 =>
        /\ current.requestId = nextRequestId - 1
        /\ \A i \in 1 .. Len(events) : Of(i) = current.requestId => events[i].user = current.user
        /\ registered = current.user => Latest = current.state

FlowInv == InOrder /\ Following /\ Joined
=============================================================================
