---------------------------- MODULE AgentService ----------------------------
(***************************************************************************)
(* AgentService and PamUserInteraction: a ceremony of the CTAP worker that *)
(* asks the registered agent for presence or for verification, and the     *)
(* D-Bus thread that serves the agents.  The two threads share             *)
(* AgentRegistry, InteractionRegistry and the queue of StateChanged        *)
(* events, each behind a mutex of its own: a step takes one of them, once. *)
(*                                                                         *)
(* Agents are arbitrary callers.  Calls that registered_caller rejects     *)
(* change nothing and are left out.  Module AgentUi puts the bundled       *)
(* client in the place of one agent.                                       *)
(***************************************************************************)
EXTENDS InteractionRegistry, Sequences

CONSTANT MaxQueued      \* bound: events queued when a status is published

ASSUME QueueBound == MaxQueued \in Nat

VARIABLES
    registered,         \* current_ of AgentRegistry
    nextGeneration,     \* nextGeneration_ of AgentRegistry
    activeSession,      \* agents whose login session is active and local
    connected,          \* agents whose bus connection is open
    events,             \* events_, the queued StateEvents
    failed,             \* failure_ is set: the D-Bus loop has ended
    dbus,               \* the handler the D-Bus thread executes
    pc, user, request, kind, prompt,    \* the worker's ceremony
    publishing,         \* the state it publishes, and what it does then
    outcome,            \* how its ceremony ends
    seen,               \* the context it found inactive
    stop,               \* its stop token
    late,               \* its deadline has passed
    shown,              \* history: the last state signalled for a request
    cancels,            \* history: requests with an accepted cancellation
    consent,            \* history, of this ceremony: approvals accepted
    successes           \* history, of this ceremony: PAM successes

agentVars == <<registered, nextGeneration>>
environment == <<activeSession, connected>>
ceremony == <<pc, user, request, kind, prompt, publishing, outcome, seen, stop, late>>
history == <<consent, cancels, successes>>
vars == <<registryVars, agentVars, environment, events, failed, dbus, ceremony,
          shown, history>>

Requests == 1 .. MaxInteractions

IdleHandler == [step |-> "idle", agent |-> "none", user |-> NoUser, then |-> "idle"]
NoPublishing == [state |-> "none", then |-> "idle"]

Outcomes == {"none", "approved", "denied", "cancelled", "operation_cancelled",
             "timed_out", "error", "logic_error"}

(* Types, and promptId is set exactly while a secret is required: transition *)
(* issues and clears it.                                                   *)
TypeOK ==
    /\ RegistryTypeOK
    /\ registered \in Users \cup {NoUser}
    /\ nextGeneration \in 1 .. MaxRegistrations + 1
    /\ activeSession \subseteq Agents
    /\ connected \subseteq Agents
    /\ failed \in BOOLEAN
    /\ user \in Users \cup {NoUser}
    /\ request \in 0 .. MaxInteractions
    /\ kind \in {"presence", "verification"}
    /\ outcome \in Outcomes
    /\ seen \in Users \cup {NoUser}
    /\ (current.promptId # 0) = (current.state = "secret_required")
    /\ shown \in [Requests -> States \cup {"none"}]

Init ==
    /\ RegistryInit
    /\ registered = NoUser /\ nextGeneration = 1
    /\ activeSession = Agents /\ connected = Agents
    /\ events = <<>> /\ failed = FALSE /\ dbus = IdleHandler
    /\ pc = "idle" /\ user = NoUser /\ request = 0 /\ kind = "presence" /\ prompt = 0
    /\ publishing = NoPublishing /\ outcome = "none" /\ seen = NoUser
    /\ stop = FALSE /\ late = FALSE
    /\ shown = [r \in Requests |-> "none"]
    /\ consent = {} /\ cancels = {} /\ successes = {}

-----------------------------------------------------------------------------
(* The D-Bus thread.                                                       *)

Handler(step, a, u, then) == dbus' = [step |-> step, agent |-> a, user |-> u, then |-> then]

(* The handler goes on to clear_for(u) and unregister_agent(u.agent), and  *)
(* then to `then'.                                                         *)
Discard(a, u, then) == Handler("clear", a, u, then)

Serving == dbus.step = "idle" /\ ~failed

HandlerOnly == UNCHANGED <<registryVars, agentVars, environment, events, failed,
                           ceremony, shown, history>>

(* register_agent: a caller with an active session replaces an agent whose *)
(* session is not active.                                                  *)
RegisterAgent(a) ==
    /\ Serving /\ a \in connected /\ a \in activeSession
    /\ IF registered # NoUser /\ registered.agent \notin activeSession
       THEN Discard(a, registered, "register")
       ELSE Handler("register", a, NoUser, "idle")
    /\ HandlerOnly

MutRegister ==
    /\ dbus.step = "register"
    /\ dbus' = IdleHandler
    /\ IF registered = NoUser /\ nextGeneration <= MaxRegistrations
       THEN registered' = [agent |-> dbus.agent, generation |-> nextGeneration]
       ELSE UNCHANGED registered
    /\ UNCHANGED <<registryVars, nextGeneration, environment, events, failed, ceremony,
                   shown, history>>

(* AgentRegistry::register_agent.                                          *)
Register ==
    /\ dbus.step = "register"
    /\ dbus' = IdleHandler
    /\ IF registered = NoUser /\ nextGeneration <= MaxRegistrations
       THEN /\ registered' = [agent |-> dbus.agent, generation |-> nextGeneration]
            /\ nextGeneration' = nextGeneration + 1
       ELSE UNCHANGED agentVars
    /\ UNCHANGED <<registryVars, environment, events, failed, ceremony, shown, history>>

(* unregister_agent, called by the registered agent.                       *)
UnregisterAgent(a) ==
    /\ Serving /\ a \in connected
    /\ registered.agent = a
    /\ Discard("none", registered, "idle")
    /\ HandlerOnly

(* NameOwnerChanged: a connection is gone for good.                        *)
Disconnected(a) ==
    /\ Serving /\ a \in connected
    /\ connected' = connected \ {a}
    /\ IF registered.agent = a THEN Discard("none", registered, "idle")
                               ELSE UNCHANGED dbus
    /\ UNCHANGED <<registryVars, agentVars, activeSession, events, failed, ceremony,
                   shown, history>>

Clear ==
    /\ dbus.step = "clear"
    /\ ClearFor(dbus.user)
    /\ dbus' = [dbus EXCEPT !.step = "unregister"]
    /\ UNCHANGED <<agentVars, environment, events, failed, ceremony, shown, history>>

(* AgentRegistry::unregister_agent, by bus name.                           *)
Unregistered(name) == IF registered.agent = name THEN NoUser ELSE registered

Unregister ==
    /\ dbus.step = "unregister"
    /\ registered' = Unregistered(dbus.user.agent)
    /\ dbus' = IF dbus.then = "idle" THEN IdleHandler
               ELSE [dbus EXCEPT !.step = dbus.then, !.user = NoUser, !.then = "idle"]
    /\ UNCHANGED <<registryVars, nextGeneration, environment, events, failed, ceremony,
                   shown, history>>

(* registered_caller, for the three methods of a registered agent.         *)
Call(a, method) ==
    /\ Serving /\ a \in connected
    /\ registered.agent = a
    /\ IF a \in activeSession THEN Handler(method, "none", registered, "idle")
                              ELSE Discard("none", registered, "idle")
    /\ HandlerOnly

(* The call reaches the interaction registry, with any request and prompt  *)
(* that was ever issued; one that is not accepted changes nothing.         *)
Respond(r, response) ==
    /\ dbus.step = "RespondToPresence"
    /\ dbus' = IdleHandler
    /\ IF AcceptsPresence(dbus.user, r)
       THEN /\ RespondToPresence(response)
            /\ consent' = IF response = "approved" THEN consent \cup {<<r, dbus.user>>}
                                                   ELSE consent
       ELSE UNCHANGED <<registryVars, consent>>
    /\ UNCHANGED <<agentVars, environment, events, failed, ceremony, shown, cancels, successes>>

Submit(r, p) ==
    /\ dbus.step = "SubmitSecret"
    /\ dbus' = IdleHandler
    /\ IF AcceptsSecret(dbus.user, r, p) THEN SubmitSecret(r, p) ELSE UNCHANGED registryVars
    /\ UNCHANGED <<agentVars, environment, events, failed, ceremony, shown, history>>

Cancel(r) ==
    /\ dbus.step = "CancelInteraction"
    /\ dbus' = IdleHandler
    /\ IF AcceptsCancel(dbus.user, r)
       THEN RequestCancel /\ cancels' = cancels \cup {r}
       ELSE UNCHANGED <<registryVars, cancels>>
    /\ UNCHANGED <<agentVars, environment, events, failed, ceremony, shown, consent, successes>>

(* send_queued_events, one event: only to an agent that is still           *)
(* registered as the event's user.                                         *)
SendEvent ==
    LET e == Head(events)
    IN  /\ Serving /\ events # <<>>
        /\ events' = Tail(events)
        /\ IF registered = e.user
           THEN shown' = [shown EXCEPT ![e.requestId] = e.state]
           ELSE UNCHANGED shown
        /\ UNCHANGED <<registryVars, agentVars, environment, failed, dbus, ceremony, history>>

(* record_failure, when the event loop ends with an exception.             *)
LoopFails ==
    /\ Serving
    /\ failed' = TRUE
    /\ IF registered # NoUser THEN Discard("none", registered, "idle") ELSE UNCHANGED dbus
    /\ UNCHANGED <<registryVars, agentVars, environment, events, ceremony, shown, history>>

SessionChanges(a) ==
    /\ activeSession' = IF a \in activeSession THEN activeSession \ {a} ELSE activeSession \cup {a}
    /\ UNCHANGED <<registryVars, agentVars, connected, events, failed, dbus, ceremony,
                   shown, history>>

-----------------------------------------------------------------------------
(* The worker.                                                             *)

threadVars == <<agentVars, environment, failed, dbus, shown, consent, cancels>>

(* The ceremony ends: ~InteractionScope comes next.                        *)
Finish(out) ==
    /\ pc' = "end"
    /\ outcome' = out
    /\ publishing' = NoPublishing

(* publish_state comes next; `then' is what the caller does with it.       *)
Publish(state, then, out) ==
    /\ pc' = "publish"
    /\ publishing' = [state |-> state, then |-> then]
    /\ outcome' = out

Goto(step) == pc' = step /\ publishing' = NoPublishing /\ UNCHANGED outcome

WorkerOnly == UNCHANGED <<threadVars, successes, user, request, kind, stop, late>>

(* A CTAP command needs the user: MakeCredential, GetAssertion, or the     *)
(* check of an excluded credential.                                        *)
StartCeremony ==
    /\ pc = "idle"
    /\ nextRequestId <= MaxInteractions
    /\ pc' = "start"
    /\ user' = NoUser /\ request' = 0
    /\ UNCHANGED <<registryVars, threadVars, successes, events, kind, prompt, publishing,
                   outcome, seen, stop, late>>

(* current_context(): the registered agent, waited for up to two seconds,  *)
(* and discarded if its session is not active.                             *)
CurrentContext(found, none) ==
    IF failed THEN Finish("error") /\ UNCHANGED <<user, seen>>
    ELSE IF registered # NoUser /\ registered.agent \notin activeSession
    THEN /\ seen' = registered /\ Goto(IF pc = "start" THEN "start_clear" ELSE "check_clear")
         /\ UNCHANGED user
    ELSE IF registered # NoUser THEN found /\ UNCHANGED seen ELSE none /\ UNCHANGED <<user, seen>>

Start ==
    /\ pc = "start"
    /\ CurrentContext(user' = registered /\ Goto("begin"), Finish("error"))
    /\ UNCHANGED <<registryVars, threadVars, events, successes, request, kind, prompt, stop, late>>

(* begin_interaction: is_current, and then begin.                          *)
BeginInteraction ==
    /\ pc = "begin"
    /\ IF registered = user /\ ~failed THEN Goto("begin_registry") ELSE Finish("error")
    /\ UNCHANGED <<registryVars, events, prompt, seen>>
    /\ WorkerOnly

BeginRegistry ==
    /\ pc = "begin_registry"
    /\ IF current = NoInteraction
       THEN /\ Begin(user)
            /\ request' = nextRequestId
            /\ \/ kind' = "presence" /\ Publish("presence_required", "wait", "none")
               \/ kind' = "verification" /\ Publish("verification_started", "verify", "none")
       ELSE Finish("error") /\ UNCHANGED <<registryVars, request, kind>>
    /\ UNCHANGED <<threadVars, events, successes, user, prompt, seen, stop, late>>

(* publish_state: is_current, and then transition and the queue.  A prompt *)
(* that was not published is "refused".                                    *)
Unpublished == IF publishing.state = "secret_required" THEN "refused" ELSE publishing.then

PublishState ==
    /\ pc = "publish"
    /\ IF failed THEN Finish("error")
       ELSE IF registered = user THEN pc' = "transition" /\ UNCHANGED <<publishing, outcome>>
       ELSE Goto(Unpublished)
    /\ UNCHANGED <<registryVars, events, prompt, seen>>
    /\ WorkerOnly

MutEnqueue(event) == events' = <<event>> \o events

Enqueue(event) == events' = Append(events, event)

PublishTransition ==
    /\ pc = "transition"
    /\ IF ~Matches(user, request) THEN Finish("error") /\ UNCHANGED <<registryVars, events, prompt>>
       ELSE IF ~ValidTransition(current.state, publishing.state)
       THEN Finish("logic_error") /\ UNCHANGED <<registryVars, events, prompt>>
       ELSE IF Suppressed(publishing.state)
       THEN Goto(Unpublished) /\ UNCHANGED <<registryVars, events, prompt>>
       ELSE /\ Transition(publishing.state)
            /\ prompt' = PromptOf(publishing.state)
            /\ Enqueue([user |-> user, requestId |-> request, state |-> publishing.state,
                        promptId |-> PromptOf(publishing.state)])
            /\ Goto(publishing.then)
    /\ UNCHANGED seen
    /\ WorkerOnly

(* request_presence, after the wait.                                       *)
WaitForPresence ==
    LET status == PresenceWait(user, request, stop, late)
    IN  /\ pc = "wait"
        /\ IF failed THEN Finish("error") /\ UNCHANGED registryVars
           ELSE /\ status # "waiting"
                /\ AfterWait(status)
                /\ CASE status = "approved" -> Goto("check")
                     [] status = "denied" -> Publish("presence_denied", "end", "denied")
                     [] status = "client_cancelled" -> Publish("cancelled", "end", "cancelled")
                     [] status = "platform_cancelled" ->
                            Publish("cancelled", "end", "operation_cancelled")
                     [] status = "timed_out" -> Publish("timed_out", "end", "timed_out")
                     [] OTHER -> Finish("error")
        /\ UNCHANGED <<events, prompt, seen>>
        /\ WorkerOnly

(* context_is_still_current, and the state that reports the decision.      *)
Confirm ==
    IF kind = "presence" THEN Publish("presence_approved", "end", "approved")
                         ELSE Publish("verification_succeeded", "end", "approved")
Reject ==
    IF kind = "presence" THEN Publish("presence_denied", "end", "denied")
                         ELSE Publish("verification_failed", "end", "error")

Check ==
    /\ pc = "check"
    /\ CurrentContext(IF registered = user THEN Confirm /\ UNCHANGED user
                                           ELSE Reject /\ UNCHANGED user, Reject)
    /\ UNCHANGED <<registryVars, threadVars, events, successes, request, kind, prompt, stop, late>>

(* current_context discards the agent it found inactive.                   *)
DiscardClear ==
    /\ pc \in {"start_clear", "check_clear"}
    /\ ClearFor(seen)
    /\ Goto(IF pc = "start_clear" THEN "start_unregister" ELSE "check_unregister")
    /\ UNCHANGED <<events, prompt, seen>>
    /\ WorkerOnly

DiscardUnregister ==
    /\ pc \in {"start_unregister", "check_unregister"}
    /\ registered' = Unregistered(seen.agent)
    /\ seen' = NoUser
    /\ IF pc = "start_unregister" THEN Finish("error") ELSE Reject
    /\ UNCHANGED <<registryVars, nextGeneration, environment, failed, dbus, shown, history,
                   events, user, request, kind, prompt, stop, late>>

(* run_verifier_service: a turn of its loop, up to the poll.               *)
Cancelling == failed \/ registered # user \/ CancellationRequested(user, request)

Verify ==
    /\ pc = "verify"
    /\ IF stop THEN Publish("cancelled", "end", "operation_cancelled")
       ELSE IF Cancelling THEN Publish("cancelled", "end", "cancelled")
       ELSE IF late THEN Publish("timed_out", "end", "timed_out")
       ELSE Goto("receive")
    /\ UNCHANGED <<registryVars, events, prompt, seen>>
    /\ WorkerOnly

(* The poll ends: nothing has come, the connection fails, or the PAM       *)
(* verifier reports progress, asks for a secret or completes.  Information *)
(* stands for verification_error too: every operation treats them alike.   *)
Receive ==
    /\ pc = "receive"
    /\ \/ Goto("verify") /\ UNCHANGED successes
       \/ Publish("verification_failed", "end", "error") /\ UNCHANGED successes
       \/ /\ Len(events) < MaxQueued
          /\ Publish("verification_information", "verify", "none")
          /\ UNCHANGED successes
       \/ /\ nextPromptId <= MaxPrompts
          /\ IF late THEN Publish("timed_out", "end", "timed_out")
                     ELSE Publish("secret_required", "wait_secret", "none")
          /\ UNCHANGED successes
       \/ Goto("check") /\ successes' = successes \cup {request}
       \/ Publish("verification_failed", "end", "denied") /\ UNCHANGED successes
    /\ UNCHANGED <<registryVars, threadVars, events, user, request, kind, prompt, seen, stop, late>>

Refused ==
    /\ pc = "refused"
    /\ IF Cancelling THEN Publish("cancelled", "end", "cancelled")
                     ELSE Publish("verification_failed", "end", "error")
    /\ UNCHANGED <<registryVars, events, prompt, seen>>
    /\ WorkerOnly

WaitForSecret ==
    LET status == SecretWait(user, request, prompt, stop, late)
    IN  /\ pc = "wait_secret"
        /\ IF failed THEN Finish("error") /\ UNCHANGED registryVars
           ELSE /\ status # "waiting"
                /\ AfterWait(status)
                /\ CASE status = "provided" -> Goto("verify")
                     [] status = "client_cancelled" -> Publish("cancelled", "end", "cancelled")
                     [] status = "platform_cancelled" ->
                            Publish("cancelled", "end", "operation_cancelled")
                     [] status = "timed_out" -> Publish("timed_out", "end", "timed_out")
                     [] OTHER -> Publish("verification_failed", "end", "error")
        /\ UNCHANGED <<events, prompt, seen>>
        /\ WorkerOnly

(* ~InteractionScope.                                                      *)
EndInteraction ==
    /\ pc = "end"
    /\ End(user, request)
    /\ pc' = "idle"
    /\ kind' = "presence" /\ prompt' = 0 /\ outcome' = "none"
    /\ stop' = FALSE /\ late' = FALSE
    /\ consent' = {} /\ successes' = {}
    /\ UNCHANGED <<agentVars, environment, failed, dbus, shown, cancels, events, user,
                   request, publishing, seen>>

(* The event loop cancels the request, or the 30 seconds pass: where the   *)
(* worker reads it, for it makes no difference before.                     *)
Waiting == pc \in {"wait", "verify", "receive", "wait_secret"}

RequestStop ==
    /\ Waiting /\ ~stop
    /\ stop' = TRUE
    /\ UNCHANGED <<registryVars, threadVars, events, successes, pc, user, request, kind, prompt,
                   publishing, outcome, seen, late>>

DeadlinePasses ==
    /\ Waiting /\ ~late
    /\ late' = TRUE
    /\ UNCHANGED <<registryVars, threadVars, events, successes, pc, user, request, kind, prompt,
                   publishing, outcome, seen, stop>>

-----------------------------------------------------------------------------
Methods == {"RespondToPresence", "SubmitSecret", "CancelInteraction"}

DBusThread ==
    \/ \E a \in Agents : \/ RegisterAgent(a) \/ UnregisterAgent(a) \/ Disconnected(a)
                         \/ \E m \in Methods : Call(a, m)
    \/ Register \/ Clear \/ Unregister \/ SendEvent \/ LoopFails
    \/ \E r \in Requests : \/ \E response \in {"approved", "denied"} : Respond(r, response)
                           \/ Cancel(r)
                           \/ \E p \in 1 .. MaxPrompts : Submit(r, p)

CeremonyStep ==
    \/ Start \/ BeginInteraction \/ BeginRegistry
    \/ PublishState \/ PublishTransition
    \/ WaitForPresence \/ Check \/ DiscardClear \/ DiscardUnregister
    \/ Verify \/ Receive \/ Refused \/ WaitForSecret
    \/ EndInteraction

Next ==
    \/ DBusThread
    \/ StartCeremony
    \/ CeremonyStep
    \/ RequestStop
    \/ DeadlinePasses
    \/ \E a \in Agents : SessionChanges(a)

(* The worker is a thread that waits at most until its deadline, and time  *)
(* passes also while it does something else between two waits.             *)
Fairness == WF_vars(CeremonyStep) /\ SF_vars(DeadlinePasses)

Spec == Init /\ [][Next]_vars /\ Fairness

-----------------------------------------------------------------------------
(* A ceremony leaves nothing behind: between ceremonies no interaction is  *)
(* pending, so begin() never finds another one in its way.                 *)
NothingPending == pc \in {"idle", "start", "begin"} => current = NoInteraction

(* PamUserInteraction approves only what was granted in this very          *)
(* interaction: presence that this registration of the agent approved and  *)
(* did not cancel, or a verification that PAM completed with success.      *)
ApprovedByUser ==
    outcome = "approved" =>
        IF kind = "presence" THEN <<request, user>> \in consent /\ request \notin cancels
                             ELSE request \in successes

(* A secret waits only for the prompt it was submitted for; a late one     *)
(* never reaches a later prompt.                                           *)
SecretForPrompt ==
    secretResponse # NoSecret =>
        /\ secretResponse.requestId = current.requestId
        /\ secretResponse.promptId = current.promptId

(* transition() never throws "Invalid interaction state transition",       *)
(* whatever the agent, the broker and the platform do meanwhile.           *)
NeverInvalidTransition == outcome # "logic_error"

(* The documented flows, over the last state each agent was shown.         *)
Flow == INSTANCE InteractionFlow

(* What publish_state and send_queued_events show agents is the documented *)
(* flow of states: in its order, and nothing after a terminal state.       *)
ImplementsFlow == Flow!Spec

(* Every ceremony ends.                                                    *)
CeremonyEnds == pc # "idle" ~> pc = "idle"

-----------------------------------------------------------------------------
(* "The first eligible caller remains registered until it unregisters,     *)
(* disconnects, or its session stops being active": the registration that  *)
(* is dropped is one that a handler, or the worker, found to be so.        *)
RegistrationKept ==
    [][registered # NoUser /\ registered' = NoUser => registered \in {dbus.user, seen}]_vars

(* "The daemon later publishes `cancelled'": after a ceremony whose        *)
(* cancellation was accepted, an agent that is still registered has been   *)
(* shown `cancelled'.                                                      *)
CancelledIsPublished ==
    pc = "idle" /\ request \in cancels /\ registered = user /\ events = <<>> =>
        shown[request] = "cancelled"
=============================================================================
