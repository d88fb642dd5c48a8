---------------------------- MODULE AgentUiProofs ----------------------------
(***************************************************************************)
(* vauth-ui and the daemon together, for any number of interactions,       *)
(* prompts, restarts of the client and signals on their way.               *)
(*                                                                         *)
(* What is proved of the daemon for arbitrary callers holds with this      *)
(* client in their place, because its steps are calls the daemon takes     *)
(* anyway.  What the client and the daemon keep between them is laid down  *)
(* from there: the tracker lives as long as the registration; every event  *)
(* handed to the UI thread is of the tracker's request or is followed by   *)
(* the one that ends it; and every request on the bus is still running, is *)
(* cancelled, or is followed by its end.                                   *)
(***************************************************************************)
EXTENDS AgentServiceProofs, AgentClientProofs

\* A leaf that names no prover is for Zenon.
USE ZenonT(60)

USE DEF Starting, Checking, Verifying, Publishing, Holding, registryVars, agentVars,
        environment, threadVars, ceremony, history

\* The client starts with nothing queued, tracked or displayed.
LEMMA BaseInit == ASSUME UiInit PROVE Base
<1>1. IInv
  BY InitInductive DEF UiInit
<1>2. QueueTypes
  BY EmptyQueue DEF UiInit, QueueTypes
<1>3. ScreenTypes
  BY SMTT(60), RegistryBounds DEF UiInit, ScreenTypes, Trackers, NoTracker, Screens, Hidden, NoCall
<1>4. Present /\ Handling /\ Attached
  BY DEF UiInit, Init, Present, Discarding, Handling, Attached, Absent, IdleHandler,
     Leaving, Methods
<1>5. Clicks
  BY DEF UiInit, Init, Clicks, NoCall
<1> QED
  BY <1>1, <1>2, <1>3, <1>4, <1>5 DEF Base, IInv

\* The daemon sends the next event to its agent.
LEMMA DeliverBase == ASSUME Base, IInv', Deliver PROVE Base'
<1>1. /\ UNCHANGED <<registered, nextGeneration, activeSession, connected, failed, dbus, pc, consent>>
      /\ UNCHANGED <<tracker, startup, overflowed, started, posted, ui, calling, clicked, displayed>>
      /\ events # <<>> /\ dbus.step = "idle"
  BY DEF Deliver, SendEvent, Serving
<1>2. Head(events) \in StateEvents
  BY <1>1, Taken DEF Base, EventTypes, IInv
<1>3. Head(events).user # NoUser
  BY <1>2, NoUserIsNobody DEF StateEvents
<1>4. CASE bus' = bus
  BY <1>1, <1>4
     DEF Base, QueueTypes, ScreenTypes, Present, Handling, Attached, Absent, Clicks, IInv
<1>5. CASE registered = Head(events).user /\ bus' = Append(bus, Head(events))
  <2>1. tracker # NoTracker
    BY <1>1, <1>3, <1>5 DEF Base, Attached, Absent, Leaving, IInv
  <2>2. /\ bus' \in Seq(StateEvents) /\ Len(bus') = Len(bus) + 1 /\ Len(bus) \in Nat
        /\ \A i \in 1 .. Len(bus) : bus'[i] = bus[i]
        /\ bus'[Len(bus) + 1] = Head(events)
    BY SMTT(60), <1>2, <1>5, Appended DEF Base, QueueTypes, IInv
  <2>3. \A i \in 1 .. Len(bus) : bus[i].user = registered
    BY <2>1 DEF Base, Attached, IInv
  <2>4. \A i \in 1 .. Len(bus') : bus'[i].user = registered
    BY SMTT(60), <1>5, <2>2, <2>3
  <2>5. Attached'
    BY <1>1, <2>1, <2>4 DEF Base, Attached, IInv
  <2> QED
    BY <1>1, <2>2, <2>5
       DEF Base, QueueTypes, ScreenTypes, Present, Handling, Clicks, IInv
<1> QED
  BY <1>4, <1>5 DEF Deliver

\* The invariant of the client holds at its start.
LEMMA ClientInit == ASSUME UiInit PROVE ClientInv
BY BaseInit, ScreenEmpty DEF UiInit, ClientInv

\* Every step of the daemon, the bus and the client keeps it.
LEMMA ClientNext == ASSUME ClientInv, [UiNext]_allVars PROVE ClientInv'
<1>1. Base /\ ScreenInv /\ ui \in Screens /\ (ui.active => Live)
  BY DEF ClientInv, Base, ScreenTypes, ScreenInv, OnScreen, IInv
<1>2. IInv'
  <2>1. [Next]_vars
    BY <1>1, ClientIsAgent
  <2> QED
    BY <1>1, <2>1, NextInductive DEF Base, IInv
<1>3. ASSUME UNCHANGED <<startup, overflowed, started, posted, tracker, ui>> PROVE ScreenInv'
  BY <1>1, <1>3, DimsUnchanged, ScreenKept
<1>4. CASE Connect \/ Deliver \/ DaemonCalled \/ Worker \/ ((Clear \/ Unregister) /\ UNCHANGED uiVars)
  <2>1. Base'
    BY <1>1, <1>2, <1>4, ConnectBase, DeliverBase, CalledBase, WorkerBase, DiscardBase
  <2>2. UNCHANGED <<startup, overflowed, started, posted, tracker, ui>>
    BY <1>4 DEF Connect, Deliver, DaemonCalled, Worker, uiVars, queues
  <2> QED
    BY <1>3, <2>1, <2>2 DEF ClientInv
<1>5. CASE Connected
  <2>1. Base' /\ UNCHANGED <<startup, overflowed, started, posted, ui>> /\ dbus.step = "register"
    BY <1>1, <1>2, <1>5, ConnectedBase DEF Connected, Register, queues
  <2>2. Absent
    BY <1>1, <2>1 DEF Base, Handling, Attached
  <2>3. startup' = <<>> /\ posted' = <<>> /\ ~overflowed' /\ ~started' /\ ui' = Hidden
    BY <2>1, <2>2 DEF Absent
  <2>4. Len(handed') = 0
    BY SMTT(60), <2>3 DEF handed
  <2>5. HandedOn'
    BY SMTT(60), <2>4 DEF HandedOn
  <2>6. ScreenInv'
    BY <2>3, <2>5 DEF ScreenInv, HandOver, OnScreen, Live, Hidden
  <2> QED
    BY <2>1, <2>6 DEF ClientInv
<1>6. CASE UiExits
  <2>1. Base'
    BY <1>1, <1>2, <1>6, UiExitsBase
  <2>2. startup' = <<>> /\ posted' = <<>> /\ ~overflowed' /\ ~started' /\ ui' = Hidden
    BY <1>6 DEF UiExits
  <2>3. Len(handed') = 0
    BY SMTT(60), <2>2 DEF handed
  <2>4. HandedOn'
    BY SMTT(60), <2>3 DEF HandedOn
  <2>5. ScreenInv'
    BY <2>2, <2>4 DEF ScreenInv, HandOver, OnScreen, Live, Hidden
  <2> QED
    BY <2>1, <2>5 DEF ClientInv
<1>7. CASE UiThread
  <2>1. Base'
    BY <1>1, <1>2, <1>7, UiThreadBase
  <2>2. CASE ShowStartup \/ ShowPosted
    BY <1>1, <2>1, <2>2, ShowScreen DEF ClientInv
  <2>3. CASE TimerFires
    <3>1. Dims /\ UNCHANGED <<startup, overflowed, started, posted, tracker>>
      BY <1>1, <2>3, TimerDims DEF TimerFires, queues
    <3> QED
      BY <1>1, <2>1, <3>1, ScreenKept DEF ClientInv
  <2>4. CASE StartLoop
    <3>1. /\ started' /\ ~started /\ ~overflowed /\ ~overflowed'
          /\ UNCHANGED <<startup, posted, tracker, ui>>
      BY <2>4 DEF StartLoop
    <3>2. handed' = handed
      BY <3>1 DEF handed
    <3>3. HandOver' /\ HandedOn' /\ OnScreen'
      BY <1>1, <3>1, <3>2 DEF ScreenInv, HandOver, HandedOn, OnScreen, Live, Ends
    <3> QED
      BY <2>1, <3>3 DEF ClientInv, ScreenInv
  <2> QED
    BY <1>7, <2>2, <2>3, <2>4 DEF UiThread
<1>8. CASE UserAction \/ DaemonReplies
  <2>1. Base' /\ Dims
    BY <1>1, <1>2, <1>8, UserActionBase, RepliesBase
  <2>2. UNCHANGED <<startup, overflowed, started, posted, tracker>>
    BY <1>8
       DEF UserAction, ClickPresence, ClickCancel, SubmitField, CloseWindow, DaemonReplies, queues
  <2> QED
    BY <1>1, <2>1, <2>2, ScreenKept DEF ClientInv
<1>9. CASE ReceiveEvent
  BY <1>1, <1>2, <1>9, ReceiveBase, ReceiveScreen DEF ClientInv
<1>10. CASE UNCHANGED allVars
  <2>1. UNCHANGED vars /\ UNCHANGED uiVars
    BY <1>10 DEF allVars
  <2>2. UNCHANGED <<startup, overflowed, started, posted, tracker, ui, bus, calling, clicked>>
    BY <2>1 DEF uiVars, queues
  <2>3. QueueTypes' /\ ScreenTypes'
    BY <1>1, <2>1, ClientUnchanged
  <2>4. UNCHANGED <<registered, nextGeneration, activeSession, connected, failed, dbus, pc, consent>>
    BY <2>1 DEF vars
  <2>5. Present' /\ Handling' /\ Attached' /\ Clicks'
    BY <1>1, <2>2, <2>4 DEF Base, Present, Handling, Attached, Absent, Clicks
  <2> QED
    BY <1>2, <1>3, <2>2, <2>3, <2>5 DEF ClientInv, Base
<1> QED
  BY <1>4, <1>5, <1>6, <1>7, <1>8, <1>9, <1>10 DEF UiNext, Calls

\* The inductive invariant of vauth-ui and the daemon.
THEOREM ClientInductive == UiSpec => []ClientInv
<1>1. UiInit => ClientInv
  BY ClientInit
<1>2. ClientInv /\ [UiNext]_allVars => ClientInv'
  BY ClientNext
<1> QED
  BY <1>1, <1>2, PTL DEF UiSpec

\* vauth-ui is one of the agents the daemon is verified against: with it, the
\* daemon runs as AgentService says, with no other step.
THEOREM ClientRunsTheService == UiSpec => Init /\ [][Next]_vars
<1>1. UiInit => Init
  BY DEF UiInit
<1>2. ClientInv /\ [UiNext]_allVars => [Next]_vars
  BY ClientIsAgent DEF ClientInv
<1> QED
  BY <1>1, <1>2, ClientInductive, PTL DEF UiSpec

\* The daemon takes for approved only a request the user allowed while it was
\* on the screen, for any delay of the signals, the click and the reply.
THEOREM ApprovedOnScreen == UiSpec => []AllowedOnScreen
<1>1. ASSUME ClientInv PROVE AllowedOnScreen
  <2> SUFFICES ASSUME outcome = "approved", kind = "presence" PROVE request \in clicked
    BY DEF AllowedOnScreen
  <2>1. <<request, user>> \in consent
    BY <1>1 DEF ClientInv, Base, Granted, IInv
  <2>2. <<request, user>>[1] \in clicked
    BY <1>1, <2>1 DEF ClientInv, Base, Clicks, IInv
  <2> QED
    BY <2>2
<1> QED
  BY <1>1, ClientInductive, PTL

\* Enabled controls are on the screen and act on the tracker's request, or the
\* event that disables them waits to be shown, for any number of events at
\* start-up and later.
THEOREM ControlsCurrent == UiSpec => []ControlsAreCurrent
<1>1. ASSUME ClientInv PROVE ControlsAreCurrent
  <2> SUFFICES ASSUME ui.active
               PROVE  /\ ui.visible
                      /\ \/ tracker.activeRequestId = ui.request
                         \/ Terminates(startup \o posted, ui.request)
    BY DEF ControlsAreCurrent
  <2>1. /\ ui.visible
        /\ tracker.activeRequestId = ui.request \/ Ends(handed, 0, ui.request)
    BY <1>1 DEF ClientInv, ScreenInv, OnScreen, Live
  <2>2. handed \in Seq(StateEvents)
    <3>1. startup \in Seq(StateEvents) /\ posted \in Seq(StateEvents)
      BY <1>1 DEF ClientInv, Base, QueueTypes, IInv
    <3> QED
      BY SMTT(60), <3>1 DEF handed
  <2>3. DOMAIN handed = 1 .. Len(handed)
    BY SMTT(60), <2>2
  <2> QED
    BY <2>1, <2>3 DEF Ends, Terminates, handed
<1> QED
  BY <1>1, ClientInductive, PTL

\* What a step of the worker does to the pending interaction and the queue.
PublishedEvent(e) ==
    /\ e \in StateEvents /\ e.requestId = request /\ e.user = user
    /\ events' = Append(events, e)
    /\ UNCHANGED <<request, user>>
    /\ e.state \notin Terminal => current'.requestId = request

WorkerEffect ==
    /\ current'.cancelRequested => current.cancelRequested /\ current'.requestId = current.requestId
    /\ pc' = "end" /\ registered = user' /\ current'.requestId # 0 => request' \in cancels
    /\ \/ events' = events /\ \A r \in Requests : Pending(r) => Closes(r)'
       \/ \E e \in StateEvents : PublishedEvent(e)

\* The worker's steps that leave the pending interaction as it is.
LEMMA QuietEffect ==
    ASSUME IInv, UNCHANGED <<events, registered, cancels, request, user>>,
           current'.requestId = current.requestId,
           current'.cancelRequested = current.cancelRequested,
           pc' = "end" => registered # user \/ current.requestId = 0
    PROVE  WorkerEffect
BY DEF WorkerEffect, Pending, Closes

\* Before begin() there is none.
LEMMA IdleEffect ==
    ASSUME IInv, UNCHANGED <<current, events>>, pc \notin Holding
    PROVE  WorkerEffect
<1>1. current.requestId = 0 /\ current = NoInteraction
  BY DEF Owned, IInv
<1>2. \A r \in Requests : r # 0
  BY SMTT(60) DEF Requests
<1>3. ~current.cancelRequested
  BY <1>1, NoInteractionFields
<1> QED
  BY <1>1, <1>2, <1>3 DEF WorkerEffect, Pending

\* A pending interaction is the worker's, so it matches.
LEMMA OwnedMatches == ASSUME IInv, ~Matches(user, request) PROVE current.requestId = 0
BY DEF Owned, Matches, IInv

\* A return of wait_for_presence without a result, or of the worker.
LEMMA WaitEffect == ASSUME Base, WaitForPresence \/ WaitForSecret PROVE WorkerEffect
<1>1. /\ UNCHANGED <<events, registered, cancels, request, user>> /\ ~failed
  BY DEF WaitForPresence, WaitForSecret, WorkerOnly, Base, Present, IInv
<1>2. \E status : AfterWait(status)
  BY <1>1 DEF WaitForPresence, WaitForSecret
<1>3. /\ current'.requestId = current.requestId
      /\ current'.cancelRequested = current.cancelRequested
  BY <1>2, WaitFields DEF Base, TypeOK, SameInteraction, IInv
<1>4. CASE WaitForSecret
  <2>1. pc' # "end"
    BY <1>1, <1>4 DEF WaitForSecret, Goto, Publish
  <2> QED
    BY <1>1, <1>3, <2>1, QuietEffect DEF Base, IInv
<1>5. CASE WaitForPresence
  <2>1. CASE ~Matches(user, request)
    BY <1>1, <1>3, <2>1, OwnedMatches, QuietEffect DEF Base, IInv
  <2>2. CASE Matches(user, request)
    <3>1. PresenceWait(user, request, stop, late) \in
              {"platform_cancelled", "client_cancelled", "approved", "denied", "timed_out", "waiting"}
      BY <2>2 DEF PresenceWait, Base, TypeOK, RegistryTypeOK, PendingInteraction, IInv
    <3>2. pc' # "end"
      BY <1>1, <1>5, <3>1 DEF WaitForPresence, Goto, Publish
    <3> QED
      BY <1>1, <1>3, <3>2, QuietEffect DEF Base, IInv
  <2> QED
    BY <2>1, <2>2
<1> QED
  BY <1>4, <1>5

\* publish_state queues the state, and drops the interaction after a terminal
\* one; or the cancellation has been accepted.
LEMMA PublishEffect ==
    ASSUME Base, IInv', Cancellation, PublishTransition PROVE WorkerEffect
<1>1. UNCHANGED <<registered, cancels, request, user>> /\ pc = "transition"
  BY DEF PublishTransition, WorkerOnly
<1>2. CASE ~Matches(user, request)
  BY <1>1, <1>2, OwnedMatches, QuietEffect DEF PublishTransition, Base, IInv
<1>3. CASE Matches(user, request) /\ ~ValidTransition(current.state, publishing.state)
  BY <1>3 DEF PublishTransition, Finish, NeverInvalidTransition, IInv
<1>4. CASE /\ Matches(user, request) /\ ValidTransition(current.state, publishing.state)
           /\ Suppressed(publishing.state)
  <2>1. UNCHANGED <<current, events>>
    BY <1>4 DEF PublishTransition
  <2>2. request \in cancels
    BY <1>4 DEF Suppressed, Cancellation, Matches
  <2> QED
    BY <1>1, <2>1, <2>2 DEF WorkerEffect, Pending, Closes
<1>5. CASE /\ Matches(user, request) /\ ValidTransition(current.state, publishing.state)
           /\ ~Suppressed(publishing.state)
  <2> DEFINE e == [user |-> user, requestId |-> request, state |-> publishing.state,
                   promptId |-> PromptOf(publishing.state)]
  <2>1. /\ Transition(publishing.state) /\ events' = Append(events, e)
        /\ pc' = publishing.then
    BY <1>5 DEF PublishTransition, Enqueue, Goto
  <2>2. request \in Requests /\ user \in Users /\ current.requestId = request
    <3>1. /\ user \in Users /\ current.requestId = request
          /\ request # 0 /\ request \in 0 .. MaxInteractions
      BY <1>5 DEF Matches, Base, Owned, TypeOK, IInv
    <3>2. request \in Requests
      BY SMTT(60), <3>1, RegistryBounds DEF Requests
    <3> QED
      BY <3>1, <3>2
  <2>3. publishing.state \in States
    BY <1>1 DEF Base, Plan, States, Progress, Terminal, IInv
  <2>4. PromptOf(publishing.state) \in 0 .. MaxPrompts
    <3>1. /\ nextPromptId \in 1 .. MaxPrompts + 1
          /\ publishing.state = "secret_required" => nextPromptId <= MaxPrompts
      BY <1>1 DEF Base, Issued, TypeOK, RegistryTypeOK, IInv
    <3> QED
      BY SMTT(60), <3>1, RegistryBounds DEF PromptOf
  <2>5. e \in StateEvents /\ e.requestId = request /\ e.user = user /\ e.state = publishing.state
    BY <2>2, <2>3, <2>4 DEF StateEvents
  <2> HIDE DEF e
  <2>6. CASE publishing.state \in Terminal
    <3>1. current' = NoInteraction
      BY <2>1, <2>6 DEF Transition
    <3>2. current'.requestId = 0 /\ ~current'.cancelRequested
      BY <3>1, NoInteractionFields
    <3> QED
      BY <1>1, <2>1, <2>5, <2>6, <3>2 DEF WorkerEffect, PublishedEvent
  <2>7. CASE publishing.state \notin Terminal
    <3>1. publishing.state \in States \ Terminal
          /\ (publishing.state = "secret_required" => nextPromptId <= MaxPrompts)
      BY <1>1, <2>3, <2>7 DEF Base, Issued, IInv
    <3>2. current'.requestId = current.requestId /\ current'.cancelRequested = current.cancelRequested
      BY <2>1, <3>1, TransitionFields DEF Base, TypeOK, IInv
    <3>3. publishing.then # "end"
      BY <1>1, <2>7 DEF Base, Plan, Terminal, IInv
    <3> QED
      BY <1>1, <2>1, <2>2, <2>5, <3>2, <3>3 DEF WorkerEffect, PublishedEvent
  <2> QED
    BY <2>6, <2>7
<1> QED
  BY <1>2, <1>3, <1>4, <1>5

\* Every step of the worker has that effect.
LEMMA WorkerEffects == ASSUME Base, IInv', Cancellation, Worker PROVE WorkerEffect
<1>0. UNCHANGED <<registered, cancels>> /\ ~failed /\ pc \notin Discarding
  BY WorkerKeepsAgent DEF Base, Present, IInv
<1>1. CASE StartCeremony \/ Start \/ BeginInteraction
  <2>1. UNCHANGED <<current, events>> /\ pc \notin Holding
    BY <1>1 DEF StartCeremony, Start, BeginInteraction
  <2> QED
    BY <2>1, IdleEffect DEF Base, IInv
<1>2. CASE BeginRegistry
  <2>1. pc \notin Holding /\ events' = events /\ pc = "begin_registry"
    BY <1>2 DEF BeginRegistry
  <2>2. current = NoInteraction /\ current.requestId = 0 /\ user \in Users
        /\ nextRequestId <= MaxInteractions
    BY <2>1 DEF Base, Owned, Issued, IInv
  <2>3. Begin(user) /\ pc' = "publish"
    BY <1>2, <2>2 DEF BeginRegistry, Publish
  <2>4. ~current'.cancelRequested
    BY <2>2, <2>3, BeginFields DEF Base, TypeOK, IInv
  <2>5. \A r \in Requests : r # 0
    BY SMTT(60) DEF Requests
  <2> QED
    BY <2>1, <2>2, <2>3, <2>4, <2>5 DEF WorkerEffect, Pending
<1>3. CASE Verify \/ Receive \/ Refused \/ Check \/ RequestStop \/ DeadlinePasses
  <2>1. UNCHANGED <<current, events, request>>
    BY <1>3
       DEF Verify, Receive, Refused, Check, RequestStop, DeadlinePasses, WorkerOnly
  <2>2. CASE Check
    <3>1. registered # NoUser => registered.agent \in activeSession
      BY UiIsAgent DEF Base, Present, Handling, IInv
    <3>2. pc' # "end" /\ UNCHANGED user
      BY <1>0, <2>2, <3>1 DEF Check, CurrentContext, Confirm, Reject, Publish
    <3> QED
      BY <1>0, <2>1, <3>2, QuietEffect DEF Base, IInv
  <2>3. CASE Verify \/ Receive \/ Refused \/ RequestStop \/ DeadlinePasses
    <3>1. pc' # "end" /\ UNCHANGED user
      BY <2>3
         DEF Verify, Receive, Refused, RequestStop, DeadlinePasses, WorkerOnly, Goto, Publish, Waiting
    <3> QED
      BY <1>0, <2>1, <3>1, QuietEffect DEF Base, IInv
  <2> QED
    BY <1>3, <2>2, <2>3
<1>4. CASE PublishState
  <2>1. UNCHANGED <<current, events, request, user>>
    BY <1>4 DEF PublishState, WorkerOnly
  <2>2. pc' = "end" => registered # user
    BY <1>0, <1>4 DEF PublishState
  <2> QED
    BY <1>0, <2>1, <2>2, QuietEffect DEF Base, IInv
<1>5. CASE WaitForPresence \/ WaitForSecret
  BY <1>5, WaitEffect
<1>6. CASE PublishTransition
  BY <1>6, PublishEffect
<1>7. CASE EndInteraction
  <2>1. UNCHANGED <<events, request, user>> /\ pc = "end" /\ pc' = "idle"
    BY <1>7 DEF EndInteraction
  <2>2. current' = NoInteraction \/ current' = current
    BY <1>7 DEF EndInteraction, End, Drop
  <2>3. current'.cancelRequested => current' = current
    BY <2>2, NoInteractionFields
  <2>4. \A r \in Requests : Pending(r) => r \in cancels
    <3>1. \A r \in Requests : r # 0
      BY SMTT(60) DEF Requests
    <3> QED
      BY <2>1, <3>1 DEF Pending, Cancellation
  <2> QED
    BY <1>0, <2>1, <2>3, <2>4 DEF WorkerEffect, Closes
<1>8. ~DiscardClear /\ ~DiscardUnregister
  BY <1>0 DEF DiscardClear, DiscardUnregister, Discarding
<1> QED
  BY <1>1, <1>2, <1>3, <1>4, <1>5, <1>6, <1>7, <1>8 DEF Worker, CeremonyStep

\* The daemon's replies accept a cancellation of what is pending, and leave
\* the rest of it to the worker.
LEMMA ReplyEffect ==
    ASSUME Base, DaemonReplies
    PROVE  /\ UNCHANGED <<events, registered, request, user, pc, bus, tracker>>
           /\ current'.requestId = current.requestId
           /\ cancels \subseteq cancels'
           /\ current'.cancelRequested => current.cancelRequested \/ current.requestId \in cancels'
<1>1. /\ UNCHANGED <<events, registered, request, user, pc, bus, tracker>>
      /\ dbus.step \in Methods /\ RegistryTypeOK
  BY DEF DaemonReplies, Respond, Submit, Cancel, queues, Methods, Base, TypeOK, IInv
<1>2. calling # NoCall /\ calling.method = dbus.step /\ calling \in AgentCalls \cup {NoCall}
  BY <1>1 DEF Base, Handling, ScreenTypes, IInv
<1>3. calling.request \in Requests
  BY <1>2, CallFields
<1>4. CASE Respond(calling.request, calling.response)
  <2>1. calling.response \in {"approved", "denied"}
    BY <1>2, <1>4, CallFields DEF Respond
  <2>2. /\ cancels' = cancels
        /\ RespondToPresence(calling.response) \/ UNCHANGED current
    BY <1>4 DEF Respond
  <2> QED
    BY <1>1, <2>1, <2>2, RespondFields DEF SameInteraction
<1>5. CASE Submit(calling.request, calling.prompt)
  <2>1. calling.prompt \in 1 .. MaxPrompts
    BY <1>2, <1>5, CallFields DEF Submit
  <2>2. /\ cancels' = cancels
        /\ SubmitSecret(calling.request, calling.prompt) \/ UNCHANGED current
    BY <1>5 DEF Submit
  <2> QED
    BY <1>1, <1>3, <2>1, <2>2, SubmitFields DEF SameInteraction
<1>6. CASE Cancel(calling.request)
  <2>1. \/ UNCHANGED <<current, cancels>>
        \/ /\ RequestCancel /\ cancels' = cancels \cup {calling.request}
           /\ current.requestId = calling.request
    BY <1>6 DEF Cancel, AcceptsCancel, Matches
  <2> QED
    BY <1>1, <2>1, CancelFields DEF SameInteraction
<1> QED
  BY <1>4, <1>5, <1>6 DEF DaemonReplies

\* The steps that concern neither the pending interaction nor the worker.
Elsewhere == Connect \/ UiExits \/ UiThread \/ UserAction \/ DaemonCalled \/ Deliver \/ ReceiveEvent

\* The steps of the client and of the bus change neither the pending
\* interaction nor the worker.
LEMMA ElsewhereEffect ==
    ASSUME Elsewhere
    PROVE  UNCHANGED <<current, cancels, registered, request, user, pc>>
<1>1. CASE UiThread \/ UserAction \/ ReceiveEvent
  BY <1>1
     DEF UiThread, StartLoop, ShowStartup, ShowPosted, TimerFires, UserAction, ClickPresence,
         ClickCancel, SubmitField, CloseWindow, ReceiveEvent, vars
<1>2. CASE Connect \/ UiExits \/ DaemonCalled \/ Deliver
  BY <1>2
     DEF Connect, RegisterAgent, UiExits, UnregisterAgent, DaemonCalled, Call, HandlerOnly,
         Deliver, SendEvent
<1> QED
  BY <1>1, <1>2 DEF Elsewhere

\* A cancellation that was accepted is not withdrawn.
LEMMA CancellationInductive ==
    ASSUME Base, Cancellation, IInv', [UiNext]_allVars PROVE Cancellation'
<1>1. CASE Elsewhere \/ UNCHANGED allVars
  <2>1. UNCHANGED <<current, cancels, registered, request, user, pc>>
    BY <1>1, ElsewhereEffect DEF allVars, vars
  <2> QED
    BY <2>1 DEF Cancellation
<1>2. CASE Connected
  BY <1>2, NewRegistration DEF Cancellation
<1>3. CASE Clear \/ Unregister
  <2>1. UNCHANGED <<cancels, request, user, pc>>
    BY <1>3 DEF Clear, Unregister
  <2>2. CASE Clear
    <3>1. registered' = registered /\ (current' = current \/ current' = NoInteraction)
      BY <2>2 DEF Clear, ClearFor, Drop
    <3> QED
      BY <2>1, <3>1, NoInteractionFields DEF Cancellation
  <2>3. CASE Unregister
    <3>1. registered' \in {registered, NoUser} /\ current' = current
      BY <2>3 DEF Unregister, Unregistered
    <3>2. current.requestId # 0 => user # NoUser
      BY NoUserIsNobody DEF Base, Owned, IInv
    <3> QED
      BY <2>1, <3>1, <3>2 DEF Cancellation
  <2> QED
    BY <1>3, <2>2, <2>3
<1>4. CASE DaemonReplies
  BY <1>4, ReplyEffect DEF Cancellation
<1>5. CASE Worker
  <2>1. WorkerEffect /\ UNCHANGED <<registered, cancels>>
    BY <1>5, WorkerEffects, WorkerKeepsAgent
  <2> QED
    BY <2>1 DEF WorkerEffect, Cancellation
<1> QED
  BY <1>1, <1>2, <1>3, <1>4, <1>5 DEF UiNext, Calls, Elsewhere

\* The worker queues the end of what it drops, unless it was cancelled.
LEMMA WorkerCloses ==
    ASSUME Base, IInv', Cancellation, ClosingInv, Worker PROVE ClosingInv'
<1>1. WorkerEffect /\ UNCHANGED <<tracker, bus, registered, cancels>>
  BY WorkerEffects, WorkerKeepsAgent DEF uiVars, queues
<1>2. CASE events' = events /\ \A r \in Requests : Pending(r) => Closes(r)'
  BY <1>1, <1>2, ClosableKept, ClosingKept
<1>3. CASE \E e \in StateEvents : PublishedEvent(e)
  <2>1. PICK e \in StateEvents : PublishedEvent(e)
    BY <1>3
  <2>2. /\ e.requestId = request /\ e.user = user /\ events' = Append(events, e)
        /\ UNCHANGED <<request, user>>
        /\ e.state \notin Terminal => current'.requestId = request
    BY <2>1 DEF PublishedEvent
  <2>3. /\ Len(events) + 1 \in 1 .. Len(events') /\ Len(events) + 1 > Len(events)
        /\ events'[Len(events) + 1] = e
    BY SMTT(60), <2>2, Requested
  <2>4. ASSUME e.state \notin Terminal, user = registered PROVE request \in Closable'
    BY <1>1, <2>2, <2>4 DEF Closable, Pending
  <2>5. ASSUME e.state \in Terminal, user = registered
        PROVE  EndsFor(events', registered, Len(events), request)
    BY <2>2, <2>3, <2>5 DEF EndsFor
  <2>6. ASSUME NEW r \in Requests, r \in Closable
        PROVE  r \in Closable' \/ EndsFor(events', registered, Len(events), r)
    <3>1. CASE r \in cancels
      BY <1>1, <3>1 DEF Closable
    <3>2. CASE r = request /\ user = registered
      BY <2>4, <2>5, <3>2
    <3> QED
      BY <2>6, <3>1, <3>2 DEF Closable, Pending
  <2>7. e.state \notin Terminal /\ e.user = registered => e.requestId \in Closable'
    BY <2>2, <2>4
  <2> QED
    BY <1>1, <2>2, <2>6, <2>7, ClosingKept
<1> QED
  BY <1>1, <1>2, <1>3 DEF WorkerEffect

\* Every step keeps that a request the client tracks is still pending, or that
\* the event which ends it is under way.
LEMMA ClosingNext ==
    ASSUME Base, Base', FlowInv, Cancellation, ClosingInv, [UiNext]_allVars PROVE ClosingInv'
<1>1. ASSUME UNCHANGED <<tracker, bus, events, registered, current, cancels, request, user>>
      PROVE  ClosingInv'
  <2>1. Closable' = Closable
    BY <1>1 DEF Closable, Pending
  <2> QED
    BY <1>1, <2>1, ClosingKept
<1>2. CASE Connect \/ DaemonCalled \/ UiThread \/ UserAction \/ UNCHANGED allVars
  <2>1. UNCHANGED <<registered, current, cancels, request, user>>
    BY <1>2, ElsewhereEffect DEF Elsewhere, allVars, vars
  <2>2. UNCHANGED <<tracker, bus, events>>
    <3>1. CASE UiThread \/ UserAction
      BY <3>1
         DEF UiThread, StartLoop, ShowStartup, ShowPosted, TimerFires, UserAction, ClickPresence,
             ClickCancel, SubmitField, CloseWindow, vars, queues
    <3>2. CASE Connect \/ DaemonCalled \/ UNCHANGED allVars
      BY <3>2
         DEF Connect, RegisterAgent, DaemonCalled, Call, HandlerOnly, allVars, vars, uiVars, queues
    <3> QED
      BY <1>2, <3>1, <3>2
  <2> QED
    BY <1>1, <2>1, <2>2
<1>3. CASE Connected
  BY <1>3, ConnectedCloses DEF FlowInv, InOrder
<1>4. CASE UiExits \/ ((Clear \/ Unregister) /\ UNCHANGED uiVars)
  <2>1. tracker' = NoTracker
    BY <1>4 DEF UiExits, Clear, Unregister, Base, Attached, Leaving, uiVars, IInv
  <2> QED
    BY <2>1 DEF ClosingInv
<1>5. CASE DaemonReplies
  <2>1. /\ UNCHANGED <<events, registered, request, user, bus, tracker>>
        /\ current'.requestId = current.requestId /\ cancels \subseteq cancels'
    BY <1>5, ReplyEffect
  <2>2. Closable \subseteq Closable'
    BY <2>1 DEF Closable, Pending
  <2> QED
    BY <2>1, <2>2, ClosingKept
<1>6. CASE Deliver
  BY <1>6, DeliverCloses
<1>7. CASE ReceiveEvent
  BY <1>7, ReceiveCloses
<1>8. CASE Worker
  BY <1>8, WorkerCloses DEF Base, IInv
<1> QED
  BY <1>2, <1>3, <1>4, <1>5, <1>6, <1>7, <1>8 DEF UiNext, Calls

\* The invariant of the whole run holds initially.
LEMMA RunInit == ASSUME UiInit PROVE RunInv
<1>1. ClientInv /\ FlowInv
  BY ClientInit, FlowInit DEF UiInit
<1>2. Cancellation
  BY NoInteractionFields DEF UiInit, Init, RegistryInit, Cancellation
<1>3. ClosingInv
  BY DEF UiInit, ClosingInv
<1> QED
  BY <1>1, <1>2, <1>3 DEF RunInv

\* Every step keeps it.
LEMMA RunNext == ASSUME RunInv, [UiNext]_allVars PROVE RunInv'
<1>1. ClientInv' /\ Base /\ Base'
  BY ClientNext DEF RunInv, ClientInv
<1>2. [Next]_vars
  BY <1>1, ClientIsAgent
<1>3. FlowInv'
  BY <1>1, <1>2, FlowNext DEF RunInv, Base, IInv
<1>4. Cancellation'
  BY <1>1, CancellationInductive DEF RunInv, Base, IInv
<1>5. ClosingInv'
  BY <1>1, ClosingNext DEF RunInv
<1> QED
  BY <1>1, <1>3, <1>4, <1>5 DEF RunInv

\* The client's invariant, the order of the daemon's events and the fate of a
\* cancelled request hold together in every state.
THEOREM RunInductive == UiSpec => []RunInv
<1>1. UiInit => RunInv
  BY RunInit
<1>2. RunInv /\ [UiNext]_allVars => RunInv'
  BY RunNext
<1> QED
  BY <1>1, <1>2, PTL DEF UiSpec

\* The tracker is ready for the next interaction once the ceremony is over
\* and its signals have arrived, unless a cancellation suppressed its end.
THEOREM ClientReleasesRequest == UiSpec => []ClientClosesRequest
<1>1. ASSUME RunInv PROVE ClientClosesRequest
  <2> SUFFICES ASSUME tracker.activeRequestId # 0
               PROVE  LET r == tracker.activeRequestId
                      IN  \/ r \in cancels \/ (r = request /\ pc # "idle")
                          \/ Terminates(bus \o events, r)
    BY DEF ClientClosesRequest
  <2>1. Base
    BY <1>1 DEF RunInv, ClientInv
  <2>2. ASSUME NEW r, EndsFor(events, registered, 0, r) PROVE Terminates(bus \o events, r)
    <3>1. PICK j \in 1 .. Len(events) : events[j].requestId = r /\ events[j].state \in Terminal
      BY <2>2 DEF EndsFor
    <3>2. Len(bus) + j \in DOMAIN (bus \o events) /\ (bus \o events)[Len(bus) + j] = events[j]
      BY SMTT(60), <2>1, <3>1, Requested
    <3> QED
      BY <3>1, <3>2 DEF Terminates
  <2>3. ASSUME NEW r, Ends(bus, 0, r) PROVE Terminates(bus \o events, r)
    <3>1. PICK j \in 1 .. Len(bus) : bus[j].requestId = r /\ bus[j].state \in Terminal
      BY <2>3 DEF Ends
    <3>2. j \in DOMAIN (bus \o events) /\ (bus \o events)[j] = bus[j]
      BY SMTT(60), <2>1, <3>1, Requested
    <3> QED
      BY <3>1, <3>2 DEF Terminates
  <2>4. pc \in Holding => pc # "idle"
    OBVIOUS
  <2> QED
    BY <1>1, <2>2, <2>3, <2>4, HeldRequest
<1> QED
  BY <1>1, RunInductive, PTL

\* The window is not left open, for any number of interactions: when nothing
\* is running, on its way or awaited, it is hidden or its request cancelled.
THEOREM WindowIsClosed == UiSpec => []WindowCloses
<1>1. ASSUME RunInv PROVE WindowCloses
  <2> SUFFICES ASSUME Quiet, ui.visible PROVE ui.request \in cancels
    BY DEF WindowCloses
  <2>1. /\ pc = "idle" /\ ~ui.timer
        /\ events = <<>> /\ bus = <<>> /\ startup = <<>> /\ posted = <<>>
    BY DEF Quiet
  <2>2. Len(events) = 0 /\ Len(bus) = 0 /\ Len(handed) = 0
    BY SMTT(60), <2>1 DEF handed
  <2>3. /\ ui.request # 0
        /\ tracker.activeRequestId = ui.request \/ Ends(handed, 0, ui.request)
    BY <1>1, <2>1 DEF RunInv, ClientInv, ScreenInv, OnScreen, Live
  <2>4. ~\E j \in 1 .. 0 : TRUE
    BY SMTT(60)
  <2>5. \A r : ~Ends(handed, 0, r) /\ ~Ends(bus, 0, r) /\ ~EndsFor(events, registered, 0, r)
    BY <2>2, <2>4 DEF Ends, EndsFor
  <2>6. pc \notin Holding
    BY <2>1
  <2> QED
    BY <1>1, <2>3, <2>5, <2>6, HeldRequest
<1> QED
  BY <1>1, RunInductive, PTL

\* The worker goes on with a request only as long as its agent is registered.
LEMMA WorkerStale ==
    ASSUME Base, IInv', FlowInv, Cancellation, Worker,
           NEW r \in Requests, shown[r] # "none", r \in StaleRequests
    PROVE  r \in StaleRequests'
<1>1. registered' = registered /\ WorkerEffect
  BY WorkerKeepsAgent, WorkerEffects DEF Base, IInv
<1>2. /\ \A i \in 1 .. Len(events) : events[i].requestId = r => events[i].user # registered
      /\ current.requestId = r => current.user # registered
  BY DEF StaleRequests
<1>3. r # 0
  BY QueueFacts
<1>4. CASE ~BeginRegistry /\ ~PublishTransition
  <2>1. Silent
    BY <1>4, CeremonyIsSilent DEF Base, Worker, IInv
  <2> QED
    BY <1>1, <1>2, <1>3, <2>1 DEF StaleRequests, Silent
<1>5. CASE BeginRegistry
  <2>1. current = NoInteraction /\ user \in Users /\ nextRequestId <= MaxInteractions
    BY <1>5 DEF BeginRegistry, Owned, Issued, Base, IInv
  <2>2. Begin(user) /\ events' = events
    BY <1>5, <2>1 DEF BeginRegistry
  <2>3. current'.requestId = nextRequestId
    BY <2>1, <2>2, BeginFields DEF Base, TypeOK, IInv
  <2>4. r # nextRequestId
    BY SMTT(60) DEF FlowInv, InOrder, Requests
  <2> QED
    BY <1>1, <1>2, <2>2, <2>3, <2>4 DEF StaleRequests
<1>6. CASE PublishTransition
  <2>1. CASE UNCHANGED <<current, events>>
    BY <1>1, <1>2, <2>1 DEF StaleRequests
  <2>2. CASE Matches(user, request) /\ UNCHANGED <<request, user>>
    <3>1. /\ current.requestId = request /\ current.user = user
      BY <2>2 DEF Matches, Base, Owned, IInv
    <3>2. current'.requestId = r => r = request /\ current'.user = user
      BY <1>3, <2>2 DEF Owned, IInv
    <3>3. CASE events' = events
      BY <1>1, <1>2, <3>1, <3>2, <3>3 DEF StaleRequests
    <3>4. CASE \E e \in StateEvents : PublishedEvent(e)
      <4>1. PICK e \in StateEvents : PublishedEvent(e)
        BY <3>4
      <4>2. /\ Len(events') = Len(events) + 1 /\ Len(events) \in Nat
            /\ \A i \in 1 .. Len(events) : events'[i] = events[i]
            /\ events'[Len(events) + 1] = e
        <5>1. events \in Seq(StateEvents)
          BY DEF Base, EventTypes, IInv
        <5> QED
          BY <4>1, <5>1, Appended DEF PublishedEvent
      <4>3. e.requestId = r => e.user # registered
        BY <1>2, <3>1, <4>1 DEF PublishedEvent
      <4>4. \A i \in 1 .. Len(events') : events'[i].requestId = r => events'[i].user # registered
        BY SMTT(60), <1>2, <4>2, <4>3
      <4> QED
        BY <1>1, <1>2, <3>1, <3>2, <4>4 DEF StaleRequests
    <3> QED
      BY <1>1, <3>3, <3>4 DEF WorkerEffect
  <2>3. \/ UNCHANGED <<current, events>>
        \/ Matches(user, request) /\ UNCHANGED <<request, user>>
    BY <1>6 DEF PublishTransition, WorkerOnly
  <2> QED
    BY <2>1, <2>2, <2>3
<1> QED
  BY <1>4, <1>5, <1>6

\* Every step keeps the order, and shows a state of the flow or nothing.
LEMMA DisplayNext ==
    ASSUME RunInv, Base', Signalled, DisplayInv, [UiNext]_allVars
    PROVE  Signalled' /\ DisplayInv' /\ [Screen!Next]_displayed
<1>0. Base /\ ScreenInv /\ FlowInv /\ Cancellation
  BY DEF RunInv, ClientInv
<1>1. ASSUME UNCHANGED <<bus, startup, posted, overflowed, displayed, tracker, shown, events, registered>>,
             current'.requestId = current.requestId, current'.requestId # 0 => current'.user = current.user
      PROVE  Signalled' /\ DisplayInv'
  <2>1. \A r \in Requests : r # 0
    BY <1>0, QueueFacts
  <2>2. StaleRequests \subseteq StaleRequests'
    BY <1>1, <2>1 DEF StaleRequests
  <2> QED
    BY <1>1, <2>2, FlowKept
<1>2. CASE Connect \/ DaemonCalled \/ StartLoop \/ TimerFires \/ UserAction \/ UNCHANGED allVars
  <2>1. UNCHANGED <<current, events, registered, shown>>
    <3>1. CASE StartLoop \/ TimerFires \/ UserAction
      BY <3>1
         DEF StartLoop, TimerFires, UserAction, ClickPresence, ClickCancel, SubmitField, CloseWindow, vars
    <3>2. CASE Connect \/ DaemonCalled \/ UNCHANGED allVars
      BY <3>2
         DEF Connect, RegisterAgent, DaemonCalled, Call, HandlerOnly, allVars, vars
    <3> QED
      BY <1>2, <3>1, <3>2
  <2>2. UNCHANGED <<bus, startup, posted, overflowed, displayed, tracker>>
    <3>1. CASE StartLoop \/ TimerFires \/ UserAction
      BY <3>1
         DEF StartLoop, TimerFires, UserAction, ClickPresence, ClickCancel, SubmitField, CloseWindow, queues
    <3>2. CASE Connect \/ DaemonCalled \/ UNCHANGED allVars
      BY <3>2 DEF Connect, DaemonCalled, allVars, uiVars, queues
    <3> QED
      BY <1>2, <3>1, <3>2
  <2> QED
    BY <1>1, <2>1, <2>2
<1>3. CASE Connected
  BY <1>0, <1>3, ConnectedFlow DEF Connected
<1>4. CASE UiExits
  <2>1. /\ UNCHANGED <<shown, displayed>> /\ tracker' = NoTracker /\ bus' = <<>>
        /\ startup' = <<>> /\ posted' = <<>>
    BY <1>4 DEF UiExits, UnregisterAgent, HandlerOnly
  <2> QED
    BY <2>1, FlowAbsent
<1>5. CASE (Clear \/ Unregister) /\ UNCHANGED uiVars
  <2>1. tracker = NoTracker /\ UNCHANGED shown
    BY <1>0, <1>5 DEF Clear, Unregister, Base, Attached, Leaving, IInv
  <2>2. bus = <<>> /\ startup = <<>> /\ posted = <<>>
    BY <1>0, <2>1 DEF Base, Attached, Absent, IInv
  <2>3. UNCHANGED <<bus, startup, posted, tracker, displayed>>
    BY <1>5 DEF uiVars, queues
  <2> QED
    BY <2>1, <2>2, <2>3, FlowAbsent
<1>6. CASE DaemonReplies
  <2>1. /\ UNCHANGED <<events, registered, request, user, bus, tracker>>
        /\ current'.requestId = current.requestId
    BY <1>0, <1>6, ReplyEffect
  <2>2. UNCHANGED <<startup, posted, overflowed, displayed, shown>>
    BY <1>6 DEF DaemonReplies, Respond, Cancel, Submit, queues
  <2>3. current'.requestId # 0 => current'.user = current.user
    BY <1>0, <2>1 DEF Base, Owned, IInv
  <2> QED
    BY <1>1, <2>1, <2>2, <2>3
<1>7. CASE Deliver
  BY <1>0, <1>7, DeliverFlow DEF Deliver
<1>8. CASE ReceiveEvent
  BY <1>0, <1>8, ReceiveFlow DEF ReceiveEvent
<1>9. CASE Worker
  <2>1. UNCHANGED <<bus, startup, posted, overflowed, displayed, tracker, shown>>
    BY <1>0, <1>9, WorkerKeepsAgent DEF uiVars, queues
  <2>2. \A r \in Requests : shown[r] # "none" /\ r \in StaleRequests => r \in StaleRequests'
    BY <1>0, <1>9, WorkerStale DEF Base, IInv
  <2>3. \A r \in Known : r \in Requests
    BY DEF Known
  <2> QED
    BY <2>1, <2>2, <2>3, FlowKept
<1>10. CASE ShowStartup \/ ShowPosted
  BY <1>0, <1>10, ShowFlow
<1>11. CASE \/ Connect \/ DaemonCalled \/ StartLoop \/ TimerFires \/ UserAction \/ UNCHANGED allVars
            \/ Connected \/ UiExits \/ DaemonReplies \/ Deliver \/ ReceiveEvent
            \/ ((Clear \/ Unregister) /\ UNCHANGED uiVars) \/ Worker
  <2>1. displayed' = displayed
    <3>1. CASE StartLoop \/ TimerFires \/ UserAction \/ Connected \/ UiExits \/ Deliver \/ ReceiveEvent
      BY <3>1
         DEF StartLoop, TimerFires, UserAction, ClickPresence, ClickCancel, SubmitField, CloseWindow,
             Connected, UiExits, Deliver, ReceiveEvent
    <3>2. CASE \/ Connect \/ DaemonCalled \/ UNCHANGED allVars \/ DaemonReplies
               \/ ((Clear \/ Unregister) /\ UNCHANGED uiVars) \/ Worker
      BY <3>2 DEF Connect, DaemonCalled, allVars, DaemonReplies, Worker, uiVars
    <3> QED
      BY <1>11, <3>1, <3>2
  <2> QED
    BY <1>2, <1>3, <1>4, <1>5, <1>6, <1>7, <1>8, <1>9, <1>11, <2>1
<1> QED
  BY <1>10, <1>11 DEF UiNext, UiThread, Calls

\* The window shows the flow that the documentation gives: neither the bus,
\* the tracker, the hand-over of what came before the event loop nor a new
\* start of the client reorders the states, skips one that must come first
\* or shows one after a terminal state (ScreenFollowsFlow).
THEOREM ScreenRefinesFlow == UiSpec => ScreenFollowsFlow
<1>1. UiInit => Signalled /\ DisplayInv /\ Screen!Init
  <2> SUFFICES ASSUME UiInit PROVE Signalled /\ DisplayInv /\ Screen!Init
    OBVIOUS
  <2>1. /\ displayed = [r \in Requests |-> "none"] /\ bus = <<>> /\ startup = <<>> /\ posted = <<>>
        /\ tracker = NoTracker
    BY DEF UiInit
  <2>2. Screen!Init
    BY <2>1 DEF Screen!Init, Screen!Requests, Requests
  <2>3. Len(handed) = 0 /\ Len(bus) = 0
    BY SMTT(60), <2>1 DEF handed
  <2>4. Signalled
    BY SMTT(60), <2>1, <2>3 DEF Signalled, Known
  <2> QED
    BY <2>1, <2>2, <2>4 DEF DisplayInv
<1>2. RunInv /\ RunInv' /\ Signalled /\ DisplayInv /\ [UiNext]_allVars =>
          Signalled' /\ DisplayInv' /\ [Screen!Next]_displayed
  <2> SUFFICES ASSUME RunInv, RunInv', Signalled, DisplayInv, [UiNext]_allVars
               PROVE  Signalled' /\ DisplayInv' /\ [Screen!Next]_displayed
    OBVIOUS
  <2>1. Base'
    BY DEF RunInv, ClientInv
  <2> QED
    BY <2>1, DisplayNext
<1> QED
  BY <1>1, <1>2, RunInductive, PTL DEF UiSpec, ScreenFollowsFlow, Screen!Spec
=============================================================================
