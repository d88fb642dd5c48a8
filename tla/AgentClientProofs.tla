-------------------------- MODULE AgentClientProofs --------------------------
(***************************************************************************)
(* vauth-ui on its own side of the bus, for any number of interactions,    *)
(* prompts, restarts and signals on their way: what the steps of the bus   *)
(* and of the client do to the window, and that they keep the invariants   *)
(* about what is on the screen, about the end of every request, and about  *)
(* the order in which states reach the window.                             *)
(*                                                                         *)
(* The client calls the daemon as any other agent may (ClientIsAgent), and *)
(* its steps keep who is registered and connected (the lemmas of Base).    *)
(*                                                                         *)
(* A state goes from the daemon's queue to the bus, to the UI thread and   *)
(* to the window.  At each of these places it follows the one before it of *)
(* the same request, and no request comes before an earlier one; what the  *)
(* tracker rejects is a prompt that is repeated, or a request it never     *)
(* began to show.                                                          *)
(***************************************************************************)
EXTENDS AgentUiInvariants, TLAPS

\* A leaf that names no prover is for Zenon.
USE ZenonT(60)

USE DEF Starting, Checking, Verifying, Publishing, Holding, registryVars, agentVars,
        environment, threadVars, ceremony, history

-----------------------------------------------------------------------------
(* Events and queues.                                                      *)

\* What is left when the first event is taken.
LEMMA Taken ==
    ASSUME NEW S, NEW q \in Seq(S), q # <<>>
    PROVE  /\ Head(q) \in S /\ Head(q) = q[1]
           /\ Tail(q) \in Seq(S) /\ Len(Tail(q)) = Len(q) - 1
           /\ Len(q) \in Nat \ {0}
           /\ \A i \in 1 .. Len(q) - 1 : Tail(q)[i] = q[i + 1]
<1>1. Len(q) \in Nat \ {0} /\ Head(q) = q[1] /\ Head(q) \in S
  BY SMTT(60)
<1>2. Tail(q) \in Seq(S) /\ Len(Tail(q)) = Len(q) - 1
  BY SMTT(60)
<1>3. \A i \in 1 .. Len(q) - 1 : Tail(q)[i] = q[i + 1]
  BY SMTT(60)
<1> QED
  BY <1>1, <1>2, <1>3

\* What another event makes of a queue.
LEMMA Appended ==
    ASSUME NEW S, NEW q \in Seq(S), NEW e \in S
    PROVE  /\ Append(q, e) \in Seq(S) /\ Len(Append(q, e)) = Len(q) + 1
           /\ Len(q) \in Nat
           /\ \A i \in 1 .. Len(q) : Append(q, e)[i] = q[i]
           /\ Append(q, e)[Len(q) + 1] = e
BY SMTT(60)

\* What an event of a queue is about.
LEMMA EventOf ==
    ASSUME NEW q \in Seq(StateEvents), NEW i \in 1 .. Len(q)
    PROVE  /\ q[i] \in StateEvents /\ q[i].requestId \in Requests /\ q[i].requestId # 0
           /\ q[i].state \in States /\ q[i].user \in Users
<1>1. q[i] \in StateEvents
  BY SMTT(60)
<1> QED
  BY SMTT(60), <1>1 DEF StateEvents, Requests

\* Whoever is on the bus is connected.
LEMMA BusIsAttached ==
    ASSUME Base, bus # <<>> \/ startup # <<>> \/ posted # <<>> \/ started \/ calling # NoCall
    PROVE  tracker # NoTracker /\ registered # NoUser /\ dbus.step \notin Leaving
BY DEF Base, Attached, Absent, IInv

\* The queues of the client.
LEMMA QueueFacts ==
    ASSUME Base
    PROVE  /\ handed \in Seq(StateEvents) /\ Len(handed) \in Nat /\ (handed = <<>> <=> Len(handed) = 0)
           /\ bus \in Seq(StateEvents) /\ Len(bus) \in Nat /\ (bus = <<>> <=> Len(bus) = 0)
           /\ \A i \in 1 .. Len(handed) : handed[i].requestId \in Requests
           /\ \A i \in 1 .. Len(bus) : bus[i] \in StateEvents /\ bus[i].requestId \in Requests
           /\ \A r \in Requests : r \in Nat /\ r # 0
<1>1. handed \in Seq(StateEvents) /\ bus \in Seq(StateEvents)
  BY SMTT(60) DEF handed, Base, QueueTypes, IInv
<1>2. \A q \in Seq(StateEvents) : Len(q) \in Nat /\ (q = <<>> <=> Len(q) = 0)
  BY SMTT(60)
<1>3. \A i \in 1 .. Len(handed) : handed[i].requestId \in Requests
  BY <1>1, EventOf
<1>4. \A i \in 1 .. Len(bus) : bus[i] \in StateEvents /\ bus[i].requestId \in Requests
  BY <1>1, EventOf
<1>5. \A r \in Requests : r \in Nat /\ r # 0
  BY SMTT(60) DEF Requests
<1> QED
  BY <1>1, <1>2, <1>3, <1>4, <1>5

\* An event is handed over behind the others, unless there are too many.
LEMMA Handed ==
    ASSUME QueueTypes, HandOver, NEW e \in StateEvents, Hand(e), UNCHANGED started
    PROVE  /\ HandOver'
           /\ handed' = handed \/ handed' = Append(handed, e)
           /\ ~overflowed' =>
                 /\ ~overflowed /\ handed \in Seq(StateEvents) /\ Len(handed) \in Nat
                 /\ Len(handed') = Len(handed) + 1
                 /\ \A i \in 1 .. Len(handed) : handed'[i] = handed[i]
                 /\ handed'[Len(handed) + 1] = e
                 /\ handed' = Append(handed, e)
<1>1. HandOver' /\ (~overflowed' => ~overflowed)
  BY DEF HandOver, Hand
<1>2. handed' = Append(handed, e) \/ (handed' = handed /\ overflowed')
  <2>1. CASE started
    <3>1. startup' = startup /\ posted' = Append(posted, e)
      BY <2>1 DEF Hand
    <3> QED
      BY SMTT(60), <3>1 DEF handed, QueueTypes
  <2>2. CASE ~started
    <3>1. /\ posted' = posted /\ posted = <<>>
          /\ startup' = Append(startup, e) \/ (startup' = startup /\ overflowed')
      BY <2>2 DEF Hand, HandOver
    <3> QED
      BY SMTT(60), <3>1 DEF handed, QueueTypes
  <2> QED
    BY <2>1, <2>2
<1>3. handed \in Seq(StateEvents)
  BY SMTT(60) DEF handed, QueueTypes
<1>4. /\ Len(Append(handed, e)) = Len(handed) + 1 /\ Len(handed) \in Nat
      /\ \A i \in 1 .. Len(handed) : Append(handed, e)[i] = handed[i]
      /\ Append(handed, e)[Len(handed) + 1] = e
  BY SMTT(60), <1>3
<1> HIDE DEF handed
<1> QED
  BY <1>1, <1>2, <1>3, <1>4

\* accept() records the request, or nothing after a terminal state.
LEMMA AcceptFields ==
    ASSUME tracker \in Trackers, NEW e \in StateEvents, Accept(e)
    PROVE  /\ tracker' \in Trackers /\ tracker'.generation = tracker.generation
           /\ tracker'.activeRequestId = IF e.state \in Terminal THEN 0 ELSE e.requestId
<1>1. /\ e.requestId \in 0 .. MaxInteractions /\ e.promptId \in 0 .. MaxPrompts
      /\ 0 \in 0 .. MaxInteractions /\ 0 \in 0 .. MaxPrompts
  BY SMTT(60), RegistryBounds DEF StateEvents, Requests
<1>2. CASE e.state \in Terminal
  <2>1. tracker' = [generation |-> tracker.generation, activeRequestId |-> 0, activePromptId |-> 0]
    BY <1>2 DEF Accept, Trackers
  <2> QED
    BY <1>1, <1>2, <2>1 DEF Trackers
<1>3. CASE e.state \notin Terminal
  <2>1. tracker' = [generation |-> tracker.generation, activeRequestId |-> e.requestId,
                    activePromptId |-> e.promptId]
    BY <1>3 DEF Accept, Trackers
  <2> QED
    BY <1>1, <1>3, <2>1 DEF Trackers
<1> QED
  BY <1>2, <1>3

\* The first of what was handed over is shown.
LEMMA Showing ==
    ASSUME QueueTypes, ShowStartup \/ ShowPosted
    PROVE  /\ handed # <<>> /\ handed \in Seq(StateEvents) /\ handed' = Tail(handed)
           /\ ShowEvent(Head(handed))
<1>0. handed \in Seq(StateEvents)
  BY SMTT(60) DEF handed, QueueTypes
<1>1. CASE ShowStartup
  <2>1. /\ startup # <<>> /\ startup' = Tail(startup) /\ posted' = posted
        /\ ShowEvent(Head(startup))
    BY <1>1 DEF ShowStartup
  <2>2. handed # <<>> /\ handed' = Tail(handed) /\ Head(handed) = Head(startup)
    BY SMTT(60), <2>1 DEF handed, QueueTypes
  <2> QED
    BY <1>0, <2>1, <2>2
<1>2. CASE ShowPosted
  <2>1. /\ posted # <<>> /\ posted' = Tail(posted) /\ startup = <<>> /\ startup' = <<>>
        /\ ShowEvent(Head(posted))
    BY <1>2 DEF ShowPosted, Looping
  <2>2. handed = posted /\ handed' = posted'
    BY SMTT(60), <2>1, Taken DEF handed, QueueTypes
  <2> QED
    BY <1>0, <2>1, <2>2
<1> QED
  BY <1>1, <1>2

\* The window shows an event.
LEMMA ShowFields ==
    ASSUME NEW e \in StateEvents, displayed \in [Requests -> States \cup {"none"}], ShowEvent(e)
    PROVE  /\ ui' \in Screens
           /\ displayed' \in [Requests -> States \cup {"none"}]
           /\ ui'.active = (e.state \notin Terminal)
           /\ ui'.visible /\ ui'.timer = (e.state \in Terminal)
           /\ ui'.request = IF e.state \in Terminal THEN 0 ELSE e.requestId
<1>1. /\ e.requestId \in Requests /\ e.requestId \in 0 .. MaxInteractions
      /\ e.promptId \in 0 .. MaxPrompts /\ e.state \in States
      /\ 0 \in 0 .. MaxInteractions /\ 0 \in 0 .. MaxPrompts
  BY SMTT(60), RegistryBounds DEF StateEvents, Requests
<1>2. ViewOf(e.state) \in {"none", "presence", "status", "secret", "verification"}
  BY DEF ViewOf
<1>3. ui' \in Screens
  BY SMTT(60), <1>1, <1>2 DEF ShowEvent, Screens
<1>4. displayed' \in [Requests -> States \cup {"none"}]
  BY <1>1 DEF ShowEvent
<1> QED
  BY <1>3, <1>4 DEF ShowEvent

-----------------------------------------------------------------------------
(* What the steps do to the window and to the call it waits for.           *)

\* What a callback may do to the window: what it leaves enabled is as it was.
Dims ==
    /\ ui' \in Screens
    /\ ui'.active => ui' = ui
    /\ Live' => Live /\ ui'.request = ui.request

\* A callback may call the daemon, but it answers only in ClickPresence.
Asks ==
    /\ calling' \in AgentCalls \cup {NoCall}
    /\ calling'.response # "approved"

\* Nothing changes.
LEMMA DimsUnchanged == ASSUME ui \in Screens, UNCHANGED ui PROVE Dims
BY DEF Dims, Live

\* report_ui_error disables the controls, and its timer hides the window.
LEMMA ReportDims == ASSUME ui \in Screens, ReportUiError PROVE Dims
<1>1. ui' = [view |-> "status", request |-> 0, prompt |-> 0, active |-> FALSE,
             visible |-> ui.visible, timer |-> TRUE]
  BY DEF ReportUiError, Screens
<1> QED
  BY SMTT(60), <1>1, RegistryBounds DEF Dims, Screens, Live

\* The window is closed.
LEMMA CloseDims == ASSUME ui \in Screens, ui' = Closed PROVE Dims
<1>1. ui' = [view |-> ui.view, request |-> 0, prompt |-> 0, active |-> FALSE,
             visible |-> FALSE, timer |-> ui.timer]
  BY DEF Closed, Screens
<1> QED
  BY SMTT(60), <1>1, RegistryBounds DEF Dims, Screens, Live

\* The controls are disabled, because the daemon has accepted the answer.
LEMMA DisableDims ==
    ASSUME ui \in Screens, NEW p \in 0 .. MaxPrompts,
           ui' = [ui EXCEPT !.active = FALSE, !.prompt = p]
    PROVE  Dims
<1>1. ui' = [view |-> ui.view, request |-> ui.request, prompt |-> p, active |-> FALSE,
             visible |-> ui.visible, timer |-> ui.timer]
  BY DEF Screens
<1>2. ui' \in Screens
  BY <1>1 DEF Screens
<1>3. /\ ~ui'.active /\ ui'.request = ui.request
      /\ ui'.visible = ui.visible /\ ui'.timer = ui.timer
  BY <1>1
<1> QED
  BY <1>2, <1>3 DEF Dims, Live

\* The timer hides the window, whose controls are disabled.
LEMMA TimerDims == ASSUME ui \in Screens, ui.active => Live, TimerFires PROVE Dims
<1>1. ui' = [view |-> ui.view, request |-> ui.request, prompt |-> ui.prompt,
             active |-> ui.active, visible |-> FALSE, timer |-> FALSE]
  BY DEF TimerFires, Screens
<1>2. ~ui.active
  BY DEF TimerFires, Live
<1> QED
  BY <1>1, <1>2 DEF Dims, Screens, Live

\* Nothing is called.
LEMMA NoCallAsks == ASSUME calling' = NoCall PROVE Asks
BY DEF Asks, NoCall

\* A cancellation is called.
LEMMA CancelAsks ==
    ASSUME ui \in Screens, RequireActive(ui.request), NEW then \in {"cancel", "close", "report"},
           CallMethod("CancelInteraction", ui.request, 0, "none", then)
    PROVE  Asks /\ calling' # NoCall
<1>1. ui.request \in Requests
  BY SMTT(60), RegistryBounds DEF Screens, RequireActive, Requests
<1>2. calling' = [method |-> "CancelInteraction", request |-> ui.request, prompt |-> 0,
                  response |-> "none", then |-> then]
  BY DEF CallMethod
<1> QED
  BY <1>1, <1>2 DEF Asks, AgentCalls, NoCall

\* cancel_and_report calls or reports.
LEMMA CancelAndReportDims == ASSUME ui \in Screens, CancelAndReport PROVE Dims /\ Asks
<1>1. CASE RequireActive(ui.request)
  BY <1>1, CancelAsks, DimsUnchanged DEF CancelAndReport
<1>2. CASE ~RequireActive(ui.request)
  BY <1>2, ReportDims, NoCallAsks DEF CancelAndReport
<1> QED
  BY <1>1, <1>2

\* The callback goes on after the reply.
LEMMA ReturnDims ==
    ASSUME ui \in Screens, NEW accepted \in BOOLEAN, Return(accepted)
    PROVE  Dims /\ Asks
<1>1. \/ ui' = Closed /\ calling' = NoCall
      \/ ReportUiError /\ calling' = NoCall
      \/ ui' = [ui EXCEPT !.active = FALSE] /\ calling' = NoCall
      \/ ui' = [ui EXCEPT !.active = FALSE, !.prompt = 0] /\ calling' = NoCall
      \/ CancelAndReport
  BY DEF Return
<1>2. CASE ui' = [ui EXCEPT !.active = FALSE] /\ calling' = NoCall
  <2>1. ui' = [ui EXCEPT !.active = FALSE, !.prompt = ui.prompt] /\ ui.prompt \in 0 .. MaxPrompts
    BY <1>2 DEF Screens
  <2> QED
    BY <1>2, <2>1, DisableDims, NoCallAsks
<1>3. CASE ui' = [ui EXCEPT !.active = FALSE, !.prompt = 0] /\ calling' = NoCall
  <2>1. 0 \in 0 .. MaxPrompts
    BY SMTT(60), RegistryBounds
  <2> QED
    BY <1>3, <2>1, DisableDims, NoCallAsks
<1> QED
  BY <1>1, <1>2, <1>3, CloseDims, ReportDims, CancelAndReportDims, NoCallAsks

-----------------------------------------------------------------------------
(* The client is an agent like any other.                                  *)

\* A call the client waits for.
LEMMA CallFields ==
    ASSUME calling \in AgentCalls \cup {NoCall}, calling # NoCall
    PROVE  /\ calling.method \in Methods /\ calling.request \in Requests
           /\ calling.method = "RespondToPresence" => calling.response \in {"approved", "denied"}
           /\ calling.method = "SubmitSecret" => calling.prompt \in 1 .. MaxPrompts
BY DEF AgentCalls, Methods

\* Every step of the client and the daemon is one of the daemon with some
\* agent, or leaves the daemon alone.
LEMMA ClientIsAgent == ASSUME Base, [UiNext]_allVars PROVE [Next]_vars
<1>1. CASE Connect
  BY <1>1, UiIsAgent DEF Connect, Next, DBusThread
<1>2. CASE Connected
  BY <1>2 DEF Connected, Next, DBusThread
<1>3. CASE UiExits
  BY <1>3, UiIsAgent DEF UiExits, Next, DBusThread
<1>4. CASE UiThread
  BY <1>4 DEF UiThread, StartLoop, ShowStartup, ShowPosted, TimerFires
<1>5. CASE UserAction
  BY <1>5 DEF UserAction, ClickPresence, ClickCancel, SubmitField, CloseWindow
<1>6. CASE Deliver
  BY <1>6 DEF Deliver, Next, DBusThread
<1>7. CASE ReceiveEvent
  BY <1>7 DEF ReceiveEvent
<1>8. CASE Worker
  BY <1>8 DEF Worker, Next
<1>9. CASE Calls
  <2>1. CASE DaemonCalled
    BY <2>1, CallFields, UiIsAgent DEF DaemonCalled, Base, ScreenTypes, Next, DBusThread, IInv
  <2>2. CASE DaemonReplies
    <3>1. /\ dbus.step \in Methods /\ calling # NoCall /\ calling.method = dbus.step
      BY <2>2 DEF DaemonReplies, Respond, Cancel, Submit, Methods, Base, Handling, IInv
    <3>2. calling.request \in Requests
      BY <3>1, CallFields DEF Base, ScreenTypes, IInv
    <3>3. CASE Respond(calling.request, calling.response)
      <4>1. calling.response \in {"approved", "denied"}
        BY <3>1, <3>3, CallFields DEF Base, ScreenTypes, Respond, IInv
      <4> QED
        BY <3>2, <3>3, <4>1 DEF Next, DBusThread
    <3>4. CASE Cancel(calling.request)
      BY <3>2, <3>4 DEF Next, DBusThread
    <3>5. CASE Submit(calling.request, calling.prompt)
      <4>1. calling.prompt \in 1 .. MaxPrompts
        BY <3>1, <3>5, CallFields DEF Base, ScreenTypes, Submit, IInv
      <4> QED
        BY <3>2, <3>5, <4>1 DEF Next, DBusThread
    <3> QED
      BY <2>2, <3>3, <3>4, <3>5 DEF DaemonReplies
  <2> QED
    BY <1>9, <2>1, <2>2 DEF Calls, Next, DBusThread
<1>10. CASE UNCHANGED allVars
  BY <1>10 DEF allVars
<1> QED
  BY <1>1, <1>2, <1>3, <1>4, <1>5, <1>6, <1>7, <1>8, <1>9, <1>10 DEF UiNext

-----------------------------------------------------------------------------
(* The registration and the connection.                                    *)

\* The worker's steps neither register nor discard an agent.
LEMMA WorkerKeepsAgent ==
    ASSUME Base, Worker
    PROVE  /\ UNCHANGED <<agentVars, environment, failed, dbus, shown, cancels, uiVars>>
           /\ consent' \subseteq consent
           /\ pc' \notin Discarding
<1>1. registered # NoUser => registered.agent \in activeSession
  BY UiIsAgent DEF Base, Present, Handling, IInv
<1>2. ~failed /\ pc \notin Discarding
  BY DEF Base, Present, IInv
<1>3. CASE StartCeremony \/ RequestStop \/ DeadlinePasses \/ EndInteraction
  BY <1>2, <1>3
     DEF Worker, StartCeremony, RequestStop, DeadlinePasses, EndInteraction, Discarding
<1>4. CASE Start \/ Check
  BY <1>1, <1>2, <1>4
     DEF Worker, Start, Check, CurrentContext, Finish, Goto, Confirm, Reject, Publish, Discarding
<1>5. CASE BeginInteraction \/ BeginRegistry \/ Verify \/ Receive \/ Refused
  BY <1>2, <1>5
     DEF Worker, BeginInteraction, BeginRegistry, Verify, Receive, Refused, Finish, Goto, Publish,
         WorkerOnly, Discarding
<1>6. CASE WaitForPresence \/ WaitForSecret
  BY <1>2, <1>6
     DEF Worker, WaitForPresence, WaitForSecret, Finish, Goto, Publish, WorkerOnly, Discarding
<1>7. CASE PublishState \/ PublishTransition
  <2>1. pc \in Publishing
    BY <1>7 DEF PublishState, PublishTransition
  <2>2. publishing.then \in {"wait", "verify", "wait_secret", "end"}
    BY <2>1 DEF Base, Plan, IInv
  <2>3. Unpublished \in {"refused", "wait", "verify", "wait_secret", "end"}
    BY <2>2 DEF Unpublished
  <2>4. pc' \in {"transition", "end", Unpublished, publishing.then}
    BY <1>7 DEF PublishState, PublishTransition, Finish, Goto
  <2>5. pc' \notin Discarding
    BY <2>2, <2>3, <2>4 DEF Discarding
  <2> QED
    BY <1>7, <2>5 DEF Worker, PublishState, PublishTransition, WorkerOnly
<1>8. ~DiscardClear /\ ~DiscardUnregister
  BY <1>2 DEF DiscardClear, DiscardUnregister, Discarding
<1> QED
  BY <1>3, <1>4, <1>5, <1>6, <1>7, <1>8 DEF Worker, CeremonyStep

\* The connection, when neither the client's queues nor its tracker change.
LEMMA AttachedKept ==
    ASSUME Base, UNCHANGED <<registered, bus, tracker>>, tracker # NoTracker,
           dbus'.step \notin Leaving
    PROVE  Attached'
BY DEF Base, Attached, IInv

\* A step that leaves the client alone.
LEMMA ClientUnchanged ==
    ASSUME Base, UNCHANGED uiVars
    PROVE  QueueTypes' /\ ScreenTypes'
BY DEF Base, QueueTypes, ScreenTypes, uiVars, queues, IInv

\* The empty queue.
LEMMA EmptyQueue == ASSUME NEW S PROVE <<>> \in Seq(S) /\ Len(<<>>) = 0
  BY SMTT(60)

\* The steps of the daemon's side.
LEMMA ConnectBase == ASSUME Base, IInv', Connect PROVE Base'
<1>1. QueueTypes' /\ ScreenTypes'
  BY ClientUnchanged DEF Connect
<1>2. /\ UNCHANGED <<registered, nextGeneration, activeSession, connected, failed, pc, consent>>
      /\ UNCHANGED <<bus, tracker, startup, overflowed, started, posted, ui, calling, clicked>>
      /\ tracker = NoTracker /\ nextGeneration <= MaxRegistrations /\ dbus.step = "idle"
  BY DEF Connect, RegisterAgent, HandlerOnly, Serving, uiVars, queues
<1>3. registered = NoUser
  BY <1>2 DEF Base, Attached, Absent, Leaving, IInv
<1>4. dbus' = [step |-> "register", agent |-> Ui, user |-> NoUser, then |-> "idle"]
  BY <1>3 DEF Connect, RegisterAgent, Handler
<1> QED
  BY <1>1, <1>2, <1>3, <1>4
     DEF Base, Present, Handling, Attached, Absent, Clicks, Leaving, Methods, IInv

\* The daemon registers the client, whose tracker starts afresh.
LEMMA ConnectedBase == ASSUME Base, IInv', Connected PROVE Base'
<1>1. /\ UNCHANGED <<activeSession, connected, failed, pc, consent>>
      /\ UNCHANGED <<bus, startup, overflowed, started, posted, ui, calling, clicked, displayed>>
      /\ dbus.step = "register" /\ dbus' = IdleHandler
  BY DEF Connected, Register, queues
<1>2. registered = NoUser /\ nextGeneration <= MaxRegistrations /\ dbus.agent = Ui
  BY <1>1 DEF Base, Handling, IInv
<1>3. registered' = [agent |-> Ui, generation |-> nextGeneration]
  BY <1>2 DEF Connected, Register
<1>4. tracker' = [generation |-> nextGeneration, activeRequestId |-> 0, activePromptId |-> 0]
  BY <1>3 DEF Connected, NoTracker
<1>5. nextGeneration \in 1 .. MaxRegistrations
  BY SMTT(60), <1>2, RegistryBounds DEF Base, TypeOK, IInv
<1>6. tracker = NoTracker
  BY <1>2 DEF Base, Attached, IInv
<1>7. bus = <<>>
  BY <1>6 DEF Base, Attached, Absent, IInv
<1>8. QueueTypes'
  BY <1>1 DEF Base, QueueTypes, IInv
<1>9. ScreenTypes'
  <2>1. tracker' \in Trackers
    BY SMTT(60), <1>4, <1>5, RegistryBounds DEF Trackers
  <2> QED
    BY <1>1, <2>1 DEF Base, ScreenTypes, IInv
<1>10. registered' # NoUser /\ tracker' # NoTracker
  BY SMTT(60), <1>3, <1>4, <1>5 DEF NoUser, NoTracker
<1>11. Present' /\ Handling' /\ Clicks'
  BY <1>1, <1>3 DEF Base, Present, Handling, Clicks, IdleHandler, Leaving, Methods, IInv
<1>12. Attached'
  <2>1. \A i \in 1 .. Len(bus') : FALSE
    BY SMTT(60), <1>1, <1>7
  <2>2. tracker'.generation = registered'.generation
    BY <1>3, <1>4
  <2> QED
    BY <1>1, <1>10, <2>1, <2>2 DEF Attached, IdleHandler, Leaving
<1> QED
  BY <1>8, <1>9, <1>11, <1>12 DEF Base, IInv

\* The client exits, and its process is gone.
LEMMA UiExitsBase == ASSUME Base, IInv', UiExits PROVE Base'
<1>1. /\ UNCHANGED <<registered, nextGeneration, activeSession, connected, failed, pc, consent>>
      /\ UNCHANGED <<displayed, clicked>>
      /\ tracker # NoTracker
  BY DEF UiExits, UnregisterAgent, HandlerOnly
<1>2. dbus' = [step |-> "clear", agent |-> "none", user |-> registered, then |-> "idle"]
  BY DEF UiExits, UnregisterAgent, Discard, Handler
<1>3. registered # NoUser /\ registered.agent = Ui
  BY <1>1 DEF Base, Attached, Handling, IInv
<1>4. QueueTypes'
  BY EmptyQueue DEF UiExits, QueueTypes
<1>5. ScreenTypes'
  <2>1. NoTracker \in Trackers /\ Hidden \in Screens
    BY SMTT(60), RegistryBounds DEF Trackers, NoTracker, Screens, Hidden
  <2> QED
    BY <1>1, <2>1 DEF UiExits, Base, ScreenTypes, IInv
<1>6. Present' /\ Handling' /\ Attached'
  BY <1>1, <1>2, <1>3
     DEF UiExits, Base, Present, Handling, Attached, Absent, Leaving, Methods, IInv
<1>7. Clicks'
  BY <1>1 DEF UiExits, Base, Clicks, NoCall, IInv
<1> QED
  BY <1>4, <1>5, <1>6, <1>7 DEF Base, IInv

\* The D-Bus thread drops a registration's pending interaction.
LEMMA DiscardBase ==
    ASSUME Base, IInv', (Clear \/ Unregister) /\ UNCHANGED uiVars PROVE Base'
<1>1. QueueTypes' /\ ScreenTypes'
  BY ClientUnchanged
<1>2. /\ UNCHANGED <<nextGeneration, activeSession, connected, failed, pc, consent>>
      /\ UNCHANGED <<bus, tracker, startup, overflowed, started, posted, ui, calling, clicked>>
      /\ dbus.step \in Leaving
  BY DEF Clear, Unregister, uiVars, queues, Leaving
<1>3. /\ tracker = NoTracker /\ dbus.user = registered /\ dbus.then = "idle"
      /\ registered # NoUser /\ registered.agent = Ui
  BY <1>2 DEF Base, Attached, Handling, IInv
<1>4. CASE Clear
  <2>1. registered' = registered /\ dbus'.step = "unregister" /\ dbus'.user = dbus.user
        /\ dbus'.then = dbus.then
    BY <1>4 DEF Clear, Base, DBusTypes, IInv
  <2> QED
    BY <1>1, <1>2, <1>3, <2>1
       DEF Base, Present, Handling, Attached, Absent, Clicks, Leaving, Methods, IInv
<1>5. CASE Unregister
  <2>1. registered' = NoUser /\ dbus' = IdleHandler
    BY <1>3, <1>5 DEF Unregister, Unregistered
  <2> QED
    BY <1>1, <1>2, <1>3, <2>1
       DEF Base, Present, Handling, Attached, Absent, Clicks, IdleHandler, Leaving, Methods, IInv
<1> QED
  BY <1>4, <1>5

\* A step of the daemon's worker.
LEMMA WorkerBase == ASSUME Base, IInv', Worker PROVE Base'
<1>1. /\ UNCHANGED <<agentVars, environment, failed, dbus, shown, cancels, uiVars>>
      /\ consent' \subseteq consent
      /\ pc' \notin Discarding
  BY WorkerKeepsAgent
<1>2. QueueTypes' /\ ScreenTypes'
  BY <1>1, ClientUnchanged
<1> QED
  BY <1>1, <1>2
     DEF Base, Present, Handling, Attached, Absent, Clicks, uiVars, queues, IInv

\* The client's D-Bus thread takes an event off the bus.
LEMMA ReceiveBase == ASSUME Base, IInv', ReceiveEvent PROVE Base'
<1> DEFINE e == Head(bus)
<1>1. /\ UNCHANGED <<registered, nextGeneration, activeSession, connected, failed, dbus, pc, consent>>
      /\ UNCHANGED <<started, ui, calling, clicked, displayed>>
      /\ bus # <<>> /\ bus' = Tail(bus)
  BY DEF ReceiveEvent, vars
<1>2. tracker # NoTracker /\ registered # NoUser /\ dbus.step \notin Leaving
  BY <1>1, BusIsAttached
<1>3. /\ e \in StateEvents /\ bus' \in Seq(StateEvents) /\ Len(bus) \in Nat \ {0}
      /\ Len(bus') = Len(bus) - 1
      /\ \A i \in 1 .. Len(bus) - 1 : bus'[i] = bus[i + 1]
  BY <1>1, Taken DEF Base, QueueTypes, IInv
<1>4. \/ Accept(e) /\ Hand(e)
      \/ UNCHANGED <<tracker, startup, overflowed, posted>>
  BY DEF ReceiveEvent
<1> HIDE DEF e
<1>5. tracker' \in Trackers /\ tracker'.generation = tracker.generation
  BY <1>3, <1>4, AcceptFields DEF Base, ScreenTypes, IInv
<1>6. startup' \in Seq(StateEvents) /\ posted' \in Seq(StateEvents) /\ overflowed' \in BOOLEAN
  <2>1. Append(startup, e) \in Seq(StateEvents) /\ Append(posted, e) \in Seq(StateEvents)
    BY <1>3, Appended DEF Base, QueueTypes, IInv
  <2> QED
    BY <1>4, <2>1 DEF Base, QueueTypes, Hand, IInv
<1>7. tracker' # NoTracker
  <2>1. registered \in Users
    BY <1>2 DEF Base, TypeOK, IInv
  <2>2. registered.generation # 0
    BY SMTT(60), <2>1, RegistryBounds DEF Users
  <2>3. tracker.generation = registered.generation
    BY <1>2 DEF Base, Attached, IInv
  <2>4. NoTracker.generation = 0
    BY DEF NoTracker
  <2> QED
    BY <1>5, <2>2, <2>3, <2>4
<1>8. \A i \in 1 .. Len(bus') : bus'[i].user = registered
  <2>1. \A i \in 1 .. Len(bus) : bus[i].user = registered
    BY <1>2 DEF Base, Attached, IInv
  <2> QED
    BY SMTT(60), <1>3, <2>1
<1>9. Attached'
  BY <1>1, <1>2, <1>5, <1>7, <1>8 DEF Base, Attached, IInv
<1> QED
  BY <1>1, <1>3, <1>5, <1>6, <1>9
     DEF Base, QueueTypes, ScreenTypes, Present, Handling, Clicks, IInv

\* The rest of what the UI thread and its callbacks do.
LEMMA WindowBase ==
    ASSUME Base, IInv', tracker # NoTracker, UNCHANGED <<vars, bus, tracker, clicked>>,
           QueueTypes', ui' \in Screens, displayed' \in [Requests -> States \cup {"none"}],
           UNCHANGED calling \/ (calling = NoCall /\ Asks)
    PROVE  Base'
<1>1. UNCHANGED <<registered, nextGeneration, activeSession, connected, failed, dbus, pc, consent>>
  BY DEF vars
<1>2. dbus.step \notin Leaving
  BY DEF Base, Attached, IInv
<1>3. Attached'
  BY <1>1, <1>2, AttachedKept
<1>4. calling' \in AgentCalls \cup {NoCall} /\ Handling' /\ Clicks'
  BY <1>1 DEF Base, ScreenTypes, Handling, Clicks, Asks, IInv
<1> QED
  BY <1>1, <1>3, <1>4 DEF Base, ScreenTypes, Present, IInv

\* The UI thread handles what was posted to it.
LEMMA UiThreadBase == ASSUME Base, ui.active => Live, IInv', UiThread PROVE Base'
<1>1. /\ UNCHANGED <<vars, bus, tracker, clicked, calling>>
      /\ tracker # NoTracker
  BY BusIsAttached
     DEF UiThread, StartLoop, ShowStartup, ShowPosted, TimerFires, queues, Looping
<1>2. QueueTypes' /\ ui' \in Screens /\ displayed' \in [Requests -> States \cup {"none"}]
  <2>1. CASE StartLoop
    BY <2>1 DEF StartLoop, Base, QueueTypes, ScreenTypes, IInv
  <2>2. CASE ShowStartup
    BY <2>2, Taken, ShowFields DEF ShowStartup, Base, QueueTypes, ScreenTypes, IInv
  <2>3. CASE ShowPosted
    BY <2>3, Taken, ShowFields DEF ShowPosted, Base, QueueTypes, ScreenTypes, IInv
  <2>4. CASE TimerFires
    <3>1. Dims
      BY <2>4, TimerDims DEF Base, ScreenTypes, IInv
    <3> QED
      BY <2>4, <3>1 DEF TimerFires, Dims, Base, QueueTypes, ScreenTypes, queues, IInv
  <2> QED
    BY <2>1, <2>2, <2>3, <2>4 DEF UiThread
<1> QED
  BY <1>1, <1>2, WindowBase

\* The user presses a control, which dims every control.
LEMMA UserActionBase == ASSUME Base, IInv', UserAction PROVE Base' /\ Dims
<1>1. /\ UNCHANGED <<vars, bus, startup, overflowed, started, posted, tracker, displayed>>
      /\ calling = NoCall /\ started
  BY
     DEF UserAction, ClickPresence, ClickCancel, SubmitField, CloseWindow, queues, Looping
<1>2. tracker # NoTracker /\ ui \in Screens /\ QueueTypes'
      /\ displayed' \in [Requests -> States \cup {"none"}]
  BY <1>1, BusIsAttached DEF Base, QueueTypes, ScreenTypes, IInv
<1>3. ASSUME NEW response \in {"approved", "denied"}, ClickPresence(response)
      PROVE  Base' /\ Dims
  <2>1. CASE RequireActive(ui.request)
    <3>1. ui.request \in Requests
      BY SMTT(60), <1>2, <2>1, RegistryBounds DEF Screens, RequireActive, Requests
    <3>2. UNCHANGED ui /\ Dims
      BY <1>2, <1>3, <2>1, DimsUnchanged DEF ClickPresence
    <3>3. /\ calling' = [method |-> "RespondToPresence", request |-> ui.request, prompt |-> 0,
                         response |-> response, then |-> "answer"]
          /\ clicked' = IF response = "approved" THEN clicked \cup {ui.request} ELSE clicked
      BY <1>3, <2>1 DEF ClickPresence, CallMethod
    <3>4. calling' \in AgentCalls
      BY <3>1, <3>3 DEF AgentCalls
    <3>5. UNCHANGED <<registered, nextGeneration, activeSession, connected, failed, dbus, pc, consent>>
      BY <1>1 DEF vars
    <3>6. dbus.step \notin Leaving
      BY <1>2 DEF Base, Attached, IInv
    <3>7. Attached'
      BY <1>1, <1>2, <3>5, <3>6, AttachedKept
    <3>8. Clicks'
      BY <3>3, <3>5 DEF Base, Clicks, IInv
    <3>9. Handling'
      BY <1>1, <3>5 DEF Base, Handling, IInv
    <3> QED
      BY <1>1, <1>2, <3>2, <3>4, <3>5, <3>7, <3>8, <3>9 DEF Base, ScreenTypes, Present, IInv
  <2>2. CASE ~RequireActive(ui.request)
    <3>1. ReportUiError /\ calling' = NoCall
      BY <1>3, <2>2 DEF ClickPresence, CancelAndReport
    <3>2. Dims /\ ui' \in Screens
      BY <1>2, <3>1, ReportDims DEF Dims
    <3>3. clicked \subseteq clicked'
      BY <1>3 DEF ClickPresence
    <3>4. UNCHANGED <<registered, nextGeneration, activeSession, connected, failed, dbus, pc, consent>>
      BY <1>1 DEF vars
    <3>5. dbus.step \notin Leaving
      BY <1>2 DEF Base, Attached, IInv
    <3>6. Attached'
      BY <1>1, <1>2, <3>4, <3>5, AttachedKept
    <3>7. Clicks'
      BY <3>1, <3>3, <3>4 DEF Base, Clicks, NoCall, IInv
    <3>8. Handling'
      BY <1>1, <3>4 DEF Base, Handling, IInv
    <3> QED
      BY <1>1, <1>2, <3>1, <3>2, <3>4, <3>6, <3>7, <3>8 DEF Base, ScreenTypes, Present, IInv
  <2> QED
    BY <2>1, <2>2
<1>4. ASSUME Dims, Asks \/ UNCHANGED calling, UNCHANGED clicked PROVE Base'
  BY <1>1, <1>2, <1>4, WindowBase DEF Dims
<1>5. CASE ClickCancel
  <2>1. Dims /\ (Asks \/ UNCHANGED calling)
    BY <1>2, <1>5, CancelAsks, ReportDims, DimsUnchanged DEF ClickCancel
  <2> QED
    BY <1>4, <1>5, <2>1 DEF ClickCancel
<1>6. CASE CloseWindow
  <2>1. Dims /\ (Asks \/ UNCHANGED calling)
    BY <1>2, <1>6, CancelAsks, CloseDims, DimsUnchanged DEF CloseWindow
  <2> QED
    BY <1>4, <1>6, <2>1 DEF CloseWindow
<1>7. ASSUME NEW valid \in BOOLEAN, SubmitField(valid) PROVE Base' /\ Dims
  <2>1. UNCHANGED clicked
    BY <1>7 DEF SubmitField
  <2>2. CASE RequireActive(ui.request) /\ ui.prompt # 0 /\ valid
    <3>1. ui.request \in Requests /\ ui.prompt \in 1 .. MaxPrompts
      BY SMTT(60), <1>2, <2>2, RegistryBounds DEF Screens, RequireActive, Requests
    <3>2. UNCHANGED ui /\ calling' = [method |-> "SubmitSecret", request |-> ui.request,
                                     prompt |-> ui.prompt, response |-> "none", then |-> "submit"]
      BY <1>7, <2>2 DEF SubmitField, CallMethod
    <3>3. Asks
      BY <3>1, <3>2 DEF AgentCalls, Asks
    <3> QED
      BY <1>2, <1>4, <2>1, <3>2, <3>3, DimsUnchanged
  <2>3. CASE CancelAndReport
    BY <1>2, <1>4, <2>1, <2>3, CancelAndReportDims
  <2> QED
    BY <1>7, <2>2, <2>3 DEF SubmitField
<1> QED
  BY <1>3, <1>5, <1>6, <1>7 DEF UserAction

\* The daemon serves the call of the control that was pressed.
LEMMA CalledBase == ASSUME Base, IInv', DaemonCalled PROVE Base'
<1>1. /\ UNCHANGED <<registered, nextGeneration, activeSession, connected, failed, pc, consent>>
      /\ UNCHANGED <<bus, tracker, startup, overflowed, started, posted, ui, calling, clicked, displayed>>
      /\ calling # NoCall
  BY DEF DaemonCalled, Call, HandlerOnly, uiVars, queues
<1>2. tracker # NoTracker /\ registered # NoUser
  BY <1>1, BusIsAttached
<1>3. Ui \in activeSession /\ calling.method \in Methods
  BY <1>1, UiIsAgent, CallFields DEF Base, Present, ScreenTypes, IInv
<1>4. dbus'.step = calling.method
  <2>1. dbus' = [step |-> calling.method, agent |-> "none", user |-> registered, then |-> "idle"]
    BY <1>3 DEF DaemonCalled, Call, Handler
  <2> QED
    BY <2>1
<1>5. dbus'.step \notin Leaving /\ dbus'.step # "register"
  BY <1>3, <1>4 DEF Methods, Leaving
<1>6. Attached'
  BY <1>1, <1>2, <1>5, AttachedKept
<1>7. QueueTypes' /\ ScreenTypes'
  BY ClientUnchanged DEF DaemonCalled
<1> QED
  BY <1>1, <1>4, <1>5, <1>6, <1>7 DEF Base, Present, Handling, Clicks, IInv

\* The reply to the call.
LEMMA RepliesBase == ASSUME Base, IInv', DaemonReplies PROVE Base' /\ Dims
<1>1. /\ UNCHANGED <<registered, nextGeneration, activeSession, connected, failed, pc>>
      /\ UNCHANGED <<bus, tracker, startup, overflowed, started, posted, clicked, displayed>>
      /\ dbus.step \in Methods /\ dbus' = IdleHandler
  BY DEF DaemonReplies, Respond, Submit, Cancel, queues, Methods
<1>2. calling # NoCall /\ tracker # NoTracker /\ ui \in Screens
  BY <1>1, BusIsAttached DEF Base, Handling, ScreenTypes, IInv
<1>3. \E accepted \in BOOLEAN : Return(accepted)
  <2>1. /\ AcceptsPresence(dbus.user, calling.request) \in BOOLEAN
        /\ AcceptsCancel(dbus.user, calling.request) \in BOOLEAN
        /\ AcceptsSecret(dbus.user, calling.request, calling.prompt) \in BOOLEAN
    BY DEF AcceptsPresence, AcceptsCancel, AcceptsSecret
  <2> QED
    BY <2>1 DEF DaemonReplies
<1>4. Dims /\ Asks
  BY <1>2, <1>3, ReturnDims
<1>5. dbus'.step = "idle"
  BY <1>1 DEF IdleHandler
<1>6. Attached'
  BY <1>1, <1>2, <1>5, AttachedKept DEF Leaving
<1>7. Handling'
  BY <1>1, <1>5 DEF Base, Handling, Leaving, Methods, IInv
<1>8. consent' = consent \/ (/\ calling.response = "approved"
                             /\ consent' = consent \cup {<<calling.request, dbus.user>>})
  BY DEF DaemonReplies, Respond, Submit, Cancel
<1>9. Clicks'
  <2>1. \A c \in consent' : c[1] \in clicked
    BY SMTT(60), <1>8 DEF Base, Clicks, IInv
  <2> QED
    BY <1>1, <1>4, <2>1 DEF Clicks, Asks
<1> QED
  BY <1>1, <1>4, <1>6, <1>7, <1>9
     DEF Base, QueueTypes, ScreenTypes, Present, Dims, Asks, IInv

-----------------------------------------------------------------------------
(* What was handed to the UI thread, and what is on the screen.            *)

\* A callback changes nothing of this.
LEMMA ScreenKept ==
    ASSUME ScreenInv, Dims, UNCHANGED <<startup, overflowed, started, posted, tracker>>
    PROVE  ScreenInv'
<1>1. handed' = handed
  BY DEF handed
<1>2. HandOver' /\ HandedOn'
  BY <1>1 DEF ScreenInv, HandOver, HandedOn, Ends
<1>3. OnScreen'
  <2>1. ui'.active => Live'
    BY DEF ScreenInv, OnScreen, Dims, Live
  <2> QED
    BY <1>1, <2>1 DEF ScreenInv, OnScreen, Dims, Ends
<1> QED
  BY <1>2, <1>3 DEF ScreenInv

\* Without a connection nothing is handed over or shown.
LEMMA ScreenEmpty ==
    ASSUME startup = <<>>, posted = <<>>, ~overflowed, ~started, ui = Hidden
    PROVE  ScreenInv
<1>1. Len(handed) = 0
  BY SMTT(60) DEF handed
<1>2. HandedOn
  BY SMTT(60), <1>1 DEF HandedOn
<1> QED
  BY <1>2 DEF ScreenInv, HandOver, OnScreen, Live, Hidden

\* The tracker takes an event, and with it the request or its end.
LEMMA ReceiveScreen == ASSUME Base, ScreenInv, ReceiveEvent PROVE ScreenInv'
<1> DEFINE e == Head(bus)
<1>1. /\ UNCHANGED <<started, ui>> /\ e \in StateEvents
  BY Taken DEF ReceiveEvent, Base, QueueTypes, IInv
<1>2. Dims
  BY <1>1, DimsUnchanged DEF Base, ScreenTypes, IInv
<1>3. \/ Acceptable(e) /\ Accept(e) /\ Hand(e)
      \/ UNCHANGED <<tracker, startup, overflowed, posted>>
  BY DEF ReceiveEvent
<1> HIDE DEF e
<1>4. CASE Acceptable(e) /\ Accept(e) /\ Hand(e)
  <2>1. /\ HandOver'
        /\ ~overflowed' =>
              /\ ~overflowed /\ handed \in Seq(StateEvents) /\ Len(handed) \in Nat
              /\ Len(handed') = Len(handed) + 1
              /\ \A i \in 1 .. Len(handed) : handed'[i] = handed[i]
              /\ handed'[Len(handed) + 1] = e
    BY <1>1, <1>4, Handed DEF Base, ScreenInv, IInv
  <2>2. tracker'.activeRequestId = IF e.state \in Terminal THEN 0 ELSE e.requestId
    BY <1>1, <1>4, AcceptFields DEF Base, ScreenTypes, IInv
  <2>3. tracker.activeRequestId \in {0, e.requestId}
    BY <1>4 DEF Acceptable
  <2>4. ASSUME ~overflowed', NEW r, r # 0, NEW i \in 0 .. Len(handed),
               tracker.activeRequestId = r \/ Ends(handed, i, r)
        PROVE  tracker'.activeRequestId = r \/ Ends(handed', i, r)
    <3>1. CASE Ends(handed, i, r)
      <4>1. PICK j \in 1 .. Len(handed) : /\ j > i /\ handed[j].requestId = r
                                          /\ handed[j].state \in Terminal
        BY <3>1 DEF Ends
      <4>2. j \in 1 .. Len(handed') /\ handed'[j] = handed[j]
        BY SMTT(60), <2>1, <2>4, <4>1
      <4> QED
        BY <4>1, <4>2 DEF Ends
    <3>2. CASE tracker.activeRequestId = r
      <4>1. e.requestId = r
        BY <2>3, <2>4, <3>2
      <4>2. CASE e.state \in Terminal
        <5>1. /\ Len(handed) + 1 \in 1 .. Len(handed') /\ Len(handed) + 1 > i
              /\ handed'[Len(handed) + 1] = e
          BY SMTT(60), <2>1, <2>4
        <5> QED
          BY <4>1, <4>2, <5>1 DEF Ends
      <4> QED
        BY <2>2, <4>1, <4>2
    <3> QED
      BY <2>4, <3>1, <3>2
  <2>5. HandedOn'
    <3> SUFFICES ASSUME ~overflowed', NEW i \in 1 .. Len(handed'), handed'[i].state \notin Terminal
                 PROVE  \/ tracker'.activeRequestId = handed'[i].requestId
                        \/ Ends(handed', i, handed'[i].requestId)
      BY DEF HandedOn, Ends
    <3>1. CASE i = Len(handed) + 1
      BY <2>1, <2>2, <3>1
    <3>2. CASE i \in 1 .. Len(handed)
      <4>1. handed'[i] = handed[i] /\ i \in 0 .. Len(handed) /\ ~overflowed
        BY SMTT(60), <2>1, <3>2
      <4>2. handed[i].requestId # 0
        BY <2>1, <3>2, EventOf
      <4>3. tracker.activeRequestId = handed[i].requestId \/ Ends(handed, i, handed[i].requestId)
        BY <3>2, <4>1 DEF ScreenInv, HandedOn
      <4> QED
        BY <2>4, <4>1, <4>2, <4>3
    <3> QED
      BY SMTT(60), <2>1, <3>1, <3>2
  <2>6. OnScreen'
    <3>1. (ui.active => Live) /\ Live' = Live /\ ui' = ui
      BY <1>1 DEF ScreenInv, OnScreen, Live
    <3>2. ASSUME Live PROVE /\ started' /\ ui.request # 0
                            /\ tracker'.activeRequestId = ui.request \/ Ends(handed', 0, ui.request)
      <4>1. /\ started /\ ui.request # 0
            /\ tracker.activeRequestId = ui.request \/ Ends(handed, 0, ui.request)
        BY <3>2 DEF ScreenInv, OnScreen
      <4>2. ~overflowed'
        BY <1>1, <2>1, <4>1 DEF HandOver
      <4>3. 0 \in 0 .. Len(handed)
        BY SMTT(60), <2>1, <4>2
      <4> QED
        BY <1>1, <2>4, <4>1, <4>2, <4>3
    <3> QED
      BY <3>1, <3>2 DEF OnScreen, Ends
  <2> QED
    BY <2>1, <2>5, <2>6 DEF ScreenInv
<1>5. CASE UNCHANGED <<tracker, startup, overflowed, posted>>
  BY <1>1, <1>2, <1>5, ScreenKept
<1> QED
  BY <1>3, <1>4, <1>5

\* The window shows the first event: its request is still the tracker's, or
\* what ends it comes later.
LEMMA ShowScreen == ASSUME Base, ScreenInv, ShowStartup \/ ShowPosted PROVE ScreenInv'
<1>1. /\ handed # <<>> /\ handed \in Seq(StateEvents) /\ handed' = Tail(handed)
      /\ ShowEvent(Head(handed))
  BY Showing DEF Base, IInv
<1>2. UNCHANGED <<started, overflowed, tracker>> /\ started
  BY DEF ShowStartup, ShowPosted, Looping
<1>3. HandOver' /\ ~overflowed
  BY <1>2 DEF ScreenInv, HandOver
<1>4. PICK n \in Nat \ {0} : n = Len(handed)
  BY <1>1, Taken
<1>5. /\ Head(handed) = handed[1] /\ Len(handed') = n - 1
      /\ \A i \in 1 .. n - 1 : handed'[i] = handed[i + 1]
  BY <1>1, <1>4, Taken
<1>6. 1 \in 1 .. n /\ handed[1] \in StateEvents /\ handed[1].requestId # 0
  <2>1. 1 \in 1 .. n
    BY SMTT(60), <1>4
  <2> QED
    BY <1>1, <1>4, <2>1, EventOf
<1>7. ASSUME NEW i \in 0 .. n - 1, NEW r, Ends(handed, i + 1, r) PROVE Ends(handed', i, r)
  <2>1. PICK j \in 1 .. n : /\ j > i + 1 /\ handed[j].requestId = r
                            /\ handed[j].state \in Terminal
    BY <1>4, <1>7 DEF Ends
  <2>2. j - 1 \in 1 .. Len(handed') /\ j - 1 > i /\ handed'[j - 1] = handed[j]
    BY SMTT(60), <1>4, <1>5, <2>1
  <2> QED
    BY <2>1, <2>2 DEF Ends
<1>8. ASSUME NEW i \in 1 .. n, handed[i].state \notin Terminal
      PROVE  tracker.activeRequestId = handed[i].requestId \/ Ends(handed, i, handed[i].requestId)
  BY <1>3, <1>4, <1>8 DEF ScreenInv, HandedOn
<1> HIDE DEF handed
<1>9. HandedOn'
  <2> SUFFICES ASSUME NEW i \in 1 .. n - 1, handed'[i].state \notin Terminal
               PROVE  \/ tracker.activeRequestId = handed'[i].requestId
                      \/ Ends(handed', i, handed'[i].requestId)
    BY <1>2, <1>5 DEF HandedOn, Ends
  <2>1. i \in 0 .. n - 1 /\ i + 1 \in 1 .. n /\ handed'[i] = handed[i + 1]
    BY SMTT(60), <1>4, <1>5
  <2> QED
    BY <1>7, <1>8, <2>1
<1>10. OnScreen'
  <2>1. /\ ui'.active = (handed[1].state \notin Terminal)
        /\ ui'.visible /\ ui'.timer = (handed[1].state \in Terminal)
        /\ ui'.request = IF handed[1].state \in Terminal THEN 0 ELSE handed[1].requestId
    BY <1>1, <1>5, <1>6, ShowFields DEF Base, ScreenTypes, IInv
  <2>2. CASE handed[1].state \in Terminal
    BY <2>1, <2>2 DEF OnScreen, Live
  <2>3. CASE handed[1].state \notin Terminal
    <3>1. 0 \in 0 .. n - 1 /\ 0 + 1 = 1
      BY SMTT(60), <1>4
    <3>2. tracker.activeRequestId = handed[1].requestId \/ Ends(handed', 0, handed[1].requestId)
      BY <1>6, <1>7, <1>8, <2>3, <3>1
    <3> QED
      BY <1>2, <1>6, <2>1, <2>3, <3>2 DEF OnScreen, Live, Ends
  <2> QED
    BY <2>2, <2>3
<1> QED
  BY <1>3, <1>9, <1>10 DEF ScreenInv

-----------------------------------------------------------------------------
(* How a request comes to its end.                                         *)

\* A registration that comes anew is not the worker's.
LEMMA NewRegistration ==
    ASSUME Base, Connected
    PROVE  /\ registered' # user
           /\ registered'.generation = nextGeneration
           /\ UNCHANGED <<current, cancels, request, user, pc, events, bus>>
           /\ tracker' = [generation |-> nextGeneration, activeRequestId |-> 0, activePromptId |-> 0]
           /\ bus = <<>>
<1>1. registered = NoUser /\ nextGeneration <= MaxRegistrations /\ dbus.step = "register"
  BY DEF Connected, Register, Base, Handling, IInv
<1>2. registered' = [agent |-> dbus.agent, generation |-> nextGeneration]
  BY <1>1 DEF Connected, Register
<1>3. user.generation < nextGeneration /\ nextGeneration \in Nat
      /\ user \in Users \cup {NoUser}
  BY SMTT(60), RegistryBounds DEF Base, Issued, TypeOK, IInv
<1>4. registered' # user /\ registered'.generation = nextGeneration
  BY SMTT(60), <1>2, <1>3
<1>5. bus = <<>>
  BY <1>1 DEF Base, Attached, Absent, IInv
<1>6. tracker' = [generation |-> nextGeneration, activeRequestId |-> 0, activePromptId |-> 0]
  BY <1>2 DEF Connected, NoTracker
<1> QED
  BY <1>4, <1>5, <1>6 DEF Connected, Register, queues

\* The requests these are about.
LEMMA Requested ==
    ASSUME Base
    PROVE  /\ \A i \in 1 .. Len(events) : events[i].requestId \in Requests
           /\ \A i \in 1 .. Len(bus) : bus[i].requestId \in Requests
           /\ tracker.activeRequestId # 0 => tracker.activeRequestId \in Requests
           /\ Len(events) \in Nat /\ Len(bus) \in Nat
           /\ events \in Seq(StateEvents) /\ bus \in Seq(StateEvents)
<1>1. events \in Seq(StateEvents) /\ bus \in Seq(StateEvents)
  BY DEF Base, EventTypes, QueueTypes, IInv
<1>2. tracker.activeRequestId \in 0 .. MaxInteractions
  BY DEF Base, ScreenTypes, Trackers, IInv
<1>3. tracker.activeRequestId # 0 => tracker.activeRequestId \in Requests
  BY SMTT(60), <1>2, RegistryBounds DEF Requests
<1>4. Len(events) \in Nat /\ Len(bus) \in Nat
  BY SMTT(60), <1>1
<1> QED
  BY <1>1, <1>3, <1>4, EventOf

\* What the worker's step leaves closable.
LEMMA ClosableKept ==
    ASSUME UNCHANGED cancels, \A r \in Requests : Pending(r) => Closes(r)'
    PROVE  \A r \in Requests : r \in Closable => r \in Closable'
<1> SUFFICES ASSUME NEW r \in Requests, r \in Closable PROVE r \in Closable'
  OBVIOUS
<1>1. r \in cancels \/ Pending(r)
  BY DEF Closable
<1>2. Closes(r)'
  BY <1>1 DEF Closes
<1> QED
  BY <1>2 DEF Closes, Closable, Pending

\* A step that neither sends nor takes an event: what was to be closed still
\* is, or its end is queued.
LEMMA ClosingKept ==
    ASSUME Base, ClosingInv, UNCHANGED <<tracker, bus, registered>>,
           \A r \in Requests : r \in Closable =>
               r \in Closable' \/ EndsFor(events', registered, Len(events), r),
           \/ events' = events
           \/ \E e \in StateEvents :
                 /\ events' = Append(events, e)
                 /\ e.state \notin Terminal /\ e.user = registered => e.requestId \in Closable'
    PROVE  ClosingInv'
<1> SUFFICES ASSUME tracker # NoTracker PROVE QueuedCloses' /\ SentCloses' /\ HeldCloses'
  BY DEF ClosingInv
<1>1. QueuedCloses /\ SentCloses /\ HeldCloses
  BY DEF ClosingInv
<1>2. /\ Len(events') \in Nat /\ Len(events) <= Len(events')
      /\ \A i \in 1 .. Len(events) : events'[i] = events[i] /\ i \in 1 .. Len(events')
      /\ \A i \in 1 .. Len(events') : i \in 1 .. Len(events) \/ i = Len(events) + 1
  BY SMTT(60), Requested
<1>3. ASSUME NEW i \in Nat, i <= Len(events), NEW r \in Requests,
             r \in Closable \/ EndsFor(events, registered, i, r)
      PROVE  r \in Closable' \/ EndsFor(events', registered, i, r)
  <2>1. CASE EndsFor(events, registered, i, r)
    BY <1>2, <2>1 DEF EndsFor
  <2>2. CASE EndsFor(events', registered, Len(events), r)
    <3>1. PICK j \in 1 .. Len(events') :
              /\ j > Len(events) /\ events'[j].requestId = r /\ events'[j].state \in Terminal
              /\ events'[j].user = registered
      BY <2>2 DEF EndsFor
    <3>2. j > i
      BY SMTT(60), <1>2, <1>3, <3>1, Requested
    <3> QED
      BY <3>1, <3>2 DEF EndsFor
  <2> QED
    BY <1>3, <2>1, <2>2
<1>4. /\ 0 \in Nat /\ 0 <= Len(events)
      /\ \A i \in 1 .. Len(events) : i \in Nat /\ i <= Len(events)
  BY SMTT(60), Requested
<1>5. QueuedCloses'
  <2> SUFFICES ASSUME NEW i \in 1 .. Len(events'), events'[i].state \notin Terminal,
                      events'[i].user = registered
               PROVE  \/ events'[i].requestId \in Closable'
                      \/ EndsFor(events', registered, i, events'[i].requestId)
    BY DEF QueuedCloses
  <2>1. CASE i \in 1 .. Len(events)
    <3>1. events'[i] = events[i] /\ events[i].requestId \in Requests
      BY <1>2, <2>1, Requested
    <3>2. \/ events[i].requestId \in Closable
          \/ EndsFor(events, registered, i, events[i].requestId)
      BY <1>1, <2>1, <3>1 DEF QueuedCloses
    <3> QED
      BY <1>3, <1>4, <2>1, <3>1, <3>2
  <2>2. CASE i = Len(events) + 1 /\ i \notin 1 .. Len(events)
    <3>1. PICK e \in StateEvents :
              /\ events' = Append(events, e)
              /\ e.state \notin Terminal /\ e.user = registered => e.requestId \in Closable'
      BY <2>2
    <3>2. events'[i] = e
      BY SMTT(60), <2>2, <3>1, Requested
    <3> QED
      BY <3>1, <3>2
  <2> QED
    BY <1>2, <2>1, <2>2
<1>6. SentCloses'
  <2> SUFFICES ASSUME NEW i \in 1 .. Len(bus), bus[i].state \notin Terminal
               PROVE  \/ bus[i].requestId \in Closable'
                      \/ EndsFor(events', registered, 0, bus[i].requestId)
                      \/ Ends(bus, i, bus[i].requestId)
    BY DEF SentCloses
  <2>1. bus[i].requestId \in Requests
    BY Requested
  <2> QED
    BY <1>1, <1>3, <1>4, <2>1 DEF SentCloses
<1>7. HeldCloses'
  <2> SUFFICES ASSUME tracker.activeRequestId # 0
               PROVE  \/ tracker.activeRequestId \in Closable'
                      \/ EndsFor(events', registered, 0, tracker.activeRequestId)
                      \/ Ends(bus, 0, tracker.activeRequestId)
    BY DEF HeldCloses
  <2>1. tracker.activeRequestId \in Requests
    BY Requested
  <2> QED
    BY <1>1, <1>3, <1>4, <2>1 DEF HeldCloses
<1> QED
  BY <1>5, <1>6, <1>7

\* A new connection starts with nothing to close.
LEMMA ConnectedCloses ==
    ASSUME Base, \A i \in 1 .. Len(events) : events[i].user.generation < nextGeneration, Connected
    PROVE  ClosingInv'
<1>1. /\ registered'.generation = nextGeneration /\ events' = events /\ bus' = <<>>
      /\ tracker' = [generation |-> nextGeneration, activeRequestId |-> 0, activePromptId |-> 0]
  BY NewRegistration
<1>2. nextGeneration \in Nat
  BY SMTT(60), RegistryBounds DEF Base, TypeOK, IInv
<1>3. QueuedCloses'
  <2>1. ASSUME NEW i \in 1 .. Len(events) PROVE events[i].user # registered'
    BY SMTT(60), <1>1, <1>2
  <2> QED
    BY <1>1, <2>1 DEF QueuedCloses
<1>4. SentCloses'
  BY SMTT(60), <1>1 DEF SentCloses
<1>5. HeldCloses'
  BY <1>1 DEF HeldCloses
<1> QED
  BY <1>3, <1>4, <1>5 DEF ClosingInv

\* A signal goes from the daemon's queue to the bus.
LEMMA DeliverCloses == ASSUME Base, ClosingInv, Deliver PROVE ClosingInv'
<1> SUFFICES ASSUME tracker # NoTracker PROVE ClosingInv'
  BY DEF ClosingInv, Deliver
<1>1. QueuedCloses /\ SentCloses /\ HeldCloses
  BY DEF ClosingInv
<1>2. /\ UNCHANGED <<registered, tracker, current, cancels, request, user>>
      /\ events # <<>> /\ events' = Tail(events)
      /\ bus' = IF registered = Head(events).user THEN Append(bus, Head(events)) ELSE bus
  BY DEF Deliver, SendEvent
<1>3. Closable' = Closable
  BY <1>2 DEF Closable, Pending
<1>4. PICK n \in Nat \ {0} : n = Len(events)
  BY <1>2, Requested, Taken
<1>5. /\ Head(events) = events[1] /\ Len(events') = n - 1 /\ events[1] \in StateEvents
      /\ \A i \in 1 .. n - 1 : events'[i] = events[i + 1]
  BY <1>2, <1>4, Requested, Taken
<1>6. /\ Len(bus) \in Nat
      /\ registered = events[1].user =>
            /\ Len(bus') = Len(bus) + 1
            /\ \A i \in 1 .. Len(bus) : bus'[i] = bus[i]
            /\ bus'[Len(bus) + 1] = events[1]
      /\ registered # events[1].user => bus' = bus
  BY SMTT(60), <1>2, <1>5, Requested
<1>7. ASSUME NEW i \in 0 .. n - 1, NEW r, EndsFor(events, registered, i + 1, r)
      PROVE  EndsFor(events', registered, i, r)
  <2>1. PICK j \in 1 .. n : /\ j > i + 1 /\ events[j].requestId = r
                            /\ events[j].state \in Terminal /\ events[j].user = registered
    BY <1>4, <1>7 DEF EndsFor
  <2>2. j - 1 \in 1 .. Len(events') /\ j - 1 > i /\ events'[j - 1] = events[j]
    BY SMTT(60), <1>4, <1>5, <2>1
  <2> QED
    BY <2>1, <2>2 DEF EndsFor
<1>8. ASSUME NEW i \in 0 .. Len(bus), NEW r, Ends(bus, i, r) PROVE Ends(bus', i, r)
  <2>1. PICK j \in 1 .. Len(bus) : j > i /\ bus[j].requestId = r /\ bus[j].state \in Terminal
    BY <1>8 DEF Ends
  <2>2. j \in 1 .. Len(bus') /\ bus'[j] = bus[j]
    BY SMTT(60), <1>6, <2>1
  <2> QED
    BY <2>1, <2>2 DEF Ends
<1>9. ASSUME NEW i \in 0 .. Len(bus), NEW r, EndsFor(events, registered, 0, r)
      PROVE  EndsFor(events', registered, 0, r) \/ Ends(bus', i, r)
  <2>1. PICK j \in 1 .. n : /\ j > 0 /\ events[j].requestId = r
                            /\ events[j].state \in Terminal /\ events[j].user = registered
    BY <1>4, <1>9 DEF EndsFor
  <2>2. CASE j = 1
    <3>1. /\ Len(bus) + 1 \in 1 .. Len(bus') /\ Len(bus) + 1 > i
          /\ bus'[Len(bus) + 1] = events[1]
      BY SMTT(60), <1>6, <2>1, <2>2
    <3> QED
      BY <2>1, <2>2, <3>1 DEF Ends
  <2>3. CASE j # 1
    <3>1. j - 1 \in 1 .. Len(events') /\ j - 1 > 0 /\ events'[j - 1] = events[j]
      BY SMTT(60), <1>4, <1>5, <2>1, <2>3
    <3> QED
      BY <2>1, <3>1 DEF EndsFor
  <2> QED
    BY <2>2, <2>3
<1>10. /\ 0 \in 0 .. n - 1 /\ 0 + 1 = 1 /\ 1 \in 1 .. n /\ 0 \in 0 .. Len(bus)
       /\ \A i \in 1 .. Len(bus) : i \in 0 .. Len(bus)
       /\ \A i \in 1 .. n - 1 : i \in 0 .. n - 1 /\ i + 1 \in 1 .. n
  BY SMTT(60), <1>4, <1>6
<1>11. QueuedCloses'
  <2> SUFFICES ASSUME NEW i \in 1 .. n - 1, events'[i].state \notin Terminal,
                      events'[i].user = registered
               PROVE  \/ events'[i].requestId \in Closable
                      \/ EndsFor(events', registered, i, events'[i].requestId)
    BY <1>2, <1>3, <1>5 DEF QueuedCloses
  <2>1. events'[i] = events[i + 1]
    BY <1>5
  <2>2. \/ events[i + 1].requestId \in Closable
        \/ EndsFor(events, registered, i + 1, events[i + 1].requestId)
    BY <1>1, <1>4, <1>10, <2>1 DEF QueuedCloses
  <2> QED
    BY <1>7, <1>10, <2>1, <2>2
<1>12. SentCloses'
  <2> SUFFICES ASSUME NEW i \in 1 .. Len(bus'), bus'[i].state \notin Terminal
               PROVE  \/ bus'[i].requestId \in Closable
                      \/ EndsFor(events', registered, 0, bus'[i].requestId)
                      \/ Ends(bus', i, bus'[i].requestId)
    BY <1>2, <1>3 DEF SentCloses
  <2>1. CASE i \in 1 .. Len(bus)
    <3>1. bus'[i] = bus[i]
      BY <1>6, <2>1
    <3>2. \/ bus[i].requestId \in Closable
          \/ EndsFor(events, registered, 0, bus[i].requestId)
          \/ Ends(bus, i, bus[i].requestId)
      BY <1>1, <2>1, <3>1 DEF SentCloses
    <3> QED
      BY <1>8, <1>9, <1>10, <2>1, <3>1, <3>2
  <2>2. CASE registered = events[1].user /\ i = Len(bus) + 1
    <3>1. bus'[i] = events[1]
      BY <1>6, <2>2
    <3>2. \/ events[1].requestId \in Closable
          \/ EndsFor(events, registered, 1, events[1].requestId)
      BY <1>1, <1>4, <1>10, <2>2, <3>1 DEF QueuedCloses
    <3> QED
      BY <1>7, <1>10, <3>1, <3>2
  <2> QED
    BY SMTT(60), <1>6, <2>1, <2>2
<1>13. HeldCloses'
  BY <1>1, <1>2, <1>3, <1>8, <1>9, <1>10 DEF HeldCloses
<1> QED
  BY <1>11, <1>12, <1>13 DEF ClosingInv

\* The tracker takes the end of its own request whenever it comes.
LEMMA ReceiveCloses == ASSUME Base, ClosingInv, ReceiveEvent PROVE ClosingInv'
<1>1. /\ UNCHANGED <<registered, events, current, cancels, request, user>>
      /\ bus # <<>> /\ bus' = Tail(bus)
      /\ \/ Acceptable(Head(bus)) /\ Accept(Head(bus))
         \/ ~Acceptable(Head(bus)) /\ tracker' = tracker
  BY DEF ReceiveEvent, vars
<1>2. tracker # NoTracker
  BY <1>1, BusIsAttached
<1>3. QueuedCloses /\ SentCloses /\ HeldCloses
  BY <1>2 DEF ClosingInv
<1>4. Closable' = Closable
  BY <1>1 DEF Closable, Pending
<1>5. PICK n \in Nat \ {0} : n = Len(bus)
  BY <1>1, Requested, Taken
<1>6. /\ Head(bus) = bus[1] /\ Len(bus') = n - 1 /\ bus[1] \in StateEvents
      /\ \A i \in 1 .. n - 1 : bus'[i] = bus[i + 1]
  BY <1>1, <1>5, Requested, Taken
<1>7. ASSUME NEW i \in 0 .. n - 1, NEW r, Ends(bus, i + 1, r) PROVE Ends(bus', i, r)
  <2>1. PICK j \in 1 .. n : /\ j > i + 1 /\ bus[j].requestId = r /\ bus[j].state \in Terminal
    BY <1>5, <1>7 DEF Ends
  <2>2. j - 1 \in 1 .. Len(bus') /\ j - 1 > i /\ bus'[j - 1] = bus[j]
    BY SMTT(60), <1>5, <1>6, <2>1
  <2> QED
    BY <2>1, <2>2 DEF Ends
<1>8. /\ 0 \in 0 .. n - 1 /\ 0 + 1 = 1 /\ 1 \in 1 .. n
      /\ \A i \in 1 .. n - 1 : i \in 0 .. n - 1 /\ i + 1 \in 1 .. n
  BY SMTT(60), <1>5
<1>9. QueuedCloses'
  BY <1>1, <1>3, <1>4 DEF QueuedCloses
<1>10. SentCloses'
  <2> SUFFICES ASSUME NEW i \in 1 .. n - 1, bus'[i].state \notin Terminal
               PROVE  \/ bus'[i].requestId \in Closable
                      \/ EndsFor(events, registered, 0, bus'[i].requestId)
                      \/ Ends(bus', i, bus'[i].requestId)
    BY <1>1, <1>4, <1>6 DEF SentCloses
  <2>1. bus'[i] = bus[i + 1]
    BY <1>6
  <2>2. \/ bus[i + 1].requestId \in Closable
        \/ EndsFor(events, registered, 0, bus[i + 1].requestId)
        \/ Ends(bus, i + 1, bus[i + 1].requestId)
    BY <1>3, <1>5, <1>8, <2>1 DEF SentCloses
  <2> QED
    BY <1>7, <1>8, <2>1, <2>2
<1>11. HeldCloses'
  <2>1. CASE Accept(Head(bus))
    <3>1. tracker'.activeRequestId = IF bus[1].state \in Terminal THEN 0 ELSE bus[1].requestId
      BY <1>6, <2>1, AcceptFields DEF Base, ScreenTypes, IInv
    <3>2. CASE bus[1].state \in Terminal
      BY <3>1, <3>2 DEF HeldCloses
    <3>3. CASE bus[1].state \notin Terminal
      <4>1. \/ bus[1].requestId \in Closable
            \/ EndsFor(events, registered, 0, bus[1].requestId)
            \/ Ends(bus, 1, bus[1].requestId)
        BY <1>3, <1>5, <1>8, <3>3 DEF SentCloses
      <4>2. \/ bus[1].requestId \in Closable
            \/ EndsFor(events, registered, 0, bus[1].requestId)
            \/ Ends(bus', 0, bus[1].requestId)
        BY <1>7, <1>8, <4>1
      <4>3. tracker'.activeRequestId = bus[1].requestId
        BY <3>1, <3>3
      <4> QED
        BY <1>1, <1>4, <4>2, <4>3 DEF HeldCloses
    <3> QED
      BY <3>2, <3>3
  <2>2. CASE ~Acceptable(Head(bus)) /\ tracker' = tracker
    <3>1. ASSUME bus[1].state \in Terminal PROVE bus[1].requestId # tracker.activeRequestId
      <4>1. bus[1].user.generation = tracker.generation
        BY <1>2, <1>5, <1>8 DEF Base, Attached, IInv
      <4>2. ~Starts(bus[1]) /\ bus[1].state # "secret_required"
        BY <3>1 DEF Starts, Terminal
      <4> QED
        BY <1>6, <2>2, <4>1, <4>2 DEF Acceptable
    <3>2. ASSUME Ends(bus, 0, tracker.activeRequestId) PROVE Ends(bus, 1, tracker.activeRequestId)
      <4>1. PICK j \in 1 .. n : /\ j > 0 /\ bus[j].requestId = tracker.activeRequestId
                                /\ bus[j].state \in Terminal
        BY <1>5, <3>2 DEF Ends
      <4>2. j # 1
        BY <3>1, <4>1
      <4>3. j > 1
        BY SMTT(60), <1>5, <4>1, <4>2
      <4> QED
        BY <1>5, <4>1, <4>3 DEF Ends
    <3> QED
      BY <1>1, <1>3, <1>4, <1>7, <1>8, <2>2, <3>2 DEF HeldCloses
  <2> QED
    BY <1>1, <2>1, <2>2
<1> QED
  BY <1>9, <1>10, <1>11 DEF ClosingInv

\* The request of the tracker, in any state.
LEMMA HeldRequest ==
    ASSUME RunInv, tracker.activeRequestId # 0
    PROVE  LET r == tracker.activeRequestId
           IN  \/ r \in cancels \/ (r = request /\ pc \in Holding)
               \/ EndsFor(events, registered, 0, r) \/ Ends(bus, 0, r)
<1>1. tracker # NoTracker
  BY SMTT(60) DEF NoTracker
<1>2. HeldCloses
  BY <1>1 DEF RunInv, ClosingInv
<1>3. ASSUME NEW r, r # 0, Pending(r) PROVE r = request /\ pc \in Holding
  BY <1>3 DEF Pending, RunInv, ClientInv, Base, Owned, IInv
<1> QED
  BY <1>2, <1>3 DEF HeldCloses, Closable

-----------------------------------------------------------------------------
(* What the window shows is the documented flow.                           *)

\* What follows what.
LEMMA FollowsFacts ==
    /\ \A s \in Terminal : Follows(s) = {}
    /\ Follows("none") = {"presence_required", "verification_started"}
    /\ \A s : "secret_required" \in Follows(s) => Follows(s) = Follows("secret_required")
    /\ \A s : "none" \notin Follows(s)
    /\ \A s : Screen!Follows(s) = Follows(s)
<1>1. \A s \in Terminal : Follows(s) = {}
  BY DEF Follows, Flow!Follows, Flow!Opening, Flow!Verifying, Flow!Ended, Terminal
<1>2. Follows("none") = {"presence_required", "verification_started"}
  BY DEF Follows, Flow!Follows, Flow!Opening, Flow!Verifying, Flow!Ended
<1>3. ASSUME NEW s
      PROVE  /\ "secret_required" \in Follows(s) => Follows(s) = Follows("secret_required")
             /\ "none" \notin Follows(s)
  <2>1. CASE s \in Flow!Verifying
    <3>1. Follows(s) = Flow!Verifying \cup {"verification_succeeded", "verification_failed"} \cup Flow!Ended
      BY <2>1 DEF Follows, Flow!Follows, Flow!Opening, Flow!Verifying, Flow!Ended
    <3>2. Follows("secret_required") =
              Flow!Verifying \cup {"verification_succeeded", "verification_failed"} \cup Flow!Ended
      BY DEF Follows, Flow!Follows, Flow!Opening, Flow!Verifying, Flow!Ended
    <3> QED
      BY <3>1, <3>2 DEF Flow!Verifying, Flow!Ended
  <2>2. CASE s \notin Flow!Verifying
    BY <2>2 DEF Follows, Flow!Follows, Flow!Opening, Flow!Verifying, Flow!Ended
  <2> QED
    BY <2>1, <2>2
<1>4. \A s : Screen!Follows(s) = Follows(s)
  BY DEF Follows, Flow!Follows, Flow!Opening, Flow!Verifying, Flow!Ended,
     Screen!Follows, Screen!Opening, Screen!Verifying, Screen!Ended
<1> QED
  BY <1>1, <1>2, <1>3, <1>4

\* The state that was handed over last is of a request the client knows.
LEMMA ReachedKnown ==
    ASSUME Base, NEW r \in Requests, Reached[r] # "none" PROVE r \in Known
<1>1. Reached[r] = LastOf(handed, displayed, r)
  BY DEF Reached
<1>2. CASE handed # <<>> /\ handed[Len(handed)].requestId = r
  <2>1. Len(handed) \in 1 .. Len(handed)
    BY SMTT(60), <1>2, QueueFacts
  <2> QED
    BY <1>2, <2>1 DEF Known
<1>3. CASE ~(handed # <<>> /\ handed[Len(handed)].requestId = r)
  BY <1>1, <1>3 DEF LastOf, Known
<1> QED
  BY <1>2, <1>3

\* A step that moves no event and lets no stale request be current again.
LEMMA FlowKept ==
    ASSUME Signalled, DisplayInv, UNCHANGED <<bus, startup, posted, overflowed, displayed, tracker, shown>>,
           \A r \in Known : shown[r] # "none" /\ r \in StaleRequests => r \in StaleRequests'
    PROVE  Signalled' /\ DisplayInv'
<1>1. handed' = handed
  BY DEF handed
<1>2. Reached' = Reached /\ Known' = Known
  BY <1>1 DEF Reached, Known, LastOf
<1>3. Signalled'
  BY <1>2 DEF Signalled
<1>4. ASSUME tracker # NoTracker, ~overflowed
      PROVE  (HandedFlow /\ SentOrder /\ SentTurn /\ SentLast /\ HeldFlow /\ Finished)'
  <2>1. HandedFlow /\ SentOrder /\ SentTurn /\ SentLast /\ HeldFlow /\ Finished
    BY <1>4 DEF DisplayInv
  <2>2. HandedFlow' /\ SentOrder'
    BY <1>1, <2>1 DEF HandedFlow, SentOrder, Ordered, InTurn, Before
  <2>3. SentTurn' /\ SentLast' /\ HeldFlow'
    BY <1>1, <1>2, <2>1 DEF SentTurn, SentLast, HeldFlow
  <2>4. Finished'
    BY <1>2, <2>1 DEF Finished, Signalled
  <2> QED
    BY <2>2, <2>3, <2>4
<1> QED
  BY <1>3, <1>4 DEF DisplayInv

\* Without a connection there is nothing on its way.
LEMMA FlowAbsent ==
    ASSUME Signalled, UNCHANGED <<shown, displayed>>, tracker' = NoTracker, bus' = <<>>,
           startup' = <<>>, posted' = <<>>
    PROVE  Signalled' /\ DisplayInv'
<1>1. Len(handed') = 0 /\ Len(bus') = 0
  BY SMTT(60) DEF handed
<1>2. Known' \subseteq Known
  BY SMTT(60), <1>1 DEF Known
<1>3. Signalled'
  BY SMTT(60), <1>1, <1>2 DEF Signalled
<1> QED
  BY <1>3 DEF DisplayInv

\* A connection that comes anew has no part in what is queued.
LEMMA ConnectedFlow ==
    ASSUME Base, FlowInv, Signalled, Connected PROVE Signalled' /\ DisplayInv'
<1>1. /\ registered' # user /\ registered'.generation = nextGeneration
      /\ UNCHANGED <<current, request, user, events, bus>>
      /\ tracker' = [generation |-> nextGeneration, activeRequestId |-> 0, activePromptId |-> 0]
      /\ bus = <<>>
  BY NewRegistration
<1>2. startup = <<>> /\ posted = <<>> /\ UNCHANGED <<startup, posted, displayed, shown>>
  BY DEF Connected, Register, Base, Handling, Attached, Absent, queues, IInv
<1>3. Len(handed') = 0 /\ Len(bus') = 0 /\ Len(handed) = 0 /\ handed' = <<>>
  BY SMTT(60), <1>1, <1>2 DEF handed
<1>4. Known' = Known
  BY <1>2 DEF Known, handed
<1>5. Signalled'
  BY <1>1, <1>2, <1>4 DEF Signalled
<1>6. HandedFlow' /\ SentOrder' /\ SentTurn' /\ SentLast'
  BY SMTT(60), <1>3 DEF HandedFlow, Ordered, InTurn, SentOrder, SentTurn, SentLast
<1>7. HeldFlow'
  BY <1>1, <1>3 DEF HeldFlow
<1>8. ASSUME NEW r \in Requests PROVE r \in StaleRequests'
  <2>1. nextGeneration \in Nat
    BY SMTT(60), RegistryBounds DEF Base, TypeOK, IInv
  <2>2. ASSUME NEW i \in 1 .. Len(events) PROVE events[i].user # registered'
    <3>1. events[i].user.generation < nextGeneration
      BY DEF FlowInv, InOrder
    <3> QED
      BY SMTT(60), <1>1, <2>1, <3>1
  <2>3. current.requestId = r => current.user = user
    BY QueueFacts DEF Base, Owned, IInv
  <2> QED
    BY <1>1, <2>2, <2>3 DEF StaleRequests
<1>9. Finished'
  BY <1>8 DEF Finished, Known
<1> QED
  BY <1>5, <1>6, <1>7, <1>9 DEF DisplayInv

\* The window shows the state that was handed over first.
LEMMA ShowFlow ==
    ASSUME Base, ScreenInv, Signalled, DisplayInv, ShowStartup \/ ShowPosted
    PROVE  Signalled' /\ DisplayInv' /\ Screen!Next
<1>1. /\ handed # <<>> /\ handed \in Seq(StateEvents) /\ handed' = Tail(handed)
      /\ ShowEvent(Head(handed))
  BY Showing DEF Base, IInv
<1>2. /\ UNCHANGED <<started, overflowed, tracker, bus, shown, events, current, registered>>
      /\ started
  BY DEF ShowStartup, ShowPosted, Looping, vars
<1>3. ~overflowed /\ tracker # NoTracker
  BY <1>2, BusIsAttached DEF ScreenInv, HandOver
<1>4. PICK m \in Nat \ {0} : m = Len(handed)
  BY <1>1, Taken
<1>5. /\ Head(handed) = handed[1] /\ Len(handed') = m - 1
      /\ \A i \in 1 .. m - 1 : handed'[i] = handed[i + 1]
      /\ handed' = <<>> <=> m = 1
  <2>1. /\ Head(handed) = handed[1] /\ Len(handed') = m - 1 /\ handed' \in Seq(StateEvents)
        /\ \A i \in 1 .. m - 1 : handed'[i] = handed[i + 1]
    BY <1>1, <1>4, Taken
  <2>2. \A q \in Seq(StateEvents) : q = <<>> <=> Len(q) = 0
    BY SMTT(60)
  <2>3. handed' = <<>> <=> m = 1
    BY SMTT(60), <1>4, <2>1, <2>2
  <2> QED
    BY <2>1, <2>3
<1>6. PICK r \in Requests : r = handed[1].requestId
  <2>1. 1 \in 1 .. Len(handed)
    BY SMTT(60), <1>4
  <2> QED
    BY <2>1, QueueFacts
<1>7. /\ displayed' = [displayed EXCEPT ![r] = handed[1].state]
      /\ displayed \in [Requests -> States \cup {"none"}]
  BY <1>1, <1>5, <1>6 DEF ShowEvent, Base, ScreenTypes, IInv
<1>8. /\ displayed'[r] = handed[1].state
      /\ \A x \in Requests : x # r => displayed'[x] = displayed[x]
  BY <1>6, <1>7
<1>9. HandedFlow /\ SentOrder /\ SentTurn /\ SentLast /\ HeldFlow /\ Finished
  BY <1>3 DEF DisplayInv
<1>10. /\ Len(bus) \in Nat
       /\ \A i \in 1 .. m : handed[i].requestId \in Requests
       /\ \A i \in 1 .. Len(bus) : bus[i].requestId \in Requests
       /\ \A x \in Requests : x \in Nat /\ x # 0
  BY <1>4, QueueFacts
<1> HIDE DEF handed
<1>11. /\ \A i \in 1 .. m, j \in 1 .. m : j <= i => handed[j].requestId <= handed[i].requestId
       /\ \A i \in 1 .. m : \A x \in Requests : x > handed[i].requestId => displayed[x] = "none"
  BY SMTT(60), <1>4, <1>9 DEF HandedFlow, Ordered
<1>12. \A i \in 1 .. m : handed[i].state \in Follows(Before(handed, displayed, i))
  BY <1>4, <1>9 DEF HandedFlow, InTurn
<1>13. Screen!Next
  <2>1. handed[1].state \in Screen!Follows(displayed[r])
    <3>1. Before(handed, displayed, 1) = displayed[r]
      BY SMTT(60), <1>6 DEF Before
    <3>2. 1 \in 1 .. m
      BY SMTT(60), <1>4
    <3> QED
      BY <1>12, <3>1, <3>2, FollowsFacts
  <2>2. \A later \in r + 1 .. MaxInteractions : displayed[later] = "none"
    BY SMTT(60), <1>4, <1>6, <1>11, RegistryBounds DEF Requests
  <2>3. Screen!Signal(r)
    BY <1>7, <2>1, <2>2 DEF Screen!Signal
  <2> QED
    BY <2>3 DEF Screen!Next, Screen!Requests, Requests
<1>14. Known' \subseteq Known
  <2> SUFFICES ASSUME NEW x \in Requests,
                      displayed'[x] # "none" \/ \E i \in 1 .. Len(handed') : handed'[i].requestId = x
               PROVE  displayed[x] # "none" \/ \E i \in 1 .. m : handed[i].requestId = x
    BY <1>4 DEF Known
  <2> QED
    BY SMTT(60), <1>4, <1>5, <1>6, <1>8
<1>15. Signalled'
  BY <1>2, <1>14 DEF Signalled
<1>16. HandedFlow'
  <2>1. ASSUME NEW i \in 1 .. m - 1
        PROVE  /\ \A j \in 1 .. i : handed'[j].requestId <= handed'[i].requestId
               /\ \A x \in Requests : x > handed'[i].requestId => displayed'[x] = "none"
    <3>1. /\ i + 1 \in 1 .. m /\ 1 \in 1 .. m /\ 1 <= i + 1 /\ handed'[i] = handed[i + 1]
          /\ handed[i + 1].requestId \in Requests
      BY SMTT(60), <1>4, <1>5, <1>10
    <3>2. \A j \in 1 .. i : handed'[j] = handed[j + 1] /\ j + 1 \in 1 .. m /\ j + 1 <= i + 1
      BY SMTT(60), <1>4, <1>5
    <3>3. r <= handed[i + 1].requestId
      BY <1>6, <1>11, <3>1
    <3>4. ASSUME NEW x \in Requests, x > handed[i + 1].requestId PROVE displayed'[x] = "none"
      <4>1. x # r
        BY SMTT(60), <1>6, <1>10, <3>1, <3>3, <3>4
      <4> QED
        BY <1>8, <1>11, <3>1, <3>4, <4>1
    <3> QED
      BY <1>11, <3>1, <3>2, <3>4
  <2>2. ASSUME NEW i \in 1 .. m - 1
        PROVE  Before(handed', displayed', i) = Before(handed, displayed, i + 1)
    <3>1. CASE i = 1
      BY SMTT(60), <1>4, <1>5, <1>6, <1>8, <1>10, <3>1 DEF Before
    <3>2. CASE i > 1
      <4>1. /\ handed'[i] = handed[i + 1] /\ handed'[i - 1] = handed[i]
            /\ handed[i + 1].requestId \in Requests
        BY SMTT(60), <1>4, <1>5, <1>10, <3>2
      <4>2. handed[i].requestId # handed[i + 1].requestId => handed[i + 1].requestId # r
        BY SMTT(60), <1>4, <1>6, <1>10, <1>11
      <4> QED
        BY SMTT(60), <1>4, <1>8, <3>2, <4>1, <4>2 DEF Before
    <3> QED
      BY SMTT(60), <3>1, <3>2
  <2>3. \A i \in 1 .. m - 1 : i + 1 \in 1 .. m
    BY SMTT(60), <1>4
  <2>4. \A i \in 1 .. m - 1 : handed'[i].state \in Follows(Before(handed', displayed', i))
    BY <1>5, <1>12, <2>2, <2>3
  <2> QED
    BY <1>5, <2>1, <2>4 DEF HandedFlow, Ordered, InTurn
<1>17. \A i \in 1 .. Len(bus), k \in 1 .. m : handed[k].requestId <= bus[i].requestId
  BY <1>4, <1>9 DEF SentOrder
<1>18. SentOrder'
  <2>1. \A i \in 1 .. Len(bus) :
            /\ \A j \in 1 .. i : bus[j].requestId <= bus[i].requestId
            /\ \A x \in Requests : x > bus[i].requestId => displayed[x] = "none"
    BY <1>9 DEF SentOrder, Ordered
  <2>2. \A i \in 1 .. Len(bus) : \A x \in Requests : x > bus[i].requestId => displayed'[x] = "none"
    BY SMTT(60), <1>4, <1>6, <1>8, <1>10, <1>17, <2>1
  <2>3. \A i \in 1 .. Len(bus), k \in 1 .. m - 1 : handed'[k].requestId <= bus[i].requestId
    BY SMTT(60), <1>4, <1>5, <1>17
  <2> QED
    BY <1>2, <1>5, <2>1, <2>2, <2>3 DEF SentOrder, Ordered
<1>19. ASSUME NEW x \in Requests, x = handed[m].requestId \/ x # r PROVE Reached'[x] = Reached[x]
  <2>1. /\ Reached[x] = IF handed[m].requestId = x THEN handed[m].state ELSE displayed[x]
        /\ Reached'[x] = IF handed' # <<>> /\ handed'[m - 1].requestId = x THEN handed'[m - 1].state
                         ELSE displayed'[x]
    BY <1>1, <1>4, <1>5 DEF Reached, LastOf
  <2>2. CASE m = 1
    BY <1>5, <1>6, <1>8, <1>19, <2>1, <2>2
  <2>3. CASE m > 1
    <3>1. handed' # <<>> /\ handed'[m - 1] = handed[m]
      BY SMTT(60), <1>5, <2>3
    <3> QED
      BY <1>8, <1>19, <2>1, <3>1
  <2> QED
    BY SMTT(60), <2>2, <2>3
<1>20. ASSUME NEW i \in 1 .. Len(bus) PROVE Reached'[bus[i].requestId] = Reached[bus[i].requestId]
  <2>1. bus[i].requestId = handed[m].requestId \/ bus[i].requestId # r
    BY SMTT(60), <1>4, <1>6, <1>10, <1>11, <1>17
  <2> QED
    BY <1>10, <1>19, <2>1
<1>21. SentTurn' /\ SentLast'
  BY <1>2, <1>9, <1>20 DEF SentTurn, SentLast
<1>22. HeldFlow'
  <2>1. tracker.activeRequestId = IF handed[m].state \in Terminal THEN 0 ELSE handed[m].requestId
    BY <1>1, <1>4, <1>9 DEF HeldFlow
  <2>2. handed' # <<>> => handed'[Len(handed')] = handed[m]
    BY SMTT(60), <1>4, <1>5
  <2>3. m \in 1 .. m
    BY SMTT(60), <1>4
  <2>4. tracker.activeRequestId # 0 => Reached'[tracker.activeRequestId] = Reached[tracker.activeRequestId]
    BY <1>10, <1>19, <2>1, <2>3
  <2> QED
    BY <1>2, <1>9, <2>1, <2>2, <2>4 DEF HeldFlow
<1>23. Finished'
  BY <1>2, <1>9, <1>14 DEF Finished, StaleRequests
<1> QED
  BY <1>13, <1>15, <1>16, <1>18, <1>21, <1>22, <1>23 DEF DisplayInv

\* A request that leaves the daemon's queue is no longer stale than before.
LEMMA DeliverStale == ASSUME Base, Deliver PROVE StaleRequests \subseteq StaleRequests'
<1>1. /\ UNCHANGED <<registered, current>> /\ events # <<>> /\ events' = Tail(events)
      /\ events \in Seq(StateEvents)
  BY DEF Deliver, SendEvent, Base, EventTypes, IInv
<1>2. /\ Len(events') = Len(events) - 1 /\ Len(events) \in Nat \ {0}
      /\ \A i \in 1 .. Len(events) - 1 : events'[i] = events[i + 1]
  BY <1>1, Taken
<1>3. \A i \in 1 .. Len(events') : events'[i] = events[i + 1] /\ i + 1 \in 1 .. Len(events)
  BY SMTT(60), <1>2
<1> QED
  BY <1>1, <1>3 DEF StaleRequests

\* A signal goes to the bus behind the others; the client's window follows as
\* the queue does.
LEMMA DeliverFlow ==
    ASSUME Base, FlowInv, Signalled, DisplayInv, Deliver PROVE Signalled' /\ DisplayInv'
<1>1. /\ UNCHANGED <<registered, tracker, startup, posted, overflowed, displayed, current>>
      /\ events # <<>> /\ events' = Tail(events) /\ events \in Seq(StateEvents)
      /\ \/ bus' = bus /\ shown' = shown
         \/ /\ registered = Head(events).user /\ bus' = Append(bus, Head(events))
            /\ shown' = [shown EXCEPT ![Head(events).requestId] = Head(events).state]
  BY DEF Deliver, SendEvent, Base, EventTypes, IInv
<1>2. CASE bus' = bus /\ shown' = shown
  BY <1>1, <1>2, DeliverStale, FlowKept
<1>3. CASE /\ registered = Head(events).user /\ bus' = Append(bus, Head(events))
           /\ shown' = [shown EXCEPT ![Head(events).requestId] = Head(events).state]
  <2>1. PICK n \in Nat : n = Len(bus)
    BY QueueFacts
  <2>2. PICK e \in StateEvents : e = Head(events) /\ e = events[1]
    BY <1>1, Taken
  <2>3. 1 \in 1 .. Len(events)
    BY SMTT(60), <1>1, Taken
  <2>4. PICK r \in Requests : r = e.requestId
    BY <2>2 DEF StateEvents
  <2>5. /\ registered = e.user /\ shown' = [shown EXCEPT ![r] = e.state]
        /\ shown \in [Requests -> States \cup {"none"}]
    BY <1>3, <2>2, <2>4 DEF Base, TypeOK, IInv
  <2>6. shown'[r] = e.state /\ \A x \in Requests : x # r => shown'[x] = shown[x]
    BY <2>4, <2>5
  <2>7. /\ Len(bus') = n + 1 /\ bus' # <<>>
        /\ \A i \in 1 .. n : bus'[i] = bus[i] /\ i \in 1 .. Len(bus)
        /\ bus'[n + 1] = e
    BY SMTT(60), <1>3, <2>1, <2>2, QueueFacts
  <2>8. e.state \in Follows(shown[r]) /\ (\A x \in Requests : x > r => shown[x] = "none")
    <3>1. Told(1) = shown[r]
      BY SMTT(60), <2>2, <2>4 DEF Told, Of
    <3> QED
      BY <2>2, <2>3, <2>4, <2>5, <3>1 DEF FlowInv, Following, InOrder, Of, Follows
  <2>9. e.state # "none" /\ shown[r] \notin Terminal
    BY <2>8, FollowsFacts
  <2>10. r \notin StaleRequests
    BY <2>2, <2>3, <2>4, <2>5 DEF StaleRequests
  <2>11. handed' = handed
    BY <1>1 DEF handed
  <2>12. Known' = Known /\ Reached' = Reached
    BY <1>1, <2>11 DEF Known, Reached, LastOf
  <2>13. Signalled'
    <3>1. \A x \in Requests : shown[x] # "none" => shown'[x] # "none"
      BY <2>6, <2>9
    <3>2. \A i \in 1 .. n : shown[bus[i].requestId] # "none" /\ bus[i].requestId \in Requests
      BY <2>1, QueueFacts DEF Signalled
    <3>3. \A i \in 1 .. n + 1 : shown'[bus'[i].requestId] # "none"
      <4> SUFFICES ASSUME NEW i \in 1 .. n + 1 PROVE shown'[bus'[i].requestId] # "none"
        OBVIOUS
      <4>1. CASE i = n + 1
        BY <2>4, <2>6, <2>7, <2>9, <4>1
      <4>2. CASE i \in 1 .. n
        BY <2>7, <3>1, <3>2, <4>2
      <4> QED
        BY SMTT(60), <2>1, <4>1, <4>2
    <3>4. \A x \in Known : shown'[x] # "none"
      BY <3>1 DEF Signalled, Known
    <3> QED
      BY <2>7, <2>12, <3>3, <3>4 DEF Signalled
  <2>14. ASSUME tracker # NoTracker, ~overflowed
         PROVE  (HandedFlow /\ SentOrder /\ SentTurn /\ SentLast /\ HeldFlow /\ Finished)'
    <3>1. HandedFlow /\ SentOrder /\ SentTurn /\ SentLast /\ HeldFlow /\ Finished
      BY <2>14 DEF DisplayInv
    <3>2. /\ \A i \in 1 .. n : bus[i].requestId \in Requests /\ bus[i].requestId <= r
          /\ \A k \in 1 .. Len(handed) : handed[k].requestId <= r
          /\ \A x \in Requests : x > r => displayed[x] = "none"
          /\ r \in Nat /\ \A i \in 1 .. n : bus[i].requestId \in Nat
      <4>1. /\ \A i \in 1 .. n : bus[i].requestId \in Requests /\ shown[bus[i].requestId] # "none"
            /\ \A x \in Known : shown[x] # "none"
            /\ \A k \in 1 .. Len(handed) : handed[k].requestId \in Known
            /\ \A x \in Requests : x > r => x \notin Known
        BY <2>1, <2>8, QueueFacts DEF Signalled, Known
      <4>2. \A x \in Requests : x \in Nat
        BY QueueFacts
      <4>3. \A x \in Requests : shown[x] # "none" => x <= r
        BY SMTT(60), <2>4, <2>8, <4>2
      <4> QED
        BY <2>4, <4>1, <4>2, <4>3 DEF Known
    <3>3. /\ \A i \in 1 .. n, j \in 1 .. n : j <= i => bus[j].requestId <= bus[i].requestId
          /\ \A i \in 1 .. n : \A x \in Requests : x > bus[i].requestId => displayed[x] = "none"
          /\ \A i \in 1 .. n, k \in 1 .. Len(handed) : handed[k].requestId <= bus[i].requestId
      BY SMTT(60), <2>1, <3>1 DEF SentOrder, Ordered
    <3>4. tracker.activeRequestId # r => r \notin Known /\ Reached[r] = "none"
      BY <2>9, <2>10, <3>1, ReachedKnown DEF Finished
    <3>5. HandedFlow'
      BY <1>1, <2>11, <3>1 DEF HandedFlow, Ordered, InTurn, Before
    <3>6. SentOrder'
      <4> SUFFICES ASSUME NEW i \in 1 .. n + 1
                   PROVE  /\ \A j \in 1 .. i : bus'[j].requestId <= bus'[i].requestId
                          /\ \A x \in Requests : x > bus'[i].requestId => displayed[x] = "none"
                          /\ \A k \in 1 .. Len(handed) : handed[k].requestId <= bus'[i].requestId
        BY <1>1, <2>7, <2>11 DEF SentOrder, Ordered
      <4>1. CASE i = n + 1
        <5>1. \A j \in 1 .. i : bus'[j].requestId <= r
          BY SMTT(60), <2>4, <2>7, <3>2, <4>1
        <5> QED
          BY <2>4, <2>7, <3>2, <4>1, <5>1
      <4>2. CASE i \in 1 .. n
        <5>1. \A j \in 1 .. i : j \in 1 .. n /\ j <= i
          BY SMTT(60), <4>2
        <5> QED
          BY <2>7, <3>3, <4>2, <5>1
      <4> QED
        BY SMTT(60), <2>1, <4>1, <4>2
    <3>7. SentTurn'
      <4> SUFFICES ASSUME NEW i \in 1 .. n + 1
                   PROVE  /\ IF i > 1 /\ bus'[i - 1].requestId = bus'[i].requestId
                             THEN bus'[i].state \in Follows(bus'[i - 1].state)
                             ELSE tracker.activeRequestId = bus'[i].requestId =>
                                    bus'[i].state \in Follows(Reached[bus'[i].requestId])
                          /\ tracker.activeRequestId # bus'[i].requestId =>
                                Reached[bus'[i].requestId] = "none"
        BY <1>1, <2>7, <2>12 DEF SentTurn
      <4>1. CASE i = n + 1
        <5>1. CASE n > 0 /\ bus[n].requestId = r
          <6>1. n \in 1 .. n /\ bus'[n] = bus[n] /\ n = i - 1 /\ i > 1
            BY SMTT(60), <2>1, <2>7, <4>1, <5>1
          <6>2. shown[r] = bus[n].state
            BY <2>1, <3>1, <5>1, <6>1 DEF SentLast
          <6> QED
            BY <2>4, <2>7, <2>8, <3>4, <4>1, <5>1, <6>1, <6>2
        <5>2. CASE ~(n > 0 /\ bus[n].requestId = r)
          <6>1. ~(i > 1 /\ bus'[i - 1].requestId = r)
            BY SMTT(60), <2>1, <2>7, <4>1, <5>2
          <6>2. bus = <<>> \/ bus[1].requestId # r
            <7>1. CASE n = 0
              BY <2>1, <7>1, QueueFacts
            <7>2. CASE n > 0
              <8>1. n \in 1 .. n /\ 1 \in 1 .. n /\ 1 <= n
                BY SMTT(60), <2>1, <7>2
              <8>2. bus[1].requestId <= bus[n].requestId /\ bus[n].requestId <= r
                BY <3>2, <3>3, <8>1
              <8>3. bus[1].requestId \in Nat /\ bus[n].requestId \in Nat /\ r \in Nat
                BY <3>2, <8>1
              <8> QED
                BY SMTT(60), <5>2, <7>2, <8>2, <8>3
            <7> QED
              BY SMTT(60), <2>1, <7>1, <7>2
          <6>3. tracker.activeRequestId = r => e.state \in Follows(Reached[r])
            BY <2>8, <3>1, <6>2, QueueFacts DEF HeldFlow
          <6> QED
            BY <2>4, <2>7, <3>4, <4>1, <6>1, <6>3
        <5> QED
          BY <5>1, <5>2
      <4>2. CASE i \in 1 .. n
        <5>1. /\ bus'[i] = bus[i] /\ i \in 1 .. Len(bus)
              /\ i > 1 => bus'[i - 1] = bus[i - 1]
          BY SMTT(60), <2>7, <4>2
        <5> QED
          BY <3>1, <5>1 DEF SentTurn
      <4>3. i = n + 1 \/ i \in 1 .. n
        BY SMTT(60), <2>1
      <4> QED
        BY <4>1, <4>2, <4>3
    <3>8. SentLast'
      <4> SUFFICES ASSUME NEW i \in 1 .. n + 1,
                          i = n + 1 \/ bus'[i + 1].requestId # bus'[i].requestId
                   PROVE  shown'[bus'[i].requestId] = bus'[i].state
        BY <2>7 DEF SentLast
      <4>1. CASE i = n + 1
        BY <2>4, <2>6, <2>7, <4>1
      <4>2. CASE i \in 1 .. n
        <5>1. i = n \/ i + 1 \in 1 .. n
          BY SMTT(60), <2>1, <4>2
        <5>2. bus'[i + 1].requestId # bus'[i].requestId /\ bus'[i] = bus[i]
          BY SMTT(60), <2>1, <2>7, <4>2
        <5>3. CASE i = n
          <6>1. bus[i].requestId # r
            BY <2>4, <2>7, <5>2, <5>3
          <6>2. shown[bus[i].requestId] = bus[i].state
            BY <2>1, <3>1, <4>2, <5>3 DEF SentLast
          <6> QED
            BY <2>6, <3>2, <4>2, <5>2, <6>1, <6>2
        <5>4. CASE i + 1 \in 1 .. n
          <6>1. bus'[i + 1] = bus[i + 1]
            BY <2>7, <5>4
          <6>2. bus[i].requestId # r
            <7>1. i \in Nat /\ i + 1 \in Nat /\ i <= i + 1
              BY SMTT(60), <4>2
            <7>2. bus[i].requestId <= bus[i + 1].requestId /\ bus[i + 1].requestId <= r
              BY <3>2, <3>3, <4>2, <5>4, <7>1
            <7>3. bus[i].requestId \in Nat /\ bus[i + 1].requestId \in Nat /\ r \in Nat
              BY <3>2, <4>2, <5>4
            <7> QED
              BY SMTT(60), <5>2, <6>1, <7>2, <7>3
          <6>3. shown[bus[i].requestId] = bus[i].state
            BY <2>1, <3>1, <4>2, <5>2, <6>1 DEF SentLast
          <6> QED
            BY <2>6, <3>2, <4>2, <5>2, <6>2, <6>3
        <5> QED
          BY <5>1, <5>3, <5>4
      <4> QED
        BY SMTT(60), <2>1, <4>1, <4>2
    <3>9. HeldFlow'
      <4> SUFFICES ASSUME tracker.activeRequestId # 0
                   PROVE  bus'[1].requestId # tracker.activeRequestId =>
                              /\ bus = <<>> \/ bus[1].requestId # tracker.activeRequestId
                              /\ shown'[tracker.activeRequestId] = shown[tracker.activeRequestId]
        BY <1>1, <2>7, <2>11, <2>12, <3>1 DEF HeldFlow
      <4> SUFFICES ASSUME bus'[1].requestId # tracker.activeRequestId
                   PROVE  /\ bus = <<>> \/ bus[1].requestId # tracker.activeRequestId
                          /\ shown'[tracker.activeRequestId] = shown[tracker.activeRequestId]
        OBVIOUS
      <4>0. tracker.activeRequestId \in Requests
        BY SMTT(60) DEF Base, ScreenTypes, Trackers, Requests, IInv
      <4>1. CASE n = 0
        <5>1. bus = <<>> /\ bus'[1] = e
          BY SMTT(60), <2>1, <2>7, <4>1, QueueFacts
        <5> QED
          BY <2>4, <2>6, <4>0, <5>1
      <4>2. CASE n > 0
        <5>1. 1 \in 1 .. n /\ bus'[1] = bus[1] /\ n \in 1 .. n
          BY SMTT(60), <2>1, <2>7, <4>2
        <5>2. ASSUME tracker.activeRequestId = r PROVE FALSE
          <6>0. bus[1].requestId \in Nat /\ r \in Nat /\ bus[1].requestId <= r
            BY <3>2, <5>1
          <6>1. bus[1].requestId < r /\ r > bus[1].requestId
            BY SMTT(60), <5>1, <5>2, <6>0
          <6>2. displayed[r] = "none"
            BY <3>3, <5>1, <6>1
          <6>3. \A k \in 1 .. Len(handed) : handed[k].requestId # r
            <7>1. \A k \in 1 .. Len(handed) : /\ handed[k].requestId <= bus[1].requestId
                                              /\ handed[k].requestId \in Nat
              BY <3>3, <5>1, QueueFacts
            <7> QED
              BY SMTT(60), <6>0, <6>1, <7>1
          <6>4. r \notin Known
            BY <6>2, <6>3 DEF Known
          <6>5. Reached[r] # "none"
            BY <3>1, <5>2, QueueFacts DEF HeldFlow
          <6> QED
            BY <6>4, <6>5, ReachedKnown
        <5> QED
          BY <2>6, <4>0, <5>1, <5>2
      <4> QED
        BY SMTT(60), <2>1, <4>1, <4>2
    <3>10. Finished'
      <4> SUFFICES ASSUME NEW x \in Known, tracker.activeRequestId # x
                   PROVE  shown'[x] \in Terminal \/ x \in StaleRequests'
        BY <1>1, <2>12 DEF Finished
      <4>1. x # r /\ x \in Requests
        BY <3>4 DEF Known
      <4> QED
        BY <2>6, <3>1, <4>1, DeliverStale DEF Finished
    <3> QED
      BY <3>5, <3>6, <3>7, <3>8, <3>9, <3>10
  <2> QED
    BY <1>1, <2>13, <2>14 DEF DisplayInv
<1> QED
  BY <1>1, <1>2, <1>3

\* What the tracker makes of the first signal: it rejects one of the request
\* it holds only when the prompt is repeated, and what it accepts follows
\* what was handed over before.
LEMMA Tracked ==
    ASSUME Base, SentTurn, bus # <<>>
    PROVE  LET e == bus[1] IN
           /\ Acceptable(e) => /\ e.state \in Follows(Reached[e.requestId])
                               /\ tracker.activeRequestId \in {0, e.requestId}
           /\ ~Acceptable(e) /\ tracker.activeRequestId = e.requestId =>
                 /\ e.state = "secret_required"
                 /\ Follows(Reached[e.requestId]) = Follows(e.state)
<1> DEFINE e == bus[1]
<1>1. 1 \in 1 .. Len(bus) /\ ~(1 > 1)
  BY SMTT(60), QueueFacts
<1>2. e \in StateEvents /\ e.requestId \in Requests /\ e.requestId # 0
  BY <1>1, QueueFacts
<1>3. /\ tracker.activeRequestId = e.requestId => e.state \in Follows(Reached[e.requestId])
      /\ tracker.activeRequestId # e.requestId => Reached[e.requestId] = "none"
  BY <1>1 DEF SentTurn
<1>4. e.user.generation = tracker.generation
  <2>1. tracker # NoTracker
    BY BusIsAttached
  <2> QED
    BY <1>1, <2>1 DEF Base, Attached, IInv
<1> HIDE DEF e
<1>5. ASSUME Acceptable(e)
      PROVE  /\ e.state \in Follows(Reached[e.requestId])
             /\ tracker.activeRequestId \in {0, e.requestId}
  <2>1. tracker.activeRequestId \in {0, e.requestId}
    BY <1>5 DEF Acceptable
  <2>2. CASE tracker.activeRequestId = e.requestId
    BY <1>3, <2>1, <2>2
  <2>3. CASE tracker.activeRequestId # e.requestId
    <3>1. Starts(e)
      BY <1>5, <2>3 DEF Acceptable
    <3> QED
      BY <1>3, <2>1, <2>3, <3>1, FollowsFacts DEF Starts
  <2> QED
    BY <2>2, <2>3
<1>6. ASSUME ~Acceptable(e), tracker.activeRequestId = e.requestId
      PROVE  e.state = "secret_required" /\ Follows(Reached[e.requestId]) = Follows(e.state)
  <2>1. e.state = "secret_required"
    BY <1>4, <1>6 DEF Acceptable
  <2> QED
    BY <1>3, <1>6, <2>1, FollowsFacts
<1> QED
  BY <1>5, <1>6 DEF e

\* The bus without its first signal.
LEMMA TakenFromBus ==
    ASSUME Base, SentOrder, SentTurn, SentLast, bus # <<>>, bus' = Tail(bus), UNCHANGED shown
    PROVE  /\ bus' = <<>> <=> Len(bus') = 0
           /\ \A i \in 1 .. Len(bus') :
                 /\ bus'[i] = bus[i + 1] /\ i + 1 \in 1 .. Len(bus) /\ 1 \in 1 .. Len(bus')
                 /\ bus'[i].requestId \in Requests /\ bus[1].requestId <= bus'[i].requestId
                 /\ \A j \in 1 .. i : bus'[j].requestId <= bus'[i].requestId
                 /\ i > 1 /\ bus'[i - 1].requestId = bus'[i].requestId =>
                       bus'[i].state \in Follows(bus'[i - 1].state)
           /\ bus' # <<>> /\ bus'[1].requestId = bus[1].requestId =>
                 bus'[1].state \in Follows(bus[1].state)
           /\ bus' = <<>> \/ bus'[1].requestId # bus[1].requestId =>
                 shown[bus[1].requestId] = bus[1].state
           /\ SentLast'
<1>1. PICK n \in Nat \ {0} : n = Len(bus)
  BY QueueFacts
<1>2. /\ Len(bus') = n - 1 /\ bus' \in Seq(StateEvents)
      /\ \A i \in 1 .. n - 1 : bus'[i] = bus[i + 1]
  BY <1>1, QueueFacts, Taken
<1>3. bus' = <<>> <=> n = 1
  <2>1. \A q \in Seq(StateEvents) : q = <<>> <=> Len(q) = 0
    BY SMTT(60)
  <2> QED
    BY SMTT(60), <1>1, <1>2, <2>1
<1>4. \A i \in 1 .. n : bus[i].requestId \in Requests
  BY <1>1, QueueFacts
<1>5. \A i \in 1 .. n, j \in 1 .. n : j <= i => bus[j].requestId <= bus[i].requestId
  BY SMTT(60), <1>1 DEF SentOrder, Ordered
<1>6. \A i \in 1 .. n : i > 1 /\ bus[i - 1].requestId = bus[i].requestId =>
                           bus[i].state \in Follows(bus[i - 1].state)
  BY <1>1 DEF SentTurn
<1>7. \A i \in 1 .. n : i = n \/ bus[i + 1].requestId # bus[i].requestId =>
                           shown[bus[i].requestId] = bus[i].state
  BY <1>1 DEF SentLast
<1>8. ASSUME NEW i \in 1 .. n - 1
      PROVE  /\ bus'[i] = bus[i + 1] /\ i + 1 \in 1 .. n /\ 1 \in 1 .. n - 1
             /\ bus'[i].requestId \in Requests /\ bus[1].requestId <= bus'[i].requestId
             /\ \A j \in 1 .. i : bus'[j].requestId <= bus'[i].requestId
             /\ i > 1 /\ bus'[i - 1].requestId = bus'[i].requestId =>
                   bus'[i].state \in Follows(bus'[i - 1].state)
             /\ i = n - 1 \/ bus'[i + 1].requestId # bus'[i].requestId =>
                   shown[bus'[i].requestId] = bus'[i].state
  <2>1. /\ bus'[i] = bus[i + 1] /\ i + 1 \in 1 .. n /\ 1 \in 1 .. n - 1 /\ 1 \in 1 .. n /\ 1 <= i + 1
        /\ (i + 1) - 1 = i
    BY SMTT(60), <1>1, <1>2
  <2>2. \A j \in 1 .. i : bus'[j] = bus[j + 1] /\ j + 1 \in 1 .. n /\ j + 1 <= i + 1
    BY SMTT(60), <1>1, <1>2
  <2>3. i > 1 => bus'[i - 1] = bus[i] /\ i + 1 > 1
    BY SMTT(60), <1>1, <1>2
  <2>4. i = n - 1 \/ (bus'[i + 1] = bus[(i + 1) + 1])
    BY SMTT(60), <1>1, <1>2
  <2>5. i = n - 1 => i + 1 = n
    BY SMTT(60), <1>1
  <2>6. i > 1 /\ bus'[i - 1].requestId = bus'[i].requestId =>
            bus'[i].state \in Follows(bus'[i - 1].state)
    BY <1>6, <2>1, <2>3
  <2>7. i = n - 1 \/ bus'[i + 1].requestId # bus'[i].requestId =>
            shown[bus'[i].requestId] = bus'[i].state
    BY <1>7, <2>1, <2>4, <2>5
  <2> QED
    BY <1>4, <1>5, <2>1, <2>2, <2>6, <2>7
<1>9. bus' # <<>> /\ bus'[1].requestId = bus[1].requestId => bus'[1].state \in Follows(bus[1].state)
  BY SMTT(60), <1>1, <1>2, <1>3, <1>6
<1>10. bus' = <<>> \/ bus'[1].requestId # bus[1].requestId => shown[bus[1].requestId] = bus[1].state
  BY SMTT(60), <1>1, <1>2, <1>3, <1>7
<1>11. SentLast'
  BY <1>2, <1>8 DEF SentLast
<1>12. bus' = <<>> <=> Len(bus') = 0
  BY SMTT(60), <1>1, <1>2, <1>3
<1> QED
  BY <1>1, <1>2, <1>8, <1>9, <1>10, <1>11, <1>12

\* The tracker rejects the first signal.
LEMMA RejectFlow ==
    ASSUME Base, HandedFlow, SentOrder, SentTurn, SentLast, HeldFlow, Finished,
           bus # <<>>, bus' = Tail(bus), ~Acceptable(bus[1]),
           UNCHANGED <<tracker, startup, posted, displayed, shown, events, current, registered>>
    PROVE  (HandedFlow /\ SentOrder /\ SentTurn /\ SentLast /\ HeldFlow /\ Finished)'
<1>1. handed' = handed
  BY DEF handed
<1>2. Known' = Known /\ Reached' = Reached /\ StaleRequests' = StaleRequests
  BY <1>1 DEF Known, Reached, LastOf, StaleRequests
<1>3. /\ bus' = <<>> <=> Len(bus') = 0
      /\ \A i \in 1 .. Len(bus') :
            /\ bus'[i] = bus[i + 1] /\ i + 1 \in 1 .. Len(bus) /\ 1 \in 1 .. Len(bus')
            /\ \A j \in 1 .. i : bus'[j].requestId <= bus'[i].requestId
            /\ i > 1 /\ bus'[i - 1].requestId = bus'[i].requestId =>
                  bus'[i].state \in Follows(bus'[i - 1].state)
      /\ bus' # <<>> /\ bus'[1].requestId = bus[1].requestId =>
            bus'[1].state \in Follows(bus[1].state)
      /\ bus' = <<>> \/ bus'[1].requestId # bus[1].requestId =>
            shown[bus[1].requestId] = bus[1].state
      /\ SentLast'
  BY TakenFromBus
<1>4. tracker.activeRequestId = bus[1].requestId =>
          Follows(Reached[bus[1].requestId]) = Follows(bus[1].state)
  BY Tracked
<1>5. HandedFlow' /\ Finished'
  BY <1>1, <1>2 DEF HandedFlow, Ordered, InTurn, Before, Finished
<1>6. SentOrder'
  BY <1>1, <1>3 DEF SentOrder, Ordered
<1>7. SentTurn'
  <2> SUFFICES ASSUME NEW i \in 1 .. Len(bus')
               PROVE  /\ IF i > 1 /\ bus'[i - 1].requestId = bus'[i].requestId
                         THEN bus'[i].state \in Follows(bus'[i - 1].state)
                         ELSE tracker.activeRequestId = bus'[i].requestId =>
                                bus'[i].state \in Follows(Reached[bus'[i].requestId])
                      /\ tracker.activeRequestId # bus'[i].requestId =>
                            Reached[bus'[i].requestId] = "none"
    BY <1>2 DEF SentTurn
  <2>1. bus'[i] = bus[i + 1] /\ i + 1 \in 1 .. Len(bus)
    BY <1>3
  <2>2. tracker.activeRequestId # bus'[i].requestId => Reached[bus'[i].requestId] = "none"
    BY <2>1 DEF SentTurn
  <2>3. CASE i > 1 /\ bus'[i - 1].requestId = bus'[i].requestId
    BY <1>3, <2>2, <2>3
  <2>4. CASE i > 1 /\ bus'[i - 1].requestId # bus'[i].requestId
    <3>1. (i + 1) - 1 = i /\ i - 1 \in 1 .. Len(bus') /\ (i - 1) + 1 = i
      BY SMTT(60), <2>1, <2>4
    <3>2. bus[(i + 1) - 1].requestId # bus[i + 1].requestId
      BY <1>3, <2>1, <2>4, <3>1
    <3> QED
      BY <2>1, <2>2, <2>4, <3>2 DEF SentTurn
  <2>5. CASE ~(i > 1)
    <3>1. i = 1 /\ bus' # <<>> /\ i + 1 = 2 /\ (i + 1) - 1 = 1
      BY SMTT(60), <1>3, <2>5
    <3>2. CASE bus'[1].requestId = bus[1].requestId
      BY <1>3, <1>4, <2>2, <2>5, <3>1, <3>2
    <3>3. CASE bus'[1].requestId # bus[1].requestId
      <4>1. bus[(i + 1) - 1].requestId # bus[i + 1].requestId
        BY <2>1, <3>1, <3>3
      <4> QED
        BY <2>1, <2>2, <2>5, <4>1 DEF SentTurn
    <3> QED
      BY <3>2, <3>3
  <2> QED
    BY <2>3, <2>4, <2>5
<1>8. HeldFlow'
  BY <1>1, <1>2, <1>3, <1>4 DEF HeldFlow
<1> QED
  BY <1>3, <1>5, <1>6, <1>7, <1>8

\* The tracker accepts the first signal, and it is handed over.
LEMMA AcceptFlow ==
    ASSUME Base, HandedFlow, SentOrder, SentTurn, SentLast, HeldFlow, Finished,
           bus # <<>>, bus' = Tail(bus), Acceptable(bus[1]), handed' = Append(handed, bus[1]),
           tracker'.activeRequestId = IF bus[1].state \in Terminal THEN 0 ELSE bus[1].requestId,
           UNCHANGED <<displayed, shown, events, current, registered>>
    PROVE  (HandedFlow /\ SentOrder /\ SentTurn /\ SentLast /\ HeldFlow /\ Finished)'
<1>1. PICK e \in StateEvents : e = bus[1]
  <2>1. 1 \in 1 .. Len(bus)
    BY SMTT(60), QueueFacts
  <2> QED
    BY <2>1, QueueFacts
<1>2. PICK r \in Requests : r = e.requestId /\ r \in Nat /\ r # 0
  BY <1>1, QueueFacts DEF StateEvents
<1>3. PICK m \in Nat : m = Len(handed)
  BY QueueFacts
<1>4. /\ Len(handed') = m + 1 /\ handed' # <<>> /\ handed'[m + 1] = e
      /\ \A i \in 1 .. m : handed'[i] = handed[i]
  BY SMTT(60), <1>1, <1>3, QueueFacts
<1>5. /\ bus' = <<>> <=> Len(bus') = 0
      /\ \A i \in 1 .. Len(bus') :
            /\ bus'[i] = bus[i + 1] /\ i + 1 \in 1 .. Len(bus) /\ 1 \in 1 .. Len(bus')
            /\ bus'[i].requestId \in Requests /\ r <= bus'[i].requestId
            /\ \A j \in 1 .. i : bus'[j].requestId <= bus'[i].requestId
            /\ i > 1 /\ bus'[i - 1].requestId = bus'[i].requestId =>
                  bus'[i].state \in Follows(bus'[i - 1].state)
      /\ bus' # <<>> /\ bus'[1].requestId = r => bus'[1].state \in Follows(e.state)
      /\ bus' = <<>> \/ bus'[1].requestId # r => shown[r] = e.state
      /\ SentLast'
  BY <1>1, <1>2, TakenFromBus
<1>6. e.state \in Follows(Reached[r]) /\ tracker.activeRequestId \in {0, r}
  BY <1>1, <1>2, Tracked
<1>7. tracker'.activeRequestId = IF e.state \in Terminal THEN 0 ELSE r
  BY <1>1, <1>2
<1>8. e.state # "none"
  BY <1>6, FollowsFacts
<1>9. e.state \in Terminal => bus' = <<>> \/ bus'[1].requestId # r
  BY <1>5, FollowsFacts
<1>10. /\ \A k \in 1 .. m : handed[k].requestId <= r
       /\ \A x \in Requests : x > r => displayed[x] = "none"
       /\ \A k \in 1 .. m : handed[k].requestId \in Requests
       /\ \A x \in Requests : x \in Nat /\ x # 0
  <2>1. 1 \in 1 .. Len(bus)
    BY SMTT(60), QueueFacts
  <2> QED
    BY <1>1, <1>2, <1>3, <2>1, QueueFacts DEF SentOrder, Ordered
<1>11. \A x \in Requests : Reached'[x] = IF x = r THEN e.state ELSE displayed[x]
  BY <1>2, <1>4 DEF Reached, LastOf
<1>12. HandedFlow'
  <2>1. ASSUME NEW i \in 1 .. m + 1
        PROVE  /\ \A j \in 1 .. i : handed'[j].requestId <= handed'[i].requestId
               /\ \A x \in Requests : x > handed'[i].requestId => displayed[x] = "none"
               /\ handed'[i].state \in Follows(Before(handed', displayed, i))
    <3>1. CASE i = m + 1
      <4>1. \A j \in 1 .. i : handed'[j].requestId <= r
        BY SMTT(60), <1>2, <1>4, <1>10, <3>1
      <4>2. Before(handed', displayed, m + 1) = Reached[r]
        <5>1. Reached[r] = IF handed # <<>> /\ handed[m].requestId = r THEN handed[m].state
                           ELSE displayed[r]
          BY <1>3 DEF Reached, LastOf
        <5>2. (m + 1) - 1 = m /\ (m + 1 > 1 <=> handed # <<>>) /\ (m + 1 > 1 => handed'[m] = handed[m])
          BY SMTT(60), <1>3, <1>4, QueueFacts
        <5> QED
          BY <1>2, <1>4, <5>1, <5>2 DEF Before
      <4> QED
        BY <1>2, <1>4, <1>6, <1>10, <3>1, <4>1, <4>2
    <3>2. CASE i \in 1 .. m
      <4>1. /\ handed'[i] = handed[i] /\ i \in 1 .. Len(handed)
            /\ i > 1 => handed'[i - 1] = handed[i - 1]
            /\ \A j \in 1 .. i : handed'[j] = handed[j]
        BY SMTT(60), <1>3, <1>4, <3>2
      <4>2. Before(handed', displayed, i) = Before(handed, displayed, i)
        BY <4>1 DEF Before
      <4> QED
        BY <4>1, <4>2 DEF HandedFlow, Ordered, InTurn
    <3> QED
      BY SMTT(60), <1>3, <3>1, <3>2
  <2> QED
    BY <1>4, <2>1 DEF HandedFlow, Ordered, InTurn
<1>13. SentOrder'
  <2>1. ASSUME NEW i \in 1 .. Len(bus') PROVE \A k \in 1 .. m + 1 : handed'[k].requestId <= bus'[i].requestId
    <3>1. \A k \in 1 .. m : handed[k].requestId <= bus'[i].requestId
      BY <1>3, <1>5 DEF SentOrder
    <3>2. r <= bus'[i].requestId
      BY <1>5
    <3> QED
      BY SMTT(60), <1>2, <1>4, <3>1, <3>2
  <2>2. \A i \in 1 .. Len(bus') : \A x \in Requests : x > bus'[i].requestId => displayed[x] = "none"
    BY <1>5 DEF SentOrder, Ordered
  <2> QED
    BY <1>4, <1>5, <2>1, <2>2 DEF SentOrder, Ordered
<1>14. SentTurn'
  <2> SUFFICES ASSUME NEW i \in 1 .. Len(bus')
               PROVE  /\ IF i > 1 /\ bus'[i - 1].requestId = bus'[i].requestId
                         THEN bus'[i].state \in Follows(bus'[i - 1].state)
                         ELSE tracker'.activeRequestId = bus'[i].requestId =>
                                bus'[i].state \in Follows(Reached'[bus'[i].requestId])
                      /\ tracker'.activeRequestId # bus'[i].requestId =>
                            Reached'[bus'[i].requestId] = "none"
    BY DEF SentTurn
  <2>0. /\ bus'[i].requestId \in Requests /\ bus'[i].requestId \in Nat /\ r <= bus'[i].requestId
        /\ bus'[1].requestId \in Nat /\ r <= bus'[1].requestId
    BY <1>5, <1>10
  <2>1. 1 \in 1 .. i /\ bus' # <<>>
    BY SMTT(60), <1>5
  <2>2. bus'[1].requestId <= bus'[i].requestId
    BY <1>5, <2>1
  <2>3. tracker'.activeRequestId # bus'[i].requestId => Reached'[bus'[i].requestId] = "none"
    <3>1. CASE bus'[i].requestId = r
      <4>1. bus'[1].requestId = r
        BY SMTT(60), <1>2, <2>0, <2>2, <3>1
      <4> QED
        BY <1>7, <1>9, <2>1, <3>1, <4>1
    <3>2. CASE bus'[i].requestId # r
      <4>1. bus'[i].requestId > r
        BY SMTT(60), <1>2, <2>0, <3>2
      <4> QED
        BY <1>10, <1>11, <2>0, <3>2, <4>1
    <3> QED
      BY <3>1, <3>2
  <2>4. CASE i > 1 /\ bus'[i - 1].requestId = bus'[i].requestId
    BY <1>5, <2>3, <2>4
  <2>5. CASE ~(i > 1 /\ bus'[i - 1].requestId = bus'[i].requestId)
    <3>1. ASSUME tracker'.activeRequestId = bus'[i].requestId
          PROVE  bus'[i].state \in Follows(Reached'[bus'[i].requestId])
      <4>1. bus'[i].requestId = r
        BY <1>7, <1>10, <2>0, <3>1
      <4>2. CASE i = 1
        BY <1>5, <1>11, <2>1, <4>1, <4>2
      <4>3. CASE i > 1
        <5>1. i - 1 \in 1 .. Len(bus') /\ i - 1 \in 1 .. i
          BY SMTT(60), <4>3
        <5>2. /\ r <= bus'[i - 1].requestId /\ bus'[i - 1].requestId <= bus'[i].requestId
              /\ bus'[i - 1].requestId \in Nat
          BY <1>5, <1>10, <5>1
        <5>3. bus'[i - 1].requestId = bus'[i].requestId
          <6>1. \A a, b \in Nat : a <= b /\ b <= a => a = b
            BY SMTT(60)
          <6> QED
            BY <1>2, <4>1, <5>2, <6>1
        <5> QED
          BY <2>5, <4>3, <5>3
      <4> QED
        BY SMTT(60), <4>2, <4>3
    <3> QED
      BY <2>3, <2>5, <3>1
  <2> QED
    BY <2>4, <2>5
<1>15. HeldFlow'
  BY <1>2, <1>4, <1>5, <1>7, <1>8, <1>11 DEF HeldFlow
<1>16. Finished'
  <2> SUFFICES ASSUME NEW x \in Known', tracker'.activeRequestId # x
               PROVE  shown[x] \in Terminal \/ x \in StaleRequests
    BY DEF Finished, StaleRequests
  <2>1. CASE x = r
    BY <1>5, <1>7, <1>9, <2>1
  <2>2. CASE x # r
    <3>1. x \in Requests /\ (displayed[x] # "none" \/ \E i \in 1 .. m + 1 : handed'[i].requestId = x)
      BY <1>4 DEF Known
    <3>2. displayed[x] # "none" \/ \E i \in 1 .. m : handed[i].requestId = x
      BY SMTT(60), <1>2, <1>4, <2>2, <3>1
    <3>3. x \in Known
      BY <1>3, <3>1, <3>2 DEF Known
    <3> QED
      BY <1>6, <1>10, <2>2, <3>1, <3>3 DEF Finished
  <2> QED
    BY <2>1, <2>2
<1> QED
  BY <1>5, <1>12, <1>13, <1>14, <1>15, <1>16

\* The tracker takes a signal from the bus.
LEMMA ReceiveFlow ==
    ASSUME Base, ScreenInv, Signalled, DisplayInv, ReceiveEvent PROVE Signalled' /\ DisplayInv'
<1>1. /\ bus # <<>> /\ bus' = Tail(bus)
      /\ UNCHANGED <<started, displayed, shown, events, current, registered>>
      /\ IF Acceptable(Head(bus)) THEN Accept(Head(bus)) /\ Hand(Head(bus))
         ELSE UNCHANGED <<tracker, startup, overflowed, posted>>
  BY DEF ReceiveEvent, vars
<1>2. /\ Head(bus) = bus[1] /\ bus[1] \in StateEvents /\ 1 \in 1 .. Len(bus)
      /\ bus[1].requestId \in Requests
      /\ \A i \in 1 .. Len(bus') : bus'[i] = bus[i + 1] /\ i + 1 \in 1 .. Len(bus)
  <2>1. /\ Head(bus) = bus[1] /\ Len(bus') = Len(bus) - 1 /\ Len(bus) \in Nat \ {0}
        /\ \A i \in 1 .. Len(bus) - 1 : bus'[i] = bus[i + 1]
    BY <1>1, QueueFacts, Taken
  <2>2. 1 \in 1 .. Len(bus) /\ \A i \in 1 .. Len(bus') : bus'[i] = bus[i + 1] /\ i + 1 \in 1 .. Len(bus)
    BY SMTT(60), <2>1
  <2> QED
    BY <2>1, <2>2, QueueFacts
<1>3. tracker # NoTracker
  BY <1>1, BusIsAttached
<1>4. \A i \in 1 .. Len(bus') : shown'[bus'[i].requestId] # "none"
  BY <1>1, <1>2 DEF Signalled
<1>5. shown[bus[1].requestId] # "none"
  BY <1>2 DEF Signalled
<1>6. CASE ~Acceptable(bus[1])
  <2>1. UNCHANGED <<tracker, startup, overflowed, posted>>
    BY <1>1, <1>2, <1>6
  <2>2. Known' = Known
    BY <1>1, <2>1 DEF Known, handed
  <2>3. Signalled'
    BY <1>1, <1>4, <2>2 DEF Signalled
  <2>4. ASSUME ~overflowed
        PROVE  (HandedFlow /\ SentOrder /\ SentTurn /\ SentLast /\ HeldFlow /\ Finished)'
    <3>1. HandedFlow /\ SentOrder /\ SentTurn /\ SentLast /\ HeldFlow /\ Finished
      BY <1>3, <2>4 DEF DisplayInv
    <3> QED
      BY <1>1, <1>6, <2>1, <3>1, RejectFlow
  <2> QED
    BY <2>1, <2>3, <2>4 DEF DisplayInv
<1>7. CASE Acceptable(bus[1])
  <2>1. Accept(bus[1]) /\ Hand(bus[1])
    BY <1>1, <1>2, <1>7
  <2>2. /\ handed' = handed \/ handed' = Append(handed, bus[1])
        /\ ~overflowed' => ~overflowed /\ handed' = Append(handed, bus[1])
    BY <1>1, <1>2, <2>1, Handed DEF Base, ScreenInv, IInv
  <2>3. Known' \subseteq Known \cup {bus[1].requestId}
    <3> SUFFICES ASSUME NEW x \in Requests, x # bus[1].requestId,
                        displayed[x] # "none"
                          \/ \E i \in 1 .. Len(handed') : handed'[i].requestId = x
                 PROVE  displayed[x] # "none" \/ \E i \in 1 .. Len(handed) : handed[i].requestId = x
      BY <1>1 DEF Known
    <3>1. handed \in Seq(StateEvents)
      BY QueueFacts
    <3> HIDE DEF handed
    <3> QED
      BY SMTT(60), <1>2, <2>2, <3>1
  <2>4. Signalled'
    BY <1>1, <1>4, <1>5, <2>3 DEF Signalled
  <2>5. ASSUME ~overflowed'
        PROVE  (HandedFlow /\ SentOrder /\ SentTurn /\ SentLast /\ HeldFlow /\ Finished)'
    <3>1. HandedFlow /\ SentOrder /\ SentTurn /\ SentLast /\ HeldFlow /\ Finished
      BY <1>3, <2>2, <2>5 DEF DisplayInv
    <3>2. tracker'.activeRequestId = IF bus[1].state \in Terminal THEN 0 ELSE bus[1].requestId
      BY <1>2, <2>1, AcceptFields DEF Base, ScreenTypes, IInv
    <3> QED
      BY <1>1, <1>7, <2>2, <2>5, <3>1, <3>2, AcceptFlow
  <2> QED
    BY <2>4, <2>5 DEF DisplayInv
<1> QED
  BY <1>6, <1>7
=============================================================================
