------------------------------ MODULE AgentUi ------------------------------
(***************************************************************************)
(* vauth-ui as the registered agent: AgentClient, whose D-Bus thread       *)
(* filters the signals through InteractionTracker and hands them to the    *)
(* UI thread, and the UI thread, which shows them and calls the daemon     *)
(* from its callbacks.  A callback blocks the UI thread until the daemon   *)
(* has replied, while the D-Bus thread goes on.  Signals arrive in the     *)
(* order they are sent, and are dispatched only after the constructor has  *)
(* made the tracker, so its buffer for early events stays empty.           *)
(*                                                                         *)
(* The session stays active here, and the D-Bus loop does not fail: the    *)
(* client sees only that a call is refused.                                *)
(*                                                                         *)
(* vauth-ui may end at any time and be started again: Ui then stands for   *)
(* its new connection, which has another generation.                       *)
(***************************************************************************)
EXTENDS AgentService

CONSTANTS
    Ui,                 \* the bus name of vauth-ui
    MaxStartup,         \* MAX_STARTUP_EVENTS
    MaxBacklog          \* bound: signals sent and not yet shown

ASSUME UiIsAgent == Ui \in Agents
ASSUME StartupBound == MaxStartup \in Nat \ {0} /\ MaxBacklog \in Nat

VARIABLES
    bus,                \* signals on their way
    tracker,            \* tracker_ of AgentClient
    startup, overflowed,    \* UiStartup: the events before the event loop
    started,            \* eventLoopStarted
    posted,             \* invoke_from_event_loop: what the loop will show
    ui,                 \* UiRuntime and the properties of AppWindow
    calling,            \* the method the UI thread waits for, and what then
    displayed,          \* history: the last state shown for a request
    clicked             \* history: the requests the user allowed

queues == <<bus, startup, overflowed, started, posted>>
uiVars == <<queues, tracker, ui, calling, displayed, clicked>>
allVars == <<vars, uiVars>>

NoTracker == [generation |-> 0, activeRequestId |-> 0, activePromptId |-> 0]
NoCall == [method |-> "none", request |-> 0, prompt |-> 0, response |-> "none", then |-> "none"]
Hidden == [view |-> "none", request |-> 0, prompt |-> 0, active |-> FALSE,
           visible |-> FALSE, timer |-> FALSE]

UiInit ==
    /\ Init
    /\ bus = <<>> /\ startup = <<>> /\ overflowed = FALSE /\ started = FALSE /\ posted = <<>>
    /\ tracker = NoTracker /\ ui = Hidden /\ calling = NoCall
    /\ displayed = [r \in Requests |-> "none"]
    /\ clicked = {}

-----------------------------------------------------------------------------
(* AgentClient.                                                            *)

(* Its constructor: RegisterAgent, and the tracker of the generation that  *)
(* the daemon returns.                                                     *)
Connect ==
    /\ tracker = NoTracker /\ nextGeneration <= MaxRegistrations
    /\ RegisterAgent(Ui)
    /\ UNCHANGED uiVars

Connected ==
    /\ Register
    /\ tracker' = [NoTracker EXCEPT !.generation = registered'.generation]
    /\ UNCHANGED <<queues, ui, calling, displayed, clicked>>

(* vauth-ui ends: main() throws, because too many events came before the   *)
(* loop has started, or the process is killed.  The daemon sees            *)
(* UnregisterAgent or NameOwnerChanged.                                    *)
UiExits ==
    /\ tracker # NoTracker
    /\ UnregisterAgent(Ui)
    /\ bus' = <<>> /\ startup' = <<>> /\ overflowed' = FALSE /\ started' = FALSE /\ posted' = <<>>
    /\ tracker' = NoTracker /\ ui' = Hidden /\ calling' = NoCall
    /\ UNCHANGED <<displayed, clicked>>

(* send_queued_events puts a signal on the bus.                            *)
Deliver ==
    /\ SendEvent
    /\ Len(bus \o startup \o posted) < MaxBacklog
    /\ bus' = IF registered = Head(events).user THEN Append(bus, Head(events)) ELSE bus
    /\ UNCHANGED <<startup, overflowed, started, posted, tracker, ui, calling, displayed, clicked>>

Starts(e) == e.state \in {"presence_required", "verification_started"}

(* InteractionTracker::accept.                                             *)
Acceptable(e) ==
    /\ e.user.generation = tracker.generation
    /\ IF Starts(e) THEN tracker.activeRequestId \in {0, e.requestId}
                    ELSE tracker.activeRequestId = e.requestId
    /\ e.state = "secret_required" => e.promptId # tracker.activePromptId

MutAccept(e) ==
    tracker' = IF e.state \in Terminal \ {"timed_out"}
               THEN [tracker EXCEPT !.activeRequestId = 0, !.activePromptId = 0]
               ELSE [tracker EXCEPT !.activeRequestId = e.requestId, !.activePromptId = e.promptId]

Accept(e) ==
    tracker' = IF e.state \in Terminal
               THEN [tracker EXCEPT !.activeRequestId = 0, !.activePromptId = 0]
               ELSE [tracker EXCEPT !.activeRequestId = e.requestId, !.activePromptId = e.promptId]

MutHand(e) ==
    IF started
    THEN posted' = Append(posted, e) /\ UNCHANGED <<startup, overflowed>>
    ELSE /\ startup' = IF Len(startup) = MaxStartup THEN startup ELSE Append(startup, e)
         /\ UNCHANGED <<overflowed, posted>>

(* The handler of main(): to the start-up events until the loop has        *)
(* started, then to the loop.                                              *)
Hand(e) ==
    IF started
    THEN posted' = Append(posted, e) /\ UNCHANGED <<startup, overflowed>>
    ELSE IF Len(startup) = MaxStartup
    THEN overflowed' = TRUE /\ UNCHANGED <<startup, posted>>
    ELSE startup' = Append(startup, e) /\ UNCHANGED <<overflowed, posted>>

(* receive_event.                                                          *)
ReceiveEvent ==
    LET e == Head(bus)
    IN  /\ bus # <<>>
        /\ bus' = Tail(bus)
        /\ IF Acceptable(e) THEN Accept(e) /\ Hand(e)
                            ELSE UNCHANGED <<tracker, startup, overflowed, posted>>
        /\ UNCHANGED <<vars, started, ui, calling, displayed, clicked>>

-----------------------------------------------------------------------------
(* The UI thread.                                                          *)

ViewOf(state) ==
    CASE state = "presence_required" -> "presence"
      [] state \in {"presence_approved", "presence_denied", "cancelled", "timed_out"} -> "status"
      [] state = "secret_required" -> "secret"
      [] OTHER -> "verification"

(* show_event: a timer that still runs is stopped, a terminal state starts *)
(* it again.                                                               *)
ShowEvent(e) ==
    /\ ui' = [view |-> ViewOf(e.state),
              request |-> IF e.state \in Terminal THEN 0 ELSE e.requestId,
              prompt |-> IF e.state \in Terminal THEN 0 ELSE e.promptId,
              active |-> e.state \notin Terminal,
              visible |-> TRUE,
              timer |-> e.state \in Terminal]
    /\ displayed' = [displayed EXCEPT ![e.requestId] = e.state]

(* main() waits for the first event, takes what has come, shows it and     *)
(* enters the event loop, which shows what has been posted meanwhile.      *)
StartLoop ==
    /\ ~started /\ startup # <<>> /\ ~overflowed
    /\ started' = TRUE
    /\ UNCHANGED <<vars, bus, startup, overflowed, posted, tracker, ui, calling, displayed, clicked>>

ShowStartup ==
    /\ started /\ startup # <<>>
    /\ ShowEvent(Head(startup))
    /\ startup' = Tail(startup)
    /\ UNCHANGED <<vars, bus, overflowed, started, posted, tracker, calling, clicked>>

Looping == started /\ startup = <<>> /\ calling = NoCall

MutShowPosted ==
    /\ started /\ calling = NoCall /\ posted # <<>>
    /\ ShowEvent(Head(posted))
    /\ posted' = Tail(posted)
    /\ UNCHANGED <<vars, bus, startup, overflowed, started, tracker, calling, clicked>>

ShowPosted ==
    /\ Looping /\ posted # <<>>
    /\ ShowEvent(Head(posted))
    /\ posted' = Tail(posted)
    /\ UNCHANGED <<vars, bus, startup, overflowed, started, tracker, calling, clicked>>

(* terminalTimer; every new revision has stopped or restarted it.          *)
TimerFires ==
    /\ Looping /\ ui.timer
    /\ ui' = [ui EXCEPT !.timer = FALSE, !.visible = FALSE]
    /\ UNCHANGED <<vars, queues, tracker, calling, displayed, clicked>>

MutReportUiError ==
    ui' = [ui EXCEPT !.view = "status", !.request = 0, !.prompt = 0, !.active = FALSE]

(* report_ui_error.                                                        *)
ReportUiError ==
    ui' = [ui EXCEPT !.view = "status", !.request = 0, !.prompt = 0, !.active = FALSE,
                     !.timer = TRUE]

(* require_active.                                                         *)
RequireActive(r) == r # 0 /\ tracker.activeRequestId = r

(* A method call, and what the callback does with its result.              *)
CallMethod(m, r, p, response, then) ==
    calling' = [method |-> m, request |-> r, prompt |-> p, response |-> response, then |-> then]

(* cancel_and_report, from a callback or after a call that has failed.     *)
CancelAndReport ==
    IF RequireActive(ui.request)
    THEN CallMethod("CancelInteraction", ui.request, 0, "none", "report") /\ UNCHANGED ui
    ELSE ReportUiError /\ calling' = NoCall

(* on_approve_presence and on_deny_presence: the buttons are there while   *)
(* the interaction is active.                                              *)
MutClickPresence(response) ==
    /\ Looping /\ ui.visible /\ ui.view = "presence" /\ ui.active
    /\ clicked' = IF response = "approved" THEN clicked \cup {ui.request} ELSE clicked
    /\ IF tracker.activeRequestId # 0
       THEN CallMethod("RespondToPresence", tracker.activeRequestId, 0, response, "answer")
            /\ UNCHANGED ui
       ELSE CancelAndReport
    /\ UNCHANGED <<vars, queues, tracker, displayed>>

ClickPresence(response) ==
    /\ Looping /\ ui.visible /\ ui.view = "presence" /\ ui.active
    /\ clicked' = IF response = "approved" THEN clicked \cup {ui.request} ELSE clicked
    /\ IF RequireActive(ui.request)
       THEN CallMethod("RespondToPresence", ui.request, 0, response, "answer") /\ UNCHANGED ui
       ELSE CancelAndReport
    /\ UNCHANGED <<vars, queues, tracker, displayed>>

(* on_cancel_interaction.                                                  *)
ClickCancel ==
    /\ Looping /\ ui.visible /\ ui.view \in {"verification", "secret"} /\ ui.active
    /\ IF RequireActive(ui.request)
       THEN CallMethod("CancelInteraction", ui.request, 0, "none", "cancel") /\ UNCHANGED ui
       ELSE ReportUiError /\ UNCHANGED calling
    /\ UNCHANGED <<vars, queues, tracker, displayed, clicked>>

(* on_submit_secret: from the button, which is there while the interaction *)
(* is active, or from the Enter key in the field, which is there as long   *)
(* as the view; the secret may be too long.                                *)
SubmitField(valid) ==
    /\ Looping /\ ui.visible /\ ui.view = "secret"
    /\ IF RequireActive(ui.request) /\ ui.prompt # 0 /\ valid
       THEN CallMethod("SubmitSecret", ui.request, ui.prompt, "none", "submit") /\ UNCHANGED ui
       ELSE CancelAndReport
    /\ UNCHANGED <<vars, queues, tracker, displayed, clicked>>

(* on_close_requested: the window hides in any case.                       *)
Closed == [ui EXCEPT !.request = 0, !.prompt = 0, !.active = FALSE, !.visible = FALSE]

CloseWindow ==
    /\ Looping /\ ui.visible
    /\ IF RequireActive(ui.request)
       THEN CallMethod("CancelInteraction", ui.request, 0, "none", "close") /\ UNCHANGED ui
       ELSE ui' = Closed /\ UNCHANGED calling
    /\ UNCHANGED <<vars, queues, tracker, displayed, clicked>>

-----------------------------------------------------------------------------
(* The daemon handles the call, and the callback goes on.                  *)

Return(accepted) ==
    CASE calling.then = "close" -> ui' = Closed /\ calling' = NoCall
      [] calling.then = "report" -> ReportUiError /\ calling' = NoCall
      [] calling.then = "cancel" ->
            /\ calling' = NoCall
            /\ IF accepted THEN ui' = [ui EXCEPT !.active = FALSE] ELSE ReportUiError
      [] calling.then = "answer" /\ accepted ->
            ui' = [ui EXCEPT !.active = FALSE] /\ calling' = NoCall
      [] calling.then = "submit" /\ accepted ->
            ui' = [ui EXCEPT !.active = FALSE, !.prompt = 0] /\ calling' = NoCall
      [] OTHER -> CancelAndReport

DaemonCalled ==
    /\ calling # NoCall
    /\ Call(Ui, calling.method)
    /\ UNCHANGED uiVars

DaemonReplies ==
    /\ \/ Respond(calling.request, calling.response) /\ Return(AcceptsPresence(dbus.user, calling.request))
       \/ Cancel(calling.request) /\ Return(AcceptsCancel(dbus.user, calling.request))
       \/ /\ Submit(calling.request, calling.prompt)
          /\ Return(AcceptsSecret(dbus.user, calling.request, calling.prompt))
    /\ UNCHANGED <<queues, tracker, displayed, clicked>>

-----------------------------------------------------------------------------
UiThread ==
    \/ StartLoop \/ ShowStartup \/ ShowPosted \/ TimerFires

UserAction ==
    \/ \E response \in {"approved", "denied"} : ClickPresence(response)
    \/ ClickCancel
    \/ \E valid \in BOOLEAN : SubmitField(valid)
    \/ CloseWindow

Calls ==
    \/ DaemonCalled \/ DaemonReplies
    \/ (Clear \/ Unregister) /\ UNCHANGED uiVars

Worker ==
    (StartCeremony \/ CeremonyStep \/ RequestStop \/ DeadlinePasses) /\ UNCHANGED uiVars

UiNext ==
    \/ Connect \/ Connected \/ UiExits
    \/ UiThread \/ UserAction \/ Calls
    \/ Deliver \/ ReceiveEvent
    \/ Worker

UiSpec == UiInit /\ [][UiNext]_allVars

-----------------------------------------------------------------------------
(* The documented flows, over the last state the window has shown.         *)
Screen == INSTANCE InteractionFlow WITH shown <- displayed

(* What the window shows is the documented flow of states too: neither the *)
(* bus, the tracker nor the hand-over of the start-up events to the event  *)
(* loop reorders the states or shows one after a terminal state.           *)
ScreenFollowsFlow == Screen!Spec

(* The daemon takes for approved only a request that was on the screen     *)
(* when the user allowed it, however late the click and the reply are.     *)
AllowedOnScreen ==
    outcome = "approved" /\ kind = "presence" => request \in clicked

Terminates(q, r) == \E i \in DOMAIN q : q[i].requestId = r /\ q[i].state \in Terminal

(* Enabled controls are on the screen, where no timer of an earlier        *)
(* presentation hides them, and act on the request the client holds for    *)
(* the active one, or the event that disables them waits to be shown.      *)
ControlsAreCurrent ==
    ui.active => /\ ui.visible
                 /\ \/ tracker.activeRequestId = ui.request
                    \/ Terminates(startup \o posted, ui.request)

(* The tracker holds a request open only while its ceremony runs or its    *)
(* terminal signal is on the way, or after a cancellation; so it is ready  *)
(* for the next interaction.                                               *)
ClientClosesRequest ==
    LET r == tracker.activeRequestId
    IN  r # 0 =>
            r \in cancels \/ (r = request /\ pc # "idle") \/ Terminates(bus \o events, r)

(* Nothing is running, on its way or awaited.                              *)
Quiet ==
    /\ pc = "idle" /\ calling = NoCall /\ ~ui.timer
    /\ \A q \in {events, bus, startup, posted} : q = <<>>

(* The window is not left open: when nothing is running, on its way or     *)
(* awaited, it is hidden, unless the daemon has accepted a cancellation of *)
(* what it shows.                                                          *)
WindowCloses == Quiet /\ ui.visible => ui.request \in cancels

-----------------------------------------------------------------------------
(* "Disable controls after the first response so duplicate callbacks       *)
(* cannot reply": a callback calls the daemon only while the controls are  *)
(* enabled, or because the window is closed.                               *)
NoDuplicateReply == calling # NoCall => ui.active \/ calling.then = "close"
=============================================================================
