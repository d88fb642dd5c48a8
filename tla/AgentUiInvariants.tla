------------------------- MODULE AgentUiInvariants -------------------------
(***************************************************************************)
(* The inductive invariants of vauth-ui and the daemon together: what each *)
(* side may rely on (Base), what was handed to the UI thread and is on the *)
(* screen (ScreenInv), how a request comes to its end (ClosingInv), and    *)
(* the order in which states reach the window (DisplayInv).                *)
(***************************************************************************)
EXTENDS AgentUi, AgentServiceInvariants

Discarding == {"start_clear", "check_clear", "start_unregister", "check_unregister"}
Leaving == {"clear", "unregister"}

Trackers == [generation : 0 .. MaxRegistrations, activeRequestId : 0 .. MaxInteractions,
             activePromptId : 0 .. MaxPrompts]

Screens == [view : {"none", "presence", "status", "secret", "verification"},
            request : 0 .. MaxInteractions, prompt : 0 .. MaxPrompts,
            active : BOOLEAN, visible : BOOLEAN, timer : BOOLEAN]

AgentCalls ==
    [method : {"RespondToPresence"}, request : Requests, prompt : {0},
     response : {"approved", "denied"}, then : {"answer"}]
    \cup [method : {"SubmitSecret"}, request : Requests, prompt : 1 .. MaxPrompts,
          response : {"none"}, then : {"submit"}]
    \cup [method : {"CancelInteraction"}, request : Requests, prompt : {0},
          response : {"none"}, then : {"cancel", "close", "report"}]

QueueTypes ==
    /\ bus \in Seq(StateEvents) /\ startup \in Seq(StateEvents) /\ posted \in Seq(StateEvents)
    /\ overflowed \in BOOLEAN /\ started \in BOOLEAN

ScreenTypes ==
    /\ tracker \in Trackers
    /\ ui \in Screens
    /\ calling \in AgentCalls \cup {NoCall}
    /\ displayed \in [Requests -> States \cup {"none"}]

\* The session stays active and the daemon serves, so the worker never finds
\* an agent to discard.
Present == activeSession = Agents /\ connected = Agents /\ ~failed /\ pc \notin Discarding

\* The handler of the D-Bus thread, where it stands.
Handling ==
    /\ registered # NoUser => registered.agent = Ui
    /\ dbus.step \in Leaving => dbus.user = registered /\ dbus.then = "idle" /\ registered # NoUser
    /\ dbus.step = "register" => /\ registered = NoUser /\ nextGeneration <= MaxRegistrations
                                 /\ dbus.agent = Ui
    /\ dbus.step \in Methods => calling # NoCall /\ calling.method = dbus.step

\* The client is connected as long as it is registered.
Absent ==
    /\ bus = <<>> /\ startup = <<>> /\ posted = <<>>
    /\ ~overflowed /\ ~started /\ ui = Hidden /\ calling = NoCall
    /\ registered = NoUser \/ dbus.step \in Leaving

Attached ==
    IF tracker = NoTracker THEN Absent
    ELSE /\ registered # NoUser /\ tracker.generation = registered.generation
         /\ dbus.step \notin Leaving
         /\ \A i \in 1 .. Len(bus) : bus[i].user = registered

\* Only what the user allowed is ever approved.
Clicks ==
    /\ \A c \in consent : c[1] \in clicked
    /\ calling.response = "approved" => calling.request \in clicked

Base == IInv /\ QueueTypes /\ ScreenTypes /\ Present /\ Handling /\ Attached /\ Clicks

-----------------------------------------------------------------------------
(* What was handed to the UI thread, and what is on the screen.            *)

\* In the order in which it will be shown.
handed == startup \o posted

\* The request ends after the i-th event of the queue.
Ends(q, i, r) == \E j \in 1 .. Len(q) : j > i /\ q[j].requestId = r /\ q[j].state \in Terminal

HandOver == (started => ~overflowed) /\ (~started => posted = <<>>)

\* Whatever was handed over, the tracker still holds its request, or the
\* event that ends it was handed over too.
HandedOn ==
    ~overflowed =>
        \A i \in 1 .. Len(handed) :
            handed[i].state \notin Terminal =>
                \/ tracker.activeRequestId = handed[i].requestId
                \/ Ends(handed, i, handed[i].requestId)

\* The window is on the screen, and no timer is about to hide it.
Live == ui.visible /\ ~ui.timer

\* And so it is with what is on the screen.
OnScreen ==
    /\ ui.active => Live
    /\ Live => /\ started /\ ui.request # 0
               /\ tracker.activeRequestId = ui.request \/ Ends(handed, 0, ui.request)

ScreenInv == HandOver /\ HandedOn /\ OnScreen

-----------------------------------------------------------------------------
(* The client with the daemon.                                             *)

ClientInv == Base /\ ScreenInv

-----------------------------------------------------------------------------
(* How a request comes to its end.                                         *)

\* The ceremony of the registered agent still has the request pending.
Pending(r) == r = request /\ user = registered /\ current.requestId = r

Closes(r) == r \in cancels \/ Pending(r)

\* The worker leaves an interaction pending only after a cancellation, which
\* suppresses the terminal state.
Cancellation ==
    /\ current.cancelRequested => current.requestId \in cancels
    /\ pc = "end" /\ registered = user /\ current.requestId # 0 => request \in cancels

\* The requests that are cancelled or pending.
Closable == cancels \cup {r \in {request} : Pending(r)}

\* The end of the request comes behind the i-th event of the queue, for u.
EndsFor(q, u, i, r) ==
    \E j \in 1 .. Len(q) :
        j > i /\ q[j].requestId = r /\ q[j].state \in Terminal /\ q[j].user = u

\* A request that the daemon has queued for the client, that is on the bus or
\* that the tracker holds is pending or cancelled, or its end follows.
QueuedCloses ==
    \A i \in 1 .. Len(events) :
        events[i].state \notin Terminal /\ events[i].user = registered =>
            \/ events[i].requestId \in Closable
            \/ EndsFor(events, registered, i, events[i].requestId)

SentCloses ==
    \A i \in 1 .. Len(bus) :
        bus[i].state \notin Terminal =>
            \/ bus[i].requestId \in Closable
            \/ EndsFor(events, registered, 0, bus[i].requestId)
            \/ Ends(bus, i, bus[i].requestId)

HeldCloses ==
    tracker.activeRequestId # 0 =>
        \/ tracker.activeRequestId \in Closable
        \/ EndsFor(events, registered, 0, tracker.activeRequestId)
        \/ Ends(bus, 0, tracker.activeRequestId)

ClosingInv == tracker # NoTracker => QueuedCloses /\ SentCloses /\ HeldCloses

\* Together with what is known of the daemon's queue.
RunInv == ClientInv /\ FlowInv /\ Cancellation /\ ClosingInv

-----------------------------------------------------------------------------
(* What the window shows is the documented flow.  A state goes from the    *)
(* daemon's queue to the bus, to the UI thread and to the window.  At each *)
(* of these places it follows the one before it of the same request, and   *)
(* no request comes before an earlier one; what the tracker rejects is a   *)
(* prompt that is repeated, or a request it never began to show.           *)

Follows(s) == Flow!Follows(s)

\* The last state of a request in the queue q, on top of what d records.
LastOf(q, d, r) == IF q # <<>> /\ q[Len(q)].requestId = r THEN q[Len(q)].state ELSE d[r]

\* The state before the i-th event of the queue.
Before(q, d, i) ==
    IF i > 1 /\ q[i - 1].requestId = q[i].requestId THEN q[i - 1].state ELSE d[q[i].requestId]

\* Requests come in the order of their numbers.
Ordered(q, d) ==
    \A i \in 1 .. Len(q) :
        /\ \A j \in 1 .. i : q[j].requestId <= q[i].requestId
        /\ \A r \in Requests : r > q[i].requestId => d[r] = "none"

InTurn(q, d) == \A i \in 1 .. Len(q) : q[i].state \in Follows(Before(q, d, i))

\* The last state that was handed over for each request, shown or not.
Reached == [r \in Requests |-> LastOf(handed, displayed, r)]

\* The requests whose events concern another registration.
StaleRequests ==
    {r \in Requests :
        /\ \A i \in 1 .. Len(events) : events[i].requestId = r => events[i].user # registered
        /\ current.requestId = r => current.user # registered}

\* The requests the client has shown or is about to show.
Known == {r \in Requests : \/ displayed[r] # "none"
                           \/ \E i \in 1 .. Len(handed) : handed[i].requestId = r}

\* Nothing reaches the client that was not signalled.
Signalled ==
    /\ \A r \in Known : shown[r] # "none"
    /\ \A i \in 1 .. Len(bus) : shown[bus[i].requestId] # "none"

HandedFlow == Ordered(handed, displayed) /\ InTurn(handed, displayed)

SentOrder ==
    /\ Ordered(bus, displayed)
    /\ \A i \in 1 .. Len(bus), k \in 1 .. Len(handed) : handed[k].requestId <= bus[i].requestId

\* What is on the bus follows what came before it, as far as the tracker
\* follows the request at all.
SentTurn ==
    \A i \in 1 .. Len(bus) :
        /\ IF i > 1 /\ bus[i - 1].requestId = bus[i].requestId
           THEN bus[i].state \in Follows(bus[i - 1].state)
           ELSE tracker.activeRequestId = bus[i].requestId =>
                    bus[i].state \in Follows(Reached[bus[i].requestId])
        /\ tracker.activeRequestId # bus[i].requestId => Reached[bus[i].requestId] = "none"

SentLast ==
    \A i \in 1 .. Len(bus) :
        i = Len(bus) \/ bus[i + 1].requestId # bus[i].requestId =>
            shown[bus[i].requestId] = bus[i].state

\* The tracker holds the request that was handed over last.
HeldFlow ==
    /\ handed # <<>> =>
          tracker.activeRequestId = IF handed[Len(handed)].state \in Terminal THEN 0
                                    ELSE handed[Len(handed)].requestId
    /\ tracker.activeRequestId # 0 =>
          /\ Reached[tracker.activeRequestId] # "none"
          /\ bus = <<>> \/ bus[1].requestId # tracker.activeRequestId =>
                Follows(Reached[tracker.activeRequestId]) = Follows(shown[tracker.activeRequestId])

\* Nothing comes any more for another request the client knows.
Finished ==
    \A r \in Known : tracker.activeRequestId # r => shown[r] \in Terminal \/ r \in StaleRequests

DisplayInv ==
    tracker # NoTracker /\ ~overflowed =>
        HandedFlow /\ SentOrder /\ SentTurn /\ SentLast /\ HeldFlow /\ Finished
=============================================================================
