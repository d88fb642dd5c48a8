------------------------------ MODULE Verifier ------------------------------
(***************************************************************************)
(* One verification: the CTAP worker's run_verifier_service (the client),  *)
(* the root broker of run_pam_verifier_connection, and the PAM worker that *)
(* the broker spawns, connected by two SOCK_SEQPACKET sockets.  A process  *)
(* that has ended has closed its sockets; what it sent before stays        *)
(* readable.  Each step is one system call or one check of the code.       *)
(***************************************************************************)
EXTENDS Naturals, Sequences, VerifierConversation

CONSTANT MaxMessages        \* bound: conversation messages of PAM

ASSUME MessageBound == MaxMessages \in Nat

VARIABLES
    client,         \* run_verifier_service: step, conversation, outcome
    broker,         \* run_pam_verifier_connection and the child's supervisor
    child,          \* vauth_auth_handler
    wire,           \* packets in flight, by receiver
    deadline,       \* whose deadlines have passed
    cancel,         \* who asked the ceremony to end
    session,        \* logind's answer: the session is active, local, the user's
    pam             \* PAM: messages so far, decision, session seen valid since

vars == <<client, broker, child, wire, deadline, cancel, session, pam>>

NoResult == "none"
Outcomes == Results \cup {"none", "operation", "interaction", "timed_out", "unavailable", "failed", "died"}

ClientSteps == {"connect", "loop", "poll", "prompt", "respond", "done"}
BrokerSteps == {"accept", "authorize", "spawn", "start", "drain", "secret", "checks", "wait",
                "recheck", "complete", "done", "dead"}
ChildSteps == {"none", "exec", "armed", "receive", "pam", "prompt", "complete", "exiting",
               "exited", "reaped"}

\* Types: every process is at one of its steps, its conversation in one of the
\* protocol's states, and each socket carries only its direction's messages.
TypeOK ==
    /\ client \in [pc : ClientSteps, conv : ConversationStates, outcome : Outcomes]
    /\ broker \in [pc : BrokerSteps, daemon : ConversationStates,
                   worker : ConversationStates, completion : Results \cup {NoResult}]
    /\ child \in [pc : ChildSteps, conv : ConversationStates, exit : {"ok", "fail", "signal"},
                  armed : BOOLEAN, interrupted : BOOLEAN]
    /\ wire \in [broker : Seq(DaemonMessages), child : Seq(DaemonMessages),
                 client : Seq(VerifierMessages), parent : Seq(VerifierMessages)]
    /\ deadline \in [client : BOOLEAN, broker : BOOLEAN]
    /\ cancel \in {"none", "operation", "interaction"}
    /\ session \in BOOLEAN
    /\ pam \in [said : 0 .. MaxMessages, decision : Results \cup {NoResult}, vouched : BOOLEAN]

Init ==
    /\ client = [pc |-> "connect", conv |-> "awaiting_start", outcome |-> "none"]
    /\ broker = [pc |-> "accept", daemon |-> "awaiting_start",
                 worker |-> "awaiting_start", completion |-> NoResult]
    /\ child = [pc |-> "none", conv |-> "awaiting_start", exit |-> "fail",
                armed |-> FALSE, interrupted |-> FALSE]
    /\ wire = [broker |-> <<>>, child |-> <<>>, client |-> <<>>, parent |-> <<>>]
    /\ deadline = [client |-> FALSE, broker |-> FALSE]
    /\ cancel = "none"
    /\ session = TRUE
    /\ pam = [said |-> 0, decision |-> NoResult, vouched |-> FALSE]

-----------------------------------------------------------------------------
(* Sockets and processes *)

ClientGone == client.pc = "done"
BrokerGone == broker.pc \in {"done", "dead"}
ChildGone == child.pc \in {"none", "exited", "reaped"}

Sent(w, m) == [wire EXCEPT ![w] = Append(@, m)]
Received(w) == [wire EXCEPT ![w] = Tail(@)]
Pending(w) == wire[w] # <<>>

environment == <<deadline, cancel, session, pam>>

-----------------------------------------------------------------------------
(* The client *)

ClientTo(step, conversation) == client' = [client EXCEPT !.pc = step, !.conv = conversation]

\* The exceptions and the result of run_verifier_service; its socket closes.
Leave(outcome) == client' = [client EXCEPT !.pc = "done", !.outcome = outcome]

\* send_cancel, and the exception that follows it.
CancelAndLeave(outcome) ==
    /\ Leave(outcome)
    /\ wire' = IF ConversationOver(client.conv) \/ BrokerGone THEN wire ELSE Sent("broker", "cancel")

\* Up to the StartVerification packet; connecting may fail.
Connect ==
    /\ client.pc = "connect"
    /\ \/ /\ cancel # "none"
          /\ Leave(cancel)
          /\ UNCHANGED wire
       \/ /\ Leave("failed")
          /\ UNCHANGED wire
       \/ /\ cancel = "none"
          /\ ~BrokerGone
          /\ ClientTo("loop", Advance(client.conv, "start"))
          /\ wire' = Sent("broker", "start")
    /\ UNCHANGED <<broker, child, environment>>

\* A client whose loop leaves the deadline to the broker.
MutClientChecks ==
    /\ client.pc = "loop"
    /\ \/ cancel # "none" /\ CancelAndLeave(cancel)
       \/ /\ cancel = "none"
          /\ ClientTo("poll", client.conv)
          /\ UNCHANGED wire
    /\ UNCHANGED <<broker, child, environment>>

\* The checks at the top of the loop.
ClientChecks ==
    /\ client.pc = "loop"
    /\ \/ cancel # "none" /\ CancelAndLeave(cancel)
       \/ cancel = "none" /\ deadline.client /\ CancelAndLeave("timed_out")
       \/ /\ cancel = "none" /\ ~deadline.client
          /\ ClientTo("poll", client.conv)
          /\ UNCHANGED wire
    /\ UNCHANGED <<broker, child, environment>>

\* poll of 20 ms; then receive, which fails on a closed connection.
ClientPoll ==
    /\ client.pc = "poll"
    /\ \/ /\ ~Pending("client") /\ ~BrokerGone
          /\ ClientTo("loop", client.conv)
          /\ UNCHANGED wire
       \/ /\ ~Pending("client") /\ BrokerGone
          /\ Leave("failed")
          /\ UNCHANGED wire
       \/ /\ Pending("client")
          /\ wire' = Received("client")
          /\ LET m == Head(wire["client"])
                 next == Advance(client.conv, m)
             IN  CASE next = "invalid"        -> client' = [client EXCEPT !.pc = "done",
                                                            !.conv = next, !.outcome = "failed"]
                   [] m = "status"            -> ClientTo("loop", next)
                   [] m = "secret_required"   -> ClientTo("prompt", next)
                   [] m \in Results           -> client' = [client EXCEPT !.pc = "done",
                                                            !.conv = next, !.outcome = m]
    /\ UNCHANGED <<broker, child, environment>>

\* secret_callback: it returns the secret or leaves by one of its exceptions.
PromptUser ==
    /\ client.pc = "prompt"
    /\ \/ ClientTo("respond", client.conv)
       \/ cancel # "none" /\ Leave(cancel)
       \/ deadline.client /\ Leave("timed_out")
       \/ Leave("unavailable")
    /\ UNCHANGED <<broker, child, wire, environment>>

\* The second check of cancellation, and the SecretResponse.
Respond ==
    /\ client.pc = "respond"
    /\ \/ cancel # "none" /\ CancelAndLeave(cancel)
       \/ cancel = "none" /\ BrokerGone /\ Leave("failed") /\ UNCHANGED wire
       \/ /\ cancel = "none" /\ ~BrokerGone
          /\ ClientTo("loop", Advance(client.conv, "secret"))
          /\ wire' = Sent("broker", "secret")
    /\ UNCHANGED <<broker, child, environment>>

\* The daemon is killed: its socket closes without a cancellation.
ClientDies ==
    /\ ~ClientGone
    /\ Leave("died")
    /\ UNCHANGED <<broker, child, wire, environment>>

ClientStep == Connect \/ ClientChecks \/ ClientPoll \/ PromptUser \/ Respond

-----------------------------------------------------------------------------
(* The broker *)

\* ChildProcess::terminate_and_reap: SIGINT, SIGTERM, then SIGKILL.
Reaped == IF child.pc = "none" THEN child ELSE [child EXCEPT !.pc = "reaped"]

\* The broker leaves by a return or an exception: its destructors reap the
\* child and close both sockets.
BrokerEnds ==
    /\ broker' = [broker EXCEPT !.pc = "done"]
    /\ child' = Reaped
    /\ UNCHANGED wire

\* The same after a message the conversation refuses.
BrokerRefuses(field) ==
    /\ broker' = [broker EXCEPT !.pc = "done", ![field] = "invalid"]
    /\ child' = Reaped
    /\ UNCHANGED wire

\* send_from_verifier: the packet, then the state; a closed client is an
\* exception.
ToClient(m, step) ==
    IF ClientGone
    THEN BrokerEnds
    ELSE /\ wire' = Sent("client", m)
         /\ broker' = [broker EXCEPT !.pc = step, !.daemon = Advance(@, m)]
         /\ UNCHANGED child

\* receive on the daemon's connection fails once the daemon has closed it:
\* after the packets it left, or before them (ECONNRESET).
DaemonLost == ClientGone /\ BrokerEnds

\* receive_start; the peer's UID is the daemon's.
ReceiveStart ==
    /\ broker.pc = "accept"
    /\ \/ DaemonLost
       \/ /\ Pending("broker")
          /\ LET next == Advance(broker.daemon, Head(wire["broker"]))
             IN  IF next = "invalid"
                 THEN BrokerRefuses("daemon")
                 ELSE /\ broker' = [broker EXCEPT !.pc = "authorize", !.daemon = next]
                      /\ wire' = Received("broker")
                      /\ UNCHANGED child
    /\ UNCHANGED <<client, environment>>

\* authorize_verification_session and username_for_uid, before PAM; any of
\* the lookups may fail.
Authorize ==
    /\ broker.pc = "authorize"
    /\ \/ /\ session
          /\ broker' = [broker EXCEPT !.pc = "spawn"]
          /\ UNCHANGED <<child, wire>>
       \/ ToClient("error", "done")
    /\ UNCHANGED <<client, environment>>

\* A check that reads an idle connection and a closed one alike.
MutNotCancelled == ~Pending("broker")

\* DaemonConversation::cancellation_requested: nothing to read, the daemon's
\* cancellation, or an exception.
NotCancelled == ~Pending("broker") /\ ~ClientGone
Cancelled ==
    /\ Pending("broker")
    /\ IF Advance(broker.daemon, Head(wire["broker"])) = "cancelled"
       THEN BrokerEnds
       ELSE BrokerRefuses("daemon")

\* run_cancellable_verifier_program up to posix_spawn, which may fail.
Spawn ==
    /\ broker.pc = "spawn"
    /\ \/ Cancelled
       \/ DaemonLost
       \/ NotCancelled /\ BrokerEnds
       \/ /\ NotCancelled
          /\ child' = [child EXCEPT !.pc = "exec"]
          /\ broker' = [broker EXCEPT !.pc = "start"]
          /\ UNCHANGED wire
    /\ UNCHANGED <<client, environment>>

SendStart ==
    /\ broker.pc = "start"
    /\ wire' = Sent("child", "start")
    /\ broker' = [broker EXCEPT !.pc = "drain", !.worker = Advance(@, "start")]
    /\ UNCHANGED <<client, child, environment>>

\* receive_message, for a status or a prompt that is passed on.
Forward(m, step) ==
    IF ClientGone
    THEN BrokerEnds
    ELSE /\ wire' = [wire EXCEPT !["parent"] = Tail(@), !["client"] = Append(@, m)]
         /\ broker' = [broker EXCEPT !.pc = step, !.daemon = Advance(@, m),
                                     !.worker = Advance(@, m)]
         /\ UNCHANGED child

\* The loop that drains the child's packets until its completion.  A child
\* that has closed its socket makes poll report POLLIN and receive fail.
Drain ==
    /\ broker.pc = "drain"
    /\ \/ /\ broker.completion = NoResult /\ Pending("parent")
          /\ LET m == Head(wire["parent"])
             IN  CASE Advance(broker.worker, m) = "invalid" -> BrokerRefuses("worker")
                   [] m = "status"          -> Forward(m, "drain")
                   [] m = "secret_required" -> Forward(m, "secret")
                   [] m \in Results         ->
                        /\ broker' = [broker EXCEPT !.pc = "checks", !.completion = m,
                                                    !.worker = "completed"]
                        /\ wire' = Received("parent")
                        /\ UNCHANGED child
       \/ /\ broker.completion = NoResult /\ ~Pending("parent") /\ ChildGone
          /\ BrokerEnds
       \/ /\ broker.completion # NoResult \/ (~Pending("parent") /\ ~ChildGone)
          /\ broker' = [broker EXCEPT !.pc = "checks"]
          /\ UNCHANGED <<child, wire>>
    /\ UNCHANGED <<client, environment>>

\* request_secret blocks for the daemon's answer and hands it to the child;
\* a child that has gone makes the sending fail.
RequestSecret ==
    /\ broker.pc = "secret"
    /\ \/ DaemonLost
       \/ Cancelled /\ Head(wire["broker"]) # "secret"
       \/ /\ Pending("broker") /\ Head(wire["broker"]) = "secret"
          /\ IF ChildGone
             THEN BrokerEnds
             ELSE /\ wire' = [wire EXCEPT !["broker"] = Tail(@),
                                          !["child"] = Append(@, "secret")]
                  /\ broker' = [broker EXCEPT !.pc = "drain", !.daemon = Advance(@, "secret"),
                                              !.worker = Advance(@, "secret")]
                  /\ UNCHANGED child
    /\ UNCHANGED <<client, environment>>

\* cancellation_requested in the loop.
BrokerChecks ==
    /\ broker.pc = "checks"
    /\ \/ Cancelled
       \/ DaemonLost
       \/ /\ NotCancelled
          /\ broker' = [broker EXCEPT !.pc = "wait"]
          /\ UNCHANGED <<child, wire>>
    /\ UNCHANGED <<client, environment>>

\* A broker that passes PAM's success on without asking logind again.
MutWait ==
    /\ broker.pc = "wait" /\ child.pc = "exited"
    /\ IF \/ child.exit = "signal"
          \/ broker.completion = NoResult
          \/ (child.exit = "ok") # (broker.completion = "success")
       THEN BrokerEnds
       ELSE /\ broker' = [broker EXCEPT !.pc = "complete"]
            /\ child' = Reaped
            /\ UNCHANGED wire
    /\ UNCHANGED <<client, environment>>

\* A broker that takes the exit status for the result.
MutExitDecides ==
    /\ broker.pc = "wait" /\ child.pc = "exited"
    /\ IF child.exit = "signal"
       THEN BrokerEnds
       ELSE /\ broker' = [broker EXCEPT
                 !.pc = IF child.exit = "ok" THEN "recheck" ELSE "complete",
                 !.completion = IF child.exit = "ok" THEN "success" ELSE "denied"]
            /\ child' = Reaped
            /\ UNCHANGED wire
    /\ UNCHANGED <<client, environment>>

\* ChildProcess::poll has reaped the child: its status has to agree with the
\* completion, which has to have arrived.
ChildStatus ==
    /\ broker.pc = "wait" /\ child.pc = "exited"
    /\ IF \/ child.exit = "signal"
          \/ broker.completion = NoResult
          \/ (child.exit = "ok") # (broker.completion = "success")
       THEN BrokerEnds
       ELSE /\ broker' = [broker EXCEPT
                 !.pc = IF broker.completion = "success" THEN "recheck" ELSE "complete"]
            /\ child' = Reaped
            /\ UNCHANGED wire
    /\ UNCHANGED <<client, environment>>

\* The child still runs: the deadline, or 20 ms of sleep.
BrokerWaits ==
    /\ broker.pc = "wait" /\ child.pc # "exited"
    /\ \/ deadline.broker /\ BrokerEnds
       \/ /\ ~deadline.broker
          /\ broker' = [broker EXCEPT !.pc = "drain"]
          /\ UNCHANGED <<child, wire>>
    /\ UNCHANGED <<client, environment>>

\* authorize_verification_session after PAM's success.
Recheck ==
    /\ broker.pc = "recheck"
    /\ \/ session /\ broker' = [broker EXCEPT !.pc = "complete"] /\ UNCHANGED <<child, wire>>
       \/ ToClient("error", "done")
    /\ UNCHANGED <<client, environment>>

Complete ==
    /\ broker.pc = "complete"
    /\ ToClient(broker.completion, "done")
    /\ UNCHANGED <<client, environment>>

\* The broker is killed: the kernel signals a child that has armed
\* PR_SET_PDEATHSIG, and nobody reaps it here.
BrokerDies ==
    /\ ~BrokerGone
    /\ broker' = [broker EXCEPT !.pc = "dead"]
    /\ child' = [child EXCEPT !.interrupted = @ \/ child.armed]
    /\ UNCHANGED <<client, wire, environment>>

BrokerStep == \/ ReceiveStart \/ Authorize \/ Spawn \/ SendStart \/ Drain \/ RequestSecret
              \/ BrokerChecks \/ ChildStatus \/ BrokerWaits \/ Recheck \/ Complete

-----------------------------------------------------------------------------
(* The PAM worker *)

ChildTo(step, conversation) == child' = [child EXCEPT !.pc = step, !.conv = conversation]

\* run_vauth_auth_handler returns; init reaps it when the broker is dead.
ChildReturns(status) == child' = [child EXCEPT !.pc = "exited", !.exit = status]

\* prctl(PR_SET_PDEATHSIG).
ArmParentDeathSignal ==
    /\ child.pc = "exec"
    /\ child' = [child EXCEPT !.pc = "armed", !.armed = TRUE]
    /\ UNCHANGED <<client, broker, wire, environment>>

\* A worker that arms the signal and does not look for its parent.
MutCheckParent ==
    /\ child.pc = "armed"
    /\ ChildTo("receive", child.conv)
    /\ UNCHANGED <<client, broker, wire, environment>>

\* getppid, after the prctl.
CheckParent ==
    /\ child.pc = "armed"
    /\ IF broker.pc = "dead" THEN ChildReturns("fail") ELSE ChildTo("receive", child.conv)
    /\ UNCHANGED <<client, broker, wire, environment>>

ChildReceives ==
    /\ child.pc = "receive"
    /\ \/ Pending("child") /\ ChildTo("pam", Advance(child.conv, Head(wire["child"])))
                           /\ wire' = Received("child")
       \/ ~Pending("child") /\ BrokerGone /\ ChildReturns("fail") /\ UNCHANGED wire
    /\ UNCHANGED <<client, broker, environment>>

\* send_verifier_message from the PAM conversation: a failure is PAM_CONV_ERR
\* and PAM goes on.
ChildSays(m, step) ==
    IF BrokerGone
    THEN UNCHANGED <<child, wire>>
    ELSE /\ wire' = Sent("parent", m)
         /\ IF Advance(child.conv, m) = "invalid"
            THEN UNCHANGED child
            ELSE ChildTo(step, Advance(child.conv, m))

\* The conversation callback: an information or error text, or a prompt.
PamConverses ==
    /\ child.pc = "pam" /\ pam.said < MaxMessages
    /\ pam' = [pam EXCEPT !.said = @ + 1]
    /\ ChildSays("status", "pam") \/ ChildSays("secret_required", "prompt")
    /\ UNCHANGED <<client, broker, deadline, cancel, session>>

\* read_secret_response; a cancellation or a closed socket is PAM_CONV_ERR.
ReadSecret ==
    /\ child.pc = "prompt"
    /\ \/ Pending("child") /\ ChildTo("pam", Advance(child.conv, Head(wire["child"])))
                           /\ wire' = Received("child")
       \/ ~Pending("child") /\ BrokerGone /\ ChildTo("pam", child.conv) /\ UNCHANGED wire
    /\ UNCHANGED <<client, broker, environment>>

\* external: pam_authenticate, pam_acct_mgmt and pam_end, with
\* verification_result_from_pam_status.
PamDecides ==
    /\ child.pc = "pam"
    /\ \E r \in Results : pam' = [pam EXCEPT !.decision = r, !.vouched = session]
    /\ ChildTo("complete", child.conv)
    /\ UNCHANGED <<client, broker, wire, deadline, cancel, session>>

\* The VerificationComplete packet; any exception is the status PAM_SYSTEM_ERR.
SendCompletion ==
    /\ child.pc = "complete"
    /\ IF BrokerGone
       THEN ChildReturns("fail") /\ UNCHANGED wire
       ELSE /\ wire' = Sent("parent", pam.decision)
            /\ IF Advance(child.conv, pam.decision) = "invalid"
               THEN ChildReturns("fail")
               ELSE ChildTo("exiting", Advance(child.conv, pam.decision))
    /\ UNCHANGED <<client, broker, environment>>

\* The PAM status is the exit status.
ChildExits ==
    /\ child.pc = "exiting"
    /\ ChildReturns(IF pam.decision = "success" THEN "ok" ELSE "fail")
    /\ UNCHANGED <<client, broker, wire, environment>>

\* SIGINT: the default action, or a PAM module that returns because of it.
ChildInterrupted ==
    /\ child.interrupted /\ ~ChildGone
    /\ ChildReturns("signal")
    /\ UNCHANGED <<client, broker, wire, environment>>

\* external: a PAM module crashes.
PamCrashes ==
    /\ child.pc = "pam"
    /\ ChildReturns("signal")
    /\ UNCHANGED <<client, broker, wire, environment>>

ChildStep == \/ ArmParentDeathSignal \/ CheckParent \/ ChildReceives
             \/ ReadSecret \/ SendCompletion \/ ChildExits

-----------------------------------------------------------------------------
(* The environment *)

\* The stop token (CTAPHID cancel) or the agent's CancelInteraction.
RequestCancel ==
    /\ cancel = "none" /\ ~ClientGone
    /\ cancel' \in {"operation", "interaction"}
    /\ UNCHANGED <<client, broker, child, wire, deadline, session, pam>>

\* The two deadlines of 30 seconds; the client's starts first.
ClientDeadline ==
    /\ ~deadline.client /\ client.pc \notin {"connect", "done"}
    /\ deadline' = [deadline EXCEPT !.client = TRUE]
    /\ UNCHANGED <<client, broker, child, wire, cancel, session, pam>>

BrokerDeadline ==
    /\ deadline.client /\ ~deadline.broker /\ child.pc # "none" /\ ~BrokerGone
    /\ deadline' = [deadline EXCEPT !.broker = TRUE]
    /\ UNCHANGED <<client, broker, child, wire, cancel, session, pam>>

\* The login session is left or resumed.
SessionChanges ==
    /\ broker.pc # "done"
    /\ session' = ~session
    /\ pam' = [pam EXCEPT !.vouched = @ \/ (~session /\ pam.decision # NoResult)]
    /\ UNCHANGED <<client, broker, child, wire, deadline, cancel>>

Environment == RequestCancel \/ ClientDeadline \/ BrokerDeadline \/ SessionChanges

Next ==
    \/ ClientStep \/ BrokerStep \/ ChildStep \/ ClientDies \/ BrokerDies
    \/ PamConverses \/ PamDecides \/ PamCrashes \/ ChildInterrupted
    \/ Environment

\* Every process is scheduled, the client's deadline comes, and an interrupted
\* worker ends.  Nothing makes PAM itself return.
Fairness ==
    /\ WF_vars(ClientStep) /\ WF_vars(BrokerStep) /\ WF_vars(ChildStep)
    /\ WF_vars(ClientDeadline) /\ WF_vars(ChildInterrupted)

Spec == Init /\ [][Next]_vars /\ Fairness

-----------------------------------------------------------------------------
(* Properties *)

\* run_verifier_service reports success or denial only when PAM decided it:
\* no crossing of packets, crash, exit status or early end of the worker is
\* taken for a decision (ARCHITECTURE.md: "Only PAM may report successful user
\* verification", "User denial is distinct from verifier infrastructure
\* failure").
OnlyPamDecides ==
    client.outcome \in {"success", "denied"} => client.outcome = pam.decision

\* When run_verifier_service reports success, the login session has been
\* active at some time since PAM decided: run_pam_verifier_connection repeats
\* the validation, so a session left while PAM ran does not pass.
SessionStillActive ==
    client.outcome = "success" => pam.vouched

\* With these peers neither end of the two connections ever meets a message
\* its conversation state forbids, however cancellations, prompts and
\* completions cross: VerifierConversationError marks a faulty peer only.
NoConversationError ==
    /\ client.conv # "invalid"
    /\ broker.daemon # "invalid"
    /\ broker.worker # "invalid"

\* A broker that has ended by itself has reaped its worker on every path of
\* run_pam_verifier_connection, and a worker whose broker was killed ends too,
\* even when the broker dies between fork and prctl and PAM never returns.
WorkerEnds == BrokerGone ~> child.pc \in {"none", "exited", "reaped"}

\* Once run_verifier_service has left, the broker ends: no broker stays behind
\* with a blocked PAM module or a prompt nobody answers (ARCHITECTURE.md:
\* "Losing either side of the verifier socket terminates the broker operation
\* and its PAM worker").
BrokerFollowsClient == ClientGone ~> BrokerGone

\* run_verifier_service ends, whatever PAM, the broker and the agent do.
VerificationEnds == <>ClientGone

\* A decision of PAM is not reported as "failed to produce an authentication
\* decision": with the broker alive, the session active, nobody cancelling and
\* no deadline passed, a completed PAM conversation is what the client reports.
DecisionReported ==
    (/\ ClientGone /\ pam.decision \in {"success", "denied"} /\ child.pc = "reaped"
     /\ child.exit # "signal" /\ child.conv = "completed"
     /\ broker.pc = "done" /\ cancel = "none" /\ ~deadline.client /\ session)
    => client.outcome # "failed"
=============================================================================
