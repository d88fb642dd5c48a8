--------------------------- MODULE VerifierProofs ---------------------------
(***************************************************************************)
(* What run_verifier_service reports is PAM's decision, confirmed by an    *)
(* active session, for any number of PAM messages.  The invariant follows  *)
(* the decision from PAM over the two sockets to the client's outcome.  A  *)
(* second one keeps the two conversations in step.                         *)
(***************************************************************************)
EXTENDS Verifier, TLAPS

\* A leaf that names no prover is for Zenon.
USE ZenonT(60)

-----------------------------------------------------------------------------
(* Queues *)

\* An element of a queue after a packet was sent is that packet or an old one.
LEMMA AppendElement ==
    ASSUME NEW S, NEW s \in Seq(S), NEW m \in S, NEW i \in 1 .. Len(Append(s, m))
    PROVE  Append(s, m)[i] = m \/ (i \in 1 .. Len(s) /\ Append(s, m)[i] = s[i])
  BY SMTT(60)

\* An element of a queue after a packet was received is an old one.
LEMMA TailElement ==
    ASSUME NEW S, NEW s \in Seq(S), s # <<>>, NEW i \in 1 .. Len(Tail(s))
    PROVE  i + 1 \in 1 .. Len(s) /\ Tail(s)[i] = s[i + 1]
  BY SMTT(60)

\* The packet that is received is one of the queue's.
LEMMA HeadElement ==
    ASSUME NEW S, NEW s \in Seq(S), s # <<>>
    PROVE  Head(s) = s[1] /\ 1 \in 1 .. Len(s) /\ Head(s) \in S /\ Tail(s) \in Seq(S)
  BY SMTT(60)

-----------------------------------------------------------------------------
(* The conversation *)

\* advance_verifier_conversation ends in a state of the conversation.
LEMMA AdvanceType ==
    ASSUME NEW state, NEW m
    PROVE  Advance(state, m) \in ConversationStates
  BY DEF Advance, ConversationStates

-----------------------------------------------------------------------------
(* The invariant *)

\* Results on the worker's socket are PAM's.
FromPam(s, decision) == \A i \in 1 .. Len(s) : s[i] \in Results => s[i] = decision

\* Verdicts on the daemon's socket are PAM's, success with an active session.
FromBroker(s, decision, vouched) ==
    \A i \in 1 .. Len(s) :
        /\ s[i] \in {"success", "denied"} => s[i] = decision
        /\ s[i] = "success" => vouched

\* PAM decides once, at the end of its conversation.
DecidesOnce ==
    pam.decision # NoResult => child.pc \in {"complete", "exiting", "exited", "reaped"}

\* A session that is active after the decision vouches for it.
Vouching == pam.decision # NoResult /\ session => pam.vouched

CompletionIsPams ==
    /\ broker.completion # NoResult => broker.completion = pam.decision
    /\ broker.pc \in {"recheck", "complete"} => broker.completion # NoResult
    /\ broker.pc = "complete" /\ broker.completion = "success" => pam.vouched
    /\ child.pc = "complete" => pam.decision # NoResult

\* There is no worker before the broker spawns it.
Unspawned == broker.pc \in {"accept", "authorize", "spawn"} => child.pc = "none"

IInv ==
    /\ TypeOK
    /\ DecidesOnce
    /\ Unspawned
    /\ Vouching
    /\ FromPam(wire["parent"], pam.decision)
    /\ CompletionIsPams
    /\ FromBroker(wire["client"], pam.decision, pam.vouched)
    /\ OnlyPamDecides
    /\ SessionStillActive

-----------------------------------------------------------------------------
(* Types *)

WireType == [broker : Seq(DaemonMessages), child : Seq(DaemonMessages),
             client : Seq(VerifierMessages), parent : Seq(VerifierMessages)]

\* Sending a packet of the daemon's side keeps the queues' type.
LEMMA DaemonSends ==
    ASSUME wire \in WireType, NEW w \in {"broker", "child"}, NEW m \in DaemonMessages
    PROVE  Sent(w, m) \in WireType
  <1>1. wire[w] \in Seq(DaemonMessages)
    BY DEF WireType
  <1>2. Append(wire[w], m) \in Seq(DaemonMessages)
    BY SMTT(60), <1>1
  <1> QED
    BY <1>2 DEF Sent, WireType

\* Sending a packet of the verifier's side keeps the queues' type.
LEMMA VerifierSends ==
    ASSUME wire \in WireType, NEW w \in {"client", "parent"}, NEW m \in VerifierMessages
    PROVE  Sent(w, m) \in WireType
  <1>1. wire[w] \in Seq(VerifierMessages)
    BY DEF WireType
  <1>2. Append(wire[w], m) \in Seq(VerifierMessages)
    BY SMTT(60), <1>1
  <1> QED
    BY <1>2 DEF Sent, WireType

\* Receiving a packet keeps the queues' type, and it is one of the sender's.
LEMMA DaemonReceives ==
    ASSUME wire \in WireType, NEW w \in {"client", "parent"}, Pending(w)
    PROVE  Received(w) \in WireType /\ Head(wire[w]) \in VerifierMessages
  <1>1. wire[w] \in Seq(VerifierMessages) /\ wire[w] # <<>>
    BY DEF WireType, Pending
  <1>2. Tail(wire[w]) \in Seq(VerifierMessages) /\ Head(wire[w]) \in VerifierMessages
    BY <1>1, HeadElement
  <1> QED
    BY <1>2 DEF Received, WireType

\* The same for the packets of the daemon's side.
LEMMA VerifierReceives ==
    ASSUME wire \in WireType, NEW w \in {"broker", "child"}, Pending(w)
    PROVE  Received(w) \in WireType /\ Head(wire[w]) \in DaemonMessages
  <1>1. wire[w] \in Seq(DaemonMessages) /\ wire[w] # <<>>
    BY DEF WireType, Pending
  <1>2. Tail(wire[w]) \in Seq(DaemonMessages) /\ Head(wire[w]) \in DaemonMessages
    BY <1>1, HeadElement
  <1> QED
    BY <1>2 DEF Received, WireType

\* The client's steps keep the types.
LEMMA ClientType ==
    ASSUME TypeOK, ClientStep \/ ClientDies
    PROVE  TypeOK'
  <1>0. "start" \in DaemonMessages /\ "cancel" \in DaemonMessages /\ "secret" \in DaemonMessages
    BY DEF DaemonMessages
  <1>1. wire \in WireType
    BY DEF TypeOK, WireType
  <1>2. wire' \in WireType
    <2>1. CASE Connect
      BY <2>1, <1>0, <1>1, DaemonSends DEF Connect
    <2>2. CASE ClientChecks
      BY <2>2, <1>0, <1>1, DaemonSends DEF ClientChecks, CancelAndLeave
    <2>3. CASE ClientPoll
      BY <2>3, <1>0, <1>1, DaemonReceives DEF ClientPoll
    <2>4. CASE PromptUser
      BY <2>4, <1>1 DEF PromptUser
    <2>5. CASE Respond
      BY <2>5, <1>0, <1>1, DaemonSends DEF Respond, CancelAndLeave
    <2>6. CASE ClientDies
      BY <2>6, <1>1 DEF ClientDies
    <2> QED
      BY <2>1, <2>2, <2>3, <2>4, <2>5, <2>6 DEF ClientStep
  <1>3. client' \in [pc : ClientSteps, conv : ConversationStates, outcome : Outcomes]
    <2>0. /\ client \in [pc : ClientSteps, conv : ConversationStates, outcome : Outcomes]
          /\ cancel \in Outcomes
      BY DEF TypeOK, Outcomes
    <2>1. CASE Connect
      <3> DEFINE next == Advance(client.conv, "start")
      <3>1. next \in ConversationStates
        BY AdvanceType
      <3>2. \/ \E out \in Outcomes : Leave(out)
            \/ ClientTo("loop", next)
        BY <2>0, <2>1 DEF Connect, CancelAndLeave, Outcomes
      <3> HIDE DEF next
      <3> QED
        BY <2>0, <3>1, <3>2 DEF Leave, ClientTo, ClientSteps
    <2>2. CASE ClientChecks
      BY <2>0, <2>2 DEF ClientChecks, CancelAndLeave, Leave, ClientTo, ClientSteps, Outcomes
    <2>3. CASE ClientPoll
      <3>1. CASE ~Pending("client")
        BY <2>0, <2>3, <3>1 DEF ClientPoll, Leave, ClientTo, ClientSteps, Outcomes
      <3>2. CASE Pending("client")
        <4> DEFINE m == Head(wire["client"])
                   next == Advance(client.conv, m)
        <4>1. next \in ConversationStates
          BY AdvanceType
        <4>2. \/ client' = [client EXCEPT !.pc = "done", !.conv = next, !.outcome = "failed"]
              \/ ClientTo("loop", next)
              \/ ClientTo("prompt", next)
              \/ m \in Results /\ client' = [client EXCEPT !.pc = "done", !.conv = next,
                                                           !.outcome = m]
          <5>1. m \in {"status", "secret_required"} \cup Results
            BY <1>1, <3>2, DaemonReceives DEF VerifierMessages
          <5> QED
            BY <2>3, <3>2, <5>1 DEF ClientPoll
        <4> HIDE DEF m, next
        <4> QED
          BY <2>0, <4>1, <4>2 DEF ClientTo, ClientSteps, Outcomes
      <3> QED
        BY <3>1, <3>2
    <2>4. CASE PromptUser
      BY <2>0, <2>4 DEF PromptUser, Leave, ClientTo, ClientSteps, Outcomes
    <2>5. CASE Respond
      <3> DEFINE next == Advance(client.conv, "secret")
      <3>1. next \in ConversationStates
        BY AdvanceType
      <3>2. \/ \E out \in Outcomes : Leave(out)
            \/ ClientTo("loop", next)
        BY <2>0, <2>5 DEF Respond, CancelAndLeave, Outcomes
      <3> HIDE DEF next
      <3> QED
        BY <2>0, <3>1, <3>2 DEF Leave, ClientTo, ClientSteps
    <2>6. CASE ClientDies
      BY <2>0, <2>6 DEF ClientDies, Leave, ClientSteps, Outcomes
    <2> QED
      BY <2>1, <2>2, <2>3, <2>4, <2>5, <2>6 DEF ClientStep
  <1>4. UNCHANGED <<broker, child, environment>>
    BY DEF ClientStep, Connect, ClientChecks, ClientPoll, PromptUser, Respond, ClientDies
  <1> QED
    BY <1>2, <1>3, <1>4 DEF TypeOK, environment, WireType

BrokerType == [pc : BrokerSteps, daemon : ConversationStates,
               worker : ConversationStates, completion : Results \cup {NoResult}]
ChildType == [pc : ChildSteps, conv : ConversationStates, exit : {"ok", "fail", "signal"},
              armed : BOOLEAN, interrupted : BOOLEAN]

\* The state the broker and the worker share with each other.
Supervised == wire \in WireType /\ broker \in BrokerType /\ child \in ChildType

\* The broker's exits keep the types.
LEMMA BrokerEndsType ==
    ASSUME Supervised, BrokerEnds \/ BrokerRefuses("daemon") \/ BrokerRefuses("worker")
    PROVE  Supervised'
  <1>1. child' \in ChildType
    BY DEF Supervised, BrokerEnds, BrokerRefuses, Reaped, ChildType, ChildSteps
  <1>2. broker' \in BrokerType
    BY DEF Supervised, BrokerEnds, BrokerRefuses, BrokerType, BrokerSteps, ConversationStates
  <1>3. wire' \in WireType
    BY DEF Supervised, BrokerEnds, BrokerRefuses
  <1> QED
    BY <1>1, <1>2, <1>3 DEF Supervised

\* Sending to the client keeps the types.
LEMMA ToClientType ==
    ASSUME Supervised, NEW m \in VerifierMessages, NEW step \in BrokerSteps, ToClient(m, step)
    PROVE  Supervised'
  <1>1. CASE ClientGone
    BY <1>1, BrokerEndsType DEF ToClient
  <1>2. CASE ~ClientGone
    <2> DEFINE next == Advance(broker.daemon, m)
    <2>1. next \in ConversationStates
      BY AdvanceType
    <2>2. broker' = [broker EXCEPT !.pc = step, !.daemon = next]
      BY <1>2 DEF ToClient, Supervised, BrokerType
    <2>3. wire' \in WireType
      BY <1>2, VerifierSends DEF ToClient, Supervised
    <2>4. child' \in ChildType
      BY <1>2 DEF ToClient, Supervised
    <2> HIDE DEF next
    <2>5. broker' \in BrokerType
      BY <2>1, <2>2 DEF Supervised, BrokerType
    <2> QED
      BY <2>3, <2>4, <2>5 DEF Supervised
  <1> QED
    BY <1>1, <1>2

\* Passing a packet of the worker on keeps the types.
LEMMA ForwardType ==
    ASSUME Supervised, Pending("parent"), NEW m \in VerifierMessages,
           NEW step \in BrokerSteps, Forward(m, step)
    PROVE  Supervised'
  <1>1. CASE ClientGone
    BY <1>1, BrokerEndsType DEF Forward
  <1>2. CASE ~ClientGone
    <2> DEFINE daemon == Advance(broker.daemon, m)
               worker == Advance(broker.worker, m)
    <2>1. daemon \in ConversationStates /\ worker \in ConversationStates
      BY AdvanceType
    <2>2. broker' = [broker EXCEPT !.pc = step, !.daemon = daemon, !.worker = worker]
      BY <1>2 DEF Forward, Supervised, BrokerType
    <2>3. wire' \in WireType
      <3>1. /\ wire["parent"] \in Seq(VerifierMessages) /\ wire["parent"] # <<>>
            /\ wire["client"] \in Seq(VerifierMessages)
        BY DEF Supervised, WireType, Pending
      <3>2. /\ Tail(wire["parent"]) \in Seq(VerifierMessages)
            /\ Append(wire["client"], m) \in Seq(VerifierMessages)
        BY SMTT(60), <3>1, HeadElement
      <3> QED
        BY <1>2, <3>2 DEF Forward, Supervised, WireType
    <2>4. child' \in ChildType
      BY <1>2 DEF Forward, Supervised
    <2> HIDE DEF daemon, worker
    <2>5. broker' \in BrokerType
      BY <2>1, <2>2 DEF Supervised, BrokerType
    <2> QED
      BY <2>3, <2>4, <2>5 DEF Supervised
  <1> QED
    BY <1>1, <1>2

\* A step of the broker that only moves it keeps the types.
LEMMA BrokerMovesType ==
    ASSUME Supervised, NEW step \in BrokerSteps, UNCHANGED <<child, wire>>,
           broker' = [broker EXCEPT !.pc = step]
    PROVE  Supervised'
  BY DEF Supervised, BrokerType

\* The broker's steps keep the types.
LEMMA BrokerStepType ==
    ASSUME Supervised, CompletionIsPams, BrokerStep \/ BrokerDies
    PROVE  Supervised'
  <1>0. /\ \A p \in {"authorize", "spawn", "start", "drain", "secret", "checks", "wait",
                     "recheck", "complete", "done", "dead"} : p \in BrokerSteps
        /\ Results \subseteq VerifierMessages
        /\ "error" \in VerifierMessages
    BY DEF BrokerSteps, VerifierMessages, Results
  <1>1. CASE ReceiveStart
    <2> DEFINE next == Advance(broker.daemon, Head(wire["broker"]))
    <2>1. next \in ConversationStates
      BY AdvanceType
    <2>2. \/ BrokerEnds \/ BrokerRefuses("daemon")
          \/ /\ Pending("broker")
             /\ broker' = [broker EXCEPT !.pc = "authorize", !.daemon = next]
             /\ wire' = Received("broker")
             /\ UNCHANGED child
      BY <1>1 DEF ReceiveStart, DaemonLost
    <2> HIDE DEF next
    <2>3. CASE BrokerEnds \/ BrokerRefuses("daemon")
      BY <2>3, BrokerEndsType
    <2>4. CASE /\ Pending("broker")
               /\ broker' = [broker EXCEPT !.pc = "authorize", !.daemon = next]
               /\ wire' = Received("broker")
               /\ UNCHANGED child
      <3>1. wire' \in WireType
        BY <2>4, VerifierReceives DEF Supervised
      <3> QED
        BY <1>0, <2>1, <2>4, <3>1 DEF Supervised, BrokerType
    <2> QED
      BY <2>2, <2>3, <2>4
  <1>2. CASE Authorize
    BY <1>0, <1>2, ToClientType, BrokerMovesType DEF Authorize
  <1>3. CASE Spawn
    <2>1. CASE BrokerEnds \/ BrokerRefuses("daemon")
      BY <2>1, BrokerEndsType
    <2>2. CASE /\ child' = [child EXCEPT !.pc = "exec"]
               /\ broker' = [broker EXCEPT !.pc = "start"]
               /\ UNCHANGED wire
      BY <1>0, <2>2 DEF Supervised, BrokerType, ChildType, ChildSteps
    <2> QED
      BY <1>3, <2>1, <2>2 DEF Spawn, Cancelled, DaemonLost
  <1>4. CASE SendStart
    <2> DEFINE next == Advance(broker.worker, "start")
    <2>1. next \in ConversationStates
      BY AdvanceType
    <2>2. wire' \in WireType
      BY <1>4, DaemonSends DEF SendStart, Supervised, DaemonMessages
    <2>3. broker' = [broker EXCEPT !.pc = "drain", !.worker = next] /\ UNCHANGED child
      BY <1>4 DEF SendStart, Supervised, BrokerType
    <2> HIDE DEF next
    <2> QED
      BY <1>0, <2>1, <2>2, <2>3 DEF Supervised, BrokerType
  <1>5. CASE Drain
    <2> DEFINE m == Head(wire["parent"])
    <2>1. Pending("parent") => m \in VerifierMessages /\ Received("parent") \in WireType
      BY DaemonReceives DEF Supervised
    <2>2. \/ BrokerEnds \/ BrokerRefuses("worker")
          \/ Pending("parent") /\ Forward(m, "drain")
          \/ Pending("parent") /\ Forward(m, "secret")
          \/ /\ Pending("parent") /\ m \in Results
             /\ broker' = [broker EXCEPT !.pc = "checks", !.completion = m,
                                         !.worker = "completed"]
             /\ wire' = Received("parent")
             /\ UNCHANGED child
          \/ broker' = [broker EXCEPT !.pc = "checks"] /\ UNCHANGED <<child, wire>>
      BY <1>5, <2>1 DEF Drain, VerifierMessages
    <2> HIDE DEF m
    <2>3. CASE BrokerEnds \/ BrokerRefuses("worker")
      BY <2>3, BrokerEndsType
    <2>4. CASE Pending("parent") /\ Forward(m, "drain")
      BY <1>0, <2>1, <2>4, ForwardType
    <2>5. CASE Pending("parent") /\ Forward(m, "secret")
      BY <1>0, <2>1, <2>5, ForwardType
    <2>6. CASE /\ Pending("parent") /\ m \in Results
               /\ broker' = [broker EXCEPT !.pc = "checks", !.completion = m,
                                           !.worker = "completed"]
               /\ wire' = Received("parent")
               /\ UNCHANGED child
      BY <1>0, <2>1, <2>6 DEF Supervised, BrokerType, ConversationStates
    <2>7. CASE broker' = [broker EXCEPT !.pc = "checks"] /\ UNCHANGED <<child, wire>>
      BY <1>0, <2>7, BrokerMovesType
    <2> QED
      BY <2>2, <2>3, <2>4, <2>5, <2>6, <2>7
  <1>6. CASE RequestSecret
    <2> DEFINE daemon == Advance(broker.daemon, "secret")
               worker == Advance(broker.worker, "secret")
    <2>1. daemon \in ConversationStates /\ worker \in ConversationStates
      BY AdvanceType
    <2>2. \/ BrokerEnds \/ BrokerRefuses("daemon")
          \/ /\ Pending("broker")
             /\ wire' = [wire EXCEPT !["broker"] = Tail(@), !["child"] = Append(@, "secret")]
             /\ broker' = [broker EXCEPT !.pc = "drain", !.daemon = daemon, !.worker = worker]
             /\ UNCHANGED child
      BY <1>6 DEF RequestSecret, DaemonLost, Cancelled, Supervised, BrokerType
    <2> HIDE DEF daemon, worker
    <2>3. CASE BrokerEnds \/ BrokerRefuses("daemon")
      BY <2>3, BrokerEndsType
    <2>4. CASE /\ Pending("broker")
               /\ wire' = [wire EXCEPT !["broker"] = Tail(@), !["child"] = Append(@, "secret")]
               /\ broker' = [broker EXCEPT !.pc = "drain", !.daemon = daemon, !.worker = worker]
               /\ UNCHANGED child
      <3>1. /\ wire["broker"] \in Seq(DaemonMessages) /\ wire["broker"] # <<>>
            /\ wire["child"] \in Seq(DaemonMessages) /\ "secret" \in DaemonMessages
        BY <2>4 DEF Supervised, WireType, Pending, DaemonMessages
      <3>2. /\ Tail(wire["broker"]) \in Seq(DaemonMessages)
            /\ Append(wire["child"], "secret") \in Seq(DaemonMessages)
        BY SMTT(60), <3>1, HeadElement
      <3>3. wire' \in WireType
        BY <2>4, <3>2 DEF Supervised, WireType
      <3> QED
        BY <1>0, <2>1, <2>4, <3>3 DEF Supervised, BrokerType
    <2> QED
      BY <2>2, <2>3, <2>4
  <1>7. CASE BrokerChecks
    BY <1>0, <1>7, BrokerEndsType, BrokerMovesType DEF BrokerChecks, Cancelled, DaemonLost
  <1>8. CASE ChildStatus
    <2>1. CASE BrokerEnds
      BY <2>1, BrokerEndsType
    <2>2. CASE ~BrokerEnds
      BY <1>0, <1>8, <2>2
         DEF ChildStatus, Reaped, Supervised, BrokerType, ChildType, ChildSteps
    <2> QED
      BY <2>1, <2>2
  <1>9. CASE BrokerWaits
    BY <1>0, <1>9, BrokerEndsType, BrokerMovesType DEF BrokerWaits
  <1>10. CASE Recheck
    BY <1>0, <1>10, ToClientType, BrokerMovesType DEF Recheck
  <1>11. CASE Complete
    BY <1>0, <1>11, ToClientType DEF Complete, Supervised, BrokerType, CompletionIsPams
  <1>12. CASE BrokerDies
    BY <1>0, <1>12 DEF BrokerDies, Supervised, BrokerType, ChildType
  <1> QED
    BY <1>1, <1>2, <1>3, <1>4, <1>5, <1>6, <1>7, <1>8, <1>9, <1>10, <1>11, <1>12
       DEF BrokerStep

WorkerAction ==
    ChildStep \/ PamConverses \/ PamDecides \/ PamCrashes \/ ChildInterrupted

\* The worker's steps keep the types.
LEMMA WorkerType ==
    ASSUME TypeOK, Supervised, CompletionIsPams, WorkerAction
    PROVE  Supervised' /\ pam' \in [said : 0 .. MaxMessages, decision : Results \cup {NoResult},
                                    vouched : BOOLEAN]
  <1>0. /\ \A p \in {"armed", "receive", "pam", "prompt", "complete", "exiting", "exited"} :
               p \in ChildSteps
        /\ {"status", "secret_required"} \cup Results \subseteq VerifierMessages
    BY DEF ChildSteps, VerifierMessages
  <1>1. broker' \in BrokerType
    BY DEF Supervised, WorkerAction, ChildStep, ArmParentDeathSignal, CheckParent, ChildReceives,
           ReadSecret, SendCompletion, ChildExits, PamConverses, PamDecides, PamCrashes,
           ChildInterrupted
  <1>2. /\ pam' \in [said : 0 .. MaxMessages, decision : Results \cup {NoResult},
                     vouched : BOOLEAN]
    <2>0. /\ pam \in [said : 0 .. MaxMessages, decision : Results \cup {NoResult},
                      vouched : BOOLEAN]
          /\ session \in BOOLEAN
      BY DEF TypeOK
    <2>1. CASE PamConverses
      BY SMTT(60), <2>0, <2>1, MessageBound DEF PamConverses
    <2>2. CASE PamDecides
      BY <2>0, <2>2 DEF PamDecides
    <2>3. CASE UNCHANGED pam
      BY <2>0, <2>3
    <2> QED
      BY <2>1, <2>2, <2>3
         DEF WorkerAction, ChildStep, ArmParentDeathSignal, CheckParent, ChildReceives,
             ReadSecret, SendCompletion, ChildExits, PamCrashes, ChildInterrupted, environment
  <1>3. ASSUME NEW step \in ChildSteps, NEW m, ChildTo(step, Advance(child.conv, m))
        PROVE  child' \in ChildType
    <2> DEFINE next == Advance(child.conv, m)
    <2>1. next \in ConversationStates
      BY AdvanceType
    <2>2. child' = [child EXCEPT !.pc = step, !.conv = next]
      BY <1>3 DEF ChildTo
    <2> HIDE DEF next
    <2> QED
      BY <2>1, <2>2 DEF Supervised, ChildType
  <1>4. ASSUME NEW status \in {"ok", "fail", "signal"}, ChildReturns(status)
        PROVE  child' \in ChildType
    BY <1>0, <1>4 DEF ChildReturns, Supervised, ChildType
  <1>5. ASSUME NEW step \in ChildSteps, ChildTo(step, child.conv)
        PROVE  child' \in ChildType
    BY <1>5 DEF ChildTo, Supervised, ChildType
  <1>6. child' \in ChildType
    <2>1. CASE ArmParentDeathSignal
      BY <1>0, <2>1 DEF ArmParentDeathSignal, Supervised, ChildType
    <2>2. CASE CheckParent
      BY <1>0, <1>4, <1>5, <2>2 DEF CheckParent
    <2>3. CASE ChildReceives
      BY <1>0, <1>3, <1>4, <2>3 DEF ChildReceives
    <2>4. CASE ReadSecret
      BY <1>0, <1>3, <1>5, <2>4 DEF ReadSecret
    <2>5. CASE SendCompletion
      BY <1>0, <1>3, <1>4, <2>5 DEF SendCompletion
    <2>6. CASE ChildExits
      BY <1>4, <2>6 DEF ChildExits
    <2>7. CASE PamConverses
      BY <1>0, <1>3, <2>7 DEF PamConverses, ChildSays, Supervised
    <2>8. CASE PamDecides
      BY <1>0, <1>5, <2>8 DEF PamDecides
    <2>9. CASE PamCrashes \/ ChildInterrupted
      BY <1>4, <2>9 DEF PamCrashes, ChildInterrupted
    <2> QED
      BY <2>1, <2>2, <2>3, <2>4, <2>5, <2>6, <2>7, <2>8, <2>9 DEF WorkerAction, ChildStep
  <1>7. wire' \in WireType
    <2>1. CASE ChildReceives
      BY <2>1, VerifierReceives DEF ChildReceives, Supervised
    <2>2. CASE ReadSecret
      BY <2>2, VerifierReceives DEF ReadSecret, Supervised
    <2>3. CASE SendCompletion
      <3>1. pam.decision \in VerifierMessages
        BY <1>0, <2>3 DEF SendCompletion, CompletionIsPams, TypeOK
      <3> QED
        BY <2>3, <3>1, VerifierSends DEF SendCompletion, Supervised
    <2>4. CASE PamConverses
      BY <1>0, <2>4, VerifierSends DEF PamConverses, ChildSays, Supervised
    <2>5. CASE UNCHANGED wire
      BY <2>5 DEF Supervised
    <2> QED
      BY <2>1, <2>2, <2>3, <2>4, <2>5
         DEF WorkerAction, ChildStep, ArmParentDeathSignal, CheckParent, ChildExits, PamDecides,
             PamCrashes, ChildInterrupted
  <1> QED
    BY <1>1, <1>2, <1>6, <1>7 DEF Supervised

\* Every step keeps the types.
LEMMA TypeInductive ==
    ASSUME TypeOK, CompletionIsPams, [Next]_vars
    PROVE  TypeOK'
  <1>0. Supervised
    BY DEF Supervised, TypeOK, WireType, BrokerType, ChildType
  <1>1. CASE ClientStep \/ ClientDies
    BY <1>1, ClientType
  <1>2. CASE BrokerStep \/ BrokerDies
    <2>1. Supervised'
      BY <1>0, <1>2, BrokerStepType
    <2>2. UNCHANGED <<client, deadline, cancel, session, pam>>
      BY <1>2 DEF BrokerStep, BrokerDies, ReceiveStart, Authorize, Spawn, SendStart, Drain,
                  RequestSecret, BrokerChecks, ChildStatus, BrokerWaits, Recheck, Complete,
                  environment
    <2> QED
      BY <2>1, <2>2 DEF TypeOK, Supervised, WireType, BrokerType, ChildType
  <1>3. CASE WorkerAction
    <2>1. /\ Supervised'
          /\ pam' \in [said : 0 .. MaxMessages, decision : Results \cup {NoResult},
                       vouched : BOOLEAN]
      BY <1>0, <1>3, WorkerType
    <2>2. UNCHANGED <<client, deadline, cancel, session>>
      BY <1>3 DEF WorkerAction, ChildStep, ArmParentDeathSignal, CheckParent, ChildReceives,
           ReadSecret, SendCompletion, ChildExits, PamConverses, PamDecides, PamCrashes,
           ChildInterrupted, environment
    <2> QED
      BY <2>1, <2>2 DEF TypeOK, Supervised, WireType, BrokerType, ChildType
  <1>4. CASE Environment
    <2>1. UNCHANGED <<client, broker, child, wire>>
      BY <1>4 DEF Environment, RequestCancel, ClientDeadline, BrokerDeadline, SessionChanges
    <2>2. /\ deadline' \in [client : BOOLEAN, broker : BOOLEAN]
          /\ cancel' \in {"none", "operation", "interaction"}
          /\ session' \in BOOLEAN
          /\ pam' \in [said : 0 .. MaxMessages, decision : Results \cup {NoResult},
                       vouched : BOOLEAN]
      BY <1>4 DEF TypeOK, Environment, RequestCancel, ClientDeadline, BrokerDeadline,
                  SessionChanges
    <2> QED
      BY <2>1, <2>2 DEF TypeOK
  <1>5. CASE UNCHANGED vars
    BY <1>5 DEF vars, TypeOK
  <1> QED
    BY <1>1, <1>2, <1>3, <1>4, <1>5 DEF Next, WorkerAction

-----------------------------------------------------------------------------
(* The way of a decision *)

\* Receiving from the worker's socket: the packet and the rest are PAM's.
LEMMA FromPamReceived ==
    ASSUME NEW s \in Seq(VerifierMessages), s # <<>>, NEW d, FromPam(s, d)
    PROVE  FromPam(Tail(s), d) /\ (Head(s) \in Results => Head(s) = d)
  BY TailElement, HeadElement DEF FromPam

\* Sending on the worker's socket.
LEMMA FromPamSent ==
    ASSUME NEW s \in Seq(VerifierMessages), NEW m \in VerifierMessages, NEW d, FromPam(s, d),
           m \in Results => m = d
    PROVE  FromPam(Append(s, m), d)
  BY SMTT(60), AppendElement DEF FromPam

\* Receiving from the daemon's socket.
LEMMA FromBrokerReceived ==
    ASSUME NEW s \in Seq(VerifierMessages), s # <<>>, NEW d, NEW v, FromBroker(s, d, v)
    PROVE  /\ FromBroker(Tail(s), d, v)
           /\ Head(s) \in {"success", "denied"} => Head(s) = d
           /\ Head(s) = "success" => v
  BY SMTT(60), TailElement, HeadElement DEF FromBroker

\* Sending on the daemon's socket.
LEMMA FromBrokerSent ==
    ASSUME NEW s \in Seq(VerifierMessages), NEW m \in VerifierMessages, NEW d, NEW v,
           FromBroker(s, d, v), m \in {"success", "denied"} => m = d, m = "success" => v
    PROVE  FromBroker(Append(s, m), d, v)
  BY SMTT(60), AppendElement DEF FromBroker

\* The client reports what it received.
LEMMA ClientInductive ==
    ASSUME IInv, ClientStep \/ ClientDies
    PROVE  IInv'
  <1>0. TypeOK' /\ UNCHANGED <<broker, child, pam, session>>
    BY ClientType
       DEF IInv, ClientStep, Connect, ClientChecks, ClientPoll, PromptUser, Respond, ClientDies,
           environment
  <1>1. DecidesOnce' /\ Unspawned' /\ Vouching' /\ CompletionIsPams'
    BY <1>0 DEF IInv, DecidesOnce, Unspawned, Vouching, CompletionIsPams
  <1>2. wire["client"] \in Seq(VerifierMessages) /\ wire \in WireType
    BY DEF IInv, TypeOK, WireType
  <1>3. CASE ClientPoll /\ Pending("client")
    <2> DEFINE m == Head(wire["client"])
               next == Advance(client.conv, m)
    <2>1. wire'["parent"] = wire["parent"] /\ wire'["client"] = Tail(wire["client"])
      BY <1>2, <1>3 DEF ClientPoll, Received, WireType
    <2>2. /\ FromBroker(Tail(wire["client"]), pam.decision, pam.vouched)
          /\ m \in {"success", "denied"} => m = pam.decision
          /\ m = "success" => pam.vouched
      BY SMTT(60), <1>2, <1>3, FromBrokerReceived DEF IInv, Pending
    <2>3. client'.outcome \in {client.outcome, "failed", m}
      <3>1. m \in {"status", "secret_required"} \cup Results
        BY <1>2, <1>3, DaemonReceives DEF VerifierMessages
      <3>2. \/ client' = [client EXCEPT !.pc = "done", !.conv = next, !.outcome = "failed"]
            \/ ClientTo("loop", next)
            \/ ClientTo("prompt", next)
            \/ client' = [client EXCEPT !.pc = "done", !.conv = next, !.outcome = m]
        BY <1>3, <3>1 DEF ClientPoll
      <3> HIDE DEF m, next
      <3> QED
        BY <3>2 DEF ClientTo, IInv, TypeOK
    <2> HIDE DEF m
    <2>4. OnlyPamDecides' /\ SessionStillActive'
      BY <1>0, <2>2, <2>3 DEF IInv, OnlyPamDecides, SessionStillActive
    <2> QED
      BY <1>0, <1>1, <2>1, <2>2, <2>4 DEF IInv
  <1>4. CASE ~(ClientPoll /\ Pending("client"))
    <2>1. wire'["parent"] = wire["parent"] /\ wire'["client"] = wire["client"]
      BY <1>2, <1>4
         DEF ClientStep, Connect, ClientChecks, ClientPoll, PromptUser, Respond, ClientDies,
             CancelAndLeave, Sent, WireType
    <2>2. client'.outcome \in {client.outcome, cancel, "timed_out", "unavailable", "failed", "died"}
      <3>1. \/ \E out \in {cancel, "timed_out", "unavailable", "failed", "died"} : Leave(out)
            \/ \E step, conversation : ClientTo(step, conversation)
        BY <1>4
           DEF ClientStep, Connect, ClientChecks, ClientPoll, PromptUser, Respond, ClientDies,
               CancelAndLeave
      <3> QED
        BY <3>1 DEF Leave, ClientTo, IInv, TypeOK
    <2>3. OnlyPamDecides' /\ SessionStillActive'
      BY <1>0, <2>2 DEF IInv, TypeOK, OnlyPamDecides, SessionStillActive
    <2> QED
      BY <1>0, <1>1, <2>1, <2>3 DEF IInv
  <1> QED
    BY <1>3, <1>4

\* What the broker's exits and its sending leave of the invariant.
BrokerKeeps ==
    /\ DecidesOnce
    /\ Unspawned
    /\ FromPam(wire["parent"], pam.decision)
    /\ CompletionIsPams
    /\ FromBroker(wire["client"], pam.decision, pam.vouched)

\* The broker's exits.
LEMMA BrokerEndsKeeps ==
    ASSUME IInv, UNCHANGED pam,
           BrokerEnds \/ BrokerRefuses("daemon") \/ BrokerRefuses("worker")
    PROVE  BrokerKeeps'
  <1>1. /\ UNCHANGED wire /\ broker'.pc = "done" /\ broker'.completion = broker.completion
        /\ child'.pc \in {child.pc, "reaped"}
    BY DEF IInv, TypeOK, BrokerEnds, BrokerRefuses, Reaped
  <1>2. DecidesOnce' /\ Unspawned' /\ CompletionIsPams'
    BY <1>1 DEF IInv, DecidesOnce, Unspawned, CompletionIsPams
  <1> QED
    BY <1>1, <1>2 DEF IInv, BrokerKeeps

\* A packet for the client that is PAM's verdict or none.
LEMMA ToClientKeeps ==
    ASSUME IInv, UNCHANGED pam, NEW m \in VerifierMessages, ToClient(m, "done"),
           m \in {"success", "denied"} => m = pam.decision, m = "success" => pam.vouched
    PROVE  BrokerKeeps'
  <1>1. CASE ClientGone
    BY <1>1, BrokerEndsKeeps DEF ToClient
  <1>2. CASE ~ClientGone
    <2>1. /\ broker'.pc = "done" /\ broker'.completion = broker.completion /\ UNCHANGED child
          /\ wire'["parent"] = wire["parent"] /\ wire'["client"] = Append(wire["client"], m)
          /\ wire["client"] \in Seq(VerifierMessages)
      BY <1>2 DEF ToClient, Sent, IInv, TypeOK
    <2>2. FromBroker(Append(wire["client"], m), pam.decision, pam.vouched)
      BY <2>1, FromBrokerSent DEF IInv
    <2>3. DecidesOnce' /\ Unspawned' /\ CompletionIsPams'
      BY <2>1 DEF IInv, DecidesOnce, Unspawned, CompletionIsPams
    <2> QED
      BY <2>1, <2>2, <2>3 DEF IInv, BrokerKeeps
  <1> QED
    BY <1>1, <1>2

\* A packet of the worker that is passed on is no verdict.
LEMMA ForwardKeeps ==
    ASSUME IInv, UNCHANGED pam, NEW m \in {"status", "secret_required"}, Pending("parent"),
           NEW step \in {"drain", "secret"}, Forward(m, step)
    PROVE  BrokerKeeps'
  <1>1. CASE ClientGone
    BY <1>1, BrokerEndsKeeps DEF Forward
  <1>2. CASE ~ClientGone
    <2>1. /\ broker'.pc = step /\ broker'.completion = broker.completion /\ UNCHANGED child
          /\ wire'["parent"] = Tail(wire["parent"]) /\ wire["parent"] # <<>>
          /\ wire'["client"] = Append(wire["client"], m)
          /\ wire["client"] \in Seq(VerifierMessages)
          /\ wire["parent"] \in Seq(VerifierMessages)
      BY <1>2 DEF Forward, Pending, IInv, TypeOK
    <2>2. FromBroker(Append(wire["client"], m), pam.decision, pam.vouched)
      BY <2>1, FromBrokerSent DEF IInv, VerifierMessages
    <2>3. FromPam(Tail(wire["parent"]), pam.decision)
      BY <2>1, FromPamReceived DEF IInv
    <2>4. DecidesOnce' /\ Unspawned' /\ CompletionIsPams'
      BY <2>1 DEF IInv, DecidesOnce, Unspawned, CompletionIsPams
    <2> QED
      BY <2>1, <2>2, <2>3, <2>4 DEF BrokerKeeps
  <1> QED
    BY <1>1, <1>2

\* The broker passes PAM's decision on, success after the second session check.
LEMMA BrokerInductive ==
    ASSUME IInv, BrokerStep \/ BrokerDies
    PROVE  IInv'
  <1>0. UNCHANGED <<client, session, pam, deadline, cancel>>
    BY DEF BrokerStep, BrokerDies, ReceiveStart, Authorize, Spawn, SendStart, Drain,
           RequestSecret, BrokerChecks, ChildStatus, BrokerWaits, Recheck, Complete, environment
  <1>s. SUFFICES BrokerKeeps'
    <2>1. TypeOK'
      BY TypeInductive DEF Next, IInv
    <2>2. Vouching' /\ OnlyPamDecides' /\ SessionStillActive'
      BY <1>0 DEF IInv, Vouching, OnlyPamDecides, SessionStillActive
    <2> QED
      BY <2>1, <2>2 DEF IInv, BrokerKeeps
  <1>t. wire \in WireType /\ broker \in BrokerType /\ child \in ChildType
    BY DEF IInv, TypeOK, WireType, BrokerType, ChildType
  <1>r. "error" \in VerifierMessages /\ Results \subseteq VerifierMessages
    BY DEF VerifierMessages, Results
  <1>m. ASSUME NEW step \in BrokerSteps, broker'.pc = step,
               step \notin {"recheck", "complete", "accept", "authorize", "spawn"},
               broker'.completion = broker.completion, UNCHANGED child,
               wire'["parent"] = wire["parent"], wire'["client"] = wire["client"]
        PROVE  BrokerKeeps'
    BY <1>m, <1>0 DEF IInv, BrokerKeeps, DecidesOnce, Unspawned, CompletionIsPams
  <1>1. CASE ReceiveStart
    <2>1. CASE BrokerEnds \/ BrokerRefuses("daemon")
      BY <1>0, <2>1, BrokerEndsKeeps
    <2>2. CASE ~(BrokerEnds \/ BrokerRefuses("daemon"))
      <3>1. /\ broker'.pc = "authorize" /\ broker'.completion = broker.completion
            /\ UNCHANGED child /\ broker.pc = "accept"
            /\ wire'["parent"] = wire["parent"] /\ wire'["client"] = wire["client"]
        BY <1>1, <1>t, <2>2 DEF ReceiveStart, DaemonLost, Received, WireType, BrokerType
      <3> QED
        BY <1>0, <3>1 DEF IInv, BrokerKeeps, DecidesOnce, Unspawned, CompletionIsPams
    <2> QED
      BY <2>1, <2>2
  <1>2. CASE Authorize
    <2>1. CASE ToClient("error", "done")
      BY <1>0, <1>r, <2>1, ToClientKeeps
    <2>2. CASE ~ToClient("error", "done")
      <3>1. /\ broker'.pc = "spawn" /\ broker'.completion = broker.completion
            /\ UNCHANGED <<child, wire>> /\ broker.pc = "authorize"
        BY <1>2, <1>t, <2>2 DEF Authorize, BrokerType
      <3> QED
        BY <1>0, <3>1 DEF IInv, BrokerKeeps, DecidesOnce, Unspawned, CompletionIsPams
    <2> QED
      BY <2>1, <2>2
  <1>3. CASE Spawn
    <2>1. CASE BrokerEnds \/ BrokerRefuses("daemon")
      BY <1>0, <2>1, BrokerEndsKeeps
    <2>2. CASE ~(BrokerEnds \/ BrokerRefuses("daemon"))
      <3>1. /\ broker'.pc = "start" /\ broker'.completion = broker.completion
            /\ UNCHANGED wire /\ broker.pc = "spawn" /\ child'.pc = "exec"
        BY <1>3, <1>t, <2>2 DEF Spawn, Cancelled, DaemonLost, BrokerType, ChildType
      <3>2. pam.decision = NoResult
        BY <3>1 DEF IInv, DecidesOnce, Unspawned
      <3> QED
        BY <1>0, <3>1, <3>2 DEF IInv, BrokerKeeps, DecidesOnce, Unspawned, CompletionIsPams
    <2> QED
      BY <2>1, <2>2
  <1>4. CASE SendStart
    BY <1>4, <1>m, <1>t DEF SendStart, Sent, WireType, BrokerType, BrokerSteps
  <1>5. CASE Drain
    <2> DEFINE m == Head(wire["parent"])
    <2>1. Pending("parent") => m \in VerifierMessages
      BY <1>t, DaemonReceives
    <2>2. \/ BrokerEnds \/ BrokerRefuses("worker")
          \/ Pending("parent") /\ m \in {"status", "secret_required"}
             /\ (Forward(m, "drain") \/ Forward(m, "secret"))
          \/ /\ Pending("parent") /\ m \in Results
             /\ broker' = [broker EXCEPT !.pc = "checks", !.completion = m,
                                         !.worker = "completed"]
             /\ wire' = Received("parent")
             /\ UNCHANGED child
          \/ broker' = [broker EXCEPT !.pc = "checks"] /\ UNCHANGED <<child, wire>>
      BY <1>5, <2>1 DEF Drain, VerifierMessages
    <2>3. CASE BrokerEnds \/ BrokerRefuses("worker")
      BY <1>0, <2>3, BrokerEndsKeeps
    <2>4. CASE Pending("parent") /\ m \in {"status", "secret_required"}
               /\ (Forward(m, "drain") \/ Forward(m, "secret"))
      BY <1>0, <2>4, ForwardKeeps
    <2>5. CASE /\ Pending("parent") /\ m \in Results
               /\ broker' = [broker EXCEPT !.pc = "checks", !.completion = m,
                                           !.worker = "completed"]
               /\ wire' = Received("parent")
               /\ UNCHANGED child
      <3>1. FromPam(Tail(wire["parent"]), pam.decision) /\ m = pam.decision
        BY <1>t, <2>5, FromPamReceived DEF IInv, Pending, WireType
      <3>2. /\ wire'["parent"] = Tail(wire["parent"]) /\ wire'["client"] = wire["client"]
            /\ broker'.pc = "checks" /\ broker'.completion = m
        BY <1>t, <2>5 DEF Received, WireType, BrokerType
      <3> HIDE DEF m
      <3> QED
        BY <1>0, <2>5, <3>1, <3>2
           DEF IInv, BrokerKeeps, DecidesOnce, Unspawned, CompletionIsPams
    <2>6. CASE broker' = [broker EXCEPT !.pc = "checks"] /\ UNCHANGED <<child, wire>>
      BY <1>m, <1>t, <2>6 DEF BrokerType, BrokerSteps
    <2> QED
      BY <2>2, <2>3, <2>4, <2>5, <2>6
  <1>6. CASE RequestSecret
    <2>1. CASE BrokerEnds \/ BrokerRefuses("daemon")
      BY <1>0, <2>1, BrokerEndsKeeps
    <2>2. CASE ~(BrokerEnds \/ BrokerRefuses("daemon"))
      <3>1. /\ broker'.pc = "drain" /\ broker'.completion = broker.completion
            /\ UNCHANGED child
            /\ wire'["parent"] = wire["parent"] /\ wire'["client"] = wire["client"]
        BY <1>6, <1>t, <2>2 DEF RequestSecret, DaemonLost, Cancelled, WireType, BrokerType
      <3> QED
        BY <1>m, <3>1 DEF BrokerSteps
    <2> QED
      BY <2>1, <2>2
  <1>7. CASE BrokerChecks
    <2>1. CASE BrokerEnds \/ BrokerRefuses("daemon")
      BY <1>0, <2>1, BrokerEndsKeeps
    <2>2. CASE ~(BrokerEnds \/ BrokerRefuses("daemon"))
      BY <1>7, <1>m, <1>t, <2>2 DEF BrokerChecks, DaemonLost, Cancelled, BrokerType, BrokerSteps
    <2> QED
      BY <2>1, <2>2
  <1>8. CASE ChildStatus
    <2>1. CASE BrokerEnds
      BY <1>0, <2>1, BrokerEndsKeeps
    <2>2. CASE ~BrokerEnds
      <3>1. /\ broker.completion # NoResult /\ broker'.completion = broker.completion
            /\ broker'.pc = IF broker.completion = "success" THEN "recheck" ELSE "complete"
            /\ child'.pc = "reaped" /\ UNCHANGED wire
        BY <1>8, <1>t, <2>2 DEF ChildStatus, Reaped, BrokerType, ChildType
      <3> QED
        BY <1>0, <3>1 DEF IInv, BrokerKeeps, DecidesOnce, Unspawned, CompletionIsPams
    <2> QED
      BY <2>1, <2>2
  <1>9. CASE BrokerWaits
    <2>1. CASE BrokerEnds
      BY <1>0, <2>1, BrokerEndsKeeps
    <2>2. CASE ~BrokerEnds
      BY <1>9, <1>m, <1>t, <2>2 DEF BrokerWaits, BrokerType, BrokerSteps
    <2> QED
      BY <2>1, <2>2
  <1>10. CASE Recheck
    <2>1. CASE ToClient("error", "done")
      BY <1>0, <1>r, <2>1, ToClientKeeps
    <2>2. CASE ~ToClient("error", "done")
      <3>1. /\ broker'.pc = "complete" /\ broker'.completion = broker.completion
            /\ UNCHANGED <<child, wire>> /\ broker.pc = "recheck" /\ session
        BY <1>10, <1>t, <2>2 DEF Recheck, BrokerType
      <3> QED
        BY <1>0, <3>1
           DEF IInv, BrokerKeeps, DecidesOnce, Unspawned, Vouching, CompletionIsPams
    <2> QED
      BY <2>1, <2>2
  <1>11. CASE Complete
    <2>1. /\ broker.completion \in VerifierMessages
          /\ broker.completion = pam.decision
          /\ broker.completion = "success" => pam.vouched
      BY <1>11, <1>r, <1>t DEF Complete, IInv, CompletionIsPams, BrokerType
    <2> QED
      BY <1>0, <1>11, <2>1, ToClientKeeps DEF Complete
  <1>12. CASE BrokerDies
    BY <1>0, <1>12, <1>t
       DEF BrokerDies, IInv, BrokerKeeps, DecidesOnce, Unspawned, CompletionIsPams, BrokerType,
           ChildType
  <1> QED
    BY <1>1, <1>2, <1>3, <1>4, <1>5, <1>6, <1>7, <1>8, <1>9, <1>10, <1>11, <1>12
       DEF BrokerStep

\* The worker sends PAM's decision, once.
LEMMA WorkerInductive ==
    ASSUME IInv, WorkerAction
    PROVE  IInv'
  <1>t. /\ wire \in WireType /\ child \in ChildType
        /\ pam \in [said : 0 .. MaxMessages, decision : Results \cup {NoResult},
                    vouched : BOOLEAN]
    BY DEF IInv, TypeOK, WireType, ChildType
  <1>0. UNCHANGED <<client, broker, session>> /\ wire'["client"] = wire["client"]
    <2>1. UNCHANGED <<client, broker, session>>
      BY DEF WorkerAction, ChildStep, ArmParentDeathSignal, CheckParent, ChildReceives,
             ReadSecret, SendCompletion, ChildExits, PamConverses, PamDecides, PamCrashes,
             ChildInterrupted, environment
    <2>2. wire'["client"] = wire["client"]
      BY <1>t DEF WorkerAction, ChildStep, ArmParentDeathSignal, CheckParent, ChildReceives,
             ReadSecret, SendCompletion, ChildExits, PamConverses, PamDecides, PamCrashes,
             ChildInterrupted, ChildSays, Sent, Received, WireType
    <2> QED
      BY <2>1, <2>2
  <1>1. TypeOK'
    BY TypeInductive DEF Next, IInv, WorkerAction
  <1>2. Unspawned'
    <2>1. child.pc # "none"
      BY DEF WorkerAction, ChildStep, ArmParentDeathSignal, CheckParent, ChildReceives,
             ReadSecret, SendCompletion, ChildExits, PamConverses, PamDecides, PamCrashes,
             ChildInterrupted, ChildGone
    <2> QED
      BY <1>0, <2>1 DEF IInv, Unspawned
  <1>3. CASE PamDecides
    <2>1. /\ pam.decision = NoResult /\ child'.pc = "complete" /\ UNCHANGED wire
          /\ pam'.decision \in Results /\ pam'.vouched = session
      BY <1>3, <1>t DEF PamDecides, ChildTo, IInv, DecidesOnce, ChildType
    <2>2. NoResult \notin Results
      BY DEF NoResult, Results
    <2>3. FromPam(wire["parent"], pam'.decision)
      BY <2>1, <2>2 DEF IInv, FromPam
    <2>4. FromBroker(wire["client"], pam'.decision, pam'.vouched)
      BY <2>1, <2>2 DEF IInv, FromBroker, Results
    <2>5. broker.completion = NoResult /\ client.outcome \notin {"success", "denied"}
      BY <2>1, <2>2 DEF IInv, CompletionIsPams, OnlyPamDecides, Results
    <2>6. DecidesOnce' /\ Vouching' /\ CompletionIsPams'
      BY <1>0, <2>1, <2>2, <2>5 DEF IInv, DecidesOnce, Vouching, CompletionIsPams, NoResult
    <2>7. OnlyPamDecides' /\ SessionStillActive'
      BY <1>0, <2>5 DEF OnlyPamDecides, SessionStillActive
    <2> QED
      BY <1>1, <1>2, <2>1, <2>3, <2>4, <2>6, <2>7 DEF IInv
  <1>4. CASE ~PamDecides
    <2>1. pam'.decision = pam.decision /\ pam'.vouched = pam.vouched
      BY <1>4, <1>t
         DEF WorkerAction, ChildStep, ArmParentDeathSignal, CheckParent, ChildReceives,
             ReadSecret, SendCompletion, ChildExits, PamConverses, PamCrashes,
             ChildInterrupted, environment
    <2>2. /\ pam.decision # NoResult =>
                child'.pc \in {"complete", "exiting", "exited", "reaped"}
          /\ child'.pc = "complete" => child.pc = "complete"
      <3>1. child.pc \in ChildSteps
        BY <1>t DEF ChildType
      <3>2. CASE ChildStep
        BY <1>t, <3>2
           DEF ChildStep, ArmParentDeathSignal, CheckParent, ChildReceives, ReadSecret,
               SendCompletion, ChildExits, ChildTo, ChildReturns, ChildType, IInv, DecidesOnce
      <3>3. CASE PamConverses \/ PamCrashes \/ ChildInterrupted
        BY <1>t, <3>3
           DEF PamConverses, PamCrashes, ChildInterrupted, ChildSays, ChildTo, ChildReturns,
               ChildType, IInv, DecidesOnce
      <3> QED
        BY <1>4, <3>2, <3>3 DEF WorkerAction
    <2>3. FromPam(wire'["parent"], pam.decision)
      <3>0. wire["parent"] \in Seq(VerifierMessages)
        BY <1>t DEF WireType
      <3>1. CASE SendCompletion
        <4>1. wire'["parent"] \in {wire["parent"], Append(wire["parent"], pam.decision)}
          BY <1>t, <3>1 DEF SendCompletion, Sent, WireType
        <4>2. pam.decision \in VerifierMessages
          BY <1>t, <3>1 DEF SendCompletion, IInv, CompletionIsPams, VerifierMessages
        <4> QED
          BY <3>0, <4>1, <4>2, FromPamSent DEF IInv
      <3>2. CASE PamConverses
        <4>1. wire'["parent"] \in {wire["parent"], Append(wire["parent"], "status"),
                                   Append(wire["parent"], "secret_required")}
          BY <1>t, <3>2 DEF PamConverses, ChildSays, Sent, WireType
        <4>2. /\ "status" \in VerifierMessages \ Results
              /\ "secret_required" \in VerifierMessages \ Results
          BY DEF VerifierMessages, Results
        <4> QED
          BY <3>0, <4>1, <4>2, FromPamSent DEF IInv
      <3>3. CASE ~SendCompletion /\ ~PamConverses
        <4>1. wire'["parent"] = wire["parent"]
          BY <1>4, <1>t, <3>3
             DEF WorkerAction, ChildStep, ArmParentDeathSignal, CheckParent, ChildReceives,
                 ReadSecret, ChildExits, PamCrashes, ChildInterrupted, Received, WireType
        <4> QED
          BY <4>1 DEF IInv
      <3> QED
        BY <3>1, <3>2, <3>3
    <2>4. DecidesOnce' /\ Vouching' /\ CompletionIsPams'
      BY <1>0, <2>1, <2>2 DEF IInv, DecidesOnce, Vouching, CompletionIsPams
    <2>5. OnlyPamDecides' /\ SessionStillActive'
      BY <1>0, <2>1 DEF IInv, OnlyPamDecides, SessionStillActive
    <2> QED
      BY <1>0, <1>1, <1>2, <2>1, <2>3, <2>4, <2>5 DEF IInv
  <1> QED
    BY <1>3, <1>4

\* A session that changes can only add to what vouches for a decision.
LEMMA EnvironmentInductive ==
    ASSUME IInv, Environment \/ UNCHANGED vars
    PROVE  IInv'
  <1>1. TypeOK'
    BY TypeInductive DEF Next, IInv
  <1>2. UNCHANGED <<client, broker, child, wire>>
    BY DEF Environment, RequestCancel, ClientDeadline, BrokerDeadline, SessionChanges, vars
  <1>3. /\ pam'.decision = pam.decision
        /\ pam.vouched => pam'.vouched
        /\ Vouching'
    <2>1. CASE SessionChanges
      BY <2>1 DEF SessionChanges, IInv, TypeOK, Vouching
    <2>2. CASE ~SessionChanges
      <3>1. UNCHANGED <<pam, session>>
        BY <2>2 DEF Environment, RequestCancel, ClientDeadline, BrokerDeadline, vars
      <3> QED
        BY <3>1 DEF IInv, Vouching
    <2> QED
      BY <2>1, <2>2
  <1>4. /\ DecidesOnce' /\ Unspawned' /\ CompletionIsPams'
        /\ FromPam(wire["parent"], pam'.decision)
        /\ FromBroker(wire["client"], pam'.decision, pam'.vouched)
    BY <1>2, <1>3
       DEF IInv, DecidesOnce, Unspawned, CompletionIsPams, FromPam, FromBroker
  <1>5. OnlyPamDecides' /\ SessionStillActive'
    BY <1>2, <1>3 DEF IInv, OnlyPamDecides, SessionStillActive
  <1> QED
    BY <1>1, <1>2, <1>3, <1>4, <1>5 DEF IInv

\* IInv holds in every state of one verification.
THEOREM Inductive == Spec => []IInv
  <1>1. Init => IInv
    <2> SUFFICES ASSUME Init PROVE IInv
      OBVIOUS
    <2>1. TypeOK
      <3>1. 0 \in 0 .. MaxMessages
        BY SMTT(60), MessageBound
      <3>2. <<>> \in Seq(DaemonMessages) /\ <<>> \in Seq(VerifierMessages)
        BY SMTT(60)
      <3>3. QED
        BY <3>1, <3>2
           DEF Init, TypeOK, ClientSteps, BrokerSteps, ChildSteps, ConversationStates, Outcomes,
               NoResult
    <2>2. DecidesOnce /\ Unspawned /\ Vouching /\ CompletionIsPams /\ OnlyPamDecides
          /\ SessionStillActive
      BY DEF Init, DecidesOnce, Unspawned, Vouching, CompletionIsPams, OnlyPamDecides,
             SessionStillActive, NoResult
    <2>3. wire["parent"] = <<>> /\ wire["client"] = <<>>
      BY DEF Init
    <2>4. FromPam(<<>>, pam.decision) /\ FromBroker(<<>>, pam.decision, pam.vouched)
      BY SMTT(60) DEF FromPam, FromBroker
    <2> QED
      BY <2>1, <2>2, <2>3, <2>4 DEF IInv
  <1>2. IInv /\ [Next]_vars => IInv'
    BY ClientInductive, BrokerInductive, WorkerInductive, EnvironmentInductive
       DEF Next, WorkerAction
  <1> QED
    BY <1>1, <1>2, PTL DEF Spec

\* Every variable of a verification keeps its type.
THEOREM TypeCorrect == Spec => []TypeOK
  <1>1. IInv => TypeOK
    BY DEF IInv
  <1> QED
    BY <1>1, Inductive, PTL

\* run_verifier_service reports success or denial only when it is the decision
\* pam_authenticate and pam_acct_mgmt made, for any number of PAM messages.
THEOREM ReportsPam == Spec => []OnlyPamDecides
  <1>1. IInv => OnlyPamDecides
    BY DEF IInv
  <1> QED
    BY <1>1, Inductive, PTL

\* run_verifier_service reports success only when the session was active after
\* PAM had decided, for any number of PAM messages.
THEOREM SuccessVouched == Spec => []SessionStillActive
  <1>1. IInv => SessionStillActive
    BY DEF IInv
  <1> QED
    BY <1>1, Inductive, PTL

-----------------------------------------------------------------------------
(* The two conversations *)

\* The two ends of a connection, a on the daemon's side and b on the
\* verifier's, while both follow it: packets are under way in one direction
\* only, and once they have arrived the ends agree.
InStep(a, b, down, up) ==
    /\ \A i \in 1 .. Len(up) - 1 : up[i] = "status"
    /\ up # <<>> => a = "verifying" /\ down = <<>> /\ b = Advance(a, up[Len(up)])
    /\ down # <<>> => a = "verifying" /\ Len(down) = 1 /\ Advance(b, Head(down)) = a
    /\ up = <<>> /\ down = <<>> => a = b

\* What advance_verifier_conversation makes of the messages these peers send.
LEMMA AdvanceResults ==
    /\ Advance("awaiting_start", "start") = "verifying"
    /\ Advance("awaiting_secret", "secret") = "verifying"
    /\ Advance("verifying", "cancel") = "cancelled"
    /\ Advance("awaiting_secret", "cancel") = "cancelled"
    /\ Advance("verifying", "status") = "verifying"
    /\ Advance("verifying", "secret_required") = "awaiting_secret"
    /\ \A m \in Results : Advance("verifying", m) = "completed"
  BY DEF Advance, Results

\* A verifier that is verifying accepts a cancellation, and nothing else, from
\* the daemon.
LEMMA AdvanceDown ==
    ASSUME NEW m \in DaemonMessages
    PROVE  /\ Advance("verifying", m) # "verifying"
           /\ Advance("verifying", m) # "invalid" => m = "cancel"
           /\ Advance("awaiting_secret", m) # "invalid" => m \in {"secret", "cancel"}
           /\ Advance("awaiting_start", m) # "invalid" => m = "start"
  BY DEF Advance, Results, DaemonMessages

\* A daemon that is verifying accepts every message of the verifier.
LEMMA AdvanceUp ==
    ASSUME NEW m \in VerifierMessages
    PROVE  /\ Advance("verifying", m) # "invalid"
           /\ Advance("verifying", m) = "verifying" => m = "status"
  BY DEF Advance, Results, VerifierMessages

\* Receiving the only packet leaves none; receiving another keeps the last.
LEMMA TailEnd ==
    ASSUME NEW S, NEW s \in Seq(S), s # <<>>
    PROVE  /\ Len(s) = 1 => Tail(s) = <<>> /\ Head(s) = s[Len(s)]
           /\ Len(s) # 1 => /\ Tail(s) # <<>> /\ 1 \in 1 .. Len(s) - 1
                            /\ Tail(s)[Len(Tail(s))] = s[Len(s)]
           /\ \A i \in 1 .. Len(Tail(s)) - 1 : i + 1 \in 1 .. Len(s) - 1
           /\ \A i \in 1 .. Len(Tail(s)) : Tail(s)[i] = s[i + 1]
           /\ Head(s) = s[1] /\ Len(Tail(s)) = Len(s) - 1
  <1> DEFINE t == Tail(s)
  <1>1. /\ t \in Seq(S) /\ Len(t) = Len(s) - 1 /\ Len(s) \in Nat \ {0}
        /\ \A i \in 1 .. Len(t) : t[i] = s[i + 1]
    BY SMTT(60)
  <1>2. Head(s) = s[1]
    BY SMTT(60)
  <1> HIDE DEF t
  <1>3. t # <<>> => Len(t) \in Nat \ {0}
    BY SMTT(60), <1>1
  <1>4. t = <<>> => Len(t) = 0
    BY SMTT(60)
  <1> QED
    BY SMTT(60), <1>1, <1>2, <1>3, <1>4 DEF t

\* The daemon's side sends: nothing was under way.
LEMMA SendDown ==
    ASSUME NEW a, NEW b, NEW down \in Seq(DaemonMessages), NEW up \in Seq(VerifierMessages),
           NEW m \in DaemonMessages, InStep(a, b, down, up), a # "verifying",
           Advance(a, m) = "verifying"
    PROVE  InStep("verifying", b, Append(down, m), up) /\ a = b /\ down = <<>>
  <1>1. up = <<>> /\ down = <<>> /\ a = b
    BY DEF InStep
  <1>2. Append(down, m) # <<>> /\ Len(Append(down, m)) = 1 /\ Head(Append(down, m)) = m
    BY SMTT(60), <1>1
  <1> QED
    BY <1>1, <1>2 DEF InStep

\* The verifier's side receives, and agrees with the daemon's.
LEMMA ReceiveDown ==
    ASSUME NEW a, NEW b, NEW down \in Seq(DaemonMessages), NEW up \in Seq(VerifierMessages),
           InStep(a, b, down, up), down # <<>>
    PROVE  InStep(a, Advance(b, Head(down)), Tail(down), up)
  <1>1. up = <<>> /\ Len(down) = 1 /\ Advance(b, Head(down)) = a
    BY DEF InStep
  <1>2. Tail(down) = <<>>
    BY <1>1, TailEnd
  <1> QED
    BY <1>1, <1>2 DEF InStep

\* The verifier's side sends while it is verifying: nothing is on its way to it.
LEMMA SendUp ==
    ASSUME NEW a, NEW b, NEW down \in Seq(DaemonMessages), NEW up \in Seq(VerifierMessages),
           NEW m \in VerifierMessages, InStep(a, b, down, up), b = "verifying"
    PROVE  InStep(a, Advance(b, m), down, Append(up, m)) /\ down = <<>>
  <1>1. down = <<>>
    <2> SUFFICES ASSUME down # <<>> PROVE FALSE
      OBVIOUS
    <2>1. Head(down) \in DaemonMessages
      BY HeadElement
    <2> QED
      BY <2>1, AdvanceDown DEF InStep
  <1>2. a = "verifying" /\ (up # <<>> => up[Len(up)] = "status")
    <2>1. CASE up = <<>>
      BY <1>1, <2>1 DEF InStep
    <2>2. CASE up # <<>>
      <3>1. up[Len(up)] \in VerifierMessages
        BY SMTT(60), <2>2
      <3> QED
        BY <2>2, <3>1, AdvanceUp DEF InStep
    <2> QED
      BY <2>1, <2>2
  <1> DEFINE sent == Append(up, m)
  <1>3. /\ sent # <<>> /\ sent[Len(sent)] = m
        /\ \A i \in 1 .. Len(sent) - 1 : i \in 1 .. Len(up) /\ sent[i] = up[i]
    BY SMTT(60)
  <1>4. \A i \in 1 .. Len(up) : up[i] = "status"
    <2> TAKE i \in 1 .. Len(up)
    <2>1. CASE i = Len(up)
      BY SMTT(60), <1>2, <2>1
    <2>2. CASE i # Len(up)
      <3>1. i \in 1 .. Len(up) - 1
        BY SMTT(60), <2>2
      <3> QED
        BY <3>1 DEF InStep
    <2> QED
      BY <2>1, <2>2
  <1> HIDE DEF sent
  <1>5. \A i \in 1 .. Len(sent) - 1 : sent[i] = "status"
    BY <1>3, <1>4
  <1>6. InStep(a, Advance(b, m), down, sent)
    BY <1>1, <1>2, <1>3, <1>5 DEF InStep
  <1> QED
    BY <1>1, <1>6 DEF sent

\* The daemon's side receives, and nothing it refuses.
LEMMA ReceiveUp ==
    ASSUME NEW a, NEW b, NEW down \in Seq(DaemonMessages), NEW up \in Seq(VerifierMessages),
           InStep(a, b, down, up), up # <<>>
    PROVE  /\ InStep(Advance(a, Head(up)), b, down, Tail(up))
           /\ a = "verifying" /\ down = <<>>
  <1>1. a = "verifying" /\ down = <<>> /\ b = Advance(a, up[Len(up)])
    BY DEF InStep
  <1>2. CASE Len(up) = 1
    <2>1. Tail(up) = <<>> /\ Head(up) = up[Len(up)]
      BY <1>2, TailEnd
    <2> QED
      BY SMTT(60), <1>1, <2>1 DEF InStep
  <1>3. CASE Len(up) # 1
    <2>1. /\ Tail(up) # <<>> /\ Len(Tail(up)) = Len(up) - 1
          /\ Tail(up)[Len(Tail(up))] = up[Len(up)]
          /\ Head(up) = up[1] /\ 1 \in 1 .. Len(up) - 1
          /\ \A i \in 1 .. Len(Tail(up)) - 1 : i + 1 \in 1 .. Len(up) - 1 /\ Tail(up)[i] = up[i + 1]
      BY SMTT(60), <1>3, TailEnd
    <2>2. Head(up) = "status" /\ \A i \in 1 .. Len(Tail(up)) - 1 : Tail(up)[i] = "status"
      BY <2>1 DEF InStep
    <2>3. Advance(a, Head(up)) = "verifying"
      BY <1>1, <2>2, AdvanceResults
    <2> QED
      BY <1>1, <2>1, <2>2, <2>3 DEF InStep
  <1> QED
    BY <1>2, <1>3

\* A daemon's queue whose first packet the broker accepts, with nothing but
\* cancellations behind it.
Acceptable(b, down) ==
    /\ down # <<>> => Advance(b, Head(down)) # "invalid"
    /\ \A i \in 2 .. Len(down) : down[i] = "cancel"

\* A packet behind another one, or a first one.
LEMMA AcceptableSent ==
    ASSUME NEW b, NEW down \in Seq(DaemonMessages), NEW m \in DaemonMessages,
           Acceptable(b, down),
           down = <<>> => Advance(b, m) # "invalid",
           down # <<>> => m = "cancel"
    PROVE  Acceptable(b, Append(down, m))
  <1>1. CASE down = <<>>
    <2>1. Head(Append(down, m)) = m /\ Len(Append(down, m)) = 1
      BY SMTT(60), <1>1
    <2> QED
      BY SMTT(60), <1>1, <2>1 DEF Acceptable
  <1>2. CASE down # <<>>
    <2>1. /\ Head(Append(down, m)) = Head(down)
          /\ \A i \in 2 .. Len(Append(down, m)) :
                \/ i \in 2 .. Len(down) /\ Append(down, m)[i] = down[i]
                \/ Append(down, m)[i] = m
      BY SMTT(60), <1>2
    <2> QED
      BY <1>2, <2>1 DEF Acceptable
  <1> QED
    BY <1>1, <1>2

\* The packets behind the one the broker receives.
LEMMA AcceptableReceived ==
    ASSUME NEW b, NEW down \in Seq(DaemonMessages), down # <<>>, Acceptable(b, down),
           NEW c \in {"verifying", "awaiting_secret"}
    PROVE  Acceptable(c, Tail(down))
  <1>1. \A i \in 1 .. Len(Tail(down)) : i + 1 \in 2 .. Len(down) /\ Tail(down)[i] = down[i + 1]
    BY SMTT(60)
  <1>2. \A i \in 1 .. Len(Tail(down)) : Tail(down)[i] = "cancel"
    BY <1>1 DEF Acceptable
  <1>3. Tail(down) # <<>> => Head(Tail(down)) = Tail(down)[1] /\ 1 \in 1 .. Len(Tail(down))
    BY SMTT(60)
  <1>4. Advance(c, "cancel") # "invalid"
    BY AdvanceResults
  <1> QED
    BY SMTT(60), <1>2, <1>3, <1>4 DEF Acceptable

\* The state in which each process keeps its conversation at each of its steps.
ClientAt ==
    /\ client.pc = "connect" => client.conv = "awaiting_start"
    /\ client.pc \in {"loop", "poll"} => client.conv = "verifying"
    /\ client.pc \in {"prompt", "respond"} => client.conv = "awaiting_secret"

BrokerAt ==
    /\ broker.pc = "accept" => broker.daemon = "awaiting_start"
    /\ broker.pc \in {"accept", "authorize", "spawn", "start"} =>
           broker.worker = "awaiting_start"
    /\ broker.pc \notin {"accept", "secret", "done", "dead"} => broker.daemon = "verifying"
    /\ broker.pc = "secret" => /\ broker.daemon = "awaiting_secret"
                               /\ broker.worker = "awaiting_secret"

WorkerAt ==
    /\ child.pc \in {"none", "exec", "armed", "receive"} => child.conv = "awaiting_start"
    /\ child.pc \in {"pam", "complete"} => child.conv = "verifying"
    /\ child.pc = "prompt" => child.conv = "awaiting_secret"

\* The daemon's connection and the worker's.
DaemonLink == InStep(client.conv, broker.daemon, wire["broker"], wire["client"])
WorkerLink == InStep(broker.worker, child.conv, wire["child"], wire["parent"])

Conversing ==
    /\ ClientAt
    /\ BrokerAt
    /\ NoConversationError
    /\ ~ClientGone => DaemonLink
    /\ ~BrokerGone => WorkerAt /\ WorkerLink /\ Acceptable(broker.daemon, wire["broker"])

\* The types of the four queues.
LEMMA QueueTypes ==
    ASSUME TypeOK
    PROVE  /\ wire["broker"] \in Seq(DaemonMessages) /\ wire["child"] \in Seq(DaemonMessages)
           /\ wire["client"] \in Seq(VerifierMessages)
           /\ wire["parent"] \in Seq(VerifierMessages)
           /\ wire \in WireType /\ broker \in BrokerType /\ child \in ChildType
           /\ client \in [pc : ClientSteps, conv : ConversationStates, outcome : Outcomes]
  BY DEF TypeOK, WireType, BrokerType, ChildType

\* The client leaves, or moves within its loop: the conversations stay as they
\* are, but for the cancellation it may send.
LEMMA ClientLeaves ==
    ASSUME TypeOK, Conversing, UNCHANGED <<broker, child>>,
           \E outcome : Leave(outcome),
           \/ UNCHANGED wire
           \/ wire' = Sent("broker", "cancel") /\ ~ClientGone /\ client.pc # "connect" /\ ~BrokerGone
    PROVE  Conversing'
  <1>1. client'.pc = "done" /\ client'.conv = client.conv
    BY QueueTypes DEF Leave
  <1>2. ClientGone' /\ ClientAt' /\ BrokerAt' /\ NoConversationError'
    BY <1>1 DEF Conversing, ClientGone, ClientAt, BrokerAt, NoConversationError
  <1>3. CASE UNCHANGED wire
    BY <1>2, <1>3 DEF Conversing, BrokerGone, WorkerAt, WorkerLink
  <1>4. CASE wire' = Sent("broker", "cancel") /\ ~ClientGone /\ client.pc # "connect" /\ ~BrokerGone
    <2>1. /\ wire'["broker"] = Append(wire["broker"], "cancel")
          /\ wire'["child"] = wire["child"] /\ wire'["parent"] = wire["parent"]
      BY <1>4, QueueTypes DEF Sent, WireType
    <2>2. WorkerAt' /\ WorkerLink'
      BY <1>4, <2>1 DEF Conversing, WorkerAt, WorkerLink
    <2>3. wire["broker"] = <<>> => broker.daemon \in {"verifying", "awaiting_secret"}
      <3>1. client.conv \in {"verifying", "awaiting_secret"}
        BY <1>4, QueueTypes DEF Conversing, ClientGone, ClientAt, ClientSteps
      <3>2. broker.daemon \in {"awaiting_start", "verifying", "awaiting_secret"}
        BY <1>4, QueueTypes DEF Conversing, BrokerGone, BrokerAt, BrokerType, BrokerSteps
      <3>3. CASE wire["client"] = <<>>
        BY <1>4, <3>1, <3>3 DEF Conversing, DaemonLink, InStep
      <3>4. CASE wire["client"] # <<>>
        <4>1. /\ broker.daemon = Advance("verifying", wire["client"][Len(wire["client"])])
          BY <1>4, <3>4 DEF Conversing, DaemonLink, InStep
        <4>2. wire["client"][Len(wire["client"])] \in VerifierMessages
          BY SMTT(60), <3>4, QueueTypes
        <4>3. \A m \in VerifierMessages : Advance("verifying", m) # "awaiting_start"
          BY AdvanceResults DEF VerifierMessages
        <4> QED
          BY <3>2, <4>1, <4>2, <4>3
      <3> QED
        BY <3>3, <3>4
    <2>4. Acceptable(broker.daemon, Append(wire["broker"], "cancel"))
      BY <1>4, <2>3, QueueTypes, AcceptableSent, AdvanceResults DEF Conversing, DaemonMessages
    <2> QED
      BY <1>2, <2>1, <2>2, <2>4 DEF Conversing
  <1> QED
    BY <1>3, <1>4

\* The client sends its request or the secret: nothing else was under way.
LEMMA ClientSends ==
    ASSUME TypeOK, Conversing, UNCHANGED <<broker, child>>,
           NEW m \in {"start", "secret"}, wire' = Sent("broker", m), ~ClientGone, ~BrokerGone,
           m = "start" => client.conv = "awaiting_start",
           m = "secret" => client.conv = "awaiting_secret",
           ClientTo("loop", Advance(client.conv, m))
    PROVE  Conversing'
  <1>0. m \in DaemonMessages
    BY DEF DaemonMessages
  <1>1. Advance(client.conv, m) = "verifying" /\ client.conv # "verifying"
    BY AdvanceResults
  <1>2. client'.pc = "loop" /\ client'.conv = "verifying"
    BY <1>1, QueueTypes DEF ClientTo
  <1>3. /\ wire'["broker"] = Append(wire["broker"], m)
        /\ wire'["client"] = wire["client"]
        /\ wire'["child"] = wire["child"] /\ wire'["parent"] = wire["parent"]
    BY QueueTypes DEF Sent, WireType
  <1>4. /\ InStep("verifying", broker.daemon, Append(wire["broker"], m), wire["client"])
        /\ client.conv = broker.daemon /\ wire["broker"] = <<>>
    BY <1>0, <1>1, QueueTypes, SendDown DEF Conversing, DaemonLink
  <1>5. Acceptable(broker.daemon, Append(wire["broker"], m))
    BY <1>0, <1>1, <1>4, QueueTypes, AcceptableSent DEF Conversing
  <1>6. DaemonLink'
    BY <1>2, <1>3, <1>4 DEF DaemonLink
  <1>7. WorkerAt' /\ WorkerLink'
    BY <1>3 DEF Conversing, WorkerAt, WorkerLink
  <1>8. ClientAt' /\ BrokerAt' /\ NoConversationError'
    BY <1>2 DEF Conversing, ClientAt, BrokerAt, NoConversationError
  <1> QED
    BY <1>3, <1>5, <1>6, <1>7, <1>8 DEF Conversing

\* The client moves without sending or receiving.
LEMMA ClientMoves ==
    ASSUME TypeOK, Conversing, UNCHANGED <<broker, child, wire>>, ~ClientGone,
           NEW step, ClientTo(step, client.conv),
           \/ step \in {"loop", "poll"} /\ client.pc \in {"loop", "poll"}
           \/ step = "respond" /\ client.pc = "prompt"
    PROVE  Conversing'
  <1>1. client'.pc = step /\ client'.conv = client.conv
    BY QueueTypes DEF ClientTo
  <1>2. ClientAt' /\ BrokerAt' /\ NoConversationError'
    BY <1>1 DEF Conversing, ClientAt, BrokerAt, NoConversationError
  <1>3. DaemonLink' /\ (~BrokerGone' => WorkerAt' /\ WorkerLink')
    BY <1>1 DEF Conversing, DaemonLink, BrokerGone, WorkerAt, WorkerLink
  <1> QED
    BY <1>2, <1>3 DEF Conversing, BrokerGone

\* The client receives nothing its conversation refuses.
LEMMA ClientReceives ==
    ASSUME TypeOK, Conversing, ClientPoll, Pending("client")
    PROVE  Conversing'
  <1> DEFINE m == Head(wire["client"])
             next == Advance(client.conv, m)
  <1>0. ~ClientGone /\ UNCHANGED <<broker, child>>
    BY DEF ClientPoll, ClientGone
  <1>1. /\ InStep(next, broker.daemon, wire["broker"], Tail(wire["client"]))
        /\ client.conv = "verifying" /\ m \in VerifierMessages
    BY <1>0, QueueTypes, ReceiveUp, HeadElement DEF Conversing, DaemonLink, Pending
  <1>2. next # "invalid"
    BY <1>1, AdvanceUp
  <1>3. /\ wire'["client"] = Tail(wire["client"]) /\ wire'["broker"] = wire["broker"]
        /\ wire'["child"] = wire["child"] /\ wire'["parent"] = wire["parent"]
    BY QueueTypes DEF ClientPoll, Received, WireType
  <1>4. \/ ClientTo("loop", next) /\ m = "status"
        \/ ClientTo("prompt", next) /\ m = "secret_required"
        \/ client' = [client EXCEPT !.pc = "done", !.conv = next, !.outcome = m]
    <2>1. m \in {"status", "secret_required"} \cup Results
      BY <1>1 DEF VerifierMessages
    <2> QED
      BY <1>2, <2>1 DEF ClientPoll
  <1>5. m = "status" => next = "verifying"
    BY <1>1, AdvanceResults
  <1>6. m = "secret_required" => next = "awaiting_secret"
    BY <1>1, AdvanceResults
  <1> HIDE DEF m, next
  <1>7. /\ client'.conv = next
        /\ \/ client'.pc = "loop" /\ next = "verifying"
           \/ client'.pc = "prompt" /\ next = "awaiting_secret"
           \/ client'.pc = "done"
    BY <1>4, <1>5, <1>6, QueueTypes DEF ClientTo
  <1>8. ClientAt' /\ BrokerAt' /\ NoConversationError'
    BY <1>0, <1>2, <1>7 DEF Conversing, ClientAt, BrokerAt, NoConversationError
  <1>9. DaemonLink'
    BY <1>0, <1>1, <1>3, <1>7 DEF DaemonLink
  <1>10. ~BrokerGone' => WorkerAt' /\ WorkerLink'
    BY <1>0, <1>3 DEF Conversing, BrokerGone, WorkerAt, WorkerLink
  <1> QED
    BY <1>0, <1>3, <1>8, <1>9, <1>10 DEF Conversing, BrokerGone

\* The client's steps.
LEMMA ClientConverses ==
    ASSUME TypeOK, Conversing, ClientStep \/ ClientDies
    PROVE  Conversing'
  <1>0. UNCHANGED <<broker, child>>
    BY
       DEF ClientStep, Connect, ClientChecks, ClientPoll, PromptUser, Respond, ClientDies
  <1>1. CASE Connect
    <2>1. client.conv = "awaiting_start" /\ ~ClientGone
      BY <1>1 DEF Connect, Conversing, ClientAt, ClientGone
    <2> QED
      BY <1>0, <1>1, <2>1, ClientLeaves, ClientSends DEF Connect
  <1>2. CASE ClientChecks
    <2>1. client.pc = "loop" /\ ~ClientGone /\ client.pc # "connect"
      BY <1>2 DEF ClientChecks, ClientGone
    <2>2. \/ (\E outcome : Leave(outcome)) /\ (UNCHANGED wire \/ (wire' = Sent("broker", "cancel")
                                                                  /\ ~BrokerGone))
          \/ ClientTo("poll", client.conv) /\ UNCHANGED wire
      BY <1>2 DEF ClientChecks, CancelAndLeave
    <2> QED
      BY <1>0, <2>1, <2>2, ClientLeaves, ClientMoves
  <1>3. CASE ClientPoll
    <2>1. CASE Pending("client")
      BY <1>3, <2>1, ClientReceives
    <2>2. CASE ~Pending("client")
      <3>1. client.pc = "poll" /\ ~ClientGone /\ UNCHANGED wire
        BY <1>3, <2>2 DEF ClientPoll, ClientGone
      <3>2. ClientTo("loop", client.conv) \/ Leave("failed")
        BY <1>3, <2>2 DEF ClientPoll
      <3> QED
        BY <1>0, <3>1, <3>2, ClientLeaves, ClientMoves
    <2> QED
      BY <2>1, <2>2
  <1>4. CASE PromptUser
    <2>1. client.pc = "prompt" /\ ~ClientGone /\ UNCHANGED wire
      BY <1>4 DEF PromptUser, ClientGone
    <2>2. ClientTo("respond", client.conv) \/ \E outcome : Leave(outcome)
      BY <1>4 DEF PromptUser
    <2> QED
      BY <1>0, <2>1, <2>2, ClientLeaves, ClientMoves
  <1>5. CASE Respond
    <2>1. client.pc = "respond" /\ ~ClientGone /\ client.conv = "awaiting_secret"
      BY <1>5 DEF Respond, ClientGone, Conversing, ClientAt
    <2>2. \/ (\E outcome : Leave(outcome)) /\ (UNCHANGED wire \/ (wire' = Sent("broker", "cancel")
                                                                  /\ ~BrokerGone))
          \/ /\ ~BrokerGone /\ wire' = Sent("broker", "secret")
             /\ ClientTo("loop", Advance(client.conv, "secret"))
      BY <1>5 DEF Respond, CancelAndLeave
    <2> QED
      BY <1>0, <2>1, <2>2, ClientLeaves, ClientSends
  <1>6. CASE ClientDies
    BY <1>0, <1>6, ClientLeaves DEF ClientDies
  <1> QED
    BY <1>1, <1>2, <1>3, <1>4, <1>5, <1>6 DEF ClientStep

\* A broker that has ended or died keeps its states and leaves the queues.
LEMMA BrokerLeaves ==
    ASSUME TypeOK, Conversing, UNCHANGED <<client, wire>>,
           broker'.pc \in {"done", "dead"}, broker'.daemon = broker.daemon,
           broker'.worker = broker.worker
    PROVE  Conversing'
  <1>1. BrokerGone' /\ ClientAt' /\ BrokerAt' /\ NoConversationError'
    BY DEF Conversing, BrokerGone, ClientAt, BrokerAt, NoConversationError
  <1>2. ~ClientGone' => DaemonLink'
    BY DEF Conversing, ClientGone, DaemonLink
  <1> QED
    BY <1>1, <1>2 DEF Conversing

\* The same for the exits of run_pam_verifier_connection.
LEMMA BrokerEndsConverses ==
    ASSUME TypeOK, Conversing, UNCHANGED client, BrokerEnds
    PROVE  Conversing'
  <1>1. /\ broker'.pc = "done" /\ broker'.daemon = broker.daemon
        /\ broker'.worker = broker.worker /\ UNCHANGED wire
    BY QueueTypes DEF BrokerEnds, BrokerType
  <1> QED
    BY <1>1, BrokerLeaves

\* What the broker finds on the daemon's connection it accepts.
LEMMA DaemonAccepted ==
    ASSUME TypeOK, Conversing, ~BrokerGone, Pending("broker")
    PROVE  /\ Head(wire["broker"]) \in DaemonMessages
           /\ Advance(broker.daemon, Head(wire["broker"])) # "invalid"
  BY QueueTypes, HeadElement DEF Conversing, Acceptable, Pending

\* cancellation_requested meets a cancellation or nothing.
LEMMA CancelledConverses ==
    ASSUME TypeOK, Conversing, UNCHANGED client, ~BrokerGone, Cancelled,
           broker.daemon = "verifying" \/ (broker.daemon = "awaiting_secret"
                                           /\ Head(wire["broker"]) # "secret")
    PROVE  Conversing'
  <1>1. Advance(broker.daemon, Head(wire["broker"])) # "invalid"
        /\ Head(wire["broker"]) \in DaemonMessages
    BY DaemonAccepted DEF Cancelled
  <1>2. Head(wire["broker"]) = "cancel"
    BY SMTT(60), <1>1, AdvanceDown
  <1>3. BrokerEnds
    BY <1>2, AdvanceResults DEF Cancelled
  <1> QED
    BY <1>3, BrokerEndsConverses

\* The broker sends its last packet: the client, if it is there, is verifying.
LEMMA ToClientConverses ==
    ASSUME TypeOK, Conversing, UNCHANGED client, broker.daemon = "verifying",
           NEW m \in Results, ToClient(m, "done")
    PROVE  Conversing'
  <1>1. CASE ClientGone
    BY <1>1, BrokerEndsConverses DEF ToClient
  <1>2. CASE ~ClientGone
    <2>0. m \in VerifierMessages /\ Advance(broker.daemon, m) = "completed"
      BY AdvanceResults DEF VerifierMessages
    <2>1. /\ broker'.pc = "done" /\ broker'.daemon = Advance(broker.daemon, m)
          /\ broker'.worker = broker.worker
          /\ wire'["broker"] = wire["broker"] /\ wire'["client"] = Append(wire["client"], m)
      BY <1>2, QueueTypes DEF ToClient, Sent, WireType, BrokerType
    <2>2. DaemonLink'
      BY SMTT(60), <1>2, <2>0, <2>1, QueueTypes, SendUp DEF Conversing, DaemonLink
    <2>3. BrokerGone' /\ ClientAt' /\ BrokerAt' /\ NoConversationError'
      BY <2>0, <2>1 DEF Conversing, BrokerGone, ClientAt, BrokerAt, NoConversationError
    <2> QED
      BY <2>2, <2>3 DEF Conversing
  <1> QED
    BY <1>1, <1>2

\* The broker moves without sending or receiving.
LEMMA BrokerMoves ==
    ASSUME TypeOK, Conversing, ~BrokerGone, UNCHANGED <<client, wire>>,
           child'.conv = child.conv, WorkerAt',
           broker'.daemon = broker.daemon, broker'.worker = broker.worker,
           \/ broker.pc = "authorize" /\ broker'.pc = "spawn"
           \/ broker.pc = "spawn" /\ broker'.pc = "start"
           \/ /\ broker.pc \in {"drain", "checks", "wait", "recheck"}
              /\ broker'.pc \in {"drain", "checks", "wait", "recheck", "complete"}
    PROVE  Conversing'
  <1>1. ClientAt' /\ BrokerAt' /\ NoConversationError'
    BY DEF Conversing, ClientAt, BrokerAt, NoConversationError
  <1>2. (~ClientGone' => DaemonLink') /\ WorkerLink'
    BY DEF Conversing, ClientGone, DaemonLink, WorkerLink
  <1> QED
    BY <1>1, <1>2 DEF Conversing

\* receive_start: the first packet is the request.
LEMMA StartConverses ==
    ASSUME TypeOK, Conversing, ReceiveStart
    PROVE  Conversing'
  <1> DEFINE m == Head(wire["broker"])
             next == Advance(broker.daemon, m)
  <1>0. UNCHANGED client /\ ~BrokerGone /\ broker.daemon = "awaiting_start"
    BY DEF ReceiveStart, BrokerGone, Conversing, BrokerAt
  <1>1. CASE BrokerEnds
    BY <1>0, <1>1, BrokerEndsConverses
  <1>2. CASE ~BrokerEnds
    <2>1. Pending("broker") /\ m \in DaemonMessages /\ next # "invalid"
      BY <1>0, <1>2, DaemonAccepted DEF ReceiveStart, DaemonLost
    <2>2. next = "verifying"
      BY SMTT(60), <1>0, <2>1, AdvanceDown, AdvanceResults
    <2>3. /\ broker' = [broker EXCEPT !.pc = "authorize", !.daemon = next]
          /\ wire' = Received("broker")
          /\ UNCHANGED child
      BY <1>2, <2>1 DEF ReceiveStart, DaemonLost
    <2>4. /\ broker'.pc = "authorize" /\ broker'.daemon = next /\ broker'.worker = broker.worker
          /\ wire'["broker"] = Tail(wire["broker"]) /\ wire'["client"] = wire["client"]
          /\ wire'["child"] = wire["child"] /\ wire'["parent"] = wire["parent"]
      BY <2>3, QueueTypes DEF Received, WireType, BrokerType
    <2>5. wire["broker"] # <<>>
      BY <2>1 DEF Pending
    <2>6. ~ClientGone => InStep(client.conv, next, Tail(wire["broker"]), wire["client"])
      BY <2>5, QueueTypes, ReceiveDown DEF Conversing, DaemonLink
    <2>7. Acceptable(next, Tail(wire["broker"]))
      BY <1>0, <2>2, <2>5, QueueTypes, AcceptableReceived DEF Conversing
    <2> HIDE DEF m, next
    <2>8. ~ClientGone' => DaemonLink'
      BY <1>0, <2>4, <2>6 DEF ClientGone, DaemonLink
    <2>9. WorkerAt' /\ WorkerLink'
      BY <1>0, <2>3, <2>4 DEF Conversing, WorkerAt, WorkerLink
    <2>10. broker.worker = "awaiting_start"
      BY DEF ReceiveStart, Conversing, BrokerAt
    <2>11. ClientAt' /\ BrokerAt' /\ NoConversationError'
      BY <1>0, <2>2, <2>4, <2>10 DEF Conversing, ClientAt, BrokerAt, NoConversationError
    <2> QED
      BY <2>4, <2>7, <2>8, <2>9, <2>11 DEF Conversing
  <1> QED
    BY <1>1, <1>2

\* The broker starts the worker's conversation.
LEMMA SendStartConverses ==
    ASSUME TypeOK, Conversing, SendStart
    PROVE  Conversing'
  <1>0. /\ UNCHANGED <<client, child>> /\ ~BrokerGone /\ "start" \in DaemonMessages
        /\ broker.worker = "awaiting_start" /\ broker.daemon = "verifying"
    BY DEF SendStart, BrokerGone, Conversing, BrokerAt, DaemonMessages
  <1>1. Advance(broker.worker, "start") = "verifying"
    BY <1>0, AdvanceResults
  <1>2. /\ broker'.pc = "drain" /\ broker'.daemon = broker.daemon
        /\ broker'.worker = "verifying"
        /\ wire'["broker"] = wire["broker"] /\ wire'["client"] = wire["client"]
        /\ wire'["child"] = Append(wire["child"], "start") /\ wire'["parent"] = wire["parent"]
    BY <1>1, QueueTypes DEF SendStart, Sent, WireType, BrokerType
  <1>3. InStep("verifying", child.conv, Append(wire["child"], "start"), wire["parent"])
    BY <1>0, <1>1, QueueTypes, SendDown DEF Conversing, WorkerLink
  <1>4. WorkerLink' /\ WorkerAt' /\ (~ClientGone' => DaemonLink')
    BY <1>0, <1>2, <1>3 DEF Conversing, WorkerLink, WorkerAt, ClientGone, DaemonLink
  <1>5. ClientAt' /\ BrokerAt' /\ NoConversationError'
    BY <1>0, <1>2 DEF Conversing, ClientAt, BrokerAt, NoConversationError
  <1> QED
    BY <1>0, <1>2, <1>4, <1>5 DEF Conversing

\* receive_message passes a status or a prompt on.
LEMMA ForwardConverses ==
    ASSUME TypeOK, Conversing, UNCHANGED client, broker.pc = "drain", Pending("parent"),
           NEW m, m = Head(wire["parent"]), NEW step, Forward(m, step),
           (m = "status" /\ step = "drain") \/ (m = "secret_required" /\ step = "secret")
    PROVE  Conversing'
  <1>0. ~BrokerGone /\ broker.daemon = "verifying" /\ m \in VerifierMessages
    BY DEF BrokerGone, Conversing, BrokerAt, VerifierMessages
  <1>1. CASE ClientGone
    BY <1>1, BrokerEndsConverses DEF Forward
  <1>2. CASE ~ClientGone
    <2>1. wire["parent"] # <<>>
      BY DEF Pending
    <2>2. /\ InStep(Advance(broker.worker, m), child.conv, wire["child"], Tail(wire["parent"]))
          /\ broker.worker = "verifying"
      BY <1>0, <2>1, QueueTypes, ReceiveUp DEF Conversing, WorkerLink
    <2> DEFINE next == Advance("verifying", m)
    <2>3. /\ InStep(client.conv, next, wire["broker"], Append(wire["client"], m))
          /\ wire["broker"] = <<>>
      BY <1>0, <1>2, QueueTypes, SendUp DEF Conversing, DaemonLink
    <2>4. \/ step = "drain" /\ next = "verifying"
          \/ step = "secret" /\ next = "awaiting_secret"
      BY AdvanceResults
    <2>5. /\ broker' = [broker EXCEPT !.pc = step, !.daemon = next, !.worker = next]
          /\ wire' = [wire EXCEPT !["parent"] = Tail(@), !["client"] = Append(@, m)]
          /\ UNCHANGED child
      BY <1>0, <1>2, <2>2 DEF Forward
    <2> HIDE DEF next
    <2>6. /\ broker'.pc = step /\ broker'.daemon = next /\ broker'.worker = next
          /\ wire'["broker"] = wire["broker"] /\ wire'["client"] = Append(wire["client"], m)
          /\ wire'["child"] = wire["child"] /\ wire'["parent"] = Tail(wire["parent"])
      BY <2>5, QueueTypes DEF WireType, BrokerType
    <2>7. DaemonLink'
      BY <2>3, <2>6 DEF DaemonLink
    <2>8. WorkerLink' /\ WorkerAt'
      BY <1>0, <2>2, <2>5, <2>6 DEF Conversing, WorkerLink, WorkerAt, next
    <2>9. ClientAt' /\ BrokerAt' /\ NoConversationError'
      BY <2>4, <2>6 DEF Conversing, ClientAt, BrokerAt, NoConversationError
    <2>10. Acceptable(next, wire["broker"])
      BY SMTT(60), <2>3 DEF Acceptable
    <2> QED
      BY <2>6, <2>7, <2>8, <2>9, <2>10 DEF Conversing
  <1> QED
    BY <1>1, <1>2

\* The worker's packets are ones the broker's conversation accepts.
LEMMA DrainConverses ==
    ASSUME TypeOK, Conversing, Drain
    PROVE  Conversing'
  <1> DEFINE m == Head(wire["parent"])
  <1>0. UNCHANGED client /\ ~BrokerGone /\ broker.pc = "drain" /\ broker.daemon = "verifying"
    BY DEF Drain, BrokerGone, Conversing, BrokerAt
  <1>1. ASSUME Pending("parent")
        PROVE  /\ InStep(Advance(broker.worker, m), child.conv, wire["child"],
                         Tail(wire["parent"]))
               /\ broker.worker = "verifying" /\ m \in VerifierMessages
               /\ Advance(broker.worker, m) # "invalid"
    <2>1. /\ InStep(Advance(broker.worker, m), child.conv, wire["child"], Tail(wire["parent"]))
          /\ broker.worker = "verifying" /\ m \in VerifierMessages
      BY <1>0, <1>1, QueueTypes, ReceiveUp, HeadElement DEF Conversing, WorkerLink, Pending
    <2> QED
      BY <2>1, AdvanceUp
  <1>2. \/ BrokerEnds
        \/ Pending("parent") /\ m = "status" /\ Forward(m, "drain")
        \/ Pending("parent") /\ m = "secret_required" /\ Forward(m, "secret")
        \/ /\ Pending("parent") /\ m \in Results
           /\ broker' = [broker EXCEPT !.pc = "checks", !.completion = m,
                                       !.worker = "completed"]
           /\ wire' = Received("parent")
           /\ UNCHANGED child
        \/ broker' = [broker EXCEPT !.pc = "checks"] /\ UNCHANGED <<child, wire>>
    <2>1. Pending("parent") =>
              /\ m \in {"status", "secret_required"} \cup Results
              /\ Advance(broker.worker, m) # "invalid"
      BY <1>1 DEF VerifierMessages
    <2> QED
      BY <2>1 DEF Drain
  <1>3. CASE BrokerEnds
    BY <1>0, <1>3, BrokerEndsConverses
  <1>4. CASE Pending("parent") /\ m = "status" /\ Forward(m, "drain")
    BY <1>0, <1>4, ForwardConverses
  <1>5. CASE Pending("parent") /\ m = "secret_required" /\ Forward(m, "secret")
    BY <1>0, <1>5, ForwardConverses
  <1>6. CASE /\ Pending("parent") /\ m \in Results
             /\ broker' = [broker EXCEPT !.pc = "checks", !.completion = m,
                                         !.worker = "completed"]
             /\ wire' = Received("parent")
             /\ UNCHANGED child
    <2>1. InStep("completed", child.conv, wire["child"], Tail(wire["parent"]))
      BY <1>1, <1>6, AdvanceResults
    <2> HIDE DEF m
    <2>2. /\ broker'.pc = "checks" /\ broker'.daemon = broker.daemon
          /\ broker'.worker = "completed"
          /\ wire'["broker"] = wire["broker"] /\ wire'["client"] = wire["client"]
          /\ wire'["child"] = wire["child"] /\ wire'["parent"] = Tail(wire["parent"])
      BY <1>6, QueueTypes DEF Received, WireType, BrokerType
    <2>3. WorkerLink' /\ WorkerAt' /\ (~ClientGone' => DaemonLink')
      BY <1>0, <1>6, <2>1, <2>2 DEF Conversing, WorkerLink, WorkerAt, ClientGone, DaemonLink
    <2>4. ClientAt' /\ BrokerAt' /\ NoConversationError'
      BY <1>0, <2>2 DEF Conversing, ClientAt, BrokerAt, NoConversationError
    <2> QED
      BY <1>0, <2>2, <2>3, <2>4 DEF Conversing
  <1>7. CASE broker' = [broker EXCEPT !.pc = "checks"] /\ UNCHANGED <<child, wire>>
    <2>1. /\ broker'.pc = "checks" /\ broker'.daemon = broker.daemon
          /\ broker'.worker = broker.worker
      BY <1>7, QueueTypes DEF BrokerType
    <2>2. WorkerAt'
      BY <1>0, <1>7 DEF Conversing, WorkerAt
    <2> QED
      BY <1>0, <1>7, <2>1, <2>2, BrokerMoves
  <1> QED
    BY <1>2, <1>3, <1>4, <1>5, <1>6, <1>7

\* request_secret hands the answer to a prompt on, or ends by a cancellation.
LEMMA SecretConverses ==
    ASSUME TypeOK, Conversing, RequestSecret
    PROVE  Conversing'
  <1>0. /\ UNCHANGED client /\ ~BrokerGone
        /\ broker.daemon = "awaiting_secret" /\ broker.worker = "awaiting_secret"
        /\ "secret" \in DaemonMessages
    BY DEF RequestSecret, BrokerGone, Conversing, BrokerAt, DaemonMessages
  <1>1. CASE BrokerEnds
    BY <1>0, <1>1, BrokerEndsConverses
  <1>2. CASE Cancelled /\ Head(wire["broker"]) # "secret"
    BY <1>0, <1>2, CancelledConverses
  <1>3. CASE /\ Pending("broker") /\ Head(wire["broker"]) = "secret" /\ ~ChildGone
             /\ wire' = [wire EXCEPT !["broker"] = Tail(@), !["child"] = Append(@, "secret")]
             /\ broker' = [broker EXCEPT !.pc = "drain", !.daemon = Advance(@, "secret"),
                                         !.worker = Advance(@, "secret")]
             /\ UNCHANGED child
    <2>1. Advance("awaiting_secret", "secret") = "verifying" /\ wire["broker"] # <<>>
      BY <1>3, AdvanceResults DEF Pending
    <2>2. /\ broker'.pc = "drain" /\ broker'.daemon = "verifying"
          /\ broker'.worker = "verifying"
          /\ wire'["broker"] = Tail(wire["broker"]) /\ wire'["client"] = wire["client"]
          /\ wire'["child"] = Append(wire["child"], "secret")
          /\ wire'["parent"] = wire["parent"]
      BY <1>0, <1>3, <2>1, QueueTypes DEF WireType, BrokerType
    <2>3. ~ClientGone => InStep(client.conv, "verifying", Tail(wire["broker"]), wire["client"])
      BY SMTT(60), <1>0, <1>3, <2>1, QueueTypes, ReceiveDown DEF Conversing, DaemonLink
    <2>4. InStep("verifying", child.conv, Append(wire["child"], "secret"), wire["parent"])
      BY <1>0, <2>1, QueueTypes, SendDown DEF Conversing, WorkerLink
    <2>5. Acceptable("verifying", Tail(wire["broker"]))
      BY <1>0, <2>1, QueueTypes, AcceptableReceived DEF Conversing
    <2>6. WorkerLink' /\ WorkerAt' /\ (~ClientGone' => DaemonLink')
      BY <1>0, <1>3, <2>2, <2>3, <2>4
         DEF Conversing, WorkerLink, WorkerAt, ClientGone, DaemonLink
    <2>7. ClientAt' /\ BrokerAt' /\ NoConversationError'
      BY <1>0, <2>2 DEF Conversing, ClientAt, BrokerAt, NoConversationError
    <2> QED
      BY <2>2, <2>5, <2>6, <2>7 DEF Conversing
  <1> QED
    BY <1>1, <1>2, <1>3 DEF RequestSecret, DaemonLost

\* The broker's steps.
LEMMA BrokerConverses ==
    ASSUME IInv, Conversing, BrokerStep \/ BrokerDies
    PROVE  Conversing'
  <1>0. TypeOK /\ UNCHANGED client
    BY
       DEF IInv, BrokerStep, BrokerDies, ReceiveStart, Authorize, Spawn, SendStart, Drain,
           RequestSecret, BrokerChecks, ChildStatus, BrokerWaits, Recheck, Complete
  <1>r. "error" \in Results
    BY DEF Results
  <1>1. CASE ReceiveStart
    BY <1>0, <1>1, StartConverses
  <1>2. CASE Authorize
    <2>1. broker.pc = "authorize" /\ ~BrokerGone /\ broker.daemon = "verifying" /\ WorkerAt
      BY <1>2 DEF Authorize, BrokerGone, Conversing, BrokerAt
    <2>2. CASE ToClient("error", "done")
      BY <1>0, <1>r, <2>1, <2>2, ToClientConverses
    <2>3. CASE ~ToClient("error", "done")
      <3>1. broker' = [broker EXCEPT !.pc = "spawn"] /\ UNCHANGED <<child, wire>>
        BY <1>2, <2>3 DEF Authorize
      <3>2. /\ broker'.pc = "spawn" /\ broker'.daemon = broker.daemon
            /\ broker'.worker = broker.worker
        BY <1>0, <3>1, QueueTypes DEF BrokerType
      <3>3. WorkerAt'
        BY <2>1, <3>1 DEF WorkerAt
      <3> QED
        BY <1>0, <2>1, <3>1, <3>2, <3>3, BrokerMoves
    <2> QED
      BY <2>2, <2>3
  <1>3. CASE Spawn
    <2>1. broker.pc = "spawn" /\ ~BrokerGone /\ broker.daemon = "verifying" /\ WorkerAt
      BY <1>3 DEF Spawn, BrokerGone, Conversing, BrokerAt
    <2>2. CASE BrokerEnds
      BY <1>0, <2>2, BrokerEndsConverses
    <2>3. CASE Cancelled
      BY <1>0, <2>1, <2>3, CancelledConverses
    <2>4. CASE ~BrokerEnds /\ ~Cancelled
      <3>1. /\ child' = [child EXCEPT !.pc = "exec"] /\ UNCHANGED wire
            /\ broker' = [broker EXCEPT !.pc = "start"]
        BY <1>3, <2>4 DEF Spawn, DaemonLost
      <3>2. /\ broker'.pc = "start" /\ broker'.daemon = broker.daemon
            /\ broker'.worker = broker.worker
            /\ child'.pc = "exec" /\ child'.conv = child.conv
        BY <1>0, <3>1, QueueTypes DEF BrokerType, ChildType
      <3>3. child.pc = "none"
        BY <2>1 DEF IInv, Unspawned
      <3>4. WorkerAt'
        BY <2>1, <3>2, <3>3 DEF WorkerAt
      <3> QED
        BY <1>0, <2>1, <3>1, <3>2, <3>4, BrokerMoves
    <2> QED
      BY <2>2, <2>3, <2>4
  <1>4. CASE SendStart
    BY <1>0, <1>4, SendStartConverses
  <1>5. CASE Drain
    BY <1>0, <1>5, DrainConverses
  <1>6. CASE RequestSecret
    BY <1>0, <1>6, SecretConverses
  <1>7. CASE BrokerChecks
    <2>1. broker.pc = "checks" /\ ~BrokerGone /\ broker.daemon = "verifying" /\ WorkerAt
      BY <1>7 DEF BrokerChecks, BrokerGone, Conversing, BrokerAt
    <2>2. CASE BrokerEnds
      BY <1>0, <2>2, BrokerEndsConverses
    <2>3. CASE Cancelled
      BY <1>0, <2>1, <2>3, CancelledConverses
    <2>4. CASE ~BrokerEnds /\ ~Cancelled
      <3>1. broker' = [broker EXCEPT !.pc = "wait"] /\ UNCHANGED <<child, wire>>
        BY <1>7, <2>4 DEF BrokerChecks, DaemonLost
      <3>2. /\ broker'.pc = "wait" /\ broker'.daemon = broker.daemon
            /\ broker'.worker = broker.worker
        BY <1>0, <3>1, QueueTypes DEF BrokerType
      <3>3. WorkerAt'
        BY <2>1, <3>1 DEF WorkerAt
      <3> QED
        BY <1>0, <2>1, <3>1, <3>2, <3>3, BrokerMoves
    <2> QED
      BY <2>2, <2>3, <2>4
  <1>8. CASE ChildStatus
    <2>1. /\ broker.pc = "wait" /\ child.pc = "exited" /\ ~BrokerGone /\ WorkerAt
      BY <1>8 DEF ChildStatus, BrokerGone, Conversing
    <2>2. CASE BrokerEnds
      BY <1>0, <2>2, BrokerEndsConverses
    <2>3. CASE ~BrokerEnds
      <3>1. /\ broker'.pc \in {"recheck", "complete"} /\ broker'.daemon = broker.daemon
            /\ broker'.worker = broker.worker /\ UNCHANGED wire
            /\ child'.pc = "reaped" /\ child'.conv = child.conv
        BY <1>0, <1>8, <2>3, QueueTypes DEF ChildStatus, Reaped, BrokerType, ChildType
      <3>2. WorkerAt'
        BY <3>1 DEF WorkerAt
      <3> QED
        BY <1>0, <2>1, <3>1, <3>2, BrokerMoves
    <2> QED
      BY <2>2, <2>3
  <1>9. CASE BrokerWaits
    <2>1. broker.pc = "wait" /\ ~BrokerGone /\ WorkerAt
      BY <1>9 DEF BrokerWaits, BrokerGone, Conversing
    <2>2. CASE BrokerEnds
      BY <1>0, <2>2, BrokerEndsConverses
    <2>3. CASE ~BrokerEnds
      <3>1. broker' = [broker EXCEPT !.pc = "drain"] /\ UNCHANGED <<child, wire>>
        BY <1>9, <2>3 DEF BrokerWaits
      <3>2. /\ broker'.pc = "drain" /\ broker'.daemon = broker.daemon
            /\ broker'.worker = broker.worker
        BY <1>0, <3>1, QueueTypes DEF BrokerType
      <3>3. WorkerAt'
        BY <2>1, <3>1 DEF WorkerAt
      <3> QED
        BY <1>0, <2>1, <3>1, <3>2, <3>3, BrokerMoves
    <2> QED
      BY <2>2, <2>3
  <1>10. CASE Recheck
    <2>1. broker.pc = "recheck" /\ ~BrokerGone /\ broker.daemon = "verifying" /\ WorkerAt
      BY <1>10 DEF Recheck, BrokerGone, Conversing, BrokerAt
    <2>2. CASE ToClient("error", "done")
      BY <1>0, <1>r, <2>1, <2>2, ToClientConverses
    <2>3. CASE ~ToClient("error", "done")
      <3>1. broker' = [broker EXCEPT !.pc = "complete"] /\ UNCHANGED <<child, wire>>
        BY <1>10, <2>3 DEF Recheck
      <3>2. /\ broker'.pc = "complete" /\ broker'.daemon = broker.daemon
            /\ broker'.worker = broker.worker
        BY <1>0, <3>1, QueueTypes DEF BrokerType
      <3>3. WorkerAt'
        BY <2>1, <3>1 DEF WorkerAt
      <3> QED
        BY <1>0, <2>1, <3>1, <3>2, <3>3, BrokerMoves
    <2> QED
      BY <2>2, <2>3
  <1>11. CASE Complete
    <2>1. broker.pc = "complete" /\ broker.daemon = "verifying"
      BY <1>11 DEF Complete, Conversing, BrokerAt
    <2>2. broker.completion \in Results
      BY <1>0, <2>1, QueueTypes DEF IInv, CompletionIsPams, BrokerType
    <2> QED
      BY <1>0, <1>11, <2>1, <2>2, ToClientConverses DEF Complete
  <1>12. CASE BrokerDies
    <2>1. /\ broker'.pc = "dead" /\ broker'.daemon = broker.daemon
          /\ broker'.worker = broker.worker /\ UNCHANGED wire
      BY <1>0, <1>12, QueueTypes DEF BrokerDies, BrokerType
    <2> QED
      BY <1>0, <2>1, BrokerLeaves
  <1> QED
    BY <1>1, <1>2, <1>3, <1>4, <1>5, <1>6, <1>7, <1>8, <1>9, <1>10, <1>11, <1>12
       DEF BrokerStep

\* A step of the worker leaves the daemon's connection alone.
LEMMA WorkerFrames ==
    ASSUME TypeOK, Conversing, UNCHANGED <<client, broker>>,
           wire'["broker"] = wire["broker"], wire'["client"] = wire["client"],
           ~BrokerGone => WorkerAt' /\ WorkerLink'
    PROVE  Conversing'
  <1>1. ClientAt' /\ BrokerAt' /\ NoConversationError' /\ (~ClientGone' => DaemonLink')
    BY DEF Conversing, ClientAt, BrokerAt, NoConversationError, ClientGone, DaemonLink
  <1> QED
    BY <1>1 DEF Conversing, BrokerGone

\* The worker receives.
LEMMA WorkerReceives ==
    ASSUME TypeOK, Conversing, ~BrokerGone, UNCHANGED broker, Pending("child"),
           child.pc \in {"receive", "prompt"},
           ChildTo("pam", Advance(child.conv, Head(wire["child"]))), wire' = Received("child")
    PROVE  WorkerAt' /\ WorkerLink'
  <1> DEFINE next == Advance(child.conv, Head(wire["child"]))
  <1>0. wire["child"] # <<>> /\ WorkerLink
    BY DEF Pending, Conversing
  <1>1. InStep(broker.worker, next, Tail(wire["child"]), wire["parent"])
    BY <1>0, QueueTypes, ReceiveDown DEF WorkerLink
  <1>2. next = "verifying"
    BY <1>0 DEF WorkerLink, InStep
  <1> HIDE DEF next
  <1>3. /\ child'.pc = "pam" /\ child'.conv = next
        /\ wire'["child"] = Tail(wire["child"]) /\ wire'["parent"] = wire["parent"]
    BY QueueTypes DEF ChildTo, Received, WireType, ChildType, next
  <1> QED
    BY <1>1, <1>2, <1>3 DEF WorkerAt, WorkerLink

\* The worker sends while PAM runs.
LEMMA WorkerSends ==
    ASSUME TypeOK, Conversing, ~BrokerGone, UNCHANGED broker, NEW m \in VerifierMessages,
           child.pc \in {"pam", "complete"}, wire' = Sent("parent", m), NEW step,
           Advance(child.conv, m) = "invalid" \/ ChildTo(step, Advance(child.conv, m)),
           \/ m = "status" /\ step = "pam"
           \/ m = "secret_required" /\ step = "prompt"
           \/ m \in Results /\ step = "exiting"
    PROVE  WorkerAt' /\ WorkerLink'
  <1> DEFINE next == Advance(child.conv, m)
  <1>0. child.conv = "verifying" /\ WorkerLink
    BY DEF Conversing, WorkerAt
  <1>1. next # "invalid"
    BY <1>0, AdvanceUp
  <1>2. InStep(broker.worker, next, wire["child"], Append(wire["parent"], m))
    BY <1>0, QueueTypes, SendUp DEF WorkerLink
  <1>3. (step = "pam" => next = "verifying") /\ (step = "prompt" => next = "awaiting_secret")
    BY <1>0, AdvanceResults DEF Results
  <1>4. ChildTo(step, next)
    BY <1>1
  <1> HIDE DEF next
  <1>5. /\ child'.pc = step /\ child'.conv = next
        /\ wire'["child"] = wire["child"] /\ wire'["parent"] = Append(wire["parent"], m)
    BY <1>4, QueueTypes DEF ChildTo, Sent, WireType, ChildType
  <1> QED
    BY <1>2, <1>3, <1>5 DEF WorkerAt, WorkerLink

\* The worker moves without sending or receiving.
LEMMA WorkerMoves ==
    ASSUME TypeOK, Conversing, ~BrokerGone, UNCHANGED <<broker, wire>>, child'.conv = child.conv,
           \/ child'.pc = "exited"
           \/ child.pc = "exec" /\ child'.pc = "armed"
           \/ child.pc = "armed" /\ child'.pc = "receive"
           \/ child.pc = "pam" /\ child'.pc = "complete"
    PROVE  WorkerAt' /\ WorkerLink'
  BY DEF Conversing, WorkerAt, WorkerLink

\* The worker's steps.
LEMMA WorkerConverses ==
    ASSUME IInv, Conversing, WorkerAction
    PROVE  Conversing'
  <1>0. TypeOK /\ UNCHANGED <<client, broker>>
    BY
       DEF IInv, WorkerAction, ChildStep, ArmParentDeathSignal, CheckParent, ChildReceives,
           ReadSecret, SendCompletion, ChildExits, PamConverses, PamDecides, PamCrashes,
           ChildInterrupted
  <1>1. wire'["broker"] = wire["broker"] /\ wire'["client"] = wire["client"]
    BY <1>0, QueueTypes
       DEF WorkerAction, ChildStep, ArmParentDeathSignal, CheckParent, ChildReceives,
           ReadSecret, SendCompletion, ChildExits, PamConverses, PamDecides, PamCrashes,
           ChildInterrupted, ChildSays, Sent, Received, WireType
  <1> SUFFICES ASSUME ~BrokerGone PROVE WorkerAt' /\ WorkerLink'
    BY <1>0, <1>1, WorkerFrames
  <1>p. broker.pc # "dead"
    BY DEF BrokerGone
  <1>m. ASSUME NEW step, ChildTo(step, child.conv) PROVE child'.pc = step /\ child'.conv = child.conv
    BY <1>0, <1>m, QueueTypes DEF ChildTo, ChildType
  <1>r. ASSUME NEW status, ChildReturns(status) PROVE child'.pc = "exited" /\ child'.conv = child.conv
    BY <1>0, <1>r, QueueTypes DEF ChildReturns, ChildType
  <1>2. CASE ArmParentDeathSignal
    <2>1. child.pc = "exec" /\ child'.pc = "armed" /\ child'.conv = child.conv /\ UNCHANGED wire
      BY <1>0, <1>2, QueueTypes DEF ArmParentDeathSignal, ChildType
    <2> QED
      BY <1>0, <2>1, WorkerMoves
  <1>3. CASE CheckParent
    BY <1>0, <1>p, <1>m, <1>3, WorkerMoves DEF CheckParent
  <1>4. CASE ChildReceives
    BY <1>0, <1>4, WorkerReceives DEF ChildReceives
  <1>5. CASE ReadSecret
    BY <1>0, <1>5, WorkerReceives DEF ReadSecret
  <1>6. CASE SendCompletion
    <2>1. pam.decision \in Results /\ pam.decision \in VerifierMessages /\ child.pc = "complete"
      BY <1>6 DEF SendCompletion, IInv, TypeOK, CompletionIsPams, VerifierMessages
    <2>2. /\ wire' = Sent("parent", pam.decision)
          /\ \/ Advance(child.conv, pam.decision) = "invalid"
             \/ ChildTo("exiting", Advance(child.conv, pam.decision))
      BY <1>6 DEF SendCompletion
    <2> QED
      BY <1>0, <2>1, <2>2, WorkerSends
  <1>7. CASE ChildExits
    BY <1>0, <1>r, <1>7, WorkerMoves DEF ChildExits
  <1>8. CASE PamConverses
    <2>0. {"status", "secret_required"} \subseteq VerifierMessages
      BY DEF VerifierMessages
    <2>1. child.pc = "pam" /\ (ChildSays("status", "pam") \/ ChildSays("secret_required", "prompt"))
      BY <1>8 DEF PamConverses
    <2>2. CASE ChildSays("status", "pam")
      <3>1. /\ wire' = Sent("parent", "status")
            /\ \/ Advance(child.conv, "status") = "invalid"
               \/ ChildTo("pam", Advance(child.conv, "status"))
        BY <2>2 DEF ChildSays
      <3> QED
        BY <1>0, <2>0, <2>1, <3>1, WorkerSends
    <2>3. CASE ChildSays("secret_required", "prompt")
      <3>1. /\ wire' = Sent("parent", "secret_required")
            /\ \/ Advance(child.conv, "secret_required") = "invalid"
               \/ ChildTo("prompt", Advance(child.conv, "secret_required"))
        BY <2>3 DEF ChildSays
      <3> QED
        BY <1>0, <2>0, <2>1, <3>1, WorkerSends
    <2> QED
      BY <2>1, <2>2, <2>3
  <1>9. CASE PamDecides
    BY <1>0, <1>m, <1>9, WorkerMoves DEF PamDecides
  <1>10. CASE PamCrashes \/ ChildInterrupted
    BY <1>0, <1>r, <1>10, WorkerMoves DEF PamCrashes, ChildInterrupted
  <1> QED
    BY <1>2, <1>3, <1>4, <1>5, <1>6, <1>7, <1>8, <1>9, <1>10 DEF WorkerAction, ChildStep

\* The two conversations stay in step: every packet that can be under way is
\* one that advance_verifier_conversation accepts where it arrives.
THEOREM ConversationsInStep == Spec => []Conversing
  <1>1. Init => Conversing
    <2> SUFFICES ASSUME Init PROVE Conversing
      OBVIOUS
    <2>1. /\ client.pc = "connect" /\ client.conv = "awaiting_start"
          /\ broker.pc = "accept" /\ broker.daemon = "awaiting_start"
          /\ broker.worker = "awaiting_start"
          /\ child.pc = "none" /\ child.conv = "awaiting_start"
          /\ wire["broker"] = <<>> /\ wire["client"] = <<>>
          /\ wire["child"] = <<>> /\ wire["parent"] = <<>>
      BY DEF Init
    <2>2. ClientAt /\ BrokerAt /\ NoConversationError /\ WorkerAt
      BY <2>1 DEF ClientAt, BrokerAt, NoConversationError, WorkerAt
    <2>3. InStep("awaiting_start", "awaiting_start", <<>>, <<>>) /\ Acceptable("awaiting_start", <<>>)
      BY SMTT(60) DEF InStep, Acceptable
    <2>4. DaemonLink /\ WorkerLink /\ Acceptable(broker.daemon, wire["broker"])
      BY <2>1, <2>3 DEF DaemonLink, WorkerLink
    <2> QED
      BY <2>2, <2>4 DEF Conversing
  <1>2. IInv /\ Conversing /\ [Next]_vars => Conversing'
    <2> SUFFICES ASSUME IInv, Conversing, [Next]_vars PROVE Conversing'
      OBVIOUS
    <2>1. CASE ClientStep \/ ClientDies
      BY <2>1, ClientConverses DEF IInv
    <2>2. CASE BrokerStep \/ BrokerDies
      BY <2>2, BrokerConverses
    <2>3. CASE WorkerAction
      BY <2>3, WorkerConverses
    <2>4. CASE Environment \/ UNCHANGED vars
      <3>1. UNCHANGED <<client, broker, child, wire>>
        BY <2>4
           DEF Environment, RequestCancel, ClientDeadline, BrokerDeadline, SessionChanges, vars
      <3> QED
        BY <3>1
           DEF Conversing, ClientAt, BrokerAt, WorkerAt, NoConversationError, ClientGone,
               BrokerGone, DaemonLink, WorkerLink
    <2> QED
      BY <2>1, <2>2, <2>3, <2>4 DEF Next, WorkerAction
  <1> QED
    BY <1>1, <1>2, Inductive, PTL DEF Spec

\* Neither run_verifier_service nor run_pam_verifier_connection ever meets a
\* VerifierConversationError with these peers, for any number of PAM messages
\* and however cancellations, prompts, completions and crashes cross.
THEOREM ConversationsSound == Spec => []NoConversationError
  <1>1. Conversing => NoConversationError
    BY DEF Conversing
  <1> QED
    BY <1>1, ConversationsInStep, PTL
=============================================================================
