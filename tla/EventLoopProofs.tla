-------------------------- MODULE EventLoopProofs --------------------------
(***************************************************************************)
(* The event loop and its worker for any channels, agents, credentials,    *)
(* frames and requests.                                                    *)
(*                                                                         *)
(* The loop and the worker share no lock but the one of `completion'.      *)
(* What keeps them apart is that a worker exists exactly while a task is   *)
(* active; the invariant starts from there.  The rest of it follows the    *)
(* continuation state through an operation: whose it is, which channel may *)
(* use it, and that its copies agree with the store.                       *)
(***************************************************************************)
EXTENDS EventLoop, TLAPS

\* A leaf that names no prover is for Zenon.
USE ZenonT(60)

IsAssertion(packet) == packet.ok /\ packet.what = "assertion"

\* A worker runs exactly while a task is active, and works on that task, the
\* latest one accepted.
TaskIsActive ==
    /\ pc = "idle" <=> active = NoActive
    /\ pc # "idle" => /\ active.cid \in Channels
                      /\ active.generation = nextGeneration - 1 /\ nextGeneration > 1
                      /\ task.generation = active.generation
                      /\ task.cid = active.cid
    /\ active.discardResult <=> active.generation \in aborted

\* Who discards the result of a task also cancels it.
DiscardCancels == active.discardResult => active.cancelRequested

\* What the worker hands over is the result of its task, and it has none before.
ResultOfTask ==
    /\ pc = "done" => /\ completion.generation = task.generation
                      /\ completion.packet = result
    /\ pc \notin {"publish", "done"} => result = NoResult

\* The last packet is a keepalive only of the active task, before an abort.
KeepaliveIsActive ==
    wire.kind = "keepalive" =>
        pc # "idle" /\ wire.generation = active.generation /\ ~active.discardResult

\* Past handle()'s dispatch, only GetNextAssertion works with a sequence, that
\* of its own channel.
SequenceInUse ==
    pc \in {"context", "exclude", "interact", "commit"} =>
        /\ task.command \in {MakeCredential, GetAssertion, GetNextAssertion}
        /\ IF task.command = GetNextAssertion
           THEN pc \in {"context", "commit"} /\ sequence.origin \in {task.cid, NoCid}
           ELSE sequence = NoSequence

\* Whose sequence it is: of a channel whose last answer was, or will be, an
\* assertion.
SequenceOfAsserted ==
    ~active.discardResult /\ sequence.origin # NoCid =>
        IF pc \in {"publish", "done"}
        THEN \/ sequence.origin = task.cid /\ IsAssertion(result)
             \/ sequence.origin \in asserted \ {task.cid}
        ELSE sequence.origin \in asserted

\* For whom: the context the last GetAssertion was for.
SequenceOfContext ==
    /\ sequence.origin # NoCid => sequence.owner = granted /\ sequence.remaining # <<>>
    /\ pc \in {"exclude", "interact", "commit"} => user \in Contexts
    /\ pc = "commit" /\ task.command = GetNextAssertion => user = granted

\* Copies of different credentials that agree with the store.
Current(copies) ==
    /\ \A i \in 1 .. Len(copies) :
          /\ stored[copies[i].id] # NoCredential
          /\ copies[i].signCount = stored[copies[i].id].signCount
    /\ \A i, j \in 1 .. Len(copies) : copies[i].id = copies[j].id => i = j

CopiesCurrent ==
    /\ Current(sequence.remaining)
    /\ pc \notin {"publish", "done"} => Current(chosen)
    /\ pc = "commit" /\ task.command = GetNextAssertion =>
          /\ Len(chosen) = 1
          /\ \A i \in 1 .. Len(sequence.remaining) : sequence.remaining[i].id # chosen[1].id

\* What the worker has signed.
SignedAsStored ==
    IsAssertion(result) =>
        /\ result.id \in CredentialIds
        /\ stored[result.id] # NoCredential
        /\ result.count = stored[result.id].signCount
        /\ result.for = granted
        /\ stored[result.id].ownerUid = granted.uid

\* The counters sent are behind those of the store, and behind the one signed.
ReleasedBehind ==
    /\ \A id \in Contained(stored) : released[id] <= stored[id].signCount
    /\ IsAssertion(result) => released[result.id] < result.count

EInv ==
    /\ TypeOK
    /\ TaskIsActive
    /\ DiscardCancels
    /\ ResultOfTask
    /\ KeepaliveIsActive
    /\ AnsweredOnce
    /\ SequenceInUse
    /\ SequenceOfAsserted
    /\ SequenceOfContext
    /\ CopiesCurrent
    /\ SignedAsStored
    /\ ReleasedBehind


\* The counter of a credential of the store.
LEMMA StoredCount ==
    ASSUME stored \in StorageType, NEW id \in CredentialIds, stored[id] # NoCredential
    PROVE  /\ stored[id] \in StoredCredential
           /\ stored[id].signCount \in 0 .. MaxSignCount /\ stored[id].signCount \in Nat
<1>1. stored[id] \in StoredCredential
  BY DEF StorageType
<1>2. stored[id].signCount \in 0 .. MaxSignCount
  BY <1>1 DEF StoredCredential
<1>3. \A n \in 0 .. MaxSignCount : n \in Nat
  BY SMTT(60), SignCountBound
<1> QED
  BY <1>1, <1>2, <1>3

-----------------------------------------------------------------------------
(* What an iteration of the loop does to the state the invariant is about. *)

\* A reply of the loop itself, or none: neither the task nor the handler
\* changes.
Replies ==
    /\ UNCHANGED <<handlerVars, active, nextGeneration, history>>
    /\ wire' \in {wire, NoPacket}
    /\ allocated' \subseteq Channels

\* CTAPHID_CANCEL of the active task.
Cancels ==
    /\ active # NoActive \/ UNCHANGED active
    /\ active' \in {active, [active EXCEPT !.cancelRequested = TRUE]}
    /\ UNCHANGED <<store, context, sequence, worker, completion, nextGeneration, history,
                   allocated, wire>>

\* CTAPHID_INIT of a channel while no task is active.
Resets ==
    /\ active = NoActive
    /\ sequence' = NoSequence
    /\ asserted' \subseteq asserted
    /\ wire' = NoPacket
    /\ UNCHANGED <<store, context, worker, completion, active, nextGeneration,
                   allocated, answers, aborted, released, granted>>

\* CTAPHID_INIT of the active channel.
Aborts ==
    /\ active # NoActive
    /\ active' = [active EXCEPT !.cancelRequested = TRUE, !.discardResult = TRUE]
    /\ aborted' = aborted \cup {active.generation}
    /\ asserted' \subseteq asserted
    /\ wire' = NoPacket
    /\ UNCHANGED <<store, context, sequence, worker, completion, nextGeneration,
                   allocated, answers, released, granted>>

\* A CBOR request on an idle device.
Accepts ==
    \E c \in Channels :
        /\ active = NoActive
        /\ nextGeneration <= MaxRequests
        /\ nextGeneration' = nextGeneration + 1
        /\ active' = [NoActive EXCEPT !.cid = c, !.generation = nextGeneration]
        /\ \E command, size : task' = [generation |-> nextGeneration, cid |-> c,
                                       command |-> command, size |-> size]
        /\ pc' = "begin"
        /\ UNCHANGED <<store, context, sequence, user, chosen, result, completion,
                       allocated, wire, history>>

LoopStep == Replies \/ Cancels \/ Resets \/ Aborts \/ Accepts

\* What stays a record with a channel.
Shaped == DOMAIN incoming = DOMAIN NoReport /\ incoming.cid \in Cids \cup {NoChannel}
Typed == Shaped /\ phase \in {"running", "stopping", "stopped"}

\* The report of a message is on the channel of the frame that completed it.
LEMMA ReportOfFrame ==
    ASSUME Shaped, NEW f, f.cid \in Cids, NEW a, NEW al
    PROVE  LET o == Process(f, a, al)
           IN  /\ DOMAIN o.incoming = DOMAIN NoReport
               /\ o.incoming.cid \in Cids \cup {NoChannel}
               /\ o.result.kind = "report" => o.result.report.cid = f.cid
<1> DEFINE Good(r) == DOMAIN r = DOMAIN NoReport /\ r.cid \in Cids \cup {NoChannel}
<1>1. Good(NoReport) /\ Good(incoming)
  BY DEF NoReport, Shaped
<1>2. Started(f).cid = f.cid /\ Good(Started(f))
  BY DEF Started, NoReport
<1>3. "cid" \in DOMAIN NoReport
  BY DEF NoReport
<1>4. Extended(f).cid = incoming.cid /\ Good(Extended(f))
  BY <1>1, <1>3 DEF Extended, Shaped
<1> HIDE DEF Good
<1>5. ASSUME NEW r, Good(r)
      PROVE  /\ Good(Advance(r).incoming)
             /\ Advance(r).result.kind = "report" => Advance(r).result.report.cid = r.cid
  BY <1>1, <1>5 DEF Advance, Outcome, Completed, Nothing
<1>6. CASE f.initial
  <2>1. /\ Good(Process(f, a, al).incoming)
        /\ Process(f, a, al).result.kind = "report" => Process(f, a, al).result.report.cid = f.cid
    BY <1>1, <1>2, <1>5, <1>6 DEF Process, ProcessInitial, Outcome, Failed, Nothing
  <2> QED
    BY <2>1 DEF Good
<1>7. CASE ~f.initial
  <2>1. /\ Good(Process(f, a, al).incoming)
        /\ Process(f, a, al).result.kind = "report" => Process(f, a, al).result.report.cid = f.cid
    BY <1>1, <1>4, <1>5, <1>7 DEF Process, ProcessContinuation, Continues, Outcome, Failed, Nothing
  <2> QED
    BY <2>1 DEF Good
<1> QED
  BY <1>6, <1>7

\* A complete message, by its command.
LEMMA ReportCases == ASSUME EInv, NEW r, r.cid \in Cids, HandleReport(r) PROVE LoopStep
<1>1. active.cid = r.cid => active # NoActive
  BY SMTT(60), NoChannelIsNone DEF NoActive
<1>2. CASE HandleCancel(r)
  BY <1>1, <1>2 DEF HandleCancel, LoopStep, Cancels
<1>3. CASE SendError(r.cid)
  BY <1>3 DEF SendError, SendOther, LoopStep, Replies, EInv, TypeOK
<1>4. CASE HandleInit(r)
  <2>0. allocated \subseteq Channels
    BY DEF EInv, TypeOK
  <2>1. CASE r.cid = CTAPHID_BROADCAST_CID /\ ~SendError(r.cid)
    BY <1>4, <2>0, <2>1 DEF HandleInit, SendOther, LoopStep, Replies
  <2>2. CASE r.cid # CTAPHID_BROADCAST_CID /\ ~SendError(r.cid) /\ active.cid = r.cid
    BY <1>1, <1>4, <2>2 DEF HandleInit, Abort, SendOther, LoopStep, Aborts
  <2>3. CASE r.cid # CTAPHID_BROADCAST_CID /\ ~SendError(r.cid) /\ active.cid # r.cid
    BY <1>4, <2>3 DEF HandleInit, SendOther, LoopStep, Resets
  <2> QED
    BY <1>3, <2>1, <2>2, <2>3
<1>5. CASE HandleCBOR(r) /\ r.cid \in allocated /\ active = NoActive
  BY <1>3, <1>5 DEF HandleCBOR, LoopStep, Accepts, EInv, TypeOK
<1>6. CASE SendOther /\ UNCHANGED <<handlerVars, allocated, active, nextGeneration, history>>
  BY <1>6 DEF SendOther, LoopStep, Replies, EInv, TypeOK
<1> QED
  BY <1>2, <1>3, <1>4, <1>5, <1>6 DEF HandleReport

\* An iteration that handles a frame.
LEMMA FrameCases ==
    ASSUME EInv, NEW f \in InitialFrames \cup ContinuationFrames, HandleFrame(f)
    PROVE  LoopStep /\ Typed'
<1>1. f.cid \in Cids
  BY SMTT(60) DEF InitialFrames, ContinuationFrames
<1> DEFINE outcome == Process(f, active.cid, allocated)
<1>2. /\ DOMAIN outcome.incoming = DOMAIN NoReport
      /\ outcome.incoming.cid \in Cids \cup {NoChannel}
      /\ outcome.result.kind = "report" => outcome.result.report.cid \in Cids
  <2>1. Shaped
    BY DEF EInv, TypeOK, Shaped
  <2> QED
    BY SMTT(60), <1>1, <2>1, ReportOfFrame
<1>3. incoming' = outcome.incoming /\ phase' = phase
  BY DEF HandleFrame
<1>4. Typed'
  BY <1>2, <1>3 DEF EInv, TypeOK, Typed, Shaped
<1>5. \/ SendError(outcome.result.cid)
      \/ outcome.result.kind = "report" /\ HandleReport(outcome.result.report)
      \/ UNCHANGED <<handlerVars, allocated, active, nextGeneration, wire, history>>
  BY  DEF HandleFrame
<1> HIDE DEF outcome
<1>6. CASE SendError(outcome.result.cid)
  BY <1>4, <1>6 DEF SendError, SendOther, LoopStep, Replies, EInv, TypeOK
<1>7. CASE UNCHANGED <<handlerVars, allocated, active, nextGeneration, wire, history>>
  BY <1>4, <1>7 DEF LoopStep, Replies, EInv, TypeOK
<1> QED
  BY <1>2, <1>4, <1>5, <1>6, <1>7, ReportCases

-----------------------------------------------------------------------------
(* The steps of the loop.                                                  *)

\* The state the invariant is about does not change.
LEMMA RepliesInductive == ASSUME EInv, Typed', Replies PROVE EInv'
<1>1. UNCHANGED <<stored, generation, context, sequence, task, pc, user, chosen, result, completion,
                  active, nextGeneration, answers, aborted, asserted, released, granted>>
  BY  DEF Replies, handlerVars, store, worker, history
<1>2. TypeOK' /\ TaskIsActive' /\ DiscardCancels' /\ ResultOfTask'
  BY <1>1
     DEF EInv, TypeOK, Typed, Shaped, Replies, TaskIsActive, DiscardCancels, ResultOfTask
<1>3. wire' = wire \/ wire'.kind # "keepalive"
  BY SMTT(60) DEF Replies, NoPacket, Packet
<1>4. KeepaliveIsActive' /\ AnsweredOnce'
  BY <1>1, <1>3 DEF EInv, KeepaliveIsActive, AnsweredOnce
<1>5. SequenceInUse' /\ SequenceOfAsserted' /\ SequenceOfContext'
  BY <1>1 DEF EInv, SequenceInUse, SequenceOfAsserted, SequenceOfContext
<1>6. CopiesCurrent' /\ SignedAsStored' /\ ReleasedBehind'
  BY <1>1 DEF EInv, CopiesCurrent, Current, SignedAsStored, ReleasedBehind, Contained
<1> QED
  BY <1>2, <1>4, <1>5, <1>6 DEF EInv

\* A cancellation only marks the task and the stop token.
LEMMA CancelsInductive == ASSUME EInv, Typed', Cancels PROVE EInv'
<1>1. UNCHANGED <<stored, generation, context, sequence, task, pc, user, chosen, result, completion,
                  nextGeneration, answers, aborted, asserted, released, granted, allocated, wire>>
  BY  DEF Cancels, store, worker, history
<1>2. active \in [cid : Channels \cup {NoChannel}, generation : 0 .. MaxRequests,
                  cancelRequested : BOOLEAN, discardResult : BOOLEAN]
  BY DEF EInv, TypeOK
<1>3. /\ active'.cid = active.cid /\ active'.generation = active.generation
      /\ active'.discardResult = active.discardResult
      /\ active.cancelRequested => active'.cancelRequested
      /\ active' \in [cid : Channels \cup {NoChannel}, generation : 0 .. MaxRequests,
                      cancelRequested : BOOLEAN, discardResult : BOOLEAN]
  BY <1>2 DEF Cancels
<1>4. active' = NoActive <=> active = NoActive
  BY SMTT(60) DEF Cancels, NoActive
<1>5. TypeOK' /\ TaskIsActive' /\ DiscardCancels' /\ ResultOfTask'
  BY <1>1, <1>3, <1>4
     DEF EInv, TypeOK, Typed, Shaped, TaskIsActive, DiscardCancels, ResultOfTask
<1>6. KeepaliveIsActive' /\ AnsweredOnce'
  BY <1>1, <1>3 DEF EInv, KeepaliveIsActive, AnsweredOnce
<1>7. SequenceInUse' /\ SequenceOfAsserted' /\ SequenceOfContext'
  BY <1>1, <1>3 DEF EInv, SequenceInUse, SequenceOfAsserted, SequenceOfContext
<1>8. CopiesCurrent' /\ SignedAsStored' /\ ReleasedBehind'
  BY <1>1 DEF EInv, CopiesCurrent, Current, SignedAsStored, ReleasedBehind, Contained
<1> QED
  BY <1>5, <1>6, <1>7, <1>8 DEF EInv

\* NoSequence names no channel and holds no copies.
LEMMA NoSequenceFields ==
    /\ NoSequence \in [origin : Channels \cup {NoCid}, owner : Contexts \cup {NoContext},
                       remaining : Seq(Copies)]
    /\ NoSequence.origin = NoCid /\ NoSequence.remaining = <<>>
BY SMTT(60) DEF NoSequence

\* No copies are current ones.
LEMMA NoCopies == ASSUME sequence' = NoSequence PROVE Current(sequence.remaining)'
BY SMTT(60) DEF NoSequence, Current

\* INIT on an idle device.
LEMMA ResetsInductive == ASSUME EInv, Typed', Resets PROVE EInv'
<1>1. UNCHANGED <<stored, generation, context, task, pc, user, chosen, result, completion,
                  nextGeneration, answers, aborted, released, granted, allocated, active>>
  BY  DEF Resets, store, worker
<1>2. /\ sequence' = NoSequence /\ wire'.kind # "keepalive" /\ pc = "idle"
      /\ asserted' \subseteq Channels
  BY DEF Resets, NoPacket, Packet, EInv, TaskIsActive, TypeOK
<1>3. TypeOK' /\ TaskIsActive' /\ DiscardCancels' /\ ResultOfTask'
  BY <1>1, <1>2, NoSequenceFields
     DEF EInv, TypeOK, Typed, Shaped, TaskIsActive, DiscardCancels, ResultOfTask
<1>4. KeepaliveIsActive' /\ AnsweredOnce'
  BY <1>1, <1>2 DEF EInv, KeepaliveIsActive, AnsweredOnce
<1>5. SequenceInUse' /\ SequenceOfAsserted' /\ SequenceOfContext'
  BY <1>1, <1>2, NoSequenceFields
     DEF EInv, SequenceInUse, SequenceOfAsserted, SequenceOfContext
<1>6. CopiesCurrent' /\ SignedAsStored' /\ ReleasedBehind'
  <2>1. Current(sequence.remaining)'
    BY <1>2, NoCopies
  <2> QED
    BY <1>1, <1>2, <2>1
       DEF EInv, CopiesCurrent, Current, SignedAsStored, ReleasedBehind, Contained
<1> QED
  BY <1>3, <1>4, <1>5, <1>6 DEF EInv

\* INIT on the active channel.
LEMMA AbortsInductive == ASSUME EInv, Typed', Aborts PROVE EInv'
<1>1. UNCHANGED <<stored, generation, context, sequence, task, pc, user, chosen, result, completion,
                  nextGeneration, answers, released, granted, allocated>>
  BY  DEF Aborts, store, worker
<1>2. active \in [cid : Channels \cup {NoChannel}, generation : 0 .. MaxRequests,
                  cancelRequested : BOOLEAN, discardResult : BOOLEAN]
  BY DEF EInv, TypeOK
<1>3. /\ active'.cid = active.cid /\ active'.generation = active.generation
      /\ active'.discardResult /\ active'.cancelRequested
      /\ active' # NoActive /\ active # NoActive
      /\ active' \in [cid : Channels \cup {NoChannel}, generation : 0 .. MaxRequests,
                      cancelRequested : BOOLEAN, discardResult : BOOLEAN]
  BY <1>2 DEF Aborts, NoActive
<1>4. /\ aborted' = aborted \cup {active.generation} /\ aborted' \subseteq 1 .. nextGeneration' - 1
      /\ asserted' \subseteq Channels
  <2>1. /\ active.generation = nextGeneration - 1 /\ nextGeneration > 1
        /\ aborted \subseteq 1 .. nextGeneration - 1 /\ asserted \subseteq Channels
        /\ nextGeneration \in 1 .. MaxRequests + 1
    BY <1>3 DEF EInv, TypeOK, TaskIsActive
  <2>2. aborted' = aborted \cup {active.generation} /\ asserted' \subseteq asserted
    BY DEF Aborts
  <2>3. active.generation \in 1 .. nextGeneration - 1
    BY SMTT(60), <2>1, LoopBounds
  <2> QED
    BY <1>1, <2>1, <2>2, <2>3
<1>5. wire'.kind # "keepalive"
  BY DEF Aborts, NoPacket, Packet
<1>6. TypeOK' /\ TaskIsActive' /\ DiscardCancels' /\ ResultOfTask'
  BY <1>1, <1>3, <1>4
     DEF EInv, TypeOK, Typed, Shaped, TaskIsActive, DiscardCancels, ResultOfTask
<1>7. KeepaliveIsActive' /\ AnsweredOnce'
  BY <1>1, <1>3, <1>4, <1>5 DEF EInv, KeepaliveIsActive, AnsweredOnce
<1>8. SequenceInUse' /\ SequenceOfAsserted' /\ SequenceOfContext'
  BY <1>1, <1>3 DEF EInv, SequenceInUse, SequenceOfAsserted, SequenceOfContext
<1>9. CopiesCurrent' /\ SignedAsStored' /\ ReleasedBehind'
  BY <1>1 DEF EInv, CopiesCurrent, Current, SignedAsStored, ReleasedBehind, Contained
<1> QED
  BY <1>6, <1>7, <1>8, <1>9 DEF EInv

\* A CBOR request starts a worker.
LEMMA AcceptsInductive == ASSUME EInv, Typed', Accepts PROVE EInv'
<1>1. UNCHANGED <<stored, generation, context, sequence, user, chosen, result, completion,
                  answers, aborted, asserted, released, granted, allocated, wire>>
  BY  DEF Accepts, store, history
<1>2. PICK c \in Channels :
        /\ active = NoActive
        /\ nextGeneration <= MaxRequests /\ nextGeneration' = nextGeneration + 1
        /\ active' = [NoActive EXCEPT !.cid = c, !.generation = nextGeneration]
        /\ \E command, size : task' = [generation |-> nextGeneration, cid |-> c,
                                       command |-> command, size |-> size]
  BY  DEF Accepts
<1>3. pc = "idle" /\ pc' = "begin"
  BY <1>2 DEF Accepts, EInv, TaskIsActive
<1>4. nextGeneration \in Nat /\ nextGeneration \in Generations /\ nextGeneration' \in 1 .. MaxRequests + 1
  <2>1. nextGeneration \in 1 .. MaxRequests + 1
    BY DEF EInv, TypeOK
  <2> QED
    BY SMTT(60), <1>2, <2>1, LoopBounds DEF Generations
<1>5. task'.generation = nextGeneration /\ task'.cid = c
  BY SMTT(60), <1>2
<1>6. active' = [cid |-> c, generation |-> nextGeneration,
                 cancelRequested |-> FALSE, discardResult |-> FALSE]
  BY <1>2 DEF NoActive
<1>7. active' # NoActive /\ active.generation = 0 /\ ~active.discardResult
  BY SMTT(60), <1>2, <1>4, <1>6 DEF NoActive, Generations
<1>8. nextGeneration \notin aborted /\ aborted' \subseteq 1 .. nextGeneration' - 1
  <2>1. aborted \subseteq 1 .. nextGeneration - 1
    BY DEF EInv, TypeOK
  <2> QED
    BY SMTT(60), <1>1, <1>2, <1>4, <2>1
<1>9. active' \in [cid : Channels \cup {NoChannel}, generation : 0 .. MaxRequests,
                   cancelRequested : BOOLEAN, discardResult : BOOLEAN]
  BY SMTT(60), <1>4, <1>6, LoopBounds DEF Generations
<1>10. TypeOK'
  BY <1>1, <1>3, <1>4, <1>8, <1>9 DEF EInv, TypeOK, Typed, Shaped
<1>11. TaskIsActive'
  BY SMTT(60), <1>1, <1>2, <1>3, <1>4, <1>5, <1>6, <1>7, <1>8 DEF TaskIsActive, Generations
<1>12. DiscardCancels' /\ ResultOfTask' /\ KeepaliveIsActive'
  BY <1>1, <1>3, <1>6 DEF EInv, DiscardCancels, ResultOfTask, KeepaliveIsActive
<1>13. AnsweredOnce'
  <2>1. (1 .. nextGeneration' - 1) \ (aborted' \cup {active'.generation}) =
            (1 .. nextGeneration - 1) \ (aborted \cup {active.generation})
    BY SMTT(60), <1>1, <1>2, <1>4, <1>6, <1>7
  <2> QED
    BY <1>1, <2>1 DEF EInv, AnsweredOnce
<1>14. SequenceInUse' /\ SequenceOfAsserted' /\ SequenceOfContext'
  BY <1>1, <1>3, <1>7 DEF EInv, SequenceInUse, SequenceOfAsserted, SequenceOfContext
<1>15. CopiesCurrent' /\ SignedAsStored' /\ ReleasedBehind'
  BY <1>1, <1>3
     DEF EInv, CopiesCurrent, Current, SignedAsStored, ReleasedBehind, Contained
<1> QED
  BY <1>10, <1>11, <1>12, <1>13, <1>14, <1>15 DEF EInv

\* The message being assembled is given up.
LEMMA ExpireInductive == ASSUME EInv, Expire PROVE EInv'
<1>1. incoming' = NoReport /\ phase' = phase
  BY DEF Expire, Expired, Outcome
<1>2. Typed'
  BY <1>1 DEF EInv, TypeOK, Typed, Shaped, NoReport
<1>3. Replies
  BY  DEF Expire, SendError, SendOther, Replies, EInv, TypeOK
<1> QED
  BY <1>2, <1>3, RepliesInductive

\* A keepalive is sent for the active task.
LEMMA KeepaliveInductive == ASSUME EInv, Keepalive PROVE EInv'
<1>1. UNCHANGED <<stored, generation, context, sequence, task, pc, user, chosen, result, completion,
                  active, nextGeneration, answers, aborted, asserted, released, granted, incoming,
                  allocated, phase>>
  BY  DEF Keepalive, handlerVars, store, worker, history
<1>2. active # NoActive /\ ~active.cancelRequested
  BY DEF Keepalive
<1>3. wire'.generation = active.generation
  BY DEF Keepalive, Packet
<1>10. Typed'
  BY <1>1 DEF EInv, TypeOK, Typed, Shaped
<1>4. TypeOK' /\ TaskIsActive' /\ ResultOfTask'
  BY <1>1, <1>10 DEF EInv, TypeOK, Typed, Shaped, TaskIsActive, ResultOfTask
<1>5. SequenceInUse' /\ SequenceOfAsserted' /\ SequenceOfContext'
  BY <1>1 DEF EInv, SequenceInUse, SequenceOfAsserted, SequenceOfContext
<1>6. CopiesCurrent' /\ SignedAsStored' /\ ReleasedBehind'
  BY <1>1 DEF EInv, CopiesCurrent, Current, SignedAsStored, ReleasedBehind, Contained
<1>7. KeepaliveIsActive'
  BY <1>1, <1>2, <1>3 DEF EInv, TaskIsActive, DiscardCancels, KeepaliveIsActive
<1>8. active.generation \in Generations /\ active.generation \notin aborted
  <2>1. /\ active.generation = nextGeneration - 1 /\ nextGeneration > 1
        /\ nextGeneration \in 1 .. MaxRequests + 1 /\ active.generation \notin aborted
    BY <1>2 DEF EInv, TypeOK, TaskIsActive, DiscardCancels
  <2> QED
    BY SMTT(60), <2>1, LoopBounds DEF Generations
<1>9. AnsweredOnce'
  BY <1>1, <1>3, <1>8 DEF EInv, AnsweredOnce
<1> QED
  BY <1>1, <1>4, <1>5, <1>6, <1>7, <1>9 DEF EInv, DiscardCancels

\* The loop leaves run() or has left it.
LEMMA ShutdownInductive == ASSUME EInv, Shutdown \/ Joined PROVE EInv'
<1>1. UNCHANGED <<stored, generation, context, sequence, task, pc, user, chosen, result, completion,
                  active, nextGeneration, answers, aborted, asserted, released, granted, incoming,
                  allocated, wire>>
  BY  DEF Shutdown, Joined, handlerVars, store, worker, history
<1>2. phase' \in {"running", "stopping", "stopped"}
  BY DEF Shutdown, Joined
<1>6. Typed'
  BY <1>1, <1>2 DEF EInv, TypeOK, Typed, Shaped
<1>3. TypeOK'
  BY <1>1, <1>2, <1>6 DEF EInv, TypeOK, Typed, Shaped
<1>7. TaskIsActive' /\ ResultOfTask' /\ KeepaliveIsActive' /\ AnsweredOnce'
  BY <1>1 DEF EInv, TaskIsActive, ResultOfTask, KeepaliveIsActive, AnsweredOnce
<1>4. SequenceInUse' /\ SequenceOfAsserted' /\ SequenceOfContext'
  BY <1>1 DEF EInv, SequenceInUse, SequenceOfAsserted, SequenceOfContext
<1>5. CopiesCurrent' /\ SignedAsStored' /\ ReleasedBehind' /\ DiscardCancels'
  BY <1>1 DEF EInv, CopiesCurrent, Current, SignedAsStored, ReleasedBehind, Contained,
     DiscardCancels
<1> QED
  BY <1>3, <1>4, <1>5, <1>7 DEF EInv

\* The registered agent changes: no part of the invariant is about it.
LEMMA AgentsInductive == ASSUME EInv, Agents PROVE EInv'
<1>1. UNCHANGED <<stored, generation, sequence, task, pc, user, chosen, result, completion,
                  active, nextGeneration, answers, aborted, asserted, released, granted, incoming,
                  allocated, wire, phase>>
  BY  DEF Agents, ContextChanges, store, worker, loopVars, history
<1>2. context' \in Contexts \cup {NoContext}
  BY DEF Agents, ContextChanges
<1>6. Typed'
  BY <1>1, <1>2 DEF EInv, TypeOK, Typed, Shaped
<1>3. TypeOK'
  BY <1>1, <1>2, <1>6 DEF EInv, TypeOK, Typed, Shaped
<1>7. TaskIsActive' /\ ResultOfTask' /\ KeepaliveIsActive' /\ AnsweredOnce'
  BY <1>1 DEF EInv, TaskIsActive, ResultOfTask, KeepaliveIsActive, AnsweredOnce
<1>4. SequenceInUse' /\ SequenceOfAsserted' /\ SequenceOfContext'
  BY <1>1 DEF EInv, SequenceInUse, SequenceOfAsserted, SequenceOfContext
<1>5. CopiesCurrent' /\ SignedAsStored' /\ ReleasedBehind' /\ DiscardCancels'
  BY <1>1 DEF EInv, CopiesCurrent, Current, SignedAsStored, ReleasedBehind, Contained,
     DiscardCancels
<1> QED
  BY <1>3, <1>4, <1>5, <1>7 DEF EInv

\* The completion is picked up: the answer is sent, or dropped with the sequence.
LEMMA PickUpInductive == ASSUME EInv, PickUp PROVE EInv'
<1>1. /\ UNCHANGED <<stored, generation, context, incoming, allocated, nextGeneration, phase,
                     aborted, granted>>
      /\ pc = "done" /\ pc' = "idle" /\ chosen' = <<>> /\ result' = NoResult
      /\ active # NoActive /\ active' = NoActive
  BY  DEF PickUp, store
<1> DEFINE g == active.generation
           packet == completion.packet
<1>2. /\ g \in Generations /\ g = nextGeneration - 1 /\ nextGeneration > 1
      /\ active.cid \in Channels /\ task.cid = active.cid
      /\ packet = result
      /\ active.discardResult <=> g \in aborted
  <2>1. /\ g = nextGeneration - 1 /\ nextGeneration > 1 /\ nextGeneration \in 1 .. MaxRequests + 1
        /\ active.cid \in Channels /\ task.cid = active.cid
        /\ packet = result
        /\ active.discardResult <=> g \in aborted
    BY <1>1 DEF EInv, TypeOK, TaskIsActive, ResultOfTask
  <2>2. g \in Generations
    BY SMTT(60), <2>1, LoopBounds DEF Generations
  <2> QED
    BY <2>1, <2>2
<1>3. /\ NoActive \in [cid : Channels \cup {NoChannel}, generation : 0 .. MaxRequests,
                       cancelRequested : BOOLEAN, discardResult : BOOLEAN]
      /\ NoActive.generation = 0 /\ ~NoActive.discardResult
  BY SMTT(60), LoopBounds DEF NoActive
<1>4. ~IsAssertion(NoResult)
  BY DEF IsAssertion, NoResult, Error
<1>5. Typed'
  BY <1>1 DEF EInv, TypeOK, Typed, Shaped
<1>6. \/ /\ active.discardResult /\ sequence' = NoSequence
         /\ UNCHANGED <<wire, answers, asserted, released>>
      \/ /\ ~active.discardResult /\ sequence' = sequence
         /\ Deliver(packet, active.cid, g)
  BY  DEF PickUp, Discard
<1> HIDE DEF g, packet
<1>7. ASSUME ~active.discardResult
      PROVE  /\ answers' = [answers EXCEPT ![g] = answers[g] + 1]
             /\ wire'.kind = "answer"
             /\ IsAssertion(result) => /\ released' = [released EXCEPT ![result.id] = result.count]
                                       /\ asserted' = asserted \cup {task.cid}
             /\ ~IsAssertion(result) => /\ released' = released
                                        /\ asserted' = asserted \ {task.cid}
  <2>1. Deliver(result, task.cid, g)
    BY <1>2, <1>6, <1>7
  <2>2. wire'.kind = "answer"
    BY <2>1 DEF Deliver, Packet
  <2> QED
    BY <2>1, <2>2 DEF Deliver, IsAssertion
<1>8. /\ asserted' \subseteq Channels
      /\ released' \in [CredentialIds -> 0 .. MaxSignCount]
  <2>1. asserted \subseteq Channels /\ released \in [CredentialIds -> 0 .. MaxSignCount]
    BY DEF EInv, TypeOK
  <2>2. IsAssertion(result) => result.count \in 0 .. MaxSignCount
    BY DEF EInv, TypeOK, SignedAsStored, StorageType, StoredCredential
  <2> QED
    BY <1>2, <1>6, <1>7, <2>1, <2>2
<1>9. sequence' \in [origin : Channels \cup {NoCid}, owner : Contexts \cup {NoContext},
                     remaining : Seq(Copies)]
  BY <1>6, NoSequenceFields DEF EInv, TypeOK
<1>10. answers' \in [Generations -> Nat]
  <2>1. answers \in [Generations -> Nat]
    BY DEF EInv, TypeOK
  <2> QED
    BY SMTT(60), <1>2, <1>6, <1>7, <2>1
<1>11. TypeOK'
  <2>1. chosen' \in Seq(Copies)
    BY SMTT(60), <1>1
  <2> QED
    BY <1>1, <1>3, <1>5, <1>8, <1>9, <1>10, <2>1 DEF EInv, TypeOK, Typed, Shaped
<1>12. TaskIsActive' /\ DiscardCancels' /\ ResultOfTask'
  <2>1. aborted \subseteq 1 .. nextGeneration - 1
    BY DEF EInv, TypeOK
  <2>2. 0 \notin aborted
    BY SMTT(60), <2>1
  <2> QED
    BY <1>1, <1>3, <2>2 DEF EInv, TaskIsActive, DiscardCancels, ResultOfTask
<1>13. KeepaliveIsActive'
  BY <1>1, <1>6, <1>7 DEF EInv, KeepaliveIsActive
<1>14. AnsweredOnce'
  <2>1. \A h \in Generations :
            answers'[h] = IF h \in (1 .. nextGeneration' - 1) \ (aborted' \cup {active'.generation})
                          THEN 1 ELSE 0
    <3>1. /\ answers \in [Generations -> Nat] /\ nextGeneration \in Nat
          /\ \A h \in Generations :
                answers[h] = IF h \in (1 .. nextGeneration - 1) \ (aborted \cup {g})
                             THEN 1 ELSE 0
      <4>1. /\ answers \in [Generations -> Nat] /\ nextGeneration \in 1 .. MaxRequests + 1
            /\ \A h \in Generations :
                  answers[h] = IF h \in (1 .. nextGeneration - 1) \ (aborted \cup {g})
                               THEN 1 ELSE 0
        BY DEF EInv, TypeOK, AnsweredOnce, g
      <4>2. nextGeneration \in Nat
        BY SMTT(60), <4>1, LoopBounds
      <4> QED
        BY <4>1, <4>2
    <3>2. TAKE h \in Generations
    <3>3. h \in Nat \ {0}
      BY SMTT(60) DEF Generations
    <3>4. answers'[h] = IF h = g /\ ~active.discardResult THEN answers[h] + 1 ELSE answers[h]
      BY <1>2, <1>6, <1>7, <3>1
    <3> QED
      BY SMTT(60), <1>1, <1>2, <1>3, <3>1, <3>3, <3>4
  <2>2. wire'.kind # "keepalive"
    BY <1>6, <1>7 DEF EInv, KeepaliveIsActive
  <2> QED
    BY <2>1, <2>2 DEF AnsweredOnce
<1>15. SequenceInUse' /\ SequenceOfAsserted' /\ SequenceOfContext'
  <2>1. SequenceInUse'
    BY <1>1 DEF SequenceInUse
  <2>2. SequenceOfAsserted'
    <3>1. CASE active.discardResult
      BY <1>6, <3>1, NoSequenceFields DEF SequenceOfAsserted
    <3>2. CASE ~active.discardResult
      BY <1>1, <1>6, <1>7, <3>2 DEF EInv, SequenceOfAsserted
    <3> QED
      BY <3>1, <3>2
  <2>3. SequenceOfContext'
    BY <1>1, <1>6, NoSequenceFields DEF EInv, SequenceOfContext
  <2> QED
    BY <2>1, <2>2, <2>3
<1>16. CopiesCurrent' /\ SignedAsStored'
  <2>1. Current(sequence.remaining)'
    BY <1>1, <1>6, NoCopies DEF EInv, CopiesCurrent, Current
  <2>2. Current(chosen)'
    BY SMTT(60), <1>1 DEF Current
  <2> QED
    BY <1>1, <1>4, <2>1, <2>2 DEF CopiesCurrent, SignedAsStored
<1>17. ReleasedBehind'
  <2>1. \A id \in Contained(stored) : released'[id] <= stored[id].signCount
    <3>1. /\ \A id \in Contained(stored) : released[id] <= stored[id].signCount
          /\ IsAssertion(result) => result.count = stored[result.id].signCount
          /\ stored \in StorageType /\ released \in [CredentialIds -> 0 .. MaxSignCount]
      BY DEF EInv, TypeOK, ReleasedBehind, SignedAsStored
    <3>2. TAKE id \in Contained(stored)
    <3>3. stored[id].signCount \in Nat /\ id \in CredentialIds
      BY <3>1, StoredCount DEF Contained
    <3> QED
      BY SMTT(60), <1>6, <1>7, <3>1, <3>3
  <2> QED
    BY <1>1, <1>4, <2>1 DEF ReleasedBehind, Contained
<1> QED
  BY <1>11, <1>12, <1>13, <1>14, <1>15, <1>16, <1>17 DEF EInv

-----------------------------------------------------------------------------
(* What a step of the worker does.                                         *)

\* The operation ends without an assertion; the store stays as it is.  Only
\* handle()'s dispatch leaves a sequence, one of another channel.
Ends ==
    /\ pc \in {"begin", "context", "exclude", "interact", "commit"}
    /\ pc' = "publish"
    /\ ~IsAssertion(result')
    /\ \/ sequence' = NoSequence
       \/ pc = "begin" /\ sequence' = sequence /\ sequence.origin # task.cid
    /\ UNCHANGED <<stored, generation, context, task, chosen, completion>>

\* The operation goes on.
Moves ==
    /\ pc \in {"begin", "context", "interact"}
    /\ pc' \in {"context", "exclude", "interact", "commit"}
    /\ pc' # pc
    /\ UNCHANGED <<stored, generation, context, task, result, completion>>

\* ... to the user's context, with the sequence cleared or that of the channel.
Begins ==
    /\ pc = "begin" /\ pc' = "context" /\ Moves
    /\ \/ task.command \in {MakeCredential, GetAssertion} /\ sequence' = NoSequence
       \/ /\ task.command = GetNextAssertion
          /\ sequence' = sequence /\ sequence.origin = task.cid
    /\ UNCHANGED <<user, chosen>>

\* ... to the interaction or the commit, with the credentials it works on.
Looks ==
    /\ pc = "context" /\ Moves
    /\ context # NoContext /\ user' = context
    /\ \/ /\ task.command = MakeCredential
          /\ pc' \in {"exclude", "interact"}
          /\ UNCHANGED <<sequence, chosen>>
       \/ /\ task.command = GetAssertion
          /\ \E rp \in RpIds : chosen' \in FindForAssertion(rp, context.uid)
          /\ pc' \in {"interact", "commit"}
          /\ UNCHANGED sequence
       \/ /\ task.command = GetNextAssertion
          /\ sequence.origin = task.cid /\ sequence.owner = context
          /\ sequence' = SequenceAfter(sequence)
          /\ chosen' = <<Head(sequence.remaining)>>
          /\ pc' = "commit"

\* ... past the interaction.
Approves ==
    /\ pc = "interact" /\ pc' = "commit" /\ Moves
    /\ UNCHANGED <<sequence, user, chosen>>

\* A credential is stored.
Creates ==
    /\ pc = "commit" /\ task.command = MakeCredential
    /\ pc' = "publish"
    /\ ~IsAssertion(result')
    /\ generation < MaxGeneration /\ generation' = generation + 1
    /\ \E id \in CredentialIds, rp \in RpIds, u \in UserIds, discoverable \in BOOLEAN :
          LET cred == NewCredential(user.uid, rp, u, discoverable, generation + 1)
          IN  stored[id] = NoCredential /\ stored' = AfterPut(stored, id, cred)
    /\ UNCHANGED <<context, sequence, task, chosen, completion>>

\* An assertion is signed.
Signs == pc = "commit" /\ task.command # MakeCredential /\ chosen # <<>> /\ SignAssertion

\* A request is for one command.
LEMMA CommandsDiffer ==
    /\ MakeCredential # GetAssertion /\ MakeCredential # GetInfo /\ MakeCredential # GetNextAssertion
    /\ GetAssertion # GetInfo /\ GetAssertion # GetNextAssertion /\ GetInfo # GetNextAssertion
BY SMTT(60) DEF MakeCredential, GetAssertion, GetInfo, GetNextAssertion

\* A packet that is no assertion.
LEMMA NoAssertion ==
    /\ \A code : ~IsAssertion(Error(code))
    /\ ~IsAssertion(Success("info")) /\ ~IsAssertion(Success("credential"))
    /\ ~IsAssertion(NoResult)
BY DEF IsAssertion, Error, Success, NoResult

\* Every failure but the dispatch's ends the operation and its sequence.
LEMMA FailEnds ==
    ASSUME NEW code, Fail(code), pc \in {"begin", "context", "exclude", "interact", "commit"}
    PROVE  Ends
BY NoAssertion DEF Fail, Return, Ends, store

\* handle(), up to the user's context.
LEMMA BeginCases == ASSUME Begin PROVE Ends \/ Begins
<1>1. pc = "begin"
  BY DEF Begin
<1>2. CASE \E code : Fail(code)
  BY <1>1, <1>2, FailEnds
<1>3. CASE task.command = GetInfo /\ ~\E code : Fail(code)
  <2>1. task.command \notin {MakeCredential, GetAssertion} /\ task.command # GetNextAssertion
    BY <1>3, CommandsDiffer
  <2>2. /\ sequence' = NoSequence
        /\ Return(IF task.size = 1 THEN Success("info") ELSE Error("INVALID_COMMAND"))
        /\ UNCHANGED <<store, context, task, user, chosen, stop, completion>>
    BY <1>3, <2>1 DEF Begin, Cancelled
  <2> QED
    BY <1>1, <2>2, NoAssertion DEF Return, Ends, store
<1>4. CASE task.command \in {MakeCredential, GetAssertion} /\ ~\E code : Fail(code)
  <2>1. task.command # GetInfo /\ task.command # GetNextAssertion
    BY <1>4, CommandsDiffer
  <2>2. sequence' = NoSequence /\ Proceed("context") /\ UNCHANGED <<user, chosen>>
    BY <1>4, <2>1 DEF Begin, Cancelled
  <2> QED
    BY <1>1, <1>4, <2>2 DEF Proceed, Begins, Moves, store
<1>5. CASE task.command = GetNextAssertion /\ ~\E code : Fail(code)
  <2>1. task.command # GetInfo /\ task.command \notin {MakeCredential, GetAssertion}
    BY <1>5, CommandsDiffer
  <2>2. CASE sequence.origin # task.cid
    <3>1. /\ Return(Error("NOT_ALLOWED"))
          /\ UNCHANGED <<store, context, sequence, task, user, chosen, stop, completion>>
      BY <1>5, <2>1, <2>2 DEF Begin, Cancelled
    <3> QED
      BY <1>1, <2>2, <3>1, NoAssertion DEF Return, Ends, store
  <2>3. CASE sequence.origin = task.cid
    <3>1. Proceed("context") /\ UNCHANGED <<sequence, user, chosen>>
      BY <1>5, <2>1, <2>3 DEF Begin, Cancelled
    <3> QED
      BY <1>1, <1>5, <2>3, <3>1 DEF Proceed, Begins, Moves, store
  <2> QED
    BY <2>2, <2>3
<1>6. CASE task.command \notin {GetInfo, MakeCredential, GetAssertion, GetNextAssertion}
  BY <1>1, <1>2, <1>6 DEF Begin, Cancelled
<1> QED
  BY <1>2, <1>3, <1>4, <1>5, <1>6

\* build_response, up to the interaction.
LEMMA ContextCases == ASSUME EInv, Context PROVE Ends \/ Looks
<1>1. pc = "context"
  BY DEF Context
<1>2. CASE \E code : Fail(code)
  BY <1>1, <1>2, FailEnds
<1>3. CASE ~\E code : Fail(code)
  <2>1. /\ context # NoContext /\ Look /\ user' = context
        /\ task.command = GetNextAssertion =>
              sequence.origin = task.cid /\ sequence.owner = context
    BY <1>3 DEF Context, Cancelled, SequenceAllows
  <2>2. CASE task.command = MakeCredential
    <3>1. task.command # GetAssertion
      BY <2>2, CommandsDiffer
    <3>2. (Proceed("exclude") \/ Proceed("interact")) /\ UNCHANGED <<sequence, chosen>>
      BY <2>1, <2>2, <3>1 DEF Look
    <3> QED
      BY <1>1, <2>1, <2>2, <3>2 DEF Proceed, Looks, Moves, store
  <2>3. CASE task.command = GetAssertion
    <3>1. task.command # MakeCredential
      BY <2>3, CommandsDiffer
    <3>2. /\ \E rp \in RpIds : chosen' \in FindForAssertion(rp, context.uid)
          /\ Proceed("interact") \/ Proceed("commit")
          /\ UNCHANGED sequence
      BY <2>1, <2>3, <3>1 DEF Look
    <3>3. Moves /\ pc' \in {"interact", "commit"}
      BY <1>1, <3>2 DEF Proceed, Moves, store
    <3> QED
      BY <1>1, <2>1, <2>3, <3>2, <3>3 DEF Looks
  <2>4. CASE task.command = GetNextAssertion
    <3>1. task.command # MakeCredential /\ task.command # GetAssertion
      BY <2>4, CommandsDiffer
    <3>2. /\ sequence' = SequenceAfter(sequence)
          /\ chosen' = <<Head(sequence.remaining)>>
          /\ Proceed("commit")
      BY <2>1, <2>4, <3>1 DEF Look
    <3>3. Moves /\ pc' = "commit"
      BY <1>1, <3>2 DEF Proceed, Moves, store
    <3> QED
      BY <1>1, <2>1, <2>4, <3>2, <3>3 DEF Looks
  <2> QED
    BY <1>1, <2>2, <2>3, <2>4 DEF EInv, SequenceInUse
<1> QED
  BY <1>2, <1>3

\* The interaction with the user.
LEMMA InteractCases == ASSUME Interact PROVE Ends \/ Approves
<1>1. pc \in {"exclude", "interact"}
  BY DEF Interact
<1>2. CASE \E code : Fail(code)
  BY <1>1, <1>2, FailEnds
<1>3. CASE ~\E code : Fail(code)
  <2>1. pc # "exclude" /\ Proceed("commit") /\ UNCHANGED <<sequence, user, chosen>>
    BY <1>3 DEF Interact, Cancelled
  <2> QED
    BY <1>1, <2>1 DEF Proceed, Approves, Moves, store
<1> QED
  BY <1>2, <1>3

\* The store operation.
LEMMA FinishCases == ASSUME EInv, Finish PROVE Ends \/ Creates \/ Signs
<1>1. pc = "commit"
  BY DEF Finish
<1>2. CASE \E code : Fail(code)
  BY <1>1, <1>2, FailEnds
<1>3. CASE StoreFails
  BY <1>1, <1>3, NoAssertion DEF StoreFails, Return, Ends
<1>4. CASE task.command = MakeCredential /\ CreateCredential
  <2>1. sequence = NoSequence
    BY <1>1, <1>4, CommandsDiffer DEF EInv, SequenceInUse
  <2>2. CASE /\ Return(Success("credential"))
             /\ UNCHANGED <<store, context, sequence, task, user, chosen, stop, completion>>
    BY <1>1, <2>1, <2>2, NoAssertion DEF Return, Ends, store
  <2>3. ASSUME NEW id \in CredentialIds, NEW rp \in RpIds, NEW u \in UserIds,
               NEW discoverable \in BOOLEAN,
               CanPut(stored, id, NewCredential(user.uid, rp, u, discoverable, generation + 1)),
               Commit(AfterPut(stored, id,
                               NewCredential(user.uid, rp, u, discoverable, generation + 1))),
               Return(Success("credential")), UNCHANGED sequence
        PROVE  Creates
    BY <1>1, <1>4, <2>3, NoAssertion DEF CanPut, Commit, Return, Creates
  <2> QED
    BY <1>4, <2>2, <2>3 DEF CreateCredential
<1>5. CASE task.command # MakeCredential /\ chosen # <<>> /\ SignAssertion
  BY <1>1, <1>5 DEF Signs
<1> QED
  BY <1>2, <1>3, <1>4, <1>5 DEF Finish, Cancelled

-----------------------------------------------------------------------------
(* The steps of the worker.                                                *)

\* What every step of the worker leaves to the loop.
LEMMA WorkerFrame ==
    ASSUME EInv, Worker
    PROVE  /\ UNCHANGED <<incoming, allocated, active, nextGeneration, phase, wire, answers,
                          aborted, asserted>>
           /\ Typed'
           /\ stored' = stored => released' = released
           /\ pc = "commit" /\ task.command = GetAssertion => granted' = user
           /\ ~(pc = "commit" /\ task.command = GetAssertion) => granted' = granted
           /\ granted' \in Contexts \cup {NoContext}
<1>1. UNCHANGED <<incoming, allocated, active, nextGeneration, phase, wire, answers, aborted,
                  asserted>>
  BY  DEF Worker, loopVars
<1>2. Typed'
  BY <1>1 DEF EInv, TypeOK, Typed, Shaped
<1>3. ASSUME stored' = stored PROVE released' = released
  <2>1. released \in [CredentialIds -> 0 .. MaxSignCount]
    BY DEF EInv, TypeOK
  <2>2. released' = [id \in CredentialIds |->
                        IF stored[id] = NoCredential /\ stored'[id] # NoCredential
                        THEN 0 ELSE released[id]]
    BY  DEF Worker
  <2>3. released' = [id \in CredentialIds |-> released[id]]
    BY <1>3, <2>2
  <2> QED
    BY <2>1, <2>3
<1>4. granted' = IF task.command = GetAssertion /\ pc = "commit" THEN user ELSE granted
  BY  DEF Worker
<1>5. granted' \in Contexts \cup {NoContext}
  BY <1>4 DEF EInv, TypeOK, SequenceOfContext
<1> QED
  BY <1>1, <1>2, <1>3, <1>4, <1>5

\* The loop's part of the invariant survives while the worker keeps its task.
LEMMA TaskKept ==
    ASSUME EInv, Worker, pc # "idle", pc' # "idle", task' = task
    PROVE  TaskIsActive' /\ DiscardCancels' /\ KeepaliveIsActive' /\ AnsweredOnce'
BY WorkerFrame DEF EInv, TaskIsActive, DiscardCancels, KeepaliveIsActive, AnsweredOnce

\* An operation ends.
LEMMA EndsInductive == ASSUME EInv, Worker, Ends PROVE EInv'
<1>1. /\ UNCHANGED <<stored, generation, context, task, chosen, completion>>
      /\ pc' = "publish" /\ pc # "idle" /\ ~IsAssertion(result')
      /\ released' = released
  BY WorkerFrame DEF Ends
<1>2. \/ sequence' = NoSequence
      \/ pc = "begin" /\ sequence' = sequence /\ sequence.origin # task.cid /\ granted' = granted
  BY WorkerFrame DEF Ends
<1>3. TypeOK'
  <2>1. sequence' \in [origin : Channels \cup {NoCid}, owner : Contexts \cup {NoContext},
                       remaining : Seq(Copies)]
    BY <1>2, NoSequenceFields DEF EInv, TypeOK
  <2> QED
    BY <1>1, <2>1, WorkerFrame DEF EInv, TypeOK, Typed, Shaped
<1>4. TaskIsActive' /\ DiscardCancels' /\ KeepaliveIsActive' /\ AnsweredOnce'
  BY <1>1, TaskKept
<1>5. ResultOfTask' /\ SequenceInUse' /\ SignedAsStored'
  BY <1>1 DEF ResultOfTask, SequenceInUse, SignedAsStored
<1>6. SequenceOfAsserted' /\ SequenceOfContext'
  <2>1. CASE sequence' = NoSequence
    BY <1>1, <2>1, NoSequenceFields DEF SequenceOfAsserted, SequenceOfContext
  <2>2. CASE pc = "begin" /\ sequence' = sequence /\ sequence.origin # task.cid /\ granted' = granted
    BY <1>1, <2>2, WorkerFrame DEF EInv, SequenceOfAsserted, SequenceOfContext
  <2> QED
    BY <1>2, <2>1, <2>2
<1>7. CopiesCurrent'
  <2>1. Current(sequence.remaining)'
    BY <1>1, <1>2, NoCopies DEF EInv, CopiesCurrent, Current
  <2> QED
    BY <1>1, <2>1 DEF CopiesCurrent
<1>8. ReleasedBehind'
  BY <1>1 DEF EInv, ReleasedBehind, Contained
<1> QED
  BY <1>3, <1>4, <1>5, <1>6, <1>7, <1>8 DEF EInv

\* An operation that goes on has to care for its continuation state only.
LEMMA MovesInductive ==
    ASSUME EInv, Worker, Moves,
           sequence' \in [origin : Channels \cup {NoCid}, owner : Contexts \cup {NoContext},
                          remaining : Seq(Copies)],
           chosen' \in Seq(Copies),
           SequenceInUse', SequenceOfAsserted', SequenceOfContext', CopiesCurrent'
    PROVE  EInv'
<1>1. /\ UNCHANGED <<stored, generation, context, task, result, completion>>
      /\ pc \notin {"idle", "publish", "done"} /\ pc' \notin {"idle", "publish", "done"}
      /\ released' = released /\ result = NoResult
  BY WorkerFrame DEF Moves, EInv, ResultOfTask
<1>2. TypeOK'
  <2>1. pc' \in {"idle", "begin", "context", "exclude", "interact", "commit", "publish", "done"}
    BY DEF Moves
  <2> QED
    BY <1>1, <2>1, WorkerFrame DEF EInv, TypeOK, Typed, Shaped
<1>3. TaskIsActive' /\ DiscardCancels' /\ KeepaliveIsActive' /\ AnsweredOnce'
  BY <1>1, TaskKept
<1>4. ResultOfTask' /\ SignedAsStored' /\ ReleasedBehind'
  BY <1>1, NoAssertion DEF EInv, ResultOfTask, SignedAsStored, ReleasedBehind, Contained
<1> QED
  BY <1>2, <1>3, <1>4 DEF EInv

\* handle() dispatches the request.
LEMMA BeginsInductive == ASSUME EInv, Worker, Begins PROVE EInv'
<1>1. /\ pc = "begin" /\ pc' = "context" /\ Moves
      /\ UNCHANGED <<stored, task, user, chosen>>
      /\ granted' = granted /\ UNCHANGED <<active, asserted>>
  BY WorkerFrame DEF Begins, Moves
<1>2. sequence' = NoSequence \/ sequence' = sequence
  BY DEF Begins
<1>3. /\ sequence' \in [origin : Channels \cup {NoCid}, owner : Contexts \cup {NoContext},
                        remaining : Seq(Copies)]
      /\ chosen' \in Seq(Copies)
  BY <1>1, <1>2, NoSequenceFields DEF EInv, TypeOK
<1>4. SequenceInUse'
  BY <1>1, CommandsDiffer DEF Begins, SequenceInUse
<1>5. SequenceOfAsserted' /\ SequenceOfContext'
  BY <1>1, <1>2, NoSequenceFields DEF EInv, SequenceOfAsserted, SequenceOfContext
<1>6. CopiesCurrent'
  <2>1. Current(sequence.remaining)'
    BY <1>1, <1>2, NoCopies DEF EInv, CopiesCurrent, Current
  <2>2. Current(chosen)'
    BY <1>1 DEF EInv, CopiesCurrent, Current
  <2> QED
    BY <1>1, <2>1, <2>2 DEF CopiesCurrent
<1> QED
  BY <1>1, <1>3, <1>4, <1>5, <1>6, MovesInductive

\* The user approves.
LEMMA ApprovesInductive == ASSUME EInv, Worker, Approves PROVE EInv'
<1>1. /\ pc = "interact" /\ pc' = "commit" /\ Moves
      /\ UNCHANGED <<stored, task, user, chosen, sequence>>
      /\ granted' = granted /\ UNCHANGED <<active, asserted>>
  BY WorkerFrame DEF Approves, Moves
<1>2. task.command # GetNextAssertion
  BY <1>1 DEF EInv, SequenceInUse
<1>3. /\ sequence' \in [origin : Channels \cup {NoCid}, owner : Contexts \cup {NoContext},
                        remaining : Seq(Copies)]
      /\ chosen' \in Seq(Copies)
  BY <1>1 DEF EInv, TypeOK
<1>4. SequenceInUse' /\ SequenceOfAsserted' /\ SequenceOfContext'
  BY <1>1, <1>2 DEF EInv, SequenceInUse, SequenceOfAsserted, SequenceOfContext
<1>5. CopiesCurrent'
  BY <1>1, <1>2 DEF EInv, CopiesCurrent, Current
<1> QED
  BY <1>1, <1>3, <1>4, <1>5, MovesInductive

\* find_for_assertion copies different credentials as they are stored.
LEMMA FoundCurrent ==
    ASSUME stored \in StorageType, NEW rp, NEW owner, NEW s \in FindForAssertion(rp, owner)
    PROVE  s \in Seq(Copies) /\ Current(s)
<1>1. \A id \in Contained(stored) :
          /\ Copy(id) \in Copies /\ Copy(id).id = id
          /\ stored[id] # NoCredential /\ Copy(id).signCount = stored[id].signCount
          /\ stored[id].creationOrder \in Nat
  BY SMTT(60), GenerationBound DEF Contained, Copy, Copies, StorageType, StoredCredential
<1>2. CASE s = <<>>
  BY SMTT(60), <1>2 DEF Current
<1>3. CASE s \in {<<Copy(id)>> : id \in Matching(rp, owner)}
  <2>1. PICK id \in Contained(stored) : s = <<Copy(id)>>
    BY <1>3 DEF Matching
  <2>2. s \in Seq(Copies) /\ Len(s) = 1 /\ s[1] = Copy(id)
    BY SMTT(60), <1>1, <2>1
  <2> QED
    BY SMTT(60), <1>1, <2>2 DEF Current
<1>4. CASE s \in Discoverable(rp, owner)
  <2> DEFINE ids == {id \in Matching(rp, owner) : stored[id].discoverable}
             n == Cardinality(ids)
  <2>1. ids \subseteq Contained(stored) /\ ids \subseteq CredentialIds
    BY DEF Matching, Contained
  <2>2. n \in Nat
    BY <2>1, FiniteStore
  <2>3. PICK order \in NewestFirst(ids) : s = [i \in 1 .. n |-> Copy(order[i])]
    BY <1>4 DEF Discoverable
  <2>4. /\ order \in [1 .. n -> ids]
        /\ \A i, j \in 1 .. n :
              i < j => stored[order[i]].creationOrder > stored[order[j]].creationOrder
    BY  DEF NewestFirst
  <2> HIDE DEF n, ids
  <2>5. \A i \in 1 .. n : order[i] \in Contained(stored)
    BY <2>1, <2>4
  <2>6. s \in Seq(Copies) /\ Len(s) = n
    BY SMTT(60), <1>1, <2>2, <2>3, <2>5
  <2>7. \A i \in 1 .. Len(s) : s[i] = Copy(order[i])
    BY <2>3, <2>6
  <2>8. \A i, j \in 1 .. n : order[i] = order[j] => i = j
    <3>1. TAKE i, j \in 1 .. n
    <3>2. /\ stored[order[i]].creationOrder \in Nat
          /\ i < j => stored[order[i]].creationOrder > stored[order[j]].creationOrder
          /\ j < i => stored[order[j]].creationOrder > stored[order[i]].creationOrder
      BY <1>1, <2>4, <2>5
    <3> QED
      BY SMTT(60), <2>2, <3>2
  <2>9. \A i, j \in 1 .. Len(s) : s[i].id = s[j].id => i = j
    BY SMTT(60), <1>1, <2>5, <2>6, <2>7, <2>8
  <2>10. \A i \in 1 .. Len(s) : /\ stored[s[i].id] # NoCredential
                               /\ s[i].signCount = stored[s[i].id].signCount
    BY SMTT(60), <1>1, <2>5, <2>6, <2>7
  <2> QED
    BY <2>6, <2>9, <2>10 DEF Current
<1> QED
  BY <1>2, <1>3, <1>4 DEF FindForAssertion

\* A copy is of a credential.
LEMMA CopyIds ==
    ASSUME NEW s \in Seq(Copies) PROVE \A i \in 1 .. Len(s) : s[i].id \in CredentialIds
<1>1. \A i \in 1 .. Len(s) : s[i] \in Copies
  BY SMTT(60)
<1> QED
  BY <1>1 DEF Copies

\* The copies behind the first one.
LEMMA TailCopies ==
    ASSUME NEW s \in Seq(Copies), s # <<>>
    PROVE  /\ Len(s) \in Nat \ {0}
           /\ Head(s) = s[1] /\ s[1] \in Copies
           /\ Tail(s) \in Seq(Copies) /\ Len(Tail(s)) = Len(s) - 1
           /\ \A i \in 1 .. Len(s) - 1 : Tail(s)[i] = s[i + 1]
           /\ Len(s) # 1 => Tail(s) # <<>>
<1>1. Len(s) \in Nat \ {0}
  BY SMTT(60)
<1>2. /\ Head(s) = s[1] /\ s[1] \in Copies
      /\ Tail(s) \in Seq(Copies) /\ Len(Tail(s)) = Len(s) - 1
      /\ \A i \in 1 .. Len(s) - 1 : Tail(s)[i] = s[i + 1]
  BY SMTT(60), <1>1
<1>3. Len(s) # 1 => Len(Tail(s)) # 0
  BY SMTT(60), <1>1, <1>2
<1> QED
  BY SMTT(60), <1>1, <1>2, <1>3

\* ... are current, and other ones, if all are.
LEMMA TailCurrent ==
    ASSUME NEW s \in Seq(Copies), s # <<>>, Current(s)
    PROVE  /\ Current(Tail(s))
           /\ \A i \in 1 .. Len(Tail(s)) : Tail(s)[i].id # s[1].id
<1>1. /\ Len(s) \in Nat \ {0} /\ Len(Tail(s)) = Len(s) - 1
      /\ \A i \in 1 .. Len(s) - 1 : Tail(s)[i] = s[i + 1] /\ i + 1 \in 1 .. Len(s)
  BY SMTT(60), TailCopies
<1>2. /\ \A i \in 1 .. Len(s) : /\ stored[s[i].id] # NoCredential
                                /\ s[i].signCount = stored[s[i].id].signCount
      /\ \A i, j \in 1 .. Len(s) : s[i].id = s[j].id => i = j
  BY DEF Current
<1>3. \A i, j \in 1 .. Len(Tail(s)) : Tail(s)[i].id = Tail(s)[j].id => i = j
  BY SMTT(60), <1>1, <1>2
<1>4. \A i \in 1 .. Len(Tail(s)) :
          /\ stored[Tail(s)[i].id] # NoCredential
          /\ Tail(s)[i].signCount = stored[Tail(s)[i].id].signCount
  BY SMTT(60), <1>1, <1>2
<1>5. \A i \in 1 .. Len(Tail(s)) : Tail(s)[i].id # s[1].id
  BY SMTT(60), <1>1, <1>2
<1> QED
  BY <1>3, <1>4, <1>5 DEF Current

\* The operation finds what it works on.
LEMMA LooksInductive == ASSUME EInv, Worker, Looks PROVE EInv'
<1>1. /\ pc = "context" /\ Moves /\ pc' \in {"exclude", "interact", "commit"}
      /\ UNCHANGED <<stored, task>> /\ user' \in Contexts
      /\ granted' = granted /\ UNCHANGED <<active, asserted>>
  BY WorkerFrame DEF Looks, Moves, EInv, TypeOK
<1>2. CASE task.command = MakeCredential /\ UNCHANGED <<sequence, chosen>>
  <2>1. task.command # GetNextAssertion
    BY <1>2, CommandsDiffer
  <2>2. /\ sequence' \in [origin : Channels \cup {NoCid}, owner : Contexts \cup {NoContext},
                          remaining : Seq(Copies)]
        /\ chosen' \in Seq(Copies)
    BY <1>2 DEF EInv, TypeOK
  <2>3. SequenceInUse' /\ SequenceOfAsserted' /\ SequenceOfContext'
    BY <1>1, <1>2, <2>1 DEF EInv, SequenceInUse, SequenceOfAsserted, SequenceOfContext
  <2>4. CopiesCurrent'
    BY <1>1, <1>2, <2>1 DEF EInv, CopiesCurrent, Current
  <2> QED
    BY <1>1, <2>2, <2>3, <2>4, MovesInductive
<1>3. CASE /\ task.command = GetAssertion
           /\ \E rp \in RpIds : chosen' \in FindForAssertion(rp, context.uid)
           /\ UNCHANGED sequence
  <2>1. task.command # GetNextAssertion
    BY <1>3, CommandsDiffer
  <2>2. chosen' \in Seq(Copies) /\ Current(chosen')
    BY <1>3, FoundCurrent DEF EInv, TypeOK
  <2>3. sequence' \in [origin : Channels \cup {NoCid}, owner : Contexts \cup {NoContext},
                       remaining : Seq(Copies)]
    BY <1>3 DEF EInv, TypeOK
  <2>4. SequenceInUse' /\ SequenceOfAsserted' /\ SequenceOfContext'
    BY <1>1, <1>3, <2>1 DEF EInv, SequenceInUse, SequenceOfAsserted, SequenceOfContext
  <2>5. CopiesCurrent'
    BY <1>1, <1>3, <2>1, <2>2 DEF EInv, CopiesCurrent, Current
  <2> QED
    BY <1>1, <2>2, <2>3, <2>4, <2>5, MovesInductive
<1>4. CASE /\ task.command = GetNextAssertion
           /\ sequence.origin = task.cid /\ sequence.owner = context
           /\ sequence' = SequenceAfter(sequence)
           /\ chosen' = <<Head(sequence.remaining)>>
           /\ pc' = "commit" /\ user' = context
  <2> DEFINE s == sequence.remaining
  <2>1. sequence.origin # NoCid
    BY <1>1, <1>4, OriginIsChannel DEF EInv, TaskIsActive
  <2>2. /\ sequence \in [origin : Channels \cup {NoCid}, owner : Contexts \cup {NoContext},
                         remaining : Seq(Copies)]
        /\ s \in Seq(Copies) /\ s # <<>> /\ Current(s)
        /\ sequence.owner = granted
    BY <2>1 DEF EInv, TypeOK, SequenceOfContext, CopiesCurrent
  <2>3. /\ Len(s) \in Nat \ {0} /\ Head(s) = s[1] /\ s[1] \in Copies
        /\ Tail(s) \in Seq(Copies)
        /\ Len(s) # 1 => Tail(s) # <<>>
        /\ Current(Tail(s)) /\ \A i \in 1 .. Len(Tail(s)) : Tail(s)[i].id # s[1].id
    BY <2>2, TailCopies, TailCurrent
  <2> HIDE DEF s
  <2>4. \/ sequence' = NoSequence
        \/ /\ sequence'.origin = task.cid /\ sequence'.owner = sequence.owner
           /\ sequence'.remaining = Tail(s) /\ Tail(s) # <<>>
           /\ sequence' \in [origin : Channels \cup {NoCid}, owner : Contexts \cup {NoContext},
                             remaining : Seq(Copies)]
    BY <1>4, <2>2, <2>3 DEF SequenceAfter, s
  <2>5. /\ chosen' = <<s[1]>> /\ chosen' \in Seq(Copies) /\ Len(chosen') = 1 /\ chosen'[1] = s[1]
    BY SMTT(60), <1>4, <2>3 DEF s
  <2>6. SequenceInUse'
    BY <1>1, <1>4, <2>4, NoSequenceFields DEF SequenceInUse
  <2>7. SequenceOfAsserted'
    BY <1>1, <1>4, <2>1, <2>4, NoSequenceFields DEF EInv, SequenceOfAsserted
  <2>8. SequenceOfContext'
    BY <1>1, <1>4, <2>2, <2>4, NoSequenceFields DEF SequenceOfContext
  <2>9. CopiesCurrent'
    <3>1. /\ Current(sequence.remaining)'
          /\ \A i \in 1 .. Len(sequence'.remaining) : sequence'.remaining[i].id # s[1].id
      <4>1. CASE sequence' = NoSequence
        BY SMTT(60), <4>1, NoCopies, NoSequenceFields
      <4>2. CASE sequence'.remaining = Tail(s)
        BY <1>1, <2>3, <4>2 DEF Current
      <4> QED
        BY <2>4, <4>1, <4>2
    <3>2. Current(chosen)'
      BY SMTT(60), <1>1, <2>2, <2>3, <2>5 DEF Current
    <3> QED
      BY <1>1, <2>5, <3>1, <3>2 DEF CopiesCurrent
  <2> QED
    BY <1>1, <2>4, <2>5, <2>6, <2>7, <2>8, <2>9, NoSequenceFields, MovesInductive
<1> QED
  BY <1>2, <1>3, <1>4 DEF Looks

\* A credential is stored; no sequence exists, and no counter of it was sent.
LEMMA CreatesInductive == ASSUME EInv, Worker, Creates PROVE EInv'
<1>1. /\ pc = "commit" /\ task.command = MakeCredential /\ pc' = "publish"
      /\ ~IsAssertion(result')
      /\ generation < MaxGeneration /\ generation' = generation + 1
      /\ UNCHANGED <<context, sequence, task, chosen, completion>>
  BY  DEF Creates
<1>2. sequence = NoSequence /\ user \in Contexts
  BY <1>1, CommandsDiffer DEF EInv, SequenceInUse, SequenceOfContext
<1>3. PICK id \in CredentialIds, rp \in RpIds, u \in UserIds, discoverable \in BOOLEAN :
          /\ stored[id] = NoCredential
          /\ stored' = AfterPut(stored, id,
                                NewCredential(user.uid, rp, u, discoverable, generation + 1))
  BY  DEF Creates
<1> DEFINE cred == NewCredential(user.uid, rp, u, discoverable, generation + 1)
<1>4. /\ stored \in StorageType /\ generation \in Nat /\ generation' \in 0 .. MaxGeneration
      /\ released \in [CredentialIds -> 0 .. MaxSignCount]
  <2>1. /\ stored \in StorageType /\ generation \in 0 .. MaxGeneration
        /\ released \in [CredentialIds -> 0 .. MaxSignCount]
    BY DEF EInv, TypeOK
  <2>2. generation \in Nat /\ generation' \in 0 .. MaxGeneration
    BY SMTT(60), <1>1, <2>1, GenerationBound
  <2> QED
    BY <2>1, <2>2
<1>5. cred \in StoredCredential /\ cred.signCount = 0
  <2>1. generation + 1 \in 1 .. MaxGeneration /\ 0 \in 0 .. MaxSignCount /\ user.uid \in Owners
    BY SMTT(60), <1>1, <1>2, <1>4, GenerationBound, SignCountBound, ContextsTyped
  <2> QED
    BY <2>1 DEF NewCredential, StoredCredential
<1> HIDE DEF cred
<1>6. stored' = [WithoutAccount(stored, cred) EXCEPT ![id] = cred]
  BY <1>3 DEF AfterPut, cred
<1>7. /\ stored' \in StorageType
      /\ \A i \in CredentialIds : \/ stored'[i] = NoCredential
                                  \/ stored'[i] = stored[i]
                                  \/ i = id /\ stored'[i] = cred
  BY <1>4, <1>5, <1>6 DEF WithoutAccount, StorageType
<1>8. released' = [i \in CredentialIds |->
                      IF stored[i] = NoCredential /\ stored'[i] # NoCredential
                      THEN 0 ELSE released[i]]
  BY  DEF Worker
<1>9. released' \in [CredentialIds -> 0 .. MaxSignCount]
  BY SMTT(60), <1>4, <1>8, SignCountBound
<1>10. TypeOK'
  BY <1>1, <1>4, <1>7, <1>9, WorkerFrame DEF EInv, TypeOK, Typed, Shaped
<1>11. TaskIsActive' /\ DiscardCancels' /\ KeepaliveIsActive' /\ AnsweredOnce'
  BY <1>1, TaskKept
<1>12. ResultOfTask' /\ SequenceInUse' /\ SignedAsStored'
  BY <1>1 DEF ResultOfTask, SequenceInUse, SignedAsStored
<1>13. SequenceOfAsserted' /\ SequenceOfContext'
  BY <1>1, <1>2, NoSequenceFields DEF SequenceOfAsserted, SequenceOfContext
<1>14. CopiesCurrent'
  BY <1>1, <1>2, NoCopies DEF CopiesCurrent
<1>15. ReleasedBehind'
  <2>1. ASSUME NEW i \in CredentialIds, stored'[i] # NoCredential
        PROVE  released'[i] <= stored'[i].signCount
    <3>1. CASE stored[i] = NoCredential
      <4>1. stored'[i] \in StoredCredential
        BY <1>7, <2>1 DEF StorageType
      <4> QED
        BY SMTT(60), <1>8, <2>1, <3>1, <4>1, SignCountBound DEF StoredCredential
    <3>2. CASE stored[i] # NoCredential
      BY <1>3, <1>7, <1>8, <2>1, <3>2 DEF EInv, ReleasedBehind, Contained
    <3> QED
      BY <3>1, <3>2
  <2> QED
    BY <1>1, <2>1 DEF ReleasedBehind, Contained
<1> QED
  BY <1>10, <1>11, <1>12, <1>13, <1>14, <1>15 DEF EInv

\* An assertion is signed with the counter that the store commits.
LEMMA SignsInductive == ASSUME EInv, Worker, Signs PROVE EInv'
<1> DEFINE copy == chosen[1]
<1>1. /\ pc = "commit" /\ task.command # MakeCredential /\ chosen # <<>>
      /\ OwnedBy(stored, Head(chosen).id, user.uid)
      /\ CanIncrementSigCount(stored, Head(chosen).id)
      /\ Commit(AfterIncrement(stored, Head(chosen).id))
      /\ Return(Assertion(Head(chosen), NextCount(Head(chosen)), user))
      /\ StartSequence(chosen)
  BY  DEF Signs, SignAssertion
<1>2. /\ chosen \in Seq(Copies) /\ Current(chosen) /\ stored \in StorageType
      /\ generation \in 0 .. MaxGeneration
      /\ released \in [CredentialIds -> 0 .. MaxSignCount]
      /\ sequence \in [origin : Channels \cup {NoCid}, owner : Contexts \cup {NoContext},
                       remaining : Seq(Copies)]
      /\ user \in Contexts
  BY <1>1 DEF EInv, TypeOK, CopiesCurrent, SequenceOfContext
<1>3. /\ Len(chosen) \in Nat \ {0}
      /\ Head(chosen) = copy /\ copy \in Copies
      /\ Tail(chosen) \in Seq(Copies)
      /\ Len(chosen) # 1 => Tail(chosen) # <<>>
      /\ Current(Tail(chosen))
      /\ \A i \in 1 .. Len(Tail(chosen)) : Tail(chosen)[i].id # copy.id
  BY <1>1, <1>2, TailCopies, TailCurrent
<1> HIDE DEF copy
<1>4. /\ copy.id \in CredentialIds /\ stored[copy.id] \in StoredCredential
      /\ stored[copy.id] # NoCredential /\ stored[copy.id].ownerUid = user.uid
      /\ copy.signCount = stored[copy.id].signCount
      /\ stored[copy.id].signCount \in 0 .. MaxSignCount
      /\ stored[copy.id].signCount < MaxSignCount
  <2>1. copy.signCount = stored[copy.id].signCount
    BY SMTT(60), <1>2, <1>3 DEF Current, copy
  <2>2. copy.id \in CredentialIds
    BY <1>3 DEF Copies
  <2>3. /\ stored[copy.id] # NoCredential /\ stored[copy.id].ownerUid = user.uid
        /\ stored[copy.id].signCount < MaxSignCount
    BY <1>1, <1>3 DEF OwnedBy, CanIncrementSigCount
  <2>4. stored[copy.id] \in StoredCredential
    BY <1>2, <2>2, <2>3 DEF StorageType
  <2> QED
    BY <2>1, <2>2, <2>3, <2>4 DEF StoredCredential
<1>5. NextCount(copy) = stored[copy.id].signCount + 1
  BY SMTT(60), <1>4, SignCountBound DEF NextCount
<1>6. /\ stored' = [stored EXCEPT ![copy.id].signCount = stored[copy.id].signCount + 1]
      /\ generation' = generation + 1 /\ generation < MaxGeneration
      /\ pc' = "publish" /\ result' = Assertion(copy, NextCount(copy), user)
      /\ UNCHANGED <<context, task, chosen, completion>>
  BY <1>1, <1>3 DEF Commit, AfterIncrement, Return
<1>7. /\ IsAssertion(result') /\ result'.id = copy.id /\ result'.for = user
      /\ result'.count = stored[copy.id].signCount + 1
  BY <1>5, <1>6 DEF Assertion, IsAssertion
<1>8. /\ stored' \in StorageType
      /\ stored'[copy.id] # NoCredential
      /\ stored'[copy.id].signCount = stored[copy.id].signCount + 1
      /\ stored'[copy.id].ownerUid = user.uid
      /\ \A id \in CredentialIds : id # copy.id => stored'[id] = stored[id]
  <2>1. [stored[copy.id] EXCEPT !.signCount = stored[copy.id].signCount + 1] \in StoredCredential
    BY SMTT(60), <1>4, SignCountBound DEF StoredCredential
  <2>2. stored' = [stored EXCEPT ![copy.id] =
                      [stored[copy.id] EXCEPT !.signCount = stored[copy.id].signCount + 1]]
    BY <1>6
  <2> QED
    BY <1>2, <1>4, <2>1, <2>2, NoCredentialIsNone DEF StorageType, StoredCredential
<1>9. released' = released
  <2>1. released' = [i \in CredentialIds |->
                        IF stored[i] = NoCredential /\ stored'[i] # NoCredential
                        THEN 0 ELSE released[i]]
    BY  DEF Worker
  <2>2. \A i \in CredentialIds : ~(stored[i] = NoCredential /\ stored'[i] # NoCredential)
    BY <1>4, <1>8
  <2> QED
    BY <1>2, <2>1, <2>2
<1>10. granted' = user
  BY <1>1, WorkerFrame
     DEF EInv, SequenceInUse, SequenceOfContext, MakeCredential, GetAssertion, GetNextAssertion
<1>11. \/ /\ sequence' = [origin |-> task.cid, owner |-> user, remaining |-> Tail(chosen)]
          /\ sequence'.origin = task.cid /\ sequence'.owner = user
          /\ sequence'.remaining = Tail(chosen) /\ Tail(chosen) # <<>>
       \/ sequence' = sequence /\ sequence = NoSequence
       \/ sequence' = sequence /\ task.command = GetNextAssertion
  <2>1. \/ /\ sequence' = [origin |-> task.cid, owner |-> user, remaining |-> Tail(chosen)]
           /\ Len(chosen) > 1
        \/ sequence' = sequence
    BY <1>1 DEF StartSequence, SequenceBegin
  <2>2. sequence = NoSequence \/ task.command = GetNextAssertion
    BY <1>1 DEF EInv, SequenceInUse
  <2>3. Len(chosen) > 1 => Tail(chosen) # <<>>
    <3>1. \A n \in Nat : n > 1 => n # 1
      BY SMTT(60)
    <3> QED
      BY <1>3, <3>1
  <2>4. ASSUME sequence' = [origin |-> task.cid, owner |-> user, remaining |-> Tail(chosen)]
        PROVE  /\ sequence'.origin = task.cid /\ sequence'.owner = user
               /\ sequence'.remaining = Tail(chosen)
    BY <2>4
  <2> QED
    BY <2>1, <2>2, <2>3, <2>4
<1>12. task.cid \in Channels
  BY <1>1 DEF EInv, TaskIsActive
<1>13. sequence' \in [origin : Channels \cup {NoCid}, owner : Contexts \cup {NoContext},
                      remaining : Seq(Copies)]
  <2>1. CASE sequence' = [origin |-> task.cid, owner |-> user, remaining |-> Tail(chosen)]
    BY <1>2, <1>3, <1>12, <2>1
  <2>2. CASE sequence' = sequence
    BY <1>2, <2>2
  <2> QED
    BY <1>11, <2>1, <2>2
<1>14. TypeOK'
  <2>1. generation' \in 0 .. MaxGeneration
    BY SMTT(60), <1>2, <1>6, GenerationBound
  <2> QED
    BY <1>6, <1>8, <1>9, <1>13, <2>1, WorkerFrame DEF EInv, TypeOK, Typed, Shaped
<1>15. TaskIsActive' /\ DiscardCancels' /\ KeepaliveIsActive' /\ AnsweredOnce'
  BY <1>1, <1>6, TaskKept
<1>16. ResultOfTask' /\ SequenceInUse'
  BY <1>6 DEF ResultOfTask, SequenceInUse
<1>17. SequenceOfAsserted'
  <2>1. sequence'.origin # NoCid => sequence'.origin = task.cid
    BY <1>1, <1>11, NoSequenceFields DEF EInv, SequenceInUse
  <2> QED
    BY <1>6, <1>7, <2>1 DEF SequenceOfAsserted
<1>18. SequenceOfContext'
  <2>1. task.command = GetNextAssertion => user = granted
    BY <1>1 DEF EInv, SequenceOfContext
  <2>2. sequence'.origin # NoCid => sequence'.owner = user /\ sequence'.remaining # <<>>
    BY <1>11, <2>1, NoSequenceFields DEF EInv, SequenceOfContext
  <2> QED
    BY <1>6, <1>10, <2>2 DEF SequenceOfContext
<1>19. CopiesCurrent'
  <2>1. \A i \in 1 .. Len(sequence'.remaining) : sequence'.remaining[i].id # copy.id
    <3>1. CASE sequence' = [origin |-> task.cid, owner |-> user, remaining |-> Tail(chosen)]
      BY <1>3, <3>1
    <3>2. CASE sequence' = NoSequence
      BY SMTT(60), <3>2, NoSequenceFields
    <3>3. CASE sequence' = sequence /\ task.command = GetNextAssertion
      BY <1>1, <3>3 DEF EInv, CopiesCurrent, copy
    <3> QED
      BY <1>11, <3>1, <3>2, <3>3
  <2>2. Current(sequence'.remaining)
    <3>1. CASE sequence' = [origin |-> task.cid, owner |-> user, remaining |-> Tail(chosen)]
      BY <1>3, <3>1
    <3>2. CASE sequence' = sequence
      BY <3>2 DEF EInv, CopiesCurrent
    <3> QED
      BY <1>11, <3>1, <3>2
  <2>3. \A i \in 1 .. Len(sequence'.remaining) : sequence'.remaining[i].id \in CredentialIds
    <3>1. sequence'.remaining \in Seq(Copies)
      BY <1>13
    <3> QED
      BY <3>1, CopyIds
  <2>4. Current(sequence.remaining)'
    BY <1>8, <2>1, <2>2, <2>3 DEF Current
  <2> QED
    BY <1>6, <2>4 DEF CopiesCurrent
<1>20. SignedAsStored'
  BY <1>4, <1>7, <1>8, <1>10 DEF SignedAsStored
<1>21. ReleasedBehind'
  <2>1. /\ \A id \in Contained(stored) : released[id] <= stored[id].signCount
        /\ released[copy.id] \in Nat /\ stored[copy.id].signCount \in Nat
    <3>1. \A id \in Contained(stored) : released[id] <= stored[id].signCount
      BY DEF EInv, ReleasedBehind
    <3>2. released[copy.id] \in 0 .. MaxSignCount
      BY <1>2, <1>4
    <3>3. \A n \in 0 .. MaxSignCount : n \in Nat
      BY SMTT(60), SignCountBound
    <3> QED
      BY <1>4, <3>1, <3>2, <3>3
  <2>2. \A id \in CredentialIds : stored'[id] # NoCredential => released[id] <= stored'[id].signCount
    BY SMTT(60), <1>4, <1>8, <2>1 DEF Contained
  <2>3. released[copy.id] < stored[copy.id].signCount + 1
    BY SMTT(60), <1>4, <2>1 DEF Contained
  <2> QED
    BY <1>7, <1>9, <2>2, <2>3 DEF ReleasedBehind, Contained
<1> QED
  BY <1>14, <1>15, <1>16, <1>17, <1>18, <1>19, <1>20, <1>21 DEF EInv

\* The completion is handed over.
LEMMA PublishInductive == ASSUME EInv, Worker, Publish PROVE EInv'
<1>1. /\ UNCHANGED <<stored, generation, context, sequence, task, chosen, result>>
      /\ pc = "publish" /\ pc' = "done"
      /\ completion' = [generation |-> task.generation, cid |-> task.cid, packet |-> result]
      /\ UNCHANGED <<active, asserted>>
  BY WorkerFrame DEF Publish, store
<1>2. released' = released /\ granted' = granted
  BY <1>1, WorkerFrame
<1>3. TypeOK'
  BY <1>1, <1>2, WorkerFrame DEF EInv, TypeOK, Typed, Shaped
<1>4. TaskIsActive' /\ DiscardCancels' /\ KeepaliveIsActive' /\ AnsweredOnce'
  BY <1>1, TaskKept
<1>5. ResultOfTask' /\ SequenceInUse'
  BY <1>1 DEF ResultOfTask, SequenceInUse
<1>6. SequenceOfAsserted' /\ SequenceOfContext'
  BY <1>1, <1>2 DEF EInv, SequenceOfAsserted, SequenceOfContext
<1>7. CopiesCurrent' /\ SignedAsStored' /\ ReleasedBehind'
  BY <1>1, <1>2
     DEF EInv, CopiesCurrent, Current, SignedAsStored, ReleasedBehind, Contained
<1> QED
  BY <1>3, <1>4, <1>5, <1>6, <1>7 DEF EInv

\* A step of the worker.
LEMMA WorkerInductive == ASSUME EInv, Worker PROVE EInv'
<1>1. WorkerStep
  BY  DEF Worker
<1> QED
  BY <1>1, BeginCases, ContextCases, InteractCases, FinishCases, EndsInductive, BeginsInductive,
     LooksInductive, ApprovesInductive, CreatesInductive, SignsInductive, PublishInductive
     DEF WorkerStep

-----------------------------------------------------------------------------
(* The theorems.                                                           *)

\* Stuttering.
LEMMA StutterInductive == ASSUME EInv, UNCHANGED vars PROVE EInv'
<1>1. Typed'
  BY DEF vars, loopVars, EInv, TypeOK, Typed, Shaped
<1>2. Replies
  BY  DEF vars, loopVars, Replies, EInv, TypeOK
<1> QED
  BY <1>1, <1>2, RepliesInductive

\* The daemon starts idle, with a store that was loaded.
LEMMA InitEInv == Init => EInv
<1> SUFFICES ASSUME Init PROVE EInv
  OBVIOUS
<1>1. /\ stored \in StorageType /\ generation \in 0 .. MaxGeneration
      /\ context \in Contexts \cup {NoContext} /\ sequence = NoSequence
      /\ task = NoTask /\ pc = "idle" /\ chosen = <<>> /\ result = NoResult
      /\ incoming = NoReport /\ allocated = {} /\ active = NoActive /\ nextGeneration = 1
      /\ phase = "running" /\ wire = NoPacket /\ answers = [g \in Generations |-> 0]
      /\ aborted = {} /\ asserted = {} /\ granted = NoContext
  BY LoadedStoresTyped DEF Init, HandlerInit, Idle
<1>2. /\ released = [id \in CredentialIds |->
                      IF id \in Contained(stored) THEN stored[id].signCount ELSE 0]
  BY  DEF Init
<1>3. released \in [CredentialIds -> 0 .. MaxSignCount]
  <2>1. \A id \in Contained(stored) : stored[id].signCount \in 0 .. MaxSignCount
    BY <1>1 DEF Contained, StorageType, StoredCredential
  <2> QED
    BY SMTT(60), <1>2, <2>1, SignCountBound
<1>4. ReleasedBehind
  <2>1. \A id \in Contained(stored) : stored[id].signCount \in Nat /\ id \in CredentialIds
    BY <1>1, StoredCount DEF Contained
  <2> QED
    BY SMTT(60), <1>1, <1>2, <2>1, NoAssertion DEF ReleasedBehind
<1>5. /\ NoActive \in [cid : Channels \cup {NoChannel}, generation : 0 .. MaxRequests,
                       cancelRequested : BOOLEAN, discardResult : BOOLEAN]
      /\ NoActive.generation = 0 /\ ~NoActive.discardResult
  BY SMTT(60), LoopBounds DEF NoActive
<1>6. TypeOK
  <2>1. DOMAIN incoming = DOMAIN NoReport /\ incoming.cid \in Cids \cup {NoChannel}
    BY <1>1 DEF NoReport
  <2>2. nextGeneration \in 1 .. MaxRequests + 1 /\ answers \in [Generations -> Nat]
    BY SMTT(60), <1>1, LoopBounds
  <2>3. chosen \in Seq(Copies)
    BY SMTT(60), <1>1
  <2> QED
    BY <1>1, <1>3, <1>5, <2>1, <2>2, <2>3, NoSequenceFields DEF TypeOK
<1>7. TaskIsActive /\ DiscardCancels /\ ResultOfTask /\ SequenceInUse
  BY <1>1, <1>5 DEF TaskIsActive, DiscardCancels, ResultOfTask, SequenceInUse
<1>8. wire.kind # "keepalive"
  BY <1>1 DEF NoPacket, Packet
<1>9. KeepaliveIsActive /\ AnsweredOnce
  BY SMTT(60), <1>1, <1>5, <1>8 DEF KeepaliveIsActive, AnsweredOnce
<1>10. SequenceOfAsserted /\ SequenceOfContext
  BY <1>1, NoSequenceFields DEF SequenceOfAsserted, SequenceOfContext
<1>11. CopiesCurrent
  BY SMTT(60), <1>1 DEF CopiesCurrent, Current, NoSequence
<1>12. SignedAsStored
  BY <1>1, NoAssertion DEF SignedAsStored
<1> QED
  BY <1>4, <1>6, <1>7, <1>9, <1>10, <1>11, <1>12 DEF EInv

\* Every step keeps the invariant.
LEMMA NextEInv == EInv /\ [Next]_vars => EInv'
<1> SUFFICES ASSUME EInv, [Next]_vars PROVE EInv'
  OBVIOUS
<1>1. ASSUME NEW f \in InitialFrames \cup ContinuationFrames, HandleFrame(f) PROVE EInv'
  BY <1>1, FrameCases, RepliesInductive, CancelsInductive, ResetsInductive, AbortsInductive,
     AcceptsInductive DEF LoopStep
<1> QED
  BY <1>1, ExpireInductive, PickUpInductive, KeepaliveInductive, ShutdownInductive,
     WorkerInductive, AgentsInductive, StutterInductive DEF Next

\* The invariant holds in every state of the daemon.
THEOREM EventLoopInvariant == Spec => []EInv
<1> QED
  BY InitEInv, NextEInv, PTL DEF Spec

\* The type invariant of the daemon.
THEOREM EventLoopTypes == Spec => []TypeOK
<1>1. EInv => TypeOK
  BY DEF EInv
<1> QED
  BY <1>1, EventLoopInvariant, PTL

\* run(): every request that is over was answered once, or aborted by INIT and
\* never answered; nothing of a request follows its answer or its abort.
THEOREM RequestsAnsweredOnce == Spec => []AnsweredOnce
<1>1. EInv => AnsweredOnce
  BY DEF EInv
<1> QED
  BY <1>1, EventLoopInvariant, PTL

\* AssertionSequence: while no request is active, continuation state belongs to
\* a channel whose last answer was an assertion, whatever was cancelled,
\* aborted or failed before.
THEOREM ContinuationOfAssertion == Spec => []ContinuationFollowsAssertion
<1>1. EInv => ContinuationFollowsAssertion
  <2>1. ~NoActive.discardResult
    BY DEF NoActive
  <2> QED
    BY <2>1 DEF EInv, TaskIsActive, SequenceOfAsserted, ContinuationFollowsAssertion
<1> QED
  BY <1>1, EventLoopInvariant, PTL

\* generate_single_credential_payload signs the counter that incrementSigCount
\* commits, although it counts from a copy.
THEOREM SignedCounterCommitted == Spec => []CounterIsCommitted
<1>1. EInv => CounterIsCommitted
  BY DEF EInv, SignedAsStored, IsAssertion, CounterIsCommitted
<1> QED
  BY <1>1, EventLoopInvariant, PTL

\* Every assertion of a sequence is for the user context of its GetAssertion.
THEOREM AssertionsOfOneContext == Spec => []SameContext
<1>1. EInv => SameContext
  BY DEF EInv, SignedAsStored, IsAssertion, SameContext
<1> QED
  BY <1>1, EventLoopInvariant, PTL

\* The loop changes the continuation state only when no worker is inside.
LEMMA LoopOwns == ASSUME EInv, LoopStep, sequence' # sequence PROVE pc \in {"idle", "done"}
BY  DEF LoopStep, Replies, Cancels, Resets, Aborts, Accepts, handlerVars, EInv, TaskIsActive

\* A step of the worker that changes the continuation state is a step of its own.
LEMMA WorkerOwns == ASSUME EInv, WorkerStep, sequence' # sequence PROVE pc' # pc
<1>1. CASE Ends \/ Begins \/ Looks \/ Approves \/ Creates
  BY <1>1 DEF Ends, Begins, Looks, Approves, Creates, Moves
<1>2. CASE Signs
  BY <1>2 DEF Signs, SignAssertion, Return
<1>3. CASE Publish
  BY <1>3 DEF Publish
<1> QED
  BY <1>1, <1>2, <1>3, BeginCases, ContextCases, InteractCases, FinishCases DEF WorkerStep

\* run() resets the command handler only while no worker thread is inside it.
THEOREM HandlerOwnedByOne == Spec => HandlerOwned
<1>1. EInv /\ [Next]_vars => [sequence' # sequence => pc \in {"idle", "done"} \/ pc' # pc]_vars
  <2> SUFFICES ASSUME EInv, Next, sequence' # sequence
               PROVE  pc \in {"idle", "done"} \/ pc' # pc
    OBVIOUS
  <2>1. ASSUME NEW f \in InitialFrames \cup ContinuationFrames, HandleFrame(f)
        PROVE  pc \in {"idle", "done"}
    BY <2>1, FrameCases, LoopOwns
  <2>2. CASE PickUp
    BY <2>2 DEF PickUp
  <2>3. CASE Worker
    BY <2>3, WorkerOwns DEF Worker
  <2>4. CASE Expire \/ Keepalive \/ Shutdown \/ Joined \/ Agents
    BY <2>4
       DEF Expire, SendError, Keepalive, Shutdown, Joined, Agents, ContextChanges, handlerVars
  <2> QED
    BY <2>1, <2>2, <2>3, <2>4 DEF Next
<1> QED
  BY <1>1, EventLoopInvariant, PTL DEF Spec, HandlerOwned

\* The counters that hosts receive for a credential strictly increase.
THEOREM CountersGrow == Spec => CountersIncrease
<1>1. EInv /\ [Next]_vars =>
        [answers' # answers /\ completion.packet.ok /\ completion.packet.what = "assertion"
            => completion.packet.count > released[completion.packet.id]]_vars
  <2> SUFFICES ASSUME EInv, Next, answers' # answers, IsAssertion(completion.packet)
               PROVE  completion.packet.count > released[completion.packet.id]
    BY DEF IsAssertion
  <2>1. ASSUME NEW f \in InitialFrames \cup ContinuationFrames, HandleFrame(f)
        PROVE  FALSE
    <3>1. LoopStep
      BY <2>1, FrameCases
    <3> QED
      BY <3>1 DEF LoopStep, Replies, Cancels, Resets, Aborts, Accepts, history
  <2>2. CASE PickUp
    <3>1. completion.packet = result
      BY <2>2 DEF PickUp, EInv, ResultOfTask
    <3>2. /\ released[result.id] < result.count
          /\ result.id \in CredentialIds /\ released \in [CredentialIds -> 0 .. MaxSignCount]
          /\ result.count = stored[result.id].signCount /\ stored[result.id] # NoCredential
          /\ stored \in StorageType
      BY <3>1 DEF EInv, TypeOK, ReleasedBehind, SignedAsStored
    <3>3. result.count \in Nat /\ released[result.id] \in Nat
      <4>1. result.count \in Nat /\ released[result.id] \in 0 .. MaxSignCount
        BY <3>2, StoredCount
      <4> QED
        BY SMTT(60), <4>1, SignCountBound
    <3> QED
      BY <3>1, <3>2, <3>3
  <2>3. CASE Worker \/ Expire \/ Keepalive \/ Shutdown \/ Joined \/ Agents
    BY <2>3
       DEF Worker, Expire, SendError, Keepalive, Shutdown, Joined, Agents, history
  <2> QED
    BY <2>1, <2>2, <2>3 DEF Next
<1> QED
  BY <1>1, EventLoopInvariant, PTL DEF Spec, CountersIncrease
=============================================================================
