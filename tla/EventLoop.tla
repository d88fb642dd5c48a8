----------------------------- MODULE EventLoop -----------------------------
(***************************************************************************)
(* run(): the event loop that owns the UHID device, and its interplay with *)
(* the one CTAP worker thread.  An iteration of the loop is a step: it     *)
(* handles a frame, times a message out, picks up a completion, sends a    *)
(* keepalive, or begins to shut down.  The worker's steps interleave.      *)
(*                                                                         *)
(* A CBOR message is its command byte, followed by one byte that stands    *)
(* for parameters and makes it take a second frame.                        *)
(***************************************************************************)
EXTENDS FrameProcessor, CommandHandler

CONSTANTS
    LoadedStores,       \* the stores the daemon may find when it starts
    MaxFrames,          \* bound: frames the hosts send
    MaxRequests         \* bound: CBOR requests accepted

ASSUME LoopBounds == MaxFrames \in Nat /\ MaxRequests \in Nat
ASSUME LoadedStoresTyped == LoadedStores \subseteq StorageType
ASSUME OriginIsChannel == NoCid \notin Channels
ASSUME BytesAreCommands == CommandBytes \subseteq Bytes

VARIABLES
    allocated,          \* allocated_cids
    active,             \* the ActiveTask
    nextGeneration,     \* next_generation
    phase,              \* "running", "stopping" (joining), "stopped"
    wire,               \* the last packet sent, if an answer or a keepalive
    answers,            \* history: final answers sent to each request
    aborted,            \* history: requests discarded by CTAPHID_INIT
    asserted,           \* history: channels whose last answer is an assertion
    released,           \* history: the last counter sent for a credential
    granted,            \* history: the context the last GetAssertion was for
    frames              \* the number of frames sent so far

history == <<answers, aborted, asserted, released, granted>>
loopVars == <<incoming, allocated, active, nextGeneration, phase, wire>>
vars == <<handlerVars, loopVars, history, frames>>

Generations == 1 .. MaxRequests

NoActive == [cid |-> NoChannel, generation |-> 0,
             cancelRequested |-> FALSE, discardResult |-> FALSE]

Packet(cid, kind, g) == [cid |-> cid, kind |-> kind, generation |-> g]
NoPacket == Packet(NoChannel, "other", 0)

(* Types.  The bytes of a message are FrameAssembly's subject.             *)
TypeOK ==
    /\ DOMAIN incoming = DOMAIN NoReport
    /\ incoming.cid \in Cids \cup {NoChannel}
    /\ allocated \subseteq Channels
    /\ active \in [cid : Channels \cup {NoChannel}, generation : 0 .. MaxRequests,
                   cancelRequested : BOOLEAN, discardResult : BOOLEAN]
    /\ nextGeneration \in 1 .. MaxRequests + 1
    /\ phase \in {"running", "stopping", "stopped"}
    /\ answers \in [Generations -> Nat]
    /\ aborted \subseteq 1 .. nextGeneration - 1
    /\ asserted \subseteq Channels
    /\ released \in [CredentialIds -> 0 .. MaxSignCount]
    /\ granted \in Contexts \cup {NoContext}
    /\ stored \in StorageType
    /\ generation \in 0 .. MaxGeneration
    /\ context \in Contexts \cup {NoContext}
    /\ sequence \in [origin : Channels \cup {NoCid}, owner : Contexts \cup {NoContext},
                     remaining : Seq(Copies)]
    /\ chosen \in Seq(Copies)
    /\ pc \in {"idle", "begin", "context", "exclude", "interact", "commit",
               "publish", "done"}

Init ==
    /\ stored \in LoadedStores
    /\ HandlerInit
    /\ incoming = NoReport
    /\ allocated = {}
    /\ active = NoActive
    /\ nextGeneration = 1
    /\ phase = "running"
    /\ wire = NoPacket
    /\ answers = [g \in Generations |-> 0]
    /\ aborted = {}
    /\ asserted = {}
    /\ released = [id \in CredentialIds |->
                    IF id \in Contained(stored) THEN stored[id].signCount ELSE 0]
    /\ granted = NoContext
    /\ frames = 0

-----------------------------------------------------------------------------
(* A complete message, in the order of the tests of the loop.              *)

(* An INIT or PING response, or a HID error.                               *)
SendOther == wire' = NoPacket

SendError(cid) ==
    /\ SendOther
    /\ UNCHANGED <<handlerVars, allocated, active, nextGeneration, history>>

HandleCancel(r) ==
    /\ IF active.cid = r.cid /\ ~active.discardResult
       THEN active' = [active EXCEPT !.cancelRequested = TRUE] /\ stop' = TRUE
       ELSE UNCHANGED <<active, stop>>
    /\ UNCHANGED <<store, context, sequence, worker, completion, allocated,
                   nextGeneration, wire, history>>

MutAbort(r) ==
    /\ active' = [active EXCEPT !.cancelRequested = TRUE]
    /\ stop' = TRUE
    /\ aborted' = aborted \cup {active.generation}
    /\ UNCHANGED sequence

MutAbortResets(r) ==
    /\ active' = [active EXCEPT !.cancelRequested = TRUE, !.discardResult = TRUE]
    /\ stop' = TRUE
    /\ aborted' = aborted \cup {active.generation}
    /\ sequence' = NoSequence

(* CTAPHID_INIT on the active channel: the request's result is discarded.  *)
Abort(r) ==
    /\ active' = [active EXCEPT !.cancelRequested = TRUE, !.discardResult = TRUE]
    /\ stop' = TRUE
    /\ aborted' = aborted \cup {active.generation}
    /\ UNCHANGED sequence

HandleInit(r) ==
    IF active # NoActive /\ r.cid # active.cid THEN SendError(r.cid)
    ELSE IF r.cid = CTAPHID_BROADCAST_CID
    THEN \E c \in Channels \ allocated :
            /\ allocated' = allocated \cup {c}
            /\ SendOther
            /\ UNCHANGED <<handlerVars, active, nextGeneration, history>>
    ELSE IF r.cid \notin allocated THEN SendError(r.cid)
    ELSE /\ IF active.cid = r.cid THEN Abort(r)
            ELSE sequence' = NoSequence /\ UNCHANGED <<active, stop, aborted>>
         /\ SendOther
         /\ asserted' = asserted \ {r.cid}
         /\ UNCHANGED <<store, context, worker, completion, allocated,
                        nextGeneration, answers, released, granted>>

(* A worker thread is started, with a stop token of its own.               *)
HandleCBOR(r) ==
    IF r.len = 0 THEN SendError(r.cid)
    ELSE /\ nextGeneration <= MaxRequests
         /\ nextGeneration' = nextGeneration + 1
         /\ active' = [NoActive EXCEPT !.cid = r.cid, !.generation = nextGeneration]
         /\ task' = [generation |-> nextGeneration, cid |-> r.cid,
                     command |-> r.payload[1], size |-> r.len]
         /\ pc' = "begin"
         /\ stop' = FALSE
         /\ UNCHANGED <<store, context, sequence, user, chosen, result,
                        completion, allocated, wire, history>>

HandleReport(r) ==
    CASE r.cmd = "CANCEL" -> HandleCancel(r)
      [] r.cmd = "INIT" -> HandleInit(r)
      [] OTHER ->
            IF r.cid \notin allocated \/ active # NoActive THEN SendError(r.cid)
            ELSE CASE r.cmd = "PING" ->
                        /\ SendOther
                        /\ UNCHANGED <<handlerVars, allocated, active,
                                       nextGeneration, history>>
                   [] r.cmd = "CBOR" -> HandleCBOR(r)
                   [] OTHER -> SendError(r.cid)

(* What hosts write: any initial frame, of any length, and any             *)
(* continuation frame.                                                     *)
InitialFrames ==
    {[initial |-> TRUE, cid |-> c, cmd |-> "CBOR", len |-> n, data |-> <<b>>] :
        c \in Cids, n \in 0 .. CTAPHID_MAX_PAYLOAD_SIZE + 1, b \in CommandBytes}
    \cup
    {[initial |-> TRUE, cid |-> c, cmd |-> cmd, len |-> n, data |-> <<3>>] :
        c \in Cids, cmd \in Commands \ {"CBOR"},
        n \in 0 .. CTAPHID_MAX_PAYLOAD_SIZE + 1}

ContinuationFrames ==
    {[initial |-> FALSE, cid |-> c, seq |-> n, data |-> <<3>>] :
        c \in Cids, n \in {0, 1}}

HandleFrame(f) ==
    LET outcome == Process(f, active.cid, allocated)
    IN  /\ phase = "running"
        /\ frames < MaxFrames
        /\ frames' = frames + 1
        /\ incoming' = outcome.incoming
        /\ CASE outcome.result.kind = "error" -> SendError(outcome.result.cid)
             [] outcome.result.kind = "report" -> HandleReport(outcome.result.report)
             [] OTHER ->
                UNCHANGED <<handlerVars, allocated, active, nextGeneration, wire, history>>
        /\ UNCHANGED phase

(* The deadline of the message being assembled passes.                     *)
Expire ==
    /\ phase = "running"
    /\ Assembling
    /\ incoming' = Expired.incoming
    /\ SendError(Expired.result.cid)
    /\ UNCHANGED <<phase, frames>>

-----------------------------------------------------------------------------
(* The end of an iteration that did not `continue'.                        *)

Deliver(packet, cid, g) ==
    /\ wire' = Packet(cid, "answer", g)
    /\ answers' = [answers EXCEPT ![g] = @ + 1]
    /\ IF packet.ok /\ packet.what = "assertion"
       THEN /\ released' = [released EXCEPT ![packet.id] = packet.count]
            /\ asserted' = asserted \cup {cid}
       ELSE asserted' = asserted \ {cid} /\ UNCHANGED released

MutDiscard == UNCHANGED sequence

(* command_handler.reset() after an aborted operation was joined.          *)
Discard == sequence' = NoSequence

(* The completion is taken, the worker joined, the answer sent or dropped. *)
PickUp ==
    /\ phase = "running"
    /\ active # NoActive
    /\ completion.generation = active.generation
    /\ pc = "done"
    /\ completion' = NoCompletion
    /\ task' = NoTask /\ pc' = "idle" /\ user' = NoContext
    /\ chosen' = <<>> /\ result' = NoResult
    /\ active' = NoActive
    /\ IF active.discardResult
       THEN Discard /\ UNCHANGED <<wire, answers, asserted, released>>
       ELSE Deliver(completion.packet, active.cid, active.generation)
            /\ UNCHANGED sequence
    /\ UNCHANGED <<store, context, stop, incoming, allocated, nextGeneration,
                   phase, aborted, granted, frames>>

Keepalive ==
    /\ phase = "running"
    /\ active # NoActive
    /\ ~active.cancelRequested
    /\ wire' = Packet(active.cid, "keepalive", active.generation)
    /\ UNCHANGED <<handlerVars, incoming, allocated, active, nextGeneration,
                   phase, history, frames>>

(* A signal, or an exception that leaves run(): the worker is asked to     *)
(* stop, and joined.                                                       *)
Shutdown ==
    /\ phase = "running"
    /\ phase' = "stopping"
    /\ stop' = TRUE
    /\ UNCHANGED <<store, context, sequence, worker, completion, incoming,
                   allocated, active, nextGeneration, wire, history, frames>>

Joined ==
    /\ phase = "stopping"
    /\ pc \in {"idle", "done"}
    /\ phase' = "stopped"
    /\ UNCHANGED <<handlerVars, incoming, allocated, active, nextGeneration,
                   wire, history, frames>>

(* A step of the worker; a GetAssertion that reaches its commit fixes the  *)
(* context that its continuations are for, and of a new credential no      *)
(* counter was sent.                                                       *)
Worker ==
    /\ WorkerStep
    /\ granted' = IF task.command = GetAssertion /\ pc = "commit" THEN user ELSE granted
    /\ released' = [id \in CredentialIds |->
                     IF stored[id] = NoCredential /\ stored'[id] # NoCredential
                     THEN 0 ELSE released[id]]
    /\ UNCHANGED <<loopVars, answers, aborted, asserted, frames>>

Agents ==
    /\ phase # "stopped"
    /\ ContextChanges
    /\ UNCHANGED <<loopVars, history, frames>>

Next ==
    \/ \E f \in InitialFrames \cup ContinuationFrames : HandleFrame(f)
    \/ Expire
    \/ PickUp
    \/ Keepalive
    \/ Shutdown
    \/ Joined
    \/ Worker
    \/ Agents

(* The loop polls with a timeout while a request is active, the worker is  *)
(* a thread whose waits end with the user's answer, their timeout or the   *)
(* stop token, and join() waits.                                           *)
Fairness ==
    /\ WF_vars(PickUp)
    /\ WF_vars(Joined)
    /\ WF_vars(Worker)

Spec == Init /\ [][Next]_vars /\ Fairness

-----------------------------------------------------------------------------
(* The event loop touches command_handler (CTAPHID_INIT on an idle device, *)
(* and a discarded result) only when no worker can be inside it: a worker  *)
(* thread that has not been joined is the active task's, and the handler   *)
(* state changes by the worker's own steps or while it is not running.     *)
HandlerOwned ==
    [][sequence' # sequence => pc \in {"idle", "done"} \/ pc' # pc]_vars

(* Every request that is no longer active was answered exactly once, or    *)
(* never when INIT aborted it; the active one was not answered yet, and a  *)
(* keepalive follows neither its answer nor the abort.  So after INIT was  *)
(* answered, nothing of an earlier request is sent to the channel.         *)
AnsweredOnce ==
    /\ \A g \in Generations :
           answers[g] = IF g \in (1 .. nextGeneration - 1) \ (aborted \cup {active.generation})
                        THEN 1 ELSE 0
    /\ wire.kind = "keepalive" => answers[wire.generation] = 0 /\ wire.generation \notin aborted

(* "A cancelled operation cannot publish a cached assertion"               *)
(* (ARCHITECTURE.md): between requests, continuation state exists only on  *)
(* a channel whose last answer was an assertion.                           *)
ContinuationFollowsAssertion ==
    active = NoActive /\ sequence.origin # NoCid =>
        sequence.origin \in asserted

(* The counter in a finished assertion is the one the store has committed, *)
(* although it was computed from a copy that a continuation may have kept  *)
(* for long.                                                               *)
CounterIsCommitted ==
    result.ok /\ result.what = "assertion" =>
        /\ stored[result.id] # NoCredential
        /\ result.count = stored[result.id].signCount

(* The counters that hosts receive for a credential strictly increase.     *)
CountersIncrease ==
    [][answers' # answers /\ completion.packet.ok /\ completion.packet.what = "assertion"
        => completion.packet.count > released[completion.packet.id]]_vars

(* Every assertion of a sequence is made for the user context that the     *)
(* GetAssertion was made for, and of a credential of that user.            *)
SameContext ==
    result.ok /\ result.what = "assertion" =>
        /\ result.for = granted
        /\ stored[result.id].ownerUid = granted.uid

(* Every accepted request ends, also an abandoned one, unless the loop     *)
(* stops: the device becomes idle again, after which AnsweredOnce says     *)
(* that the request was answered or aborted.                               *)
RequestEnds == active # NoActive ~> active = NoActive \/ phase = "stopped"
=============================================================================
