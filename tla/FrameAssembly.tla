--------------------------- MODULE FrameAssembly ---------------------------
(***************************************************************************)
(* Hosts on several channels write messages, framed by stringify (the      *)
(* daemon frames its answers the same way), to one frame processor.  The   *)
(* frames of different channels interleave; a host may abandon a message   *)
(* half way; a message may time out; a complete CBOR message keeps its     *)
(* channel active until the request is done.                               *)
(***************************************************************************)
EXTENDS FrameProcessor, FiniteSets

CONSTANTS
    MaxMessages             \* bound: messages written in a behaviour

ASSUME MessageBound == MaxMessages \in Nat

Hosts == Channels

(* Bytes are <<message, position>>, so a byte tells where it came from.    *)
Payload(m, n) == [i \in 1 .. n |-> <<m, i>>]
Padding == <<0, 0>>

ASSUME BytesTellTheirMessage ==
    (0 .. MaxMessages) \X (0 .. CTAPHID_MAX_PAYLOAD_SIZE + 1) \subseteq Bytes

VARIABLES
    allocated,              \* allocated_cids of the event loop
    active,                 \* the channel of the request being executed
    outbox,                 \* per channel, the frames still to be written
    message,                \* per channel, the message being written
    result,                 \* what process() or expire() returned last
    settled,                \* channels whose message was completed or refused
    messages                \* the number of messages written so far

frameVars == <<incoming, allocated, active, outbox, message, result, settled, messages>>

(* What a host writes: any length field, and data that fills the frame.    *)
Frame ==
    [initial : {TRUE}, cid : Hosts, cmd : Commands, len : Nat,
     data : [1 .. MAX_INIT_PAYLOAD_SIZE -> Bytes]]
    \cup
    [initial : {FALSE}, cid : Hosts, seq : Nat,
     data : [1 .. MAX_CONT_PAYLOAD_SIZE -> Bytes]]

NoMessage == [cmd |-> "OTHER", payload |-> <<>>]

(* Types; no message is assembled that announces more than the largest     *)
(* payload: process() refuses its first frame.                             *)
FrameTypeOK ==
    /\ incoming \in Report
    /\ allocated \subseteq Channels
    /\ active \in Channels \cup {NoChannel}
    /\ outbox \in [Hosts -> Seq(Frame)]
    /\ message \in [Hosts -> [cmd : Commands, payload : Seq(Bytes)]]
    /\ settled \subseteq Hosts
    /\ messages \in 0 .. MaxMessages

FrameInit ==
    /\ incoming = NoReport
    /\ allocated \in SUBSET Channels
    /\ active = NoChannel
    /\ outbox = [c \in Hosts |-> <<>>]
    /\ message = [c \in Hosts |-> NoMessage]
    /\ result = Nothing
    /\ settled = Hosts
    /\ messages = 0

(* A host starts a message, perhaps abandoning the one it was writing.     *)
Write(c, cmd, n) ==
    /\ messages < MaxMessages
    /\ messages' = messages + 1
    /\ message' = [message EXCEPT ![c] =
                      [cmd |-> cmd, payload |-> Payload(messages + 1, n)]]
    /\ outbox' = [outbox EXCEPT ![c] =
                      Stringify(c, cmd, Payload(messages + 1, n), Padding)]
    /\ settled' = settled \ {c}
    /\ UNCHANGED <<incoming, allocated, active, result>>

(* The processor returned a message or an error to a channel.              *)
Settles(r) ==
    CASE r.kind = "report" -> {r.report.cid}
      [] r.kind = "error" -> {r.cid}
      [] OTHER -> {}

Apply(outcome) ==
    /\ incoming' = outcome.incoming
    /\ result' = outcome.result
    /\ settled' = settled \cup Settles(outcome.result)
    /\ active' = IF /\ outcome.result.kind = "report"
                    /\ outcome.result.report.cmd = "CBOR"
                 THEN outcome.result.report.cid ELSE active

Deliver(c) ==
    /\ outbox[c] # <<>>
    /\ Apply(Process(Head(outbox[c]), active, allocated))
    /\ outbox' = [outbox EXCEPT ![c] = Tail(@)]
    /\ UNCHANGED <<allocated, message, messages>>

TimeOut ==
    /\ Assembling
    /\ Apply(Expired)
    /\ UNCHANGED <<allocated, outbox, message, messages>>

Finish ==
    /\ active # NoChannel
    /\ active' = NoChannel
    /\ UNCHANGED <<incoming, allocated, outbox, message, result, settled, messages>>

FrameNext ==
    \/ \E c \in Hosts :
        \/ \E cmd \in {"INIT", "CANCEL", "PING", "CBOR"}, n \in 0 .. CTAPHID_MAX_PAYLOAD_SIZE + 1 :
                Write(c, cmd, n)
        \/ Deliver(c)
    \/ TimeOut
    \/ Finish

FrameSpec == FrameInit /\ [][FrameNext]_frameVars

-----------------------------------------------------------------------------
(* Framing round trip: a message the processor returns is, command, length *)
(* and every byte in order, the message the host of that channel is        *)
(* writing, however frames of other channels interleave and whatever was   *)
(* abandoned before.  A message refused for its length is the exception:   *)
(* its initial frame does not end the message it interrupts, whose         *)
(* continuation frames it may then supply.                                 *)
RoundTrip ==
    result.kind = "report" =>
        LET r == result.report
            written == message[r.cid]
        IN  /\ r.cid \in settled
            /\ ~BadLength([cmd |-> written.cmd, len |-> Len(written.payload)])
            => r.cmd = written.cmd /\ r.payload = written.payload

(* No silent loss: when a host has written the last frame of a message,    *)
(* the message was returned or an error was sent on its channel.  Only a   *)
(* CANCEL with nothing to cancel is ignored.                               *)
NoSilentLoss ==
    \A c \in Hosts :
        outbox[c] = <<>> /\ message[c].cmd # "CANCEL" => c \in settled

(* While a request is executed nothing is being assembled: the second half *)
(* of the busy checks in the event loop is never needed, and a message     *)
(* never completes into a busy device.                                     *)
ActiveExcludesIncoming == active # NoChannel => ~Assembling

(* The sequence number of the next continuation frame follows from the     *)
(* bytes received, and stays within seven bits: it never wraps and never   *)
(* sets the bit that marks an initial frame.                               *)
SequenceMatchesPayload ==
    Assembling =>
        /\ Len(incoming.payload) =
               MAX_INIT_PAYLOAD_SIZE + incoming.seq * MAX_CONT_PAYLOAD_SIZE
        /\ Len(incoming.payload) < incoming.len
        /\ incoming.seq < SequenceNumbers
=============================================================================
