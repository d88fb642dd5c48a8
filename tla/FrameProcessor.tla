--------------------------- MODULE FrameProcessor ---------------------------
(***************************************************************************)
(* CTAPHIDFrameProcessor: 64-byte HID frames of several channels become    *)
(* CTAPHID messages.  At most one message is being assembled at a time.    *)
(*                                                                         *)
(* A frame carries `data', the bytes after its header.  The code's sizes   *)
(* are constants; bytes are left abstract.                                 *)
(***************************************************************************)
EXTENDS Integers, Sequences

CONSTANTS
    Channels,                   \* 32-bit channel IDs but the broadcast one
    CTAPHID_BROADCAST_CID,
    NoChannel,                  \* std::nullopt for active_cid
    Bytes,                      \* payload bytes
    MAX_INIT_PAYLOAD_SIZE,      \* 57
    MAX_CONT_PAYLOAD_SIZE,      \* 59
    CTAPHID_MAX_PAYLOAD_SIZE,   \* 7609
    INIT_NONCE_SIZE             \* 8, the length of a CTAPHID_INIT request

ASSUME FrameSizes ==
    /\ MAX_INIT_PAYLOAD_SIZE \in Nat
    /\ MAX_CONT_PAYLOAD_SIZE \in Nat \ {0}
    /\ CTAPHID_MAX_PAYLOAD_SIZE \in Nat
    /\ INIT_NONCE_SIZE \in 1 .. MAX_INIT_PAYLOAD_SIZE

(* Seven bits of a continuation frame hold its sequence number, so the     *)
(* longest message needs at most 128 continuation frames.                  *)
SequenceNumbers == 128

ASSUME PayloadFitsSequence ==
    CTAPHID_MAX_PAYLOAD_SIZE <=
        MAX_INIT_PAYLOAD_SIZE + SequenceNumbers * MAX_CONT_PAYLOAD_SIZE

Cids == Channels \cup {CTAPHID_BROADCAST_CID}

ASSUME BroadcastIsNoChannel == CTAPHID_BROADCAST_CID \notin Channels

ASSUME NoChannelIsNone == NoChannel \notin Cids

Commands == {"INIT", "CANCEL", "PING", "CBOR", "OTHER"}

HIDErrors == {"INVALID_LENGTH", "CHANNEL_BUSY", "INVALID_CHANNEL",
              "INVALID_SEQ", "TIMEOUT", "INVALID_COMMAND"}

(* UHIDReport: a message, complete or being assembled.                     *)
Report == [cid : Cids \cup {NoChannel}, cmd : Commands,
           len : 0 .. CTAPHID_MAX_PAYLOAD_SIZE, payload : Seq(Bytes), seq : Nat]

NoReport == [cid |-> NoChannel, cmd |-> "OTHER", len |-> 0, payload |-> <<>>,
             seq |-> 0]

(* FrameProcessingResult.                                                  *)
Nothing == [kind |-> "nothing"]
Completed(r) == [kind |-> "report", report |-> r]
Failed(cid, error) == [kind |-> "error", cid |-> cid, error |-> error]

Smaller(a, b) == IF a <= b THEN a ELSE b
Take(data, n) == SubSeq(data, 1, n)

(* What process() returns, and the incoming_ it leaves.                    *)
Outcome(result, r) == [result |-> result, incoming |-> r]

VARIABLE incoming               \* incoming_, or NoReport

Assembling == incoming.cid # NoChannel

-----------------------------------------------------------------------------
(* process(): a continuation frame.                                        *)

MutContinues(f) == Assembling

Continues(f) == Assembling /\ f.cid = incoming.cid

Extended(f) ==
    LET remaining == incoming.len - Len(incoming.payload)
    IN  [incoming EXCEPT
            !.seq = @ + 1,
            !.payload = @ \o Take(f.data, Smaller(remaining, MAX_CONT_PAYLOAD_SIZE))]

(* A message is returned when its payload has the announced length.        *)
Advance(r) ==
    IF Len(r.payload) = r.len THEN Outcome(Completed(r), NoReport)
                              ELSE Outcome(Nothing, r)

ProcessContinuation(f) ==
    IF ~Continues(f) THEN Outcome(Nothing, incoming)
    ELSE IF f.seq # incoming.seq
         THEN Outcome(Failed(incoming.cid, "INVALID_SEQ"), NoReport)
    ELSE Advance(Extended(f))

-----------------------------------------------------------------------------
(* process(): an initial frame.                                            *)

BadLength(f) ==
    \/ f.len > CTAPHID_MAX_PAYLOAD_SIZE
    \/ f.cmd = "INIT" /\ f.len # INIT_NONCE_SIZE
    \/ f.cmd = "CANCEL" /\ f.len # 0

StrayCancel(f, activeCid) == f.cmd = "CANCEL" /\ f.cid # activeCid

MutBusy(f, activeCid) == Assembling /\ f.cid # incoming.cid

Busy(f, activeCid) ==
    \/ /\ activeCid # NoChannel
       /\ ~(f.cid = activeCid /\ f.cmd \in {"CANCEL", "INIT"})
    \/ Assembling /\ f.cid # incoming.cid

UnknownChannel(f, allocated) ==
    /\ ~(f.cid = CTAPHID_BROADCAST_CID /\ f.cmd = "INIT")
    /\ f.cid \notin allocated

Started(f) ==
    [cid |-> f.cid, cmd |-> f.cmd, len |-> f.len, seq |-> 0,
     payload |-> Take(f.data, Smaller(f.len, MAX_INIT_PAYLOAD_SIZE))]

(* The checks in the order of the code's early returns; the first four     *)
(* leave a message being assembled alone.                                  *)
ProcessInitial(f, activeCid, allocated) ==
    IF BadLength(f) THEN Outcome(Failed(f.cid, "INVALID_LENGTH"), incoming)
    ELSE IF StrayCancel(f, activeCid) THEN Outcome(Nothing, incoming)
    ELSE IF Busy(f, activeCid)
         THEN Outcome(Failed(f.cid, "CHANNEL_BUSY"), incoming)
    ELSE IF UnknownChannel(f, allocated)
         THEN Outcome(Failed(f.cid, "INVALID_CHANNEL"), incoming)
    ELSE IF Assembling /\ f.cmd # "INIT"
         THEN Outcome(Failed(incoming.cid, "INVALID_SEQ"), NoReport)
    ELSE Advance(Started(f))

Process(f, activeCid, allocated) ==
    IF f.initial THEN ProcessInitial(f, activeCid, allocated)
                 ELSE ProcessContinuation(f)

MutExpired == Outcome(Nothing, NoReport)

(* expire(): three seconds after its first frame a message is given up.    *)
Expired == Outcome(Failed(incoming.cid, "TIMEOUT"), NoReport)

-----------------------------------------------------------------------------
(* CTAPPacket::stringify, the reverse direction: the data of the frames of *)
(* a payload; frame 1 is initial, frame n + 2 has sequence number n.       *)
FrameCount(n) ==
    IF n <= MAX_INIT_PAYLOAD_SIZE THEN 1
    ELSE 1 + (n - MAX_INIT_PAYLOAD_SIZE + MAX_CONT_PAYLOAD_SIZE - 1)
                \div MAX_CONT_PAYLOAD_SIZE

FrameStart(k) ==
    IF k = 1 THEN 1
    ELSE MAX_INIT_PAYLOAD_SIZE + (k - 2) * MAX_CONT_PAYLOAD_SIZE + 1

FrameRoom(k) == IF k = 1 THEN MAX_INIT_PAYLOAD_SIZE ELSE MAX_CONT_PAYLOAD_SIZE

Padded(payload, padding, k) ==
    [i \in 1 .. FrameRoom(k) |->
        LET at == FrameStart(k) + i - 1
        IN  IF at <= Len(payload) THEN payload[at] ELSE padding]

Stringify(cid, cmd, payload, padding) ==
    [k \in 1 .. FrameCount(Len(payload)) |->
        IF k = 1
        THEN [initial |-> TRUE, cid |-> cid, cmd |-> cmd, len |-> Len(payload),
              data |-> Padded(payload, padding, 1)]
        ELSE [initial |-> FALSE, cid |-> cid, seq |-> k - 2,
              data |-> Padded(payload, padding, k)]]
=============================================================================
