-------------------------- MODULE VerifierProtocol --------------------------
(***************************************************************************)
(* The packets of the verifier protocol: encode_verifier_message and       *)
(* decode_verifier_message on bytes, and read_secret_pipe, which hands the *)
(* agent's secret to the encoder.  An exception is the value NoPacket      *)
(* where bytes are built and Throws elsewhere.                             *)
(***************************************************************************)
EXTENDS Integers, Sequences

CONSTANTS
    MAX_SESSION_ID_SIZE,
    MAX_VERIFICATION_TEXT_SIZE,
    MAX_SECRET_SIZE,
    Messages,       \* what is given to encode_verifier_message,
    Packets,        \* to decode_verifier_message
    Secrets         \* and to read_secret_pipe

ASSUME LimitsPositive ==
    /\ MAX_SESSION_ID_SIZE \in Nat \ {0}
    /\ MAX_VERIFICATION_TEXT_SIZE \in Nat \ {0}
    /\ MAX_SECRET_SIZE \in Nat \ {0}

Bytes == 0 .. 255
Uint32s == {u \in Nat : u \div 2^24 < 2^8}

(* The values of VerifierMessage.  Its enumerations may hold any byte.      *)
AllMessages ==
    [type : {"start"}, targetUid : Uint32s, sessionId : Seq(Bytes)]
    \cup [type : {"secret_response"}, secret : Seq(Bytes)]
    \cup [type : {"cancel"}]
    \cup [type : {"status"}, kind : Bytes, message : Seq(Bytes)]
    \cup [type : {"secret_required"}, prompt : Seq(Bytes)]
    \cup [type : {"complete"}, result : Bytes]

ASSUME InputsTyped ==
    Messages \subseteq AllMessages /\ Packets \subseteq Seq(Bytes) /\ Secrets \subseteq Seq(Bytes)

Throws == [type |-> "throws"]
NoPacket == <<>>

VERIFIER_PROTOCOL_VERSION == 1
MessageType == [start |-> 1, secret_response |-> 2, cancel |-> 3, status |-> 4,
                secret_required |-> 5, complete |-> 6]

Contains(bytes, b) == \E i \in 1 .. Len(bytes) : bytes[i] = b

-----------------------------------------------------------------------------
(* Validation.                                                             *)

SessionIdValid(session) ==
    /\ session # <<>>
    /\ Len(session) <= MAX_SESSION_ID_SIZE
    /\ ~Contains(session, 0)

SecretValid(secret) == Len(secret) <= MAX_SECRET_SIZE /\ ~Contains(secret, 0)

IsContinuationByte(b) == b \in 128 .. 191

(* The second bytes that validate_display_text takes after `first': no     *)
(* surrogate, no overlong form, nothing above U+10FFFF, no C1 control.     *)
MutSecondByte(first) ==
    CASE first = 194 -> 160 .. 191
      [] first = 224 -> 160 .. 191
      [] first = 240 -> 144 .. 191
      [] first = 244 -> 128 .. 143
      [] OTHER -> 128 .. 191

SecondByte(first) ==
    CASE first = 194 -> 160 .. 191
      [] first = 224 -> 160 .. 191
      [] first = 237 -> 128 .. 159
      [] first = 240 -> 144 .. 191
      [] first = 244 -> 128 .. 143
      [] OTHER -> 128 .. 191

CharacterSize(first) ==
    CASE first \in 32 .. 126 -> 1
      [] first \in 194 .. 223 -> 2
      [] first \in 224 .. 239 -> 3
      [] first \in 240 .. 244 -> 4
      [] OTHER -> 0

(* The length of the character that begins at i, or 0 where it throws.     *)
CharacterAt(text, i) ==
    LET size == CharacterSize(text[i])
    IN  IF /\ i + size - 1 <= Len(text)
           /\ size >= 2 => text[i + 1] \in SecondByte(text[i])
           /\ \A k \in 2 .. size - 1 : IsContinuationByte(text[i + k])
        THEN size ELSE 0

DisplayTextValid(text) ==
    /\ Len(text) <= MAX_VERIFICATION_TEXT_SIZE
    /\ LET from[i \in 1 .. Len(text) + 1] ==
            i <= Len(text) =>
                CharacterAt(text, i) # 0 /\ from[i + CharacterAt(text, i)]
       IN  from[1]

-----------------------------------------------------------------------------
(* encode_verifier_message.                                                *)

WriteUint32(value) ==
    <<(value \div 2^24) % 256, (value \div 2^16) % 256, (value \div 2^8) % 256, value % 256>>

ReadUint32(b) == b[1] * 2^24 + b[2] * 2^16 + b[3] * 2^8 + b[4]

Packet(type, payload) == <<VERIFIER_PROTOCOL_VERSION, MessageType[type]>> \o payload

Checked(valid, type, payload) == IF valid THEN Packet(type, payload) ELSE NoPacket

Encode(m) ==
    CASE m.type = "start" ->
            Checked(SessionIdValid(m.sessionId), "start", WriteUint32(m.targetUid) \o m.sessionId)
      [] m.type = "secret_response" -> Checked(SecretValid(m.secret), "secret_response", m.secret)
      [] m.type = "cancel" -> Packet("cancel", <<>>)
      [] m.type = "status" ->
            Checked(m.kind \in {1, 2} /\ DisplayTextValid(m.message), "status",
                    <<m.kind>> \o m.message)
      [] m.type = "secret_required" ->
            Checked(DisplayTextValid(m.prompt), "secret_required", m.prompt)
      [] m.type = "complete" -> Checked(m.result \in {1, 2, 3}, "complete", <<m.result>>)

(* decode_verifier_message.                                                *)
Larger(a, b) == IF a > b THEN a ELSE b
Smaller(a, b) == IF a < b THEN a ELSE b
MAX_VERIFIER_PACKET_SIZE ==
    2 + Larger(4 + MAX_SESSION_ID_SIZE, Larger(MAX_SECRET_SIZE, 1 + MAX_VERIFICATION_TEXT_SIZE))

From(payload, n) == SubSeq(payload, n + 1, Len(payload))

DecodePayload(code, payload) ==
    CASE /\ code = 1
         /\ Len(payload) > 4
         /\ Len(payload) <= 4 + MAX_SESSION_ID_SIZE
         /\ SessionIdValid(From(payload, 4)) ->
            [type |-> "start", targetUid |-> ReadUint32(payload), sessionId |-> From(payload, 4)]
      [] code = 2 /\ SecretValid(payload) -> [type |-> "secret_response", secret |-> payload]
      [] code = 3 /\ payload = <<>> -> [type |-> "cancel"]
      [] /\ code = 4
         /\ payload # <<>>
         /\ Len(payload) <= 1 + MAX_VERIFICATION_TEXT_SIZE
         /\ payload[1] \in {1, 2}
         /\ DisplayTextValid(From(payload, 1)) ->
            [type |-> "status", kind |-> payload[1], message |-> From(payload, 1)]
      [] code = 5 /\ DisplayTextValid(payload) -> [type |-> "secret_required", prompt |-> payload]
      [] code = 6 /\ Len(payload) = 1 /\ payload[1] \in {1, 2, 3} ->
            [type |-> "complete", result |-> payload[1]]
      [] OTHER -> Throws

Decode(packet) ==
    IF \/ Len(packet) < 2
       \/ Len(packet) > MAX_VERIFIER_PACKET_SIZE
       \/ packet[1] # VERIFIER_PROTOCOL_VERSION
    THEN Throws
    ELSE DecodePayload(packet[2], From(packet, 2))

-----------------------------------------------------------------------------
(* read_secret_pipe on a pipe that holds `data'.  `closed': its other end  *)
(* is closed, else a read() of the empty pipe fails.  `most[used]': what   *)
(* read() returns at most after `used' bytes.  A read() that has no room   *)
(* returns 0, as one at the end of the file does.                          *)
MutSecretBuffer == MAX_SECRET_SIZE

SecretBuffer == MAX_SECRET_SIZE + 1

ReadSecretPipe(data, closed, most) ==
    LET read[used \in 0 .. SecretBuffer] ==
            LET room == SecretBuffer - used
                count == Smaller(Smaller(room, Len(data) - used), most[used])
            IN  IF used > MAX_SECRET_SIZE THEN Throws
                ELSE IF count > 0 THEN read[used + count]
                ELSE IF room > 0 /\ ~closed THEN Throws
                ELSE IF Contains(SubSeq(data, 1, used), 0) THEN Throws
                ELSE [type |-> "secret_response", secret |-> SubSeq(data, 1, used)]
    IN  read[0]

-----------------------------------------------------------------------------
(* What display text is, by the code points it encodes.                    *)

Utf8(c) ==
    IF c < 2^7 THEN <<c>>
    ELSE IF c < 2^11 THEN <<192 + c \div 64, 128 + (c % 64)>>
    ELSE IF c < 2^16 THEN <<224 + c \div 64^2, 128 + ((c \div 64) % 64), 128 + (c % 64)>>
    ELSE <<240 + c \div 64^3, 128 + ((c \div 64^2) % 64), 128 + ((c \div 64) % 64), 128 + (c % 64)>>

(* No control character, no surrogate.                                     *)
Displayable(c) ==
    \/ 32 <= c /\ c <= 126
    \/ 160 <= c /\ c <= 55295
    \/ 57344 <= c /\ c <= 1114111

CodePoint(b) ==
    CASE Len(b) = 1 -> b[1]
      [] Len(b) = 2 -> (b[1] % 32) * 64 + (b[2] % 64)
      [] Len(b) = 3 -> (b[1] % 16) * 64^2 + (b[2] % 64) * 64 + (b[3] % 64)
      [] OTHER -> (b[1] % 8) * 64^3 + (b[2] % 64) * 64^2 + (b[3] % 64) * 64 + (b[4] % 64)

IsCharacter(b) == Displayable(CodePoint(b)) /\ Utf8(CodePoint(b)) = b

IsText(bytes) ==
    LET from[i \in 1 .. Len(bytes) + 1] ==
            i <= Len(bytes) =>
                \E n \in 1 .. 4 :
                    /\ i + n - 1 <= Len(bytes)
                    /\ IsCharacter(SubSeq(bytes, i, i + n - 1))
                    /\ from[i + n]
    IN  Len(bytes) <= MAX_VERIFICATION_TEXT_SIZE /\ from[1]

MessageValid(m) ==
    CASE m.type = "start" -> SessionIdValid(m.sessionId)
      [] m.type = "secret_response" -> SecretValid(m.secret)
      [] m.type = "cancel" -> TRUE
      [] m.type = "status" -> m.kind \in {1, 2} /\ IsText(m.message)
      [] m.type = "secret_required" -> IsText(m.prompt)
      [] m.type = "complete" -> m.result \in {1, 2, 3}

(* The messages that are not encoded exactly if they are valid, or do not  *)
(* decode to themselves; the packets that decode to an invalid message or  *)
(* to one with another encoding.                                           *)
Misencoded ==
    {m \in Messages :
        IF MessageValid(m) THEN Decode(Encode(m)) # m ELSE Encode(m) # NoPacket}

Misdecoded ==
    {p \in Packets :
        Decode(p) # Throws /\ ~(MessageValid(Decode(p)) /\ Encode(Decode(p)) = p)}

(* The secrets that do not reach PAM as they were written, or reach it     *)
(* though the pipe failed or they are not valid.                           *)
Misread ==
    {data \in Secrets :
        \E closed \in BOOLEAN, most \in [0 .. MAX_SECRET_SIZE -> 1 .. SecretBuffer] :
            LET response == ReadSecretPipe(data, closed, most)
            IN  IF closed /\ SecretValid(data)
                THEN Decode(Encode(response)) # [type |-> "secret_response", secret |-> data]
                ELSE response # Throws}
=============================================================================
