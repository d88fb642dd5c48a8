----------------------------- MODULE MCVerifier -----------------------------
(* One verification with a few PAM messages; and the packets, at sizes     *)
(* around each limit.  Texts begin with every byte at which the validator  *)
(* changes its mind; uids stay below 2^31, the largest integer of TLC.     *)
EXTENDS Verifier, VerifierProtocol

UpTo(n, S) == UNION {[1 .. k -> S] : k \in 0 .. n}

Firsts == {31, 32, 126, 127, 128, 191, 193, 194, 195, 223, 224, 225, 236, 237, 238, 239,
           240, 241, 243, 244, 245, 255}
Seconds == {65, 127, 128, 143, 144, 159, 160, 191, 192}
Others == {65, 128, 191}

Texts == {<<>>} \cup {<<b>> : b \in Firsts}
         \cup {<<b>> \o t : b \in Firsts,
                t \in {<<c>> \o r : c \in Seconds, r \in UpTo(2, Others)}}
         \cup UpTo(5, {65})

Sessions == UpTo(3, {0, 99})
Passwords == UpTo(4, {0, 112})
Uids == {0, 1, 255, 256, 65535, 65536, 16777216, 2147483647}

SmallMessages ==
    [type : {"start"}, targetUid : Uids, sessionId : Sessions]
    \cup [type : {"secret_response"}, secret : Passwords]
    \cup [type : {"cancel"}]
    \cup [type : {"status"}, kind : 0 .. 3, message : Texts]
    \cup [type : {"secret_required"}, prompt : Texts]
    \cup [type : {"complete"}, result : 0 .. 4]

SmallPackets ==
    {<<v, t>> \o p : v \in 0 .. 2, t \in 0 .. 7, p \in UpTo(2, 0 .. 4)}
    \cup {<<1, 1>> \o p : p \in UpTo(7, {0, 99})}
    \cup {<<1, t>> \o p : t \in 2 .. 6, p \in Texts}
    \cup {<<1, 4, 1>> \o p : p \in Texts}
    \cup {<<1, 2>> \o p : p \in UpTo(8, {7})}
    \cup {<<>>, <<1>>}

(* A message is encoded exactly if it is valid, by the definition of UTF-8 *)
(* for its text, and decodes to itself; a packet of any bytes decodes only *)
(* to a valid message whose encoding it is.  So every text that reaches    *)
(* the agent's D-Bus signal is displayable UTF-8.  (It speaks of no state, *)
(* and is evaluated in the initial one.)                                   *)
CodecExact == Init => Misencoded = {} /\ Misdecoded = {}

(* The secret that an agent wrote reaches PAM as it is or not at all: the  *)
(* pipe is read to its end however read() cuts it, a longer one is never   *)
(* truncated, and what the daemon accepts the encoder does not refuse.     *)
SecretUnchanged == Init => Misread = {}
=============================================================================
