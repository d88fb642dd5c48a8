---------------------------- MODULE MCEventLoop ----------------------------
(* Model checking EventLoop: messages of one or two frames, two agents of  *)
(* one user, and a store that is empty or holds two accounts, one of which *)
(* was used once; and requests with each member right, absent, of a wrong  *)
(* kind or at and past its limit.                                          *)
EXTENDS EventLoop, CborResponses

CONSTANTS c1, c2

TwoAgents == {[uid |-> "u", session |-> 1], [uid |-> "u", session |-> 2]}

TwoAccounts ==
    [id \in CredentialIds |->
        IF id = 1 THEN [NewCredential("u", "rp", "alice", TRUE, 1) EXCEPT !.signCount = 1]
        ELSE IF id = 2 THEN NewCredential("u", "rp", "bob", TRUE, 2)
        ELSE NoCredential]

EmptyOrTwoAccounts == {EmptyStorage, TwoAccounts}

Num(n) == [kind |-> "uint", value |-> n]
Neg(n) == [kind |-> "nint", value |-> n - 1]         \* the integer -n
Txt(v, n) == [kind |-> "text", value |-> v, length |-> n]
Byt(v, n) == [kind |-> "bytes", value |-> v, length |-> n]
Flag(b) == [kind |-> "bool", value |-> b]
MapOf(entries) == [kind |-> "map", entries |-> entries]
List(items) == [kind |-> "array", items |-> items]
Entry(name, v) == <<Txt(name, 4), v>>
Absent == <<>>
Here(v) == <<v>>

(* The payload whose members 1, 2, ... are those given, if present.        *)
Payload(members) ==
    LET present == SelectSeq([i \in DOMAIN members |-> <<i, members[i]>>],
                             LAMBDA m : m[2] # Absent)
    IN  [root |-> MapOf([i \in DOMAIN present |->
                            <<Num(present[i][1]), present[i][2][1]>>]),
         trailing |-> FALSE]

(* The payloads with at most two members other than the first alternative. *)
Varied(alternatives) ==
    LET Choice(i, a, j, b) ==
            [k \in DOMAIN alternatives |->
                alternatives[k][IF k = i THEN a ELSE IF k = j THEN b ELSE 1]]
    IN  UNION {{Payload(Choice(i, a, j, b)) :
                    a \in DOMAIN alternatives[i], b \in DOMAIN alternatives[j]} :
                i, j \in DOMAIN alternatives}

Key == Txt("public-key", 10)
Descriptors ==
    <<Absent, Here(List(<<>>)), Here(Flag(TRUE)),
      Here(List(<<MapOf(<<Entry("id", Byt("k", 7609)), Entry("type", Key),
                          Entry("transports", List(<<Txt("usb", 3)>>))>>)>>)),
      Here(List(<<MapOf(<<Entry("type", Key), Entry("id", Byt("", 0))>>)>>)),
      Here(List(<<MapOf(<<Entry("type", Key), Entry("type", Key)>>)>>))>>
Options ==
    <<Absent, Here(MapOf(<<Entry("uv", Flag(TRUE)), Entry("plat", List(<<>>))>>)),
      Here(MapOf(<<Entry("rk", Flag(TRUE)), Entry("up", Flag(FALSE))>>)),
      Here(MapOf(<<Entry("uv", Flag(TRUE)), Entry("uv", Flag(FALSE))>>))>>
Hashes == <<Here(Byt("h", 32)), Here(Byt("h", 31))>>
Pins == <<Absent, Here(Byt("p", 64))>>

GetAssertions ==
    Varied(<< <<Here(Txt("rp", 253)), Here(Txt("rp", 254)), Absent>>, Hashes, Descriptors,
              <<Absent>>, Options, Pins>>)

Rp(n) == Here(MapOf(<<Entry("id", Txt("rp", n)), Entry("name", Txt("n", 64))>>))
Account(n, m) == Here(MapOf(<<Entry("id", Byt("u", n)), Entry("displayName", Txt("d", m))>>))
Algorithm(alg) == Here(List(<<MapOf(<<Entry("type", Key), Entry("alg", alg)>>)>>))

MakeCredentials ==
    Varied(<<Hashes, <<Rp(253), Rp(0)>>,
             <<Account(64, 64), Account(1, 0), Account(0, 64), Account(64, 65)>>,
             <<Algorithm(Neg(7)), Algorithm(Neg(2^(IntBits - 1))),
               Algorithm(Num(2^(IntBits - 1))), Algorithm(Key)>>,
             Descriptors, <<Absent>>, Options>>)

MisreadRequests ==
    Misread(ParseMakeCredential, NewMakeCredential, MakeCredentials)
    \cup Misread(ParseGetAssertion, NewGetAssertion, GetAssertions)

UnservedRequests == Unserved(MakeCredentials)

(* A request is read as what it says and nothing else: neither the order   *)
(* of its members, nor members the parser does not know, nor what an       *)
(* earlier request, accepted or rejected half way, left in the object show *)
(* in the result; and one with a member repeated, malformed or of a wrong  *)
(* key, or with bytes behind it, is rejected and leaves the object empty.  *)
(* (It speaks of no state, and is evaluated in the initial ones.)          *)
RequestReadAlone == Init => MisreadRequests = {}

(* A request that is parsed can be carried out to the end: unless its user *)
(* id is empty the store takes its credential, the attestation fits into   *)
(* one message, and so does each assertion that the credential will ever   *)
(* be asked for, its maps closed with the members they announced and with  *)
(* their keys in the canonical order.  So no limit of the parser lets      *)
(* through what the encoder later refuses, when the user has been asked.   *)
AcceptedIsServed ==
    Init => /\ UnservedRequests = {}
            /\ Served(GetInfoResponse(firmware_version))
            /\ CoseKey.canonical /\ EncodeCbor(0, CoseKey) = "encoded"
=============================================================================
