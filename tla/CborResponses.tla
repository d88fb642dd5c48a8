---------------------------- MODULE CborResponses ----------------------------
(***************************************************************************)
(* The responses of cbor.cpp: the CBOR maps they announce and fill, under  *)
(* the limit of one CTAPHID message.  An encoded item is its size, whether *)
(* its containers hold the members they announced and its maps have their  *)
(* keys in the canonical order, and its own place in that order as a key.  *)
(* A string is its length.                                                 *)
(***************************************************************************)
EXTENDS RequestParsing
LOCAL INSTANCE SequencesExt

CONSTANT MaxResponse    \* CTAPHID_MAX_PAYLOAD_SIZE

ASSUME MaxResponse \in Nat

-----------------------------------------------------------------------------
(* The encoder of TinyCBOR.                                                *)

HeadSize(n) == CASE n < 24 -> 1 [] n \in 24 .. 255 -> 2 [] n \in 256 .. 65535 -> 3 [] OTHER -> 5

Item(size, place) == [size |-> size, closed |-> TRUE, canonical |-> TRUE, place |-> place]

Uint(n) == Item(HeadSize(n), <<0, n>>)
Nint(n) == Item(HeadSize(n - 1), <<1, n - 1>>)      \* the integer -n
String(n) == Item(HeadSize(n) + n, <<2, 0>>)
Bool == Item(1, <<3, 0>>)

(* The names used as keys, in the order of the canonical encoding: shorter *)
(* ones first, then by their bytes.                                        *)
Names == <<"id", "rk", "up", "uv", "alg", "sig", "name", "type", "displayName">>
Lengths == <<2, 2, 2, 2, 3, 3, 4, 4, 11>>
Name(s) ==
    LET i == CHOOSE i \in DOMAIN Names : Names[i] = s
    IN  Item(1 + Lengths[i], <<2, i>>)

Precedes(k, l) == k[1] < l[1] \/ (k[1] = l[1] /\ k[2] < l[2])

(* cbor_encoder_close_container_checked finds whether n is right.          *)
Array(n, items) ==
    [size |-> FoldLeft(LAMBDA sum, m : sum + m.size, HeadSize(n), items),
     closed |-> Len(items) = n /\ \A i \in DOMAIN items : items[i].closed,
     canonical |-> \A i \in DOMAIN items : items[i].canonical,
     place |-> <<3, 0>>]

Map(n, entries) ==
    [size |-> FoldLeft(LAMBDA sum, e : sum + e[1].size + e[2].size, HeadSize(n), entries),
     closed |-> Len(entries) = n /\ \A i \in DOMAIN entries : entries[i][2].closed,
     canonical |-> /\ \A i \in DOMAIN entries : entries[i][2].canonical
                   /\ \A i \in 1 .. Len(entries) - 1 :
                        Precedes(entries[i][1].place, entries[i + 1][1].place),
     place |-> <<3, 0>>]

-----------------------------------------------------------------------------
(* encode_cbor and append_cbor.                                            *)

EncodeCbor(status, v) ==
    IF status + v.size > MaxResponse THEN "resource_limit"
    ELSE IF ~v.closed THEN "invalid_structure" ELSE "encoded"

-----------------------------------------------------------------------------
(* The responses.                                                          *)

firmware_version == 1

GetInfoResponse(firmware) ==
    Map(6, << <<Uint(1), Array(1, <<String(8)>>)>>,
              <<Uint(3), String(16)>>,
              <<Uint(4), Map(3, << <<Name("rk"), Bool>>, <<Name("up"), Bool>>, <<Name("uv"), Bool>> >>)>>,
              <<Uint(9), Array(1, <<String(3)>>)>>,
              <<Uint(10), Array(1, <<Map(2, << <<Name("alg"), Nint(7)>>,
                                               <<Name("type"), String(10)>> >>)>>)>>,
              <<Uint(14), Uint(firmware)>> >>)

(* The length of a coordinate after pad32; the TPM returns at most 32      *)
(* bytes, fewer where it drops leading zeros.                              *)
Pad32 == 32

CoseKey ==
    Map(5, << <<Uint(1), Uint(2)>>, <<Uint(3), Nint(7)>>, <<Nint(1), Uint(1)>>,
              <<Nint(2), String(Pad32)>>, <<Nint(3), String(Pad32)>> >>)

MakeCredentialResponse(authData, signature) ==
    Map(3, << <<Uint(1), String(6)>>,
              <<Uint(2), String(authData)>>,
              <<Uint(3), Map(2, << <<Name("alg"), Nint(7)>>, <<Name("sig"), String(signature)>> >>)>> >>)

MutMapSize(includeUser, number) == IF includeUser THEN 4 ELSE 3

MapSize(includeUser, number) ==
    3 + (IF includeUser THEN 1 ELSE 0) + (IF number # 0 THEN 1 ELSE 0)

(* `number' is 0 where number_of_credentials has no value.                 *)
GetAssertionResponse(authData, signature, uv, credential, includeUser, number) ==
    Map(MapSize(includeUser, number),
        << <<Uint(1), Map(2, << <<Name("id"), String(credential.id)>>, <<Name("type"), String(10)>> >>)>>,
           <<Uint(2), String(authData)>>,
           <<Uint(3), String(signature)>> >>
        \o (IF includeUser
            THEN << <<Uint(4), Map(IF uv THEN 3 ELSE 1,
                        << <<Name("id"), String(credential.userId)>> >>
                        \o (IF uv THEN << <<Name("name"), String(credential.userName)>>,
                                          <<Name("displayName"), String(credential.userDisplayName)>> >>
                            ELSE <<>>))>> >>
            ELSE <<>>)
        \o (IF number # 0 THEN << <<Uint(5), Uint(number)>> >> ELSE <<>>))

(* authData: rpIdHash, flags and signCount; in a new credential also the   *)
(* aaguid, the credential id with its length, and the public key.          *)
AuthData == 32 + 1 + 4
AttestedAuthData(id) == AuthData + 16 + 2 + id + CoseKey.size

(* The StoredCredential of an accepted request, by the lengths in it.      *)
CredentialOf(request) ==
    [id |-> 32, rpId |-> request.rp.id.length, userId |-> request.user.id.length,
     userName |-> request.user.name.length,
     userDisplayName |-> request.user.displayName.length]

(* validate_credential, for a credential the device made.                  *)
IsStorable(credential) ==
    /\ credential.id \in 16 .. 1024
    /\ credential.rpId \in 1 .. 253
    /\ credential.userId \in 1 .. 64

-----------------------------------------------------------------------------
Served(v) == EncodeCbor(1, v) = "encoded" /\ v.canonical

Signatures == {8, 70, 72}         \* the DER form of an ECDSA signature on P-256

(* The credentials that the accepted requests ask for.                     *)
Requested(payloads) ==
    {CredentialOf(made.request) : made \in
        {m \in {ParseMakeCredential(NewMakeCredential, p) : p \in payloads} : m.parsed}}

(* Those of them that cannot be carried out to the end: the store takes    *)
(* the credential or not for another reason than an empty user id, or the  *)
(* attestation or some assertion is not encoded.                           *)
Unserved(payloads) ==
    {c \in Requested(payloads) :
        \/ IsStorable(c) # (c.userId > 0)
        \/ \E s \in Signatures :
            \/ ~Served(MakeCredentialResponse(AttestedAuthData(c.id), s))
            \/ \E uv, withUser \in BOOLEAN, number \in {0, 2, 255, 256} :
                ~Served(GetAssertionResponse(AuthData, s, uv, c, withUser, number))}
=============================================================================
