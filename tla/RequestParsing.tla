--------------------------- MODULE RequestParsing ---------------------------
(***************************************************************************)
(* CTAPMakeCredentialRequest::parseRequest and CTAPGetAssertionRequest::   *)
(* parseRequest: a CBOR map is read member by member into an object that   *)
(* already served earlier requests.  TinyCBOR is external: it presents the *)
(* payload as a tree of items, a text or byte string as a value and its    *)
(* length, and a malformed or truncated item as one whose reading fails.   *)
(* A cbor::Error sets `ok' to FALSE, and the rest is not read.             *)
(***************************************************************************)
EXTENDS Integers, Sequences
LOCAL INSTANCE SequencesExt

CONSTANTS Int64Bits, IntBits        \* the widths of int64_t and int

ASSUME Widths == IntBits \in 1 .. Int64Bits

CLIENT_DATA_HASH_LENGTH == 32
MAX_RP_ID_LENGTH == 253
MAX_ENTITY_TEXT_LENGTH == 64
MAX_USER_ID_LENGTH == 64
MAX_CREDENTIAL_ID_LENGTH == 7609
MAX_EXTENSION_NAME_LENGTH == 64
MAX_TRANSPORT_NAME_LENGTH == 32
MAX_PIN_AUTH_LENGTH == 64

-----------------------------------------------------------------------------
(* cbor_utils.                                                             *)

Empty == [kind |-> "none", value |-> "", length |-> 0]

IsText(v, max) == v.kind = "text" /\ v.length <= max
IsBytes(v, max) == v.kind = "bytes" /\ v.length <= max

Signed(n, bits) == ((n + 2^(bits - 1)) % 2^bits) - 2^(bits - 1)

(* cbor_value_get_int64 converts the argument of the item without a check. *)
ReadInt(v) ==
    LET raw == Signed(v.value, Int64Bits)
    IN  IF v.kind = "nint" THEN Signed(-raw - 1, Int64Bits) ELSE raw

(* cbor_value_advance.                                                     *)
RECURSIVE Intact(_)
Intact(v) ==
    CASE v.kind = "map" -> \A i \in DOMAIN v.entries : Intact(v.entries[i][1]) /\ Intact(v.entries[i][2])
      [] v.kind = "array" -> \A i \in DOMAIN v.items : Intact(v.items[i])
      [] OTHER -> v.kind # "broken"

Throw(o) == [o EXCEPT !.ok = FALSE]
Set(o, field, valid, value) == IF valid THEN [o EXCEPT ![field] = value] ELSE Throw(o)
Skip(o, v) == IF Intact(v) THEN o ELSE Throw(o)

(* The reading of a key and require_unique, which begin every callback.    *)
ReadKey(p, key, isKey) ==
    IF p.ok /\ isKey /\ key.value \notin p.seen
    THEN [p EXCEPT !.seen = @ \cup {key.value}] ELSE Throw(p)

(* read_map and read_array.                                                *)
ReadMap(map, o, IsKey(_), Member(_, _, _)) ==
    LET Step(p, entry) ==
            LET q == ReadKey(p, entry[1], IsKey(entry[1]))
            IN  IF q.ok THEN Member(q, entry[1].value, entry[2]) ELSE q
    IN  IF map.kind = "map" THEN FoldLeft(Step, o, map.entries) ELSE Throw(o)

ReadArray(array, o, Element(_, _)) ==
    LET Step(p, v) == IF p.ok THEN Element(p, v) ELSE p
    IN  IF array.kind = "array" THEN FoldLeft(Step, o, array.items) ELSE Throw(o)

IsUint(key) == key.kind = "uint"
IsName(key) == IsText(key, MAX_ENTITY_TEXT_LENGTH)
IsExtension(key) == IsText(key, MAX_EXTENSION_NAME_LENGTH)

Reading(fields) == [ok |-> TRUE, seen |-> {}] @@ fields

-----------------------------------------------------------------------------
(* What both requests contain.                                             *)

ReadCredentialDescriptor(v) ==
    LET Transport(d, t) ==
            IF IsText(t, MAX_TRANSPORT_NAME_LENGTH)
            THEN [d EXCEPT !.transports = Append(@, t)] ELSE Throw(d)
        Member(d, key, m) ==
            CASE key = "type" -> Set(d, "type", IsText(m, MAX_ENTITY_TEXT_LENGTH), m)
              [] key = "id" -> Set(d, "id", IsBytes(m, MAX_CREDENTIAL_ID_LENGTH), m)
              [] key = "transports" -> ReadArray(m, d, Transport)
              [] OTHER -> Skip(d, m)
        d == ReadMap(v, Reading([type |-> Empty, id |-> Empty, transports |-> <<>>]),
                     IsName, Member)
    IN  IF d.ok /\ {"type", "id"} \subseteq d.seen /\ d.type.length > 0 /\ d.id.length > 0
        THEN d ELSE Throw(d)

Descriptor(d) == [type |-> d.type, id |-> d.id, transports |-> d.transports]

(* parse_allow_list and parse_exclude_list.                                *)
ParseDescriptors(o, field, v) ==
    LET Element(p, e) ==
            LET d == ReadCredentialDescriptor(e)
            IN  IF d.ok THEN [p EXCEPT ![field] = Append(@, Descriptor(d))] ELSE Throw(p)
    IN  ReadArray(v, o, Element)

ParseExtensions(o, v) ==
    LET Member(e, name, m) == Skip(e, m)
        read == ReadMap(v, Reading(<<>>), IsExtension, Member)
    IN  IF read.ok THEN o ELSE Throw(o)

(* `kept' are the options of the request, `refused' the one whose presence *)
(* is remembered as `flag'.                                                *)
ParseOptions(o, v, kept, refused, flag) ==
    LET Member(p, name, m) ==
            IF name \in kept THEN Set(p, "options", m.kind = "bool", (name :> m.value) @@ p.options)
            ELSE IF name = refused THEN Set(p, flag, m.kind = "bool", TRUE)
            ELSE Skip(p, m)
        read == ReadMap(v, [o EXCEPT !.seen = {}], IsName, Member)
    IN  [read EXCEPT !.seen = o.seen]

ParsePinAuth(o, v) == Set(o, "pin_auth_present", IsBytes(v, MAX_PIN_AUTH_LENGTH), TRUE)
ParsePinProtocol(o, v) == Set(o, "pin_protocol_present", v.kind = "uint", TRUE)

ParseClientDataHash(o, v) ==
    Set(o, "clientDataHash",
        IsBytes(v, CLIENT_DATA_HASH_LENGTH) /\ v.length = CLIENT_DATA_HASH_LENGTH, v)

-----------------------------------------------------------------------------
(* MakeCredential.                                                         *)

ClearMakeCredential(o) ==
    [o EXCEPT !.rp = [id |-> Empty, name |-> Empty],
              !.user = [id |-> Empty, name |-> Empty, displayName |-> Empty],
              !.clientDataHash = Empty,
              !.publicKeyCredParams = <<>>,
              !.options = [rk |-> FALSE, uv |-> FALSE],
              !.excludeList = <<>>,
              !.up_option_present = FALSE,
              !.pin_auth_present = FALSE,
              !.pin_protocol_present = FALSE]

ParseRp(o, v) ==
    LET Member(r, key, m) ==
            CASE key = "id" -> Set(r, "id", IsText(m, MAX_RP_ID_LENGTH), m)
              [] key = "name" -> Set(r, "name", IsText(m, MAX_ENTITY_TEXT_LENGTH), m)
              [] OTHER -> Skip(r, m)
        rp == ReadMap(v, Reading(o.rp), IsName, Member)
    IN  Set(o, "rp", rp.ok /\ "id" \in rp.seen /\ rp.id.length > 0,
            [id |-> rp.id, name |-> rp.name])

ParseUser(o, v) ==
    LET Member(u, key, m) ==
            CASE key = "id" -> Set(u, "id", IsBytes(m, MAX_USER_ID_LENGTH), m)
              [] key \in {"name", "displayName"} ->
                    Set(u, key, IsText(m, MAX_ENTITY_TEXT_LENGTH), m)
              [] OTHER -> Skip(u, m)
        user == ReadMap(v, Reading(o.user), IsName, Member)
    IN  Set(o, "user", user.ok /\ "id" \in user.seen,
            [id |-> user.id, name |-> user.name, displayName |-> user.displayName])

ParsePubkeyParams(o, v) ==
    LET IsAlg(m) == m.kind \in {"uint", "nint"} /\ ReadInt(m) = Signed(ReadInt(m), IntBits)
        Member(p, key, m) ==
            CASE key = "type" -> Set(p, "type", IsText(m, MAX_ENTITY_TEXT_LENGTH), m)
              [] key = "alg" -> Set(p, "alg", IsAlg(m), ReadInt(m))
              [] OTHER -> Skip(p, m)
        Element(q, e) ==
            LET p == ReadMap(e, Reading([type |-> Empty, alg |-> 0]), IsName, Member)
            IN  IF p.ok /\ {"type", "alg"} \subseteq p.seen
                THEN [q EXCEPT !.publicKeyCredParams =
                                    Append(@, [type |-> p.type, alg |-> p.alg])]
                ELSE Throw(q)
    IN  ReadArray(v, o, Element)

MakeCredentialMember(o, key, v) ==
    CASE key = 1 -> ParseClientDataHash(o, v)
      [] key = 2 -> ParseRp(o, v)
      [] key = 3 -> ParseUser(o, v)
      [] key = 4 -> ParsePubkeyParams(o, v)
      [] key = 5 -> ParseDescriptors(o, "excludeList", v)
      [] key = 6 -> ParseExtensions(o, v)
      [] key = 7 -> ParseOptions(o, v, {"rk", "uv"}, "up", "up_option_present")
      [] key = 8 -> ParsePinAuth(o, v)
      [] key = 9 -> ParsePinProtocol(o, v)
      [] OTHER -> Skip(o, v)

(* parseRequest: `payload' is the root item and whether bytes follow it.   *)
ParseMakeCredential(o, payload) ==
    LET read == ReadMap(payload.root, Reading(ClearMakeCredential(o)), IsUint,
                        MakeCredentialMember)
    IN  IF read.ok /\ (1 .. 4) \subseteq read.seen /\ ~payload.trailing
        THEN [parsed |-> TRUE, request |-> [f \in DOMAIN o |-> read[f]]]
        ELSE [parsed |-> FALSE, request |-> ClearMakeCredential(o)]

-----------------------------------------------------------------------------
(* GetAssertion.                                                           *)

MutClearGetAssertion(o) ==
    [o EXCEPT !.rpId = Empty, !.clientDataHash = Empty, !.allowList = <<>>,
              !.options = [uv |-> FALSE, up |-> TRUE], !.rk_option_present = FALSE]

ClearGetAssertion(o) ==
    [o EXCEPT !.rpId = Empty,
              !.clientDataHash = Empty,
              !.allowList = <<>>,
              !.options = [uv |-> FALSE, up |-> TRUE],
              !.rk_option_present = FALSE,
              !.pin_auth_present = FALSE,
              !.pin_protocol_present = FALSE]

GetAssertionMember(o, key, v) ==
    CASE key = 1 -> Set(o, "rpId", IsText(v, MAX_RP_ID_LENGTH) /\ v.length > 0, v)
      [] key = 2 -> ParseClientDataHash(o, v)
      [] key = 3 -> ParseDescriptors(o, "allowList", v)
      [] key = 4 -> ParseExtensions(o, v)
      [] key = 5 -> ParseOptions(o, v, {"up", "uv"}, "rk", "rk_option_present")
      [] key = 6 -> ParsePinAuth(o, v)
      [] key = 7 -> ParsePinProtocol(o, v)
      [] OTHER -> Skip(o, v)

ParseGetAssertion(o, payload) ==
    LET read == ReadMap(payload.root, Reading(ClearGetAssertion(o)), IsUint, GetAssertionMember)
    IN  IF read.ok /\ {1, 2} \subseteq read.seen /\ ~payload.trailing
        THEN [parsed |-> TRUE, request |-> [f \in DOMAIN o |-> read[f]]]
        ELSE [parsed |-> FALSE, request |-> ClearGetAssertion(o)]

(* The objects as they are constructed.                                    *)
NewMakeCredential ==
    [rp |-> [id |-> Empty, name |-> Empty],
     user |-> [id |-> Empty, name |-> Empty, displayName |-> Empty],
     clientDataHash |-> Empty, publicKeyCredParams |-> <<>>,
     options |-> [rk |-> FALSE, uv |-> FALSE], excludeList |-> <<>>,
     up_option_present |-> FALSE, pin_auth_present |-> FALSE, pin_protocol_present |-> FALSE]

NewGetAssertion ==
    [rpId |-> Empty, clientDataHash |-> Empty, allowList |-> <<>>,
     options |-> [uv |-> FALSE, up |-> TRUE], rk_option_present |-> FALSE,
     pin_auth_present |-> FALSE, pin_protocol_present |-> FALSE]

-----------------------------------------------------------------------------
(* Variants of a payload.                                                  *)

Broken == [kind |-> "broken"]
WithEntries(payload, entries) == [payload EXCEPT !.root.entries = entries]

(* Its members in another order.                                           *)
Reordered(payload) ==
    LET e == payload.root.entries
    IN  {WithEntries(payload, Reverse(e))}
        \cup {WithEntries(payload, SubSeq(e, n + 1, Len(e)) \o SubSeq(e, 1, n)) : n \in 0 .. Len(e)}

(* With a member that neither parser knows.                                *)
WithUnknown(payload) ==
    LET e == payload.root.entries
        unknown == <<[kind |-> "uint", value |-> 99], [kind |-> "array", items |-> <<>>]>>
    IN  {WithEntries(payload, SubSeq(e, 1, n) \o <<unknown>> \o SubSeq(e, n + 1, Len(e))) :
            n \in 0 .. Len(e)}

(* With a member repeated, cut off or of a text key, or bytes after it.    *)
Damaged(payload) ==
    LET e == payload.root.entries
        name == [kind |-> "text", value |-> "rpId", length |-> 4]
    IN  {[payload EXCEPT !.trailing = TRUE]}
        \cup {WithEntries(payload, Append(e, e[i])) : i \in DOMAIN e}
        \cup {WithEntries(payload, [e EXCEPT ![i] = <<@[1], Broken>>]) : i \in DOMAIN e}
        \cup {WithEntries(payload, [e EXCEPT ![i] = <<name, @[2]>>]) : i \in DOMAIN e}

(* The samples that are read otherwise after some earlier one, in another  *)
(* order or with an unknown member; or that are accepted though damaged.   *)
Misread(Parse(_, _), new, samples) ==
    LET left == {Parse(new, q).request : q \in samples}
        Differs(p, read) ==
            \/ \E o \in left : Parse(o, p) # read
            \/ \E v \in Reordered(p) \cup WithUnknown(p) : Parse(new, v) # read
    IN  {p \in samples :
            \/ Differs(p, Parse(new, p))
            \/ \E v \in Damaged(p) : Parse(new, v) # [parsed |-> FALSE, request |-> new]}
=============================================================================
