------------------------------- MODULE PiaCodec -------------------------------
(***************************************************************************)
(* The bytes of the PIA protocol: protobuf fields, the requests and        *)
(* responses that travel over Bluetooth (ble_pia.py) and over the cloud    *)
(* (pia_decoder.py), and the slots the cloud decoder finds in a report.    *)
(*                                                                         *)
(* Widths are scaled and every rule that depends on them is kept: a byte   *)
(* has a continuation bit over a group of 3 bits (7 in the code), a varint *)
(* at most MaxGroups groups (10), an int32 is sign-extended to Wide (2^64),*)
(* fixed32 is one byte, and slot ids end below SlotLimit (1000).           *)
(***************************************************************************)
EXTENDS Integers, Sequences, FiniteSets, SequencesExt

Group == 8
MaxGroups == 3
Wide == 512
Narrow == 64
Byte == 0..(2 * Group - 1)
SlotLimit == 6
Expired == 5                         \* a status: the session's token has expired (12, 13)
Sentinel == 15                       \* "no data", of a float
FixedWidth == [t \in {1, 5} |-> IF t = 5 THEN 1 ELSE 2]
None == -1

---------------------------------------------------------------------------
(* Encoding.                                                               *)
EncodeVarint(v) ==
    LET enc[x \in 0..(Wide - 1)] == IF x < Group THEN <<x>> ELSE <<(x % Group) + Group>> \o enc[x \div Group]
    IN  enc[v]
Key(field, type) == EncodeVarint(field * 8 + type)
VarintField(field, v) == Key(field, 0) \o EncodeVarint(v)
BytesField(field, b) == Key(field, 2) \o EncodeVarint(Len(b)) \o b
FloatField(field, v) == Key(field, 5) \o <<v>>
\* Mutant: a negative number keeps the width of an int32
Int32FieldNarrow(field, v) == VarintField(field, IF v < 0 THEN v + Narrow ELSE v)
Int32Field(field, v) == VarintField(field, IF v < 0 THEN v + Wide ELSE v)

(* A slot with one value: a number v or, for a string, the bytes s; a slot of
   the subscription catalog has the name of its bus.  Only the Bluetooth encoder
   knows of negative numbers: the cloud's makes one group of it. *)
Value(kind, v, s) == [kind |-> kind, v |-> v, s |-> s]
Values ==
    [kind : {"int"}, v : -(Wide \div 2)..(Wide \div 2 - 1), s : {<<>>}] \cup [kind : {"bool"}, v : {0, 1}, s : {<<>>}]
    \cup [kind : {"float"}, v : Byte, s : {<<>>}] \cup [kind : {"str", "name"}, v : {0}, s : Seq(Byte)]
Slot == [sid : 0..(Wide - 1), bus : 0..(Wide - 1), value : Values]
CloudInt(field, v) == IF v < 0 THEN Key(field, 0) \o <<v % Group>> ELSE VarintField(field, v)
Typed(value, via) ==
    CASE value.kind = "int" /\ via = "ble" -> Int32Field(3, value.v)
      [] value.kind = "int" /\ via = "cloud" -> CloudInt(3, value.v)
      [] value.kind = "str" -> BytesField(4, value.s)
      [] value.kind = "bool" -> VarintField(5, value.v)
      [] value.kind = "float" -> FloatField(6, value.v)
      [] value.kind = "name" -> BytesField(10, value.s)
ConnectedComponentValue(c, via) == VarintField(1, c.sid) \o VarintField(2, c.bus) \o Typed(c.value, via)
SlotsBytes(values, via) ==
    FlattenSeq([i \in DOMAIN values |-> BytesField(1, ConnectedComponentValue(values[i], via))])
SetValuesTopic(values, via) == BytesField(2, SlotsBytes(values, via))
(* _build_subscription_catalog_payload: the slots the session wants reported. *)
CatalogTopic(values) == BytesField(3, SlotsBytes(values, "cloud"))
RestartTopic == BytesField(2, VarintField(1, 1))
PairTopic == BytesField(4, BytesField(1, <<4>>) \o VarintField(4, 1))
ConfirmTopic == BytesField(6, VarintField(1, 1))

Version == <<4, 5>>
Timestamp == 7
RequestMessage(id, field, topic) ==
    VarintField(1, id) \o BytesField(2, Version) \o VarintField(3, Timestamp) \o BytesField(field, topic)
BleRequest(request) == BytesField(1, request)
(* Commands, subscriptions and refreshes are wrapped, a restart is not.     *)
CloudRequest(request, wrapped) == IF wrapped THEN BytesField(2, request) ELSE request

(* A frame: magic, length, checksum, payload.                              *)
Magic == <<10, 11>>
HeaderSize == 5
Header(length, crc) == Magic \o <<length \div 16, length % 16>> \o <<crc>>
Crc(b) == LET sum[i \in 0..Len(b)] == IF i = 0 THEN 0 ELSE (sum[i - 1] + i * b[i]) % 16 IN sum[Len(b)]
EncodeFrame(payload) == Header(Len(payload), Crc(Header(Len(payload), 0) \o payload)) \o payload

---------------------------------------------------------------------------
(* Decoding.  The Bluetooth decoder is strict: it refuses what is cut off; *)
(* the cloud's is not: it stops there and keeps what it has.               *)
VarintEnd(b, at) ==
    LET ends == {i \in at..Len(b) : b[i] < Group} IN IF ends = {} THEN None ELSE Min(ends)
Accepted(at, end, strict) == strict => end # None /\ end - at < MaxGroups
VarintUpTo(b, at, end, strict) ==
    LET last == IF end = None THEN Len(b) ELSE end
        val[i \in at..(last + 1)] == IF i > last THEN 0 ELSE (b[i] % Group) + Group * val[i + 1]
    IN  [value |-> IF at > Len(b) THEN 0 ELSE val[at], next |-> last + 1,
         ok |-> Accepted(at, end, strict)]
Varint(b, at, strict) == VarintUpTo(b, at, VarintEnd(b, at), strict)

Field(n, type, num, bytes) == [field |-> n, type |-> type, num |-> num, bytes |-> bytes]
Read(n, type, num, bytes, next) == [ok |-> TRUE, field |-> Field(n, type, num, bytes), next |-> next]
Refused == [ok |-> FALSE, field |-> Field(0, 0, 0, <<>>), next |-> 0]
(* The field that begins at a position, and where the next one does.       *)
FieldOf(b, key, arg, strict) ==
    LET n == key.value \div 8
        type == key.value % 8
        end == arg.next + arg.value
    IN  CASE key.ok /\ type = 0 /\ arg.ok -> Read(n, type, arg.value, <<>>, arg.next)
          [] key.ok /\ type = 2 /\ arg.ok /\ end - 1 <= Len(b) ->
                Read(n, type, 0, SubSeq(b, arg.next, end - 1), end)
          [] key.ok /\ type \in DOMAIN FixedWidth /\ key.next + FixedWidth[type] - 1 <= Len(b) ->
                Read(n, type, b[key.next], <<>>, key.next + FixedWidth[type])
          [] OTHER -> Refused
ParseField(b, at, strict) ==
    LET key == Varint(b, at, strict) IN FieldOf(b, key, Varint(b, key.next, strict), strict)
(* The fields from every position on: the one there and those after it.    *)
AndAfter(f, parse) ==
    LET rest == parse[f.next]
    IN  IF ~f.ok THEN [fields |-> <<>>, ok |-> FALSE] ELSE [fields |-> <<f.field>> \o rest.fields, ok |-> rest.ok]
ParseFrom(b, strict) ==
    LET parse[at \in 1..(Len(b) + 1)] ==
            IF at > Len(b) THEN [fields |-> <<>>, ok |-> TRUE] ELSE AndAfter(ParseField(b, at, strict), parse)
    IN  parse
Parse(b, strict) == ParseFrom(b, strict)[1]

(* Where the fields of a number and a type are; the first and the last count. *)
Where(fields, n, type) == {i \in DOMAIN fields : fields[i].field = n /\ fields[i].type = type}
LastNum(fields, n) == LET at == Where(fields, n, 0) IN IF at = {} THEN None ELSE fields[Max(at)].num
FirstNum(fields, n) == LET at == Where(fields, n, 0) IN IF at = {} THEN None ELSE fields[Min(at)].num
HasBytes(fields, n) == Where(fields, n, 2) # {}
LastBytes(fields, n) == LET at == Where(fields, n, 2) IN IF at = {} THEN <<>> ELSE fields[Max(at)].bytes

DecodeFrame(frame) ==
    LET payload == SubSeq(frame, HeaderSize + 1, Len(frame))
    IN  [payload |-> payload,
         ok |-> /\ Len(frame) >= HeaderSize /\ SubSeq(frame, 1, 2) = Magic
                /\ Len(payload) = 16 * frame[3] + frame[4]
                /\ frame[5] = Crc(Header(Len(payload), 0) \o payload)]

(* decode_ble_response_frame: only what carries a response is decoded.     *)
NoResponse == [ok |-> FALSE, id |-> None, status |-> None, paired |-> FALSE, topic |-> <<>>]
BleResponseIn(n, frame) ==
    LET outer == Parse(DecodeFrame(frame).payload, TRUE)
        inner == Parse(LastBytes(outer.fields, n), TRUE)
    IN  IF ~DecodeFrame(frame).ok \/ ~outer.ok \/ ~HasBytes(outer.fields, n) THEN NoResponse
        ELSE IF ~inner.ok THEN NoResponse
        ELSE [ok |-> TRUE, id |-> LastNum(inner.fields, 1), status |-> LastNum(inner.fields, 2),
              paired |-> HasBytes(inner.fields, 9), topic |-> LastBytes(inner.fields, 9)]
BleResponse(frame) == BleResponseIn(2, frame)
Succeeded(status) == status \in {None, 0, 1}
(* The tokens of a pairing, the last mobilePair that the response carries. *)
Tokens(topic) ==
    LET fields == Parse(topic, TRUE).fields
    IN  [access |-> LastBytes(fields, 1), refresh |-> LastBytes(fields, 2)]

---------------------------------------------------------------------------
(* The cloud.                                                              *)
Nested(fields) == {i \in DOMAIN fields : fields[i].type = 2 /\ Len(fields[i].bytes) > 2}
(* extract_request_id_from_payload: what a pending request is filed under.  *)
FindRequest(b) ==
    LET find[x \in Seq(Byte)] ==
            LET fields == Parse(x, FALSE).fields
                found == {i \in Nested(fields) : find[fields[i].bytes] # None}
            IN  IF FirstNum(fields, 1) # None /\ FirstNum(fields, 3) # None THEN FirstNum(fields, 1)
                ELSE IF found = {} THEN None
                ELSE find[fields[Min(found)].bytes]
    IN  find[b]
NoEnvelope == [id |-> None, status |-> None, payload |-> <<>>, carries |-> FALSE]
FindResponse(b) ==
    LET find[x \in Seq(Byte)] ==
            LET fields == Parse(x, FALSE).fields
                payloads == {i \in DOMAIN fields : fields[i].type = 2 /\ fields[i].field \in {5, 6, 19}}
                found == {i \in Nested(fields) : find[fields[i].bytes] # NoEnvelope}
            IN  IF FirstNum(fields, 1) # None /\ FirstNum(fields, 2) # None
                THEN [id |-> FirstNum(fields, 1), status |-> FirstNum(fields, 2), carries |-> payloads # {},
                      payload |-> IF payloads = {} THEN <<>> ELSE fields[Min(payloads)].bytes]
                ELSE IF found = {} THEN NoEnvelope
                ELSE find[fields[Min(found)].bytes]
    IN  find[b]

Printable(b) == b # <<>> /\ \A i \in DOMAIN b : b[i] \in 4..7
(* _parse_sensor_entry: the values of an entry, the preferred kind first.   *)
ValuesOf(fields) ==
    LET of(n, type, kind) == LET at == Where(fields, n, type)
                             IN  IF at = {} THEN {} ELSE {Value(kind, fields[Max(at)].num, <<>>)}
        texts == {i \in Where(fields, 4, 2) : Printable(fields[i].bytes)}
        text == IF texts = {} THEN {} ELSE {Value("str", 0, fields[Max(texts)].bytes)}
        bool == {[c EXCEPT !.v = IF @ = 0 THEN 0 ELSE 1] : c \in of(5, 0, "bool")}
    IN  <<text, of(6, 5, "float"), of(3, 0, "int"), of(7, 0, "int"), bool>>
(* The first kind, in an order of preference, that has a value.            *)
FirstGiven(order) ==
    LET given == {i \in DOMAIN order : order[i] # {}} IN IF given = {} THEN {} ELSE order[Min(given)]
\* Mutant: a bool is preferred to a number
PreferredBool(fields) ==
    LET all == ValuesOf(fields) IN FirstGiven(<<all[1], all[5], all[2], all[3], all[4]>>)
Preferred(fields) == FirstGiven(ValuesOf(fields))
ValueOf(fields) == {v \in Preferred(fields) : ~(v.kind \in {"float", "int"} /\ v.v = Sentinel)}

IsEntry(fields) == /\ FirstNum(fields, 1) # None /\ FirstNum(fields, 2) # None
                   /\ \E i \in DOMAIN fields : fields[i].field \in 3..7 /\ fields[i].type \in {0, 2, 5}
InReach(slot, depth, known) ==
    slot[1] < SlotLimit /\ slot[2] < SlotLimit /\ (depth <= 3 \/ (depth = 4 /\ slot \in known))
(* _extract_slots_recursive: a set of <<slot, value>>, the slots of a report
   being distinct. *)
SlotsIn(b, known) ==
    LET slots[p \in Seq(Byte) \X (0..6)] ==      \* the bytes and their depth
            LET fields == Parse(p[1], FALSE).fields
                slot == <<FirstNum(fields, 2), FirstNum(fields, 1)>>
            IN  IF p[2] > 5 THEN {}
                ELSE IF IsEntry(fields) /\ InReach(slot, p[2], known) THEN {<<slot, v>> : v \in ValueOf(fields)}
                ELSE UNION {slots[<<fields[i].bytes, p[2] + 1>>] : i \in Nested(fields)}
    IN  slots[<<b, 0>>]
DecodeSlots(b, known) ==
    LET fields == Parse(b, FALSE).fields
    IN  UNION {SlotsIn(fields[i].bytes, known) : i \in {i \in DOMAIN fields : fields[i].type = 2}}
=============================================================================
