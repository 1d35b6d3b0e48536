------------------------------- MODULE PiaWire -------------------------------
(***************************************************************************)
(* Requests over one Bluetooth session and over the cloud, byte by byte:   *)
(* what the vehicle reads of a command, how answers are put together again *)
(* from the plaintext of TLS records and matched to their request          *)
(* (ble_transport.py), and what is read of a report (pia_decoder.py).      *)
(*                                                                         *)
(* The vehicle is outside the code: it parses strictly, answers requests   *)
(* in frames, and sends frames of its own, and now and then other bytes,   *)
(* in between.  The tunnel keeps bytes and their order, not boundaries.    *)
(***************************************************************************)
EXTENDS PiaCodec

CONSTANTS Commands,     \* sequences of slots with values
          Catalogs,     \* sequences of slots with the names of their buses
          Reports,      \* what the vehicle reports: [entries, wraps, known, carried, status]
          Noises,       \* bytes before a frame, with no magic in them
          MaxRequests,  \* bound: requests
          MaxFrames     \* bound: frames of the vehicle in a session

VARIABLES asked,        \* the requests so far
          open,         \* the last one holds the request lock and waits
          heard,        \* what the vehicle read of it
          sent, tunnel, \* frames of the vehicle in this session; bytes not yet read
          buffer, frames, \* reassembly: bytes of no whole frame; frames not yet looked at
          found,        \* how many frames were put together
          replies,      \* the vehicle's answers so far
          result,       \* what the last request returned
          report, slots \* the last report of the cloud, and what was read of it
stream == <<sent, tunnel, buffer, frames, found>>
cloud == <<report, slots>>
wireVars == <<asked, open, heard, stream, replies, result, cloud>>

RequestId(n) == 10 * n          \* app_like_request_id, distinct
MaxSlotsBytes == 200            \* bound: leaves a frame room for the rest of its request
WireConstants ==
    /\ MaxFrames \in Nat /\ MaxRequests \in Nat /\ RequestId(MaxRequests) < Wide
    /\ \A values \in Commands \cup Catalogs, via \in {"ble", "cloud"} :
        /\ values \in Seq(Slot) /\ \A i \in DOMAIN values : Len(values[i].value.s) <= MaxSlotsBytes
        /\ Len(SlotsBytes(values, via)) <= MaxSlotsBytes
    /\ \A noise \in Noises :
        noise \in Seq(Byte) /\ \A i \in 1..(Len(noise) - 1) : SubSeq(noise, i, i + 1) # Magic
ASSUME WireAssumption == WireConstants

NothingHeard == [kind |-> "none", id |-> None, values |-> <<>>]
NoResult == [id |-> None, status |-> None, tokens |-> [access |-> <<>>, refresh |-> <<>>]]
NoReport == [entries |-> {}, wraps |-> 0, known |-> {}, carried |-> TRUE, status |-> 1]
ConfirmId == 50
Current == Last(asked)

WireTypeOK ==
    /\ Len(asked) <= MaxRequests /\ open \in BOOLEAN
    /\ \A i \in DOMAIN asked :
        asked[i].kind \in {"values", "restart", "pair", "catalog", "refresh"} /\ asked[i].id = RequestId(i)
    /\ \A i \in DOMAIN tunnel : tunnel[i] \in Byte
    /\ \A i \in DOMAIN buffer : buffer[i] \in Byte
    /\ Len(sent) <= MaxFrames /\ found \in 0..Len(sent)
    /\ report = NoReport \/ report \in Reports

WireInit ==
    /\ asked = <<>> /\ open = FALSE /\ heard = NothingHeard
    /\ sent = <<>> /\ tunnel = <<>> /\ buffer = <<>> /\ frames = <<>> /\ found = 0
    /\ replies = {} /\ result = NoResult
    /\ report = NoReport /\ slots = {}

---------------------------------------------------------------------------
(* A request, and what the vehicle reads of it.                            *)
Signed(v) == IF v >= Wide \div 2 THEN v - Wide ELSE v
ReadValue(fields) ==
    LET f == CHOOSE f \in ToSet(fields) : f.field \in 3..10
    IN  CASE f.field = 3 -> Value("int", Signed(f.num), <<>>)
          [] f.field = 4 -> Value("str", 0, f.bytes)
          [] f.field = 5 -> Value("bool", f.num, <<>>)
          [] f.field = 6 -> Value("float", f.num, <<>>)
          [] f.field = 10 -> Value("name", 0, f.bytes)
ReadSlot(b) ==
    LET fields == Parse(b, TRUE).fields
    IN  [sid |-> FirstNum(fields, 1), bus |-> FirstNum(fields, 2), value |-> ReadValue(fields)]
Has(b, n) == HasBytes(Parse(b, TRUE).fields, n)
Within(b, n) == LastBytes(Parse(b, TRUE).fields, n)
HasPath(b, n, m) == Has(b, n) /\ Has(Within(b, n), m)
KindRead(b) ==
    CASE HasPath(b, 4, 2) -> "values"
      [] HasPath(b, 4, 3) -> "catalog"
      [] HasPath(b, 8, 4) -> "pair"
      [] HasPath(b, 8, 6) -> "confirm"
      [] HasPath(b, 9, 2) -> "restart"
      [] Has(b, 9) /\ Within(b, 9) = <<>> -> "refresh"
      [] OTHER -> "none"
ReadSlots(b) ==
    LET fields == Parse(b, TRUE).fields IN [i \in DOMAIN fields |-> ReadSlot(fields[i].bytes)]
RequestOf(b, kind) ==
    [id |-> FirstNum(Parse(b, TRUE).fields, 1), kind |-> kind,
     values |-> CASE kind = "values" -> ReadSlots(Within(Within(b, 4), 2))
                  [] kind = "catalog" -> ReadSlots(Within(Within(b, 4), 3))
                  [] OTHER -> <<>>]
ReadRequest(b) == RequestOf(b, KindRead(b))

RequestBytes(r, via) ==
    CASE r.kind = "values" -> RequestMessage(r.id, 4, SetValuesTopic(r.values, via))
      [] r.kind = "catalog" -> RequestMessage(r.id, 4, CatalogTopic(r.values))
      [] r.kind = "pair" -> RequestMessage(r.id, 8, PairTopic)
      [] r.kind = "restart" -> RequestMessage(r.id, 9, RestartTopic)
      [] r.kind = "refresh" -> RequestMessage(r.id, 9, <<>>)

(* Over Bluetooth the frame is written under the request lock.  A command over
   the cloud takes no part in the session; it is filed under the id found in it. *)
ReadFrame(frame) == ReadRequest(Within(DecodeFrame(frame).payload, 1))
Wraps(r) == r.kind # "restart"
CloudPayload(r) == CloudRequest(RequestBytes(r, "cloud"), Wraps(r))
ReadCloud(b, wrapped) == [ReadRequest(IF wrapped THEN Within(b, 2) ELSE b) EXCEPT !.id = FindRequest(b)]

NothingSent == sent = <<>> /\ tunnel = <<>> /\ buffer = <<>> /\ frames = <<>> /\ found = 0
(* _send_values, pair_mobile; the pairing has a session of its own.        *)
Ask(kind, values, via) ==
    /\ ~open /\ Len(asked) < MaxRequests /\ report = NoReport
    /\ kind = "pair" \/ (asked # <<>> /\ Current.kind = "pair") => NothingSent
    /\ LET r == [kind |-> kind, id |-> RequestId(Len(asked) + 1), values |-> values, via |-> via]
       IN  /\ asked' = Append(asked, r)
           /\ heard' = IF via = "ble" THEN ReadFrame(EncodeFrame(BleRequest(RequestBytes(r, via))))
                       ELSE ReadCloud(CloudPayload(r), Wraps(r))
    /\ open' = (via = "ble")
    /\ result' = NoResult
    /\ UNCHANGED <<stream, replies, cloud>>

---------------------------------------------------------------------------
(* The vehicle.                                                            *)
Issued(id) == [access |-> <<4, id % 4>>, refresh |-> <<5, id % 4>>]
Topic(r) ==
    IF r.kind # "pair" THEN <<>>
    ELSE BytesField(9, BytesField(1, Issued(r.id).access) \o BytesField(2, Issued(r.id).refresh) \o VarintField(3, 1))
Response(r, status) ==
    BytesField(2, VarintField(1, r.id) \o (IF status = 0 THEN <<>> ELSE VarintField(2, status)) \o Topic(r))
Transmit(noise, payload) ==
    /\ Len(sent) < MaxFrames
    /\ sent' = Append(sent, EncodeFrame(payload)) /\ tunnel' = tunnel \o noise \o EncodeFrame(payload)
    /\ UNCHANGED <<asked, open, heard, buffer, frames, found, result, cloud>>

(* The answer to a request, in time or late. *)
Answer(r, status, noise) ==
    /\ r.via = "ble" /\ ~\E a \in replies : a.id = r.id
    /\ Transmit(noise, Response(r, status))
    /\ replies' = replies \cup {[id |-> r.id, status |-> status]}
Push(noise) == Transmit(noise, BytesField(3, <<4>>)) /\ UNCHANGED replies

---------------------------------------------------------------------------
(* The reassembly.                                                         *)
MagicAt(b) == {i \in 1..(Len(b) - 1) : SubSeq(b, i, i + 1) = Magic}
\* Mutant: a trailing byte of the magic is dropped with the rest
KeptOfNothing(b) == <<>>
KeptOf(b) == IF b # <<>> /\ Last(b) = Magic[1] THEN <<Magic[1]>> ELSE <<>>

(* _feed_frames: the frames of a buffer to which a chunk was added, from a
   position on, and what stays of it (the vehicle sends no length beyond
   MAX_PIA_FRAME, which would raise). *)
Total(b, at) == HeaderSize + 16 * b[at + 2] + b[at + 3]
FeedFrom(b) ==
    LET feed[at \in 1..(Len(b) + 1)] ==
            LET starts == {i \in MagicAt(b) : i >= at}
                start == Min(starts)
                end == start + Total(b, start)
                after == feed[end]
            IN  IF starts = {} THEN [frames |-> <<>>, rest |-> KeptOf(SubSeq(b, at, Len(b)))]
                ELSE IF Len(b) < start + HeaderSize - 1 \/ Len(b) < end - 1
                THEN [frames |-> <<>>, rest |-> SubSeq(b, start, Len(b))]
                ELSE [frames |-> <<SubSeq(b, start, end - 1)>> \o after.frames, rest |-> after.rest]
    IN  feed
Feed(b) == FeedFrom(b)[1]

(* _next_frame: the plaintext of the next record, once no frame is waiting. *)
Receive(n) ==
    /\ open /\ frames = <<>>
    /\ LET fed == Feed(buffer \o SubSeq(tunnel, 1, n))
       IN  /\ buffer' = fed.rest /\ frames' = fed.frames
           /\ found' = found + Len(fed.frames)
    /\ tunnel' = SubSeq(tunnel, n + 1, Len(tunnel))
    /\ UNCHANGED <<asked, open, heard, sent, replies, result, cloud>>

\* Mutant: the first response is taken for the request's
MatchesAny(response) == response.ok
Matches(response) == response.ok /\ response.id = Current.id

(* A pairing that is refused, or whose answer has no tokens, raises; one that
   succeeds is confirmed. *)
ResultOf(response) ==
    IF Current.kind # "pair" THEN [NoResult EXCEPT !.id = Current.id, !.status = response.status]
    ELSE IF ~response.paired \/ ~Succeeded(response.status) THEN NoResult
    ELSE [id |-> Current.id, status |-> response.status, tokens |-> Tokens(response.topic)]
Confirmation == EncodeFrame(BleRequest(RequestMessage(ConfirmId, 8, ConfirmTopic)))

(* _send_frame_await_response, _send_pair_and_await: one frame is looked at. *)
Take ==
    /\ open /\ frames # <<>>
    /\ frames' = Tail(frames)
    /\ LET response == BleResponse(Head(frames))
       IN  /\ open' = ~Matches(response)
           /\ result' = IF Matches(response) THEN ResultOf(response) ELSE result
           /\ heard' = IF Matches(response) /\ Current.kind = "pair" /\ result' # NoResult
                       THEN ReadFrame(Confirmation) ELSE heard
    /\ UNCHANGED <<asked, sent, tunnel, buffer, found, replies, cloud>>

\* Mutant: what was put together outlives the session
TearDownKeepingFrames ==
    /\ open \/ ~NothingSent
    /\ open' = FALSE
    /\ sent' = <<>> /\ tunnel' = <<>> /\ buffer' = <<>>
    /\ UNCHANGED <<asked, heard, frames, found, replies, result, cloud>>
(* The deadline has passed, the link was lost or the transport is stopped: the
   next session has a transport of its own. *)
TearDown ==
    /\ open \/ ~NothingSent
    /\ open' = FALSE
    /\ sent' = <<>> /\ tunnel' = <<>> /\ buffer' = <<>> /\ frames' = <<>> /\ found' = 0
    /\ UNCHANGED <<asked, heard, replies, result, cloud>>

---------------------------------------------------------------------------
(* A report over the cloud: an envelope, with or without a payload field of
   its own, around entries that may be wrapped further. *)
ReportedValue(v, intField) ==
    CASE v.kind = "int" -> VarintField(intField, v.v)
      [] v.kind = "str" -> BytesField(4, v.s)
      [] v.kind = "bool" -> VarintField(5, v.v)
      [] v.kind = "float" -> FloatField(6, v.v)
EntryBytes(e) ==
    VarintField(1, e.sid) \o VarintField(2, e.bus)
    \o FlattenSeq([i \in DOMAIN e.values |-> ReportedValue(e.values[i], e.intField)])
Wrapped(b, n) == LET wrap[i \in 0..n] == IF i = 0 THEN b ELSE BytesField(9, wrap[i - 1]) IN wrap[n]
EntriesBytes(entries) ==
    LET seq == SetToSeq(entries) IN FlattenSeq([i \in DOMAIN seq |-> BytesField(1, EntryBytes(seq[i]))])
ReportBytes(r) ==
    LET body == BytesField(2, Wrapped(EntriesBytes(r.entries), r.wraps))
        head == VarintField(1, 20) \o VarintField(2, r.status) \o VarintField(3, Timestamp)
    IN  IF r.carried THEN BytesField(2, head \o BytesField(5, body)) ELSE body

(* What a vehicle reports: distinct slots with ids below the limit, each with
   values of distinct kinds, no negative ones; and, without a payload field,
   none whose bus is the status of an expired token, for which the first entry
   would be taken. *)
MaxReportBytes == 400           \* bound: the lengths within a report fit their varints
MaxWraps == 4                   \* bound: below that the decoder looks at nothing
Reportable(v) ==
    /\ v \in Values /\ v.kind # "name" /\ v.v >= 0 /\ Len(v.s) <= MaxSlotsBytes
    /\ v.kind = "str" => Printable(v.s)
Reported(e) ==
    /\ e.sid \in 0..(SlotLimit - 1) /\ e.bus \in 0..(SlotLimit - 1) /\ e.intField \in {3, 7}
    /\ e.values \in Seq(Values) /\ e.values # <<>> /\ \A i \in DOMAIN e.values : Reportable(e.values[i])
    /\ \A i, j \in DOMAIN e.values : e.values[i].kind = e.values[j].kind => i = j
    /\ Len(EntryBytes(e)) <= MaxSlotsBytes
ReportConstants ==
    \A r \in Reports :
        /\ IsFiniteSet(r.entries) /\ \A e \in r.entries : Reported(e)
        /\ \A d, e \in r.entries : <<d.bus, d.sid>> = <<e.bus, e.sid>> => d = e
        /\ Len(EntriesBytes(r.entries)) <= MaxReportBytes /\ r.wraps \in 0..MaxWraps
        /\ r.carried \in BOOLEAN /\ r.status \in 0..(Wide - 1)
        /\ ~r.carried => \A e \in r.entries : e.bus # Expired
ASSUME ReportAssumption == ReportConstants

(* _handle_message, of a PiaResponse.  A report that says that the token has
   expired starts a refresh of it, and is read no further.  It shares no state
   with requests, and is read here before any. *)
Report(r) ==
    /\ asked = <<>> /\ report = NoReport
    /\ report' = r
    /\ LET b == ReportBytes(r)
           envelope == FindResponse(b)
       IN  slots' = IF envelope.status = Expired THEN {}
                    ELSE DecodeSlots(IF envelope.carries THEN envelope.payload ELSE b, r.known)
    /\ UNCHANGED <<asked, open, heard, stream, replies, result>>

(* What is asked, and over which transport. *)
Asks ==
    {<<"restart", <<>>, via>> : via \in {"ble", "cloud"}} \cup {"values"} \X Commands \X {"ble", "cloud"}
    \cup {"catalog"} \X Catalogs \X {"cloud"} \cup {<<"refresh", <<>>, "cloud">>, <<"pair", <<>>, "ble">>}
WireNext ==
    \/ \E r \in Asks : Ask(r[1], r[2], r[3])
    \/ \E noise \in Noises :
           \/ Push(noise)
           \/ \E i \in DOMAIN asked, status \in {0, 3} : Answer(asked[i], status, noise)
    \/ \E n \in 1..Len(tunnel) : Receive(n)
    \/ Take \/ TearDown
    \/ \E r \in Reports : Report(r)
WireSpec == WireInit /\ [][WireNext]_wireVars

---------------------------------------------------------------------------
(* What the vehicle reads of a command is what was asked, of every slot and in
   order, negative numbers over Bluetooth included; over the cloud it holds of
   the others, and the request is filed under the id the vehicle reads.  A
   refresh is never read as a restart, nor a catalog as a command.  A
   pairing is confirmed once it has its tokens, and only then
   (ble_pia.py:219, pia_decoder.py:378, ble_transport.py:252). *)
Plain(values) == \A i \in DOMAIN values : values[i].value.kind = "int" => values[i].value.v >= 0
CommandIsUnderstood ==
    asked # <<>> =>
        IF Current.kind = "pair" /\ result # NoResult THEN heard.kind = "confirm"
        ELSE (Current.via = "ble" \/ Plain(Current.values)) =>
             heard = [kind |-> Current.kind, id |-> Current.id, values |-> Current.values]

(* However the records cut the stream, and whatever lies between the frames, the
   frames are put together whole, once and in order: when all bytes were read
   every frame sent was found (ble_transport.py:521). *)
FramesAreWhole ==
    /\ \A i \in DOMAIN frames : frames[i] = sent[found - Len(frames) + i]
    /\ tunnel = <<>> => found = Len(sent)

(* A request is told the status of the vehicle's answer to it, and a pairing the
   tokens of that answer, never those of a late one or of a push; and one that
   still waits when everything was read has not been answered. *)
AnswersReachTheirRequest ==
    /\ result.id # None =>
           /\ \E a \in replies : a.id = result.id /\ Succeeded(result.status) = Succeeded(a.status)
           /\ result.tokens # NoResult.tokens => result.tokens = Issued(result.id)
    /\ open /\ tunnel = <<>> /\ frames = <<>> => \A a \in replies : a.id # Current.id

(* The slots read of a report are those it holds, with the value of the
   preferred kind, and nothing else (none of a report that only tells that the
   token has expired): no wrapper, status or timestamp passes for
   a slot, and an entry is neither lost nor read at a depth the metadata does
   not vouch for. *)
Kinds == <<"str", "float", "int", "bool">>
Expected(e) ==
    LET of(kind) == {v \in ToSet(e.values) : v.kind = kind}
        first == CHOOSE i \in DOMAIN Kinds : of(Kinds[i]) # {} /\ \A j \in 1..(i - 1) : of(Kinds[j]) = {}
        v == CHOOSE v \in of(Kinds[first]) : TRUE
    IN  IF v.kind \in {"float", "int"} /\ v.v = Sentinel THEN {} ELSE {<<<<e.bus, e.sid>>, v>>}
Reaches(e, r) == LET depth == r.wraps + 1 IN depth <= 3 \/ (depth = 4 /\ <<e.bus, e.sid>> \in r.known)
ReportIsRead ==
    slots = IF report.carried /\ report.status = Expired THEN {}
            ELSE UNION {Expected(e) : e \in {e \in report.entries : Reaches(e, report)}}
=============================================================================
