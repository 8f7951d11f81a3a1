------------------------------ MODULE Decoding ------------------------------
(***************************************************************************)
(* From a frame of the socket to what the connection's observers are told: *)
(* decode_frame of src/livecore/platforms/bilibili.py and _handle_frame of *)
(* src/livecore/connection.py on top of Protocol and Parser, while the     *)
(* platform renumbers its protobuf fields and the field map in force       *)
(* (SchemaStore) is replaced between two frames or inside one.             *)
(***************************************************************************)
EXTENDS Protocol, Parser

CONSTANTS
    HasBrotli,    \* the brotli package is installed
    Numberings,   \* field maps: command -> [fields, lists, ignore]
    Posts,        \* what the platform sends: trees of packets, see Frame
    Cuts,         \* of how many cells or bytes damage may deprive a post
    Nothing       \* no frame is being handled

ASSUME DecodingAssumption == Numberings # {} /\ Cuts \subseteq Nat

VARIABLES
    wire,      \* the numbering the platform uses
    schema,    \* the numbering in force in the SchemaStore
    post,      \* the frame being handled: what was sent, the damage, and the
               \* numberings it was read by
    told       \* what the observers have been told of it

vars == <<wire, schema, post, told>>

-----------------------------------------------------------------------------
(* The platform (external): how a post becomes a frame.                    *)

RECURSIVE EncodeVarint(_)
EncodeVarint(n) ==
    IF n < Radix THEN <<n>> ELSE <<Radix + (n % Radix)>> \o EncodeVarint(n \div Radix)

Bytes(text) == CHOOSE b \in DOMAIN Utf8 : Utf8[b] = text

Field(number, bytes) == EncodeVarint(8 * number + LENGTH) \o EncodeVarint(Len(bytes)) \o bytes

\* A message from a function of field paths to JSON values; the elements of a
\* list are numbers (packed) or messages of their own.
RECURSIVE EncodeMessage(_)
EncodeMessage(values) ==
    LET numbers == {p[1] : p \in DOMAIN values}
        Leaf(n, v) ==
            IF "num" \in DOMAIN v THEN EncodeVarint(8 * n + VARINT) \o EncodeVarint(v.num)
            ELSE IF "str" \in DOMAIN v THEN Field(n, Bytes(v.str))
            ELSE IF "packed" \in DOMAIN v
                 THEN Field(n, FlattenSeq([k \in DOMAIN v.packed |-> EncodeVarint(v.packed[k])]))
            ELSE FlattenSeq([k \in DOMAIN v.list |-> Field(n, EncodeMessage(v.list[k]))])
        Of(n) ==
            IF <<n>> \in DOMAIN values THEN Leaf(n, values[<<n>>])
            ELSE LET inner == {Tail(p) : p \in {q \in DOMAIN values : q[1] = n}}
                 IN  Field(n, EncodeMessage([p \in inner |-> values[<<n>> \o p]]))
        order == SetToSortSeq(numbers, <)
    IN  FlattenSeq([k \in DOMAIN order |-> Of(order[k])])

\* The values of a message by the paths that `map` gives to their names.
Numbered(map, values) ==
    [p \in {map[n] : n \in DOMAIN values} |-> values[CHOOSE n \in DOMAIN values : map[n] = p]]

NumberedMessage(s, values) ==
    LET Rows(n, v) == IF n \in DOMAIN s.lists
                      THEN List([k \in DOMAIN v.list |-> Numbered(s.lists[n], v.list[k])]) ELSE v
    IN  Numbered(s.fields, [n \in DOMAIN values |-> Rows(n, values[n])])

\* A notification in its protobuf form, of which `lost` bytes are missing at
\* the end, or in its JSON form.
Blob(note, s, lost) ==
    LET bytes == EncodeMessage(NumberedMessage(s[note.v2], note.values))
    IN  SubSeq(bytes, 1, Len(bytes) - Min({lost, Len(bytes)}))

Payload(note, s, lost) ==
    LET data == IF note.form = "pb" THEN [k \in {"pb"} |-> Base64(Blob(note, s, lost))]
                ELSE note.values
    IN  Obj([k \in {"cmd", "data", "info"} |->
             CASE k = "cmd" -> Str(note.cmd) [] k = "data" -> Obj(data) [] OTHER -> note.info])

\* A post is a leaf (a reply or a notification) or a batch of posts.
RECURSIVE Frame(_, _, _)
Frame(posts, s, lost) ==
    LET Of(p) ==
          CASE p.is = "auth" -> EncodePacket(OP_AUTH_REPLY, <<>>, PROTO_INT)
            [] p.is = "popularity" ->
                 EncodePacket(OP_HEARTBEAT_REPLY, <<[kind |-> "number", value |-> p.value]>>, PROTO_INT)
            [] p.is = "note" ->
                 EncodePacket(OP_NOTIFY, <<[kind |-> "json", payload |-> Payload(p, s, lost)]>>, PROTO_RAW)
            [] p.is = "batch" ->
                 EncodePacket(OP_NOTIFY, <<[kind |-> "compressed", frame |-> Frame(p.posts, s, lost)]>>,
                              p.protover)
    IN  FlattenSeq([k \in DOMAIN posts |-> Of(posts[k])])

-----------------------------------------------------------------------------
Inflates(body) == Len(body) = 1 /\ body[1].kind = "compressed"

\* _expand: a body that does not inflate stays as it is, but what is wrong
\* inside one that does is wrong with the whole.
RECURSIVE Expand(_)
Expand(buf) ==
    LET packets == DecodePackets(buf)
        Of(p) == IF p.protover \notin {PROTO_ZLIB, PROTO_BROTLI} \/ p.body = <<>> THEN Ok(<<p>>)
                 ELSE IF p.protover = PROTO_BROTLI /\ ~HasBrotli THEN Raises
                 ELSE IF Inflates(p.body) THEN Expand(p.body[1].frame) ELSE Ok(<<p>>)
        parts == [k \in DOMAIN packets.packets |-> Of(packets.packets[k])]
    IN  IF packets.ok /\ \A k \in DOMAIN parts : parts[k].ok
        THEN Ok(FlattenSeq([k \in DOMAIN parts |-> parts[k].packets]))
        ELSE Raises

\* expand_packets(strict=False)
ExpandPackets(buf) == Expand(buf).packets

\* parse_json_body: what is no JSON is a text.
ParseJsonBody(body) ==
    IF body = <<>> THEN Null
    ELSE IF body[1].kind = "json" THEN body[1].payload ELSE Str("text")

Live == Event("live", "")
HeartbeatReply(n) == [Event("popularity", "HEARTBEAT_REPLY") EXCEPT !.popularity = n]

\* decode_frame, and what _handle_frame makes of its frames.
Inbound(p, s) ==
    CASE p.op = OP_AUTH_REPLY -> Live
      [] p.op = OP_HEARTBEAT_REPLY -> HeartbeatReply(ReadPopularity(p.body))
      [] p.op = OP_NOTIFY -> ParseNotify(ParseJsonBody(p.body), s)
      [] OTHER -> NoEvent

\* The first k packets are read by s, the others by t: parse_notify() lets the
\* store reload before each notification.
Inbounds(packets, k, s, t) ==
    [j \in DOMAIN packets |-> Inbound(packets[j], IF j <= k THEN s ELSE t)]

\* Bug: what a frame holds is reported event by event, the replies first.
ReportRepliesFirst(items) ==
    SelectSeq(items, LAMBDA e : e.kind \in {"live", "popularity"})
    \o SelectSeq(items, LAMBDA e : e.kind \notin {"live", "popularity", "none", "error"})

\* _handle_frame: an exception drops the frame with all it holds.
Reported(items) ==
    IF ParseError \in Range(items) THEN <<>> ELSE SelectSeq(items, LAMBDA e : e # NoEvent)

Init ==
    /\ wire \in Numberings /\ schema = wire
    /\ post = Nothing /\ told = <<>>

\* The platform changes its protobuf numbering; nobody tells the reader.
Renumber == post = Nothing /\ wire' \in Numberings /\ UNCHANGED <<schema, post, told>>

\* The store reloads between two frames, or an overlay is pushed.
Reload == post = Nothing /\ schema' \in Numberings /\ UNCHANGED <<wire, post, told>>

\* A frame is handled; `cut` cells are missing at its end, `lost` bytes in
\* the protobuf blobs.  The store may reload in the middle of it.
Receive ==
    /\ post = Nothing
    /\ \E sent \in Posts, cut \in Cuts, lost \in Cuts :
        LET raw == Frame(sent, wire, lost)
            packets == ExpandPackets(SubSeq(raw, 1, Len(raw) - Min({cut, Len(raw)})))
        IN  \E next \in Numberings, k \in 0..Len(packets) :
                /\ next = schema <=> k = Len(packets)
                /\ post' = [sent |-> sent, cut |-> cut, lost |-> lost, by |-> {schema, next}]
                /\ told' = Reported(Inbounds(packets, k, schema, next))
                /\ schema' = next
    /\ UNCHANGED wire

Handled == post # Nothing /\ post' = Nothing /\ told' = <<>> /\ UNCHANGED <<wire, schema>>

Next == Renumber \/ Reload \/ Receive \/ Handled

Spec == Init /\ [][Next]_vars

-----------------------------------------------------------------------------
(* What was meant, from the message and not from its encoding.             *)

Meant(v, name) == IF name \in DOMAIN v THEN v[name] ELSE Null
MeantName(v) == FirstText(<<ToText(Meant(v, "uname")), ToText(Meant(v, "uinfo_name")), Viewer>>)

MeantRow(v) ==
    [uid |-> ToInt(Meant(v, "uid"), 0), rank |-> ToInt(Meant(v, "rank"), 0),
     score |-> ToInt(Meant(v, "score"), 0), name |-> MeantName(v)]

MeantEvent(p) ==
    LET v == p.values IN
    CASE p.is = "auth" -> Live
      [] p.is = "popularity" -> HeartbeatReply(p.value)
      [] p.is = "note" /\ p.v2 = "none" -> p.meant
      [] p.is = "note" /\ p.v2 = "SEND_GIFT_V2" ->
           [Event("gift", p.cmd) EXCEPT
               !.user = User(Meant(v, "uid"), MeantName(v), 0, ""),
               !.gift = Gift(FirstText(<<ToText(Meant(v, "gift_name")), "gift">>),
                             ToInt(Meant(v, "num"), 1), ToInt(Meant(v, "price"), 0))]
      [] p.is = "note" /\ p.v2 = "INTERACT_WORD_V2" ->
           [Event(InteractKind(ToInt(Meant(v, "msg_type"), 1)), p.cmd) EXCEPT
               !.user = User(Meant(v, "uid"), MeantName(v), 0, ToText(Meant(v, "medal_name"))),
               !.medal_level = ToInt(Meant(v, "medal_level"), 0),
               !.identities = IF "identities" \in DOMAIN v THEN v["identities"].packed ELSE <<>>]
      [] p.is = "note" /\ p.v2 = "ONLINE_RANK_V3" ->
           LET rows == Meant(v, "list").list
           IN  [Event("online_rank", p.cmd) EXCEPT
                   !.popularity = Len(rows), !.rows = [k \in DOMAIN rows |-> MeantRow(rows[k])]]
      [] OTHER -> NoEvent

RECURSIVE MeantEvents(_)
MeantEvents(posts) ==
    LET Of(p) == IF p.is = "batch" THEN MeantEvents(p.posts)
                 ELSE IF MeantEvent(p) = NoEvent THEN <<>> ELSE <<MeantEvent(p)>>
    IN  FlattenSeq([k \in DOMAIN posts |-> Of(posts[k])])

\* A notification that parse_notify fails on takes its whole frame with it.
Sound(posts) == \A k \in DOMAIN posts : posts[k].is = "note" => posts[k].meant # ParseError

Whole == post # Nothing /\ post.cut = 0 /\ Sound(post.sent)

\* A whole frame is told item by item in the order it was sent, batched,
\* compressed or not, whatever the numbering and whether a command comes in
\* its JSON or in its protobuf form (protocol.py:98-116, bilibili.py:111-137,
\* parser.py:86-222, where it is read by the numbering it was sent in).
DecodesWhatWasSent == Whole /\ post.lost = 0 /\ post.by = {wire} => told = MeantEvents(post.sent)

\* The value of a field that was meant, or what stands for an absent one.
OrDefault(a, b, default) == a \in {b, default}

PartOf(e, m) ==
    /\ e.raw_cmd = m.raw_cmd
    /\ e.kind \in {m.kind, IF m.kind \in {"follow", "share"} THEN "enter" ELSE m.kind}
    /\ OrDefault(e.user.name, m.user.name, IF m.kind = "online_rank" THEN "" ELSE Viewer)
    /\ OrDefault(e.user.uid, m.user.uid, 0) /\ OrDefault(e.user.medal, m.user.medal, "")
    /\ OrDefault(e.gift.name, m.gift.name, "gift") /\ OrDefault(e.gift.num, m.gift.num, 1)
    /\ OrDefault(e.gift.price, m.gift.price, 0) /\ OrDefault(e.medal_level, m.medal_level, 0)
    /\ IsPrefix(e.identities, m.identities) \/ e.identities = <<>>
    /\ Len(e.rows) <= Len(m.rows)
    /\ \A k \in DOMAIN e.rows : \A n \in {"uid", "rank", "score"} :
           OrDefault(e.rows[k][n], m.rows[k][n], 0)

\* "The decoder can therefore never be broken by a schema drift: it just
\* reports fewer fields" (schema.py:160), and so it does of a truncated blob
\* (pb.py:9): each event of a whole frame is still told, every field of it as
\* it was meant or absent.  The platform must not give a number to another field.
DriftOnlyLosesFields ==
    Whole => /\ Len(told) = Len(MeantEvents(post.sent))
             /\ \A k \in DOMAIN told : PartOf(told[k], MeantEvents(post.sent)[k])

\* A frame cut short tells a beginning of what it meant and nothing else: no
\* cell after the damage is taken for another packet, no half packet is told
\* (decode_packets checks every length, protocol.py:70-80).
CutFrameTellsPrefix == post # Nothing /\ post.lost = 0 /\ post.by = {wire}
    => IsPrefix(told, MeantEvents(post.sent)) \/ ~Sound(post.sent)

\* "strict=False keeps whatever could be decoded instead of raising on a
\* malformed or partially received frame" (protocol.py:86).
Complete(k) ==
    Len(Frame(SubSeq(post.sent, 1, k), wire, post.lost)) <= Len(Frame(post.sent, wire, post.lost)) - post.cut

KeepsWhatCouldBeDecoded ==
    post # Nothing /\ Sound(post.sent) => \A k \in DOMAIN post.sent :
        Complete(k) => Len(told) >= Len(MeantEvents(SubSeq(post.sent, 1, k)))
=============================================================================
