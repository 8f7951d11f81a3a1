------------------------------- MODULE Parser -------------------------------
(***************************************************************************)
(* From the JSON body of a notification to a LiveEvent                     *)
(* (src/livecore/parser.py).  A JSON value is a record with one field that *)
(* names its type.  Of an event's meta only medal_level, identities, count *)
(* and the rows of a board are kept; colours, faces, time stamps and the   *)
(* wording of the texts are left out.                                      *)
(***************************************************************************)
EXTENDS Protobuf

Null == [null |-> TRUE]
Num(n) == [num |-> n]
Str(s) == [str |-> s]
Base64(bytes) == [base64 |-> bytes]       \* a string that decodes to these bytes
Obj(o) == [obj |-> o]                     \* a function from keys to values
List(s) == [list |-> s]

NoKeys == [k \in {} |-> Null]

Truthy(v) == v \notin {Null, Num(0), Str(""), Obj(NoKeys), List(<<>>)}

Get(d, key) == IF key \in DOMAIN d THEN d[key] ELSE Null

\* a or b or ...: the first true one, or the last.
Either(values) ==
    LET true == {k \in DOMAIN values : Truthy(values[k])}
    IN  values[IF true = {} THEN Len(values) ELSE Min(true)]

GetAny(d, keys) == Either([k \in DOMAIN keys |-> Get(d, keys[k])])

\* _int: texts of digits do not occur in the instances.
ToInt(v, default) == IF "num" \in DOMAIN v THEN v.num ELSE default
Dict(v) == IF "obj" \in DOMAIN v THEN v.obj ELSE NoKeys
Array(v) == IF "list" \in DOMAIN v THEN v.list ELSE <<>>
At(s, k) == IF k \in DOMAIN s THEN s[k] ELSE Null

\* str(v or ""), and the first text that is not empty.
ToText(v) == IF "str" \in DOMAIN v THEN v.str ELSE ""
FirstText(texts) == LET some == SelectSeq(texts, LAMBDA t : t # "")
                    IN  IF some = <<>> THEN "" ELSE Head(some)

Viewer == "viewer"           \* the placeholder for a name that is not known
Anonymous == "anonymous"

\* _pb, _reader
BoundReader(schema, cmd, data) ==
    LET pb == Get(data, "pb")
    IN  CommandReader(schema, cmd, IF "base64" \in DOMAIN pb THEN pb.base64 ELSE <<>>)

UinfoName(v) ==
    LET base == Dict(Get(Dict(v), "base"))
    IN  IF base # NoKeys THEN ToText(GetAny(base, <<"name", "uname">>)) ELSE ToText(Get(Dict(v), "name"))

\* _medal: the object of newer commands or the array of older ones.
Medal(v) ==
    IF Dict(v) # NoKeys
    THEN <<ToText(GetAny(Dict(v), <<"medal_name", "name">>)), ToInt(Get(Dict(v), "medal_level"), 0)>>
    ELSE <<ToText(At(Array(v), 2)), ToInt(At(Array(v), 3), 0)>>

User(uid, name, guard, medal) ==
    [uid |-> ToInt(uid, 0), name |-> FirstText(<<name, Anonymous>>), guard |-> guard, medal |-> medal]

NoUser == [uid |-> 0, name |-> "", guard |-> 0, medal |-> ""]
NoGift == [name |-> "", num |-> 0, price |-> 0]
Gift(name, num, price) == [name |-> name, num |-> num, price |-> price]

Event(kind, cmd) ==
    [kind |-> kind, raw_cmd |-> cmd, user |-> NoUser, text |-> "", gift |-> NoGift,
     popularity |-> 0, count |-> 0, medal_level |-> 0, identities |-> <<>>, rows |-> <<>>]

\* parse_notify returns None, or an exception leaves it.
NoEvent == Event("none", "")
ParseError == Event("error", "")

-----------------------------------------------------------------------------
\* "info" is indexed, whatever its type: a number, or an object of two keys
\* or more, raises.  (A string does not occur in the instances.)
Indexable(v) ==
    /\ "num" \in DOMAIN v => v.num = 0
    /\ Cardinality(DOMAIN Dict(v)) < 2

ParseDanmaku(cmd, payload) ==
    LET info == Array(Get(payload, "info"))
        user == Array(At(info, 3))
        medal == Medal(At(info, 4))
    IN  IF ~Indexable(Get(payload, "info")) THEN ParseError
        ELSE IF ToText(At(info, 2)) = "" THEN NoEvent
        ELSE [Event("danmaku", cmd) EXCEPT
                 !.text = ToText(At(info, 2)), !.medal_level = medal[2],
                 !.user = User(At(user, 1), ToText(At(user, 2)), ToInt(At(info, 8), 0), medal[1])]

\* _parse_gift, with the reader of the protobuf part.
ParseGift(cmd, data, r) ==
    LET proto == cmd = "SEND_GIFT_V2" \/ (~Truthy(Get(data, "uname")) /\ Truthy(Get(data, "pb")))
        medal == Medal(GetAny(data, <<"medal_info", "medal">>))
        name == IF proto THEN FirstText(<<ReadText(r, "uname"), ToText(Get(data, "uname")), Viewer>>)
                ELSE FirstText(<<ToText(GetAny(data, <<"uname", "sender_uname">>)), Viewer>>)
        uid == IF proto /\ ReadInt(r, "uid") # 0 THEN Num(ReadInt(r, "uid"))
               ELSE GetAny(data, <<"uid", "sender_uid">>)
        gift == IF proto
                THEN Gift(FirstText(<<ReadText(r, "gift_name"), "gift">>),
                          IF ReadInt(r, "num") = 0 THEN 1 ELSE ReadInt(r, "num"), ReadInt(r, "price"))
                ELSE Gift(FirstText(<<ToText(GetAny(data, <<"giftName", "gift_name">>)), "gift">>),
                          ToInt(GetAny(data, <<"num", "gift_num", "combo_num", "gift_num_total">>), 1),
                          ToInt(Get(data, "price"), 0))
    IN  [Event("gift", cmd) EXCEPT !.user = User(uid, name, 0, medal[1]), !.gift = gift,
                                   !.medal_level = medal[2]]

InteractKind(type) == IF type \in 1..3 THEN <<"enter", "follow", "share">>[type] ELSE "enter"

ParseInteract(cmd, data, r) ==
    LET type == IF ReadInt(r, "msg_type") # 0 THEN ReadInt(r, "msg_type") ELSE ToInt(Get(data, "msg_type"), 1)
        ids == Ints(r, "identities")
        json == Medal(GetAny(data, <<"fans_medal", "fans_medal_info">>))
        medal == IF json[1] # "" THEN json
                 ELSE <<FirstText(<<ReadText(r, "medal_name"), ReadText(r, "uinfo_medal_name")>>),
                        IF ReadInt(r, "medal_level") # 0 THEN ReadInt(r, "medal_level")
                                                     ELSE ReadInt(r, "uinfo_medal_level")>>
        name == FirstText(<<ReadText(r, "uname"), ToText(Get(data, "uname")), ReadText(r, "uinfo_name"), Viewer>>)
        uid == IF ReadInt(r, "uid") # 0 THEN Num(ReadInt(r, "uid")) ELSE Get(data, "uid")
    IN  [Event(InteractKind(type), cmd) EXCEPT
            !.user = User(uid, name, ToInt(Get(data, "guard_level"), 0), medal[1]),
            !.medal_level = medal[2],
            !.identities = IF ids # <<>> THEN ids ELSE Array(Get(data, "identities"))]

Row(item) ==
    [uid |-> ReadInt(item, "uid"), rank |-> ReadInt(item, "rank"), score |-> ReadInt(item, "score"),
     name |-> FirstText(<<ReadText(item, "uname"), ReadText(item, "uinfo_name"), Viewer>>)]

\* The ten first rows are kept, all are counted.
ParseOnlineRank(cmd, items) ==
    [Event("online_rank", cmd) EXCEPT
        !.popularity = Len(items), !.rows = [k \in 1..Min({10, Len(items)}) |-> Row(items[k])]]

\* The name between "<%" and "%>" of copy_writing is what placehold names.
ParseEntryEffect(cmd, data) ==
    LET uinfo == Dict(Get(data, "uinfo"))
        medal == Medal(Get(uinfo, "medal"))
        name == FirstText(<<UinfoName(Obj(uinfo)), ToText(Get(data, "uname")),
                            ToText(Get(data, "copy_writing")), Viewer>>)
    IN  [Event("enter", cmd) EXCEPT !.medal_level = medal[2],
            !.user = User(Get(data, "uid"), name, ToInt(Get(data, "privilege_type"), 0), medal[1])]

ParseSuperChat(cmd, data) ==
    LET info == Dict(Get(data, "user_info"))
        medal == Medal(Get(data, "medal_info"))
        name == FirstText(<<ToText(Get(info, "uname")), ToText(Get(data, "uname")), Viewer>>)
        uid == Either(<<Get(data, "uid"), Get(info, "uid")>>)
    IN  [Event("superchat", cmd) EXCEPT
            !.text = ToText(Get(data, "message")), !.user = User(uid, name, 0, medal[1]),
            !.gift = Gift("superchat", 1, ToInt(Get(data, "price"), 0)), !.medal_level = medal[2]]

ParseGuard(cmd, data) ==
    LET name == FirstText(<<ToText(GetAny(data, <<"username", "uname">>)), Viewer>>)
        level == ToInt(GetAny(data, <<"guard_level", "guard_type", "privilege_type">>), 0)
        label == IF level \in 1..3 THEN <<"governor", "admiral", "captain">>[level]
                 ELSE FirstText(<<ToText(Get(data, "gift_name")), "guard">>)
    IN  [Event("guard", cmd) EXCEPT
            !.user = User(Get(data, "uid"), name, level, ""),
            !.gift = Gift(label, ToInt(Get(data, "num"), 1), ToInt(Get(data, "price"), 0))]

ParseLike(cmd, data) ==
    LET name == FirstText(<<ToText(Get(data, "uname")), UinfoName(Get(data, "uinfo")), Viewer>>)
        count == ToInt(GetAny(data, <<"click_count", "like_count", "count">>), 1)
    IN  [Event("like", cmd) EXCEPT !.user = User(Get(data, "uid"), name, 0, ""), !.count = count]

ParsePopularity(cmd, data) ==
    [Event("popularity", cmd) EXCEPT
        !.popularity = ToInt(IF cmd = "POPULARITY_CHANGE" THEN Get(data, "popularity")
                             ELSE GetAny(data, <<"num", "online_count", "count">>), 0)]

\* The commands of parse_notify's sets, by the branch they take.
GiftCommands == {"SEND_GIFT", "SEND_GIFT_V2", "COMBO_SEND", "SPECIAL_GIFT", "POPULARITY_RED_POCKET_NEW"}
SuperChatCommands == {"SUPER_CHAT_MESSAGE", "SUPER_CHAT_MESSAGE_JPN"}
GuardCommands == {"GUARD_BUY", "USER_TOAST_MSG", "WELCOME_GUARD", "FIRST_GUARD"}
LikeCommands == {"LIKE_INFO_V3_CLICK", "LIKE_INFO_V3_UPDATE", "LIKE_INFO_V3"}
PopularityCommands == {"POPULARITY_CHANGE", "WATCHED_CHANGE", "ONLINE_RANK_COUNT"}

\* Announcements that carry a fixed text.
LabelledCommands ==
    {"LIVE", "PREPARING", "ROOM_CHANGE", "ROOM_REAL_TIME_MESSAGE_UPDATE", "ROOM_RANK", "ATTENTION",
     "SHARE", "NOTICE_MSG", "SPECIAL_ATTENTION", "HOT_RANK_CHANGED", "HOT_RANK_SETTLEMENT",
     "HOT_RANK_SETTLEMENT_V2", "ACTIVITY_BANNER_UPDATE_V2"}

\* Less stable commands, passed on under their own name.
ObservableCommands ==
    {"ROOM_BLOCK_MSG", "WELCOME", "NEW_GUARD_COUNT", "MEDAL_UPGRADE", "RECALL_DANMU_MSG",
     "ANCHOR_LOT_START", "ANCHOR_LOT_END", "ANCHOR_LOT_AWARD", "COMMON_NOTICE_DANMAKU",
     "PK_BATTLE_PRE", "PK_BATTLE_START", "PK_BATTLE_PROCESS", "PK_BATTLE_SETTLE", "PK_BATTLE_END",
     "PK_END", "PK_ENDING", "PK_BEST_UNAME", "PK_MATCH_INFO", "PK_WINNING_STREAK",
     "PK_LOTTERY_START", "VOICE_JOIN_LIST", "VOICE_JOIN_STATUS", "VOICE_JOIN_ROOM_COUNT_INFO",
     "WIDGET_BANNER", "SYS_MSG", "TV_END", "WISH_BOTTLE", "RANK_CHANGED", "RANK_CHANGED_V2",
     "HOT_ROOM_NOTIFY", "WARNING", "CUT_OFF", "ROOM_SILENT_OFF", "DM_INTERACTION",
     "INTERACTIVE_USER"}

\* parse_notify.  Only what precedes ":" in cmd is kept in the instances.
ParseNotify(payload, schema) ==
    LET cmd == IF "obj" \in DOMAIN payload THEN ToText(Get(payload.obj, "cmd")) ELSE ""
        data == Dict(Get(Dict(payload), "data"))
    IN  CASE cmd = "DANMU_MSG" -> ParseDanmaku(cmd, payload.obj)
          [] cmd \in GiftCommands -> ParseGift(cmd, data, BoundReader(schema, "SEND_GIFT_V2", data))
          [] cmd \in {"INTERACT_WORD", "INTERACT_WORD_V2"} ->
                ParseInteract(cmd, data, BoundReader(schema, "INTERACT_WORD_V2", data))
          [] cmd = "ONLINE_RANK_V3" ->
                ParseOnlineRank(cmd, Items(BoundReader(schema, "ONLINE_RANK_V3", data), "list"))
          [] cmd = "ENTRY_EFFECT" -> ParseEntryEffect(cmd, data)
          [] cmd \in SuperChatCommands -> ParseSuperChat(cmd, data)
          [] cmd \in GuardCommands -> ParseGuard(cmd, data)
          [] cmd \in LikeCommands -> ParseLike(cmd, data)
          [] cmd \in PopularityCommands -> ParsePopularity(cmd, data)
          [] cmd \in LabelledCommands \cup ObservableCommands \cup {"SUPER_CHAT_MESSAGE_DELETE"} ->
                Event("system", cmd)
          [] OTHER -> NoEvent
=============================================================================
