----------------------------- MODULE MCDecoding -----------------------------
(* Gifts, entrances and boards in both forms, the other commands in theirs,  *)
(* alone, in one frame and in compressed batches, under two numberings that  *)
(* share no number.                                                          *)
EXTENDS Decoding, TLC

Texts == <<1>> :> "ann" @@ <<2, 3>> :> "rose" @@ <<4>> :> "bob"

Command(fields, lists, ignore) == [fields |-> fields, lists |-> lists, ignore |-> ignore]

\* Numbers for the fields of the three protobuf commands, starting after n;
\* some are nested one or two levels deep.
Numbering(n) ==
    "SEND_GIFT_V2" :> Command(
        "uname" :> <<n + 1>> @@ "gift_name" :> <<n + 2, 2>> @@ "num" :> <<n + 2, 3>> @@
        "price" :> <<n + 2, 5>>, <<>>, {n + 3}) @@
    "INTERACT_WORD_V2" :> Command(
        "uid" :> <<n + 1>> @@ "uname" :> <<n + 2>> @@ "identities" :> <<n + 4>> @@
        "msg_type" :> <<n + 5>> @@ "medal_name" :> <<n + 6, 3>> @@ "medal_level" :> <<n + 6, 2>> @@
        "uinfo_name" :> <<n + 7, 2, 1>>, <<>>, {}) @@
    "ONLINE_RANK_V3" :> Command(
        "list" :> <<n + 3>>,
        "list" :> ("uid" :> <<1>> @@ "uname" :> <<n + 4>> @@ "rank" :> <<5>>), {})

TwoNumberings == {Numbering(0), Numbering(8)}

Some(values) == {[n \in D |-> values[n]] : D \in SUBSET DOMAIN values}
Note(cmd, v2, form, values, meant) ==
    [is |-> "note", cmd |-> cmd, v2 |-> v2, form |-> form, values |-> values, info |-> Null,
     meant |-> meant]

GiftValues == Some("uname" :> Str("ann") @@ "gift_name" :> Str("rose") @@ "num" :> Num(3) @@
                   "price" :> Num(70))
EntryValues == Some("uid" :> Num(9) @@ "uname" :> Str("ann") @@ "uinfo_name" :> Str("bob") @@
                    "msg_type" :> Num(2) @@ "medal_name" :> Str("rose"))
               \cup {"identities" :> [packed |-> <<1, 20>>] @@ "medal_level" :> Num(8)}
BoardRow == "uid" :> Num(9) @@ "uname" :> Str("ann") @@ "rank" :> Num(1)
NoName == "uid" :> Num(8) @@ "rank" :> Num(2)

Gifts ==
    {Note("SEND_GIFT_V2", "SEND_GIFT_V2", "pb", v, NoEvent) : v \in GiftValues}
    \cup {Note("SEND_GIFT", "SEND_GIFT_V2", "json", v, NoEvent) : v \in GiftValues}
Entrances ==
    {Note("INTERACT_WORD_V2", "INTERACT_WORD_V2", "pb", v, NoEvent) : v \in EntryValues}
    \cup {Note("INTERACT_WORD", "INTERACT_WORD_V2", "json", v, NoEvent) :
             v \in {w \in EntryValues : {"uinfo_name", "medal_name", "medal_level"} \cap DOMAIN w = {}}}
Boards ==
    {Note("ONLINE_RANK_V3", "ONLINE_RANK_V3", "pb", "list" :> List(rows), NoEvent) :
        rows \in {<<BoardRow>>, <<BoardRow, NoName>>, <<NoName, BoardRow>>}}

\* Danmaku and the commands that exist in JSON only, with what they mean.
Ann(uid) == User(Num(uid), "ann", 0, "")
Danmaku(info, meant) == [Note("DANMU_MSG", "none", "json", NoKeys, meant) EXCEPT !.info = info]
Hello == Danmaku(List(<<Null, Str("rose"), List(<<Num(9), Str("ann")>>), List(<<Num(21), Str("bob")>>)>>),
                 [Event("danmaku", "DANMU_MSG") EXCEPT !.text = "rose", !.user = User(Num(9), "ann", 0, "bob")])
Silent == Danmaku(List(<<Null, Str("")>>), NoEvent)
Odd == Danmaku(Num(5), ParseError)
Json(cmd, values, meant) == Note(cmd, "none", "json", values, meant)
Others ==
    {Hello, Silent,
     Json("ENTRY_EFFECT", "uinfo" :> Obj("base" :> Obj("name" :> Str("ann"))) @@ "uid" :> Num(9),
          [Event("enter", "ENTRY_EFFECT") EXCEPT !.user = Ann(9)]),
     Json("ENTRY_EFFECT", "copy_writing" :> Str("ann"),
          [Event("enter", "ENTRY_EFFECT") EXCEPT !.user = Ann(0)]),
     Json("SUPER_CHAT_MESSAGE", "message" :> Str("rose") @@ "price" :> Num(30) @@
          "user_info" :> Obj("uname" :> Str("ann") @@ "uid" :> Num(9)),
          [Event("superchat", "SUPER_CHAT_MESSAGE") EXCEPT !.text = "rose", !.user = Ann(9),
              !.gift = Gift("superchat", 1, 30)]),
     Json("GUARD_BUY", "username" :> Str("ann") @@ "guard_level" :> Num(3) @@ "num" :> Num(2),
          [Event("guard", "GUARD_BUY") EXCEPT !.user = User(Num(0), "ann", 3, ""),
              !.gift = Gift("captain", 2, 0)]),
     Json("LIKE_INFO_V3_CLICK", "uinfo" :> Obj("name" :> Str("ann")),
          [Event("like", "LIKE_INFO_V3_CLICK") EXCEPT !.user = Ann(0), !.count = 1]),
     Json("WATCHED_CHANGE", "num" :> Num(40),
          [Event("popularity", "WATCHED_CHANGE") EXCEPT !.popularity = 40]),
     Json("LIVE", NoKeys, Event("system", "LIVE")),
     Json("PK_END", NoKeys, Event("system", "PK_END")),
     Json("STOP_LIVE_ROOM_LIST", NoKeys, NoEvent)}

Auth == [is |-> "auth"]
Popularity == [is |-> "popularity", value |-> 6]
Full == CHOOSE p \in Gifts : p.form = "pb" /\ DOMAIN p.values = {"uname", "gift_name", "num", "price"}
Batch(protover, posts) == [is |-> "batch", protover |-> protover, posts |-> posts]

Singles == {Auth, Popularity, Hello, Silent, Full}
Pairs == {<<a, b>> : a \in Singles, b \in Singles}
Batches == {Batch(v, pair) : v \in {PROTO_ZLIB, PROTO_BROTLI}, pair \in Pairs}

AllPosts ==
    {<<p>> : p \in Gifts \cup Entrances \cup Boards \cup Others \cup Batches} \cup Pairs
    \cup {<<Batch(PROTO_ZLIB, <<Hello, Batch(PROTO_ZLIB, pair)>>), Full>> : pair \in Pairs}
    \cup {<<a, b, Full>> : a \in Batches, b \in {Auth, Hello}}
    \cup {<<Auth, Odd>>}
=============================================================================
