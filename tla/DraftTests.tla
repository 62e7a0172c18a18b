------------------------------ MODULE DraftTests ------------------------------
(***************************************************************************)
(* The tests of messages of several lines, of RENAME and of extensions of  *)
(* one software in irctest/server_tests/: channel forwarding, RELAYMSG,    *)
(* and roleplay.                                                           *)
(*                                                                         *)
(* The name of a batch is 1, except for a batch that a client sends.       *)
(***************************************************************************)
EXTENDS TestSteps

-----------------------------------------------------------------------------
(* multiline.py *)

CAP_NAME == "draft/multiline"
CONCAT_TAG == "draft/multiline-concat"
base_caps == {"message-tags", "batch", "echo-message", "server-time", "labeled-response"}

ConnectMultiline(c, nick) == ConnectWith(c, nick, base_caps \cup {CAP_NAME})
AliceOnTest == <<ConnectMultiline(1, "alice"), Join(1, "#test")>>
ThreeOnTest == AliceOnTest \o <<
    ConnectMultiline(2, "bob"), Join(2, "#test"), ConnectWith(3, "charlie", base_caps), Join(3, "#test"),
    Sync(1), Sync(2), Sync(3)>>

OpensBatch(name, tags) == SendTagged(1, tags, "BATCH", <<"+", name, CAP_NAME, "#test">>)
SendsLine(name, text, tags) == SendTagged(1, {<<"batch", name>>} \cup tags, "PRIVMSG", <<"#test", text>>)
ClosesBatch == Send(1, "BATCH", <<"-", "123">>)
Concat == {<<CONCAT_TAG, "">>}

SendsMultiline(first, tags) == <<
    OpensBatch("123", {<<"label", "xyz">>} \cup tags), SendsLine("123", first, {}), SendsLine("123", "#how is ", {}),
    SendsLine("123", "everyone?", Concat), ClosesBatch>>

\* A batch of several lines, whose msgid and time are those of the echo.
Dates == {<<"msgid", "id">>, <<"time", "then">>}
BatchStart(tags) == With(Msg("BATCH", <<"+", "1", CAP_NAME, "#test">>), tags)
BatchEnd == Msg("BATCH", <<"-", "1">>)
InsideBatch == Without(With(Cmd("PRIVMSG"), {<<"batch", "1">>}), {"msgid"})

MultilineChecks(tags, inside) == <<
    Begins({}, <<BatchStart(Dates \cup tags)>>), Ends(BatchEnd), Inner(inside),
    Begins({}, <<AnyMessage, AnyMessage, AnyMessage, With(AnyMessage, {<<CONCAT_TAG, ANYSTR>>})>>)>>

MultilineFaults == {Deaf("BATCH"), <<"wrong", "msgid">>}

testBasic == Test(MultilineFaults \cup {<<"drops", "concat">>, <<"leaks", "concat">>, <<"repeats", "msgid">>,
                                        <<"silent", "label">>}, {},
    ThreeOnTest \o SendsMultiline("hello", {}) \o <<
    GetAll(1, MultilineChecks({<<"label", "xyz">>}, Without(Cmd("PRIVMSG"), {"msgid"}))),
    GetAll(2, MultilineChecks({}, InsideBatch)),
    GetAll(3, <<Each({}, Without(With(Cmd("PRIVMSG"), {<<"time", "then">>}), {CONCAT_TAG})),
                Begins({}, <<With(AnyMessage, {<<"msgid", "id">>})>>), Rest(Without(AnyMessage, {"msgid"}))>>)>>)

\* `tags` is what the variant adds to the batch; one that does needs a server
\* that takes such tags.
testBlankLines(tags) ==
    LET privmsg(text) == Msg("PRIVMSG", <<"#test", text>>)
        texts == <<"#how is ", "everyone?">>
        fallback(i) == With(privmsg(texts[i]), tags \cup (IF i = 1 THEN {<<"msgid", "id">>} ELSE {}))
        needed == IF tags = {} THEN <<>> ELSE <<Requires("client tags")>>
    IN  Test(MultilineFaults \cup {<<"sends", "blank lines">>}, {"client tags"},
             ThreeOnTest \o needed \o SendsMultiline("", tags) \o <<
             Sync(1),
             GetAll(2, <<Begins({}, <<With(AnyMessage, tags \cup {<<"msgid", "id">>}), privmsg(""),
                                      privmsg(texts[1]), privmsg(texts[2])>>),
                         Exactly({"PRIVMSG"}, <<privmsg(""), privmsg(texts[1]), privmsg(texts[2])>>)>>),
             GetAll(3, <<Exactly({}, <<fallback(1), fallback(2)>>)>>)>>)

\* A batch that the server refuses.
Refuses(args) == Get(1, Msg("FAIL", <<"BATCH">> \o args \o <<ANYSTR>>))
RefusalFaults == {Lenient("BATCH"), Silent("FAIL")}
Repeated(n, step) == [i \in 1..n |-> step]

testInvalidBatchTag == Test(RefusalFaults, {}, AliceOnTest \o <<
    OpensBatch("123", {}), SendsLine("231", "hi", {}), Refuses(<<"MULTILINE_INVALID">>)>>)
testInvalidBlankConcatTag == Test(RefusalFaults, {}, AliceOnTest \o <<
    OpensBatch("123", {}), SendsLine("123", "hi", {}), SendsLine("123", "", Concat), ClosesBatch,
    Refuses(<<"MULTILINE_INVALID">>)>>)
testLineLimit == Test(RefusalFaults, {},
    AliceOnTest \o <<OpensBatch("123", {})>> \o Repeated(33, SendsLine("123", "hi", {}))
    \o <<Refuses(<<"MULTILINE_MAX_LINES", "32">>)>>)
testByteLimit == Test(RefusalFaults, {},
    AliceOnTest \o <<OpensBatch("234", {})>> \o Repeated(11, SendsLine("234", "x*400", {}))
    \o <<Refuses(<<"MULTILINE_MAX_BYTES", "4096">>)>>)

-----------------------------------------------------------------------------
(* channel_forward.py, channel_rename.py *)

MODERN_CAPS == {"server-time", "message-tags", "batch", "labeled-response", "echo-message", "account-tag"}

testChannelForwarding ==
    Test({<<"forgets", "forward">>, Lenient("forward"), Lenient("parameters"), Silent("ERR_LINKCHANNEL")}, {}, <<
    ConnectWith(1, "bar", MODERN_CAPS), ConnectWith(2, "baz", MODERN_CAPS),
    Join(1, "#bar"), Join(1, "#bar_two"), Join(2, "#baz"),
    Send(1, "MODE", <<"#bar", "+", "f", "#nonexistent">>), Get(1, Cmd("ERR_INVALIDMODEPARAM")),
    Send(1, "MODE", <<"#bar", "+", "f", "#baz">>), GetAll(1, <<Has(Cmd("ERR_CHANOPRIVSNEEDED"))>>),
    Send(1, "MODE", <<"#bar", "+", "f", "#bar_two">>), Get(1, Msg("MODE", <<"#bar", "+", "f", "#bar_two">>)),
    Join(2, "#bar"), Send(2, "PART", <<"#bar">>), Sync(2),
    Send(1, "MODE", <<"#bar", "+", "i">>), Sync(1), Send(2, "JOIN", <<"#bar">>),
    GetAll(2, <<Begins({"ERR_LINKCHANNEL"}, <<Msg("ERR_LINKCHANNEL", <<"baz", "#bar", "#bar_two", ANYLIST>>)>>),
                Begins({"JOIN"}, <<Msg("JOIN", <<"#bar_two">>)>>)>>)>>)

\* Parts of an old channel, and joins of a new one: one of each.
testChannelRename ==
    LET among(cmd, p) == <<Has(p), AtMostOne(cmd)>> IN
    Test({<<"silent", "rename">>, <<"keeps", "RENAME">>, Deaf("RENAME")}, {}, <<
    ConnectWith(1, "bar", {"draft/channel-rename"}), Connect(2, "baz"), Join(1, "#bar"), Join(2, "#bar"),
    Sync(1), Sync(2),
    Send(1, "RENAME", <<"#bar", "#qux", "no reason">>), Get(1, Msg("RENAME", <<"#bar", "#qux", "no reason">>)),
    GetAll(2, among("PART", Msg("PART", <<"#bar", ANYLIST>>)) \o among("JOIN", Msg("JOIN", <<"#qux">>))),
    Join(2, "#bar"), Send(2, "MODE", <<"#bar", "+", "k", "beer">>),
    GetAll(2, <<Lacks(Cmd("ERR_CHANOPRIVSNEEDED"))>>)>>)

-----------------------------------------------------------------------------
(* relaymsg.py, roleplay.py *)

RelaymsgCaps == {"batch", "labeled-response", "echo-message", "draft/chathistory", "draft/event-playback"}
Relay(c, tags, nick, text) == SendTagged(c, tags, "RELAYMSG", <<"#relaymsg", nick, text>>)
RelayRefused(c, code) == GetAll(c, <<Begins({}, <<Msg("FAIL", <<"RELAYMSG", code, ANYSTR>>)>>)>>)
Relayed(text) == From("smt/discord", "PRIVMSG", <<"#relaymsg", text>>)
FirstIs(c, p) == GetAll(c, <<Begins({}, <<p>>)>>)
LatestOf(c, chan) == Send(c, "CHATHISTORY", <<"LATEST", chan, "10">>)

testRelaymsg ==
    Test({Lenient("RELAYMSG"), Lenient("relayed nick"), <<"silent", "label">>, Deaf("CHATHISTORY")}, {}, <<
    KeepsHistory, ConnectWith(1, "baz", RelaymsgCaps), ConnectWith(2, "qux", RelaymsgCaps),
    Join(1, "#relaymsg"), Join(2, "#relaymsg"), Sync(1), Sync(2),
    Relay(1, {}, "invalid!nick/discord", "hi"), RelayRefused(1, "INVALID_NICK"),
    Relay(1, {}, "regular_nick", "hi"), RelayRefused(1, "INVALID_NICK"),
    Relay(1, {}, "smt/discord", "hi"), FirstIs(1, Relayed("hi")), FirstIs(2, Relayed("hi")),
    Relay(1, {<<"label", "x">>}, "smt/discord", "hi again"),
    FirstIs(1, Only(With(Relayed("hi again"), {<<"label", "x">>}))), FirstIs(2, Relayed("hi again")),
    Relay(2, {}, "smt/discord", "hi a third time"), RelayRefused(2, "PRIVS_NEEDED"),
    Send(1, "MODE", <<"#relaymsg", "+", "o", "qux">>), Sync(1), Sync(2),
    SendList(1, "CAP", <<"REQ">>, {<<"draft/relaymsg", "+">>}),
    FirstIs(1, With(Msg("CAP", <<"baz", "ACK">>), {<<"draft/relaymsg", ANYSTR>>})),
    Relay(2, {}, "smt/discord", "hi a third time"), FirstIs(2, Relayed("hi a third time")),
    FirstIs(1, Only(With(Relayed("hi a third time"), {<<"draft/relaymsg", "qux">>}))),
    LatestOf(1, "#relaymsg"),
    GetAll(1, <<Exactly({"PRIVMSG"}, [i \in 1..3 |->
        Msg("PRIVMSG", <<ANYSTR, <<"hi", "hi again", "hi a third time">>[i]>>)])>>)>>)

RoleplayCaps == {"batch", "labeled-response", "message-tags", "server-time"}
Bilbo == From("*bilbo*", "PRIVMSG", <<"#chan", "too much bread">>)
Scene == From("=Scene=", "PRIVMSG", <<"#chan", "dark and stormy night">>)

testRoleplay == Test({Lenient("roleplay"), Deaf("NPC"), Deaf("SCENE"), Deaf("CHATHISTORY")}, {}, <<
    KeepsHistory, ConnectWith(1, "bar", RoleplayCaps), ConnectWith(2, "qux", RoleplayCaps),
    Join(1, "#chan"), Join(2, "#chan"), Sync(1),
    Send(1, "NPC", <<"#chan", "bilbo", "too much bread">>), FirstIs(1, Cmd("ERR_CANNOTSENDRP")),
    Send(1, "MODE", <<"#chan", "+", "E">>), FirstIs(1, Msg("MODE", <<"#chan", "+", "E">>)), Sync(2),
    Send(1, "NPC", <<"#chan", "bilbo", "too much bread">>), FirstIs(1, Bilbo), FirstIs(2, Bilbo),
    Send(1, "SCENE", <<"#chan", "dark and stormy night">>), FirstIs(1, Scene), FirstIs(2, Scene),
    LatestOf(2, "#chan"), GetAll(2, <<Has(Bilbo)>>)>>)

-----------------------------------------------------------------------------
DraftTestList == <<
    testBasic, testBlankLines({<<"+client-only-tag", "">>}), testBlankLines({}),
    testInvalidBatchTag, testInvalidBlankConcatTag, testLineLimit, testByteLimit,
    testChannelForwarding, testChannelRename, testRelaymsg, testRoleplay>>

=============================================================================
