--------------------------- MODULE ExtensionTests ---------------------------
(***************************************************************************)
(* The tests of labeled responses, of message tags and of bots in          *)
(* irctest/server_tests/.                                                  *)
(***************************************************************************)
EXTENDS TestSteps

-----------------------------------------------------------------------------
(* labeled_responses.py *)

LabelCaps == {"echo-message", "batch", "labeled-response"}
TagmsgCaps == LabelCaps \cup {"message-tags"}
Label == {<<"label", "12345">>}
Reaction(msgid) == {<<"+draft/reply", msgid>>, <<"+draft/react", "smile">>}

\* tags={"label": "12345"}, and tags={}
WithLabel(cmd) == Only(With(Cmd(cmd), Label))
WithoutTags(p) == Only(p)

FooBarConnect(caps) == <<ConnectWith(1, "foo", caps), Sync(1), ConnectWith(2, "bar", caps), Sync(2)>>
FooBarOnTest(caps) ==
    FooBarConnect(caps)
    \o <<Send(1, "JOIN", <<"#test">>), Sync(1), Send(2, "JOIN", <<"#test">>), Sync(2), Sync(1)>>

\* The label is for the sender only.
LabelFaults == {<<"silent", "label">>, <<"leaks", "label">>}

testLabeledPrivmsgResponsesToMultipleClients ==
    LET received(c) == Get(c, WithoutTags(Cmd("PRIVMSG"))) IN
    Test(LabelFaults, {"several targets"}, <<
    ConnectWith(1, "foo", LabelCaps), Requires("several targets"), Sync(1), ConnectWith(2, "bar", LabelCaps), Sync(2),
    ConnectWith(3, "carl", LabelCaps), Sync(3), ConnectWith(4, "alice", LabelCaps), Sync(4),
    SendTagged(1, Label, "PRIVMSG", <<"bar,carl,alice", "hi">>), GetOne(1, <<Has(Cmd("BATCH"))>>),
    received(2), received(3), received(4)>>)

LabeledTo(steps, cmd, target, tags) ==
    Test(LabelFaults, {}, steps \o <<
    SendTagged(1, Label \cup tags, cmd, <<target, "hi">>),
    Get(1, WithLabel(cmd)), Get(2, WithoutTags(Cmd(cmd)))>>)

testLabeledPrivmsgResponsesToClient == LabeledTo(FooBarConnect(LabelCaps), "PRIVMSG", "bar", {})
testLabeledNoticeResponsesToClient  == LabeledTo(FooBarConnect(LabelCaps), "NOTICE", "bar", {})
testLabeledPrivmsgResponsesToChannel == LabeledTo(FooBarOnTest(LabelCaps), "PRIVMSG", "#test", Reaction("123"))
testLabeledNoticeResponsesToChannel  == LabeledTo(FooBarOnTest(LabelCaps), "NOTICE", "#test", Reaction("123"))

\* Exactly one of two messages has the label: the second step returns if it was
\* the first one.
LabeledToSelf(caps, line) ==
    LET one == Cmd(line.cmd)
        labeled == With(one, Label)
        unlabeled == Without(one, {"label"}) IN
    Test({<<"silent", "label">>, <<"labels", "delivery">>}, {"delivers first"}, <<
    ConnectWith(1, "foo", caps), Sync(1), SendLine(1, line),
    [GetOne(1, <<HasEither(<<labeled, unlabeled>>), Else(Has(labeled))>>) EXCEPT !.branch = 1],
    GetOne(1, <<Has(unlabeled), ReturnAnyway>>),
    Get(1, labeled)>>)

testLabeledPrivmsgResponsesToSelf == LabeledToSelf(LabelCaps, Tagged(Line("", "PRIVMSG", <<"foo", "hi">>), Label))
testLabeledNoticeResponsesToSelf  == LabeledToSelf(LabelCaps, Tagged(Line("", "NOTICE", <<"foo", "hi">>), Label))
testLabeledTagMsgResponsesToSelf ==
    LabeledToSelf(TagmsgCaps, Tagged(Line("", "TAGMSG", <<"foo">>), Label \cup Reaction("123")))

\* A TAGMSG about a message that was sent before it, with its msgid.
LabeledTagmsg(steps, target, echoed) ==
    LET hi(c) == GetOne(c, <<Has(With(AnyMessage, {<<"msgid", "hi">>}))>>) IN
    Test(LabelFaults \cup {<<"drops", "tags">>, Silent("TAGMSG")}, {}, steps \o <<
    Send(1, "PRIVMSG", <<target, "hi">>), hi(1), hi(2),
    SendTagged(1, Label \cup Reaction("hi"), "TAGMSG", <<target>>),
    Get(1, With(Cmd("TAGMSG"), Label \cup echoed)),
    Get(2, Without(With(Cmd("TAGMSG"), Reaction("hi")), {"label"}))>>)

testLabeledTagMsgResponsesToClient == LabeledTagmsg(FooBarConnect(TagmsgCaps), "bar", Reaction("hi"))
testLabeledTagMsgResponsesToChannel ==
    LabeledTagmsg(FooBarOnTest(TagmsgCaps), "#test", {<<"+draft/reply", "hi">>})

testBatchedJoinMessages == Test({<<"silent", "label">>, <<"forgets", "batch">>, Deaf("JOIN")}, {}, <<
    ConnectWith(1, "bar", {"batch", "labeled-response", "message-tags", "server-time"}), Sync(1),
    SendTagged(1, Label, "JOIN", <<"#xyz">>),
    GetAll(1, <<Begins({}, <<With(Msg("BATCH", <<"+", ANYSTR, "labeled-response">>), Label), AnyMessage, AnyMessage>>),
                Ends(Msg("BATCH", <<"-", ANYSTR>>)), Inner(With(AnyMessage, {<<"batch", ANYSTR>>}))>>)>>)

BarConnects == ConnectWith(1, "bar", {"batch", "labeled-response"})

testNoBatchForSingleMessage == Test({<<"batches", "one">>, <<"silent", "label">>}, {}, <<
    BarConnects, Sync(1), SendTagged(1, Label, "PING", <<"adhoctestline">>),
    Get(1, Only(With(Msg("PONG", <<ANYSTR, "adhoctestline">>), Label)))>>)
testEmptyBatchForNoResponse == Test({<<"silent", "label">>, Deaf("PONG")}, {},
    <<BarConnects, Sync(1), SendTagged(1, Label, "PONG", <<"adhoctestline">>),
    GetAll(1, <<Exactly({}, <<WithLabel("ACK")>>)>>)>>)
testUnknownCommand == Test({<<"silent", "label">>, Deaf("NONEXISTENT_COMMAND")}, {}, <<
    BarConnects, SendTagged(1, Label, "NONEXISTENT_COMMAND", <<>>),
    GetAll(1, <<Exactly({}, <<WithLabel("ERR_UNKNOWNCOMMAND")>>)>>)>>)

-----------------------------------------------------------------------------
(* message_tags.py *)

ArbitraryClientTags == Requires("client tags")
HasMsgid == {<<"msgid", ANYSTR>>}

\* Clients 1 to 4 are alice, bob, carol and dave.
\* The last assertions on TAGMSG look at what alice got twice, and never at
\* the tags of bob's echo.
testBasic ==
    LET hi(text) == Msg("PRIVMSG", <<"#test", text>>)
        yourself(c) == Get(c, With(hi("hi yourself"), {<<"+bat", "baz">>, <<"+fizz", "buzz">>} \cup HasMsgid))
        tagmsg == With(Msg("TAGMSG", <<"#test">>), {<<"+buzz", "fizz;buzz">>, <<"+steel", "wootz">>} \cup HasMsgid)
        getAllMessages == <<Sync(1), Sync(2), Sync(3), Sync(4)>> IN
    Test({<<"relays", "tags">>, <<"leaks", "tags">>, <<"drops", "tags">>, Leaky("TAGMSG")}, {"client tags"},
    <<ConnectWith(1, "alice", {"message-tags"}), ArbitraryClientTags, Join(1, "#test"),
      ConnectWith(2, "bob", {"message-tags", "echo-message"}), Join(2, "#test"),
      Connect(3, "carol"), Join(3, "#test"), ConnectWith(4, "dave", {"server-time"}), Join(4, "#test")>>
    \o getAllMessages \o <<
      SendTagged(1, {<<"+baz", "bat">>, <<"fizz", "buzz">>}, "PRIVMSG", <<"#test", "hi">>), Sync(1),
      Get(2, Without(With(hi("hi"), {<<"+baz", "bat">>} \cup HasMsgid), {"fizz"})), Get(3, WithoutTags(hi("hi"))),
      Get(4, Without(With(hi("hi"), {<<"time", ANYSTR>>}), {"+baz"}))>>
    \o getAllMessages \o <<
      SendTagged(2, {<<"+bat", "baz">>, <<"+fizz", "buzz">>}, "PRIVMSG", <<"#test", "hi yourself">>),
      yourself(2), yourself(1), Get(3, WithoutTags(hi("hi yourself")))>>
    \o getAllMessages \o <<
      SendTagged(2, {<<"+buzz", "fizz;buzz">>, <<"cat", "dog">>, <<"+steel", "wootz">>}, "TAGMSG", <<"#test">>),
      Get(2, Without(With(AnyMessage, HasMsgid), {"cat"})), Get(1, Without(tagmsg, {"cat"})), Empty(3), Empty(4)>>)

\* Tags of the longest length, and one byte more.
LongTags(length) == {<<"foo", "bar">>, <<"+baz", length>>}
testLengthLimits ==
    LET relayed(c, p) == Get(c, With(p, {<<"+baz", "longest">>} \cup HasMsgid))
        tagmsg == Msg("TAGMSG", <<"#test">>)
        privmsg == Msg("PRIVMSG", <<"#test", "b*496">>)
        tooLong == Cmd("ERR_INPUTTOOLONG")
        excess(cmd, args) == <<SendTagged(1, LongTags("too long"), cmd, args), Get(1, tooLong), Empty(2)>> IN
    Test({Lenient("line length"), <<"drops", "tags">>}, {"client tags", "no room for the source"},
    <<ConnectWith(1, "alice", {"message-tags", "echo-message"}), ArbitraryClientTags, Join(1, "#test"),
      ConnectWith(2, "bob", {"message-tags"}), Join(2, "#test"), Sync(1), Sync(2),
      SendTagged(1, LongTags("longest"), "TAGMSG", <<"#test">>), relayed(1, tagmsg), relayed(2, tagmsg)>>
    \o excess("TAGMSG", <<"#test">>) \o <<
      SendTagged(1, LongTags("longest"), "PRIVMSG", <<"#test", "b*496">>),
      [GetOne(1, <<Else(Lacks(tooLong)), Has(With(privmsg, {<<"+baz", "longest">>} \cup HasMsgid))>>) EXCEPT !.branch = 1],
      relayed(2, privmsg)>>
    \o excess("PRIVMSG", <<"#test", "b*495">>))

testRecipientCapability ==
    LET reply == {<<"+draft/reply", "hey">>}
        to(nick, text) == Msg("PRIVMSG", <<nick, text>>) IN
    Test({<<"leaks", "tags">>, <<"drops", "tags">>}, {"client tags"}, <<
    ConnectWith(1, "alice", {"message-tags", "echo-message"}), ArbitraryClientTags, Connect(2, "bob"), Sync(1), Sync(2),
    Send(2, "PRIVMSG", <<"alice", "hey">>), Sync(2), GetAll(1, <<Exactly({}, <<With(AnyMessage, {<<"msgid", "hey">>})>>)>>),
    SendTagged(1, reply, "PRIVMSG", <<"bob", "hey yourself">>),
    Get(1, With(to("bob", "hey yourself"), reply)), Get(2, WithoutTags(to("bob", "hey yourself"))),
    SendList(2, "CAP", <<"REQ">>, {<<"message-tags", "+">>, <<"server-time", "+">>}), Sync(2),
    SendTagged(1, reply, "PRIVMSG", <<"bob", "hey again">>), Sync(1),
    Get(2, With(to("bob", "hey again"), reply))>>)

-----------------------------------------------------------------------------
(* bot_mode.py: client 1 learns the mode of bots, 2 is the bot, 3 a user. *)

BotTag == {<<"bot", ANYSTR>>}
BotBeeps(target) == With(Msg("PRIVMSG", <<target, "beep boop">>), BotTag)

InitBot(caps) == <<
    Connect(1, "modegettr"), Requires("BOT"), ConnectWith(2, "botnick", caps), Send(2, "MODE", <<"botnick", "+", "B">>),
    [Get(2, Msg("MODE", <<"botnick", "+", "B">>)) EXCEPT !.skips = {"NOTICE"}]>>

BotTest(faults, steps) == Test(faults, {"BOT"}, steps)
UserOnChan == <<
    ConnectWith(3, "usernick", {"message-tags"}), Send(2, "JOIN", <<"#chan">>), Send(3, "JOIN", <<"#chan">>),
    Sync(2), Sync(3)>>

testBotMode == BotTest({Deaf("MODE")}, InitBot({}))
testBotWhois == BotTest({Silent("RPL_WHOISBOT"), Deaf("WHOIS")}, InitBot({}) \o <<
    Connect(3, "usernick"), Send(3, "WHOIS", <<"botnick">>),
    GetAll(3, <<Exactly({"RPL_WHOISBOT"}, <<Msg("RPL_WHOISBOT", <<"usernick", "botnick", ANYSTR>>)>>)>>)>>)
testBotPrivateMessage == BotTest({<<"silent", "bot">>, Silent("PRIVMSG")}, InitBot({}) \o <<
    ConnectWith(3, "usernick", {"message-tags"}), Send(2, "PRIVMSG", <<"usernick", "beep boop">>), Sync(2),
    Get(3, BotBeeps("usernick"))>>)
testBotChannelMessage == BotTest({<<"silent", "bot">>, Silent("PRIVMSG")}, InitBot({}) \o UserOnChan \o <<
    Send(2, "PRIVMSG", <<"#chan", "beep boop">>), Sync(2), Get(3, BotBeeps("#chan"))>>)
testBotEchoMessage == BotTest({<<"silent", "bot">>, Silent("PRIVMSG")}, InitBot({"echo-message", "message-tags"}) \o <<
    Connect(3, "usernick"), Sync(2), Send(2, "PRIVMSG", <<"usernick", "beep boop">>), Get(2, BotBeeps("usernick"))>>)

\* Of two rows in any order, that of the bot has its flag.
testBotWhox ==
    LET row(nick) == Msg("RPL_WHOREPLY", <<"usernick", "#chan", nick, ANYSTR>>)
        bot == With(row("botnick"), {<<"B", ANYSTR>>}) IN
    BotTest({<<"silent", "bot">>, Deaf("WHO")}, InitBot({}) \o UserOnChan \o <<
    Send(3, "WHO", <<"#chan">>),
    [GetOne(3, <<HasEither(<<bot, row("usernick")>>), Else(Has(bot))>>) EXCEPT !.branch = 1],
    GetOne(3, <<Has(Cmd("RPL_WHOREPLY")), ReturnAnyway>>),
    Get(3, bot)>>)

-----------------------------------------------------------------------------
ExtensionTestList == <<
    testLabeledPrivmsgResponsesToMultipleClients, testLabeledPrivmsgResponsesToClient,
    testLabeledPrivmsgResponsesToChannel, testLabeledPrivmsgResponsesToSelf, testLabeledNoticeResponsesToClient,
    testLabeledNoticeResponsesToChannel, testLabeledNoticeResponsesToSelf, testLabeledTagMsgResponsesToClient,
    testLabeledTagMsgResponsesToChannel, testLabeledTagMsgResponsesToSelf, testBatchedJoinMessages,
    testNoBatchForSingleMessage, testEmptyBatchForNoResponse, testUnknownCommand,
    testBasic, testLengthLimits, testRecipientCapability,
    testBotMode, testBotWhois, testBotPrivateMessage, testBotChannelMessage, testBotEchoMessage, testBotWhox>>

=============================================================================
