---------------------------- MODULE ChannelTests ----------------------------
(***************************************************************************)
(* The tests of PART, JOIN, KICK, TOPIC, QUIT and messages in              *)
(* irctest/server_tests/.                                                  *)
(***************************************************************************)
EXTENDS TestSteps

(* part.py *)

testPartNotInEmptyChannel == Test({Deaf("PART"), Silent("ERR_NOSUCHCHANNEL")}, {}, <<
    Connect(1, "foo"),
    Send(1, "PART", <<"#chan">>),
    Get(1, OneOf({"ERR_NOTONCHANNEL", "ERR_NOSUCHCHANNEL"}))>>)

testPartNotInNonEmptyChannel == Test({Deaf("PART"), Leaky("JOIN")}, {}, <<
    Connect(1, "foo"), Connect(2, "bar"),
    Send(1, "JOIN", <<"#chan">>), Sync(1),
    Send(2, "PART", <<"#chan">>),
    Get(2, Cmd("ERR_NOTONCHANNEL")),
    Empty(2)>>)

\* Two members of #chan, and nothing left of the JOIN burst.
BarAndBazJoin == <<
    Connect(1, "bar"),
    Send(1, "JOIN", <<"#chan">>), Get(1, Msg("JOIN", <<"#chan">>)),
    Connect(2, "baz"),
    Send(2, "JOIN", <<"#chan">>), Get(2, Msg("JOIN", <<"#chan">>)),
    Sync(1), Sync(2)>>

testBasicPart == Test({Deaf("PART"), Silent("PART"), Leaky("PRIVMSG"), Silent("RPL_NAMREPLY")}, {},
    BarAndBazJoin \o <<
    Send(2, "PRIVMSG", <<"#chan", "hi everyone">>), Sync(2),
    Get(1, Msg("PRIVMSG", <<"#chan", "hi everyone">>)),
    Send(1, "PART", <<"#chan">>),
    Get(1, Cmd("PART")), Get(2, Cmd("PART")),
    Send(2, "PRIVMSG", <<"#chan", "hi again everyone">>), Sync(2),
    Empty(1),
    Send(2, "NAMES", <<"#chan">>),
    GetAll(2, <<Each({"RPL_NAMREPLY"}, Without(Cmd("RPL_NAMREPLY"), {"bar"})),
                Has(With(Cmd("RPL_NAMREPLY"), {<<"baz", ANYSTR>>}))>>)>>)

PartWithMessage == Test({Deaf("PART"), Silent("PART")}, {}, BarAndBazJoin \o <<
    Send(1, "PART", <<"#chan", "bye everyone">>),
    Get(1, Msg("PART", <<"#chan", "bye everyone">>)),
    Get(2, Msg("PART", <<"#chan", "bye everyone">>))>>)

testBasicPartRfc2812 == PartWithMessage
testPartMessage == PartWithMessage


-----------------------------------------------------------------------------
(* join.py *)

JOIN_ERROR_NUMERICS ==
    {"ERR_BADCHANMASK", "ERR_NOSUCHCHANNEL", "ERR_FORBIDDENCHANNEL", "ERR_BADCHANNAME"}

JoinReplies == {"JOIN", "RPL_NAMREPLY", "RPL_ENDOFNAMES"}

\* Every expected command was received, and nothing but the acceptable ones.
ReceivedCommands(expected, acceptable) ==
    SetToSeq({Has(Cmd(cmd)) : cmd \in expected}) \o <<OnlyCommands(acceptable)>>

testJoinAllMessages == Test({Deaf("JOIN"), Silent("JOIN"), Silent("RPL_ENDOFNAMES")}, {}, <<
    Connect(1, "foo"),
    Send(1, "JOIN", <<"#chan">>),
    GetAll(1, ReceivedCommands(JoinReplies, JoinReplies \cup {"MODE"}))>>)

NamReplyOf(nick, nicks) ==
    With(Msg("RPL_NAMREPLY", <<nick, ANYSTR, "#chan">>), {<<n, ANYSTR>> : n \in nicks})

testJoinNamreply == Test({}, {}, <<
    Connect(1, "foo"),
    Send(1, "JOIN", <<"#chan">>),
    GetAll(1, <<Each({"RPL_NAMREPLY"}, NamReplyOf("foo", {"foo"}))>>),
    Connect(2, "bar"),
    Send(2, "JOIN", <<"#chan">>),
    GetAll(2, <<Each({"RPL_NAMREPLY"}, NamReplyOf("bar", {"foo", "bar"}))>>)>>)

testJoinTwice == Test({Deaf("JOIN")}, {}, <<
    Connect(1, "foo"),
    Send(1, "JOIN", <<"#chan">>), Get(1, Msg("JOIN", <<"#chan">>)), Sync(1),
    Send(1, "JOIN", <<"#chan">>),
    GetAll(1, <<Each({"RPL_NAMREPLY"}, NamReplyOf("foo", {"foo"}))>>)>>)

OneInvalidJoin == <<
    Each(JOIN_ERROR_NUMERICS, Msg("ERR_NOSUCHCHANNEL", <<"foo", "inv@lid", ANYSTR>>)),
    Exactly(JOIN_ERROR_NUMERICS, <<OneOf(JOIN_ERROR_NUMERICS)>>)>>

testJoinPartiallyInvalid == Test({Deaf("JOIN"), Silent("ERR_NOSUCHCHANNEL")}, {}, <<
    Connect(1, "foo"),
    Send(1, "JOIN", <<"#valid", "", "inv@lid">>),
    GetAll(1, ReceivedCommands(JoinReplies, JoinReplies \cup JOIN_ERROR_NUMERICS \cup {"MODE"})
              \o OneInvalidJoin)>>)

\* Every message between the ends of the batch has its tag.
testJoinPartiallyInvalidLabeledResponse == Test({Deaf("JOIN"), Silent("ERR_NOSUCHCHANNEL")}, {},
    LET acceptable == JoinReplies \cup JOIN_ERROR_NUMERICS \cup {"MODE"} IN <<
    ConnectWith(1, "foo", {"batch", "labeled-response"}),
    SendTagged(1, {<<"label", "label1">>}, "JOIN", <<"#valid", "", "inv@lid">>),
    GetAll(1, <<Begins({}, <<Msg("BATCH", <<"+", ANYSTR, "labeled-response">>)>>),
                Ends(Msg("BATCH", <<"-", ANYSTR>>)),
                OnlyCommands(acceptable \cup {"BATCH"}),
                Each(acceptable, With(OneOf({}), {<<"batch", ANYSTR>>})),
                Has(Cmd("JOIN")), Has(Cmd("RPL_NAMREPLY")), Has(Cmd("RPL_ENDOFNAMES"))>>
              \o OneInvalidJoin)>>)

KeyedChannel(chan, key) == <<
    Join(1, chan), Send(1, "MODE", <<chan, "+", "k", key>>), Sync(1)>>

testJoinKey == Test({Deaf("JOIN")}, {},
    <<Connect(1, "chanop")>> \o KeyedChannel("#chan", "key") \o <<
    Connect(2, "joiner"),
    Send(2, "JOIN", <<"#chan", "key">>),
    Get(2, Msg("JOIN", <<"#chan">>))>>)

\* The joiner is told of #chan1, then of #chan2.
JoinsBoth == <<
    Get(2, Msg("JOIN", <<"#chan1">>)),
    GetAll(2, <<FirstBesides({"RPL_NAMREPLY", "RPL_ENDOFNAMES"}, Msg("JOIN", <<"#chan2">>))>>)>>

testJoinKeys == Test({Deaf("JOIN")}, {},
    <<Connect(1, "chanop")>> \o KeyedChannel("#chan1", "key1")
                             \o KeyedChannel("#chan2", "key2") \o <<
    Connect(2, "joiner"),
    Send(2, "JOIN", <<"#chan1", "key1", "#chan2", "key2">>)>> \o JoinsBoth)

testJoinManySingleKey == Test({Deaf("JOIN")}, {},
    <<Connect(1, "chanop")>> \o KeyedChannel("#chan1", "key1") \o <<
    Join(1, "#chan2"), Sync(1),
    Connect(2, "joiner"),
    Send(2, "JOIN", <<"#chan1", "key1", "#chan2">>)>> \o JoinsBoth)

-----------------------------------------------------------------------------
(* kick.py *)

NotOppedByDefault == SkipIf(Cmd("ERR_CHANOPRIVSNEEDED"))

FooBarBazJoin == <<
    Connect(1, "foo"), Join(1, "#chan"), Connect(2, "bar"), Join(2, "#chan"),
    Connect(3, "baz"), Join(3, "#chan"), Sync(1), Sync(2), Sync(3)>>

KickEchoed == GetPerhaps(1, <<NotOppedByDefault, Has(Cmd("KICK"))>>)

testKickSendsMessages ==
    Test({Deaf("KICK"), Silent("KICK")}, {"KICK is not echoed"}, FooBarBazJoin \o <<
    Send(1, "KICK", <<"#chan", "bar", "bye">>),
    KickEchoed,
    Get(2, Msg("KICK", <<"#chan", "bar", "bye">>)),
    Get(3, Msg("KICK", <<"#chan", "bar", "bye">>))>>)

KickNoComment(default) ==
    Test({Deaf("KICK"), Silent("KICK")}, {"KICK is not echoed"}, FooBarBazJoin \o <<
    Send(1, "KICK", <<"#chan", "bar">>),
    KickEchoed,
    Get(2, Msg("KICK", <<"#chan", "bar", default>>)),
    Get(3, Msg("KICK", <<"#chan", "bar", default>>))>>)

testKickDefaultComment == KickNoComment("foo")
testKickNoComment == KickNoComment(ANYSTR)

testKickPrivileges == Test({Lenient("KICK"), Deaf("KICK")}, {}, <<
    Connect(1, "foo"),
    Send(1, "JOIN", <<"#chan">>), Sync(1),
    Connect(2, "bar"),
    Send(2, "JOIN", <<"#chan">>),
    GetAll(2, <<Has(With(Cmd("RPL_NAMREPLY"), {<<"foo", "@">>}))>>),
    Connect(3, "baz"),
    Send(3, "KICK", <<"#chan", "bar">>),
    GetAll(3, <<Has(OneOf({"ERR_NOTONCHANNEL", "ERR_CHANOPRIVSNEEDED", "ERR_NOSUCHCHANNEL"}))>>),
    Join(3, "#chan"), Sync(3),
    Send(3, "KICK", <<"#chan", "bar">>),
    GetAll(3, <<Has(Cmd("ERR_CHANOPRIVSNEEDED"))>>),
    Send(1, "MODE", <<"#chan", "+", "o", "baz">>), Sync(1),
    Send(3, "KICK", <<"#chan", "bar">>),
    Send(3, "KICK", <<"#chan", "foo">>),
    GetAll(3, <<Lacks(Cmd("ERR_CHANOPRIVSNEEDED"))>>),
    GetAll(1, <<Has(Msg("KICK", <<ANYSTR, "foo", ANYLIST>>)),
                Has(Msg("KICK", <<ANYSTR, "bar", ANYLIST>>))>>)>>)

testKickNonexistentChannel == Test({Deaf("KICK"), Silent("ERR_NOSUCHCHANNEL")}, {}, <<
    Connect(1, "nick"), Connect(2, "foo"),
    Send(1, "KICK", <<"#chan", "nick">>),
    Get(1, Cmd("ERR_NOSUCHCHANNEL"))>>)

\* The two targets are kicked in either order.
testDoubleKickMessages ==
    Test({Deaf("KICK"), Silent("KICK")}, {"KICK is not echoed"}, <<
    Connect(1, "foo"), Join(1, "#chan"), Connect(2, "bar"), Join(2, "#chan"),
    Connect(3, "baz"), Join(3, "#chan"), Connect(4, "qux"), Join(4, "#chan"),
    Sync(1), Sync(2), Sync(3), Sync(4),
    SendList(1, "KICK", <<"#chan", "bar", "bye">>, {"baz"}), Sync(1),
    GetAll(4, <<InAnyOrder({}, <<Msg("KICK", <<"#chan", "bar", "bye">>),
                                 Msg("KICK", <<"#chan", "baz", "bye">>)>>)>>)>>)

-----------------------------------------------------------------------------
(* topic.py *)

TwoMembers(nick1, nick2) == <<
    Connect(1, nick1), Join(1, "#chan"), Connect(2, nick2), Join(2, "#chan"),
    Sync(1), Sync(2)>>

TopicTest(echo) == Test({Deaf("TOPIC"), Silent("TOPIC")}, {}, TwoMembers("foo", "bar") \o <<
    Send(1, "TOPIC", <<"#chan", "T0P1C">>),
    echo,
    Get(2, Msg("TOPIC", <<"#chan", "T0P1C">>))>>)

testTopicRfc == [TopicTest(GetPerhaps(1, <<NotOppedByDefault, Has(Cmd("TOPIC"))>>))
                    EXCEPT !.choices = {"TOPIC is not echoed"}]
testTopicModern == TopicTest(GetOne(1, <<NotOppedByDefault, Has(Cmd("TOPIC"))>>))

testTopicMode == Test({Lenient("TOPIC"), Deaf("TOPIC"), Deaf("MODE")}, {"TOPIC is not echoed"},
    TwoMembers("foo", "bar") \o <<
    Send(1, "MODE", <<"#chan", "+", "t">>), Sync(1), Sync(2),
    Send(2, "TOPIC", <<"#chan", "T0P1C">>), Get(2, Cmd("ERR_CHANOPRIVSNEEDED")),
    Empty(1),
    Send(1, "MODE", <<"#chan", "-", "t">>), Sync(1),
    Send(2, "TOPIC", <<"#chan", "T0P1C">>),
    GetPerhaps(2, <<Lacks(Cmd("ERR_CHANOPRIVSNEEDED"))>>),
    Get(1, Msg("TOPIC", <<"#chan", "T0P1C">>))>>)

testTopicNonexistentChannel == Test({Deaf("TOPIC")}, {}, <<
    Connect(1, "foo"),
    Send(1, "TOPIC", <<"#chan">>),
    Get(1, OneOf({"ERR_NOSUCHCHANNEL", "ERR_USERONCHANNEL"}))>>)

TopicSeenByBoth(topic) == <<
    Send(1, "TOPIC", <<"#test", topic>>),
    Get(1, Msg("TOPIC", <<"#test", topic>>)), Get(2, Msg("TOPIC", <<"#test", topic>>))>>

JoinsWithoutNoTopic(c) == <<
    Send(c, "JOIN", <<"#test">>), GetAll(c, <<Lacks(Cmd("RPL_NOTOPIC"))>>)>>

testUnsetTopicResponses == Test({Deaf("TOPIC"), Silent("RPL_NOTOPIC")}, {},
    <<Connect(1, "bar")>> \o JoinsWithoutNoTopic(1) \o
    <<Connect(2, "baz")>> \o JoinsWithoutNoTopic(2) \o <<
    Send(2, "TOPIC", <<"#test">>), GetAll(2, <<Has(Cmd("RPL_NOTOPIC"))>>), Sync(1)>> \o
    TopicSeenByBoth("new topic") \o TopicSeenByBoth("") \o
    <<Connect(3, "qux")>> \o JoinsWithoutNoTopic(3))

\* Clients 1, 2, 3 are bar, qux and buzz.
testTopicPrivileges == Test({Lenient("TOPIC"), Deaf("TOPIC"), Silent("RPL_TOPICTIME")}, {},
    LET allowed(cmd) == <<Has(Cmd(cmd)), Lacks(Cmd("ERR_CHANOPRIVSNEEDED"))>>
        refused == <<Has(Cmd("ERR_CHANOPRIVSNEEDED")), Lacks(Cmd("TOPIC"))>> IN <<
    Connect(1, "bar"), Join(1, "#chan"), Sync(1),
    Send(1, "MODE", <<"#chan", "+", "t">>), GetAll(1, <<Lacks(Cmd("ERR_CHANOPRIVSNEEDED"))>>),
    Send(1, "TOPIC", <<"#chan", "new topic">>), GetAll(1, allowed("TOPIC")),
    Connect(2, "qux"), Join(2, "#chan"), Sync(2),
    Send(2, "TOPIC", <<"#chan", "new topic">>), GetAll(2, refused),
    Send(1, "MODE", <<"#chan", "+", "v", "qux">>), GetAll(1, allowed("MODE")),
    Send(2, "TOPIC", <<"#chan", "new topic">>), GetAll(2, refused),
    Connect(3, "buzz"),
    Send(3, "JOIN", <<"#chan">>),
    GetAll(3, <<Begins({"RPL_TOPIC"}, <<Msg("RPL_TOPIC", <<"buzz", "#chan", "new topic">>)>>),
                Exactly({"RPL_TOPICTIME"}, <<Cmd("RPL_TOPICTIME")>>)>>)>>)

-----------------------------------------------------------------------------
(* quit.py *)

testQuit == Test({Deaf("QUIT"), Silent("QUIT")}, {}, <<
    Connect(1, "bar"), Join(1, "#chan"),
    Connect(2, "qux"),
    Send(2, "JOIN", <<"#chan">>), Sync(2), Sync(1),
    Send(2, "QUIT", <<"qux out">>), Sync(2),
    Get(1, From("qux", "QUIT", <<"qux out">>))>>)

-----------------------------------------------------------------------------
(* messages.py *)

FooAndBarJoin == <<
    Connect(1, "foo"), Send(1, "JOIN", <<"#chan">>), Sync(1),
    Connect(2, "bar"), Send(2, "JOIN", <<"#chan">>), Sync(2)>>

\* Client 1 sends one message, and client 2 gets it, once.
DeliveredOnce(cmd, target, text) == <<
    Send(1, cmd, <<target, text>>), Sync(1),
    GetAll(2, <<Exactly({cmd}, <<Msg(cmd, <<target, text>>)>>)>>)>>

testPrivmsg == Test({Deaf("PRIVMSG"), Silent("PRIVMSG")}, {},
    FooAndBarJoin \o DeliveredOnce("PRIVMSG", "#chan", "hello there"))

testPrivmsgNonexistentChannel == Test({Deaf("PRIVMSG"), Silent("ERR_NOSUCHNICK")}, {}, <<
    Connect(1, "foo"),
    Send(1, "PRIVMSG", <<"#nonexistent", "hello there">>),
    Get(1, OneOf({"ERR_NOSUCHNICK", "ERR_NOSUCHCHANNEL", "ERR_CANNOTSENDTOCHAN"}))>>)

testPrivmsgToUser == Test({Deaf("PRIVMSG"), Silent("PRIVMSG")}, {},
    <<Connect(1, "foo"), Connect(2, "bar")>> \o DeliveredOnce("PRIVMSG", "bar", "hey there!"))

testPrivmsgNonexistentUser == Test({Deaf("PRIVMSG"), Silent("ERR_NOSUCHNICK")}, {}, <<
    Connect(1, "foo"),
    Send(1, "PRIVMSG", <<"bar", "hey there!">>),
    Get(1, Msg("ERR_NOSUCHNICK", <<"foo", "bar", ANYSTR>>))>>)

testEmptyPrivmsg == Test({Deaf("PRIVMSG"), Leaky("ERR_NOTEXTTOSEND")}, {}, FooAndBarJoin \o <<
    Sync(1),
    Send(1, "PRIVMSG", <<"#chan", "">>),
    Get(1, Msg("ERR_NOTEXTTOSEND", <<"foo", ANYSTR>>)),
    Empty(2)>>)

\* The JOIN of foo is not waited for.
testNotice == Test({Deaf("NOTICE"), Silent("NOTICE")}, {}, <<
    Connect(1, "foo"), Send(1, "JOIN", <<"#chan">>),
    Connect(2, "bar"), Send(2, "JOIN", <<"#chan">>), Sync(2)>>
    \o DeliveredOnce("NOTICE", "#chan", "hello there"))

testNoticeNonexistentChannel == Test({<<"answers", "NOTICE">>}, {}, <<
    Connect(1, "foo"),
    Send(1, "NOTICE", <<"#nonexistent", "hello there">>),
    Empty(1)>>)

testLineTooLong == Test({Lenient("line length"), Silent("ERR_INPUTTOOLONG")}, {}, <<
    ConnectWith(1, "bar", {"message-tags"}), ConnectWith(2, "recver", {"message-tags"}),
    Join(1, "#xyz"),
    SendTagged(1, {<<"+clientOnlyTagExample", "too long">>}, "PRIVMSG", <<"#xyz", "hi!">>),
    GetAll(1, <<Has(Cmd("ERR_INPUTTOOLONG"))>>),
    Empty(2)>>)

testLineAtLimit == Test({Deaf("PING")}, {}, <<
    Connect(1, "bar"), Sync(1),
    Send(1, "PING", <<"longest">>),
    AwaitMessage(1, Msg("PONG", <<ANYSTR, "longest">>))>>)

testLineBeyondLimit == Test({Lenient("line length"), Silent("ERR_INPUTTOOLONG")}, {}, <<
    Connect(1, "bar"), Sync(1),
    Send(1, "PING", <<"too long">>),
    AwaitMessage(1, Cmd("ERR_INPUTTOOLONG")),
    Join(1, "#test_channel")>>)

\* Clients 1 and 2 are bar and qux.
testNoCTCPMode == Test({Lenient("PRIVMSG"), Deaf("PRIVMSG"), Deaf("MODE")}, {}, <<
    Connect(1, "bar"), Connect(2, "qux"),
    Send(2, "PRIVMSG", <<"bar", "ctcp VERSION">>), Sync(2),
    GetAll(1, <<Begins({"PRIVMSG"}, <<Msg("PRIVMSG", <<"bar", "ctcp VERSION">>)>>)>>),
    Send(1, "MODE", <<"bar", "+", "T">>),
    GetAll(1, <<Begins({"MODE"}, <<Msg("MODE", <<"bar", "+", "T">>)>>)>>),
    Send(2, "PRIVMSG", <<"bar", "ctcp VERSION">>), Sync(2), Empty(1),
    Send(2, "PRIVMSG", <<"bar", "please just tell me your client version">>), Sync(2),
    GetAll(1, <<Begins({}, <<From("qux", "PRIVMSG",
                                  <<"bar", "please just tell me your client version">>)>>)>>)>>)

-----------------------------------------------------------------------------

ChannelTestList == <<
    testPartNotInEmptyChannel, testPartNotInNonEmptyChannel, testBasicPart,
    testBasicPartRfc2812, testPartMessage,
    testJoinAllMessages, testJoinNamreply, testJoinTwice, testJoinPartiallyInvalid,
    testJoinPartiallyInvalidLabeledResponse, testJoinKey, testJoinKeys, testJoinManySingleKey,
    testKickSendsMessages, testKickDefaultComment, testKickNoComment, testKickPrivileges,
    testKickNonexistentChannel, testDoubleKickMessages,
    testTopicRfc, testTopicModern, testTopicMode, testTopicNonexistentChannel,
    testUnsetTopicResponses, testTopicPrivileges, testQuit,
    testPrivmsg, testPrivmsgNonexistentChannel, testPrivmsgToUser, testPrivmsgNonexistentUser,
    testEmptyPrivmsg, testNotice, testNoticeNonexistentChannel, testLineTooLong,
    testLineAtLimit, testLineBeyondLimit, testNoCTCPMode>>

=============================================================================
