--------------------------- MODULE MembershipTests ---------------------------
(***************************************************************************)
(* The tests of INVITE, NAMES, names of channels, STATUSMSG, multi-prefix, *)
(* extended-join, account-tag, away-notify and echo-message in             *)
(* irctest/server_tests/.                                                  *)
(***************************************************************************)
EXTENDS TestSteps

(* echo_message.py *)

EchoMessage(command, solo, serverTime) ==
    LET caps == IF serverTime THEN {"server-time"} ELSE {}
        time == IF serverTime /\ ~solo THEN {<<"time", ANYSTR>>} ELSE {}
        said == With(Msg(command, <<"#chan", "hello everyone">>), time)
        joins(c) == <<Send(c, "JOIN", <<"#chan">>), Sync(1)>>
    IN  Test({Deaf(command), Silent(command)}, {},
            <<ConnectWith(1, "baz", caps \cup {"echo-message"})>> \o joins(1) \o
            (IF solo THEN <<Sync(1)>>
             ELSE <<ConnectWith(2, "qux", caps)>> \o joins(2) \o <<Sync(2), Sync(1)>>) \o
            <<Send(1, command, <<"#chan", "hello everyone">>), Get(1, said)>> \o
            (IF solo THEN <<>> ELSE <<Get(2, said)>>))

testEchoMessage == <<
    EchoMessage("PRIVMSG", FALSE, FALSE), EchoMessage("PRIVMSG", TRUE, TRUE),
    EchoMessage("PRIVMSG", FALSE, TRUE), EchoMessage("NOTICE", FALSE, TRUE)>>

\* Either both messages have a msgid, or neither does.
testDirectMessageEcho == Test({Deaf("PRIVMSG"), Silent("PRIVMSG")}, {},
    LET caps == {"batch", "labeled-response", "echo-message", "message-tags"}
        example == <<"+example-client-tag", "example-value">>
        said(tags) == With(Msg("PRIVMSG", <<"qux", "hi there">>),
                           tags \cup {example, <<"msgid", "hi there">>}) IN <<
    ConnectWith(1, "bar", caps), Sync(1), ConnectWith(2, "qux", caps), Sync(2),
    SendTagged(1, {<<"label", "xyz">>, example}, "PRIVMSG", <<"qux", "hi there">>),
    GetAll(1, <<Begins({}, <<said({<<"label", "xyz">>})>>)>>),
    GetAll(2, <<Begins({}, <<said({})>>)>>)>>)

-----------------------------------------------------------------------------
(* invite.py *)

testInvites == Test({Deaf("INVITE"), Silent("INVITE"), Lenient("JOIN")}, {}, <<
    Connect(1, "foo"), Join(1, "#chan"),
    Send(1, "MODE", <<"#chan", "+", "i">>), Sync(1),
    Send(1, "INVITE", <<"bar", "#chan">>), Get(1, Cmd("ERR_NOSUCHNICK")),
    Connect(2, "bar"),
    Send(2, "JOIN", <<"#chan">>), Get(2, Cmd("ERR_INVITEONLYCHAN")),
    Send(1, "INVITE", <<"bar", "#chan">>),
    Get(1, Msg("RPL_INVITING", <<"foo", "bar", "#chan">>)),
    Get(2, From("foo", "INVITE", <<"bar", "#chan">>)),
    Join(2, "#chan")>>)

FooBarAndOthers(n) ==
    SubSeq(<<Connect(1, "foo"), Connect(2, "bar"), Connect(3, "baz")>>, 1, n) \o
    SubSeq(<<Sync(1), Sync(2), Sync(3)>>, 1, n)

FooSetsMode(sign, letter, arg) == <<
    Send(1, "MODE", <<"#chan", sign, letter>> \o arg),
    Get(1, Msg("MODE", <<"#chan", sign, letter>> \o arg))>>

InviteTest(opped, inviteOnly) == Test({Deaf("INVITE"), Silent("INVITE"), Silent("RPL_INVITING")}, {},
    FooBarAndOthers(2) \o <<Send(1, "JOIN", <<"#chan">>), Sync(1)>> \o
    (IF inviteOnly THEN FooSetsMode("+", "i", <<>>) ELSE <<>>) \o
    (IF opped THEN <<>> ELSE FooSetsMode("-", "o", <<"foo">>)) \o <<
    Send(1, "INVITE", <<"bar", "#chan">>),
    Get(1, Msg("RPL_INVITING", <<"foo", "bar", "#chan">>)),
    GetAll(2, <<Begins({}, <<From("foo", "INVITE", <<"bar", "#chan">>)>>)>>)>>)

testInvite == <<InviteTest(TRUE, FALSE), InviteTest(TRUE, TRUE)>>
testInviteUnopped == InviteTest(FALSE, FALSE)

testInviteNoNotificationForOtherMembers == Test({Leaky("INVITE")}, {}, FooBarAndOthers(3) \o <<
    Send(1, "JOIN", <<"#chan">>), Sync(1), Send(3, "JOIN", <<"#chan">>), Sync(3),
    Send(1, "INVITE", <<"bar", "#chan">>), Sync(1),
    Empty(3)>>)

testInviteInviteOnly == Test({Lenient("INVITE"), Deaf("INVITE"), Deaf("MODE")}, {},
    FooBarAndOthers(2) \o <<Send(1, "JOIN", <<"#chan">>), Sync(1)>> \o
    FooSetsMode("+", "i", <<>>) \o FooSetsMode("-", "o", <<"foo">>) \o <<
    Send(1, "INVITE", <<"bar", "#chan">>),
    Get(1, Msg("ERR_CHANOPRIVSNEEDED", <<"foo", "#chan", ANYSTR>>))>>)

testInviteOnlyFromUsersInChannel == Test({Lenient("INVITE"), Deaf("INVITE")}, {}, FooBarAndOthers(3) \o <<
    Send(3, "JOIN", <<"#chan">>), Sync(3),
    Send(1, "INVITE", <<"bar", "#chan">>),
    Get(1, Msg("ERR_NOTONCHANNEL", <<"foo", "#chan", ANYSTR>>)),
    Empty(2)>>)

testInviteAlreadyInChannel == Test({Deaf("INVITE"), Silent("ERR_USERONCHANNEL")}, {}, FooBarAndOthers(2) \o <<
    Send(1, "JOIN", <<"#chan">>), Sync(1), Send(2, "JOIN", <<"#chan">>), Sync(2), Sync(1),
    Send(1, "INVITE", <<"bar", "#chan">>),
    Get(1, Msg("ERR_USERONCHANNEL", <<"foo", "bar", "#chan", ANYSTR>>))>>)

\* A server whose list is always empty, as Hybrid's, is not judged.
testInviteList == Test({Silent("RPL_ENDOFINVITELIST")}, {}, FooBarAndOthers(2) \o <<
    Send(1, "JOIN", <<"#chan">>), Sync(1),
    Send(1, "INVITE", <<"bar", "#chan">>), Sync(1), Sync(2),
    Send(2, "INVITE", <<>>),
    GetOne(2, <<SkipIf(Cmd("ERR_NEEDMOREPARAMS")), Has(Msg("RPL_INVITELIST", <<"bar", "#chan">>))>>),
    Get(2, Msg("RPL_ENDOFINVITELIST", <<"bar", ANYSTR>>))>>)

\* Clients 1 and 2 are alice and bob.
testInviteExemptsFromBan == Test({Lenient("JOIN"), Deaf("INVITE"), Deaf("KICK")}, {},
    LET banned == <<Send(2, "JOIN", <<"#alice">>),
                    GetAll(2, <<Has(Cmd("ERR_BANNEDFROMCHAN")), Lacks(Cmd("JOIN"))>>)>> IN <<
    Connect(1, "alice"), Join(1, "#alice"),
    Send(1, "MODE", <<"#alice", "+", "b", "nick", "bob">>), GetAll(1, <<Has(Cmd("MODE"))>>),
    Connect(2, "bob")>> \o banned \o <<
    Send(1, "INVITE", <<"bob", "#alice">>),
    GetAll(1, <<Has(Cmd("RPL_INVITING")), Lacks(Cmd("ERR_USERONCHANNEL"))>>),
    GetAll(2, <<Has(Cmd("INVITE"))>>),
    Send(2, "JOIN", <<"#alice">>),
    GetAll(2, <<Lacks(Cmd("ERR_BANNEDFROMCHAN")), Has(Cmd("JOIN"))>>),
    Send(1, "KICK", <<"#alice", "bob">>), Sync(1), GetAll(2, <<Has(Cmd("KICK"))>>)>> \o banned)

-----------------------------------------------------------------------------
(* names.py.  `symbol` stands for the parameter RFC 1459 does not have. *)

EndOfNamesFor(nick, name) == Msg("RPL_ENDOFNAMES", <<nick, name, ANYSTR>>)
OppedIn(nick, symbol, chan, op) == With(Msg("RPL_NAMREPLY", <<nick, symbol, chan>>), {<<op, "@">>})

NamesTest(symbol) == Test({Deaf("NAMES"), Silent("RPL_NAMREPLY")}, {}, <<
    Connect(1, "nick1"), Send(1, "JOIN", <<"#chan">>), Sync(1),
    Connect(2, "nick2"), Send(2, "JOIN", <<"#chan">>), Sync(2), Sync(1),
    Send(1, "NAMES", <<"#chan">>),
    Get(1, With(OppedIn("nick1", symbol, "#chan", "nick1"), {<<"nick2", "">>})),
    Get(1, EndOfNamesFor("nick1", "#chan"))>>)

testNames2812 == NamesTest("=")
testNamesModern == NamesTest("=")

testNames2812Secret == Test({Deaf("NAMES"), Silent("RPL_NAMREPLY")}, {}, <<
    Connect(1, "nick1"),
    Send(1, "JOIN", <<"#chan">>), Send(1, "MODE", <<"#chan", "+", "s">>), Sync(1),
    Send(1, "NAMES", <<"#chan">>),
    GetAll(1, <<Begins({}, <<OppedIn("nick1", "@", "#chan", "nick1"),
                             EndOfNamesFor("nick1", "#chan")>>)>>),
    Connect(2, "nick2"),
    Send(2, "JOIN", <<"#chan">>),
    GetAll(2, <<Has(Cmd("RPL_NAMREPLY")),
                Each({"RPL_NAMREPLY"}, Msg("RPL_NAMREPLY", <<"nick2", "@", "#chan">>))>>)>>)

NamesMultipleChannels(symbol) == Test({Deaf("NAMES"), Silent("RPL_NAMREPLY")}, {}, <<
    Connect(1, "nick1"),
    Send(1, "JOIN", <<"#chan1">>), Send(1, "JOIN", <<"#chan2">>), Sync(1),
    Send(1, "NAMES", <<"#chan1", "#chan2">>),
    Get(1, OppedIn("nick1", symbol, "#chan1", "nick1")),
    Get(1, OppedIn("nick1", symbol, "#chan2", "nick1")),
    Get(1, EndOfNamesFor("nick1", "#chan1,#chan2"))>>)

testNamesMultipleChannels2812 == NamesMultipleChannels("=")

NamesOfNoChannel(name) == Test({Deaf("NAMES"), Silent("RPL_ENDOFNAMES")}, {}, <<
    Connect(1, "foo"), Sync(1),
    Send(1, "NAMES", <<name>>),
    Get(1, EndOfNamesFor("foo", name))>>)

testNamesInvalidChannel == NamesOfNoChannel("invalid")
testNamesNonexistingChannel == NamesOfNoChannel("#nonexisting")

\* Channel #chan2 of nick2 is made secret, or not.
NamesNoArgument(faults, sign, symbol, shown) == Test(faults, {}, <<
    Connect(1, "nick1"), Sync(1), Send(1, "JOIN", <<"#chan1">>),
    Connect(2, "nick2"), Send(2, "JOIN", <<"#chan2">>),
    Send(2, "MODE", <<"#chan2", sign, "s">>), Sync(1), Sync(2),
    Send(1, "NAMES", <<>>),
    Get(1, OppedIn("nick1", symbol, "#chan1", "nick1"))>> \o shown \o <<
    Get(1, Msg("RPL_ENDOFNAMES", <<"nick1", ANYSTR, ANYSTR>>))>>)

testNamesNoArgumentPublic2812 == NamesNoArgument({Deaf("NAMES")}, "-", "=",
    <<Get(1, OppedIn("nick1", "=", "#chan2", "nick2"))>>)
testNamesNoArgumentPrivate2812 ==
    NamesNoArgument({Deaf("NAMES"), Lenient("NAMES"), Deaf("MODE")}, "+", "=", <<>>)

-----------------------------------------------------------------------------
(* channel.py *)

FooAndBarJoinClient(casemapping, name1, name2) == <<
    Connect(1, "foo"), Connect(2, "bar"), Requires("casemapping " \o casemapping),
    JoinClient(1, name1), JoinClient(2, name2)>>

\* The two names are of one channel.
ChannelsEquivalent(casemapping, name1, name2) ==
    Test({<<"case sensitive", "">>}, {"casemapping " \o casemapping},
         FooAndBarJoinClient(casemapping, name1, name2) \o <<Get(1, From("bar", "JOIN", <<ANYLIST>>))>>)

testChannelsEquivalent == <<
    ChannelsEquivalent("ascii", "#Foo", "#foo"),
    ChannelsEquivalent("rfc1459", "#Foo", "#foo"),
    ChannelsEquivalent("rfc1459", "#F]|oo{", "#f}\\oo["),
    ChannelsEquivalent("rfc1459", "#F}o\\o[", "#f]o|o{")>>

ChannelsNotEquivalent(casemapping, name1, name2) ==
    Test({Leaky("JOIN")}, {"casemapping " \o casemapping},
         FooAndBarJoinClient(casemapping, name1, name2) \o <<GetPerhaps(1, <<Lacks(AnyMessage)>>)>>)

testChannelsNotEquivalent == <<
    ChannelsNotEquivalent("ascii", "#Foo", "#fooa"), ChannelsNotEquivalent("rfc1459", "#Foo", "#fooa")>>

-----------------------------------------------------------------------------
(* statusmsg.py *)

\* Clients 1, 2, 3 are chanop, joe and schmoe.
ChanopJoeSchmoe == <<
    Connect(1, "chanop"), Join(1, "#chan"), Sync(1), Requires("STATUSMSG"),
    Connect(2, "joe"), Join(2, "#chan"), Sync(2),
    Connect(3, "schmoe"), Send(3, "JOIN", <<"#chan">>),
    GetAll(3, <<Has(With(Cmd("RPL_NAMREPLY"), {<<"chanop", "@">>, <<"joe", "">>, <<"schmoe", "">>}))>>)>>

\* What client 3 says to the operators reaches 1 and not 2.
SaysToOperators(otherwise) == <<
    Send(3, "PRIVMSG", <<"@", "#chan", "this message is for operators">>),
    GetAll(3, <<[Nothing EXCEPT !.otherwise = otherwise]>>),
    GetFiltered(1, "PRIVMSG", Msg("PRIVMSG", <<"@", "#chan", "this message is for operators">>)),
    GetAll(2, <<Lacks(Cmd("PRIVMSG"))>>)>>

testStatusmsgFromOp == Test({Deaf("PRIVMSG"), Leaky("PRIVMSG")}, {"STATUSMSG"}, ChanopJoeSchmoe \o <<
    Send(1, "MODE", <<"#chan", "+", "o", "schmoe">>), Sync(1), Sync(3)>> \o SaysToOperators("failed"))

testStatusmsgFromRegular == Test({Deaf("PRIVMSG")}, {"STATUSMSG"},
    ChanopJoeSchmoe \o <<Sync(3)>> \o SaysToOperators("skipped"))

-----------------------------------------------------------------------------
(* multi_prefix.py *)

PrefixesTest(caps, names, who) == Test({Deaf("NAMES"), Deaf("WHO"), Deaf("MODE")}, {}, <<
    ConnectWith(1, "foo", caps), Join(1, "#chan"),
    Send(1, "MODE", <<"#chan", "+", "v", "foo">>), Sync(1),
    Send(1, "NAMES", <<"#chan">>),
    Get(1, With(Msg("RPL_NAMREPLY", <<"foo", ANYSTR, "#chan">>), {<<"foo", names>>})), Sync(1),
    Send(1, "WHO", <<"#chan">>), Get(1, who)>>)

testMultiPrefix == PrefixesTest({"multi-prefix"}, "@+",
    With(Cmd("RPL_WHOREPLY"), {<<"@", "">>, <<"+", "">>}))

\* Nothing is seen of a MODE that is ignored.
testNoMultiPrefix == [PrefixesTest({}, "@", Without(With(Cmd("RPL_WHOREPLY"), {<<"@", "">>}), {"+"}))
                        EXCEPT !.faults = {Deaf("NAMES"), Deaf("WHO")}]

-----------------------------------------------------------------------------
(* extended_join.py, account_tag.py *)

\* Client 2 registers, logged in as jilles.
connectRegisteredClient(nick) == <<
    AddClient(2), Send(2, "CAP", <<"LS">>), GetRegistration(2, Msg("CAP", <<ANYSTR, "LS">>))>>
    \o RequestCapabilities(2, {"sasl"}) \o <<
    Send(2, "AUTHENTICATE", <<"PLAIN">>), GetRegistration(2, Msg("AUTHENTICATE", <<"+">>)),
    Send(2, "AUTHENTICATE", <<"jilles", "sesame">>), GetRegistration(2, Cmd("RPL_LOGGEDIN")),
    Send(2, "USER", <<"f", "Realname">>), Send(2, "NICK", <<nick>>), Send(2, "CAP", <<"END">>),
    SkipToWelcome(2)>>

ExtendedJoin(bar, account) == Test({Deaf("JOIN"), Silent("JOIN")}, {},
    <<ConnectWith(1, "foo", {"extended-join"}), Join(1, "#chan")>> \o bar \o <<
    Join(2, "#chan"),
    Get(1, Msg("JOIN", <<"#chan", account, "Realname">>))>>)

testNotLoggedIn == ExtendedJoin(<<Connect(2, "bar")>>, "*")
testLoggedIn == ExtendedJoin(<<RegisterUser("jilles")>> \o connectRegisteredClient("bar"), "jilles")

AccountTagged(steps, line) ==
    <<ConnectWith(1, "foo", {"account-tag"}), Sync(1), RegisterUser("jilles")>>
    \o connectRegisteredClient("bar") \o steps \o <<
    Send(2, line.cmd, line.args), Sync(2),
    Get(1, With(Msg(line.cmd, line.args), {<<"account", "jilles">>}))>>

testAccountTagPrivmsg == Test({Deaf("PRIVMSG")}, {},
    AccountTagged(<<>>, Line("", "PRIVMSG", <<"foo", "hi">>)))

testAccountTagInvite == Test({Deaf("INVITE")}, {},
    AccountTagged(<<Send(2, "JOIN", <<"#chan">>), Sync(2)>>, Line("", "INVITE", <<"foo", "#chan">>)))

-----------------------------------------------------------------------------
(* away_notify.py *)

\* Client 2 is away or is back; it is told so, and then so is client 1.
AwayNotified(text, numeric) == <<
    Send(2, "AWAY", text), Get(2, Msg(numeric, <<"bar", ANYSTR>>)), Empty(2),
    Get(1, From("bar", "AWAY", text))>>

testAwayNotify == Test({Deaf("AWAY"), Silent("AWAY")}, {},
    <<ConnectWith(1, "foo", {"away-notify"}), Sync(1), Join(1, "#chan"),
      Connect(2, "bar"), Sync(2), Join(2, "#chan"), Sync(2), Sync(1)>>
    \o AwayNotified(<<"i'm going away">>, "RPL_NOWAWAY") \o AwayNotified(<<>>, "RPL_UNAWAY"))

testAwayNotifyOnJoin == Test({Deaf("AWAY"), Silent("AWAY")}, {}, <<
    ConnectWith(1, "foo", {"away-notify"}), Sync(1), Join(1, "#chan"),
    Connect(2, "bar"), Sync(2),
    Send(2, "AWAY", <<"i'm already away">>), Sync(2),
    Join(2, "#chan"), GetAll(2, <<Lacks(Cmd("AWAY"))>>),
    GetAll(1, <<Exactly({"AWAY"}, <<From("bar", "AWAY", <<"i'm already away">>)>>)>>)>>)

-----------------------------------------------------------------------------

MembershipTestList ==
    testEchoMessage \o testInvite \o testChannelsEquivalent \o testChannelsNotEquivalent \o <<
    testStatusmsgFromOp, testStatusmsgFromRegular, testMultiPrefix, testNoMultiPrefix,
    testNotLoggedIn, testLoggedIn, testAccountTagPrivmsg, testAccountTagInvite,
    testAwayNotify, testAwayNotifyOnJoin,
    testDirectMessageEcho, testInvites, testInviteUnopped,
    testInviteNoNotificationForOtherMembers, testInviteInviteOnly,
    testInviteOnlyFromUsersInChannel, testInviteAlreadyInChannel, testInviteList,
    testInviteExemptsFromBan, testNames2812, testNamesModern, testNames2812Secret,
    testNamesMultipleChannels2812, testNamesInvalidChannel, testNamesNonexistingChannel,
    testNamesNoArgumentPublic2812, testNamesNoArgumentPrivate2812>>

=============================================================================
