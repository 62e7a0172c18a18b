---------------------------- MODULE PresenceTests ----------------------------
(***************************************************************************)
(* The tests of WHO, WHOIS, MONITOR, AWAY, SETNAME, OPER, KILL and WALLOPS *)
(* in irctest/server_tests/.                                               *)
(***************************************************************************)
EXTENDS TestSteps

(* who.py.  Clients 1 and 2 are coolNick and otherNick. *)

WhoInit(auth) ==
    <<AddClient(1)>>
    \o (IF auth THEN <<RegisterUser("coolAcct")>> \o RequestCapabilities(1, {"sasl"})
                     \o AuthenticateClient(1, "coolAcct", "sesame") ELSE <<>>)
    \o <<Send(1, "NICK", <<"coolNick">>), Send(1, "USER", <<"myusernam", "My UniqueReal Name">>)>>
    \o (IF auth THEN <<Send(1, "CAP", <<"END">>)>> ELSE <<>>)
    \o <<SkipToWelcome(1), Sync(1), Send(1, "JOIN", <<"#chan">>), Sync(1),
         Connect(2, "otherNick"), Sync(2), Send(2, "JOIN", <<"#chan">>), Sync(2)>>

WhoFlagNames == {"H", "G", "*", "@", "+"}
WhoFlagged(chan, nick, realname, flags) ==
    Without(With(Msg("RPL_WHOREPLY", <<"otherNick", chan, nick, realname>>),
                 {<<flag, "">> : flag \in flags}),
            WhoFlagNames \ flags)

\* The row of coolNick, without a channel or with it.
CheckReply(flags) ==
    HasEither(<<WhoFlagged("*", "coolNick", "My UniqueReal Name", flags),
                WhoFlagged("#chan", "coolNick", "My UniqueReal Name", flags \cup {"@"})>>)

EndOfWho(mask) == Msg("RPL_ENDOFWHO", <<"otherNick", mask, ANYSTR>>)
OneRowThenEnd(mask) == Exactly({}, <<AnyMessage, EndOfWho(mask)>>)
TwoRowsThenEnd(mask) == Exactly({}, <<AnyMessage, AnyMessage, EndOfWho(mask)>>)

WhoFaults == {Deaf("WHO"), Silent("RPL_WHOREPLY"), Silent("RPL_ENDOFWHO")}
WhoChoices == {"no channel in WHO"}

testWhoStar == Test(WhoFaults, WhoChoices, WhoInit(FALSE) \o <<
    Send(2, "WHO", <<"*">>), GetAll(2, <<TwoRowsThenEnd("*"), CheckReply({"H"})>>)>>)

WhoNick(faults, before, mask, flags) == Test(WhoFaults \cup faults, WhoChoices, WhoInit(FALSE) \o before \o <<
    Send(2, "WHO", <<mask>>), GetAll(2, <<OneRowThenEnd(mask), CheckReply(flags)>>)>>)

OperUp(c) == <<Send(c, "OPER", <<"operuser", "operpassword">>), GetAll(c, <<Has(Cmd("RPL_YOUREOPER"))>>)>>
GoAway == <<Send(1, "AWAY", <<"be right back">>), Sync(1), Sync(2)>>

testWhoNick(mask) == WhoNick({}, <<>>, mask, {"H"})
testWhoNickAway(mask) == WhoNick({Deaf("AWAY")}, GoAway, mask, {"G"})
testWhoNickOper(mask) == WhoNick({Deaf("OPER")}, OperUp(1) \o <<Sync(2)>>, mask, {"H", "*"})
testWhoNickAwayAndOper(mask) == WhoNick({Deaf("AWAY")}, OperUp(1) \o GoAway, mask, {"G", "*"})

testWhoChan(mask) == Test(WhoFaults \cup {Deaf("AWAY")}, {}, WhoInit(FALSE) \o GoAway \o <<
    Send(2, "WHO", <<mask>>),
    GetAll(2, <<TwoRowsThenEnd(mask),
                Has(WhoFlagged("#chan", "coolNick", "My UniqueReal Name", {"G", "@"})),
                Has(WhoFlagged("#chan", "otherNick", ANYSTR, {"H"}))>>)>>)

WhoRowsOf(chan) == <<
    Send(2, "WHO", <<chan>>),
    GetAll(2, <<TwoRowsThenEnd(chan),
                Has(Msg("RPL_WHOREPLY", <<"otherNick", chan, "coolNick", ANYSTR>>)),
                Has(Msg("RPL_WHOREPLY", <<"otherNick", chan, "otherNick", ANYSTR>>))>>)>>

testWhoMultiChan == Test(WhoFaults, {}, WhoInit(FALSE) \o <<
    Send(1, "JOIN", <<"#otherchan">>), Sync(1), Send(2, "JOIN", <<"#otherchan">>), Sync(2)>>
    \o WhoRowsOf("#chan") \o WhoRowsOf("#otherchan"))

testWhoNickNotExists == Test({Deaf("WHO")}, {}, WhoInit(FALSE) \o <<
    Send(2, "WHO", <<"idontexist">>), GetAll(2, <<Exactly({}, <<EndOfWho("idontexist")>>)>>)>>)

\* WHO with the fields of WHOX; `reply` are parameters of its row.
WhoxTest(auth, fields, token, reply) ==
    Test({Deaf("WHO"), Silent("RPL_WHOSPCRPL")}, {"WHOX", "no channel in WHO"},
    WhoInit(auth) \o <<
    Requires("WHOX"),
    Send(2, "WHO", <<"coolNick", fields, token>>),
    GetAll(2, <<Exactly({}, <<Msg("RPL_WHOSPCRPL", <<"otherNick">> \o reply), EndOfWho("coolNick")>>)>>)>>)

WhoxFull == WhoxTest(FALSE, "all", "123", <<"123", ANYSTR, "coolNick", "0", "My UniqueReal Name">>)
testWhoxFull == WhoxFull
testWhoxFullReversed == WhoxFull
testWhoxOneChar == WhoxTest(FALSE, "one", "", <<ANYSTR>>)
testWhoxToken == WhoxTest(FALSE, "tn", "321", <<"321", "coolNick">>)
testWhoxAccount == WhoxTest(TRUE, "na", "", <<"coolNick", "coolAcct">>)
testWhoxNoAccount == WhoxTest(FALSE, "na", "", <<"coolNick", "0">>)

\* Clients 1 and 2 are evan and shivaram.
testWhoInvisible == Test({Deaf("WHO"), Lenient("WHO"), Deaf("MODE")}, {},
    LET asks(mask, checks) == <<Send(2, "WHO", <<mask>>), GetAll(2, checks)>>
        none == <<Has(Cmd("RPL_ENDOFWHO")), OnlyCommands({"RPL_ENDOFWHO"})>>
        some == <<Has(Cmd("RPL_WHOREPLY")), Has(Cmd("RPL_ENDOFWHO")),
                  OnlyCommands({"RPL_WHOREPLY", "RPL_ENDOFWHO"})>> IN
    <<Connect(1, "evan"), Send(1, "MODE", <<"evan", "+", "i">>), Sync(1),
      Connect(2, "shivaram"), Sync(2)>>
    \o asks("eva*", none) \o asks("evan", some)
    \o <<Join(1, "#test"), Join(2, "#test")>> \o asks("eva*", some))

-----------------------------------------------------------------------------
(* whois.py *)

WhoisNumerics(authenticate, away, oper) ==
    LET about(cmd, args) == Each({cmd}, Msg(cmd, <<"nick1", "nick2">> \o args))
        expected == {"RPL_ENDOFWHOIS", "RPL_WHOISUSER", "RPL_WHOISCHANNELS", "RPL_WHOISSERVER",
                     "RPL_WHOISOPERATOR", "RPL_WHOISIDLE", "RPL_WHOISACTUALLY", "RPL_WHOISHOST",
                     "RPL_WHOISMODES", "RPL_WHOISSECURE"}
            \cup (IF away THEN {"RPL_AWAY"} ELSE {})
            \cup (IF authenticate THEN {"RPL_WHOISACCOUNT", "RPL_WHOISREGNICK"} ELSE {})
    IN  Test({Deaf("WHOIS"), Silent("RPL_ENDOFWHOIS")}, {},
        <<Connect(1, "nick1")>>
        \o (IF authenticate THEN <<RegisterUser("val"), Login(2, "nick2", {"sasl"}, "val")>>
            ELSE <<Connect(2, "nick2")>>)
        \o <<Send(2, "JOIN", <<"#chan1">>), Send(2, "JOIN", <<"#chan2">>)>>
        \o (IF away THEN <<Send(2, "AWAY", <<"I'm on a break">>)>> ELSE <<>>)
        \o <<Sync(2), Sync(1)>>
        \o (IF oper THEN OperUp(1) \o <<Sync(1)>> ELSE <<>>) \o <<
        Send(1, "WHOIS", <<"nick2">>),
        GetAll(1, <<Ends(Msg("RPL_ENDOFWHOIS", <<"nick1", "nick2", ANYSTR>>)),
                    about("RPL_AWAY", <<"I'm on a break">>), about("RPL_WHOISREGNICK", <<ANYSTR>>),
                    about("RPL_WHOISUSER", <<ANYSTR, ANYSTR, "*", ANYSTR>>),
                    Each({"RPL_WHOISCHANNELS"},
                         With(Msg("RPL_WHOISCHANNELS", <<"nick1", "nick2">>),
                              {<<"#chan1", "@">>, <<"#chan2", "@">>})),
                    about("RPL_WHOISSERVER", <<"My.Little.Server", ANYSTR>>),
                    about("RPL_WHOISOPERATOR", <<ANYSTR>>),
                    about("RPL_WHOISACCOUNT", <<"val", ANYSTR>>),
                    OnlyCommands(expected)>>)>>)

testWhoisNumerics == <<
    WhoisNumerics(FALSE, FALSE, FALSE), WhoisNumerics(FALSE, TRUE, FALSE), WhoisNumerics(FALSE, FALSE, TRUE)>>
testServicesWhoisNumerics == <<
    WhoisNumerics(TRUE, FALSE, FALSE), WhoisNumerics(TRUE, FALSE, TRUE)>>

\* `server` is nothing, or a server or nick before the nick.
testWhoisUser(server) == Test({Deaf("WHOIS"), Silent("RPL_WHOISUSER")}, {}, <<
    AddClient(1), Send(1, "NICK", <<"coolNick">>), Send(1, "USER", <<"myusernam", "My User Name">>),
    SkipToWelcome(1),
    Connect(2, "otherNick"), Sync(2),
    Send(2, "WHOIS", server \o <<"coolNick">>),
    GetAll(2, <<Begins({}, <<Msg("RPL_WHOISUSER",
                                 <<"otherNick", "coolNick", ANYSTR, ANYSTR, ANYSTR, "My User Name">>)>>)>>)>>)

testWhoisMissingUser == Test({Deaf("WHOIS"), Silent("ERR_NOSUCHNICK")}, {}, <<
    Connect(1, "qux"),
    Send(1, "WHOIS", <<"bar">>),
    GetAll(1, <<Exactly({}, <<Msg("ERR_NOSUCHNICK", <<"qux", "bar", ANYSTR>>),
                              Msg("RPL_ENDOFWHOIS", <<"qux", "bar", ANYSTR>>)>>)>>)>>)

\* Client 2 looks at userOne, who is invisible or not.
testInvisibleWhois == Test({Deaf("WHOIS"), Lenient("WHOIS"), Silent("MODE")}, {},
    LET sees(check) == <<Send(2, "WHOIS", <<"userOne">>), GetAll(2, <<check>>)>>
        channels == Cmd("RPL_WHOISCHANNELS")
        invisible(sign) == <<Sync(1), Send(1, "MODE", <<"userOne", sign, "i">>),
                             Get(1, Msg("MODE", <<"userOne", sign, "i">>))>> IN
    <<Connect(1, "userOne"), Join(1, "#xyz"), Connect(2, "userTwo"), Sync(2)>> \o sees(Has(channels))
    \o invisible("+") \o <<Sync(2)>> \o sees(Lacks(channels))
    \o <<Send(2, "JOIN", <<"#xyz">>)>> \o sees(Has(channels))
    \o <<Send(2, "PART", <<"#xyz">>), Sync(2)>>
    \o invisible("-") \o sees(Has(channels)))

\* The last WHOIS is sent by client 1, and its reply sought with client 2.
testWhoisAccount == Test({Deaf("WHOIS"), Silent("RPL_WHOISACCOUNT")}, {}, <<
    RegisterUser("shivaram"), Login(1, "netcat", {"sasl"}, "shivaram"), Sync(1), Connect(2, "curious"),
    Send(2, "WHOIS", <<"netcat">>),
    GetAll(2, <<Exactly({"RPL_WHOISACCOUNT"},
                        <<Msg("RPL_WHOISACCOUNT", <<"curious", "netcat", "shivaram", ANYSTR>>)>>)>>),
    Send(1, "WHOIS", <<"curious">>),
    GetAll(2, <<Lacks(Cmd("RPL_WHOISACCOUNT"))>>)>>)

-----------------------------------------------------------------------------
(* away.py.  Clients 1 and 2 are bar and qux. *)

Away == <<Send(1, "AWAY", <<"I'm not here right now">>), GetAll(1, <<Has(Cmd("RPL_NOWAWAY"))>>)>>
NotHere == Msg("RPL_AWAY", <<"qux", "bar", "I'm not here right now">>)
Asks == Send(2, "PRIVMSG", <<"bar", "what's up">>)

testAway == Test({Deaf("AWAY"), Silent("RPL_AWAY")}, {},
    <<Connect(1, "bar"), Sync(1)>> \o Away \o <<
    Connect(2, "qux"), Asks, Get(2, NotHere), Sync(1),
    Send(1, "AWAY", <<>>), GetAll(1, <<Has(Cmd("RPL_UNAWAY"))>>),
    Asks, Empty(2)>>)

testAwayAck == Test({Deaf("AWAY"), Silent("RPL_NOWAWAY")}, {}, <<
    Connect(1, "bar"),
    Send(1, "AWAY", <<"I'm not here right now">>), Get(1, Msg("RPL_NOWAWAY", <<"bar", ANYSTR>>)), Empty(1),
    Send(1, "AWAY", <<>>), Get(1, Msg("RPL_UNAWAY", <<"bar", ANYSTR>>)), Empty(1)>>)

testAwayPrivmsg == Test({Deaf("AWAY"), Silent("RPL_AWAY")}, {},
    <<Connect(1, "bar"), Connect(2, "qux"), Asks, Empty(2)>> \o Away \o <<Asks, Get(2, NotHere)>>)

testAwayWhois == Test({Deaf("AWAY"), Silent("RPL_AWAY")}, {},
    <<Connect(1, "bar"), Connect(2, "qux"),
      Send(2, "WHOIS", <<"bar">>), GetAll(2, <<Lacks(Cmd("RPL_AWAY"))>>)>> \o Away \o <<
    Send(2, "WHOIS", <<"bar">>), GetAll(2, <<Exactly({"RPL_AWAY"}, <<NotHere>>)>>)>>)

testAwayUserhost == Test({Deaf("AWAY"), Deaf("USERHOST")}, {},
    LET asks(mark) == <<Send(2, "USERHOST", <<"bar">>), Get(2, Msg("RPL_USERHOST", <<"qux", "bar", mark>>))>> IN
    <<Connect(1, "bar"), Connect(2, "qux")>> \o asks("+") \o Away \o asks("-"))

testAwayEmptyMessage == Test({Deaf("AWAY"), Silent("RPL_AWAY")}, {},
    LET asks(check) == <<Send(2, "WHOIS", <<"bar">>), GetAll(2, <<Has(Cmd("RPL_WHOISUSER")), check>>)>> IN
    <<Connect(1, "bar"), Connect(2, "qux")>> \o Away \o asks(Has(Cmd("RPL_AWAY"))) \o
    <<Send(1, "AWAY", <<"">>), GetAll(1, <<Has(Cmd("RPL_UNAWAY"))>>)>> \o asks(Lacks(Cmd("RPL_AWAY"))))

-----------------------------------------------------------------------------
(* setname.py, oper.py, kill.py, wallops.py *)

testSetnameMessage == Test({Deaf("SETNAME"), Silent("SETNAME")}, {}, <<
    ConnectWith(1, "foo", {"setname"}),
    Send(1, "SETNAME", <<"bar">>), Get(1, Msg("SETNAME", <<"bar">>)),
    Send(1, "WHOIS", <<"foo">>),
    GetAll(1, <<Begins({"RPL_WHOISUSER"},
                       <<Msg("RPL_WHOISUSER", <<ANYSTR, ANYSTR, ANYSTR, ANYSTR, ANYSTR, "bar">>)>>)>>)>>)

testSetnameChannel == Test({Deaf("SETNAME"), Leaky("SETNAME")}, {}, <<
    ConnectWith(1, "foo", {"setname"}), ConnectWith(2, "bar", {"setname"}), Connect(3, "baz"),
    Join(1, "#chan"), Join(2, "#chan"), Join(3, "#chan"), Sync(1), Sync(2), Sync(3),
    Send(1, "SETNAME", <<"qux">>),
    Get(1, Msg("SETNAME", <<"qux">>)), Get(2, Msg("SETNAME", <<"qux">>)), Empty(3)>>)

testOperSuccess == Test({Deaf("OPER"), Silent("MODE")}, {}, <<
    Connect(1, "baz"),
    Send(1, "OPER", <<"operuser", "operpassword">>),
    GetAll(1, <<Has(Cmd("RPL_YOUREOPER")), Each({"RPL_YOUREOPER"}, Msg("RPL_YOUREOPER", <<"baz", ANYSTR>>)),
                Exactly({"MODE"}, <<Msg("MODE", <<"baz", "+", "o", ANYLIST>>)>>),
                Lacks(OneOf({"ERR_NOOPERHOST", "ERR_PASSWDMISMATCH"}))>>)>>)

\* One of these numerics is sent, and RPL_YOUREOPER is not.
OperRefused(args, numerics) == Test({Lenient("OPER"), Deaf("OPER")}, {}, <<
    Connect(1, "baz"),
    Send(1, "OPER", args),
    GetAll(1, <<Has(OneOf(numerics)),
                Each(numerics \ {"ERR_NEEDMOREPARAMS"}, Pattern(ANYSTR, numerics, <<"baz", ANYSTR>>)),
                Each({"ERR_NEEDMOREPARAMS"}, Msg("ERR_NEEDMOREPARAMS", <<"baz", ANYLIST>>)),
                Lacks(Cmd("RPL_YOUREOPER"))>>)>>)

testOperFailure == OperRefused(<<"operuser", "nottheoperpassword">>, {"ERR_NOOPERHOST", "ERR_PASSWDMISMATCH"})
testOperNonexistentUser == OperRefused(<<"notanoperuser", "somepassword">>, {"ERR_NOOPERHOST", "ERR_PASSWDMISMATCH"})
testOperNoPassword == [OperRefused(<<"operuser">>, {"ERR_NOOPERHOST", "ERR_PASSWDMISMATCH", "ERR_NEEDMOREPARAMS"})
                        EXCEPT !.faults = {Deaf("OPER")}]

\* Clients 1, 2, 3 are ircop, alice and bob.
testKill == Test({Deaf("KILL"), Lenient("KILL"), Deaf("OPER")}, {},
    LET unprivileged(nick) == <<Send(2, "KILL", <<nick, "some arbitrary reason">>),
                                GetAll(2, <<Has(Cmd("ERR_NOPRIVILEGES"))>>)>>
        privileged(nick, c) == <<Send(1, "KILL", <<nick, "some arbitrary reason">>), Sync(1),
                                 AssertDisconnected(c)>> IN
    <<Connect(1, "ircop"), Connect(2, "alice"), Connect(3, "bob")>> \o OperUp(1)
    \o unprivileged("bob") \o <<Sync(3)>> \o unprivileged("alice") \o <<Sync(2)>>
    \o privileged("alice", 2) \o privileged("bob", 3))

testKillOneArgument == Test({Deaf("KILL"), Deaf("OPER")}, {},
    <<Connect(1, "ircop"), Connect(2, "alice")>> \o OperUp(1) \o <<
    Send(1, "KILL", <<"alice">>), Sync(1), AssertDisconnected(2)>>)

NoWallops == [Lacks(Cmd("ERR_UNKNOWNCOMMAND")) EXCEPT !.otherwise = "unsupported"]

\* A server that sends no WALLOPS at all passes.
testWallops == Test({Leaky("WALLOPS"), Deaf("OPER")}, {"no WALLOPS"},
    LET said == From("nick1", "WALLOPS", <<"hi everyone">>) IN
    <<Connect(1, "nick1"), Connect(2, "nick2"), Connect(3, "nick3"),
      Send(2, "MODE", <<"nick2", "-", "w">>), Sync(2), Send(3, "MODE", <<"nick3", "+", "w">>), Sync(3)>>
    \o OperUp(1) \o <<
    Send(1, "WALLOPS", <<"hi everyone">>),
    GetAll(1, <<NoWallops, Each({}, said)>>),
    GetAll(3, <<Each({}, said)>>),
    Empty(2)>>)

testWallopsPrivileges == Test({Lenient("WALLOPS"), Deaf("WALLOPS")}, {"no WALLOPS"}, <<
    Connect(1, "nick1"),
    Send(1, "WALLOPS", <<"hi everyone">>),
    GetOne(1, <<NoWallops, Has(Msg("ERR_NOPRIVILEGES", <<"nick1", ANYSTR>>))>>)>>)

-----------------------------------------------------------------------------

PresenceTestList == testWhoisNumerics \o testServicesWhoisNumerics \o <<
    testWhoStar, testWhoNick("coolNick"), testWhoNick("coolnick"), testWhoNick("coolni*"),
    testWhoNickAway("coolNick"), testWhoNickAway("coolnick"), testWhoNickAway("coolni*"),
    testWhoNickOper("coolNick"), testWhoNickOper("coolnick"), testWhoNickOper("coolni*"),
    testWhoNickAwayAndOper("coolNick"), testWhoNickAwayAndOper("coolnick"), testWhoNickAwayAndOper("coolni*"),
    testWhoChan("#chan"), testWhoChan("#CHAN"), testWhoMultiChan, testWhoNickNotExists,
    testWhoxFull, testWhoxFullReversed, testWhoxOneChar, testWhoxToken, testWhoxAccount, testWhoxNoAccount,
    testWhoInvisible,
    testWhoisUser(<<>>), testWhoisUser(<<"My.Little.Server">>), testWhoisUser(<<"coolNick">>),
    testWhoisMissingUser, testInvisibleWhois,
    testAway, testAwayAck, testAwayPrivmsg, testAwayWhois, testAwayUserhost, testAwayEmptyMessage,
    testSetnameMessage, testSetnameChannel,
    testOperSuccess, testOperFailure, testOperNonexistentUser, testOperNoPassword,
    testKill, testKillOneArgument, testWallops, testWallopsPrivileges>>

=============================================================================
