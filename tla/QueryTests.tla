------------------------------ MODULE QueryTests ------------------------------
(***************************************************************************)
(* The tests of LIST, WHOWAS and LUSERS, and the regression tests, in      *)
(* irctest/server_tests/.                                                  *)
(*                                                                         *)
(* The sign of a mask or of a number of LIST is a parameter of its own,    *)
(* and the numbers inside the text of a reply to LUSERS are its items.     *)
(***************************************************************************)
EXTENDS TestSteps

-----------------------------------------------------------------------------
(* regressions.py *)

testFailedNickChange == Test({Lenient("NICK"), Silent("ERR_NICKNAMEINUSE")}, {}, <<
    Connect(1, "alice"), Connect(2, "bob"),
    Send(2, "NICK", <<"alice">>), GetAll(2, <<Exactly({}, <<Cmd("ERR_NICKNAMEINUSE")>>)>>),
    Send(1, "PRIVMSG", <<"bob", "hi">>), Empty(1),
    GetAll(2, <<Exactly({}, <<Msg("PRIVMSG", <<"bob", "hi">>)>>)>>)>>)

testCaseChanges ==
    LET changed(c) == GetAll(c, <<Exactly({}, <<From("alice", "NICK", <<"Alice">>)>>)>>) IN
    Test({<<"repeats", "NICK">>, Silent("NICK")}, {}, <<
    Connect(1, "alice"), Join(1, "#test"), Connect(2, "bob"), Join(2, "#test"), Sync(1), Sync(2),
    Send(2, "NICK", <<"Alice">>), GetAll(2, <<Exactly({}, <<Cmd("ERR_NICKNAMEINUSE")>>)>>),
    Send(1, "NICK", <<"Alice">>), changed(1), changed(2),
    Send(1, "NICK", <<"Alice">>), Empty(1), Empty(2)>>)

testStarNick == Test({Lenient("NICK")}, {"PING cookie"}, <<
    AddClient(1), Send(1, "NICK", <<"*">>), Send(1, "USER", <<"u", "r">>),
    AwaitOthers(1, {"NOTICE", "RPL_HELLO"}, <<Has(Cmd("ERR_ERRONEUSNICKNAME")), Lacks(Cmd("RPL_WELCOME"))>>),
    Send(1, "NICK", <<"valid">>),
    AwaitOthers(1, {"NOTICE", "PING"}, <<Lacks(Cmd("ERR_ERRONEUSNICKNAME")), Has(Cmd("RPL_WELCOME"))>>)>>)

\* A client takes a nick that was freed.
TakesNick(c, nick) == <<
    AddClient(c), Send(c, "NICK", <<nick>>), Send(c, "USER", <<"u", "r">>),
    GetRegistration(c, Cmd("RPL_WELCOME"))>>
Quits(c) == <<Send(c, "QUIT", <<>>), AssertDisconnected(c)>>
ReleaseChoices == {"PING cookie", "registers later"}

testNickRelease == Test({Deaf("NICK"), Silent("NICK")}, ReleaseChoices, <<
    Connect(1, "alice"), Sync(1), Send(1, "NICK", <<"malice">>),
    GetAll(1, <<Exactly({"NICK"}, <<Msg("NICK", <<"malice">>)>>)>>)>> \o TakesNick(2, "alice"))
testNickReleaseQuit == Test({Deaf("QUIT")}, ReleaseChoices,
    <<Connect(1, "alice"), Sync(1)>> \o Quits(1) \o TakesNick(2, "alice") \o Quits(2) \o TakesNick(3, "ALICE"))
testNickReleaseUnregistered == Test({Deaf("QUIT")}, ReleaseChoices,
    <<AddClient(1), Send(1, "NICK", <<"alice">>)>> \o Quits(1) \o TakesNick(2, "alice"))

testLabeledNick == Test({Silent("NICK"), <<"silent", "label">>}, {}, <<
    ConnectWith(1, "alice", {"batch", "labeled-response"}), SendTagged(1, {<<"label", "abc">>}, "NICK", <<"alice2">>),
    Get(1, With(From("alice", "NICK", <<"alice2">>), {<<"label", "abc">>}))>>)

-----------------------------------------------------------------------------
(* list.py *)

ListOf(ch) == Msg("RPL_LIST", <<ANYSTR, ch, ANYLIST>>)
PseudoChannels == {ListOf("&SERVER")}
PassesListStart == PseudoChannels \cup {Cmd("RPL_LISTSTART")}

\* LIST, and whether _parseChanList() returns these channels.
ParsesChanList(c, args, channels) == <<
    Send(c, "LIST", args),
    GetUntil(c, {"RPL_LISTEND"}, [i \in 1..2 |->
        LET ch == <<"#chan1", "#chan2">>[i] IN IF ch \in channels THEN Has(ListOf(ch)) ELSE Lacks(ListOf(ch))])>>

ListChoices == {"no RPL_LISTSTART", "pseudo-channels first", "pseudo-channels last"}
JoinsChannels == <<Send(1, "JOIN", <<"#chan1">>), Sync(1), Send(1, "JOIN", <<"#chan2">>), Sync(1)>>

testListEmpty == Test({Deaf("LIST"), Silent("RPL_LISTEND")}, ListChoices, <<
    Connect(1, "foo"), Connect(2, "bar"), Sync(1), Send(2, "LIST", <<>>),
    GetPassing(2, PassesListStart, <<Has(Cmd("RPL_LISTEND"))>>)>>)

\* What comes after RPL_LISTSTART is not passed over here.
testListOne(choices) == Test({Deaf("LIST"), Silent("RPL_LIST"), Silent("RPL_LISTEND")}, choices, <<
    Connect(1, "foo"), Connect(2, "bar"), Send(1, "JOIN", <<"#chan">>), Sync(1), Send(2, "LIST", <<>>),
    GetPassing(2, {Cmd("RPL_LISTSTART")}, <<Has(Cmd("RPL_LIST"))>>),
    GetPassing(2, PseudoChannels, <<Has(Cmd("RPL_LISTEND"))>>)>>)

testListNonexistent == Test({Deaf("LIST"), Silent("RPL_LISTEND")}, {"no RPL_LISTSTART"}, <<
    Connect(1, "bar"), Send(1, "LIST", <<"#nonexistent">>),
    GetAll(1, <<Has(Cmd("RPL_LISTEND")), OnlyCommands({"RPL_LISTSTART", "RPL_LISTEND"})>>)>>)

ElistFaults == {<<"ignores", "ELIST">>, Silent("RPL_LIST")}

testListMask == Test(ElistFaults, ListChoices \cup {"ELIST M"},
    <<Connect(1, "foo"), Requires("ELIST M"), Connect(2, "bar")>> \o JoinsChannels
    \o ParsesChanList(2, <<"*an1">>, {"#chan1"}) \o ParsesChanList(2, <<"*an2">>, {"#chan2"})
    \o ParsesChanList(2, <<"#c*n2">>, {"#chan2"}) \o ParsesChanList(2, <<"*an3">>, {})
    \o ParsesChanList(2, <<"#ch*">>, {"#chan1", "#chan2"}))

testListNotMask == Test(ElistFaults, ListChoices \cup {"ELIST N"},
    <<Connect(1, "foo"), Requires("ELIST N")>> \o JoinsChannels \o <<Connect(2, "bar")>>
    \o ParsesChanList(2, <<"!", "*an1">>, {"#chan2"}) \o ParsesChanList(2, <<"!", "*an2">>, {"#chan1"})
    \o ParsesChanList(2, <<"!", "#c*n2">>, {"#chan1"}) \o ParsesChanList(2, <<"!", "*an3">>, {"#chan1", "#chan2"})
    \o ParsesChanList(2, <<"!", "#ch*">>, {}))

testListUsers == Test(ElistFaults \cup {<<"inclusive", "LIST">>}, ListChoices \cup {"ELIST U"},
    <<Connect(1, "foo"), Requires("ELIST U")>> \o JoinsChannels \o <<
    Connect(2, "bar"), Send(2, "JOIN", <<"#chan2">>), Sync(2), Connect(3, "baz")>>
    \o ParsesChanList(3, <<">", "0">>, {"#chan1", "#chan2"}) \o ParsesChanList(3, <<"<", "1">>, {})
    \o ParsesChanList(3, <<"<", "100">>, {"#chan1", "#chan2"}) \o ParsesChanList(3, <<">", "1">>, {"#chan2"})
    \o ParsesChanList(3, <<"<", "2">>, {"#chan1"}) \o ParsesChanList(3, <<"<", "100">>, {"#chan1", "#chan2"}))

-----------------------------------------------------------------------------
(* whowas.py *)

\* A client that was, whose connection is closed by an ERROR.
Leaves(c, nick, ident) == <<ConnectAs(c, nick, ident), Send(c, "QUIT", <<"bye">>), Sync(c)>>
EndOfWhowas == Msg("RPL_ENDOFWHOWAS", <<"nick1", "nick2", ANYSTR>>)
WhowasUser(ident) == Msg("RPL_WHOWASUSER", <<"nick1", "nick2", ident, ANYSTR, "*", "Realname">>)
WhowasChoices == {"RPL_WHOISACTUALLY", "RPL_WHOISSERVER"}

Whowas(args) == <<Connect(1, "nick1")>> \o Leaves(2, "nick2", "username") \o <<Send(1, "WHOWAS", args)>>

testWhowasNumerics == Test({Deaf("WHOWAS"), Silent("RPL_ENDOFWHOWAS")}, WhowasChoices, Whowas(<<"nick2">>) \o <<
    GetAll(1, <<Ends(EndOfWhowas),
                Each({"RPL_WHOWASUSER"}, WhowasUser("username")),
                Each({"RPL_WHOISSERVER"}, Msg("RPL_WHOISSERVER", <<"nick1", "nick2", "My.Little.Server", ANYSTR>>)),
                AtMostOne("RPL_ENDOFWHOWAS"),
                OnlyCommands({"RPL_WHOWASUSER", "RPL_WHOISSERVER", "RPL_WHOISACTUALLY", "RPL_ENDOFWHOWAS"})>>)>>)
testWhowasEnd == Test({Deaf("WHOWAS"), Silent("RPL_ENDOFWHOWAS")}, WhowasChoices, Whowas(<<"nick2">>) \o <<
    GetAll(1, <<Ends(EndOfWhowas)>>)>>)

\* The first message is about the last user; what follows each is passed over.
_testWhowasMultiple(faults, second_result, args) ==
    LET second == IF second_result THEN <<WhowasUser("ident2")>> ELSE <<>> IN
    Test({<<"wrong", "order">>, Silent("RPL_ENDOFWHOWAS")} \cup faults, WhowasChoices,
    <<Connect(1, "nick1")>> \o Leaves(2, "nick2", "ident2") \o Leaves(3, "nick2", "ident3") \o <<
    Send(1, "WHOWAS", args),
    GetAll(1, <<Begins({}, <<WhowasUser("ident3")>>),
                BeginsBesides({"RPL_WHOISACTUALLY", "RPL_WHOISSERVER"},
                              <<WhowasUser("ident3")>> \o second \o <<EndOfWhowas>>)>>)>>)

testWhowasMultiple == _testWhowasMultiple({}, TRUE, <<"nick2">>)
testWhowasCount1 ==
    _testWhowasMultiple({<<"ignores", "count">>, <<"off by one", "count">>}, FALSE, <<"nick2", "1">>)
testWhowasCount2 == _testWhowasMultiple({<<"off by one", "count">>}, TRUE, <<"nick2", "2">>)
testWhowasCountNegative == _testWhowasMultiple({<<"literal", "count">>}, TRUE, <<"nick2", "-1">>)
testWhowasCountZero == _testWhowasMultiple({<<"literal", "count">>}, TRUE, <<"nick2", "0">>)
testWhowasWildcard == _testWhowasMultiple({}, TRUE, <<"*ck2">>)

\* The end is asked for a nick that was not given.
testWhowasNoParamRfc(choices) == Test({Deaf("WHOWAS")}, choices, <<
    Connect(1, "nick1"), Send(1, "WHOWAS", <<>>),
    Get(1, Msg("ERR_NONICKNAMEGIVEN", <<"nick1", ANYSTR>>)), Get(1, EndOfWhowas)>>)
testWhowasNoParamModern == Test({Deaf("WHOWAS")}, {"ERR_NEEDMOREPARAMS", "errors are ended"}, <<
    Connect(1, "nick1"), Send(1, "WHOWAS", <<>>),
    GetOne(1, <<HasEither(<<Msg("ERR_NONICKNAMEGIVEN", <<"nick1", ANYSTR>>),
                            Msg("ERR_NEEDMOREPARAMS", <<"nick1", "WHOWAS", ANYSTR>>)>>)>>)>>)
testWhowasNoSuchNick == Test({Deaf("WHOWAS"), Silent("ERR_WASNOSUCHNICK"), Silent("RPL_ENDOFWHOWAS")}, {}, <<
    Connect(1, "nick1"), Send(1, "WHOWAS", <<"nick2">>),
    Get(1, Msg("ERR_WASNOSUCHNICK", <<"nick1", "nick2", ANYSTR>>)), Get(1, EndOfWhowas)>>)

-----------------------------------------------------------------------------
(* lusers.py *)

LuserNames == <<"bar", "qux", "bat">>
LuserConnects(c) == Connect(c, LuserNames[c])
LuserCounts == <<"RPL_LUSEROP", "RPL_LUSERUNKNOWN", "RPL_LUSERCHANNELS">>
LuserNumerics ==
    LuserCounts \o <<"RPL_LUSERCLIENT", "RPL_LUSERME", "RPL_LOCALUSERS", "RPL_GLOBALUSERS">>

LuserClient(name, visible, invisible) ==
    With(Msg("RPL_LUSERCLIENT", <<name, ANYSTR>>),
         {<<"visible", visible>>, <<"invisible", invisible>>, <<"servers", ANYSTR>>})
LuserMe(name, local) == With(Msg("RPL_LUSERME", <<name, ANYSTR>>), {<<"local", local>>, <<"servers", ANYSTR>>})
LocalUsers(name, total) == Msg("RPL_LOCALUSERS", <<name, total, ANYSTR, ANYSTR>>)

\* getLusers(), and what its result is asked.  It returns nothing if both of
\* the last numerics are missing and may be.
MaxUsers == 3    \* bound: users of these tests
getLusers(c, allow_missing_265_266, checks) ==
    LET name == LuserNames[c]
        rows == [i \in DOMAIN LuserNumerics |-> AtMostOne(LuserNumerics[i])]
        counts == [i \in DOMAIN LuserCounts |->
                      Each({LuserCounts[i]}, Msg(LuserCounts[i], <<name, ANYSTR, ANYSTR>>))]
        missing == IF allow_missing_265_266 THEN <<Else(Has(OneOf({"RPL_LOCALUSERS", "RPL_GLOBALUSERS"})))>> ELSE <<>>
        locals == <<LocalUsers(name, ANYSTR), Msg("RPL_LOCALUSERS", <<name, ANYSTR>>)>>
        agree == [n \in 1..MaxUsers |-> HasIf(LocalUsers(name, ToString(n)), LuserMe(name, ToString(n)))]
    IN  <<Send(c, "LUSERS", <<>>),
          GetAll(c, rows \o <<Each({}, Pattern(ANYSTR, {}, <<name, ANYLIST>>)), Has(LuserClient(name, ANYSTR, ANYSTR))>>
                    \o counts \o <<Has(Msg("RPL_LUSERME", <<name, ANYSTR>>))>> \o missing
                    \o <<HasEither(locals), Has(Cmd("RPL_GLOBALUSERS"))>> \o agree \o checks)>>

\* assertLusersResult(): numbers that are not there are not compared.
assertLusersResult(c, unregistered, total, max) ==
    LET name == LuserNames[c]
        totals(cmd) == Msg(cmd, <<name, ToString(total), ToString(max), ANYLIST>>)
    IN  <<HasIf(Cmd("RPL_LUSERUNKNOWN"), Msg("RPL_LUSERUNKNOWN", <<name, ToString(unregistered), ANYSTR>>)),
          HasIf(LocalUsers(name, ANYSTR), totals("RPL_LOCALUSERS")),
          HasIf(LocalUsers(name, ANYSTR), totals("RPL_GLOBALUSERS")),
          HasEither([n \in 1..(total + 1) |-> LuserClient(name, ToString(n - 1), ToString(total - n + 1))])>>

Lusers(c, allow, unregistered, total, max) == getLusers(c, allow, assertLusersResult(c, unregistered, total, max))
LusersWith(c, total, max, p) == getLusers(c, FALSE, assertLusersResult(c, 0, total, max) \o <<Has(p)>>)

LusersFaults == {Deaf("LUSERS"), Silent("RPL_LUSERCLIENT")}
LusersFullFaults == LusersFaults \cup {Silent("RPL_GLOBALUSERS"), <<"forgets", "maximum">>}

testLusers == Test(LusersFaults, {"omits zeros", "RFC 2812", "counts in texts"},
    <<LuserConnects(1)>> \o getLusers(1, TRUE, <<>>) \o <<LuserConnects(2)>> \o getLusers(2, TRUE, <<>>)
    \o Quits(2) \o getLusers(1, TRUE, <<>>))
testLusersFull == Test(LusersFullFaults, {"omits zeros"},
    <<LuserConnects(1)>> \o Lusers(1, FALSE, 0, 1, 1) \o <<LuserConnects(2)>> \o Lusers(2, FALSE, 0, 2, 2)
    \o Quits(2) \o Lusers(1, FALSE, 0, 1, 2))

\* A client that is not registered: is its PING answered, or refused?
_synchronize(c) == <<Send(c, "PING", <<"PARAM">>), GetRegistrationUntil(c, {"ERR_NOTREGISTERED", "PONG"})>>

doLusersTest(allow) ==
    <<LuserConnects(1)>> \o Lusers(1, allow, 0, 1, 1)
    \o <<AddClient(2), Send(2, "NICK", <<"qux">>)>> \o _synchronize(2) \o Lusers(1, allow, 1, 1, 1)
    \o <<AddClient(3), Send(3, "NICK", <<"bat">>)>> \o _synchronize(3) \o Lusers(1, allow, 2, 1, 1)
    \o <<Send(2, "USER", <<"u", "r">>), GetRegistration(2, AnyMessage)>> \o Lusers(1, allow, 1, 2, 2)
    \o Quits(3) \o Lusers(1, allow, 0, 2, 2)

UnregisteredChoices ==
    {"omits zeros", "counts in texts", "registers later", "no PING before registration"}
testLusersRfc2812 == Test(LusersFaults, UnregisteredChoices \cup {"RFC 2812"}, doLusersTest(TRUE))
testLusersFullUnregistered ==
    Test(LusersFaults \cup {Silent("RPL_GLOBALUSERS"), <<"wrong", "LUSERS">>}, UnregisteredChoices, doLusersTest(FALSE))

Invisible(c, visible, invisible) == LuserClient(LuserNames[c], ToString(visible), ToString(invisible))
testLusersUnregisteredDefaultInvisible == Test(LusersFaults \cup {<<"forgets", "+i">>, <<"wrong", "LUSERS">>},
    UnregisteredChoices, <<UsersAreInvisible>> \o doLusersTest(FALSE) \o LusersWith(1, 2, 2, Invisible(1, 0, 2)))

BecomesOper(c) == Send(c, "OPER", <<"operuser", "operpassword">>)
Opers(c, n) == Msg("RPL_LUSEROP", <<LuserNames[c], ToString(n), ANYSTR>>)

\* A server that sends no count that is zero passes its first check, and not
\* its last one.
testLuserOpers(choices) == Test(LusersFullFaults \cup {Deaf("OPER")}, choices,
    <<LuserConnects(1)>>
    \o getLusers(1, FALSE, assertLusersResult(1, 0, 1, 1) \o <<HasIf(Cmd("RPL_LUSEROP"), Opers(1, 0))>>)
    \o <<BecomesOper(1), GetAll(1, <<Has(Cmd("RPL_YOUREOPER"))>>)>> \o LusersWith(1, 1, 1, Opers(1, 1))
    \o <<LuserConnects(2), BecomesOper(2), Sync(2)>> \o LusersWith(1, 2, 2, Opers(1, 2))
    \o <<Send(1, "MODE", <<"bar", "-", "o">>), GetAll(1, <<Has(Cmd("MODE"))>>)>> \o LusersWith(1, 2, 2, Opers(1, 1))
    \o Quits(2) \o LusersWith(1, 1, 2, Opers(1, 0)))

testLusersInvisibleDefault == Test(LusersFullFaults \cup {<<"forgets", "+i">>}, {"omits zeros"},
    <<UsersAreInvisible, LuserConnects(1)>> \o LusersWith(1, 1, 1, Invisible(1, 0, 1))
    \o <<LuserConnects(2)>> \o LusersWith(2, 2, 2, Invisible(2, 0, 2)) \o <<Send(1, "MODE", <<"bar", "-", "i">>)>>
    \o <<GetAll(1, <<Has(Cmd("MODE"))>>)>> \o LusersWith(1, 2, 2, Invisible(1, 1, 1))
    \o Quits(2) \o LusersWith(1, 1, 2, Invisible(1, 1, 0)))

-----------------------------------------------------------------------------
QueryTestList == <<
    testFailedNickChange, testCaseChanges, testStarNick, testNickRelease, testNickReleaseQuit,
    testNickReleaseUnregistered, testLabeledNick,
    testListEmpty, testListOne(ListChoices \ {"pseudo-channels first"}), testListNonexistent, testListMask,
    testListNotMask, testListUsers,
    testWhowasNumerics, testWhowasEnd, testWhowasMultiple, testWhowasCount1, testWhowasCount2,
    testWhowasCountNegative, testWhowasCountZero, testWhowasWildcard,
    testWhowasNoParamModern, testWhowasNoSuchNick,
    testLusers, testLusersFull, testLusersRfc2812, testLusersFullUnregistered,
    testLusersUnregisteredDefaultInvisible, testLuserOpers({}), testLusersInvisibleDefault>>

=============================================================================
