----------------------------- MODULE MonitorTests -----------------------------
(***************************************************************************)
(* The tests of MONITOR in irctest/server_tests/monitor.py.                *)
(***************************************************************************)
EXTENDS TestSteps

MonOnline(nick)  == Msg("RPL_MONONLINE", <<ANYSTR, nick>>)
MonOffline(nick) == Msg("RPL_MONOFFLINE", <<ANYSTR, nick>>)

assertMononline(c, nick)  == Get(c, MonOnline(nick))
assertMonoffline(c, nick) == Get(c, MonOffline(nick))

MonitorTest(faults, steps) == Test(faults \cup {Deaf("MONITOR")}, {"MONITOR"}, steps)

FooMonitors == <<Connect(1, "foo"), Requires("MONITOR")>>
Monitors(c, sign, nick) == Send(c, "MONITOR", <<sign, nick>>)
BarQuits == <<Send(2, "QUIT", <<"bye">>), Sync(2)>>

testMonitorOneDisconnected == MonitorTest({Silent("RPL_MONOFFLINE"), Silent("RPL_MONONLINE")}, FooMonitors \o <<
    Monitors(1, "+", "bar"), assertMonoffline(1, "bar"),
    Connect(2, "bar"), assertMononline(1, "bar")>> \o BarQuits \o <<assertMonoffline(1, "bar")>>)

testMonitorOneConnection == MonitorTest({Silent("RPL_MONONLINE")}, FooMonitors \o <<
    Monitors(1, "+", "bar"), Sync(1), Connect(2, "bar"), assertMononline(1, "bar")>>)

BarConnectedAndQuits == FooMonitors \o <<
    Connect(2, "bar"), Monitors(1, "+", "bar"), assertMononline(1, "bar")>> \o BarQuits \o <<
    assertMonoffline(1, "bar")>>

testMonitorOneConnected == MonitorTest({Silent("RPL_MONOFFLINE")}, BarConnectedAndQuits)

testMonitorOneConnectionWithQuit == MonitorTest({Silent("RPL_MONONLINE")}, BarConnectedAndQuits \o <<
    Connect(3, "bar"), assertMononline(1, "bar")>>)

\* The two notifications come in either order.
testMonitorConnectedAndDisconnected == MonitorTest({Silent("RPL_MONONLINE")}, FooMonitors \o <<
    Connect(2, "bar"),
    Send(1, "MONITOR", <<"+", "bar", "baz">>),
    GetAll(1, <<InAnyOrder({}, <<MonOnline("bar"), MonOffline("baz")>>)>>)>>)

testUnmonitor == MonitorTest({Leaky("RPL_MONOFFLINE")}, FooMonitors \o <<
    Monitors(1, "+", "bar"), Sync(1), Connect(2, "bar"), assertMononline(1, "bar"),
    Monitors(1, "-", "bar"), Empty(1)>> \o BarQuits \o <<Empty(1)>>)

\* A server that answers one of the two requests answers both, or none.
testMonitorForbidsMasks ==
    Test({<<"masks", "MONITOR">>}, {"MONITOR", "nick masks are erroneous"},
    LET refused == Has(OneOf({"RPL_MONOFFLINE", "ERR_ERRONEUSNICKNAME"})) IN FooMonitors \o <<
    Monitors(1, "+", "*!username@localhost"), Monitors(1, "+", "*!username@127.0.0.1"),
    GetPerhapsThen(1, <<refused>>, 1), GetOne(1, <<refused>>),
    Connect(2, "bar"),
    GetPerhaps(1, <<Lacks(AnyMessage)>>)>>)

testTwoMonitoringOneRemove == MonitorTest({Leaky("RPL_MONONLINE")}, FooMonitors \o <<
    Connect(2, "bar"), Monitors(1, "+", "qux"), Monitors(2, "+", "qux"), Sync(1), Sync(2),
    Monitors(2, "-", "qux"), Empty(2),
    Connect(3, "qux"), Sync(3),
    GetAll(1, <<Has(AnyMessage)>>), Empty(2)>>)

testMonitorClear == MonitorTest({}, FooMonitors \o <<
    Monitors(1, "+", "bar"), Sync(1),
    Send(1, "MONITOR", <<"C">>), Send(1, "MONITOR", <<"L">>),
    Get(1, Cmd("RPL_ENDOFMONLIST"))>>)

\* The nicks listed for client 1 are these, of the two of the test.
checkMonitorSubjects(nicks) == <<
    Send(1, "MONITOR", <<"L">>),
    GetAll(1, SetToSeq({Has(Msg("RPL_MONLIST", <<"bar", nick>>)) : nick \in nicks}
                  \cup {Lacks(Msg("RPL_MONLIST", <<ANYSTR, nick>>)) : nick \in {"qux", "bazbat"} \ nicks})
              \o <<Ends(Msg("RPL_ENDOFMONLIST", <<"bar", ANYLIST>>))>>)>>

testMonitorList == MonitorTest({Silent("RPL_MONLIST")},
    <<Connect(1, "bar"), Requires("MONITOR")>> \o checkMonitorSubjects({})
    \o <<Monitors(1, "+", "qux"), Sync(1)>> \o checkMonitorSubjects({"qux"})
    \o <<Monitors(1, "+", "bazbat"), Sync(1)>> \o checkMonitorSubjects({"qux", "bazbat"})
    \o <<Monitors(1, "-", "qux"), Sync(1)>> \o checkMonitorSubjects({"bazbat"}))

testMonitorStatus == MonitorTest({Silent("RPL_MONONLINE")}, FooMonitors \o <<
    Connect(2, "bar"), Send(1, "MONITOR", <<"+", "bar", "baz">>), Sync(1),
    Send(1, "MONITOR", <<"S">>),
    GetAll(1, <<Exactly({}, <<AnyMessage, AnyMessage>>),
                InAnyOrder({}, <<MonOnline("bar"), MonOffline("baz")>>)>>)>>)

\* Client 2 changes its nick, which client 1 may be told of.
testNickChange == MonitorTest({Deaf("NICK"), Silent("RPL_MONOFFLINE"), Leaky("RPL_MONONLINE")},
    LET changes(nick) == <<Send(2, "NICK", <<nick>>), Sync(2)>> IN
    <<Connect(1, "bar"), Requires("MONITOR"), Monitors(1, "+", "qux"), Sync(1),
      Connect(2, "baz"), Sync(2), Empty(1)>>
    \o changes("qux") \o <<GetAll(1, <<Begins({}, <<MonOnline("qux")>>)>>)>>
    \o changes("QUX") \o <<Empty(1)>>
    \o changes("bazbat") \o <<GetAll(1, <<Begins({}, <<MonOffline("QUX")>>)>>)>>)

-----------------------------------------------------------------------------
(* extended-monitor *)

\* Client 1 monitors bar, before it connects or after.
setupExtendedMonitor(before, watcher, watched) ==
    <<ConnectWith(1, "foo", {"extended-monitor"} \cup watcher)>>
    \o (IF before THEN <<Monitors(1, "+", "bar"), Sync(1), ConnectWith(2, "bar", watched), Sync(2)>>
        ELSE <<ConnectWith(2, "bar", watched), Sync(2), Monitors(1, "+", "bar")>>)
    \o <<assertMononline(1, "bar"), Empty(1)>>

\* What bar does is told to client 1, or not, and nothing else is.
BarDoes(cmd, args, told) ==
    <<Send(2, cmd, args), Sync(2)>>
    \o (IF told THEN <<Get(1, From("bar", cmd, args))>> ELSE <<>>) \o <<Empty(1)>>

ExtendedMonitor(cmd, before, watcher, watched, steps(_)) ==
    LET told == watcher # {}
    IN  Test({Deaf("MONITOR"), IF told THEN Silent(cmd) ELSE Leaky(cmd)}, {},
             setupExtendedMonitor(before, watcher, watched) \o steps(told))

AwayAndBack(told) == BarDoes("AWAY", <<"afk">>, told) \o BarDoes("AWAY", <<>>, told)
NewName(told) == BarDoes("SETNAME", <<"new name">>, told)

OptionalCap(cap, given) == IF given THEN {cap} ELSE {}

testExtendedMonitorAway(before, cap) ==
    ExtendedMonitor("AWAY", before, {"away-notify"}, OptionalCap("away-notify", cap), AwayAndBack)
testExtendedMonitorAwayNoCap(before, cap) ==
    ExtendedMonitor("AWAY", before, {}, OptionalCap("away-notify", cap), AwayAndBack)
testExtendedMonitorSetName(before) == ExtendedMonitor("SETNAME", before, {"setname"}, {"setname"}, NewName)
testExtendedMonitorSetNameNoCap(before) == ExtendedMonitor("SETNAME", before, {}, {"setname"}, NewName)

\* bar logs in once it is connected.
ExtendedMonitorAccount(before, watcher, cap, told) ==
    Test({Deaf("AUTHENTICATE")} \cup (IF told = <<>> THEN {Leaky("ACCOUNT")} ELSE {Silent("ACCOUNT")}), {},
    <<RegisterUser("jilles")>>
    \o setupExtendedMonitor(before, watcher, {"sasl", "cap-notify"} \cup OptionalCap("account-notify", cap)) \o <<
    Send(2, "AUTHENTICATE", <<"PLAIN">>), GetRegistration(2, Msg("AUTHENTICATE", <<"+">>)),
    Send(2, "AUTHENTICATE", <<"jilles", "sesame">>), GetRegistration(2, Cmd("RPL_LOGGEDIN")), Sync(2)>>
    \o told \o <<Empty(1)>>)

testExtendedMonitorAccountNotify(before, cap) ==
    ExtendedMonitorAccount(before, {"account-notify"}, cap, <<Get(1, From("bar", "ACCOUNT", <<"jilles">>))>>)
testExtendedMonitorAccountNotifyNoCap(before, cap) ==
    ExtendedMonitorAccount(before, {}, cap, <<>>)

-----------------------------------------------------------------------------

Both(T(_)) == <<T(TRUE), T(FALSE)>>
AllFour(T(_, _)) == <<T(TRUE, TRUE), T(TRUE, FALSE), T(FALSE, TRUE), T(FALSE, FALSE)>>

MonitorTestList == <<
    testMonitorOneDisconnected, testMonitorOneConnection, testMonitorOneConnected,
    testMonitorOneConnectionWithQuit, testMonitorConnectedAndDisconnected, testUnmonitor,
    testMonitorForbidsMasks, testTwoMonitoringOneRemove, testMonitorClear, testMonitorList,
    testMonitorStatus, testNickChange>>
    \o AllFour(testExtendedMonitorAway) \o AllFour(testExtendedMonitorAwayNoCap)
    \o Both(testExtendedMonitorSetName) \o Both(testExtendedMonitorSetNameNoCap)
    \o AllFour(testExtendedMonitorAccountNotify) \o AllFour(testExtendedMonitorAccountNotifyNoCap)

=============================================================================
