---------------------------- MODULE SessionTests ----------------------------
(***************************************************************************)
(* The tests of capability negotiation, of registration and of SASL in     *)
(* irctest/server_tests/.                                                  *)
(***************************************************************************)
EXTENDS TestSteps

Welcome == Cmd("RPL_WELCOME")
NickUser(c, nick) == <<Send(c, "NICK", <<nick>>), Send(c, "USER", <<"username", "Realname">>)>>
UserNick == <<Send(1, "USER", <<"foo", "foo">>), Send(1, "NICK", <<"foo">>)>>
LS302(c) == Send(c, "CAP", <<"LS", "302">>)
CapEnd(c) == Send(c, "CAP", <<"END">>)
EndsWithWelcome == <<CapEnd(1), GetRegistration(1, Welcome)>>

SessionChoices == {"PING cookie", "long lists"}

-----------------------------------------------------------------------------
(* cap.py *)

TestedCaps == {"multi-prefix", "userhost-in-names", "echo-message", "server-time", "sasl"}

\* A message about these capabilities and no other.
CapsMsg(sub, caps) ==
    Without(With(Msg("CAP", <<ANYSTR, sub>>), {<<cap, ANYSTR>> : cap \in caps}), TestedCaps \ caps)

Req(caps) == SendList(1, "CAP", <<"REQ">>, {<<cap, "+">> : cap \in caps})
ReqAcked(caps) == <<Req(caps), GetRegistration(1, CapsMsg("ACK", caps))>>
Lists(caps) == <<Send(1, "CAP", <<"LIST">>), GetRegistration(1, CapsMsg("LIST", caps))>>

CapFaults == {Deaf("CAP"), <<"wrong", "CAP LIST">>}

testInvalidCapSubcommand == Test({Deaf("CAP"), Silent("ERR_INVALIDCAPCMD")}, {}, <<
    AddClient(1), Send(1, "CAP", <<"NOTACOMMAND">>), Send(1, "PING", <<"test123">>),
    GetRegistrationAfter(1, {}, <<Lacks(Msg("PONG", <<ANYSTR, "test123">>)),
                                  Has(Msg("ERR_INVALIDCAPCMD", <<"*", "NOTACOMMAND", ANYSTR>>))>>)>>)

testNoReq == Test({Lenient("CAP END"), Silent("RPL_WELCOME")}, {"long lists"},
    <<AddClient(1), LS302(1), CapLs(1)>> \o UserNick \o <<LS302(1), CapLs(1)>> \o EndsWithWelcome)

Negotiating == <<AddClient(1), Send(1, "CAP", <<"LS">>), CapLs(1)>> \o UserNick

testReqOne == Test(CapFaults, SessionChoices,
    Negotiating \o ReqAcked({"multi-prefix"}) \o Lists({"multi-prefix"}) \o EndsWithWelcome)
testReqTwo == Test(CapFaults, SessionChoices,
    Negotiating \o ReqAcked({"multi-prefix", "userhost-in-names"})
    \o Lists({"multi-prefix", "userhost-in-names"}) \o EndsWithWelcome)
testReqOneThenOne == Test(CapFaults, SessionChoices,
    Negotiating \o ReqAcked({"multi-prefix"}) \o ReqAcked({"userhost-in-names"})
    \o Lists({"multi-prefix", "userhost-in-names"}) \o EndsWithWelcome)
testReqPostRegistration == Test(CapFaults, SessionChoices,
    Negotiating \o ReqAcked({"multi-prefix"}) \o Lists({"multi-prefix"}) \o EndsWithWelcome \o <<Sync(1)>>
    \o ReqAcked({"userhost-in-names"}) \o <<
    Send(1, "CAP", <<"LIST">>), Get(1, CapsMsg("LIST", {"multi-prefix", "userhost-in-names"}))>>)

\* A list that is refused, repeated as it was sent.
ReqNaked(text, names) == <<
    SendList(1, "CAP", <<"REQ", text>>, {<<name, "+">> : name \in names}),
    GetRegistration(1, Msg("CAP", <<ANYSTR, "NAK", text>>))>>

testReqUnavailable == Test({Lenient("CAP")}, SessionChoices,
    <<AddClient(1), LS302(1), CapLs(1)>> \o UserNick \o ReqNaked("foo", {"foo"}) \o EndsWithWelcome)
testNakExactString == Test({Lenient("CAP"), <<"wrong", "order">>}, SessionChoices,
    <<AddClient(1), LS302(1), CapLs(1)>>
    \o ReqNaked("foo qux bar baz qux quux", {"foo", "qux", "bar", "baz", "quux"}))
testNakWhole == Test({Lenient("CAP")}, SessionChoices,
    <<AddClient(1), LS302(1), CapLs(1)>>
    \o ReqNaked("foo multi-prefix bar", {"foo", "multi-prefix", "bar"})
    \o ReqNaked("multi-prefix bar", {"multi-prefix", "bar"})
    \o ReqNaked("foo multi-prefix", {"foo", "multi-prefix"}) \o ReqAcked({"multi-prefix"}))

\* Clients 1 and 2 are bar and sender.
testCapRemovalByClient ==
    LET lists(caps) == <<Send(1, "CAP", <<"LIST">>), GetAll(1, <<Begins({"CAP"}, <<CapsMsg("LIST", caps)>>)>>)>>
        minus(sub) == With(Msg("CAP", <<ANYSTR, sub>>), {<<"server-time", "-">>}) IN
    Test({Deaf("CAP"), <<"wrong", "CAP LIST">>, <<"deaf", "-">>},
         SessionChoices \cup {"capabilities are kept"},
    <<AddClient(1), Connect(2, "sender"), LS302(1), CapLs(1), Req({"echo-message", "server-time"}),
      Send(1, "NICK", <<"bar">>), Send(1, "USER", <<"user", "realname">>), CapEnd(1),
      GetRegistration(1, CapsMsg("ACK", {"echo-message", "server-time"})), SkipToWelcome(1)>>
    \o lists({"echo-message", "server-time"}) \o <<
    Send(2, "PRIVMSG", <<"bar", "hi">>), Sync(2), Get(1, With(AnyMessage, {<<"time", ANYSTR>>})),
    SendList(1, "CAP", <<"REQ">>, {<<"server-time", "-">>}),
    GetOne(1, <<HasEither(<<minus("ACK"), minus("NAK")>>), Unsupported(minus("NAK"))>>)>>
    \o lists({"echo-message"}))

testIrc301CapLs == Test({<<"wrong", "CAP LS">>}, SessionChoices, <<
    AddClient(1), Send(1, "CAP", <<"LS">>),
    GetRegistrationAfter(1, {}, <<Lacks(Msg("CAP", <<ANYSTR, "LS", "*">>)),
                                  HasEither(<<With(AnyMessage, {<<"sasl", "">>}), Without(AnyMessage, {"sasl"})>>)>>)>>)

testEmptyCapList == Test({Deaf("CAP"), <<"wrong", "CAP LIST">>}, {}, <<
    AddClient(1), Send(1, "CAP", <<"LIST">>),
    GetRegistration(1, Without(Msg("CAP", <<"*", "LIST">>), TestedCaps))>>)

check301ResponsePreRegistration(c, nick, version) ==
    <<AddClient(c), Send(c, "CAP", <<"LS">> \o version)>> \o NickUser(c, nick)
    \o <<CapEnd(c), SkipToWelcomeWith(c, <<AtMostOne("CAP")>>)>>

check301ResponsePostRegistration(c, nick, version) ==
    <<Connect(c, nick), Send(c, "CAP", <<"LS">> \o version), GetAll(c, <<AtMostOne("CAP")>>)>>

testNoMultiline301Response == Test({<<"wrong", "CAP LS">>}, SessionChoices,
    check301ResponsePreRegistration(1, "bar", <<>>) \o check301ResponsePreRegistration(2, "qux", <<"301">>)
    \o check301ResponsePostRegistration(3, "baz", <<>>) \o check301ResponsePostRegistration(4, "bat", <<"301">>))

-----------------------------------------------------------------------------
(* connection_registration.py *)

PassTest(faults, steps) ==
    Test(faults, {"only ERROR", "PING cookie"}, <<Passworded("testpassword"), AddClient(1)>> \o steps)
NotWelcome(c) == GetRegistrationAfter(c, {}, <<Lacks(Welcome)>>)

testPassBeforeNickuser == PassTest({Deaf("PASS")},
    <<Send(1, "PASS", <<"testpassword">>)>> \o NickUser(1, "foo") \o <<GetRegistration(1, Welcome)>>)
testNoPassword == PassTest({Lenient("PASS")}, NickUser(1, "foo") \o <<NotWelcome(1)>>)

\* The test goes on to ask for ERROR after a command "ERR_PASSWDMISMATCH",
\* which is the name of the numeric and never a command.
testWrongPassword == PassTest({Lenient("PASS")},
    <<Send(1, "PASS", <<"testpasswordgarbage">>)>> \o NickUser(1, "foo")
    \o <<GetRegistrationAfter(1, {}, <<Lacks(Welcome), Has(OneOf({"ERR_PASSWDMISMATCH", "ERROR"}))>>)>>)
testPassAfterNickuser == PassTest({Lenient("PASS")},
    NickUser(1, "foo") \o <<Send(1, "PASS", <<"testpassword">>), NotWelcome(1)>>)

testConnectionRegistration ==
    LET hello(cmd) == GetRegistration(1, Msg(cmd, <<"foo", ANYSTR>>))
        lusers == {"RPL_STATSCONN", "RPL_LUSERCLIENT", "RPL_LUSEROP", "RPL_LUSERUNKNOWN", "RPL_LUSERCHANNELS",
                   "RPL_LUSERME", "RPL_LOCALUSERS", "RPL_GLOBALUSERS"}
        start == Msg("RPL_MOTDSTART", <<"foo", ANYSTR>>) IN
    Test({Silent("RPL_WELCOME"), Silent("RPL_YOURHOST"), Silent("RPL_ISUPPORT")},
         {"PING cookie", "RPL_VISIBLEHOST", "a MOTD"},
    <<AddClient(1)>> \o NickUser(1, "foo") \o <<
    hello("RPL_WELCOME"), hello("RPL_YOURHOST"), hello("RPL_CREATED"), hello("RPL_MYINFO"), hello("RPL_ISUPPORT"),
    [GetRegistrationAfter(1, {"RPL_ISUPPORT", "RPL_YOURID", "RPL_VISIBLEHOST"} \cup lusers,
        <<HasEither(<<start, Msg("ERR_NOMOTD", <<"foo", ANYSTR>>)>>), Else(Has(start))>>) EXCEPT !.branch = 1],
    GetRegistrationAfter(1, {"RPL_MOTD"}, <<Has(Msg("RPL_ENDOFMOTD", <<"foo", ANYSTR>>))>>)>>)

testQuitDisconnects == Test({Deaf("QUIT")}, {}, <<
    Connect(1, "foo"), Sync(1), Send(1, "QUIT", <<>>), AssertDisconnected(1)>>)
testQuitErrors == Test({Deaf("QUIT"), Silent("ERROR")}, {}, <<
    Connect(1, "foo"), Sync(1), Send(1, "QUIT", <<>>), GetAll(1, <<Has(Cmd("ERROR"))>>)>>)

testNickCollision == Test({Lenient("NICK")}, {"PING cookie", "closes on collision"},
    <<Connect(1, "foo"), AddClient(2)>> \o NickUser(2, "foo") \o <<NotWelcome(2)>>)

\* Exactly one of the two is welcome.
testEarlyNickCollision == Test({Lenient("NICK"), Silent("RPL_WELCOME")}, {"closes on collision"}, <<
    AddClient(1), AddClient(2), Send(1, "NICK", <<"foo">>), Send(2, "NICK", <<"foo">>),
    Send(1, "USER", <<"username", "Realname">>), Send(2, "USER", <<"username", "Realname">>),
    GetRegistrationThen(1, <<Else(Has(Welcome))>>, 1),
    GetRegistrationThen(2, <<Lacks(Welcome), ReturnIf(AnyMessage)>>, 1),
    GetRegistration(2, Welcome)>>)

testEmptyRealname == Test({Lenient("USER"), Silent("ERR_NEEDMOREPARAMS")}, {}, <<
    AddClient(1), Send(1, "NICK", <<"foo">>), Send(1, "USER", <<"username", "">>),
    GetRegistrationAfter(1, {}, <<HasEither(<<Msg("ERR_NEEDMOREPARAMS", <<"*", "USER", ANYSTR>>),
                                              Msg("ERR_NEEDMOREPARAMS", <<"foo", "USER", ANYSTR>>)>>)>>)>>)

\* Both tests read the socket themselves, and take what one recv() returns
\* after WHOIS for its answer.
Nonutf8Test(faults, choices, user, realname, refusals, field) == Test(faults \cup {Deaf("USER")}, choices, <<
    AddClient(1), Send(1, "NICK", <<"foo">>), Send(1, "USER", <<user, realname>>),
    ReceiveUntil(1, {"RPL_WELCOME"} \cup refusals, <<ReturnIf(OneOf(refusals))>>),
    Send(1, "WHOIS", <<"foo">>),
    ReceiveUntil(1, {}, <<Has(Msg("RPL_WHOISUSER", field))>>)>>)

testNonutf8Realname == Nonutf8Test({}, {"not UTF-8"}, "username", "not UTF-8", {"ERROR", "FAIL"},
    <<ANYSTR, ANYSTR, "username", ANYSTR, ANYSTR, ANYSTR>>)
testNonutf8Username == Nonutf8Test({Deaf("WHOIS")}, {}, "not UTF-8", "realname", {"ERROR", "ERR_INVALIDUSERNAME"},
    <<ANYSTR, ANYSTR, ANYSTR, ANYSTR, ANYSTR, "realname">>)

-----------------------------------------------------------------------------
(* sasl.py.  What is sent after the mechanism is what it encodes. *)

Authenticate(args) == Send(1, "AUTHENTICATE", args)
Asked == GetRegistration(1, Msg("AUTHENTICATE", <<"+">>))
LoggedIn(account) == GetRegistration(1, Msg("RPL_LOGGEDIN", <<ANYSTR, ANYSTR, account, ANYSTR>>))
FailsWith(cmds, args) == GetRegistration(1, Pattern(ANYSTR, cmds, args))
SaslFailed == FailsWith({"ERR_SASLFAIL"}, <<ANYLIST>>)

Jilles == <<"jilles", "jilles", "sesame">>
RegisterJilles == <<RegisterUser("jilles")>>
RegisterThree == <<RegisterUser("foo"), RegisterUser("jilles"), RegisterUser("bar")>>

\* The list of capabilities has "sasl", with the mechanism if it has a value.
ChecksSasl == <<LS302(1),
    GetCapLs(1, <<HasEither(<<With(AnyMessage, {<<"sasl", "">>}),
                              With(AnyMessage, {<<"sasl", "EXTERNAL,PLAIN,SCRAM-SHA-256">>})>>)>>)>>
Asks(mech) == RequestCapabilities(1, {"sasl"}) \o <<Authenticate(<<mech>>), Asked>>

confirmSuccessfulAuth == <<
    GetRegistrationAfter(1, {}, <<HasEither(<<Cmd("RPL_LOGGEDIN"), Cmd("RPL_SASLSUCCESS")>>),
                                  Else(Has(Cmd("RPL_SASLSUCCESS")))>>),
    GetRegistration(1, OneOf({"RPL_LOGGEDIN", "RPL_SASLSUCCESS"}))>>

SaslChoices == {"values of capabilities", "success comes first"}
SaslFaults == {Deaf("AUTHENTICATE"), Silent("RPL_LOGGEDIN")}
Refusals == {Lenient("AUTHENTICATE")}

testRegistration == Test({}, {}, <<RegisterWith("testuser", "mypassword")>>)

testPlain == Test(SaslFaults, {"values of capabilities"}, RegisterThree \o <<AddClient(1)>> \o ChecksSasl
    \o Asks("PLAIN") \o <<Authenticate(Jilles), LoggedIn("jilles")>>)
testPlainNoAuthzid == Test(SaslFaults, {"values of capabilities"}, RegisterThree \o <<AddClient(1)>> \o ChecksSasl
    \o Asks("PLAIN") \o <<Authenticate(<<"jilles", "sesame">>), LoggedIn("jilles")>>)
testPlainNonAscii == Test(SaslFaults, {}, <<RegisterWith("foo", "not ASCII"), AddClient(1)>>
    \o Asks("PLAIN") \o <<Authenticate(<<"foo", "foo", "not ASCII">>), LoggedIn("foo")>>)

testMechanismNotAvailable == Test({Lenient("mechanism"), Silent("ERR_SASLFAIL")}, {"RPL_SASLMECHS"},
    RegisterJilles \o <<AddClient(1)>> \o ChecksSasl \o RequestCapabilities(1, {"sasl"}) \o <<
    Authenticate(<<"FOO">>), GetRegistrationAfter(1, {"RPL_SASLMECHS"}, <<Has(Cmd("ERR_SASLFAIL"))>>)>>)

\* Credentials that take several lines.
SplitTest(faults, account, password, lines) == Test(SaslFaults \cup faults, SaslChoices,
    <<RegisterWith(account, password), AddClient(1)>> \o ChecksSasl \o Asks("PLAIN")
    \o lines \o confirmSuccessfulAuth)

testPlainLarge == SplitTest({<<"wrong", "chunks">>}, "foo", "bar * 100", <<
    Authenticate(<<"400 bytes", "foo", "foo">>), Authenticate(<<"bar * 100">>)>>)
testPlainLarge800 == SplitTest({<<"wrong", "chunks">>}, "foo", "x * 592", <<
    Authenticate(<<"400 bytes", "foo", "foo">>), Authenticate(<<"400 bytes", "x * 592">>), Authenticate(<<"+">>)>>)
testPlainLargeEquals400 == SplitTest({}, "foo", "bar * 97", <<
    Authenticate(<<"400 bytes", "foo", "foo", "bar * 97">>), Authenticate(<<"+">>)>>)

\* A test of what PLAIN refuses: credentials, and the answers that are right.
RefusalTest(choices, given, answer) == Test(Refusals, choices,
    RegisterJilles \o <<AddClient(1)>> \o Asks("PLAIN") \o <<Authenticate(given), answer>>)

testPlainFailure == RefusalTest({}, <<"jilles", "jilles", "millet">>,
    FailsWith({"ERR_SASLFAIL"}, <<ANYSTR, ANYSTR>>))
testSaslTooLong == RefusalTest({"ERR_SASLTOOLONG"}, <<"500 bytes">>,
    FailsWith({"ERR_SASLTOOLONG", "ERR_INPUTTOOLONG"}, <<"*", ANYSTR>>))
testAbort == RefusalTest({"ERR_SASLABORTED"}, <<"*">>,
    FailsWith({"ERR_SASLABORTED", "ERR_SASLFAIL"}, <<"*", ANYSTR>>))
testInvalidBase64 == RefusalTest({}, <<"!!!">>, SaslFailed)
testEmptyAuthcid == RefusalTest({}, <<"", "", "sesame">>, SaslFailed)
testEmptyPassword == RefusalTest({}, <<"", "jilles", "">>, SaslFailed)
testDifferentAuthzid == Test({Deaf("AUTHENTICATE")}, {"acts as others"},
    RegisterJilles \o <<RegisterWith("other", "password"), AddClient(1)>> \o Asks("PLAIN") \o <<
    Authenticate(<<"other", "jilles", "sesame">>), FailsWith({"ERR_SASLFAIL", "RPL_LOGGEDIN"}, <<"*", ANYLIST>>)>>)

NumChunks == 3    \* bound: the 1000 lines of the test

testPlainInfiniteMessages(choices) == Test({}, choices,
    <<RegisterUser("foo"), AddClient(1)>> \o ChecksSasl \o Asks("PLAIN")
    \o <<Authenticate(<<"400 bytes", "foo", "foo">>)>>
    \o [i \in 1..NumChunks |-> Authenticate(<<"400 bytes", "x", "x">>)]
    \o <<GetRegistrationThen(1, <<Has(Cmd("ERR_SASLFAIL"))>>, 0)>>)

\* SCRAM-SHA-256: a name, a proof of the password, and the server's own.
ScramTest(faults, password, steps) == Test(faults, SaslChoices,
    <<RegisterUser("Scramtest"), AddClient(1)>> \o ChecksSasl \o Asks("SCRAM-SHA-256") \o <<
    Authenticate(<<"Scramtest">>), GetRegistration(1, Cmd("AUTHENTICATE")), Authenticate(<<password>>)>> \o steps)

testScramSha256Success == ScramTest(SaslFaults \cup {<<"wrong", "signature">>}, "sesame",
    <<GetRegistration(1, Msg("AUTHENTICATE", <<"signature">>)), Authenticate(<<"+">>)>> \o confirmSuccessfulAuth)
testScramSha256Failure == ScramTest(Refusals, "millet", <<SaslFailed>>)

testAuthenticateWithoutCapReq == Test({Silent("RPL_WELCOME")}, {"SASL without CAP", "registers later", "PING cookie"},
    RegisterJilles \o <<AddClient(1), LS302(1), CapLs(1), Authenticate(<<"PLAIN">>)>> \o NickUser(1, "foo")
    \o <<CapEnd(1), SkipToWelcome(1)>>)

\* `for _ in range(3)`, until ERR_SASLFAIL; each RPL_SASLMECHS is judged as it comes.
\* That there is only one, which the test asserts afterwards, is left out: no server
\* of the model sends two.
testSaslMechsContent == Test({Deaf("AUTHENTICATE")}, {"RPL_SASLMECHS"},
    RegisterJilles \o <<AddClient(1)>> \o RequestCapabilities(1, {"sasl"}) \o <<
    Authenticate(<<"UNSUPPORTED_MECH">>),
    GetRegistrationAfter(1, {}, <<Each({"RPL_SASLMECHS"}, Msg("RPL_SASLMECHS", <<"*", ANYSTR, ANYSTR>>)),
                                  ReturnIf(Cmd("ERR_SASLFAIL"))>>),
    GetRegistrationAfter(1, {}, <<ReturnIf(Cmd("ERR_SASLFAIL"))>>),
    GetRegistrationAfter(1, {}, <<>>)>>)

testNickUserDuringSasl == Test(SaslFaults, {"values of capabilities"},
    RegisterJilles \o <<AddClient(1)>> \o ChecksSasl \o Asks("PLAIN") \o NickUser(1, "foo") \o <<
    Authenticate(Jilles), LoggedIn("jilles")>>)
testRegistrationDuringSasl(choices) == Test({Deaf("CAP")}, choices,
    RegisterJilles \o <<AddClient(1), LS302(1), CapLs(1)>> \o Asks("PLAIN") \o NickUser(1, "reguser") \o <<
    CapEnd(1), GetAll(1, <<HasEither(<<Cmd("ERR_SASLABORTED"), Welcome>>)>>)>>)

\* A failure, then another try.
RetryTest(given) == Test(SaslFaults \cup Refusals, SaslChoices,
    RegisterJilles \o <<AddClient(1)>> \o Asks("PLAIN") \o <<
    Authenticate(given), FailsWith({"ERR_SASLFAIL"}, <<"*", ANYSTR>>), Authenticate(<<"PLAIN">>), Asked,
    Authenticate(Jilles)>> \o confirmSuccessfulAuth)

testRetryAfterInvalidBase64 == RetryTest(<<"!!!">>)
testRetryAfterFail == RetryTest(<<"jilles", "jilles", "millet">>)

\* After registration: servers may refuse it, and may refuse a second time.
AuthenticatesAgain(refusals, credentials) == <<
    Authenticate(<<"PLAIN">>),
    GetOne(1, [i \in DOMAIN refusals |-> Unsupported(Cmd(refusals[i]))] \o <<Has(Msg("AUTHENTICATE", <<"+">>))>>),
    Authenticate(credentials)>> \o confirmSuccessfulAuth

testPlainPostRegistration == Test(SaslFaults, {"no SASL later"} \cup SaslChoices,
    RegisterJilles \o <<ConnectWith(1, "foo", {"sasl"})>> \o AuthenticatesAgain(<<"ERR_ALREADYREGISTERED">>, Jilles))
testPlainPostRegistrationAndReAuthenticate == Test(SaslFaults, {"no SASL later", "no SASL twice"} \cup SaslChoices,
    RegisterJilles \o <<RegisterWith("foo", "bar"), ConnectWith(1, "user", {"sasl"})>>
    \o AuthenticatesAgain(<<"ERR_ALREADYREGISTERED">>, <<"foo", "foo", "bar">>)
    \o AuthenticatesAgain(<<"ERR_SASLALREADY">>, Jilles))
testPlainReAuthenticate == Test(SaslFaults, {"no SASL later", "no SASL twice"} \cup SaslChoices,
    RegisterJilles \o <<RegisterWith("foo", "bar"), Login(1, "user", {"sasl"}, "foo")>>
    \o AuthenticatesAgain(<<"ERR_ALREADYREGISTERED", "ERR_SASLALREADY">>, Jilles))

-----------------------------------------------------------------------------

SessionTestList == <<
    testInvalidCapSubcommand, testNoReq, testReqOne, testReqTwo, testReqOneThenOne, testReqPostRegistration,
    testReqUnavailable, testNakExactString, testNakWhole, testCapRemovalByClient, testIrc301CapLs,
    testEmptyCapList, testNoMultiline301Response, testPassBeforeNickuser, testNoPassword, testWrongPassword,
    testPassAfterNickuser, testConnectionRegistration, testQuitDisconnects, testQuitErrors, testNickCollision,
    testEarlyNickCollision, testEmptyRealname, testNonutf8Realname, testNonutf8Username, testRegistration,
    testPlain, testPlainNoAuthzid, testPlainNonAscii, testMechanismNotAvailable, testPlainLarge,
    testPlainLarge800, testPlainLargeEquals400, testPlainFailure, testSaslTooLong, testAbort,
    testInvalidBase64, testEmptyAuthcid, testEmptyPassword, testDifferentAuthzid,
    testPlainInfiniteMessages({"closes silently"}), testScramSha256Success, testScramSha256Failure,
    testAuthenticateWithoutCapReq, testSaslMechsContent, testNickUserDuringSasl,
    testRegistrationDuringSasl({}), testRetryAfterInvalidBase64, testRetryAfterFail,
    testPlainPostRegistration, testPlainPostRegistrationAndReAuthenticate, testPlainReAuthenticate>>

=============================================================================
