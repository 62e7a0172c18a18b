----------------------------- MODULE ClientScripts -----------------------------
(***************************************************************************)
(* The client tests (irctest/client_tests/): each is the sequence of the   *)
(* steps it takes as a server, with the habits that clients are free to    *)
(* have and the faults it is there to notice.                              *)
(*                                                                         *)
(* Base64, signatures and SCRAM messages are values that say what they     *)
(* prove: a client final message carries the password it was made with.    *)
(***************************************************************************)
EXTENDS IrcMessages

NotRun == [sock |-> "server", tls |-> FALSE, trusted |-> FALSE, auth |-> ""]

\* `passes` and `fails` are patterns of messages that are and are not what
\* the test expects, `returns` those that end it; `raises` is set under an
\* assertRaises().
NoStep == [do |-> "", sock |-> "server", cert |-> "", config |-> NotRun,
           line |-> Line("", "", <<>>), caps |-> {}, acked |-> {}, passes |-> {},
           fails |-> {}, returns |-> {}, pings |-> FALSE, raises |-> FALSE]

\* controller.run(); `sock` is the socket of the test with that port.
Run(sock, tls, trusted, auth) ==
    <<[NoStep EXCEPT !.do = "run",
         !.config = [sock |-> sock, tls |-> tls, trusted |-> trusted, auth |-> auth]]>>

Accept(sock) == [NoStep EXCEPT !.do = "accept", !.sock = sock]
AcceptTls(cert) == <<[Accept("server") EXCEPT !.cert = cert]>>
Terminate == <<[NoStep EXCEPT !.do = "terminate"]>>
Write(line) == <<[NoStep EXCEPT !.do = "write", !.line = line]>>
Auth(arg) == Write(Line("", "AUTHENTICATE", <<arg>>))

Read(pattern) == [NoStep EXCEPT !.do = "read", !.passes = {pattern}]
Reads(pattern) == <<Read(pattern)>>
Raising(step) == [step EXCEPT !.raises = TRUE]

\* readCapLs()
ReadCapLs(auth, first) ==
    Run("server", FALSE, FALSE, auth) \o
    <<Accept("server"), [NoStep EXCEPT !.do = "read", !.passes = first]>>

HasCapLs == {Msg("CAP", <<"LS">>), Msg("CAP", <<"LS", "302">>)}

\* negotiateCapabilities(): the loop, and what is done with what it returns.
Loop(caps) == <<[NoStep EXCEPT !.do = "begin"], [NoStep EXCEPT !.do = "negotiate", !.caps = caps]>>
LoopUntil(caps, pattern) == [Loop(caps) EXCEPT ![2].passes = {pattern}]
Negotiate(auth, caps, pattern) ==
    ReadCapLs(auth, HasCapLs) \o Write(Listing(Line("", "CAP", <<"LS">>), caps))
    \o LoopUntil(caps, pattern)

Sasl == {<<"sasl", "">>}
SaslExternal == {<<"sasl", "EXTERNAL">>}
CapEnd == Msg("CAP", <<"END">>)
IsAuth(arg) == Msg("AUTHENTICATE", <<arg>>)

Authenticates(mechanism) ==
    Negotiate(mechanism, Sasl, IsAuth(mechanism)) \o Auth("+")

\* 900, 903, and the end of the negotiation.
LoggedIn ==
    Write(Line("", "900", <<>>)) \o Write(Line("", "903", <<>>)) \o LoopUntil(Sasl, CapEnd)

-----------------------------------------------------------------------------
(* Habits and faults *)

SomeHabits == [names |-> "early", version |-> "302", validates |-> "afterwards",
               asks |-> "offered", hopeless |-> "tries", pings |-> FALSE]

\* When the client sends NICK and USER.
NamedAnyTime == {[SomeHabits EXCEPT !.names = n] : n \in {"early", "ls", "end"}}

\* What it asks for, and which version of the capability negotiation it has.
AnyNegotiation ==
    {[h EXCEPT !.asks = a, !.version = v] :
        h \in NamedAnyTime, a \in {"offered", "more"}, v \in {"301", "302"}}

\* What it does when its mechanism is not offered, and whether it sends PINGs.
Hopeless(ways) == {[h EXCEPT !.hopeless = x] : h \in AnyNegotiation, x \in ways}
PingingOrNot == {[h EXCEPT !.pings = p] : h \in NamedAnyTime, p \in BOOLEAN}

Test(steps, payload, habits, faults) ==
    [steps |-> steps, payload |-> payload, habits |-> habits, faults |-> faults]

Exchanges(steps, payload, faults) == Test(steps, payload, NamedAnyTime, faults)

-----------------------------------------------------------------------------
(* client_tests/cap.py *)

testSendCap ==
    Test(ReadCapLs("", HasCapLs \cup {CapEnd}), <<>>, AnyNegotiation, {"names first"})

testEmptyCapLs ==
    Test(Negotiate("", {}, CapEnd), <<>>, AnyNegotiation, {"no CAP LS", "never ends"})

-----------------------------------------------------------------------------
(* client_tests/sasl.py *)

testPlain ==
    Test(Authenticates("PLAIN") \o Reads(IsAuth("jilles sesame")) \o LoggedIn,
         <<"jilles sesame">>, AnyNegotiation, {"wrong password", "never ends", "names first"})

\* The client asks for sasl, then gives up, or tries and meets 904.
testPlainNotAvailable ==
    Test([Negotiate("PLAIN", SaslExternal, IsAuth("PLAIN")) EXCEPT
             ![6].acked = {"sasl"}, ![6].returns = {CapEnd, Cmd("QUIT")}]
         \o Write(Line("", "904", <<>>)) \o Reads(Cmd("CAP")),
         <<"jilles sesame">>,
         Hopeless({"tries", "ends", "quits"}),
         {"insists", "never asks"})

testPlainLarge ==
    Exchanges(Authenticates("PLAIN")
              \o Reads(IsAuth("bytes 1-400")) \o Reads(IsAuth("bytes 401-800")) \o Reads(IsAuth("the rest"))
              \o LoggedIn,
              <<"bytes 1-400", "bytes 401-800", "the rest">>, {"one line", "wrong password"})

\* The payload is two lines of 400 bytes: a third one says that it ends.
testPlainLargeMultiple ==
    Exchanges(Authenticates("PLAIN")
              \o Reads(IsAuth("bytes 1-400")) \o Reads(IsAuth("bytes 401-800")) \o Reads(IsAuth("+"))
              \o LoggedIn,
              <<"bytes 1-400", "bytes 401-800", "+">>, {"one line", "no last line"})

testEcdsa ==
    Exchanges(Authenticates("ECDSA-NIST256P-CHALLENGE") \o Reads(IsAuth("jilles"))
              \o Auth("challenge") \o Reads(IsAuth("signed by ECDSA_KEY")) \o LoggedIn,
              <<"jilles">>, {"wrong key"})

\* Up to SCRAMServerAuthenticator.start().
ScramStarts == Authenticates("SCRAM-SHA-256") \o Reads(IsAuth("client first")) \o Auth("server first")

\* response() of an authenticator that knows one password.
Authorized(password) == Msg("AUTHENTICATE", <<"client final", password>>)
NotAuthorized(password) ==
    [Read(Msg("AUTHENTICATE", <<"client final", ANYSTR>>)) EXCEPT !.fails = {Authorized(password)}]

testScram ==
    Exchanges(ScramStarts \o Reads(Authorized("sesame")) \o Auth("server final") \o Reads(IsAuth("+")),
              <<"client first">>, {"wrong proof", "aborts"})

testScramBadPassword ==
    Exchanges(ScramStarts \o <<NotAuthorized("notsesame")>>, <<"client first">>, {"guesses"})

\* The server pretends to know the password.
testScramMaliciousServer ==
    Test(ScramStarts \o <<NotAuthorized("notsesame")>> \o Auth("fake response")
         \o <<[Read(IsAuth("*")) EXCEPT !.pings = TRUE]>>,
         <<"client first">>, PingingOrNot, {"believes"})

\* Irc302SaslTestCase: "the client does not try", which "is optional".
testPlainNotAvailable302 ==
    Test([Negotiate("PLAIN", SaslExternal, CapEnd) EXCEPT
             ![6].acked = {"sasl"}, ![6].passes = {CapEnd, Cmd("QUIT")}],
         <<"jilles sesame">>,
         Hopeless({"ends", "quits"}),
         {"insists", "never asks"})

-----------------------------------------------------------------------------
(* client_tests/tls.py.  BAD_CERT is not among the fingerprints given to   *)
(* the client.                                                             *)

testTrustedCertificate ==
    Test(Run("server", TRUE, TRUE, "") \o AcceptTls("good") \o Reads(Pattern(ANYSTR, {}, <<ANYLIST>>)),
         <<>>, AnyNegotiation, {"trusts none"})

\* A client that refuses a certificate during the handshake fails this test:
\* acceptClient() is not under the assertRaises().
testUntrustedCertificate ==
    Test(Run("server", TRUE, TRUE, "") \o AcceptTls("bad") \o <<Raising(Read(Cmd("CAP")))>>,
         <<>>, AnyNegotiation, {"trusts all"})

\* Up to the STS policy, which readers of the insecure socket get.
StsAnnounced(trusted) ==
    Run("insecure", FALSE, trusted, "") \o <<Accept("insecure")>> \o Reads(Msg("CAP", <<"LS", ANYSTR>>))
    \o Write(Listing(Line("", "CAP", <<"LS">>), {<<"sts", "port">>}))

testSts(policy) ==
    Test(StsAnnounced(TRUE) \o AcceptTls("good")
         \o Write(Listing(Line("", "CAP", <<"LS">>), {<<"sts", policy>>}))
         \o Write(Line("", "ERROR", <<>>)) \o <<Accept("server")>>
         \o Terminate \o Run("insecure", FALSE, TRUE, "") \o <<Accept("server")>>,
         <<>>, NamedAnyTime,
         {"ignores sts", "forgets"} \cup IF policy = "duration,port" THEN {"takes port"} ELSE {})

\* A client that finds the certificate wrong after the handshake fails it.
testStsInvalidCertificate ==
    Test(StsAnnounced(FALSE) \o <<Raising(AcceptTls("good")[1])>>,
         <<>>, {[h EXCEPT !.validates = "handshake"] : h \in NamedAnyTime}, {"trusts all", "ignores sts"})

ClientTests == <<
    testSendCap, testEmptyCapLs, testPlain, testPlainNotAvailable, testPlainLarge,
    testPlainLargeMultiple, testEcdsa, testScram, testScramBadPassword, testScramMaliciousServer,
    testPlainNotAvailable302, testTrustedCertificate, testUntrustedCertificate,
    testSts("duration"), testSts("duration,port"), testStsInvalidCertificate>>

=============================================================================
