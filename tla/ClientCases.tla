------------------------------ MODULE ClientCases ------------------------------
(***************************************************************************)
(* A client test: the test is the server.  BaseClientTestCase              *)
(* (irctest/cases.py) listens on a socket, has its controller start a      *)
(* client, accepts the connections of this client and talks with it.       *)
(*                                                                         *)
(* The client is external: a process that connects when it likes, may      *)
(* exit by itself, has habits, and perhaps a fault.  A connection stays in *)
(* the backlog of its socket until the test accepts it, be the client that *)
(* opened it alive or not.                                                 *)
(***************************************************************************)
EXTENDS ClientScripts, FiniteSets

CONSTANTS MaxConnections,   \* bound: connections the client opens
          MaxClientCrashes  \* bound: clients that exit by themselves

ASSUME ClientCasesAssumption == MaxConnections \in Nat /\ MaxClientCrashes \in Nat

VARIABLES clientTest,    \* the running test; 0 if it is not a client test
          script,        \* what it has left to do
          outcome,       \* "running", "passed" or "failed"
          ended,         \* tearDown(): "no", "done" or "raised"
          proc,          \* the process of self.controller
          config,        \* what run() was given
          sut,           \* the client under test
          opened,        \* the number of connections there were
          link,          \* the state of each
          backlog,       \* the connections a listening socket holds
          conn, hasFile, \* self.conn; self.conn_file exists
          toTest, toClient,  \* lines on their way
          acked,         \* self.acked_capabilities
          clientCrashes  \* counter

testSide == <<clientTest, script, outcome, ended, conn, hasFile, acked>>
clientSide == <<sut, opened, link, backlog>>
process == <<proc, config, clientCrashes>>
lines == <<toTest, toClient>>
caseVars == <<testSide, clientSide, process, lines>>

Sockets == {"server", "insecure"}
Connection == 1..MaxConnections

TypeOKClientCases ==
    /\ clientTest \in 0..Len(ClientTests)
    /\ outcome \in {"running", "passed", "failed"} /\ ended \in {"no", "done", "raised"}
    /\ proc \in {"none", "running", "exited"}
    /\ opened \in 0..MaxConnections /\ conn \in 0..opened /\ hasFile \in BOOLEAN
    /\ sut.conn \in 0..opened
    /\ \A n \in Connection : link[n].state \in {"open", "closed"}
    /\ \A sock \in Sockets : \A i \in DOMAIN backlog[sock] : backlog[sock][i] \in 1..opened
    /\ acked \subseteq {"sasl"}    \* what tests offer, besides sts
    /\ clientCrashes \in 0..MaxClientCrashes

NothingOpen ==
    /\ proc = "none" /\ config = NotRun
    /\ opened = 0 /\ link = [n \in Connection |-> [state |-> "closed", tls |-> "plain"]]
    /\ backlog = [sock \in Sockets |-> <<>>]
    /\ conn = 0 /\ hasFile = FALSE
    /\ toTest = [n \in Connection |-> <<>>] /\ toClient = [n \in Connection |-> <<>>]
    /\ acked = {} /\ clientCrashes = 0

InitClientCases ==
    /\ NothingOpen
    /\ clientTest \in DOMAIN ClientTests /\ outcome = "running" /\ ended = "no"
    /\ \E t \in {ClientTests[clientTest]} :
          /\ script = t.steps
          /\ \E fault \in {"none"} \cup t.faults, habits \in t.habits :
                sut = [fault |-> fault, habits |-> habits, payload |-> t.payload,
                       policy |-> "none", offered |-> {}, conn |-> 0]

\* Another test.
NoClientCase ==
    /\ NothingOpen
    /\ clientTest = 0 /\ outcome = "passed" /\ ended = "done" /\ script = <<>>
    /\ sut = [fault |-> "none", habits |-> SomeHabits, payload |-> <<>>,
              policy |-> "none", offered |-> {}, conn |-> 0]

-----------------------------------------------------------------------------
(* The test.  A step goes on with the next one, returns from the test, or  *)
(* raises, which is a failure unless the step is under an assertRaises().  *)

Step == Head(script)
At(do) == outcome = "running" /\ Step.do = do
Alive == proc = "running"

Ends(how) == script' = <<>> /\ outcome' = how

Goes == IF Tail(script) = <<>> THEN Ends("passed") ELSE script' = Tail(script) /\ UNCHANGED outcome

\* Faulty variant: what need not raise is not looked at.
Lenient == Goes

Succeeds == IF Step.raises THEN Ends("failed") ELSE Goes
Raises == IF Step.raises THEN Goes ELSE Ends("failed")

Judges(passes, returns) ==
    IF returns THEN Ends("passed") ELSE IF passes THEN Succeeds ELSE Ends("failed")

\* controller.run(): asserts that no process is there.  The files of the
\* client, and so the policies it keeps, are those of a former run().
RunsClient ==
    /\ At("run")
    /\ IF proc = "none"
       THEN /\ Goes
            /\ proc' = "running" /\ config' = Step.config
            /\ sut' = [sut EXCEPT !.policy = IF @ = "kept" /\ sut.fault # "forgets" THEN @ ELSE "none",
                                  !.conn = 0]
       ELSE Ends("failed") /\ UNCHANGED <<proc, config, sut>>
    /\ UNCHANGED <<clientTest, ended, conn, hasFile, acked, opened, link, backlog, clientCrashes, lines>>

\* controller.terminate()
TerminatesClient ==
    /\ At("terminate") /\ Goes
    /\ proc' = "none"
    /\ link' = IF sut.conn = 0 THEN link ELSE [link EXCEPT ![sut.conn].state = "closed"]
    /\ sut' = [sut EXCEPT !.conn = 0]
    /\ UNCHANGED <<clientTest, ended, conn, hasFile, acked, opened, backlog, config, clientCrashes, lines>>

\* acceptClient(): with a certificate, the handshake comes next and
\* conn_file is made after it.
Accepts ==
    /\ At("accept") /\ backlog[Step.sock] # <<>>
    /\ conn' = Head(backlog[Step.sock])
    /\ backlog' = [backlog EXCEPT ![Step.sock] = Tail(@)]
    /\ IF Step.cert = ""
       THEN Goes /\ hasFile' = TRUE
       ELSE script' = <<[Step EXCEPT !.do = "handshake"]>> \o Tail(script) /\ UNCHANGED <<outcome, hasFile>>
    /\ UNCHANGED <<clientTest, ended, acked, sut, opened, link, process, lines>>

\* Faulty variant: nobody looks whether the client is alive.
NeverChecked(sock) == FALSE

\* Only self.server has a timeout, after which check_is_alive() is called.
Checked(sock) == sock = "server"

AcceptTimesOut ==
    /\ At("accept") /\ backlog[Step.sock] = <<>>
    /\ Checked(Step.sock) /\ ~Alive
    /\ Ends("failed")
    /\ UNCHANGED <<clientTest, ended, conn, hasFile, acked, clientSide, process, lines>>

\* wrap_socket() is the test's half of a handshake; it raises for a client
\* that is gone, talks in clear, or refuses the certificate.
HandshakeEnds ==
    /\ At("handshake")
    /\ \/ /\ link[conn].tls = "shaken"
          /\ Succeeds /\ hasFile' = TRUE
       \/ /\ \/ link[conn].tls \in {"plain", "refused"}
             \/ link[conn].tls = "hello" /\ link[conn].state = "closed"
          /\ Raises /\ UNCHANGED hasFile
    /\ UNCHANGED <<clientTest, ended, conn, acked, clientSide, process, lines>>

Sends(line) == toClient' = [toClient EXCEPT ![conn] = Append(@, line)]

\* sendLine(); on a connection that is closed it may raise.
Writes ==
    /\ At("write")
    /\ \/ Goes /\ Sends(Step.line)
       \/ link[conn].state = "closed" /\ Ends("failed") /\ UNCHANGED toClient
    /\ UNCHANGED <<clientTest, ended, conn, hasFile, acked, clientSide, process, toTest>>

\* getLine() returns a line, or "" at the end of the connection.
Received == IF toTest[conn] # <<>> THEN Head(toTest[conn]) ELSE Line("", "", <<>>)
Reading == toTest' = [toTest EXCEPT ![conn] = Tail(@)]

ReadMeetsEnd ==
    /\ At("read") \/ At("negotiate")
    /\ toTest[conn] = <<>> /\ link[conn].state = "closed"
    /\ Raises
    /\ UNCHANGED <<clientTest, ended, conn, hasFile, acked, clientSide, process, lines>>

MatchesAny(m, patterns) == \E p \in patterns : MessageMatches(m, p)

\* getMessage() and what the test asserts of its result.
ReadsMessage ==
    /\ At("read") /\ toTest[conn] # <<>> /\ Reading
    /\ IF Step.pings /\ Received.cmd = "PING"
       THEN Sends(Line("server", "PONG", Received.args)) /\ UNCHANGED <<script, outcome>>
       ELSE /\ Judges(MatchesAny(Received, Step.passes) /\ ~MatchesAny(Received, Step.fails), FALSE)
            /\ UNCHANGED toClient
    /\ UNCHANGED <<clientTest, ended, conn, hasFile, acked, clientSide, process>>

\* negotiateCapabilities() forgets what an earlier call acknowledged.
BeginsNegotiation ==
    /\ At("begin") /\ Goes
    /\ acked' = {}
    /\ UNCHANGED <<clientTest, ended, conn, hasFile, clientSide, process, lines>>

NamesIn(items) == {i[1] : i \in items}

\* Faulty variant: userNickPredicate() lets USER through.
OnlyNick(m) == m.cmd = "NICK"

\* not userNickPredicate(): NICK and USER are handled transparently.
Transparent(m) == m.cmd \in {"NICK", "USER"}

\* requested.issubset(capability_names)
Grants(requested, offered) == requested \subseteq offered

\* cap_list_to_dict(): "sasl=EXTERNAL" offers sasl.
Negotiates ==
    /\ At("negotiate") /\ toTest[conn] # <<>> /\ Reading
    /\ LET requested == NamesIn(Received.items)
           isRequest == Received.cmd = "CAP" /\ Received.args[1] = "REQ"
           granted == Grants(requested, NamesIn(Step.caps))
       IN  \/ /\ Transparent(Received)
              /\ UNCHANGED <<script, outcome, acked, toClient>>
           \/ /\ isRequest
              /\ acked' = IF granted THEN acked \cup requested ELSE acked
              /\ Sends(Line("server", "CAP", IF granted THEN <<"ACK">> ELSE <<"NAK">>))
              /\ UNCHANGED <<script, outcome>>
           \/ /\ ~Transparent(Received) /\ ~isRequest
              /\ LET whatIsAcked == Step.acked \subseteq acked
                 IN  Judges(whatIsAcked /\ MatchesAny(Received, Step.passes),
                            whatIsAcked /\ MatchesAny(Received, Step.returns))
              /\ UNCHANGED <<acked, toClient>>
    /\ UNCHANGED <<clientTest, ended, conn, hasFile, clientSide, process>>

\* tearDown(), after any outcome: kill(), then conn_file.close(), which a
\* connection that was never wrapped does not have.
TearDown ==
    /\ outcome # "running" /\ ended = "no"
    /\ proc' = "none"
    /\ ended' = IF conn # 0 /\ ~hasFile THEN "raised" ELSE "done"
    /\ UNCHANGED <<clientTest, script, outcome, conn, hasFile, acked, config, clientCrashes, clientSide, lines>>

TestMoves ==
    \/ RunsClient \/ TerminatesClient \/ Accepts \/ AcceptTimesOut \/ HandshakeEnds
    \/ Writes \/ ReadsMessage \/ ReadMeetsEnd \/ BeginsNegotiation \/ Negotiates \/ TearDown

-----------------------------------------------------------------------------
(* The client *)

Habit(name) == sut.habits[name]
Fault(name) == sut.fault = name
NickUser == <<Line("", "NICK", <<"foo">>), Line("", "USER", <<"foo", "0", "*", "foo">>)>>
Naming(when) == IF Habit("names") = when THEN NickUser ELSE <<>>

CapLs == Line("", "CAP", IF Habit("version") = "302" THEN <<"LS", "302">> ELSE <<"LS">>)
Hello ==
    IF Fault("no CAP LS") THEN <<Line("", "CAP", <<"END">>)>> \o NickUser
    ELSE IF Fault("names first") THEN NickUser \o <<CapLs>>
    ELSE <<CapLs>> \o Naming("early")

\* An STS policy sends it to the secure port, whatever its configuration says.
HasPolicy == sut.policy \in {"session", "kept"}
Secure == HasPolicy \/ config.tls
Target == IF HasPolicy THEN "server" ELSE config.sock

ClientConnects ==
    /\ outcome = "running" /\ Alive /\ sut.conn = 0 /\ opened < MaxConnections
    /\ sut.policy # "elsewhere"
    /\ opened' = opened + 1
    /\ backlog' = [backlog EXCEPT ![Target] = Append(@, opened')]
    /\ link' = [link EXCEPT ![opened'] = [state |-> "open", tls |-> IF Secure THEN "hello" ELSE "plain"]]
    /\ sut' = [sut EXCEPT !.conn = opened', !.offered = {}]
    /\ toTest' = [toTest EXCEPT ![opened'] = IF Secure THEN <<>> ELSE Hello]
    /\ UNCHANGED <<testSide, process, toClient>>

Trusts(cert) ==
    \/ Fault("trusts all")
    \/ cert = "good" /\ config.trusted /\ ~Fault("trusts none")

\* Some clients check a certificate during the handshake, some after it.
ClientShakes ==
    /\ At("handshake") /\ conn = sut.conn /\ link[conn].tls = "hello"
    /\ IF Trusts(Step.cert)
       THEN /\ link' = [link EXCEPT ![conn].tls = "shaken"]
            /\ toTest' = [toTest EXCEPT ![conn] = Hello]
            /\ UNCHANGED sut
       ELSE /\ link' = [link EXCEPT ![conn] =
                          [state |-> "closed",
                           tls |-> IF Habit("validates") = "handshake" THEN "refused" ELSE "shaken"]]
            /\ sut' = [sut EXCEPT !.conn = 0]
            /\ UNCHANGED toTest
    /\ UNCHANGED <<testSide, process, opened, backlog, toClient>>

ClientCrashes ==
    /\ outcome = "running" /\ Alive /\ clientCrashes < MaxClientCrashes
    /\ clientCrashes' = clientCrashes + 1
    /\ proc' = "exited"
    /\ link' = IF sut.conn = 0 THEN link ELSE [link EXCEPT ![sut.conn].state = "closed"]
    /\ sut' = [sut EXCEPT !.conn = 0]
    /\ UNCHANGED <<testSide, config, opened, backlog, lines>>

\* What the client does with a line: the lines it sends, the STS policy it
\* has then, and whether it stays.
Does(out) == [out |-> out, policy |-> sut.policy, stays |-> TRUE]
Authenticate(arg) == Line("", "AUTHENTICATE", <<arg>>)
EndsNegotiation ==
    Does(IF Fault("never ends") THEN <<>> ELSE <<Line("", "CAP", <<"END">>)>> \o Naming("end"))
Requests(caps) == Listing(Line("", "CAP", <<"REQ">>), {<<c, "">> : c \in caps})

Offers(l, cap) == cap \in NamesIn(l.items)

HandlesLs(l) ==
    CASE <<"sts", "port">> \in l.items /\ ~Secure /\ ~Fault("ignores sts") ->
            [Does(<<>>) EXCEPT !.policy = "session", !.stays = FALSE]
      [] Offers(l, "sts") /\ Secure ->
            [EndsNegotiation EXCEPT !.policy =
                IF Fault("takes port") /\ <<"sts", "duration,port">> \in l.items THEN "elsewhere" ELSE "kept"]
      [] Habit("asks") = "more" /\ ~Fault("never asks") ->
            Does(Naming("ls") \o <<Requests({"sasl", "multi-prefix"})>>)
      [] Habit("asks") = "offered" /\ Offers(l, "sasl") /\ ~Fault("never asks") ->
            Does(Naming("ls") \o <<Requests({"sasl"})>>)
      [] OTHER -> [EndsNegotiation EXCEPT !.out = Naming("ls") \o @]

\* One that knows that its mechanism is not there may give up.
HandlesAck ==
    LET hopeless == <<"sasl", "EXTERNAL">> \in sut.offered
        tries == ~hopeless \/ Habit("hopeless") = "tries" \/ Fault("insists")
    IN  CASE tries -> Does(<<Authenticate(config.auth)>>)
          [] ~tries /\ Habit("hopeless") = "ends" -> EndsNegotiation
          [] ~tries /\ Habit("hopeless") = "quits" ->
                [Does(<<Line("", "QUIT", <<>>)>>) EXCEPT !.stays = FALSE]

\* A list with one that is not offered is refused as a whole.
HandlesNak ==
    IF "sasl" \in NamesIn(sut.offered) THEN Does(<<Requests({"sasl"})>>) ELSE EndsNegotiation

\* A payload takes lines of 400 bytes, and one that says that no other follows.
Payload ==
    LET last == Len(sut.payload)
    IN  CASE Fault("one line") -> <<"all of it">>
          [] Fault("no last line") -> SubSeq(sut.payload, 1, last - 1)
          [] Fault("wrong password") -> [sut.payload EXCEPT ![1] = "wrong"]
          [] OTHER -> sut.payload

Signature == Authenticate(IF Fault("wrong key") THEN "signed by another key" ELSE "signed by ECDSA_KEY")
Proof ==
    LET password == IF Fault("wrong proof") THEN "wrong" ELSE IF Fault("guesses") THEN "notsesame" ELSE "sesame"
    IN  Line("", "AUTHENTICATE", <<"client final", password>>)
Pings == IF Habit("pings") THEN <<Line("", "PING", <<"cookie">>)>> ELSE <<>>

\* A success that the server cannot prove is refused.
HandlesChallenge(arg) ==
    CASE arg = "+" -> Does([i \in DOMAIN Payload |-> Authenticate(Payload[i])])
      [] arg = "challenge" -> Does(<<Signature>>)
      [] arg = "server first" -> Does(<<Proof>>)
      [] arg = "server final" -> Does(<<Authenticate(IF Fault("aborts") THEN "*" ELSE "+")>>)
      [] OTHER -> Does(Pings \o <<Authenticate(IF Fault("believes") THEN "+" ELSE "*")>>)

Reaction(l) ==
    CASE l.cmd = "CAP" /\ l.args[1] = "LS" -> HandlesLs(l)
      [] l.cmd = "CAP" /\ l.args[1] = "ACK" -> HandlesAck
      [] l.cmd = "CAP" /\ l.args[1] = "NAK" -> HandlesNak
      [] l.cmd = "AUTHENTICATE" -> HandlesChallenge(l.args[1])
      [] l.cmd = "903" -> EndsNegotiation
      [] l.cmd = "904" -> IF Fault("insists") THEN Does(<<Authenticate(config.auth)>>) ELSE EndsNegotiation
      [] l.cmd = "ERROR" -> [Does(<<>>) EXCEPT !.stays = FALSE]
      [] OTHER -> Does(<<>>)

ClientHandles ==
    /\ outcome = "running"
    /\ sut.conn # 0 /\ toClient[sut.conn] # <<>>
    /\ \E l \in {Head(toClient[sut.conn])} : \E r \in {Reaction(l)} :
          /\ toTest' = [toTest EXCEPT ![sut.conn] = @ \o r.out]
          /\ link' = IF r.stays THEN link ELSE [link EXCEPT ![sut.conn].state = "closed"]
          /\ sut' = [sut EXCEPT !.offered = IF l.items # {} THEN l.items ELSE @,
                                !.policy = r.policy, !.conn = IF r.stays THEN @ ELSE 0]
    /\ toClient' = [toClient EXCEPT ![sut.conn] = Tail(@)]
    /\ UNCHANGED <<testSide, process, opened, backlog>>

ClientMoves == ClientConnects \/ ClientShakes \/ ClientHandles

NextClientCases == TestMoves \/ ClientMoves \/ ClientCrashes

\* The client tests by themselves.
SpecClientCases == InitClientCases /\ [][NextClientCases]_caseVars

-----------------------------------------------------------------------------
(* Properties *)

\* A client that does what the specifications ask, whatever its habits (but for
\* the validation of certificates, which the two TLS tests each fix) and however
\* its lines and the test's cross, passes every test, and tearDown() then closes
\* all the test had opened.  One that exits by itself may fail.
ConformingClientPasses ==
    Fault("none") /\ clientCrashes = 0 => outcome # "failed" /\ ended # "raised"

\* A client with a fault that a test is about never passes it; perhaps the
\* test waits for ever.
FaultyClientIsNoticed ==
    ~Fault("none") /\ clientCrashes = 0 => outcome # "passed"

\* A test that passes is torn down without an error, whatever the client does:
\* a handshake that fails under an assertRaises() is not the first of its test.
PassedIsTornDown == outcome = "passed" => ended # "raised"

\* Waits that have no limit: for a line of a client with a fault, for its
\* connection, and for any client on the socket that has no timeout.
MayWaitForEver ==
    \/ ~Fault("none") /\ Alive
    \/ At("accept") /\ ~Alive /\ Step.sock = "insecure"

\* A test ends, and is torn down, also when the client exits by itself:
\* acceptClient() notices that it did, and getMessage() meets the end of the
\* connection.
ClientTestEnds == ended = "no" ~> (ended # "no" \/ MayWaitForEver)

=============================================================================
