----------------------------- MODULE ServerTests -----------------------------
(***************************************************************************)
(* A server test running: the test makes its steps one after the other,    *)
(* and the server handles the lines of its clients in any order that       *)
(* keeps those of each client in order.                                    *)
(*                                                                         *)
(* A synchronized getMessages() sends a PING and returns what comes before *)
(* its PONG: everything sent to the client until some moment after the     *)
(* server has handled all its lines.                                       *)
(***************************************************************************)
EXTENDS IrcServer, TestSteps

CONSTANTS Tests,        \* the tests, a sequence
          WithFaults    \* the server may have a fault the test must notice

VARIABLES test,      \* the running test
          steps,     \* what it has left to do
          verdict,   \* one of Verdicts
          irc,       \* the server
          toServer,  \* lines sent by a client, not handled yet
          toClient,  \* lines sent to a client, not received yet
          inbuffer   \* received by a client, and left there by getMessage()

vars == <<test, steps, verdict, irc, toServer, toClient, inbuffer>>

Verdicts == {"running", "passed", "failed", "skipped", "unsupported"}

\* Tests are sequences of steps, whose branches end within the test, and whose
\* assertions give a verdict or go to the end of the branch.
ASSUME TestsAssumption ==
    \A t \in DOMAIN Tests : \E script \in {Tests[t].steps} :
        /\ t \in Nat /\ script \in Seq(Range(script))
        /\ \A i \in DOMAIN script : \E s \in {script[i]} :
              /\ s.client \in Clients
              /\ s.branch \in 0..(Len(script) - i)
              /\ s.checks \in Seq(Range(s.checks))
              /\ \A check \in Range(s.checks) : check.otherwise \in Verdicts \cup {"else"}

Queues == [c \in Clients |-> <<>>]

Init ==
    /\ \E t \in DOMAIN Tests : \E script \in {Tests[t]} :
          /\ test = t /\ steps = script.steps
          /\ \E fault \in {NoFault} \cup (IF WithFaults THEN script.faults ELSE {}),
                choices \in SUBSET script.choices :
                    irc = NewServer(fault, choices)
    /\ verdict = "running"
    /\ toServer = Queues /\ toClient = Queues /\ inbuffer = Queues

TypeOK ==
    /\ test \in Nat /\ DOMAIN steps = 1..Len(steps)
    /\ verdict \in Verdicts
    /\ \A q \in {toServer, toClient, inbuffer} : DOMAIN q = Clients

-----------------------------------------------------------------------------
(* Assertions *)

Holds(check, ms) ==
    LET of == IF check.of = {} THEN ms ELSE SelectSeq(ms, LAMBDA m : m.cmd \in check.of)
        p == check.pats
        listed(n) == n <= Len(of) /\ \A i \in 1..n : MessageMatches(of[i], p[i])
    IN  CASE check.kind = "has" -> \E i \in DOMAIN of : MessageMatches(of[i], p[1])
          [] check.kind = "either" ->
                \E i \in DOMAIN of, j \in DOMAIN p : MessageMatches(of[i], p[j])
          [] check.kind = "lacks" -> \A i \in DOMAIN of : ~MessageMatches(of[i], p[1])
          [] check.kind = "each" -> \A i \in DOMAIN of : MessageMatches(of[i], p[1])
          [] check.kind = "list" -> Len(of) = Len(p) /\ listed(Len(p))
          [] check.kind = "atMostOne" -> Len(of) <= 1
          [] check.kind = "begins" -> listed(Len(p))
          [] check.kind = "covered" ->
                /\ \A i \in DOMAIN of : \E j \in DOMAIN p : MessageMatches(of[i], p[j])
                /\ \A j \in DOMAIN p : \E i \in DOMAIN of : MessageMatches(of[i], p[j])
          [] check.kind = "together" ->
                /\ \A i \in DOMAIN of : MessageMatches(of[i], [p[1] EXCEPT !.with = {}])
                /\ \A i, j \in DOMAIN of : i # j => of[i].items \cap of[j].items = {}
                /\ UNION {of[i].items : i \in DOMAIN of} = p[1].with
          [] check.kind \in {"unordered", "permutation"} ->
                /\ check.kind = "permutation" => Len(of) = Len(p)
                /\ \E f \in [DOMAIN p -> DOMAIN p] :
                       /\ \A i, j \in DOMAIN p : f[i] = f[j] => i = j
                       /\ \A i \in DOMAIN p : i \in DOMAIN of /\ MessageMatches(of[i], p[f[i]])
          [] check.kind = "besides" ->
                LET others == SelectSeq(ms, LAMBDA m : m.cmd \notin check.of)
                IN  Len(p) <= Len(others) /\ \A i \in DOMAIN p : MessageMatches(others[i], p[i])
          [] check.kind = "implies" ->
                (\E i \in DOMAIN of : MessageMatches(of[i], p[1]))
                => \E i \in DOMAIN of, j \in DOMAIN Tail(p) : MessageMatches(of[i], Tail(p)[j])
          [] check.kind = "inner" ->
                Len(of) >= 2 /\ \A i \in 2..(Len(of) - 1) : MessageMatches(of[i], p[1])
          [] check.kind = "rest" -> \A i \in 2..Len(of) : MessageMatches(of[i], p[1])
          [] check.kind = "ends" -> of # <<>> /\ MessageMatches(Last(of), p[1])

\* The first assertion that does not hold ends the test.
Judged(checks, ms) ==
    LET wrong == {i \in DOMAIN checks : ~Holds(checks[i], ms)}
    IN  IF wrong = {} THEN "running"
        ELSE checks[CHOOSE i \in wrong : \A j \in wrong : i <= j].otherwise

-----------------------------------------------------------------------------
(* Steps of the test *)

CurrentStep == Head(steps)
Running == verdict = "running" /\ steps # <<>>

\* Faulty variant: getMessages() takes what is there.
Unsynchronized(c) == TRUE

\* The server has handled every line of c: its PONG may arrive.
Synchronized(c) == toServer[c] = <<>>

Jumps(outcome, n) ==
    /\ verdict' = outcome
    /\ steps' = IF outcome = "running" THEN SubSeq(steps, n + 1, Len(steps)) ELSE steps
    /\ UNCHANGED test

Goes(outcome) == Jumps(outcome, 1)

\* Faulty variant: what a step branches on becomes a verdict.
NeverBranches(s, outcome) == Goes(outcome)

\* Without what a step branches on, the test goes on after the branch.
Follows(s, outcome) ==
    IF outcome = "else" THEN Jumps("running", 1 + s.branch) ELSE Goes(outcome)

\* Everything c has received, and what a call left of it.
Received(c) == inbuffer[c] \o toClient[c]
Keeps(c, ms) ==
    /\ inbuffer' = [inbuffer EXCEPT ![c] = ms]
    /\ toClient' = [toClient EXCEPT ![c] = <<>>]

Sent(out) == toClient' = [c \in Clients |-> toClient[c] \o out[c]]

\* connectClient(), which never sees a RPL_WELCOME if the nick is in use.
TestConnects(s) ==
    /\ s.do = "connect"
    /\ \E e \in {Registers(NoEffect(irc), s.client, s.nick, s.line.args[1], s.caps, s.account)} :
          irc' = e.irc /\ Sent(e.out)
    /\ Goes(IF HasNick(irc, s.nick) THEN "failed" ELSE "running")
    /\ UNCHANGED <<toServer, inbuffer>>

\* addClient() only opens a connection.
TestAddsClient(s) ==
    /\ s.do = "add"
    /\ irc' = [irc EXCEPT !.stage[s.client] = "new"]
    /\ Goes("running")
    /\ UNCHANGED <<toServer, toClient, inbuffer>>

\* removeClient() closes it without QUIT, which the server learns later.
TestRemovesClient(s) ==
    /\ s.do = "remove"
    /\ toServer' = [toServer EXCEPT ![s.client] = Append(@, Line("", "EOF", <<>>))]
    /\ Goes("running")
    /\ UNCHANGED <<irc, toClient, inbuffer>>

TestRegistersUser(s) ==
    /\ s.do = "account"
    /\ irc' = [irc EXCEPT !.accounts = @ \cup {<<s.account, s.line.args[1]>>}]
    /\ Goes("running")
    /\ UNCHANGED <<toServer, toClient, inbuffer>>

TestSetsPassword(s) ==
    /\ s.do = "password"
    /\ irc' = [irc EXCEPT !.password = s.line.args[1]]
    /\ Goes("running")
    /\ UNCHANGED <<toServer, toClient, inbuffer>>

TestSends(s) ==
    /\ s.do = "send"
    /\ toServer' = [toServer EXCEPT ![s.client] = Append(@, s.line)]
    /\ Goes("running")
    /\ UNCHANGED <<irc, toClient, inbuffer>>

\* getMessages(), which raises if the connection is closed and nothing is left,
\* and if the server refuses its PING because the client is not registered.
RefusesPing(c) == Chooses(irc, "registers later") /\ irc.stage[c] \in {"new", "ready"}

\* The loop on getMessages() goes on until there is something, or it raises.
HasSome(c) == Received(c) # <<>> \/ irc.stage[c] = "closed"

TestGetsMessages(s) ==
    LET c == s.client
        ms == Received(c)
    IN  /\ s.do \in {"getMessages", "getSome"}
        /\ Synchronized(c)
        /\ s.do = "getSome" => HasSome(c)
        /\ Keeps(c, <<>>)
        /\ Follows(s, IF RefusesPing(c) \/ (irc.stage[c] = "closed" /\ ms = <<>>) THEN "failed"
                      ELSE Judged(s.checks, ms))
        /\ UNCHANGED <<irc, toServer>>

\* getMessage() receives only if nothing is in inbuffer, and takes the first
\* message of it that it is looking for.
Wanted(s, m) ==
    /\ m.cmd \notin s.skips /\ ~\E p \in s.passes : MessageMatches(m, p)
    /\ s.do = "getFiltered" => m.cmd = s.line.cmd
    /\ s.until # {} => m.cmd \in s.until

\* What the assertions of a step are about: the message it wants, or more.
Collected(s, ms, first) ==
    CASE s.do \in {"awaitCapLs", "skipToWelcome", "getUntil"} ->
            SelectSeq(SubSeq(ms, 1, first), LAMBDA m : m.cmd \notin s.skips)
      [] s.do = "awaitOthers" -> ms
      [] OTHER -> <<ms[first]>>

TestGetsMessage(s) ==
    LET c == s.client
        there == {i \in DOMAIN inbuffer[c] : Wanted(s, inbuffer[c][i])}
        ms == IF there # {} THEN inbuffer[c] ELSE Received(c)
        wanted == {i \in DOMAIN ms : Wanted(s, ms[i])}
        first == CHOOSE i \in wanted : \A j \in wanted : i <= j
    IN  /\ s.do \in {"getMessage", "tryGetMessage", "getFiltered", "getUntil"}
        /\ there = {} => Synchronized(c)
        /\ IF wanted = {}
           THEN /\ Keeps(c, <<>>)
                /\ Follows(s, IF s.do = "tryGetMessage" THEN "else" ELSE "failed")
           ELSE /\ inbuffer' = [inbuffer EXCEPT ![c] = SubSeq(ms, first + 1, Len(ms))]
                /\ toClient' = IF there # {} THEN toClient ELSE [toClient EXCEPT ![c] = <<>>]
                /\ Follows(s, Judged(s.checks, Collected(s, ms, first)))
        /\ UNCHANGED <<irc, toServer>>

\* joinChannel() receives until it sees a JOIN of the channel, of anyone, and
\* raises if a failure comes first.
JoinFailures == {"ERR_NOSUCHCHANNEL", "ERR_TOOMANYCHANNELS", "ERR_BADCHANNELKEY",
                 "ERR_INVITEONLYCHAN", "ERR_BANNEDFROMCHAN", "ERR_CHANNELISFULL",
                 "ERR_NEEDREGGEDNICK"}

JoinsSeen(s) == {i \in DOMAIN Received(s.client) :
                    LET m == Received(s.client)[i]
                    IN  m.cmd = "JOIN" /\ m.args[1] = s.line.args[1]}
JoinFailuresSeen(s) == {i \in DOMAIN Received(s.client) :
                            Received(s.client)[i].cmd \in JoinFailures}

\* What the loop of a step is waiting for has arrived, or never will.
AwaitingSteps ==
    {"await", "awaitRegistration", "tryRegistration", "awaitCapLs", "awaitOthers", "skipToWelcome", "receive"}

WantedByLoop(s, m) ==
    /\ m.cmd \notin s.skips
    /\ s.until # {} => m.cmd \in s.until
    /\ s.do = "awaitCapLs" => Len(m.args) < 3       \* the last line of CAP LS

PositionsWanted(s) ==
    {i \in DOMAIN Received(s.client) : WantedByLoop(s, Received(s.client)[i])}

\* Faulty variant: PINGs are passed over.
NoPingAnswered(s) == {}

\* A PING of the server, which a loop answers when it comes to it.
PingsToAnswer(s) ==
    IF s.do = "await" THEN {}
    ELSE {i \in DOMAIN Received(s.client) :
            /\ Received(s.client)[i].cmd = "PING"
            /\ \A j \in PositionsWanted(s) : i <= j}

Answered(s) ==
    CASE s.do = "awaitJoin" -> JoinsSeen(s) \cup JoinFailuresSeen(s) # {}
      [] s.do = "getSome" -> HasSome(s.client)
      [] s.do \in AwaitingSteps ->
            irc.stage[s.client] = "closed" \/ PositionsWanted(s) \cup PingsToAnswer(s) # {}
      [] OTHER -> TRUE

TestAwaitsJoin(s) ==
    /\ s.do = "awaitJoin"
    /\ Synchronized(s.client)
    /\ Answered(s)
    /\ Keeps(s.client, <<>>)
    /\ Goes(IF \E j \in JoinsSeen(s) : \A f \in JoinFailuresSeen(s) : j < f
            THEN "running" ELSE "failed")
    /\ UNCHANGED <<irc, toServer>>

\* getMessage(synchronize=False) and the loops on it take messages as they
\* come, and those after the wanted one stay in inbuffer.
TestAwaits(s) ==
    LET c == s.client
        ms == Received(c)
        wanted == PositionsWanted(s)
        first == CHOOSE i \in wanted : \A j \in wanted : i <= j
    IN  /\ s.do \in AwaitingSteps
        /\ Answered(s)
        /\ PingsToAnswer(s) = {}
        /\ IF wanted = {}
           THEN Keeps(c, <<>>) /\ Follows(s, IF s.do = "tryRegistration" THEN "else" ELSE "failed")
           ELSE /\ Keeps(c, IF s.do \in {"receive", "awaitOthers"} THEN <<>> ELSE SubSeq(ms, first + 1, Len(ms)))
                /\ Follows(s, Judged(s.checks, Collected(s, ms, first)))
        /\ UNCHANGED <<irc, toServer>>

\* The loop answers the first PING, and goes on.
TestAnswersPing(s) ==
    LET c == s.client
        ms == Received(c)
        pings == PingsToAnswer(s)
        first == CHOOSE i \in pings : \A j \in pings : i <= j
    IN  /\ s.do \in AwaitingSteps
        /\ pings # {}
        /\ Keeps(c, SubSeq(ms, 1, first - 1) \o SubSeq(ms, first + 1, Len(ms)))
        /\ toServer' = [toServer EXCEPT ![c] = Append(@, Line("", "PONG", ms[first].args))]
        /\ UNCHANGED <<test, steps, verdict, irc>>

TestAssertsDisconnected(s) ==
    /\ s.do = "assertDisconnected"
    /\ Synchronized(s.client)
    /\ Keeps(s.client, <<>>)
    /\ Goes(IF irc.stage[s.client] = "closed" THEN "running" ELSE "failed")
    /\ UNCHANGED <<irc, toServer>>

\* raise IsupportTokenNotSupported, or another reason to skip that the server
\* gives when the test starts
TestRequires(s) ==
    /\ s.do = "option"
    /\ Goes(IF Chooses(irc, s.line.cmd) THEN "running" ELSE "unsupported")
    /\ UNCHANGED <<irc, toServer, toClient, inbuffer>>

TestUnless(s) ==
    /\ s.do = "unless"
    /\ Follows(s, IF Chooses(irc, s.line.cmd) THEN "else" ELSE "running")
    /\ UNCHANGED <<irc, toServer, toClient, inbuffer>>

\* config() asks for message history, or for users that are invisible, or a
\* sleep lets history expire.
TestConfigures(s) ==
    /\ s.do \in {"history", "expiry", "invisible"}
    /\ irc' = CASE s.do = "history" -> [irc EXCEPT !.keepsHistory = TRUE]
                [] s.do = "invisible" -> [irc EXCEPT !.umodes = [c \in Clients |-> {"i"}]]
                [] irc.fault = <<"remembers", "history">> -> irc
                [] OTHER -> [irc EXCEPT !.log = <<>>]
    /\ Goes("running")
    /\ UNCHANGED <<toServer, toClient, inbuffer>>

TestEnds ==
    /\ verdict = "running" /\ steps = <<>>
    /\ verdict' = "passed"
    /\ UNCHANGED <<test, steps, irc, toServer, toClient, inbuffer>>

TestStep ==
    \/ /\ Running
       /\ LET s == CurrentStep
          IN  \/ TestConnects(s) \/ TestRegistersUser(s) \/ TestSends(s)
              \/ TestGetsMessages(s) \/ TestGetsMessage(s) \/ TestAwaitsJoin(s)
              \/ TestAssertsDisconnected(s) \/ TestAddsClient(s) \/ TestRemovesClient(s)
              \/ TestAwaits(s) \/ TestAnswersPing(s) \/ TestRequires(s)
              \/ TestSetsPassword(s) \/ TestUnless(s) \/ TestConfigures(s)
    \/ TestEnds

ServerHandles ==
    /\ verdict = "running"
    /\ \E c \in Clients :
          /\ toServer[c] # <<>>
          /\ \E e \in {Handle(irc, c, Head(toServer[c]))} : irc' = e.irc /\ Sent(e.out)
          /\ toServer' = [toServer EXCEPT ![c] = Tail(@)]
    /\ UNCHANGED <<test, steps, verdict, inbuffer>>

\* A server that registers clients in an iteration of its own.
ServerRegisters ==
    /\ verdict = "running"
    /\ \E c \in Clients :
          /\ irc.stage[c] = "ready"
          /\ \E e \in {Welcomes(NoEffect(irc), c)} : irc' = e.irc /\ Sent(e.out)
    /\ UNCHANGED <<test, steps, verdict, toServer, inbuffer>>

\* A server that asks others for its history.
ServerAnswersHistory ==
    /\ verdict = "running"
    /\ \E c \in Clients :
          /\ irc.asked[c] # <<>>
          /\ \E e \in {AnswersHistory(NoEffect([irc EXCEPT !.asked[c] = Tail(@)]), c, Head(irc.asked[c]))} :
                irc' = e.irc /\ Sent(e.out)
    /\ UNCHANGED <<test, steps, verdict, toServer, inbuffer>>

Next == TestStep \/ ServerHandles \/ ServerRegisters \/ ServerAnswersHistory

Spec == Init /\ [][Next]_vars

-----------------------------------------------------------------------------
(* Properties *)

\* A server that does what the specifications ask passes every test, whatever
\* the order in which it handles the lines of different clients, and whatever
\* it does where it has a choice.
ConformingServerPasses == irc.fault = NoFault => verdict # "failed"

\* A test of a conforming server never waits for a message that is not coming:
\* once the server has handled every line, registered every client and answered
\* for its history, what the test awaits is there.
NothingAwaitedForEver ==
    /\ irc.fault = NoFault /\ Running
    /\ toServer = Queues /\ irc.asked = Queues /\ \A c \in Clients : irc.stage[c] # "ready"
    => Answered(CurrentStep)

\* A server with a fault that a test is about does not pass it: no assertion
\* holds for lack of messages, or comes before what it is about.
FaultIsNoticed == irc.fault # NoFault => verdict \notin {"passed", "skipped"}

\* A step that asserts that messages did not come, and goes on, comes when no
\* line of a client, and no answer about history, is on its way: the absence is
\* not a matter of timing.
AssertsAbsence(s) ==
    s.do = "getMessages" /\ \E i \in DOMAIN s.checks : s.checks[i] = Nothing \/ s.checks[i].kind = "lacks"

AbsenceIsSettled == [][
    (Running /\ steps' # steps /\ AssertsAbsence(CurrentStep)) => toServer = Queues /\ irc.asked = Queues]_vars

-----------------------------------------------------------------------------
(* What the text of a test says of when its assertions come, whatever the  *)
(* server does.  A label of a position of a script has the clients whose   *)
(* lines the server may not have handled when the test is there (`late`),  *)
(* and those with messages in inbuffer (`left`).                           *)

Label(late, left) == [late |-> late, left |-> left]

\* Loops that answer PINGs.
PingLoops == AwaitingSteps \ {"await"}

\* Steps that wait for the server, and leave nothing.
Synchronizing == {"getMessages", "getSome", "awaitJoin", "assertDisconnected"}

\* getMessage(), which waits for the server only if nothing was left.
Popping == {"getMessage", "tryGetMessage", "getFiltered", "getUntil"}

\* The label after a step.
LabelAfter(s, l) ==
    CASE s.do \in {"send", "remove"} -> Label(l.late \cup {s.client}, l.left)
      [] s.do \in Synchronizing -> Label(l.late \ {s.client}, l.left \ {s.client})
      [] s.do \in Popping ->
            Label(IF s.client \in l.left THEN l.late ELSE l.late \ {s.client}, l.left \cup {s.client})
      [] s.do \in AwaitingSteps -> Label(l.late, l.left \cup {s.client})
      [] OTHER -> l

Covered(l, m) == l.late \subseteq m.late /\ l.left \subseteq m.left

\* Where the test goes after its i-th step.
Successors(script, i) == {i + 1, i + 1 + script[i].branch}

\* These labels of the positions of a script, its end included, account for
\* every step, and where it asserts an absence nobody else's line can be late.
Settles(labels, script) ==
    /\ DOMAIN labels = 1..(Len(script) + 1)
    /\ \A i \in DOMAIN script : \E s \in {script[i]} :
          /\ \A j \in Successors(script, i) : Covered(LabelAfter(s, labels[i]), labels[j])
          /\ s.do \in PingLoops => Covered(Label({s.client}, {s.client}), labels[i])
          /\ AssertsAbsence(s) => labels[i].late \subseteq {s.client}

\* The labels of a script, from the first position to the last: the union of
\* what comes from the steps before, and of the PINGs a loop answers.
Labelled(script) ==
    LET looping(i) == IF i <= Len(script) /\ script[i].do \in PingLoops THEN {script[i].client} ELSE {}
        before(i) == {j \in 1..(i - 1) : i \in Successors(script, j)}
        Add(labels, i) ==
            LET after == {LabelAfter(script[j], labels[j]) : j \in before(i)}
            IN  Append(labels, Label(looping(i) \cup UNION {l.late : l \in after},
                                     looping(i) \cup UNION {l.left : l \in after}))
    IN  FoldLeft(Add, <<>>, [i \in 1..(Len(script) + 1) |-> i])

Settled(script) == Settles(Labelled(script), script)

\* In a test whose script is settled, an assertion that messages did not come
\* comes when the server has handled every line of every client, whatever the
\* server does, and in whatever order it handles lines.
LinesAreSettled == [][
    (Running /\ steps' # steps /\ AssertsAbsence(CurrentStep) /\ Settled(Tests[test].steps))
        => toServer = Queues]_vars

=============================================================================
