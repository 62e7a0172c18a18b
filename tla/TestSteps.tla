------------------------------ MODULE TestSteps ------------------------------
(***************************************************************************)
(* The vocabulary of the server tests: a test method of                    *)
(* irctest/server_tests/ is a sequence of steps, which are its calls of    *)
(* the methods of BaseServerTestCase and its assertions on what they       *)
(* return.  Clients are numbers, in the order in which a test adds them.   *)
(***************************************************************************)
EXTENDS IrcMessages, SequencesExt

(* Assertions on a list of messages.  `of` restricts it to some commands,   *)
(* {} to none; `otherwise` is the verdict if the assertion does not hold.   *)

Check(kind, of, pats) ==
    [kind |-> kind, of |-> of, pats |-> pats, otherwise |-> "failed"]

Nothing            == Check("list", {}, <<>>)           \* self.assertEqual(ms, [])
Has(p)             == Check("has", {}, <<p>>)           \* some message matches
Lacks(p)           == Check("lacks", {}, <<p>>)         \* none does
Each(cmds, p)      == Check("each", cmds, <<p>>)        \* all of these commands do
Exactly(cmds, ps)  == Check("list", cmds, ps)           \* one by one, and no other
Begins(cmds, ps)   == Check("begins", cmds, ps)         \* the first ones do
Ends(p)            == Check("ends", {}, <<p>>)          \* the last one does
InAnyOrder(cmds, ps) == Check("unordered", cmds, ps)    \* the first ones, in any order
Permutation(cmds, ps) == Check("permutation", cmds, ps)      \* these, in any order, and no other
Covers(cmds, ps)      == Check("covered", cmds, ps)          \* these, perhaps repeated, and no other
Together(cmds, p)    == Check("together", cmds, <<p>>)       \* the pairs of p, each in one of them, and no other
BeginsBesides(cmds, ps) == Check("besides", cmds, ps)        \* the first ones that are not of these
FirstBesides(cmds, p)   == BeginsBesides(cmds, <<p>>)
ReturnIf(p)        == [Lacks(p) EXCEPT !.otherwise = "passed"]
ReturnAnyway       == [Has(OneOf({"no command"})) EXCEPT !.otherwise = "passed"]
HasIfEither(p, qs) == Check("implies", {}, <<p>> \o qs) \* if some message matches p, one matches one of qs
HasIf(p, q)        == HasIfEither(p, <<q>>)
Else(check)        == [check EXCEPT !.otherwise = "else"]      \* goes to the branch
SkipIf(p)          == [Lacks(p) EXCEPT !.otherwise = "skipped"]
Unsupported(p)     == [Lacks(p) EXCEPT !.otherwise = "unsupported"]
SkipUnless(p)      == [Has(p) EXCEPT !.otherwise = "skipped"]
HasEither(ps)      == Check("either", {}, ps)           \* some message matches one of these
AnyMessage         == OneOf({})
AtMostOne(cmd)     == Check("atMostOne", {cmd}, <<>>)
OnlyCommands(cmds) == Each({}, OneOf(cmds))
Inner(p)           == Check("inner", {}, <<p>>)         \* all but the first and the last do
Rest(p)            == Check("rest", {}, <<p>>)          \* all but the first do

(* Steps. *)

Step(do, c) == [do |-> do, client |-> c, line |-> Line("", "", <<>>), checks |-> <<>>,
                nick |-> "", account |-> "", caps |-> {}, branch |-> 0,
                skips |-> {}, passes |-> {}, until |-> {}]

\* connectClient(nick, capabilities=caps, account=account, password=...)
Login(c, nick, caps, account) ==
    [Step("connect", c) EXCEPT !.nick = nick, !.caps = caps, !.account = account, !.line = Line("", "", <<"username">>)]
ConnectWith(c, nick, caps) == Login(c, nick, caps, "")
ConnectAs(c, nick, ident)  == [ConnectWith(c, nick, {}) EXCEPT !.line = Line("", "", <<ident>>)]
Connect(c, nick)           == ConnectWith(c, nick, {})

\* addClient(), without registration
AddClient(c) == Step("add", c)

\* self.controller.registerUser(self, account, password)
RegisterWith(account, password) ==
    [Step("account", 1) EXCEPT !.account = account, !.line = Line("", "", <<password>>)]
RegisterUser(account) == RegisterWith(account, "sesame")

\* The test case has a `password`, which the server asks of every client.
Passworded(password) == [Step("password", 1) EXCEPT !.line = Line("", "", <<password>>)]

\* sendLine
SendLine(c, line)          == [Step("send", c) EXCEPT !.line = line]
Send(c, cmd, args)         == SendLine(c, Line("", cmd, args))
SendTagged(c, tags, cmd, args) == SendLine(c, Tagged(Line("", cmd, args), tags))
SendList(c, cmd, args, items)  == SendLine(c, Listing(Line("", cmd, args), items))

\* getMessages, and assertions on what it returns
GetAll(c, checks) == [Step("getMessages", c) EXCEPT !.checks = checks]
Sync(c)           == GetAll(c, <<>>)
Empty(c)          == GetAll(c, <<Nothing>>)

\* getMessage, and assertions on what it returns
GetOne(c, checks) == [Step("getMessage", c) EXCEPT !.checks = checks]
Get(c, p)         == GetOne(c, <<Has(p)>>)

\* the same, in a `try` that accepts NoMessageException
GetPerhaps(c, checks) == [Step("tryGetMessage", c) EXCEPT !.checks = checks]

\* `while not (msgs := self.getMessages(c))`, and assertions on what it returns
GetSome(c, checks) == [Step("getSome", c) EXCEPT !.checks = checks]

\* getMessage() again while it returns a message that matches one of these
\* patterns; and until it returns one of these commands
GetPassing(c, ps, checks) == [GetOne(c, checks) EXCEPT !.passes = ps]
GetUntil(c, cmds, checks) == [GetOne(c, checks) EXCEPT !.do = "getUntil", !.until = cmds]

\* n steps that are made only if the message came, or the checks held
GetAllThen(c, checks, n) == [GetAll(c, checks) EXCEPT !.branch = n]
GetPerhapsThen(c, checks, n) == [GetPerhaps(c, checks) EXCEPT !.branch = n]

\* getMessage(filter_pred=lambda m: m.command == cmd)
GetFiltered(c, cmd, p) ==
    [GetOne(c, <<Has(p)>>) EXCEPT !.do = "getFiltered", !.line = Line("", cmd, <<>>)]

\* getMessage(synchronize=False), which waits for a message
Await(c, checks) == [Step("await", c) EXCEPT !.checks = checks]
AwaitMessage(c, p) == Await(c, <<Has(p)>>)

\* getRegistrationMessage, which passes over NOTICEs, and loops of a test that
\* pass over other commands too.
GetRegistrationAfter(c, cmds, checks) ==
    [Await(c, checks) EXCEPT !.do = "awaitRegistration", !.skips = {"NOTICE"} \cup cmds]
GetRegistration(c, p) == GetRegistrationAfter(c, {}, <<Has(p)>>)

\* getRegistrationMessage() until it returns one of these commands
GetRegistrationUntil(c, cmds) == [GetRegistrationAfter(c, {}, <<>>) EXCEPT !.until = cmds]

\* getMessages(synchronize=False) while it returns only these commands, PINGs
\* being answered, and assertions on what it returns then
AwaitOthers(c, cmds, checks) == [Await(c, checks) EXCEPT !.do = "awaitOthers", !.skips = cmds]

\* getRegistrationMessage and n steps, made only if the connection is open and
\* the checks hold
GetRegistrationThen(c, checks, n) ==
    [GetRegistrationAfter(c, {}, checks) EXCEPT !.do = "tryRegistration", !.branch = n]

\* getCapLs, which reads every line of CAP LS, and assertions on all of them
GetCapLs(c, checks) ==
    [Await(c, <<Each({}, Cmd("CAP"))>> \o checks) EXCEPT !.do = "awaitCapLs", !.skips = {"NOTICE"}]
CapLs(c) == GetCapLs(c, <<>>)

\* requestCapabilities, authenticateClient
RequestCapabilities(c, caps) == <<
    SendList(c, "CAP", <<"REQ">>, {<<cap, "+">> : cap \in caps}),
    GetRegistration(c, Msg("CAP", <<ANYSTR, "ACK">>))>>

AuthenticateClient(c, account, password) == <<
    Send(c, "AUTHENTICATE", <<"PLAIN">>),
    GetRegistration(c, Msg("AUTHENTICATE", <<"+">>)),
    Send(c, "AUTHENTICATE", <<account, password>>),
    GetRegistration(c, OneOf({"RPL_LOGGEDIN", "RPL_SASLSUCCESS"}))>>

\* skipToWelcome, and assertions on what it returns
SkipToWelcomeWith(c, checks) == [Await(c, checks) EXCEPT !.do = "skipToWelcome", !.until = {"RPL_WELCOME"}]
SkipToWelcome(c) == SkipToWelcomeWith(c, <<>>)

\* conn.recv() until one of these commands is in what was received, which is
\* thrown away
ReceiveUntil(c, cmds, checks) == [Await(c, checks) EXCEPT !.do = "receive", !.until = cmds]

\* A server without this option skips the test.
Requires(option) == [Step("option", 1) EXCEPT !.line = Line("", option, <<>>)]

\* Steps of a test that a server with this option leaves out.
Unless(option, steps) == <<[Step("unless", 1) EXCEPT !.line = Line("", option, <<>>), !.branch = Len(steps)]>> \o steps

\* The config() of the test case asks for message history, and a sleep lets it
\* expire.
KeepsHistory == Step("history", 1)
HistoryExpires == Step("expiry", 1)

\* The config() of the test case makes every user invisible.
UsersAreInvisible == Step("invisible", 1)

\* joinChannel, joinClient: a JOIN, then what they wait for
Join(c, chan)       == [Step("joinChannel", c) EXCEPT !.line = Line("", "JOIN", <<chan>>)]
JoinClient(c, chan) == [Step("joinClient", c) EXCEPT !.line = Line("", "JOIN", <<chan>>)]

Expanded(s) ==
    IF s.do = "joinChannel"
    THEN <<[s EXCEPT !.do = "send"], [s EXCEPT !.do = "awaitJoin"]>>
    ELSE IF s.do = "joinClient"
    THEN <<[s EXCEPT !.do = "send"], GetAll(s.client, <<Has(Cmd("RPL_ENDOFNAMES"))>>)>>
    ELSE <<s>>

\* assertDisconnected, removeClient
AssertDisconnected(c) == Step("assertDisconnected", c)
RemoveClient(c)       == Step("remove", c)

\* A test: the faults of a server it must notice, the choices it leaves to
\* servers, and its steps.
Test(faults, choices, steps) ==
    [faults |-> faults, choices |-> choices,
     steps |-> FlattenSeq([i \in DOMAIN steps |-> Expanded(steps[i])])]

Silent(cmd)  == <<"silent", cmd>>    \* this message is never sent
Deaf(cmd)    == <<"deaf", cmd>>      \* this command is ignored
Lenient(cmd) == <<"lenient", cmd>>   \* this command is refused to nobody
Leaky(cmd)   == <<"leaky", cmd>>     \* this message is sent to everyone

=============================================================================
