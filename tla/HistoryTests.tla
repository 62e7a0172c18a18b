---------------------------- MODULE HistoryTests ----------------------------
(***************************************************************************)
(* The tests of message history, of redaction and of read markers in       *)
(* irctest/server_tests/.                                                  *)
(*                                                                         *)
(* The msgid and the time of a message are its text.                       *)
(***************************************************************************)
EXTENDS TestSteps

-----------------------------------------------------------------------------
(* chathistory.py *)

ChathistoryCaps == {"message-tags", "server-time", "echo-message", "batch", "labeled-response", "sasl",
                    "draft/chathistory"}
QuietCaps == ChathistoryCaps \ {"echo-message"}

\* A message is its target and its text.
HistoryMessage(m) ==
    With(Pattern(ANYSTR, {"PRIVMSG", "TOPIC"}, m), {<<"msgid", m[2]>>, <<"time", m[2]>>})
HistoryMessages(ms) == [i \in DOMAIN ms |-> HistoryMessage(ms[i])]

BatchOf(type) == <<Begins({}, <<Msg("BATCH", <<"+", ANYSTR>> \o type)>>), Ends(Msg("BATCH", <<"-", ANYSTR>>))>>

validate_chathistory_batch(c, target, checks) ==
    GetSome(c, BatchOf(<<"chathistory", target>>) \o checks)

Expects(ms) ==
    <<Exactly({"PRIVMSG", "TOPIC"},
              [i \in DOMAIN ms |-> With(HistoryMessage(ms[i]), {<<"batch", ANYSTR>>})])>>

\* A line, and what it is to be answered.
Ask(c, sub, target, limit, refs, checks) ==
    <<Send(c, "CHATHISTORY", <<sub, target, limit>> \o refs), validate_chathistory_batch(c, target, checks)>>

Latest(c, target) == Send(c, "CHATHISTORY", <<"LATEST", target, "10">>)

\* What each subcommand is asked of the messages ms, with references of a kind.
validate_chathistory_LATEST(c, target, ms, kind) ==
    Ask(c, "LATEST", target, "many", <<kind, ms[5][2]>>, Expects(SubSeq(ms, 6, Len(ms))))

LatestWithoutReference(c, target, ms) ==
    Ask(c, "LATEST", target, "many", <<>>, Expects(ms))
    \o Ask(c, "LATEST", target, "5", <<>>, Expects(SubSeq(ms, Len(ms) - 4, Len(ms))))
    \o Ask(c, "LATEST", target, "1", <<>>, Expects(<<Last(ms)>>))

validate_chathistory_BEFORE(c, target, ms, kind) ==
    Ask(c, "BEFORE", target, "many", <<kind, ms[7][2]>>, Expects(SubSeq(ms, 1, 6)))
    \o (IF kind = "msgid" THEN <<>>
        ELSE Ask(c, "BEFORE", target, "2", <<kind, ms[7][2]>>, Expects(SubSeq(ms, 5, 6))))

validate_chathistory_AFTER(c, target, ms, kind) ==
    Ask(c, "AFTER", target, "many", <<kind, ms[4][2]>>, Expects(SubSeq(ms, 5, Len(ms))))
    \o (IF kind = "msgid" THEN <<>>
        ELSE Ask(c, "AFTER", target, "3", <<kind, ms[4][2]>>, Expects(SubSeq(ms, 5, 7))))

validate_chathistory_BETWEEN(c, target, ms, kind) ==
    LET first == <<kind, ms[1][2]>>
        last == <<kind, Last(ms)[2]>>
        inside == SubSeq(ms, 2, Len(ms) - 1)
    IN  Ask(c, "BETWEEN", target, "many", first \o last, Expects(inside))
        \o Ask(c, "BETWEEN", target, "many", last \o first, Expects(inside))
        \o Ask(c, "BETWEEN", target, "3", first \o last, Expects(SubSeq(ms, 2, 4)))
        \o Ask(c, "BETWEEN", target, "3", last \o first, Expects(SubSeq(ms, Len(ms) - 3, Len(ms) - 1)))

validate_chathistory_AROUND(c, target, ms, kind) ==
    LET central == <<kind, ms[8][2]>>
    IN  IF kind = "msgid"
        THEN Ask(c, "AROUND", target, "1", central, Expects(<<ms[8]>>))
             \o Ask(c, "AROUND", target, "3", central, Expects(SubSeq(ms, 7, 9)))
        ELSE Ask(c, "AROUND", target, "3", central, <<Has(HistoryMessage(ms[8]))>>)

OfKind(sub, c, target, ms, kind) ==
    CASE sub = "LATEST"  -> validate_chathistory_LATEST(c, target, ms, kind)
      [] sub = "BEFORE"  -> validate_chathistory_BEFORE(c, target, ms, kind)
      [] sub = "AFTER"   -> validate_chathistory_AFTER(c, target, ms, kind)
      [] sub = "BETWEEN" -> validate_chathistory_BETWEEN(c, target, ms, kind)
      [] sub = "AROUND"  -> validate_chathistory_AROUND(c, target, ms, kind)

validate_chathistory(sub, c, target, ms) ==
    (IF sub = "LATEST" THEN LatestWithoutReference(c, target, ms) ELSE <<>>)
    \o Unless("only timestamps", OfKind(sub, c, target, ms, "msgid"))
    \o OfKind(sub, c, target, ms, "time")

HistoryChoices == {"only timestamps", "answers later"}
FaultsOf(sub) ==
    {Deaf("CHATHISTORY")}
    \cup (IF sub = "AROUND" THEN {<<"excludes", "AROUND">>}
          ELSE {<<"wrong", "limit">>, <<"inclusive", "CHATHISTORY">>})

\* A message, and its echo, which the test keeps.
Says(c, cmd, m) ==
    <<Send(c, cmd, m),
      GetAll(c, <<Exactly({}, <<With(Cmd(cmd), {<<"msgid", ANYSTR>>, <<"time", ANYSTR>>})>>)>>)>>

Texts(prefix, n) == [i \in 1..n |-> prefix \o " " \o ToString(i - 1)]
InChannel(texts) == [i \in DOMAIN texts |-> <<"#chan", texts[i]>>]

testInvalidTargets ==
    LET invalid == Msg("FAIL", <<"CHATHISTORY", "INVALID_TARGET", "LATEST", ANYSTR, ANYSTR>>) IN
    Test({Lenient("CHATHISTORY"), Silent("FAIL")}, {"answers later"}, <<
    KeepsHistory, RegisterUser("bar"), Login(1, "bar", QuietCaps, "bar"), Sync(1),
    Connect(2, "qux"), Join(2, "#real_channel"), Sync(2),
    Latest(1, "#nonexistent_channel"), GetSome(1, <<FirstBesides({"MODE"}, invalid)>>),
    Latest(1, "#real_channel"), GetSome(1, <<Begins({}, <<invalid>>)>>)>>)

\* The third message comes twice, once with its label.  The test does not look
\* for history in a loop, and fails for servers that answer later.
testMessagesToSelf(choices) ==
    LET m(n) == <<"bar", "message " \o n>>
        p(n) == HistoryMessage(m(n))
        third == Exactly({"PRIVMSG"}, <<p("3"), p("3")>>) IN
    Test({Deaf("CHATHISTORY"), <<"labels", "delivery">>, Silent("PRIVMSG")}, choices \cup {"delivers first"}, <<
    KeepsHistory, RegisterUser("bar"), Login(1, "bar", QuietCaps, "bar"), Sync(1),
    Send(1, "PRIVMSG", m("1")), GetAll(1, <<Exactly({"PRIVMSG"}, <<p("1")>>)>>),
    SendList(1, "CAP", <<"REQ">>, {<<"echo-message", "+">>}), Sync(1),
    Send(1, "PRIVMSG", m("2")), GetAll(1, <<Exactly({"PRIVMSG"}, <<p("2"), p("2")>>)>>),
    SendTagged(1, {<<"label", "xyz">>}, "PRIVMSG", m("3")),
    GetAll(1, <<third, Has(With(Cmd("PRIVMSG"), {<<"label", "xyz">>})), Has(Without(Cmd("PRIVMSG"), {"label"}))>>),
    Latest(1, "bar"), GetAll(1, <<Exactly({"PRIVMSG"}, <<p("1"), p("2"), p("3")>>)>>)>>)

InChathistoryChannel(caps) == <<KeepsHistory, ConnectWith(1, "bar", caps), Join(1, "#chan"), Sync(1)>>

testChathistory(sub) ==
    LET ms == InChannel(Texts("message", 10)) IN
    Test(FaultsOf(sub), HistoryChoices,
    InChathistoryChannel(ChathistoryCaps)
    \o FlattenSeq([i \in DOMAIN ms |-> Says(1, "PRIVMSG", ms[i])])
    \o validate_chathistory(sub, 1, "#chan", ms))

testChathistoryNoEventPlayback ==
    LET topics == InChannel(Texts("topic", 10))
        ms == InChannel(Texts("message", 10)) IN
    Test({<<"lenient", "event-playback">>, Deaf("CHATHISTORY")}, {},
    InChathistoryChannel(ChathistoryCaps)
    \o FlattenSeq([i \in DOMAIN ms |->
            <<Send(1, "TOPIC", topics[i]), Sync(1)>> \o Says(1, "PRIVMSG", ms[i])])
    \o <<Latest(1, "#chan"),
         GetAll(1, <<Begins({}, <<Cmd("BATCH")>>), Ends(Cmd("BATCH")), Inner(Cmd("PRIVMSG"))>>)>>)

testChathistoryEventPlayback(sub) ==
    LET topics == InChannel(Texts("topic", 10))
        ms == InChannel(Texts("message", 10)) IN
    Test(FaultsOf(sub), HistoryChoices,
    InChathistoryChannel(ChathistoryCaps \cup {"draft/event-playback"})
    \o FlattenSeq([i \in DOMAIN ms |-> Says(1, "TOPIC", topics[i]) \o Says(1, "PRIVMSG", ms[i])])
    \o validate_chathistory(sub, 1, "#chan", FlattenSeq([i \in DOMAIN ms |-> <<topics[i], ms[i]>>])))

FooAndBar == <<
    KeepsHistory, RegisterWith("foo", "sesame1"), RegisterWith("bar", "sesame2"),
    Login(1, "foo", ChathistoryCaps, "foo"), Login(2, "bar", ChathistoryCaps, "bar")>>

\* Clients 1 and 2 write to each other, and client 3 is "baz", who comes back
\* with an account as client 4.
testChathistoryDMs(sub) ==
    LET texts == Texts("message", 10)
        sender(i) == IF i % 2 = 1 THEN 1 ELSE 2
        ms == [i \in 1..10 |-> <<IF sender(i) = 1 THEN "bar" ELSE "foo", texts[i]>>]
        separate == <<<<"baz", "a separate conversation">>, <<"foo", "i agree">>>>
        valid(c, target) == validate_chathistory(sub, c, target, ms)
        separately == Exactly({"PRIVMSG"}, HistoryMessages(separate)) IN
    Test(FaultsOf(sub), {"only timestamps"},
    FooAndBar \o <<Sync(1), Sync(2)>>
    \o FlattenSeq([i \in DOMAIN ms |-> <<Sync(sender(i))>> \o Says(sender(i), "PRIVMSG", ms[i])])
    \o <<Sync(1), Sync(2)>> \o valid(1, "bar") \o valid(2, "foo")
    \o <<ConnectWith(3, "baz", ChathistoryCaps \ {"sasl"}),
         Send(1, "PRIVMSG", separate[1]), Sync(1), Send(3, "PRIVMSG", separate[2]), GetAll(3, <<separately>>),
         Sync(1), Latest(1, "baz"), GetAll(1, <<separately>>)>>
    \o valid(1, "bar") \o valid(2, "foo") \o valid(2, "FOO")
    \o <<Send(3, "QUIT", <<>>), AssertDisconnected(3), RegisterWith("baz", "sesame3"),
         Login(4, "baz", ChathistoryCaps, "baz"), Sync(4),
         Latest(4, "foo"), GetAll(4, <<Exactly({"PRIVMSG"}, <<>>)>>)>>)

skipUnlessArbitraryClientTags == Requires("client tags")
TestTag == {<<"+client-only-tag-test", "success">>}
Persistent == TestTag \cup {<<"+draft/persist", "">>}

testChathistoryTagmsg ==
    LET tagmsg(target) == With(Msg("TAGMSG", <<target>>), TestTag \cup {<<"msgid", "TAGMSG">>})
        replayed(ps) == GetAll(2, <<Exactly({"TAGMSG"}, ps)>>)
        tagsAndReplays(target, seen) == <<
            SendTagged(1, Persistent, "TAGMSG", <<target>>), GetAll(1, <<Begins({}, <<tagmsg(target)>>)>>),
            GetAll(2, <<Exactly({}, <<tagmsg(target)>>)>>),
            Latest(1, target), GetAll(1, <<Exactly({"TAGMSG"}, <<tagmsg(target)>>)>>),
            Latest(2, seen), GetAll(2, <<Exactly({"TAGMSG"}, <<>>)>>)>> IN
    Test({<<"lenient", "event-playback">>, Deaf("TAGMSG"), <<"drops", "tags">>}, {"client tags"},
    <<KeepsHistory, RegisterWith("foo", "sesame1"), RegisterWith("bar", "sesame2"),
      Login(1, "foo", ChathistoryCaps \cup {"draft/event-playback"}, "foo"), skipUnlessArbitraryClientTags,
      Login(2, "bar", ChathistoryCaps, "bar"), Join(1, "#chan"), Join(2, "#chan"), Sync(1), Sync(2)>>
    \o tagsAndReplays("#chan", "#chan") \o tagsAndReplays("bar", "foo"))

testChathistoryDMClientOnlyTags ==
    LET hi == With(Msg("PRIVMSG", <<"bar", "hi">>), TestTag \cup {<<"msgid", "hi">>}) IN
    Test({<<"drops", "tags">>, Silent("PRIVMSG")}, {"client tags"},
    FooAndBar \o <<skipUnlessArbitraryClientTags, Sync(1), Sync(2),
      SendTagged(1, Persistent, "PRIVMSG", <<"bar", "hi">>), Get(1, hi), Get(2, hi)>>)

\* CHATHISTORY TARGETS from a moment to another, and the targets it is to list.
summarize_chathistory_targets(from, to, limit, rows) == <<
    Send(1, "CHATHISTORY", <<"TARGETS", "*", limit, "time", from, "time", to>>),
    GetAll(1, BatchOf(<<"draft/chathistory-targets">>)
              \o <<Exactly({"CHATHISTORY"}, [i \in DOMAIN rows |-> Msg("CHATHISTORY", <<"TARGETS">> \o rows[i])])>>)>>

testChathistoryTargets ==
    LET target == <<"#ch1", "bar", "#ch2", "baz">>
        hears == <<2, 2, 3, 3>>
        hello(i) == "Hello " \o target[i]
        row(i) == <<target[i], ANYSTR>> IN
    Test({<<"inclusive", "CHATHISTORY">>, Deaf("CHATHISTORY")}, {},
    FooAndBar \o <<
      RegisterWith("baz", "sesame3"), Login(3, "baz", ChathistoryCaps, "baz"), Sync(1), Sync(2), Sync(3),
      Join(1, "#ch1"), Join(2, "#ch1"), Join(1, "#ch2"), Join(3, "#ch2"), Sync(1), Sync(2), Sync(3)>>
    \o FlattenSeq([i \in 1..4 |-> <<
        Send(1, "PRIVMSG", <<target[i], hello(i)>>), Sync(1),
        GetAll(hears[i], <<Begins({}, <<With(AnyMessage, {<<"time", ANYSTR>>})>>)>>)>>])
    \o summarize_chathistory_targets("2020", "2262", "many", [i \in 1..4 |-> <<target[i], hello(i)>>])
    \o summarize_chathistory_targets("2020", "2262", "2", <<row(1), row(2)>>)
    \o summarize_chathistory_targets(hello(1), "2262", "many", <<row(2), row(3), row(4)>>)
    \o summarize_chathistory_targets(hello(1), hello(4), "many", <<row(2), row(3)>>))

testChathistoryTargetsExcludesUpdatedTargets ==
    LET hello == InChannel(Texts("Hello", 3)) IN
    Test({<<"wrong", "TARGETS">>, Deaf("CHATHISTORY")}, {},
    <<KeepsHistory, RegisterWith("foo", "sesame1"), Login(1, "foo", ChathistoryCaps, "foo"), Sync(1),
      Join(1, "#chan"), Sync(1)>>
    \o FlattenSeq([i \in DOMAIN hello |-> <<
        Send(1, "PRIVMSG", hello[i]), GetAll(1, <<Begins({}, <<With(AnyMessage, {<<"time", ANYSTR>>})>>)>>)>>])
    \o summarize_chathistory_targets("2020", "2262", "many", <<hello[3]>>)
    \o summarize_chathistory_targets("2020", hello[2][2], "many", <<>>))

\* The server forgets what is a minute old.
testChathistoryExpired == Test({<<"remembers", "history">>, Deaf("CHATHISTORY")}, {"answers later"},
    InChathistoryChannel(ChathistoryCaps) \o <<
    Send(1, "PRIVMSG", <<"#chan", "this is a message">>), Sync(1), HistoryExpires, Latest(1, "#chan"),
    GetSome(1, BatchOf(<<"chathistory", "#chan">>) \o <<Exactly({}, <<AnyMessage, AnyMessage>>)>>)>>)

-----------------------------------------------------------------------------
(* redact.py: clients 1 and 2 are alice and bob. *)

RedactCaps == {"message-tags", "echo-message", "batch", "labeled-response", "draft/message-redaction"}

AliceOnChannel(caps) == <<KeepsHistory, ConnectWith(1, "alys", caps), Join(1, "#channel"), Sync(1)>>
BobOnChannel(caps) == <<ConnectWith(2, "bob", caps), Join(2, "#channel"), Sync(1), Sync(2)>>
setupTwoClientsAndChannel == AliceOnChannel(RedactCaps) \o BobOnChannel(RedactCaps)

\* A message with a msgid, as its sender and another client get it.
Sends(c, other, target, text) ==
    LET m == Msg("PRIVMSG", <<target, text>>)
    IN  <<Send(c, "PRIVMSG", <<target, text>>),
          Get(c, With(m, {<<"msgid", ANYSTR>>})), Get(other, m)>>

SaysAlone(text) ==
    <<Send(1, "PRIVMSG", <<"#channel", text>>), Get(1, With(AnyMessage, {<<"msgid", ANYSTR>>}))>>

Redacts(c, args) == Send(c, "REDACT", args)
Redacted(args) == From("alys", "REDACT", args)
RedactedForBoth(args) == <<Redacts(1, args), Get(1, Redacted(args)), Get(2, Redacted(args))>>
RedactFails(code, args) == Get(1, Msg("FAIL", <<"REDACT", code>> \o args))

RedactFaults == {Deaf("REDACT"), Silent("REDACT")}

testOpRedactSelfPrivmsg == Test(RedactFaults, {},
    setupTwoClientsAndChannel \o Sends(1, 2, "#channel", "Hello everyone")
    \o RedactedForBoth(<<"#channel", "Hello everyone">>))
testOpRedactOthersPrivmsg == Test(RedactFaults, {},
    setupTwoClientsAndChannel \o Sends(2, 1, "#channel", "Hi Alice")
    \o RedactedForBoth(<<"#channel", "Hi Alice", "spam">>))

testCantRedactOthersPrivmsg == Test({Deaf("REDACT"), Lenient("REDACT")}, {},
    setupTwoClientsAndChannel \o Sends(1, 2, "#channel", "Another message") \o <<
    Redacts(2, <<"#channel", "Another message">>),
    Get(2, Msg("FAIL", <<"REDACT", "REDACT_FORBIDDEN", "#channel", "Another message", ANYSTR>>)),
    Empty(1)>>)

testRedactWithReason ==
    LET args == <<"#channel", "Oops", "wrong channel">> IN
    Test(RedactFaults, {},
    AliceOnChannel(RedactCaps) \o SaysAlone("Oops") \o <<Redacts(1, args), Get(1, Redacted(args))>>)

\* A server that keeps no TAGMSGs does not know the msgid of one.
testRedactTagmsg ==
    LET args == <<"#channel", "TAGMSG">>
        tagmsg == Msg("TAGMSG", <<"#channel">>)
        unknown == Msg("FAIL", <<"REDACT", "UNKNOWN_MSGID">> \o args \o <<ANYSTR>>) IN
    Test({Deaf("REDACT")}, {"client tags", "TAGMSG is not stored"},
    setupTwoClientsAndChannel \o <<
    Requires("client tags"), SendTagged(1, {<<"+draft/react", "thumb">>}, "TAGMSG", <<"#channel">>),
    Get(1, With(tagmsg, {<<"msgid", ANYSTR>>})), Get(2, tagmsg), Redacts(1, args),
    [GetOne(1, <<HasEither(<<unknown, Redacted(args)>>), Else(Has(unknown))>>) EXCEPT !.branch = 1],
    GetAll(2, <<Nothing, ReturnAnyway>>), Get(2, Redacted(args))>>)

testRedactNotRelayedToNonSupportingClients ==
    LET args == <<"#channel", "Test message">> IN
    Test(RedactFaults \cup {Leaky("REDACT")}, {},
    AliceOnChannel(RedactCaps) \o BobOnChannel({"message-tags", "echo-message"}) \o SaysAlone("Test message") \o <<
    Get(2, Msg("PRIVMSG", args)), Redacts(1, args), Get(1, Redacted(args)),
    GetAll(2, <<Lacks(Cmd("REDACT"))>>)>>)

testRedactUnknownMsgid == Test({Deaf("REDACT"), Silent("FAIL")}, {},
    AliceOnChannel(RedactCaps) \o <<
    Redacts(1, <<"#channel", "nonexistent123">>),
    RedactFails("UNKNOWN_MSGID", <<"#channel", "nonexistent123", ANYSTR>>)>>)
testRedactInvalidTarget == Test({Deaf("REDACT"), Lenient("REDACT target")}, {}, <<
    KeepsHistory, ConnectWith(1, "alys", RedactCaps), Sync(1), Redacts(1, <<"#fake", "somemsgid">>),
    RedactFails("INVALID_TARGET", <<"#fake", ANYSTR>>)>>)

\* getBatchMessages of the history of the channel.  Once the message is
\* redacted it is not there, or a REDACT of it is there too.
ChannelHistory(checks) ==
    <<Latest(2, "#channel"), GetAll(2, BatchOf(<<"chathistory", ANYSTR>>) \o checks)>>

testRedactedMessageDisappearsFromChathistory ==
    LET caps == RedactCaps \cup {"server-time", "draft/chathistory"}
        args == <<"#channel", "This message will be redacted">>
        m == Msg("PRIVMSG", args)
        playback(c) == SendList(c, "CAP", <<"REQ">>, {<<"draft/event-playback", "+">>}) IN
    Test({<<"remembers", "REDACT">>, Deaf("REDACT"), Deaf("CHATHISTORY")}, {"REDACT is played back"},
    AliceOnChannel(caps) \o <<
    ConnectWith(2, "bob", caps), Join(2, "#channel"), playback(1), playback(2), Sync(1), Sync(2)>>
    \o Sends(1, 2, "#channel", args[2])
    \o ChannelHistory(<<Exactly({"PRIVMSG"}, <<With(m, {<<"msgid", args[2]>>})>>)>>)
    \o <<Redacts(1, args), GetOne(1, <<>>), GetOne(2, <<>>)>>
    \o ChannelHistory(<<HasIf(m, Msg("REDACT", args \o <<ANYLIST>>))>>))

testRedactDirectMessage ==
    LET caps == RedactCaps \cup {"sasl"}
        args == <<"bob", "Private message">> IN
    Test(RedactFaults, {}, <<
    KeepsHistory, RegisterWith("alys", "alice_password"), RegisterWith("bob", "bob_password"),
    Login(1, "alys", caps, "alys"), Sync(1), Login(2, "bob", caps, "bob"), Sync(2)>>
    \o Sends(1, 2, "bob", args[2]) \o RedactedForBoth(args))

-----------------------------------------------------------------------------
(* read_marker.py *)

AliceWithMarkers == ConnectWith(1, "alice", {"draft/read-marker"})
AliceOnTest == <<AliceWithMarkers, Join(1, "#test"), Sync(1)>>
Marks(args) == Send(1, "MARKREAD", args)
Markread(target, time) == Msg("MARKREAD", <<target, time>>)

\* getMarkread: one MARKREAD, among other messages.
getMarkread(p) == GetAll(1, <<Exactly({"MARKREAD"}, <<p>>)>>)
MarkreadFails(code) == GetAll(1, <<Has(Msg("FAIL", <<"MARKREAD", code, ANYLIST>>))>>)

ForgetsMarkers == {Deaf("MARKREAD"), <<"forgets", "MARKREAD">>}

testGetNoReadMarker == Test({Deaf("MARKREAD")}, {}, <<
    AliceWithMarkers, Sync(1), Marks(<<"#nosuchtarget">>), getMarkread(Markread("#nosuchtarget", "*"))>>)
testSetAndGet == Test(ForgetsMarkers, {}, AliceOnTest \o <<
    Marks(<<"#test", "2019">>), Sync(1), Marks(<<"#test">>), getMarkread(Markread("#test", "2019"))>>)
testReadMarkerDoesNotDecrease == Test(ForgetsMarkers \cup {<<"decreases", "MARKREAD">>}, {}, AliceOnTest \o <<
    Marks(<<"#test", "newer">>), Sync(1), Marks(<<"#test", "older">>), getMarkread(Markread("#test", "newer"))>>)

testReadMarkerOnJoin ==
    LET both == {"MARKREAD", "RPL_ENDOFNAMES"} IN
    Test({Silent("MARKREAD"), <<"late", "MARKREAD">>, Silent("RPL_ENDOFNAMES")}, {}, <<
    AliceWithMarkers, Send(1, "JOIN", <<"#test">>),
    GetAll(1, <<Has(Cmd("RPL_ENDOFNAMES")), Begins(both, <<Markread("#test", "*")>>)>>)>>)
testReadMarkerOnJoinWithStoredTimestamp == Test(ForgetsMarkers \cup {Silent("MARKREAD")}, {}, AliceOnTest \o <<
    Marks(<<"#test", "2020">>), Sync(1), Send(1, "PART", <<"#test">>), Sync(1), Send(1, "JOIN", <<"#test">>),
    GetAll(1, <<Begins({"MARKREAD"}, <<Markread("#test", "2020")>>)>>)>>)
testReadMarkerUserTarget == Test(ForgetsMarkers, {}, <<
    AliceWithMarkers, Connect(2, "bob"), Sync(1), Sync(2),
    Marks(<<"bob", "2023">>), getMarkread(Markread("bob", "2023")),
    Marks(<<"bob">>), getMarkread(Markread("bob", "2023"))>>)

testMissingParams == Test({Deaf("MARKREAD"), Silent("FAIL")}, {}, <<
    AliceWithMarkers, Sync(1), Marks(<<>>), MarkreadFails("NEED_MORE_PARAMS")>>)
testInvalidTimestamp == Test({Deaf("MARKREAD"), Lenient("MARKREAD")}, {},
    AliceOnTest \o <<Marks(<<"#test", "not-a-timestamp">>), MarkreadFails("INVALID_PARAMS")>>)
testWildcardTimestampRejected == Test({Deaf("MARKREAD"), Lenient("MARKREAD")}, {},
    AliceOnTest \o <<Marks(<<"#test", "*">>), MarkreadFails("INVALID_PARAMS")>>)

-----------------------------------------------------------------------------
SUBCOMMANDS == <<"LATEST", "BEFORE", "AFTER", "BETWEEN", "AROUND">>

HistoryTestList ==
    <<testInvalidTargets, testMessagesToSelf({}), testChathistoryNoEventPlayback, testChathistoryTagmsg,
      testChathistoryDMClientOnlyTags, testChathistoryTargets, testChathistoryTargetsExcludesUpdatedTargets,
      testChathistoryExpired,
      testOpRedactSelfPrivmsg, testOpRedactOthersPrivmsg, testCantRedactOthersPrivmsg, testRedactWithReason,
      testRedactTagmsg, testRedactNotRelayedToNonSupportingClients, testRedactUnknownMsgid,
      testRedactInvalidTarget, testRedactedMessageDisappearsFromChathistory, testRedactDirectMessage,
      testGetNoReadMarker, testSetAndGet, testReadMarkerDoesNotDecrease, testReadMarkerOnJoin,
      testReadMarkerOnJoinWithStoredTimestamp, testReadMarkerUserTarget, testMissingParams,
      testInvalidTimestamp, testWildcardTimestampRejected>>
    \o [i \in DOMAIN SUBCOMMANDS |-> testChathistory(SUBCOMMANDS[i])]
    \o [i \in DOMAIN SUBCOMMANDS |-> testChathistoryEventPlayback(SUBCOMMANDS[i])]
    \o [i \in DOMAIN SUBCOMMANDS |-> testChathistoryDMs(SUBCOMMANDS[i])]

=============================================================================
