--------------------------- MODULE RestrictionTests ---------------------------
(***************************************************************************)
(* The tests of limits, of bans of accounts, of auditoriums and of         *)
(* restrictions to registered users, in irctest/server_tests/chmodes/ and  *)
(* irctest/server_tests/umodes/.                                           *)
(***************************************************************************)
EXTENDS TestSteps

Mode(c, chan, sign, letter, arg) == Send(c, "MODE", <<chan, sign, letter>> \o arg)
SetsMode(chan, sign, letter, arg) == <<Mode(1, chan, sign, letter, arg), Get(1, Cmd("MODE"))>>
SetsModeUnseen(chan, sign, letter, arg) == <<Mode(1, chan, sign, letter, arg), Sync(1)>>
Chanop(chan) == <<Connect(1, "chanop"), Join(1, chan), Sync(1)>>

-----------------------------------------------------------------------------
(* limit.py *)

LimitFaults == {Lenient("JOIN"), Deaf("JOIN"), Deaf("MODE"), Silent("ERR_CHANNELISFULL")}

NewMember(c, nick) == <<Connect(c, nick), Join(c, "#chan"), Sync(1)>>
IsFull(c, nick, chan) == <<
    Send(c, "JOIN", <<chan>>), Get(c, Msg("ERR_CHANNELISFULL", <<nick, chan, ANYSTR>>)), Empty(c)>>
SetsLimit(limit) == <<
    Mode(1, "#chan", "+", "l", <<limit>>), Get(1, Msg("MODE", <<"#chan", "+", "l", limit>>))>>
SetsLimitUnseen(chan, limit) == SetsModeUnseen(chan, "+", "l", <<limit>>)

testLimitMode == Test(LimitFaults, {}, Chanop("#chan") \o SetsLimit("2") \o NewMember(2, "user2") \o <<
    Sync(2), Connect(3, "user3")>> \o IsFull(3, "user3", "#chan"))

testLimitRemoval == Test(LimitFaults, {}, Chanop("#chan") \o SetsLimitUnseen("#chan", "1")
    \o <<Connect(2, "user2")>> \o IsFull(2, "user2", "#chan") \o <<
    Mode(1, "#chan", "-", "l", <<>>), Get(1, Msg("MODE", <<"#chan", "-", "l">>)), Join(2, "#chan")>>)

testLimitChange == Test(LimitFaults, {}, Chanop("#chan") \o NewMember(2, "user2") \o <<Sync(2)>>
    \o SetsLimitUnseen("#chan", "2") \o <<Connect(3, "user3")>> \o IsFull(3, "user3", "#chan")
    \o SetsLimit("3") \o <<Join(3, "#chan")>>)

testLimitDecrease == Test(LimitFaults \cup {Deaf("PRIVMSG"), Silent("PRIVMSG")}, {},
    LET heard == Msg("PRIVMSG", <<"#chan", "still here">>) IN
    Chanop("#chan") \o NewMember(2, "user2") \o <<Sync(2)>> \o NewMember(3, "user3") \o <<Sync(2), Sync(3)>>
    \o SetsLimitUnseen("#chan", "1") \o <<Sync(2), Sync(3),
    Send(2, "PRIVMSG", <<"#chan", "still here">>), Sync(2), Get(1, heard), Get(3, heard),
    Connect(4, "user4")>> \o IsFull(4, "user4", "#chan"))

testLimitAfterPart == Test(LimitFaults \cup {Deaf("PART")}, {}, Chanop("#chan") \o SetsLimitUnseen("#chan", "2")
    \o NewMember(2, "user2") \o <<Sync(2), Connect(3, "user3")>> \o IsFull(3, "user3", "#chan") \o <<
    Send(2, "PART", <<"#chan">>), Sync(1), Sync(2), Join(3, "#chan")>>)

\* Whether the limit is rejected or ignored, others can still join.
LimitInvalidValues(limit, faults) == Test(faults, {"invalid parameters are ignored"},
    Chanop("#chan") \o <<
    Mode(1, "#chan", "+", "l", <<limit>>),
    GetPerhaps(1, <<Has(Msg("ERR_INVALIDMODEPARAM", <<"chanop", "#chan", "l", ANYSTR, ANYSTR>>))>>),
    Connect(2, "user2"), Join(2, "#chan"), Connect(3, "user3"), Join(3, "#chan")>>)

testLimitInvalidValues == <<
    LimitInvalidValues("0", {Lenient("parameters"), Deaf("JOIN")}), LimitInvalidValues("-1", {Lenient("parameters")}),
    LimitInvalidValues("abc", {Lenient("parameters")}), LimitInvalidValues("", {Lenient("parameters")})>>

testLimitMultipleChannels == Test(LimitFaults, {}, Chanop("#chan1") \o <<Join(1, "#chan2"), Sync(1)>>
    \o SetsLimitUnseen("#chan1", "1") \o <<Connect(2, "user")>> \o IsFull(2, "user", "#chan1") \o <<
    Join(2, "#chan2")>>)

\* A server where INVITE does not override the limit skips the end.
testLimitWithInvite == Test(LimitFaults, {"INVITE does not override +l"},
    LET full == Msg("ERR_CHANNELISFULL", <<"user2", "#chan", ANYSTR>>) IN
    Chanop("#chan") \o SetsLimitUnseen("#chan", "1") \o <<Connect(2, "user2")>>
    \o IsFull(2, "user2", "#chan") \o <<
    Send(1, "INVITE", <<"user2", "#chan">>), Sync(1), Sync(2),
    Send(2, "JOIN", <<"#chan">>),
    GetOne(2, <<Unsupported(full), Has(Msg("JOIN", <<"#chan">>))>>)>>)

-----------------------------------------------------------------------------
(* account_extban.py: 1 is chanop, the others are connections of bob. *)

\* Every name the server gives to bans of accounts is tried in turn.
ForEachName(names, steps(_, _)) == FlattenSeq([i \in DOMAIN names |-> steps(i + 1, names[i])])

ConnectBob(c, authenticated) == <<
    IF authenticated THEN Login(c, "bob", {"sasl"}, "bob") ELSE Connect(c, "bob"), Sync(c)>>
PopBob(c) == <<RemoveClient(c)>>   \* the last reference to its socket

AssertJoinAllowed(c, chan) == <<Send(c, "JOIN", <<chan>>), Get(c, Cmd("JOIN"))>>
AssertJoinBanned(c, chan) == <<Send(c, "JOIN", <<chan>>), Get(c, Cmd("ERR_BANNEDFROMCHAN"))>>

ExtbanTest(faults, names, first, steps(_, _)) ==
    Test(faults \cup {Deaf("MODE"), Deaf("JOIN")}, {"ACCOUNTEXTBAN"},
         first \o <<Connect(1, "chanop"), Requires("ACCOUNTEXTBAN")>> \o ForEachName(names, steps))

BobHasAccount == <<RegisterUser("bob")>>
NewChannel(chan) == <<Join(1, chan), Sync(1)>>
Account == <<"account", "bob">>

AccountExtbanJoin(names) == ExtbanTest({Lenient("JOIN"), Silent("ERR_BANNEDFROMCHAN")}, names, BobHasAccount,
    LAMBDA c, chan : NewChannel(chan) \o SetsMode(chan, "+", "b", Account) \o ConnectBob(c, TRUE)
        \o AssertJoinBanned(c, chan) \o SetsMode(chan, "-", "b", Account) \o AssertJoinAllowed(c, chan) \o PopBob(c))

AccountExtbanUnauthed(names) == ExtbanTest({}, names, <<>>,
    LAMBDA c, chan : NewChannel(chan) \o SetsMode(chan, "+", "b", Account) \o ConnectBob(c, FALSE)
        \o AssertJoinAllowed(c, chan) \o PopBob(c))

AccountExtbanException(names) == ExtbanTest({}, names, BobHasAccount,
    LAMBDA c, chan : NewChannel(chan) \o SetsMode(chan, "+", "b", <<"all">>) \o SetsMode(chan, "+", "e", Account)
        \o ConnectBob(c, TRUE) \o AssertJoinAllowed(c, chan) \o PopBob(c))

AccountExtbanInviteException(names) == ExtbanTest({}, names, BobHasAccount,
    LAMBDA c, chan : NewChannel(chan) \o SetsModeUnseen(chan, "+", "i", <<>>) \o SetsMode(chan, "+", "I", Account)
        \o ConnectBob(c, TRUE) \o AssertJoinAllowed(c, chan) \o PopBob(c))

\* A server that has one name.
testAccountExtbanJoin == AccountExtbanJoin(<<"#chan-a">>)
testAccountExtbanUnauthed == AccountExtbanUnauthed(<<"#uchan-a">>)
testAccountExtbanException == AccountExtbanException(<<"#echan-a">>)
testAccountExtbanInviteException == AccountExtbanInviteException(<<"#ichan-a">>)

-----------------------------------------------------------------------------
(* auditorium.py: 1 is bar, the others are guests. *)

MODERN_CAPS == {"server-time", "message-tags", "batch", "labeled-response", "echo-message", "account-tag"}

Guest(c, nick) == <<ConnectWith(c, nick, MODERN_CAPS), Join(c, "#auditorium"), Sync(c)>>
Joined(nick) == Exactly({"JOIN"}, <<With(From(nick, "JOIN", <<"#auditorium">>), {<<"msgid", ANYSTR>>, <<"time", ANYSTR>>})>>)

Spoken(nick, text) == With(From(nick, "PRIVMSG", <<"#auditorium", text>>), {<<"msgid", text>>})
AllFirst(clients, p) == [i \in DOMAIN clients |-> GetAll(clients[i], <<Begins({}, <<p>>)>>)]
AllOnly(clients, p) == [i \in DOMAIN clients |-> GetAll(clients[i], <<Exactly({}, <<p>>)>>)]

AuditoriumNicks == {"bar", "guest1", "guest2", "guest3"}
\* names(): exactly these nicks, with their prefixes
NamesAre(c, items) == <<
    Send(c, "NAMES", <<"#auditorium">>),
    GetAll(c, <<Has(Cmd("RPL_NAMREPLY")),
                Each({"RPL_NAMREPLY"}, Without(With(Cmd("RPL_NAMREPLY"), items),
                                               AuditoriumNicks \ {i[1] : i \in items}))>>)>>

BarSeen == <<"bar", "@">>
AllNames(prefix) == {BarSeen, <<"guest1", prefix>>, <<"guest2", "">>, <<"guest3", "">>}

\* The second part of the test: guest1 is voiced, then guests leave.
AuditoriumVoiced == LET voiced == Msg("MODE", <<"#auditorium", "+", "v", "guest1">>) IN <<
    Mode(1, "#auditorium", "+", "v", <<"guest1">>), GetAll(1, <<Begins({"MODE"}, <<voiced>>)>>)>>
    \o AllOnly(<<2, 3, 4>>, voiced)
    \o NamesAre(1, AllNames("+")) \o NamesAre(3, {BarSeen, <<"guest1", "+">>}) \o NamesAre(4, {BarSeen, <<"guest1", "+">>})

Parts(nick) == From(nick, "PART", <<"#auditorium">>)
AuditoriumParts == <<
    Send(2, "PART", <<"#auditorium">>), GetAll(2, <<Has(Parts("guest1"))>>)>>
    \o AllFirst(<<1, 3, 4>>, Parts("guest1")) \o <<
    Join(2, "#auditorium"), Sync(2), Sync(1),
    Send(3, "PART", <<"#auditorium">>), GetAll(3, <<Has(Parts("guest2"))>>)>>
    \o AllOnly(<<1>>, Parts("guest2")) \o <<Empty(2), Empty(4)>>

AuditoriumQuits == <<
    Send(4, "QUIT", <<>>), AssertDisconnected(4),
    GetAll(1, <<Exactly({"QUIT"}, <<Cmd("QUIT")>>)>>), GetAll(2, <<Lacks(Cmd("QUIT"))>>)>>

AuditoriumFaults == {Deaf("NAMES"), Deaf("MODE"), Deaf("PART"), Leaky("JOIN"), Leaky("QUIT"), Silent("QUIT")}

testAuditorium == Test(AuditoriumFaults, {}, Guest(1, "bar") \o <<
    Mode(1, "#auditorium", "+", "u", <<>>),
    GetAll(1, <<Exactly({"MODE"}, <<Msg("MODE", <<"#auditorium", "+", "u">>)>>)>>)>>
    \o Guest(2, "guest1") \o <<GetAll(1, <<Joined("guest1")>>)>>
    \o Guest(3, "guest2") \o <<GetAll(1, <<Joined("guest2")>>), GetAll(2, <<Lacks(Cmd("JOIN"))>>)>>
    \o Guest(4, "guest3") \o <<
    Send(1, "PRIVMSG", <<"#auditorium", "hi">>), GetAll(1, <<Begins({"PRIVMSG"}, <<Spoken("bar", "hi")>>)>>)>>
    \o AllFirst(<<2, 3, 4>>, Spoken("bar", "hi")) \o <<
    Send(2, "PRIVMSG", <<"#auditorium", "hi you">>), GetAll(2, <<Begins({"PRIVMSG"}, <<Spoken("guest1", "hi you")>>)>>)>>
    \o AllOnly(<<1, 3, 4>>, Spoken("guest1", "hi you"))
    \o NamesAre(1, AllNames("")) \o NamesAre(2, {BarSeen}) \o NamesAre(3, {BarSeen}) \o NamesAre(4, {BarSeen})
    \o AuditoriumVoiced \o AuditoriumParts \o AuditoriumQuits)

-----------------------------------------------------------------------------
(* ergo.py *)

\* What 1 has to be told of a message, and what 2 has.
SpokenFirst(c, text) == GetAll(c, <<Begins({}, <<Msg("PRIVMSG", <<"#chan", text>>)>>)>>)
RegisteredFaults == {Lenient("PRIVMSG"), Deaf("PRIVMSG"), Deaf("MODE"), Silent("ERR_CANNOTSENDTOCHAN")}

testRegisteredOnlySpeakMode == Test(RegisteredFaults, {}, <<RegisterUser("evan")>> \o Chanop("#chan") \o <<
    Mode(1, "#chan", "+", "M", <<>>), GetAll(1, <<Begins({"MODE"}, <<Msg("MODE", <<"#chan", "+", "M">>)>>)>>),
    Connect(2, "baz"), Join(2, "#chan"), Sync(1),
    Send(2, "PRIVMSG", <<"#chan", "hi from baz">>), GetAll(2, <<Has(Cmd("ERR_CANNOTSENDTOCHAN"))>>), Empty(1)>>
    \o SetsModeUnseen("#chan", "+", "v", <<"baz">>) \o <<Sync(2),
    Send(2, "PRIVMSG", <<"#chan", "hi again from baz">>), Empty(2), SpokenFirst(1, "hi again from baz"),
    Login(3, "evan", {"sasl"}, "evan"), Join(3, "#chan"), Sync(2),
    Send(3, "PRIVMSG", <<"#chan", "hi from evan">>), Empty(3), SpokenFirst(2, "hi from evan")>>)

\* +U: those without a voice are heard by the channel operator, not by each other.
testOpModerated == Test({Lenient("PRIVMSG"), Deaf("PRIVMSG"), Deaf("MODE"), Leaky("PRIVMSG")}, {},
    LET said(nick, text) == With(From(nick, "PRIVMSG", <<"#chan", text>>), {<<"msgid", text>>})
        hears(c, nick, text) == GetAll(c, <<Exactly({"PRIVMSG"}, <<said(nick, text)>>)>>)
        echoed(c, nick, text) == GetAll(c, <<Begins({}, <<said(nick, text)>>)>>) IN <<
    ConnectWith(1, "chanop", MODERN_CAPS), Join(1, "#chan"), Sync(1), Mode(1, "#chan", "+", "U", <<>>),
    GetAll(1, <<Has(Cmd("MODE")), Lacks(Cmd("ERR_CHANOPRIVSNEEDED"))>>),
    ConnectWith(2, "baz", MODERN_CAPS), Join(2, "#chan"), Send(2, "PRIVMSG", <<"#chan", "hi from baz">>),
    echoed(2, "baz", "hi from baz"), hears(1, "baz", "hi from baz"),
    ConnectWith(3, "qux", MODERN_CAPS), Join(3, "#chan"), Send(3, "PRIVMSG", <<"#chan", "hi from qux">>),
    echoed(3, "qux", "hi from qux"), hears(1, "qux", "hi from qux"), GetAll(2, <<Lacks(Cmd("PRIVMSG"))>>)>>
    \o SetsModeUnseen("#chan", "+", "v", <<"qux">>) \o <<
    Send(3, "PRIVMSG", <<"#chan", "hi again from qux">>),
    GetAll(3, <<Begins({"PRIVMSG"}, <<said("qux", "hi again from qux")>>)>>),
    hears(1, "qux", "hi again from qux"), hears(2, "qux", "hi again from qux")>>)

-----------------------------------------------------------------------------
(* registeredonly.py: 1 is evan, 2 is shivaram. *)

EvanIsRegisteredOnly == <<
    Mode(1, "evan", "+", "R", <<>>), Get(1, Msg("MODE", <<"evan", "+", "R">>))>>
Evan == Login(1, "evan", {"sasl"}, "evan")
ToEvan(c, text) == Send(c, "PRIVMSG", <<"evan", text>>)
EvanHears(text) == Get(1, Msg("PRIVMSG", <<"evan", text>>))
UmodeFaults == {Deaf("MODE"), Deaf("PRIVMSG")}

testRegisteredOnlyUserMode == Test(UmodeFaults \cup {Lenient("PRIVMSG"), Silent("ERR_NEEDREGGEDNICK")}, {}, <<
    RegisterUser("evan"), RegisterUser("carmen"), Evan, Connect(2, "shivaram")>> \o EvanIsRegisteredOnly \o <<
    Sync(2), ToEvan(2, "hey there"), Get(2, Cmd("ERR_NEEDREGGEDNICK")), Empty(1),
    Login(3, "carmen", {"sasl"}, "carmen"), Sync(1),
    ToEvan(3, "hey there"), Empty(3), EvanHears("hey there")>>)

testRegisteredOnlyUserModeAcceptCommand == Test(UmodeFaults \cup {Lenient("PRIVMSG"), Deaf("ACCEPT")}, {}, <<
    RegisterUser("evan"), Evan, Connect(2, "shivaram")>> \o EvanIsRegisteredOnly \o <<
    Send(1, "ACCEPT", <<"+", "shivaram">>), Sync(1),
    ToEvan(2, "hey there"), Empty(2), EvanHears("hey there"),
    Send(1, "ACCEPT", <<"-", "shivaram">>), Sync(1),
    ToEvan(2, "how's it going"), Get(2, Cmd("ERR_NEEDREGGEDNICK")), Empty(1)>>)

testRegisteredOnlyUserModeAutoAcceptOnDM == Test(UmodeFaults, {}, <<
    RegisterUser("evan"), Evan, Connect(2, "shivaram")>> \o EvanIsRegisteredOnly \o <<
    Send(1, "PRIVMSG", <<"shivaram", "hey there">>), Sync(1), Get(2, Msg("PRIVMSG", <<"shivaram", "hey there">>)),
    ToEvan(2, "how's it going"), Empty(2), EvanHears("how's it going")>>)

-----------------------------------------------------------------------------
RestrictionTestList == testLimitInvalidValues \o <<
    testLimitMode, testLimitRemoval, testLimitChange, testLimitDecrease, testLimitAfterPart,
    testLimitMultipleChannels, testLimitWithInvite,
    testAccountExtbanJoin, testAccountExtbanUnauthed, testAccountExtbanException,
    testAccountExtbanInviteException, testAuditorium, testRegisteredOnlySpeakMode, testOpModerated,
    testRegisteredOnlyUserMode, testRegisteredOnlyUserModeAcceptCommand,
    testRegisteredOnlyUserModeAutoAcceptOnDM>>

=============================================================================
