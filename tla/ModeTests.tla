------------------------------ MODULE ModeTests ------------------------------
(***************************************************************************)
(* The tests of channel modes in irctest/server_tests/chmodes/, and of the *)
(* user mode of irctest/server_tests/umodes/.  Masks are pairs: <<"nick",  *)
(* "bar">> stands for bar!*@*, <<"mute", "nick", "bar">> for ~m:bar!*@*.   *)
(***************************************************************************)
EXTENDS TestSteps

Mode(c, chan, sign, letter, arg) == Send(c, "MODE", <<chan, sign, letter>> \o arg)

\* Client 1, the channel operator, sets a mode and sees it set.
SetsMode(chan, sign, letter, arg) == <<Mode(1, chan, sign, letter, arg), Get(1, Cmd("MODE"))>>
SetsModeSeen(chan, sign, letter, arg) == <<
    Mode(1, chan, sign, letter, arg), Get(1, Msg("MODE", <<chan, sign, letter>> \o arg))>>
SetsModeFirst(chan, sign, letter) == <<
    Mode(1, chan, sign, letter, <<>>), GetAll(1, <<Begins({"MODE"}, <<Msg("MODE", <<chan, sign, letter>>)>>)>>)>>
SetsModeAllowed(chan, sign, letter, arg) == <<
    Mode(1, chan, sign, letter, arg), GetAll(1, <<Has(Cmd("MODE")), Lacks(Cmd("ERR_CHANOPRIVSNEEDED"))>>)>>
SetsModeUnseen(chan, sign, letter, arg) == <<Mode(1, chan, sign, letter, arg), Sync(1)>>

Chanop(chan) == <<Connect(1, "chanop"), Join(1, chan), Sync(1)>>
TriesToJoin(c, chan, cmd) == <<Send(c, "JOIN", <<chan>>), Get(c, Cmd(cmd))>>

-----------------------------------------------------------------------------
(* ban.py *)

BanFaults == {Lenient("JOIN"), Deaf("JOIN"), Deaf("MODE"), Silent("ERR_BANNEDFROMCHAN")}

Bans(nick, unbanned) == Test(BanFaults, {},
    Chanop("#chan") \o SetsMode("#chan", "+", "b", <<"nick", nick>>) \o <<Connect(2, "Bar"), Sync(2)>>
    \o TriesToJoin(2, "#chan", "ERR_BANNEDFROMCHAN")
    \o SetsMode("#chan", "-", "b", <<"nick", unbanned>>) \o TriesToJoin(2, "#chan", "JOIN"))

testBan == Bans("bar", "bar")
testCaseInsensitive == Bans("BAR", "bar")

\* A list of one mask, in the old format or in the new one.
OneMaskListed(row, end) == <<
    GetOne(1, <<HasEither(<<Msg(row, <<"chanop", "#chan", "nick", "bar">>),
                            Msg(row, <<"chanop", "#chan", "nick", "bar", "chanop", ANYSTR>>)>>)>>),
    Get(1, Msg(end, <<"chanop", "#chan", ANYSTR>>))>>

testBanList == Test({Deaf("MODE"), Silent("RPL_BANLIST"), Silent("RPL_ENDOFBANLIST")}, {"masks are listed alone"},
    Chanop("#chan") \o SetsMode("#chan", "+", "b", <<"nick", "bar">>)
    \o <<Mode(1, "#chan", "+", "b", <<>>)>> \o OneMaskListed("RPL_BANLIST", "RPL_ENDOFBANLIST"))

testBanException == Test(BanFaults \ {Lenient("MODE")}, {"EXCEPTS"}, <<
    Connect(1, "chanop"), Requires("EXCEPTS"),
    Send(1, "JOIN", <<"#chan">>), Sync(1)>> \o SetsModeUnseen("#chan", "+", "b", <<"nick", "bar">>) \o <<
    Connect(2, "Bar")>> \o TriesToJoin(2, "#chan", "ERR_BANNEDFROMCHAN")
    \o SetsMode("#chan", "+", "e", <<"nick", "bar">>) \o TriesToJoin(2, "#chan", "JOIN"))

-----------------------------------------------------------------------------
(* key.py *)

testKeyNormal == Test({Lenient("JOIN"), Deaf("JOIN"), Deaf("MODE"), Silent("ERR_BADCHANNELKEY")}, {},
    LET refused == GetAll(2, <<Lacks(Cmd("JOIN")), Has(Cmd("ERR_BADCHANNELKEY"))>>) IN <<
    Connect(1, "bar"), Join(1, "#chan"), Mode(1, "#chan", "+", "k", <<"beer">>), Sync(1),
    Connect(2, "qux"), Sync(2),
    Send(2, "JOIN", <<"#chan">>), refused,
    Send(2, "JOIN", <<"#chan", "bees">>), refused,
    Send(2, "JOIN", <<"#chan", "beer">>), GetAll(2, <<Begins({}, <<Msg("JOIN", <<"#chan">>)>>)>>)>>)

\* The key is rejected, or changed into another one, or ignored.
KeyValidation(key, joinKey, faults) ==
    LET joined == Msg("JOIN", <<"#chan">>) IN
    Test(faults, {"invalid parameters are ignored", "keys are rewritten", "ERR_INVALIDKEY"}, <<
    Connect(1, "bar"), Join(1, "#chan"), Mode(1, "#chan", "+", "k", <<key>>),
    GetAllThen(1, <<Lacks(Cmd("ERR_UNKNOWNERROR")),
                    Each({"ERR_INVALIDMODEPARAM"}, Msg("ERR_INVALIDMODEPARAM", <<"bar", "#chan", "k", "*", ANYSTR>>)),
                    ReturnIf(OneOf({"ERR_INVALIDMODEPARAM", "ERR_INVALIDKEY"})),
                    Else(Has(AnyMessage)),
                    Exactly({"MODE"}, <<Cmd("MODE")>>),
                    Lacks(Msg("MODE", <<"#chan", "+", "k", "passphrase with spaces">>))>>, 3),
    Connect(2, "foo"), Send(2, "JOIN", <<"#chan", joinKey>>), GetOne(2, <<Has(joined), ReturnIf(joined)>>),
    Connect(2, "foo"), Send(2, "JOIN", <<"#chan">>), Get(2, joined)>>)

\* Without a parameter that is a key, JOIN has none.
testKeyValidation == <<
    KeyValidation("passphrase with spaces", "passphrase", {Lenient("parameters"), Deaf("JOIN")}),
    KeyValidation("long", "longlonglong", {}),
    KeyValidation("", "", {}), KeyValidation(" ", "", {Lenient("parameters")})>>

-----------------------------------------------------------------------------
(* moderated.py, no_external.py, no_ctcp.py *)

\* Baz is refused, and the channel operator hears nothing.
BazIsRefused == <<
    Send(2, "PRIVMSG", <<"#chan", "hi from baz">>), GetAll(2, <<Has(Cmd("ERR_CANNOTSENDTOCHAN"))>>), Empty(1)>>
BazIsHeard == GetAll(1, <<Begins({}, <<Msg("PRIVMSG", <<"#chan", "hi again from baz">>)>>)>>)
SpeechFaults == {Lenient("PRIVMSG"), Deaf("PRIVMSG"), Deaf("MODE"), Silent("ERR_CANNOTSENDTOCHAN")}

testModeratedMode == Test(SpeechFaults, {}, Chanop("#chan") \o SetsModeFirst("#chan", "+", "m") \o <<
    Connect(2, "baz"), Join(2, "#chan"), Sync(1)>> \o BazIsRefused \o
    SetsModeUnseen("#chan", "+", "v", <<"baz">>) \o <<
    Sync(2), Send(2, "PRIVMSG", <<"#chan", "hi again from baz">>), Sync(2), BazIsHeard>>)

testNoExternalMessagesMode == Test(SpeechFaults, {}, <<Connect(1, "chanop"), Join(1, "#chan")>>
    \o SetsModeUnseen("#chan", "+", "n", <<>>) \o <<Connect(2, "baz")>> \o BazIsRefused
    \o SetsModeFirst("#chan", "-", "n") \o <<
    Send(2, "PRIVMSG", <<"#chan", "hi again from baz">>), Sync(2), BazIsHeard>>)

testNoctcpMode == Test({Lenient("PRIVMSG"), Deaf("PRIVMSG"), Deaf("MODE"), Silent("ERR_CANNOTSENDTOCHAN")}, {"CHANMODES=C"},
    LET sends(text) == Send(2, "PRIVMSG", <<"#chan", text>>)
        heard(text) == Msg("PRIVMSG", <<"#chan", text>>) IN <<
    Connect(1, "chanop"), Requires("CHANMODES=C"),
    Send(1, "JOIN", <<"#chan">>), Sync(1),
    Connect(2, "user"), Send(2, "JOIN", <<"#chan">>), Sync(2), Sync(1),
    sends("ctcp ACTION"), sends("ctcp PING"), Empty(2),
    GetAll(1, <<Exactly({}, <<heard("ctcp ACTION"), heard("ctcp PING")>>)>>)>>
    \o SetsModeUnseen("#chan", "+", "C", <<>>) \o <<Sync(2),
    sends("ctcp ACTION"), Empty(2),
    sends("ctcp PING"), Get(2, Msg("ERR_CANNOTSENDTOCHAN", <<"user", "#chan", ANYSTR>>)),
    GetAll(1, <<Exactly({}, <<heard("ctcp ACTION")>>)>>)>>)

-----------------------------------------------------------------------------
(* secret.py *)

Lists(c, checks) == <<Send(c, "LIST", <<>>), GetAll(c, checks)>>
OnlyListed(chans, all) ==
    SetToSeq({Has(Msg("RPL_LIST", <<ANYSTR, chan, ANYLIST>>)) : chan \in chans}
             \cup {Lacks(Msg("RPL_LIST", <<ANYSTR, chan, ANYLIST>>)) : chan \in all \ chans})

testSecretChannelListCommand == Test({Deaf("LIST"), Deaf("MODE"), Lenient("LIST"), Silent("RPL_LIST")}, {},
    <<Connect(1, "first"), Join(1, "#gen"), Sync(1), Mode(1, "#gen", "+", "s", <<>>)>>
    \o Lists(1, OnlyListed({"#gen"}, {"#gen"})) \o <<Connect(2, "second"), Sync(2)>>
    \o Lists(2, OnlyListed({}, {"#gen"})) \o <<Join(2, "#gen")>> \o Lists(2, OnlyListed({"#gen"}, {"#gen"})))

-----------------------------------------------------------------------------
(* operator.py: 1 is chanop, 2 unprivileged, 3 unrelated. *)

setupNicks == <<
    Connect(1, "chanop"), Join(1, "#chan"),
    Connect(2, "unprivileged"), Join(2, "#chan"), Sync(1),
    Connect(3, "unrelated"), Join(3, "#unrelated"), Join(2, "#unrelated"), Sync(3)>>

\* Of the numerics `cmds`, client c is sent one and nothing else.
OpFails(faults, c, chan, nick, cmds) == Test({Deaf("MODE")} \cup faults, {}, setupNicks \o <<
    Mode(c, chan, "+", "o", <<nick>>), GetAll(c, <<Exactly({}, <<OneOf(cmds)>>)>>)>>)

testChannelOperatorModeSenderPrivsNeeded ==
    OpFails({Lenient("MODE"), Silent("ERR_CHANOPRIVSNEEDED")}, 2, "#chan", "unprivileged", {"ERR_CHANOPRIVSNEEDED"})
testChannelOperatorModeTargetNotInChannel == OpFails({}, 1, "#chan", "unrelated", {"ERR_USERNOTINCHANNEL"})
testChannelOperatorModeTargetDoesNotExist == OpFails({}, 1, "#chan", "nobody", {"ERR_NOSUCHNICK"})
testChannelOperatorModeChannelDoesNotExist == OpFails({}, 1, "#nonexistentchan", "chanop", {"ERR_NOSUCHCHANNEL"})
testChannelOperatorModeChannelAndTargetDoNotExist ==
    OpFails({}, 1, "#nonexistentchan", "nobody", {"ERR_NOSUCHCHANNEL", "ERR_NOTONCHANNEL", "ERR_USERNOTINCHANNEL"})
testChannelOperatorModeSenderNonMember ==
    OpFails({Lenient("MODE")}, 1, "#unrelated", "unprivileged", {"ERR_NOTONCHANNEL", "ERR_CHANOPRIVSNEEDED"})
testChannelOperatorModeSenderAndTargetNonMembers ==
    OpFails({}, 1, "#unrelated", "chanop", {"ERR_NOTONCHANNEL", "ERR_CHANOPRIVSNEEDED", "ERR_USERNOTINCHANNEL"})

testChannelOperatorModeSuccess == Test({Deaf("MODE"), Silent("MODE")}, {},
    LET granted == Exactly({}, <<Msg("MODE", <<"#chan", "+", "o", "unprivileged">>)>>) IN setupNicks \o <<
    Mode(1, "#chan", "+", "o", <<"unprivileged">>), GetAll(1, <<granted>>), GetAll(2, <<granted>>)>>)

-----------------------------------------------------------------------------
(* modeis.py: the channel has no mode but those the test sets. *)

ModeIs(letters) == <<
    Send(1, "MODE", <<"#chan">>),
    GetAll(1, <<Has(Cmd("RPL_CHANNELCREATED")), OnlyCommands({"RPL_CHANNELMODEIS", "RPL_CHANNELCREATED"}),
                Has(Without(With(Msg("RPL_CHANNELMODEIS", <<"chanop", "#chan">>), {<<l, "">> : l \in letters}),
                            {"i", "n", "t"} \ letters))>>)>>

testChannelModeIs == Test({Deaf("MODE"), Silent("RPL_CHANNELMODEIS"), Silent("RPL_CHANNELCREATED"), Silent("MODE")}, {},
    LET int == {<<"i", "">>, <<"n", "">>, <<"t", "">>} IN <<
    Connect(1, "chanop"), Join(1, "#chan"),
    SendList(1, "MODE", <<"#chan", "+">>, int), Sync(1)>> \o ModeIs({"i", "n", "t"}) \o <<
    SendList(1, "MODE", <<"#chan", "-">>, int), Get(1, With(Msg("MODE", <<"#chan", "-">>), int))>> \o ModeIs({}))

-----------------------------------------------------------------------------
(* invite_exception.py *)

\* getInviteExceptionMode(), of a server with or without INVEX.
InviteOnlyFaults == {Deaf("MODE"), Deaf("JOIN"), Lenient("JOIN")}
ExceptionTest(faults, steps) == Test(faults, {"INVEX"}, <<
    Connect(1, "chanop"), Requires("INVEX"), Join(1, "#chan"), Sync(1)>> \o steps)

SetInviteOnly == SetsModeUnseen("#chan", "+", "i", <<>>)
Excepts(sign, nick) == SetsModeSeen("#chan", sign, "I", <<"nick", nick>>)

testInviteException == ExceptionTest(InviteOnlyFaults, SetInviteOnly \o <<Connect(2, "Bar")>>
    \o TriesToJoin(2, "#chan", "ERR_INVITEONLYCHAN") \o Excepts("+", "bar") \o TriesToJoin(2, "#chan", "JOIN"))

testInviteExceptionList == Test({Deaf("MODE"), Silent("RPL_INVEXLIST"), Silent("RPL_ENDOFINVEXLIST")},
    {"INVEX", "masks are listed alone"}, <<
    Connect(1, "chanop"), Requires("INVEX"), Join(1, "#chan"), Sync(1)>> \o Excepts("+", "bar")
    \o <<Mode(1, "#chan", "+", "I", <<>>)>> \o OneMaskListed("RPL_INVEXLIST", "RPL_ENDOFINVEXLIST"))

testInviteExceptionRemoval == ExceptionTest(InviteOnlyFaults \cup {Deaf("PART")}, SetInviteOnly \o Excepts("+", "bar")
    \o <<Connect(2, "Bar")>> \o TriesToJoin(2, "#chan", "JOIN") \o <<
    Send(2, "PART", <<"#chan">>), Sync(2), Sync(1)>>
    \o Excepts("-", "bar") \o TriesToJoin(2, "#chan", "ERR_INVITEONLYCHAN"))

testInviteExceptionWithoutInviteOnly == ExceptionTest({Deaf("MODE"), Deaf("JOIN")}, Excepts("+", "bar")
    \o <<Connect(2, "Baz")>> \o TriesToJoin(2, "#chan", "JOIN"))

testInviteExceptionMultipleMasks == ExceptionTest(InviteOnlyFaults, SetInviteOnly \o Excepts("+", "bar") \o <<
    Connect(2, "Bar")>> \o TriesToJoin(2, "#chan", "JOIN") \o <<Sync(1),
    Connect(3, "Baz")>> \o TriesToJoin(3, "#chan", "ERR_INVITEONLYCHAN") \o Excepts("+", "baz")
    \o TriesToJoin(3, "#chan", "JOIN"))

-----------------------------------------------------------------------------
(* mute_extban.py *)

MuteFaults == {Lenient("PRIVMSG"), Deaf("PRIVMSG"), Deaf("MODE"), Silent("ERR_CANNOTSENDTOCHAN")}

\* A server without mutes skips the test; it may say so in two ways.
MutesSupported == Requires("EXTBAN=m")
Mutes(sign, nick) == SetsModeAllowed("#chan", sign, "b", <<"mute", "nick", nick>>)

MutedJoins(nick, name) == Chanop("#chan") \o Mutes("+", nick) \o <<
    ConnectWith(2, name, {"echo-message"}), Join(2, "#chan"), Sync(1), Sync(2)>>

IsMuted == <<
    Send(2, "PRIVMSG", <<"#chan", "hi">>),
    GetAll(2, <<Lacks(Cmd("PRIVMSG")), Has(Cmd("ERR_CANNOTSENDTOCHAN"))>>), Empty(1)>>

IsNotMuted == <<
    Send(2, "PRIVMSG", <<"#chan", "hi again">>),
    GetAll(2, <<Has(Cmd("PRIVMSG")), Lacks(Cmd("ERR_CANNOTSENDTOCHAN"))>>),
    GetAll(1, <<Exactly({}, <<Msg("PRIVMSG", <<"#chan", "hi again">>)>>)>>)>>

testMuteExtban == Test(MuteFaults \cup {Silent("RPL_BANLIST")}, {"EXTBAN=m"},
    <<MutesSupported>> \o MutedJoins("bar", "bar") \o <<
    Mode(2, "#chan", "+", "b", <<>>),
    Get(2, Msg("RPL_BANLIST", <<"bar", "#chan", "mute", "nick", "bar", "chanop", ANYLIST>>)), Sync(2)>>
    \o IsMuted \o <<Sync(1)>> \o Mutes("-", "bar") \o IsNotMuted)

testMuteExtbanVoiced == Test(MuteFaults, {"EXTBAN=m"}, <<MutesSupported>> \o MutedJoins("qux", "qux")
    \o IsMuted \o <<Sync(1), Sync(2)>> \o SetsModeAllowed("#chan", "+", "v", <<"qux">>) \o IsNotMuted)

testMuteExtbanExempt == Test(MuteFaults, {"EXTBAN=m", "EXCEPTS"},
    <<MutesSupported, Requires("EXCEPTS")>> \o MutedJoins("qux", "qux")
    \o IsMuted \o <<Sync(1), Sync(2)>>
    \o SetsModeAllowed("#chan", "+", "e", <<"mute", "nick", "qux">>) \o <<Sync(2)>> \o IsNotMuted)

testCapitalization == Test(MuteFaults, {}, MutedJoins("BAR", "Bar") \o IsMuted \o Mutes("-", "bar") \o IsNotMuted)

-----------------------------------------------------------------------------
ModeTestList == testKeyValidation \o <<
    testBan, testBanList, testBanException, testCaseInsensitive, testKeyNormal,
    testModeratedMode, testNoExternalMessagesMode, testNoctcpMode, testSecretChannelListCommand,
    testChannelOperatorModeSenderPrivsNeeded, testChannelOperatorModeTargetNotInChannel,
    testChannelOperatorModeTargetDoesNotExist, testChannelOperatorModeChannelDoesNotExist,
    testChannelOperatorModeChannelAndTargetDoNotExist, testChannelOperatorModeSenderNonMember,
    testChannelOperatorModeSenderAndTargetNonMembers, testChannelOperatorModeSuccess,
    testChannelModeIs, testInviteException, testInviteExceptionList, testInviteExceptionRemoval,
    testInviteExceptionWithoutInviteOnly, testInviteExceptionMultipleMasks,
    testMuteExtban, testMuteExtbanVoiced, testMuteExtbanExempt, testCapitalization>>

=============================================================================
