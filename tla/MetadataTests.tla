---------------------------- MODULE MetadataTests ----------------------------
(***************************************************************************)
(* The tests of irctest/server_tests/metadata_3.py: the keys of users and  *)
(* of channels, and those who subscribe to them.                           *)
(*                                                                         *)
(* METADATA has its keys in parameters of their own, and the keys that     *)
(* RPL_METADATASUBOK acknowledges are its items.                           *)
(***************************************************************************)
EXTENDS TestSteps

METADATA_CAP_NAME == "draft/metadata-3"
CLIENT_NICKS == <<"foo", "bar">>

ConnectFoo == ConnectWith(1, "foo", {METADATA_CAP_NAME, "batch"})
ConnectBar == ConnectWith(2, "bar", {METADATA_CAP_NAME, "batch"})
FooAndBar  == <<ConnectFoo, ConnectBar>>
OnChan     == <<Join(1, "#chan"), Join(2, "#chan"), Sync(1)>>
FooAndBarOnChan == FooAndBar \o OnChan

Metadata(c, target, sub, args) == Send(c, "METADATA", <<target, sub>> \o args)

\* Exactly these messages in a batch, in the order of ps.
InMetadataBatch(ps) ==
    <<Exactly({}, <<Msg("BATCH", <<"+", ANYSTR, "metadata", ANYLIST>>)>> \o ps \o <<Msg("BATCH", <<"-", ANYSTR>>)>>)>>
getMetadataBatchMessages(c, checks) ==
    GetAll(c, <<Begins({}, <<Msg("BATCH", <<"+", ANYSTR, "metadata", ANYLIST>>)>>),
                Ends(Msg("BATCH", <<"-", ANYSTR>>))>> \o checks)

Keys(keys) == {<<key, "">> : key \in {keys[i] : i \in DOMAIN keys}}
Acknowledgement == Msg("RPL_METADATASUBOK", <<"bar">>)
sub(keys) == <<
    Metadata(2, "*", "SUB", keys),
    GetAll(2, <<OnlyCommands({"RPL_METADATASYNCLATER", "RPL_METADATASUBOK"}),
                Together({"RPL_METADATASUBOK"}, With(Acknowledgement, Keys(keys)))>>)>>

\* A numeric about a key; "*" may have become a nick.
AboutKey(cmd, c, target, rest) ==
    LET p == Msg(cmd, <<CLIENT_NICKS[c], target>> \o rest)
    IN  IF target = "*" THEN Either(p, 2, CLIENT_NICKS[c]) ELSE p
KeyValue(c, target, key, value) == AboutKey("RPL_KEYVALUE", c, target, <<key, ANYSTR, value>>)
KeyNotSet(c, target, key)       == AboutKey("RPL_KEYNOTSET", c, target, <<key, ANYSTR>>)
BeforeConnect(p) == Either(p, 1, "*")

assertSetValue(c, target, key, value) ==
    <<Metadata(c, target, "SET", <<key, value>>), Get(c, KeyValue(c, target, key, value))>>
assertUnsetValue(c, target, key) ==
    <<Metadata(c, target, "SET", <<key>>), Get(c, KeyNotSet(c, target, key))>>
assertGetValue(c, target, key, value) ==
    <<Metadata(c, target, "GET", <<key>>), GetAll(c, InMetadataBatch(<<KeyValue(c, target, key, value)>>))>>
assertValueNotSet(c, target, key) ==
    <<Metadata(c, target, "GET", <<key>>), GetAll(c, InMetadataBatch(<<KeyNotSet(c, target, key)>>))>>
assertSetGetValue(c, target, key, value) ==
    assertSetValue(c, target, key, value) \o assertGetValue(c, target, key, value)
assertUnsetGetValue(c, target, key) == assertUnsetValue(c, target, key) \o assertValueNotSet(c, target, key)

\* listMetadata(), and what the dict it returns is compared with.
ListsExactly(c, target, pairs) == <<
    Metadata(c, target, "LIST", <<>>),
    getMetadataBatchMessages(c, <<
        Inner(Cmd("RPL_KEYVALUE")),
        Covers({"RPL_KEYVALUE"}, [i \in DOMAIN pairs |->
            Msg("RPL_KEYVALUE", <<ANYSTR, ANYSTR, pairs[i][1], ANYSTR, pairs[i][2]>>)])>>)>>

Hears(cmd, owner, rest) == Get(2, Msg(cmd, <<ANYSTR, owner>> \o rest))
HearsValue(owner, value) == Hears("RPL_KEYVALUE", owner, <<"display-name", ANYSTR, value>>)

\* Faults that tests of these must notice, and what they leave to servers.
SetFaults == {<<"forgets", "SET">>, Silent("RPL_KEYVALUE")}
MetadataChoices == {"keeps *", "metadata is for channels"}
SubFaults == {<<"forgets", "SUB">>, <<"silent", "metadata">>}
SubChoices == MetadataChoices \cup {"SYNC later", "one SUBOK per key"}

-----------------------------------------------------------------------------
(* Keys of a user *)

testGetOneUnsetValid == Test({Deaf("METADATA"), Silent("RPL_KEYNOTSET")}, MetadataChoices, <<
    ConnectFoo, Metadata(1, "*", "GET", <<"display-name">>),
    GetAll(1, InMetadataBatch(<<With(Cmd("RPL_KEYNOTSET"), {<<"batch", ANYSTR>>})>>))>>)

\* Unlike assertValueNotSet(), it asks for the nick where the client wrote "*".
testGetTwoUnsetValid(choices) ==
    LET unset(key) == Msg("RPL_KEYNOTSET", <<"foo", "foo", key, ANYSTR>>) IN
    Test({Deaf("METADATA"), Silent("RPL_KEYNOTSET")}, choices, <<
    ConnectFoo, Metadata(1, "*", "GET", <<"display-name", "avatar">>),
    GetAll(1, InMetadataBatch(<<unset("display-name"), unset("avatar")>>))>>)

testListNoSet == Test({Deaf("METADATA")}, MetadataChoices, <<
    ConnectFoo, Metadata(1, "*", "LIST", <<>>), GetAll(1, InMetadataBatch(<<>>))>>)
testListInvalidTarget == Test({Deaf("METADATA"), <<"wrong", "RPL_METADATAEND">>}, MetadataChoices, <<
    ConnectFoo, Metadata(1, "foobar", "LIST", <<>>),
    Get(1, Msg("FAIL", <<"METADATA", "INVALID_TARGET", "foobar", ANYSTR>>)),
    GetAll(1, <<Lacks(Cmd("RPL_METADATAEND"))>>)>>)

\* The get_target of its parameters is not used.
testSetGetUser(set_target) ==
    Test(SetFaults, MetadataChoices, <<ConnectFoo>> \o assertSetGetValue(1, set_target, "display-name", "Foo The First"))
testSetGetUserAgain ==
    Test(SetFaults, MetadataChoices,
    <<ConnectFoo>> \o assertSetGetValue(1, "*", "display-name", "Foo The First")
    \o assertSetGetValue(1, "*", "display-name", "Foo The Second"))
testSetUnsetUser ==
    Test(SetFaults \cup {<<"forgets", "unset">>}, MetadataChoices,
    <<ConnectFoo>> \o assertSetGetValue(1, "*", "display-name", "Foo The First")
    \o assertUnsetGetValue(1, "*", "display-name"))
testSetGetHeartInValue ==
    Test(SetFaults, MetadataChoices, <<ConnectFoo>> \o assertSetGetValue(1, "*", "display-name", "->heart<-"))

testGetOtherUser ==
    Test(SetFaults \cup {<<"leaks", "metadata">>}, MetadataChoices, FooAndBar \o <<
    Send(1, "JOIN", <<"#chan">>), Send(2, "JOIN", <<"#chan">>), Sync(1), Sync(2), Sync(1)>>
    \o assertSetValue(1, "*", "display-name", "Foo The First") \o <<Empty(2)>>
    \o assertGetValue(2, "foo", "display-name", "Foo The First"))

testWhoisKeyValue ==
    Test({<<"forgets", "SET">>, Silent("RPL_WHOISKEYVALUE"), <<"leaks", "metadata">>}, MetadataChoices, FooAndBarOnChan
    \o assertSetValue(1, "*", "display-name", "Foo The First") \o <<
    Empty(2), Send(2, "WHOIS", <<"foo">>),
    GetAll(2, <<Exactly({"RPL_WHOISKEYVALUE"},
                        <<Msg("RPL_WHOISKEYVALUE", <<"bar", "foo", "display-name", ANYSTR, "Foo The First">>)>>)>>)>>)

testSetClearOtherUser ==
    LET forbidden(key) == Get(1, Msg("FAIL", <<"METADATA", "KEY_NO_PERMISSION", "bar", key, ANYSTR>>)) IN
    Test({Lenient("METADATA"), Silent("FAIL"), <<"forgets", "SET">>}, MetadataChoices, FooAndBarOnChan
    \o assertSetValue(2, "*", "color", "#c90076") \o <<
    Sync(2), Metadata(1, "bar", "SET", <<"display-name", "Totally Not Foo">>), forbidden("display-name"), Empty(2),
    Metadata(1, "bar", "CLEAR", <<>>), forbidden("*"), Empty(2)>>
    \o ListsExactly(2, "*", <<<<"color", "#c90076">>>>))

testSubUser ==
    Test(SubFaults \cup {<<"forgets", "unset">>}, SubChoices, FooAndBar \o sub(<<"avatar", "display-name">>) \o <<
    Send(1, "JOIN", <<"#chan">>), Send(2, "JOIN", <<"#chan">>), Sync(1), Sync(2), Sync(1)>>
    \o assertSetGetValue(1, "*", "display-name", "Foo The First") \o <<HearsValue("foo", "Foo The First")>>
    \o assertSetGetValue(1, "*", "display-name", "Foo The Second") \o <<HearsValue("foo", "Foo The Second")>>
    \o assertUnsetGetValue(1, "*", "display-name") \o <<Hears("RPL_KEYNOTSET", "foo", <<"display-name", ANYSTR>>)>>)

\* What is heard of an owner when it is joined, or joins.
HeardWhenJoining(owner, value) ==
    <<Send(2, "JOIN", <<"#chan">>),
      GetAll(2, <<Exactly({"RPL_KEYVALUE"},
                          <<Msg("RPL_KEYVALUE", <<ANYSTR, owner, "display-name", ANYSTR, value>>)>>)>>)>>

testSubUserSetBeforeJoin ==
    Test(SubFaults \cup {<<"leaks", "metadata">>}, SubChoices, FooAndBar \o sub(<<"display-name", "avatar">>)
    \o assertSetGetValue(1, "*", "display-name", "Foo The First") \o <<Empty(2), Send(1, "JOIN", <<"#chan">>), Sync(1)>>
    \o HeardWhenJoining("foo", "Foo The First"))

-----------------------------------------------------------------------------
(* Keys of a channel *)

testSetGetChannel ==
    Test(SetFaults \cup {<<"leaks", "metadata">>}, MetadataChoices, FooAndBarOnChan
    \o assertSetGetValue(1, "#chan", "display-name", "Hash Channel") \o <<Empty(2)>>
    \o assertGetValue(2, "#chan", "display-name", "Hash Channel"))
testSetUnsetChannel ==
    Test(SetFaults \cup {<<"forgets", "unset">>, <<"leaks", "metadata">>}, MetadataChoices, FooAndBarOnChan
    \o assertSetGetValue(1, "#chan", "display-name", "Hash Channel")
    \o assertUnsetGetValue(1, "#chan", "display-name") \o <<Empty(2)>>
    \o assertValueNotSet(2, "#chan", "display-name"))

HashChannel == <<"display-name", "Hash Channel">>
Avatar      == <<"avatar", "https://example.com/chan.png">>
SetsBoth ==
    assertSetValue(1, "#chan", HashChannel[1], HashChannel[2]) \o assertSetValue(1, "#chan", Avatar[1], Avatar[2])
    \o <<Sync(1)>>

testListChannel ==
    Test(SetFaults \cup {<<"forgets", "unset">>}, MetadataChoices, FooAndBarOnChan \o SetsBoth
    \o ListsExactly(1, "#chan", <<HashChannel, Avatar>>) \o ListsExactly(2, "#chan", <<HashChannel, Avatar>>)
    \o assertUnsetValue(1, "#chan", "display-name") \o ListsExactly(1, "#chan", <<Avatar>>))

\* That the keys are gone is not looked at.
testClearChannel ==
    LET cleared(key) == Msg("RPL_KEYNOTSET", <<"foo", "#chan", key, ANYSTR>>) IN
    Test({<<"forgets", "CLEAR">>, <<"forgets", "SET">>}, MetadataChoices, <<ConnectFoo, Join(1, "#chan")>> \o SetsBoth \o <<
    Metadata(1, "#chan", "CLEAR", <<>>),
    getMetadataBatchMessages(1, <<Inner(cleared(ANYSTR)),
                                  Permutation({"RPL_KEYNOTSET"}, <<cleared("avatar"), cleared("display-name")>>)>>)>>)

testSetGetChannelNotOp ==
    Test({Lenient("METADATA"), Silent("FAIL")}, MetadataChoices, FooAndBarOnChan \o <<
    Metadata(2, "#chan", "SET", <<"display-name", "Sharp Channel">>),
    Get(2, Msg("FAIL", <<"METADATA", "KEY_NO_PERMISSION", "#chan", "display-name", ANYSTR>>)), Empty(1)>>)

\* An answer, which has not the value.
testGetListSyncInviteOnlyChannel ==
    LET secret == "Invite Only Chan"
        asks(subcommand, keys) == <<
            Metadata(2, "#chan", subcommand, keys),
            GetAll(2, <<Lacks(Msg("RPL_KEYVALUE", <<ANYSTR, ANYSTR, ANYSTR, ANYSTR, secret>>)), Has(AnyMessage)>>)>> IN
    Test({Lenient("METADATA"), Silent("FAIL")}, SubChoices, FooAndBar \o sub(<<"display-name">>) \o <<Join(1, "#chan")>>
    \o assertSetValue(1, "#chan", "display-name", secret) \o <<
    Sync(1), Send(1, "MODE", <<"#chan", "+", "i">>), Sync(1)>>
    \o asks("GET", <<"display-name">>) \o asks("LIST", <<>>) \o asks("SYNC", <<>>))

testSubChannel ==
    Test(SubFaults, SubChoices, FooAndBar \o sub(<<"avatar", "display-name">>) \o OnChan
    \o assertSetGetValue(1, "#chan", "display-name", "Hash Channel") \o <<HearsValue("#chan", "Hash Channel")>>
    \o assertSetGetValue(1, "#chan", "display-name", "Harsh Channel") \o <<HearsValue("#chan", "Harsh Channel")>>)

testSubChannelSetBeforeJoin ==
    Test(SubFaults \cup {<<"leaks", "metadata">>}, SubChoices, FooAndBar \o sub(<<"display-name", "avatar">>)
    \o <<Send(1, "JOIN", <<"#chan">>), Sync(1)>>
    \o assertSetGetValue(1, "#chan", "display-name", "Hash Channel") \o <<Empty(2)>>
    \o HeardWhenJoining("#chan", "Hash Channel"))

-----------------------------------------------------------------------------
(* Registration, and values that are refused *)

\* A message with the tag of a batch is one between its ends.
testSetGetValidBeforeConnect ==
    LET supported == Has(With(Cmd("CAP"), {<<METADATA_CAP_NAME, "before-connect">>}))
        shown == Msg("RPL_KEYVALUE", <<ANYSTR, "foo", "display-name", ANYSTR, "Foo The First">>) IN
    Test({<<"forgets", "SET">>, <<"silent", "burst">>}, MetadataChoices \cup {"before-connect"}, <<
    AddClient(1), Send(1, "CAP", <<"LS", "302">>),
    GetCapLs(1, <<[supported EXCEPT !.otherwise = "unsupported"]>>)>>
    \o RequestCapabilities(1, {METADATA_CAP_NAME, "batch"}) \o <<
    Metadata(1, "*", "SET", <<"display-name", "Foo The First">>),
    Get(1, BeforeConnect(KeyValue(1, "*", "display-name", "Foo The First"))),
    Send(1, "NICK", <<"foo">>), Send(1, "USER", <<"foo", "foo">>), Send(1, "CAP", <<"END">>),
    GetAll(1, <<Has(Msg("BATCH", <<"+", ANYSTR, "metadata", ANYLIST>>)), Has(With(shown, {<<"batch", ANYSTR>>}))>>)>>
    \o assertGetValue(1, "*", "display-name", "Foo The First"))

SetInvalidValue(value) ==
    Test({Lenient("value"), Silent("FAIL"), <<"forgets", "SUB">>}, SubChoices \cup {"INVALID_UTF8"}, FooAndBarOnChan \o <<
    Metadata(2, "*", "SUB", <<"display-name">>),
    GetAll(2, <<Begins({}, <<With(Acknowledgement, Keys(<<"display-name">>))>>)>>),
    Metadata(1, "*", "SET", <<"display-name", "invalid UTF-8">>), GetAll(1, <<Lacks(Cmd("RPL_KEYVALUE"))>>),
    Metadata(1, "*", "SET", <<"display-name", value>>),
    GetAll(1, <<Exactly({}, <<Cmd("FAIL")>>),
                HasEither(<<Msg("FAIL", <<"METADATA", "INVALID_VALUE", ANYSTR, ANYSTR>>),
                            Msg("FAIL", <<"METADATA", "INVALID_UTF8", ANYSTR>>)>>)>>),
    Empty(2)>>)

testSetInvalidUtf8  == SetInvalidValue("invalid UTF-8")
testSetTooManyChars == SetInvalidValue("too many chars")
testSetTooManyBytes == SetInvalidValue("too many bytes")

-----------------------------------------------------------------------------
MetadataTestList == <<
    testGetOneUnsetValid, testGetTwoUnsetValid({"metadata is for channels"}), testListNoSet, testListInvalidTarget,
    testSetGetUser("*"), testSetGetUser("foo"), testSetGetUserAgain, testSetUnsetUser, testSetGetHeartInValue,
    testGetOtherUser, testWhoisKeyValue, testSetClearOtherUser, testSubUser, testSubUserSetBeforeJoin,
    testSetGetChannel, testSetUnsetChannel, testListChannel, testClearChannel, testSetGetChannelNotOp,
    testGetListSyncInviteOnlyChannel, testSubChannel, testSubChannelSetBeforeJoin, testSetGetValidBeforeConnect,
    testSetInvalidUtf8, testSetTooManyChars, testSetTooManyBytes>>

=============================================================================
