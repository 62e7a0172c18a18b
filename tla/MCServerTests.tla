--------------------------- MODULE MCServerTests ---------------------------
(***************************************************************************)
(* Every test that is modelled, for TLC.                                   *)
(***************************************************************************)
EXTENDS ServerTests

ChannelTests == INSTANCE ChannelTests
MembershipTests == INSTANCE MembershipTests

PresenceTests == INSTANCE PresenceTests
MonitorTests == INSTANCE MonitorTests
ModeTests == INSTANCE ModeTests
RestrictionTests == INSTANCE RestrictionTests
SessionTests == INSTANCE SessionTests
HistoryTests == INSTANCE HistoryTests
ExtensionTests == INSTANCE ExtensionTests
MetadataTests == INSTANCE MetadataTests
QueryTests == INSTANCE QueryTests
DraftTests == INSTANCE DraftTests

MCTests == ChannelTests!ChannelTestList \o MembershipTests!MembershipTestList
           \o PresenceTests!PresenceTestList \o MonitorTests!MonitorTestList
           \o ModeTests!ModeTestList \o RestrictionTests!RestrictionTestList
           \o SessionTests!SessionTestList \o HistoryTests!HistoryTestList
           \o ExtensionTests!ExtensionTestList \o MetadataTests!MetadataTestList
           \o QueryTests!QueryTestList \o DraftTests!DraftTestList

\* What the first getMessage() of these leaves, a later one returns without
\* waiting for the server.  All others are settled.
MCUnsettledTests == {
    ChannelTests!testUnsetTopicResponses, HistoryTests!testCantRedactOthersPrivmsg,
    HistoryTests!testRedactTagmsg, HistoryTests!testRedactNotRelayedToNonSupportingClients,
    ExtensionTests!testLengthLimits, MetadataTests!testSetClearOtherUser}

ASSUME MCTestsAreSettled ==
    \A t \in DOMAIN MCTests : Settled(MCTests[t].steps) \/ MCTests[t] \in MCUnsettledTests

\* Tests that a server may fail although it does what the specifications ask.
MCFalseAlarms == <<
    RestrictionTests!AccountExtbanJoin(<<"#chan-a", "#chan-account">>),
    SessionTests!testPlainInfiniteMessages({"closes on flood"}),
    SessionTests!testRegistrationDuringSasl({"registers later"}),
    HistoryTests!testMessagesToSelf({"answers later"}),
    MetadataTests!testGetTwoUnsetValid({"keeps *"}),
    QueryTests!testListOne({"pseudo-channels first"}),
    QueryTests!testWhowasNoParamRfc({"errors are ended"}),
    QueryTests!testLuserOpers({"omits zeros"})>>

=============================================================================
