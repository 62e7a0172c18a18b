------------------------------- MODULE IrcState -------------------------------
(***************************************************************************)
(* The server under test, as far as the tests of irctest/server_tests/     *)
(* look at it: what it remembers, and how a command turns into lines sent  *)
(* to clients.  It is a program of its own, external to irctest.           *)
(*                                                                         *)
(* An effect is a server and, for each client, the lines it is being sent. *)
(* A command is an operator from an effect to an effect.  `choices` are    *)
(* the options this server takes where specifications leave one, and       *)
(* `fault` is what it does wrong, NoFault if it conforms.                  *)
(***************************************************************************)
EXTENDS IrcMessages, FiniteSets, SequencesExt, TLC

CONSTANT NumClients     \* bound: clients of a test

ASSUME IrcStateAssumption == NumClients \in Nat

Clients == 1..NumClients
NoFault == <<"none", "">>

NoChannels == [ch \in {} |-> {}]

\* What a client that is not registered yet has said.
NewRegistration ==
    [user |-> FALSE, negotiating |-> FALSE, pass |-> "", pinged |-> FALSE, mech |-> "", data |-> <<>>]

\* A batch of messages that a client sends: its tags and its lines so far.
NoBatch == [name |-> "", target |-> "", tags |-> {}, lines |-> <<>>]

NewServer(fault, choices) ==
    [stage |-> [c \in Clients |-> "none"],     \* none, new, ready, up, closed
     nick |-> [c \in Clients |-> ""], account |-> [c \in Clients |-> ""],
     caps |-> [c \in Clients |-> {}], umodes |-> [c \in Clients |-> {}],
     away |-> [c \in Clients |-> ""], realname |-> [c \in Clients |-> "Realname"],
     reg |-> [c \in Clients |-> NewRegistration], monitors |-> [c \in Clients |-> {}],
     accepts |-> [c \in Clients |-> {}], accounts |-> {}, password |-> "", chans |-> NoChannels,
     keepsHistory |-> FALSE, log |-> <<>>,      \* messages, the oldest first
     asked |-> [c \in Clients |-> <<>>],        \* for history, and not answered yet
     markers |-> {},                            \* what nicks have read of targets
     metadata |-> [c \in Clients |-> {}],       \* keys of users, with their values
     subs |-> [c \in Clients |-> {}],           \* keys a client hears of
     ident |-> [c \in Clients |-> "username"],
     was |-> <<>>,                              \* users that are gone, the last first
     most |-> 0,                                \* users at once, at most
     sending |-> [c \in Clients |-> NoBatch],   \* the batch a client has opened
     fault |-> fault, choices |-> choices]

Online(irc) == {c \in Clients : irc.stage[c] = "up"}
Chooses(irc, option) == option \in irc.choices

\* A check that a command makes, unless the server is lenient about it.
Refused(irc, cmd, condition) == condition /\ irc.fault # <<"lenient", cmd>>

\* The nicks that tests write in two ways.
NickFolding == ("QUX" :> "qux") @@ ("BAR" :> "bar") @@ ("Bar" :> "bar") @@ ("Baz" :> "baz") @@ ("FOO" :> "foo")
               @@ ("Alice" :> "alice") @@ ("ALICE" :> "alice")
FoldedNick(nick) == IF nick \in DOMAIN NickFolding THEN NickFolding[nick] ELSE nick
SameNick(a, b) == FoldedNick(a) = FoldedNick(b)

HasNick(irc, nick) == \E c \in Online(irc) : SameNick(irc.nick[c], nick)
ClientOf(irc, nick) == CHOOSE c \in Online(irc) : SameNick(irc.nick[c], nick)

-----------------------------------------------------------------------------
(* Channels. *)

NewChan == [members |-> {}, o |-> {}, v |-> {}, modes |-> {}, key |-> "", limit |-> "",
            b |-> {}, e |-> {}, I |-> {}, invited |-> {}, topic |-> "", metadata |-> {}, forward |-> ""]

Exists(irc, ch) == ch \in DOMAIN irc.chans
Chan(irc, ch) == IF Exists(irc, ch) THEN irc.chans[ch] ELSE NewChan
OnChannel(irc, c, ch) == c \in Chan(irc, ch).members
IsOp(irc, c, ch) == c \in Chan(irc, ch).o

SetChan(irc, ch, chan) ==
    [irc EXCEPT !.chans = [x \in DOMAIN @ \cup {ch} |-> IF x = ch THEN chan ELSE @[x]]]

DropEmpty(irc) ==
    [irc EXCEPT !.chans = [x \in {y \in DOMAIN @ : @[y].members # {}} |-> @[x]]]

Leave(irc, c, ch) ==
    LET chan == Chan(irc, ch)
    IN  DropEmpty(SetChan(irc, ch, [chan EXCEPT !.members = @ \ {c}, !.o = @ \ {c},
                                                !.v = @ \ {c}]))

\* In an auditorium, those without a status see only those with one.
MembersSeenBy(viewer, chan) ==
    IF "u" \in chan.modes /\ viewer \notin chan.o \cup chan.v
    THEN chan.members \cap (chan.o \cup chan.v) ELSE chan.members

\* What a member of a channel sees of another one, or of itself.
SeesMember(irc, viewer, ch, c) == c = viewer \/ c \in MembersSeenBy(viewer, Chan(irc, ch))

\* The others who see a client in one of its channels.
Peers(irc, c) ==
    {d \in Clients \ {c} : \E ch \in DOMAIN irc.chans :
        OnChannel(irc, c, ch) /\ OnChannel(irc, d, ch) /\ SeesMember(irc, d, ch, c)}

Shares(irc, c, d) == \E ch \in DOMAIN irc.chans : OnChannel(irc, c, ch) /\ OnChannel(irc, d, ch)

\* A mask: everybody, a nick, an account, or anybody with an account.
MaskMatches(irc, c, mask) ==
    \/ mask[1] = "all"
    \/ mask[1] = "nick" /\ SameNick(mask[2], irc.nick[c])
    \/ mask[1] = "account" /\ mask[2] = irc.account[c]
    \/ mask[1] = "unregistered" /\ irc.account[c] = ""

Listed(irc, c, masks) == \E mask \in masks : MaskMatches(irc, c, mask)

-----------------------------------------------------------------------------
(* Effects. *)

NoEffect(irc) == [irc |-> irc, out |-> [c \in Clients |-> <<>>]]

Becomes(e, irc) == [e EXCEPT !.irc = irc]

\* The tags a client may see.
CapOfTag(name) ==
    CASE name = "time" -> "server-time"
      [] name = "account" -> "account-tag"
      [] name = "label" -> "labeled-response"
      [] name = "batch" -> "batch"
      [] name = "draft/relaymsg" -> "draft/relaymsg"
      [] OTHER -> "message-tags"

ForClient(irc, c, m) ==
    [m EXCEPT !.tags = {t \in @ : CapOfTag(t[1]) \in irc.caps[c] \/ irc.fault = <<"leaks", "tags">>}]

\* Each client of S is sent its M(d), a message of command cmd.
TellEach(e, S, cmd, M(_)) ==
    LET to == IF e.irc.fault = <<"leaky", cmd>> THEN Online(e.irc)
              ELSE IF e.irc.fault = <<"silent", cmd>> THEN {} ELSE S
    IN  [e EXCEPT !.out = [d \in Clients |->
            IF d \in to THEN Append(@[d], ForClient(e.irc, d, M(d))) ELSE @[d]]]

Tell(e, S, m) == TellEach(e, S, m.cmd, LAMBDA d : m)

\* A numeric reply has the nick of its client before the other parameters.
Numeric(irc, c, cmd, args) == Line("server", cmd, <<irc.nick[c]>> \o args)
Reply(e, c, cmd, args) == Tell(e, {c}, Numeric(e.irc, c, cmd, args))
ReplyItems(e, c, cmd, args, items) ==
    Tell(e, {c}, Listing(Numeric(e.irc, c, cmd, args), items))

\* The same to a client that may have no nick yet.
NickOrStar(irc, c) == IF irc.nick[c] = "" THEN "*" ELSE irc.nick[c]
ServerLine(irc, c, cmd, args) == Line("server", cmd, <<NickOrStar(irc, c)>> \o args)
Answer(e, c, cmd, args) == Tell(e, {c}, ServerLine(e.irc, c, cmd, args))

Fail(e, c, args) == Tell(e, {c}, Line("server", "FAIL", args))

\* A batch of lines to one client.
InBatch(e, c, type, ms) ==
    LET opened == Tell(e, {c}, Line("server", "BATCH", <<"+", "1">> \o type))
        sent == FoldLeft(LAMBDA f, m : Tell(f, {c}, Tagged(m, {<<"batch", "1">>})), opened, ms)
    IN  Tell(sent, {c}, Line("server", "BATCH", <<"-", "1">>))

\* Tags of the messages a client is the source of.
SenderTags(irc, c) ==
    {<<"time", "now">>}
    \cup (IF irc.account[c] = "" THEN {} ELSE {<<"account", irc.account[c]>>})
    \cup (IF "B" \in irc.umodes[c] /\ irc.fault # <<"silent", "bot">> THEN {<<"bot", "">>} ELSE {})

FromClient(irc, c, cmd, args) == Tagged(Line(irc.nick[c], cmd, args), SenderTags(irc, c))

\* A message that is kept has a msgid and a time: both are its text, which
\* tests do not repeat.
Dated(m, text) == [m EXCEPT !.tags = {t \in @ : t[1] # "time"} \cup {<<"msgid", text>>, <<"time", text>>}]

\* Who is at the end of a conversation: a nick and its account, or a channel.
Identity(irc, c) == <<irc.nick[c], irc.account[c]>>

\* The server remembers a message, if it was set up to.
Remembers(irc, from, to, m) ==
    IF irc.keepsHistory THEN [irc EXCEPT !.log = Append(@, [from |-> from, to |-> to, m |-> m])]
    ELSE irc

\* The time a nick has marked in a target, or "*".
Marker(irc, nick, target) ==
    IF \E k \in irc.markers : k[1] = nick /\ k[2] = target
    THEN (CHOOSE k \in irc.markers : k[1] = nick /\ k[2] = target)[3] ELSE "*"

=============================================================================
