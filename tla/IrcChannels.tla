----------------------------- MODULE IrcChannels -----------------------------
(***************************************************************************)
(* The channel commands of the server under test: JOIN, PART, KICK, TOPIC, *)
(* INVITE, NAMES, MODE, and messages.                                      *)
(***************************************************************************)
EXTENDS IrcState

InvalidChannels == {"inv@lid", "invalid"}

(* NAMES *)

Symbol(chan) == IF "s" \in chan.modes THEN "@" ELSE "="

PrefixSeenBy(irc, viewer, chan, c) ==
    IF c \in chan.o THEN IF c \in chan.v /\ "multi-prefix" \in irc.caps[viewer] THEN "@+" ELSE "@"
    ELSE IF c \in chan.v THEN "+" ELSE ""

NamReply(e, c, ch) ==
    LET chan == Chan(e.irc, ch)
    IN  ReplyItems(e, c, "RPL_NAMREPLY", <<Symbol(chan), ch>>,
            {<<e.irc.nick[d], PrefixSeenBy(e.irc, c, chan, d)>> :
                d \in MembersSeenBy(c, chan)})

EndOfNames(e, c, name) == Reply(e, c, "RPL_ENDOFNAMES", <<name, "end">>)

Hidden(irc, c, ch) == Chan(irc, ch).modes \cap {"s", "p"} # {} /\ ~OnChannel(irc, c, ch)

\* NAMES of channels, in the order they are given or, without any, of all.
NAMES(e, c, names, listed) ==
    LET shown(ch) == Exists(e.irc, ch) /\ ~Refused(e.irc, "NAMES", Hidden(e.irc, c, ch))
        replies == FoldLeft(LAMBDA f, ch : NamReply(f, c, ch), e, SelectSeq(names, shown))
    IN  EndOfNames(replies, c, listed)

-----------------------------------------------------------------------------
(* JOIN *)

JoinRefusals(irc, c, ch, key) ==
    LET chan == Chan(irc, ch)
        invited == c \in chan.invited \/ Listed(irc, c, chan.I)
        full == /\ chan.limit # "" /\ (c \in chan.invited => Chooses(irc, "INVITE does not override +l"))
                /\ Cardinality(chan.members) >= CHOOSE n \in 0..9 : ToString(n) = chan.limit
    IN  {r \in {<<"ERR_BADCHANNELKEY", "k" \in chan.modes /\ key # chan.key>>,
                <<"ERR_INVITEONLYCHAN", "i" \in chan.modes /\ ~invited>>,
                <<"ERR_BANNEDFROMCHAN", /\ Listed(irc, c, chan.b) /\ ~Listed(irc, c, chan.e)
                                        /\ c \notin chan.invited>>,
                <<"ERR_NEEDREGGEDNICK", "R" \in chan.modes /\ irc.account[c] = "" /\ ~invited>>,
                <<"ERR_CHANNELISFULL", full>>} :
            r[2]}

JoinLine(irc, c, ch, viewer) ==
    Tagged(FromClient(irc, c, "JOIN",
               IF "extended-join" \in irc.caps[viewer]
               THEN <<ch, IF irc.account[c] = "" THEN "*" ELSE irc.account[c], "Realname">>
               ELSE <<ch>>),
           {<<"msgid", "join">>})

Joins(e, c, ch) ==
    LET old == Chan(e.irc, ch)
        new == [old EXCEPT !.members = @ \cup {c}, !.invited = @ \ {c},
                           !.o = IF old.members = {} THEN {c} ELSE @]
        irc == SetChan(e.irc, ch, new)
        seen == {d \in new.members : SeesMember(irc, d, ch, c)}
        shown == TellEach(Becomes(e, irc), seen, "JOIN", LAMBDA d : JoinLine(irc, c, ch, d))
        away == IF irc.away[c] = "" THEN shown
                ELSE Tell(shown, {d \in seen \ {c} : "away-notify" \in irc.caps[d]},
                          FromClient(irc, c, "AWAY", <<irc.away[c]>>))
        topic == IF new.topic = "" THEN away
                 ELSE Reply(Reply(away, c, "RPL_TOPIC", <<ch, new.topic>>),
                            c, "RPL_TOPICTIME", <<ch, "who", "when">>)
        names == NamReply(topic, c, ch)
        marked(f) == IF "draft/read-marker" \notin irc.caps[c] THEN f
                     ELSE Tell(f, {c}, Line("server", "MARKREAD", <<ch, Marker(irc, irc.nick[c], ch)>>))
    IN  IF irc.fault = <<"late", "MARKREAD">> THEN marked(EndOfNames(names, c, ch))
        ELSE EndOfNames(marked(names), c, ch)

\* Those who cannot join a channel may be forwarded to another.
Forwards(irc, c, ch) ==
    LET forward == Chan(irc, ch).forward
    IN  /\ forward # "" /\ irc.fault # <<"forgets", "forward">>
        /\ ~OnChannel(irc, c, forward) /\ JoinRefusals(irc, c, forward, "") = {}

JoinOne(e, c, ch, key) ==
    LET refusals == JoinRefusals(e.irc, c, ch, key)
    IN  IF OnChannel(e.irc, c, ch) THEN e
        ELSE IF ch \in InvalidChannels THEN Reply(e, c, "ERR_NOSUCHCHANNEL", <<ch, "no">>)
        ELSE IF refusals # {} /\ Forwards(e.irc, c, ch)
             THEN Joins(Reply(e, c, "ERR_LINKCHANNEL", <<ch, Chan(e.irc, ch).forward, "forwarded">>),
                        c, Chan(e.irc, ch).forward)
        ELSE IF Refused(e.irc, "JOIN", refusals # {})
             THEN Reply(e, c, (CHOOSE r \in refusals : TRUE)[1], <<ch, "cannot join">>)
        ELSE Joins(e, c, ch)

\* Channel names of tests on case mappings, folded.
Folded(irc, ch) ==
    IF irc.fault = <<"case sensitive", "">> THEN ch
    ELSE IF ch \in {"#Foo", "#foo"} THEN "#foo"
    ELSE IF Chooses(irc, "casemapping rfc1459")
         THEN CASE ch \in {"#F]|oo{", "#f}\\oo["} -> "#f]|oo["
                [] ch \in {"#F}o\\o[", "#f]o|o{"} -> "#f]o|o["
                [] OTHER -> ch
    ELSE ch

\* The parameters are channels, each followed by a key or by "".
JOIN(e, c, args) ==
    LET key(i) == IF 2 * i <= Len(args) THEN args[2 * i] ELSE ""
        channels == [i \in 1..((Len(args) + 1) \div 2) |-> i]
    IN  FoldLeft(LAMBDA f, i : JoinOne(f, c, Folded(f.irc, args[2 * i - 1]), key(i)), e, channels)

-----------------------------------------------------------------------------
(* PART, KICK, QUIT *)

\* What PART, KICK, TOPIC and MODE refuse first.
NotThere(irc, c, ch) ==
    IF ~Exists(irc, ch) THEN "ERR_NOSUCHCHANNEL"
    ELSE IF ~OnChannel(irc, c, ch) THEN "ERR_NOTONCHANNEL" ELSE ""

PART(e, c, args) ==
    LET ch == args[1]
        why == NotThere(e.irc, c, ch)
        told == Tell(e, {d \in Chan(e.irc, ch).members : SeesMember(e.irc, d, ch, c)},
                     FromClient(e.irc, c, "PART", args))
    IN  IF why # "" THEN Reply(e, c, why, <<ch, "not there">>)
        ELSE Becomes(told, Leave(e.irc, c, ch))

KickOne(e, c, ch, nick, reason) ==
    LET member == HasNick(e.irc, nick) /\ OnChannel(e.irc, ClientOf(e.irc, nick), ch)
        kicked == ClientOf(e.irc, nick)
        seeing == Chan(e.irc, ch).members
        told == Tell(e, IF Chooses(e.irc, "KICK is not echoed") THEN seeing \ {c} ELSE seeing,
                     FromClient(e.irc, c, "KICK", <<ch, nick, reason>>))
    IN  IF ~member THEN Reply(e, c, "ERR_USERNOTINCHANNEL", <<nick, ch, "not there">>)
        ELSE Becomes(told, Leave(e.irc, kicked, ch))

\* `also` are nicks to kick besides that of the parameters.
KICK(e, c, args, also) ==
    LET ch == args[1]
        why == NotThere(e.irc, c, ch)
        reason == IF Len(args) > 2 THEN args[3] ELSE e.irc.nick[c]
    IN  IF Refused(e.irc, "KICK", why # "") THEN Reply(e, c, why, <<ch, "not there">>)
        ELSE IF Refused(e.irc, "KICK", ~IsOp(e.irc, c, ch))
             THEN Reply(e, c, "ERR_CHANOPRIVSNEEDED", <<ch, "not op">>)
        ELSE FoldSet(LAMBDA nick, f : KickOne(f, c, ch, nick, reason), e, {args[2]} \cup also)

Gone(irc, c) ==
    LET left == [x \in DOMAIN irc.chans |->
                    [irc.chans[x] EXCEPT !.members = @ \ {c}, !.o = @ \ {c}, !.v = @ \ {c}]]
        user == [nick |-> irc.nick[c], ident |-> irc.ident[c], realname |-> irc.realname[c]]
    IN  DropEmpty([irc EXCEPT !.chans = left, !.stage[c] = "closed",
                              !.was = IF irc.stage[c] = "up" THEN <<user>> \o @ ELSE @])

\* Those who monitor a nick are told when it comes and when it goes.
NickMasks == {"*!username@localhost", "*!username@127.0.0.1"}
Watchers(irc, nick) ==
    {d \in Online(irc) : \/ FoldedNick(nick) \in irc.monitors[d]
                         \/ irc.fault = <<"masks", "MONITOR">> /\ irc.monitors[d] \cap NickMasks # {}}
TellWatchers(e, cmd, nick) ==
    TellEach(e, Watchers(e.irc, nick), cmd, LAMBDA d : Numeric(e.irc, d, cmd, <<nick>>))

\* The connection is closed, with a last ERROR.
Closes(e, c, reason) ==
    LET told == Tell(e, Peers(e.irc, c), FromClient(e.irc, c, "QUIT", <<reason>>))
        last == Tell(told, {c}, Line("server", "ERROR", <<reason>>))
        gone == Becomes(last, Gone(e.irc, c))
    IN  IF e.irc.stage[c] = "up" THEN TellWatchers(gone, "RPL_MONOFFLINE", e.irc.nick[c])
        ELSE gone

QUIT(e, c, args) == Closes(e, c, IF args = <<>> THEN "quit" ELSE args[1])

-----------------------------------------------------------------------------
(* TOPIC, INVITE *)

TOPIC(e, c, args) ==
    LET ch == args[1]
        chan == Chan(e.irc, ch)
        why == NotThere(e.irc, c, ch)
        hears == IF Chooses(e.irc, "TOPIC is not echoed") THEN chan.members \ {c} ELSE chan.members
        locked == "t" \in chan.modes /\ ~IsOp(e.irc, c, ch)
    IN  IF why # "" THEN Reply(e, c, why, <<ch, "not there">>)
        ELSE IF Len(args) = 1
             THEN IF chan.topic = "" THEN Reply(e, c, "RPL_NOTOPIC", <<ch, "none">>)
                  ELSE Reply(e, c, "RPL_TOPIC", <<ch, chan.topic>>)
        ELSE IF Refused(e.irc, "TOPIC", locked)
             THEN Reply(e, c, "ERR_CHANOPRIVSNEEDED", <<ch, "not op">>)
        ELSE LET m == Dated(FromClient(e.irc, c, "TOPIC", args), args[2])
             IN  Becomes(Tell(e, hears, m),
                         Remembers(SetChan(e.irc, ch, [chan EXCEPT !.topic = args[2]]),
                                   Identity(e.irc, c), <<ch, "">>, m))

InvitedTo(irc, c) == {ch \in DOMAIN irc.chans : c \in irc.chans[ch].invited}

InviteList(e, c) ==
    LET listed == FoldSet(LAMBDA ch, f : Reply(f, c, "RPL_INVITELIST", <<ch>>),
                          e, InvitedTo(e.irc, c))
    IN  Reply(listed, c, "RPL_ENDOFINVITELIST", <<"end">>)

INVITE(e, c, args) ==
    LET nick == args[1]
        ch == args[2]
        chan == Chan(e.irc, ch)
        target == ClientOf(e.irc, nick)
        invited == SetChan(e.irc, ch, [chan EXCEPT !.invited = @ \cup {target}])
        line == FromClient(e.irc, c, "INVITE", args)
        notified == {d \in chan.members \ {c} : "invite-notify" \in e.irc.caps[d]}
    IN  IF args = <<>> THEN InviteList(e, c)
        ELSE IF ~HasNick(e.irc, nick) THEN Reply(e, c, "ERR_NOSUCHNICK", <<nick, "none">>)
        ELSE IF ~Exists(e.irc, ch) THEN Reply(e, c, "ERR_NOSUCHCHANNEL", <<ch, "none">>)
        ELSE IF Refused(e.irc, "INVITE", ~OnChannel(e.irc, c, ch))
             THEN Reply(e, c, "ERR_NOTONCHANNEL", <<ch, "not there">>)
        ELSE IF Refused(e.irc, "INVITE", "i" \in chan.modes /\ ~IsOp(e.irc, c, ch))
             THEN Reply(e, c, "ERR_CHANOPRIVSNEEDED", <<ch, "not op">>)
        ELSE IF OnChannel(e.irc, target, ch)
             THEN Reply(e, c, "ERR_USERONCHANNEL", <<nick, ch, "already there">>)
        ELSE Tell(Reply(Becomes(e, invited), c, "RPL_INVITING", args), {target} \cup notified, line)

-----------------------------------------------------------------------------
(* MODE: a sign, a letter and an argument, or nothing to be told them. *)

Statuses == {"o", "v"}
MaskLists == {"b", "e", "I"}
ListReply == [b |-> "RPL_BANLIST", e |-> "RPL_EXCEPTLIST", I |-> "RPL_INVEXLIST"]
EndOfList == [b |-> "RPL_ENDOFBANLIST", e |-> "RPL_ENDOFEXCEPTLIST", I |-> "RPL_ENDOFINVEXLIST"]

Changed(set, add, x) == IF add THEN set \cup {x} ELSE set \ {x}

\* Nicks in masks are compared, and removed, whatever their case.
FoldedMask(mask) == [i \in DOMAIN mask |-> FoldedNick(mask[i])]

ChanWithMode(irc, chan, add, letter, arg) ==
    CASE letter \in Statuses ->
            [chan EXCEPT ![letter] = Changed(@, add, ClientOf(irc, arg[1]))]
      [] letter \in MaskLists -> [chan EXCEPT ![letter] = Changed(@, add, FoldedMask(arg))]
      [] letter = "k" -> [chan EXCEPT !.modes = Changed(@, add, "k"),
                                      !.key = IF add THEN arg[1] ELSE ""]
      [] letter = "l" -> [chan EXCEPT !.modes = Changed(@, add, "l"),
                                      !.limit = IF add THEN arg[1] ELSE ""]
      [] letter = "f" -> [chan EXCEPT !.forward = IF add THEN arg[1] ELSE ""]
      [] OTHER -> [chan EXCEPT !.modes = Changed(@, add, letter)]

ListMasks(e, c, ch, letter) ==
    LET setter == IF Chooses(e.irc, "masks are listed alone") THEN <<>> ELSE <<"chanop", "when">>
        listed == FoldSet(LAMBDA mask, f : Reply(f, c, ListReply[letter], <<ch>> \o mask \o setter),
                          e, Chan(e.irc, ch)[letter])
    IN  Reply(listed, c, EndOfList[letter], <<ch, "end">>)

InvalidKeys == {"passphrase with spaces", "long", "", " "}
InvalidLimits == {"0", "-1", "abc", ""}
InvalidArgument(letter, arg) ==
    \/ letter = "k" /\ arg # <<>> /\ arg[1] \in InvalidKeys
    \/ letter = "l" /\ arg # <<>> /\ arg[1] \in InvalidLimits
    \/ letter = "f" /\ arg # <<>> /\ arg[1] = "#nonexistent"

\* A key that is not valid may be changed into one that is.
RewrittenKey(arg) ==
    CASE arg[1] = "passphrase with spaces" -> <<"passphrase">>
      [] arg[1] = "long" -> <<"longlonglong">>
      [] OTHER -> arg

ChangesMode(e, c, ch, args, changed) ==
    LET chan == Chan(e.irc, ch)
    IN  IF changed = chan THEN e
        ELSE Tell(Becomes(e, SetChan(e.irc, ch, changed)), chan.members, FromClient(e.irc, c, "MODE", args))

RejectsArgument(e, c, ch, letter, arg) ==
    IF Chooses(e.irc, "invalid parameters are ignored") THEN e
    ELSE IF Chooses(e.irc, "keys are rewritten") /\ letter = "k" /\ RewrittenKey(arg) # arg
    THEN ChangesMode(e, c, ch, <<ch, "+", "k">> \o RewrittenKey(arg),
                     ChanWithMode(e.irc, Chan(e.irc, ch), TRUE, "k", RewrittenKey(arg)))
    ELSE IF Chooses(e.irc, "ERR_INVALIDKEY") /\ letter = "k" THEN Reply(e, c, "ERR_INVALIDKEY", <<ch, "invalid">>)
    ELSE Reply(e, c, "ERR_INVALIDMODEPARAM", <<ch, letter, "*", "invalid">>)

\* Several letters without arguments come as items.
SeveralModes(e, c, ch, args, letters) ==
    LET chan == Chan(e.irc, ch)
        names == {l[1] : l \in letters}
        changed == [chan EXCEPT !.modes = IF args[2] = "+" THEN @ \cup names ELSE @ \ names]
    IN  Tell(Becomes(e, SetChan(e.irc, ch, changed)), chan.members,
             Listing(FromClient(e.irc, c, "MODE", args), letters))

ChannelMode(e, c, args, letters) ==
    LET ch == args[1]
        chan == Chan(e.irc, ch)
        arg == SubSeq(args, 4, Len(args))
        letter == args[3]
        add == args[2] = "+"
    IN  IF ~Exists(e.irc, ch) THEN Reply(e, c, "ERR_NOSUCHCHANNEL", <<ch, "none">>)
        ELSE IF Len(args) = 1
             THEN Reply(ReplyItems(e, c, "RPL_CHANNELMODEIS", <<ch>>, {<<l, "">> : l \in chan.modes}),
                        c, "RPL_CHANNELCREATED", <<ch, "when">>)
        ELSE IF letters # {} THEN SeveralModes(e, c, ch, args, letters)
        ELSE IF letter \in MaskLists /\ arg = <<>> THEN ListMasks(e, c, ch, letter)
        ELSE IF Refused(e.irc, "MODE", ~OnChannel(e.irc, c, ch))
             THEN Reply(e, c, "ERR_NOTONCHANNEL", <<ch, "not there">>)
        ELSE IF Refused(e.irc, "MODE", ~IsOp(e.irc, c, ch))
             THEN Reply(e, c, "ERR_CHANOPRIVSNEEDED", <<ch, "not op">>)
        ELSE IF letter \in Statuses /\ ~HasNick(e.irc, arg[1])
             THEN Reply(e, c, "ERR_NOSUCHNICK", <<arg[1], "none">>)
        ELSE IF letter \in Statuses /\ ~OnChannel(e.irc, ClientOf(e.irc, arg[1]), ch)
             THEN Reply(e, c, "ERR_USERNOTINCHANNEL", <<arg[1], ch, "not there">>)
        ELSE IF Refused(e.irc, "parameters", InvalidArgument(letter, arg))
             THEN RejectsArgument(e, c, ch, letter, arg)
        ELSE IF Refused(e.irc, "forward", letter = "f" /\ add /\ ~IsOp(e.irc, c, arg[1]))
             THEN Reply(e, c, "ERR_CHANOPRIVSNEEDED", <<arg[1], "not op">>)
        ELSE ChangesMode(e, c, ch, args, ChanWithMode(e.irc, chan, add, letter, arg))

UserMode(e, c, args) ==
    IF args[1] # e.irc.nick[c] THEN Reply(e, c, "ERR_USERSDONTMATCH", <<"no">>)
    ELSE IF Len(args) = 1
         THEN ReplyItems(e, c, "RPL_UMODEIS", <<>>, {<<l, "">> : l \in e.irc.umodes[c]})
    ELSE Tell(Becomes(e, [e.irc EXCEPT !.umodes[c] = Changed(@, args[2] = "+", args[3])]),
              {c}, FromClient(e.irc, c, "MODE", args))

MODE(e, c, args, letters) ==
    IF Exists(e.irc, args[1]) \/ ~HasNick(e.irc, args[1]) THEN ChannelMode(e, c, args, letters)
    ELSE UserMode(e, c, args)

-----------------------------------------------------------------------------
(* PRIVMSG, NOTICE, TAGMSG *)

CTCPs == {"ctcp VERSION", "ctcp", "ctcp PING"}

\* Why a channel does not take a message.
CannotSend(irc, c, ch, text) ==
    LET chan == Chan(irc, ch)
        voiced == c \in chan.o \cup chan.v
        muted == \E mask \in chan.b :
                    mask[1] = "mute" /\ MaskMatches(irc, c, Tail(mask))
        exempt == \E mask \in chan.e :
                    MaskMatches(irc, c, IF mask[1] = "mute" THEN Tail(mask) ELSE mask)
    IN  \/ "C" \in chan.modes /\ text \in CTCPs
        \/ /\ ~voiced
           /\ \/ "n" \in chan.modes /\ c \notin chan.members
              \/ "m" \in chan.modes
              \/ "M" \in chan.modes /\ irc.account[c] = ""
              \/ Listed(irc, c, chan.b) /\ ~exempt
              \/ muted /\ ~exempt

\* The parameters of a message with its text, if it has one.  Tags of clients
\* that are not for other clients are dropped.
TagsForServers == {"fizz", "cat", "foo"}

Message(irc, c, cmd, args, tags) ==
    LET relayed == {t \in tags : /\ t[1] \notin TagsForServers \/ irc.fault = <<"relays", "tags">>
                               /\ irc.fault # <<"drops", "tags">>}
    IN  Dated(Tagged(FromClient(irc, c, cmd, args), relayed), IF cmd = "TAGMSG" THEN cmd ELSE Last(args))

\* A message to oneself comes twice to those who asked for echoes.
Delivers(e, c, cmd, S, m) ==
    LET able == {d \in S : cmd = "TAGMSG" => "message-tags" \in e.irc.caps[d]}
        echoed == IF "echo-message" \in e.irc.caps[c] THEN {c} ELSE {}
    IN  IF Chooses(e.irc, "delivers first") THEN Tell(Tell(e, able, m), echoed, m)
        ELSE Tell(Tell(e, echoed, m), able, m)

\* With +U, those without a status are heard by operators only.
Hearers(irc, c, ch) ==
    LET chan == Chan(irc, ch)
    IN  IF "U" \in chan.modes /\ c \notin chan.o \cup chan.v /\ irc.fault # <<"lenient", "PRIVMSG">>
        THEN chan.o ELSE chan.members

\* A message that is sent is remembered, unless the server does not keep TAGMSGs.
Kept(irc, c, cmd, to, m) ==
    IF cmd = "TAGMSG" /\ Chooses(irc, "TAGMSG is not stored") THEN irc
    ELSE Remembers(irc, Identity(irc, c), to, m)

\* NOTICE is never answered with an error.
Fails(e, c, cmd, numeric, args) ==
    IF cmd = "NOTICE" /\ e.irc.fault # <<"answers", "NOTICE">> THEN e
    ELSE Reply(e, c, numeric, args)

SendOne(e, c, cmd, args, tags) ==
    LET irc == e.irc
        target == args[1]
        text == args[Len(args)]
        m == Message(irc, c, cmd, args, tags)
        d == ClientOf(irc, target)
    IN  IF text = "" THEN Fails(e, c, cmd, "ERR_NOTEXTTOSEND", <<"none">>)
        ELSE IF Exists(irc, target)
        THEN IF Refused(irc, cmd, CannotSend(irc, c, target, text))
             THEN Fails(e, c, cmd, "ERR_CANNOTSENDTOCHAN", <<target, "cannot send">>)
             ELSE Delivers(Becomes(e, Kept(irc, c, cmd, <<target, "">>, m)), c, cmd,
                           Hearers(irc, c, target) \ {c}, m)
        ELSE IF target = "@"
        THEN Delivers(e, c, cmd, Chan(irc, args[2]).o \ {c}, m)
        ELSE IF ~HasNick(irc, target)
        THEN Fails(e, c, cmd, "ERR_NOSUCHNICK", <<target, "none">>)
        ELSE IF Refused(irc, cmd, \/ "T" \in irc.umodes[d] /\ text \in CTCPs
                                  \/ /\ "R" \in irc.umodes[d] /\ irc.account[c] = ""
                                     /\ irc.nick[c] \notin irc.accepts[d])
        THEN Fails(e, c, cmd, "ERR_NEEDREGGEDNICK", <<target, "cannot send">>)
        ELSE LET accepted == [irc EXCEPT !.accepts[c] = @ \cup {target}]
                 sent == Delivers(Becomes(e, Kept(accepted, c, cmd, Identity(irc, d), m)), c, cmd, {d}, m)
             IN  IF irc.away[d] = "" \/ cmd # "PRIVMSG" THEN sent
                 ELSE Reply(sent, c, "RPL_AWAY", <<target, irc.away[d]>>)

\* Several targets are one parameter.
Targets(name) == IF name = "bar,carl,alice" THEN <<"bar", "carl", "alice">> ELSE <<name>>

SendMessage(e, c, cmd, args, tags) ==
    FoldLeft(LAMBDA f, target : SendOne(f, c, cmd, <<target>> \o Tail(args), tags), e, Targets(args[1]))

=============================================================================
