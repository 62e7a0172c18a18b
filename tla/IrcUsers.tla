------------------------------ MODULE IrcUsers ------------------------------
(***************************************************************************)
(* The commands of the server under test about users: AWAY, NICK, OPER,    *)
(* KILL, WALLOPS, SETNAME, USERHOST, WHO, WHOIS, MONITOR; and those that   *)
(* ask about all its users and channels: LIST, WHOWAS, LUSERS.  Numbers    *)
(* are parameters like others, and those in the middle of a text are items.*)
(***************************************************************************)
EXTENDS IrcChannels

AWAY(e, c, args) ==
    LET text == IF args = <<>> THEN "" ELSE args[1]
        changed == Becomes(e, [e.irc EXCEPT !.away[c] = text])
        replied == Reply(changed, c, IF text = "" THEN "RPL_UNAWAY" ELSE "RPL_NOWAWAY", <<"away">>)
        extended == {d \in Watchers(e.irc, e.irc.nick[c]) : "extended-monitor" \in e.irc.caps[d]}
    IN  Tell(replied, {d \in Peers(e.irc, c) \cup extended : "away-notify" \in e.irc.caps[d]},
             FromClient(e.irc, c, "AWAY", args))

NICK(e, c, nick) ==
    LET old == e.irc.nick[c]
        changed == Becomes(e, [e.irc EXCEPT !.nick[c] = nick])
        told == Tell(changed, {c} \cup Peers(e.irc, c), FromClient(e.irc, c, "NICK", <<nick>>))
    IN  IF Refused(e.irc, "NICK", HasNick(e.irc, nick) /\ ClientOf(e.irc, nick) # c)
        THEN Reply(e, c, "ERR_NICKNAMEINUSE", <<nick, "in use">>)
        ELSE IF nick = old /\ e.irc.fault # <<"repeats", "NICK">> THEN e
        ELSE IF SameNick(nick, old) THEN told
        ELSE TellWatchers(TellWatchers(told, "RPL_MONOFFLINE", old), "RPL_MONONLINE", nick)

\* Those whose messages a client takes in spite of its mode +R.
ACCEPT(e, c, args) ==
    Becomes(e, [e.irc EXCEPT !.accepts[c] = Changed(@, args[1] = "+", args[2])])

IsOper(irc, c) == "o" \in irc.umodes[c]

OPER(e, c, args) ==
    IF Len(args) < 2 THEN Reply(e, c, "ERR_NEEDMOREPARAMS", <<"OPER", "more">>)
    ELSE IF Refused(e.irc, "OPER", args # <<"operuser", "operpassword">>)
         THEN Reply(e, c, IF args[1] = "operuser" THEN "ERR_PASSWDMISMATCH" ELSE "ERR_NOOPERHOST",
                    <<"no">>)
    ELSE LET opered == Becomes(e, [e.irc EXCEPT !.umodes[c] = @ \cup {"o"}])
         IN  Tell(Reply(opered, c, "RPL_YOUREOPER", <<"oper">>), {c},
                  FromClient(e.irc, c, "MODE", <<e.irc.nick[c], "+", "o">>))

KILL(e, c, args) ==
    IF Refused(e.irc, "KILL", ~IsOper(e.irc, c)) THEN Reply(e, c, "ERR_NOPRIVILEGES", <<"no">>)
    ELSE IF ~HasNick(e.irc, args[1]) THEN Reply(e, c, "ERR_NOSUCHNICK", <<args[1], "none">>)
    ELSE Closes(e, ClientOf(e.irc, args[1]), "killed")

WALLOPS(e, c, args) ==
    IF Chooses(e.irc, "no WALLOPS") THEN Reply(e, c, "ERR_UNKNOWNCOMMAND", <<"WALLOPS", "unknown">>)
    ELSE IF Refused(e.irc, "WALLOPS", ~IsOper(e.irc, c)) THEN Reply(e, c, "ERR_NOPRIVILEGES", <<"no">>)
    ELSE Tell(e, {d \in Online(e.irc) : "w" \in e.irc.umodes[d]}, FromClient(e.irc, c, "WALLOPS", args))

SETNAME(e, c, args) ==
    LET extended == {d \in Watchers(e.irc, e.irc.nick[c]) : "extended-monitor" \in e.irc.caps[d]}
    IN  Tell(Becomes(e, [e.irc EXCEPT !.realname[c] = args[1]]),
             {d \in {c} \cup Peers(e.irc, c) \cup extended : "setname" \in e.irc.caps[d]},
             FromClient(e.irc, c, "SETNAME", args))

USERHOST(e, c, args) ==
    LET d == ClientOf(e.irc, args[1])
    IN  Reply(e, c, "RPL_USERHOST", <<args[1], IF e.irc.away[d] = "" THEN "+" ELSE "-">>)

-----------------------------------------------------------------------------
(* WHO: of a channel, of a nick, of a mask; and with the fields of WHOX. *)

\* Masks and spellings that stand for a nick.
SpelledNick == ("coolnick" :> "coolNick") @@ ("coolni*" :> "coolNick") @@ ("eva*" :> "evan")
SpelledChannel == "#CHAN" :> "#chan"
Spelled(name) ==
    IF name \in DOMAIN SpelledNick THEN SpelledNick[name]
    ELSE IF name \in DOMAIN SpelledChannel THEN SpelledChannel[name] ELSE name
IsMask(name) == name \in {"*", "coolni*", "eva*"}

SharedChannels(irc, c, d) ==
    {ch \in DOMAIN irc.chans : {c, d} \subseteq irc.chans[ch].members}

\* Someone invisible is seen in channels, and by their exact nick.
WhoMatches(irc, c, mask) ==
    {d \in Online(irc) :
        /\ mask = "*" \/ irc.nick[d] = Spelled(mask)
        /\ IsMask(mask) /\ Refused(irc, "WHO", "i" \in irc.umodes[d] /\ d # c)
              => SharedChannels(irc, c, d) # {}}

WhoFlags(irc, c, d, ch) ==
    {<<IF irc.away[d] = "" THEN "H" ELSE "G", "">>}
    \cup (IF IsOper(irc, d) THEN {<<"*", "">>} ELSE {})
    \cup (IF IsOp(irc, d, ch) THEN {<<"@", "">>} ELSE {})
    \cup (IF /\ d \in Chan(irc, ch).v
             /\ ~IsOp(irc, d, ch) \/ "multi-prefix" \in irc.caps[c] THEN {<<"+", "">>} ELSE {})
    \cup (IF "B" \in irc.umodes[d] /\ irc.fault # <<"silent", "bot">> THEN {<<"B", "">>} ELSE {})

WhoReply(e, c, d, ch) ==
    ReplyItems(e, c, "RPL_WHOREPLY", <<ch, e.irc.nick[d], e.irc.realname[d]>>, WhoFlags(e.irc, c, d, ch))

\* The channel shown with someone who is found by nick.
ShownChannel(irc, c, d) ==
    IF Chooses(irc, "no channel in WHO") \/ SharedChannels(irc, c, d) = {} THEN "*"
    ELSE CHOOSE ch \in SharedChannels(irc, c, d) : TRUE

\* WHOX with the fields n (nick), a (account), t (token), or all of them.
WhoxReply(e, c, d, fields, token) ==
    LET account == IF e.irc.account[d] = "" THEN "0" ELSE e.irc.account[d]
    IN  Reply(e, c, "RPL_WHOSPCRPL",
            CASE fields = "tn" -> <<token, e.irc.nick[d]>>
              [] fields = "na" -> <<e.irc.nick[d], account>>
              [] fields = "one" -> <<"field">>
              [] fields = "all" -> <<token, ShownChannel(e.irc, c, d), e.irc.nick[d], account,
                                     e.irc.realname[d]>>)

WHO(e, c, args) ==
    LET name == Spelled(args[1])
        found == IF Exists(e.irc, name) THEN Chan(e.irc, name).members
                 ELSE WhoMatches(e.irc, c, args[1])
        row(f, d) == IF Len(args) > 1 THEN WhoxReply(f, c, d, args[2], args[3])
                     ELSE WhoReply(f, c, d, IF Exists(e.irc, name) THEN name
                                            ELSE ShownChannel(e.irc, c, d))
    IN  Reply(FoldSet(LAMBDA d, f : row(f, d), e, found), c, "RPL_ENDOFWHO", <<args[1], "end">>)

-----------------------------------------------------------------------------
(* WHOIS *)

WhoisChannels(irc, c, d) ==
    {ch \in DOMAIN irc.chans : /\ d \in irc.chans[ch].members
                               /\ Refused(irc, "WHOIS", "i" \in irc.umodes[d]) => c \in irc.chans[ch].members}

\* The account shown is that of the user, unless the server takes another.
WhoisAccount(irc, c, d) ==
    IF irc.account[d] = "" /\ irc.fault = <<"wrong", "RPL_WHOISACCOUNT">> THEN irc.account[c]
    ELSE irc.account[d]

WhoisRows(irc, c, d) ==
    LET nick == irc.nick[d]
        chans == WhoisChannels(irc, c, d)
        account == WhoisAccount(irc, c, d)
    IN  <<Numeric(irc, c, "RPL_WHOISUSER", <<nick, "username", "host", "*", irc.realname[d]>>)>>
        \o (IF chans = {} THEN <<>>
            ELSE <<Listing(Numeric(irc, c, "RPL_WHOISCHANNELS", <<nick>>),
                           {<<ch, IF IsOp(irc, d, ch) THEN "@" ELSE "">> : ch \in chans})>>)
        \o <<Numeric(irc, c, "RPL_WHOISSERVER", <<nick, "My.Little.Server", "info">>)>>
        \o (IF irc.away[d] = "" THEN <<>> ELSE <<Numeric(irc, c, "RPL_AWAY", <<nick, irc.away[d]>>)>>)
        \o (IF IsOper(irc, d) THEN <<Numeric(irc, c, "RPL_WHOISOPERATOR", <<nick, "oper">>)>> ELSE <<>>)
        \o (IF "B" \in irc.umodes[d] THEN <<Numeric(irc, c, "RPL_WHOISBOT", <<nick, "bot">>)>> ELSE <<>>)
        \o (IF account = "" THEN <<>>
            ELSE <<Numeric(irc, c, "RPL_WHOISACCOUNT", <<nick, account, "account">>)>>)
        \o SetToSeq({Numeric(irc, c, "RPL_WHOISKEYVALUE", <<nick, pair[1], "*", pair[2]>>) : pair \in irc.metadata[d]})

\* The nick comes last, perhaps after a server.
WHOIS(e, c, args) ==
    LET nick == Last(args)
        rows == IF HasNick(e.irc, nick) THEN WhoisRows(e.irc, c, ClientOf(e.irc, nick))
                ELSE <<Numeric(e.irc, c, "ERR_NOSUCHNICK", <<nick, "none">>)>>
    IN  Reply(FoldLeft(LAMBDA f, m : Tell(f, {c}, m), e, rows), c, "RPL_ENDOFWHOIS", <<nick, "end">>)

-----------------------------------------------------------------------------
(* MONITOR: a sign and nicks, or one of L, C, S. *)

\* One numeric for each nick, those online and those not.
MonitorStatus(e, c, nicks) ==
    FoldSet(LAMBDA nick, f :
                Reply(f, c, IF HasNick(f.irc, nick) THEN "RPL_MONONLINE" ELSE "RPL_MONOFFLINE", <<nick>>),
            e, nicks)

MONITOR(e, c, args) ==
    LET sub == args[1]
        nicks == {args[i] : i \in 2..Len(args)}
        with(set) == Becomes(e, [e.irc EXCEPT !.monitors[c] = set])
        masks == /\ Chooses(e.irc, "nick masks are erroneous") /\ e.irc.fault # <<"masks", "MONITOR">>
                 /\ nicks \cap NickMasks # {}
    IN  CASE sub = "+" /\ masks -> Reply(e, c, "ERR_ERRONEUSNICKNAME", <<args[2], "no">>)
          [] sub = "+" /\ ~masks -> MonitorStatus(with(e.irc.monitors[c] \cup nicks), c, nicks \ e.irc.monitors[c])
          [] sub = "-" -> with(e.irc.monitors[c] \ nicks)
          [] sub = "C" -> with({})
          [] sub = "S" -> MonitorStatus(e, c, e.irc.monitors[c])
          [] sub = "L" -> Reply(FoldSet(LAMBDA nick, f : Reply(f, c, "RPL_MONLIST", <<nick>>),
                                        e, e.irc.monitors[c]),
                                c, "RPL_ENDOFMONLIST", <<"end">>)

-----------------------------------------------------------------------------

MaxNumber == 100    \* bound: numbers in parameters
Number(s) == CHOOSE n \in 0..MaxNumber : ToString(n) = s

-----------------------------------------------------------------------------
(* LIST: of all channels, of one, of those a mask matches or (after "!")   *)
(* does not, of those with more or with less users than a number.          *)

MaskedChannels ==
    ("*an1" :> {"#chan1"}) @@ ("*an2" :> {"#chan2"}) @@ ("#c*n2" :> {"#chan2"}) @@ ("*an3" :> {})
    @@ ("#ch*" :> {"#chan1", "#chan2"})

NamedBy(name) == IF name \in DOMAIN MaskedChannels THEN MaskedChannels[name] ELSE {name}

\* Servers may have channels of their own.
PseudoChannel == "&SERVER"

ListsChannel(irc, ch, args) ==
    LET users == Cardinality(Chan(irc, ch).members)
        equal == irc.fault = <<"inclusive", "LIST">> /\ users = Number(args[2])
    IN  CASE args = <<>> \/ irc.fault = <<"ignores", "ELIST">> -> TRUE
          [] Len(args) = 1 -> ch \in NamedBy(args[1])
          [] args[1] = "!" -> ch \notin NamedBy(args[2])
          [] args[1] = ">" -> equal \/ users > Number(args[2])
          [] args[1] = "<" -> equal \/ users < Number(args[2])

LIST(e, c, args) ==
    LET listed == {ch \in DOMAIN e.irc.chans :
                      ListsChannel(e.irc, ch, args) /\ ~Refused(e.irc, "LIST", Hidden(e.irc, c, ch))}
        row(f, ch) == Reply(f, c, "RPL_LIST", <<ch, ToString(Cardinality(Chan(f.irc, ch).members)), "topic">>)
        pseudo(f, option) == IF Chooses(e.irc, option) THEN row(f, PseudoChannel) ELSE f
        started == IF Chooses(e.irc, "no RPL_LISTSTART") THEN e
                   ELSE Reply(e, c, "RPL_LISTSTART", <<"Channel", "Users">>)
        rows == FoldSet(LAMBDA ch, f : row(f, ch), pseudo(started, "pseudo-channels first"), listed)
    IN  Reply(pseudo(rows, "pseudo-channels last"), c, "RPL_LISTEND", <<"end">>)

-----------------------------------------------------------------------------
(* WHOWAS: a nick, and how many of its users at most. *)

WasCalled(name, user) == SameNick(user.nick, name) \/ (name = "*ck2" /\ user.nick = "nick2")

\* All of them if the number is not positive.
CountOf(irc, args) ==
    LET fault == irc.fault
        asked == IF Len(args) = 1 THEN 0 ELSE IF args[2] = "-1" THEN 0 ELSE Number(args[2])
    IN  IF (asked = 0 /\ fault # <<"literal", "count">>) \/ fault = <<"ignores", "count">> THEN MaxNumber
        ELSE IF fault = <<"off by one", "count">> THEN asked - 1 ELSE asked

WHOWAS(e, c, args) ==
    LET found == SelectSeq(e.irc.was, LAMBDA user : WasCalled(args[1], user))
        ordered == IF e.irc.fault = <<"wrong", "order">> THEN Reverse(found) ELSE found
        n == CountOf(e.irc, args)
        shown == SubSeq(ordered, 1, IF n < Len(found) THEN n ELSE Len(found))
        more(f, option, cmd, rest) == IF Chooses(e.irc, option) THEN Reply(f, c, cmd, rest) ELSE f
        row(f, user) ==
            more(more(Reply(f, c, "RPL_WHOWASUSER", <<user.nick, user.ident, "host", "*", user.realname>>),
                      "RPL_WHOISACTUALLY", "RPL_WHOISACTUALLY", <<user.nick, "host", "actually">>),
                 "RPL_WHOISSERVER", "RPL_WHOISSERVER", <<user.nick, "My.Little.Server", "when">>)
        rows == IF shown = <<>> THEN Reply(e, c, "ERR_WASNOSUCHNICK", <<args[1], "none">>)
                ELSE FoldLeft(row, e, shown)
        target == IF shown = <<>> THEN args[1] ELSE Head(shown).nick
        ends(f, name) == Reply(f, c, "RPL_ENDOFWHOWAS", <<name, "end">>)
        none == IF Chooses(e.irc, "ERR_NEEDMOREPARAMS") THEN Reply(e, c, "ERR_NEEDMOREPARAMS", <<"WHOWAS", "more">>)
                ELSE Reply(e, c, "ERR_NONICKNAMEGIVEN", <<"none">>)
    IN  IF args = <<>> THEN IF Chooses(e.irc, "errors are ended") THEN ends(none, "*") ELSE none
        ELSE ends(rows, target)

-----------------------------------------------------------------------------
(* LUSERS *)

\* The server has seen this many users at once.
Counted(irc) ==
    LET users == Cardinality(Online(irc))
    IN  [irc EXCEPT !.most = IF users > @ THEN users ELSE @]

LUSERS(e, c) ==
    LET irc == e.irc
        size(S) == Cardinality(S)
        invisible == {d \in Online(irc) : "i" \in irc.umodes[d] /\ irc.fault # <<"forgets", "+i">>}
        unregistered == {d \in Clients : irc.stage[d] \in {"new", "ready"}}
        users == Online(irc) \cup (IF irc.fault = <<"wrong", "LUSERS">> THEN unregistered ELSE {})
        opers == {d \in Online(irc) : IsOper(irc, d)}
        most == IF irc.fault = <<"forgets", "maximum">> THEN size(users) ELSE irc.most
        count(f, cmd, n) == IF n = 0 /\ Chooses(irc, "omits zeros") THEN f
                            ELSE Reply(f, c, cmd, <<ToString(n), "are there">>)
        total(f, cmd) == CASE Chooses(irc, "RFC 2812") -> f
                           [] Chooses(irc, "counts in texts") -> Reply(f, c, cmd, <<"current users">>)
                           [] OTHER -> Reply(f, c, cmd, <<ToString(size(users)), ToString(most), "current users">>)
        clients == ReplyItems(e, c, "RPL_LUSERCLIENT", <<"there are">>,
                       {<<"visible", ToString(size(users \ invisible))>>, <<"invisible", ToString(size(invisible))>>,
                        <<"servers", "1">>})
        counted == count(count(count(clients, "RPL_LUSEROP", size(opers)),
                               "RPL_LUSERUNKNOWN", size(unregistered)),
                         "RPL_LUSERCHANNELS", size(DOMAIN irc.chans))
        me == ReplyItems(counted, c, "RPL_LUSERME", <<"I have">>,
                         {<<"local", ToString(size(users))>>, <<"servers", "0">>})
    IN  total(total(me, "RPL_LOCALUSERS"), "RPL_GLOBALUSERS")

=============================================================================
