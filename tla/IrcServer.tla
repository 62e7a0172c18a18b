------------------------------ MODULE IrcServer ------------------------------
(***************************************************************************)
(* The server under test: what each command does.                          *)
(***************************************************************************)
EXTENDS IrcDrafts

\* Channels are listed in no order when NAMES has no parameter.
NamesOf(e, c, args) ==
    IF args # <<>> THEN NAMES(e, c, args, IF Len(args) = 1 THEN args[1] ELSE args[1] \o "," \o args[2])
    ELSE NAMES(e, c, SetToSeq(DOMAIN e.irc.chans), "*")

Perform(e, c, l) ==
    CASE IsOfBatch(e.irc, c, l) -> AddsToBatch(e, c, l)
      [] l.cmd = "JOIN" -> ShowsMetadata(JOIN(e, c, l.args), e.irc, c)
      [] l.cmd = "PART" -> PART(e, c, l.args)
      [] l.cmd = "KICK" -> KICK(e, c, l.args, l.items)
      [] l.cmd = "QUIT" -> QUIT(e, c, l.args)
      [] l.cmd = "TOPIC" -> TOPIC(e, c, l.args)
      [] l.cmd = "INVITE" -> INVITE(e, c, l.args)
      [] l.cmd = "MODE" -> MODE(e, c, l.args, l.items)
      [] l.cmd = "NAMES" -> NamesOf(e, c, l.args)
      [] l.cmd = "AWAY" -> AWAY(e, c, l.args)
      [] l.cmd = "NICK" -> NICK(e, c, l.args[1])
      [] l.cmd = "OPER" -> OPER(e, c, l.args)
      [] l.cmd = "KILL" -> KILL(e, c, l.args)
      [] l.cmd = "WALLOPS" -> WALLOPS(e, c, l.args)
      [] l.cmd = "SETNAME" -> SETNAME(e, c, l.args)
      [] l.cmd = "USERHOST" -> USERHOST(e, c, l.args)
      [] l.cmd = "WHO" -> WHO(e, c, l.args)
      [] l.cmd = "WHOIS" -> WHOIS(e, c, l.args)
      [] l.cmd = "MONITOR" -> MONITOR(e, c, l.args)
      [] l.cmd = "CAP" -> CAP(e, c, l.args, l.items)
      [] l.cmd = "AUTHENTICATE" -> AUTHENTICATE(e, c, l.args)
      [] l.cmd \in {"PRIVMSG", "NOTICE", "TAGMSG"} -> SendMessage(e, c, l.cmd, l.args, l.tags)
      [] l.cmd = "ACCEPT" -> ACCEPT(e, c, l.args)
      [] l.cmd = "LIST" -> LIST(e, c, l.args)
      [] l.cmd = "WHOWAS" -> WHOWAS(e, c, l.args)
      [] l.cmd = "LUSERS" -> LUSERS(e, c)
      [] l.cmd = "BATCH" -> BATCH(e, c, l.args, l.tags)
      [] l.cmd = "RENAME" -> RENAME(e, c, l.args)
      [] l.cmd = "RELAYMSG" -> RELAYMSG(e, c, l.args)
      [] l.cmd \in {"NPC", "SCENE"} -> Roleplays(e, c, l.cmd, l.args)
      [] l.cmd = "CHATHISTORY" -> CHATHISTORY(e, c, l.args)
      [] l.cmd = "REDACT" -> REDACT(e, c, l.args)
      [] l.cmd = "METADATA" -> METADATA(e, c, l.args)
      [] l.cmd = "MARKREAD" -> MARKREAD(e, c, l.args)
      [] l.cmd = "NONEXISTENT_COMMAND" -> Reply(e, c, "ERR_UNKNOWNCOMMAND", <<l.cmd, "unknown">>)
      [] l.cmd = "EOF" -> Closes(e, c, "closed")
      [] l.cmd \in {"PASS", "USER"} -> Reply(e, c, "ERR_ALREADYREGISTERED", <<"too late">>)
      [] l.cmd = "PONG" -> e
      [] l.cmd = "PING" -> Tell(e, {c}, Line("server", "PONG", <<"server", l.args[1]>>))

(* labeled-response *)

LabelOf(l) == {t \in l.tags : t[1] = "label"}

\* What a client is sent in answer to a labeled line: nothing becomes an ACK,
\* one message has the label, and more are in a batch that has it.
Labeled(irc, label, ms) ==
    LET batch == IF irc.fault = <<"forgets", "batch">> THEN {} ELSE {<<"batch", "1">>}
        inside == [i \in DOMAIN ms |-> Tagged(ms[i], batch)]
        opening == Tagged(Line("server", "BATCH", <<"+", "1", "labeled-response">>), label)
        batched == <<opening>> \o inside \o <<Line("server", "BATCH", <<"-", "1">>)>>
    IN  CASE Len(ms) = 0 -> <<Tagged(Line("server", "ACK", <<>>), label)>>
          [] Len(ms) = 1 /\ irc.fault # <<"batches", "one">> -> <<Tagged(ms[1], label)>>
          [] OTHER -> batched

IsLabeled(irc, c, l) ==
    /\ "labeled-response" \in irc.caps[c] /\ LabelOf(l) # {} /\ irc.fault # <<"silent", "label">>
    /\ l.cmd # "BATCH"     \* the label of a batch is for what the whole batch does

\* A message to oneself is answered by its echo; its delivery has no label.
EchoedToItself(irc, c, l) ==
    /\ l.cmd \in {"PRIVMSG", "NOTICE", "TAGMSG"} /\ SameNick(l.args[1], irc.nick[c])
    /\ "echo-message" \in irc.caps[c] /\ irc.fault # <<"labels", "delivery">>

\* What this client is sent, labeled if its line was.
Relabeled(done, irc, c, l) ==
    LET ms == done.out[c]
        label == LabelOf(l)
        answer == IF EchoedToItself(irc, c, l)
                  THEN IF Chooses(irc, "delivers first") THEN <<Head(ms)>> \o Labeled(irc, label, Tail(ms))
                       ELSE Labeled(irc, label, <<Head(ms)>>) \o Tail(ms)
                  ELSE IF irc.fault = <<"labels", "delivery">>
                  THEN [i \in DOMAIN ms |-> Tagged(ms[i], label)]
                  ELSE Labeled(irc, label, ms)
    IN  IF IsLabeled(irc, c, l) THEN [done EXCEPT !.out[c] = answer] ELSE done

Answers(e, c, l) ==
    LET line == IF e.irc.fault = <<"leaks", "label">> \/ l.cmd = "BATCH" THEN l ELSE [l EXCEPT !.tags = @ \ LabelOf(l)]
    IN  Relabeled(IF e.irc.stage[c] \in {"new", "ready"} THEN PerformNew(e, c, line) ELSE Perform(e, c, line),
                  e.irc, c, l)

TooLong(l) == \/ \E i \in DOMAIN l.args : l.args[i] = "too long"
              \/ \E t \in l.tags : t[2] = "too long"

\* A parameter that is long with the source of the message before it.
NoRoom(l) == \E i \in DOMAIN l.args : l.args[i] = "b*496"

\* What the server does with a line: the lines it sends, to whom.
Handle(irc, c, l) ==
    IF irc.stage[c] = "closed" \/ irc.fault = <<"deaf", l.cmd>> THEN NoEffect(irc)
    ELSE IF \/ Refused(irc, "line length", TooLong(l))
            \/ Chooses(irc, "no room for the source") /\ NoRoom(l)
         THEN Reply(NoEffect(irc), c, "ERR_INPUTTOOLONG", <<"too long">>)
    ELSE Answers(NoEffect(irc), c, l)

=============================================================================
