------------------------------ MODULE IrcDrafts ------------------------------
(***************************************************************************)
(* Draft extensions of the server under test, and those of one software:   *)
(* history, redaction and read markers, messages of several lines, RENAME, *)
(* RELAYMSG, and NPC and SCENE.                                            *)
(***************************************************************************)
EXTENDS IrcSession

InvalidTargets == {"#nonexistent_channel"}

-----------------------------------------------------------------------------
(* CHATHISTORY *)

\* The messages between a client and a target: with a channel, or with a nick
\* that it writes in any case.
IsBetween(irc, c, target, entry) ==
    LET me == Identity(irc, c)
    IN  \/ entry.to = <<target, "">>
        \/ entry.from = me /\ SameNick(entry.to[1], target)
        \/ entry.to = me /\ SameNick(entry.from[1], target)

\* Events are played back to those who asked for them.
PlaysBack(irc, c, m) ==
    \/ m.cmd \in {"PRIVMSG", "NOTICE"}
    \/ "draft/event-playback" \in irc.caps[c]
    \/ irc.fault = <<"lenient", "event-playback">>

Conversation(irc, c, target) ==
    LET shared == SelectSeq(irc.log, LAMBDA entry : IsBetween(irc, c, target, entry))
    IN  SelectSeq([i \in DOMAIN shared |-> shared[i].m], LAMBDA m : PlaysBack(irc, c, m))

FirstOf(ms, n) == SubSeq(ms, 1, IF n < Len(ms) THEN n ELSE Len(ms))
LastOf(ms, n)  == SubSeq(ms, IF n < Len(ms) THEN Len(ms) - n + 1 ELSE 1, Len(ms))

\* A line has a subcommand, a target, a limit, and references of two parameters
\* each: "msgid" or "time", and its value.
References(args) == [k \in 1..((Len(args) - 3) \div 2) |-> <<args[2 * k + 2], args[2 * k + 3]>>]
Limit(args) == IF \E n \in 1..9 : ToString(n) = args[3] THEN CHOOSE n \in 1..9 : ToString(n) = args[3]
               ELSE 100

\* The messages before a reference, after it, and around it.
PositionOf(ms, ref) == CHOOSE i \in DOMAIN ms : ref \in ms[i].tags
Until(irc, ms, i) == SubSeq(ms, 1, IF irc.fault = <<"inclusive", "CHATHISTORY">> THEN i ELSE i - 1)
Since(irc, ms, i) == SubSeq(ms, IF irc.fault = <<"inclusive", "CHATHISTORY">> THEN i ELSE i + 1, Len(ms))
Within(irc, ms, i, j) == Since(irc, Until(irc, ms, j), i)

Around(irc, ms, i, n) ==
    LET half == n \div 2
        before == SubSeq(ms, IF i > half THEN i - half ELSE 1, i - 1)
        central == IF irc.fault = <<"excludes", "AROUND">> THEN <<>> ELSE <<ms[i]>>
    IN  before \o central \o FirstOf(SubSeq(ms, i + 1, Len(ms)), half)

\* What a subcommand selects, at most n messages: the last ones if it looks
\* back, and the first ones if it looks forward.
Selection(irc, ms, sub, refs, n) ==
    LET wrong == irc.fault = <<"wrong", "limit">>
        back(part) == IF wrong THEN FirstOf(part, n) ELSE LastOf(part, n)
        forward(part) == IF wrong THEN LastOf(part, n) ELSE FirstOf(part, n)
        at(k) == PositionOf(ms, refs[k])
    IN  CASE sub = "LATEST" /\ refs = <<>> -> back(ms)
          [] sub = "LATEST" /\ refs # <<>> -> back(Since(irc, ms, at(1)))
          [] sub = "BEFORE" -> back(Until(irc, ms, at(1)))
          [] sub = "AFTER" -> forward(Since(irc, ms, at(1)))
          [] sub = "BETWEEN" -> IF at(1) < at(2) THEN forward(Within(irc, ms, at(1), at(2)))
                                ELSE back(Within(irc, ms, at(2), at(1)))
          [] sub = "AROUND" -> Around(irc, ms, at(1), n)

\* Those a client has exchanged messages with: the latest message with each of
\* them, if it is between two moments, the oldest of them first.
Correspondent(irc, c, entry) ==
    IF entry.to = Identity(irc, c) THEN entry.from[1] ELSE entry.to[1]

Concerns(irc, c, entry) ==
    Identity(irc, c) \in {entry.from, entry.to} \/ OnChannel(irc, c, entry.to[1])

TimeOf(m) == (CHOOSE t \in m.tags : t[1] = "time")[2]
Moment(irc, time) ==
    CASE time = "2020" -> 0
      [] time = "2262" -> Len(irc.log) + 1
      [] OTHER -> CHOOSE i \in DOMAIN irc.log : TimeOf(irc.log[i].m) = time

LatestBetween(irc, c, from, to) ==
    LET log == irc.log
        with(i) == Correspondent(irc, c, log[i])
        mine == {i \in DOMAIN log : Concerns(irc, c, log[i])}
        latest == {i \in mine : irc.fault = <<"wrong", "TARGETS">> \/ \A j \in mine : with(j) = with(i) => j <= i}
        first == IF irc.fault = <<"inclusive", "CHATHISTORY">> THEN from ELSE from + 1
    IN  SetToSortSeq(latest \cap (first..(to - 1)), LAMBDA i, j : i < j)

ListsTargets(e, c, args) ==
    LET refs == References(args)
        found == FirstOf(LatestBetween(e.irc, c, Moment(e.irc, refs[1][2]), Moment(e.irc, refs[2][2])), Limit(args))
        row(i) == Line("server", "CHATHISTORY",
                       <<"TARGETS", Correspondent(e.irc, c, e.irc.log[i]), TimeOf(e.irc.log[i].m)>>)
    IN  InBatch(e, c, <<"draft/chathistory-targets">>, [k \in DOMAIN found |-> row(found[k])])

\* A channel one is not in has no history, and a nick may have had one.
AnswersHistory(e, c, args) ==
    LET target == args[2]
        closed == ~OnChannel(e.irc, c, target) /\ (Exists(e.irc, target) \/ target \in InvalidTargets)
    IN  IF args[1] = "TARGETS" THEN ListsTargets(e, c, args)
        ELSE IF Refused(e.irc, "CHATHISTORY", closed)
        THEN Fail(e, c, <<"CHATHISTORY", "INVALID_TARGET", args[1], target, "no">>)
        ELSE InBatch(e, c, <<"chathistory", target>>,
                     Selection(e.irc, Conversation(e.irc, c, target), args[1], References(args), Limit(args)))

\* A server may ask others, and answer later.
CHATHISTORY(e, c, args) ==
    IF Chooses(e.irc, "answers later") THEN Becomes(e, [e.irc EXCEPT !.asked[c] = Append(@, args)])
    ELSE AnswersHistory(e, c, args)

-----------------------------------------------------------------------------
(* REDACT: a target, a msgid, perhaps a reason. *)

REDACT(e, c, args) ==
    LET irc == e.irc
        target == args[1]
        onChannel == OnChannel(irc, c, target)
        found == {i \in DOMAIN irc.log : <<"msgid", args[2]>> \in irc.log[i].m.tags /\ IsBetween(irc, c, target, irc.log[i])}
        i == CHOOSE j \in found : TRUE
        own == irc.log[i].from = Identity(irc, c)
        ends == IF onChannel THEN Chan(irc, target).members ELSE {c, ClientOf(irc, target)}
        m == Dated(FromClient(irc, c, "REDACT", args), "REDACT")
        gone == IF irc.fault = <<"remembers", "REDACT">> THEN irc
                ELSE IF Chooses(irc, "REDACT is played back") THEN Remembers(irc, Identity(irc, c), irc.log[i].to, m)
                ELSE [irc EXCEPT !.log = RemoveAt(@, i)]
        able == {d \in ends : "draft/message-redaction" \in irc.caps[d]}
    IN  IF Refused(irc, "REDACT target", ~onChannel /\ ~HasNick(irc, target))
        THEN Fail(e, c, <<"REDACT", "INVALID_TARGET", target, "no">>)
        ELSE IF found = {} THEN Fail(e, c, <<"REDACT", "UNKNOWN_MSGID", target, args[2], "none">>)
        ELSE IF Refused(irc, "REDACT", ~own /\ ~IsOp(irc, c, target))
        THEN Fail(e, c, <<"REDACT", "REDACT_FORBIDDEN", target, args[2], "no">>)
        ELSE Tell(Becomes(e, gone), able, m)

-----------------------------------------------------------------------------
(* MARKREAD: a target, and a time to mark it with. *)

MARKREAD(e, c, args) ==
    LET target == args[1]
        nick == e.irc.nick[c]
        old == Marker(e.irc, nick, target)
        time == IF old = "newer" /\ args[2] = "older" /\ e.irc.fault # <<"decreases", "MARKREAD">> THEN old
                ELSE args[2]
        marked == [e.irc EXCEPT !.markers = (@ \ {<<nick, target, old>>}) \cup {<<nick, target, time>>}]
        shows(f, value) == Tell(f, {c}, Line("server", "MARKREAD", <<target, value>>))
    IN  IF args = <<>> THEN Fail(e, c, <<"MARKREAD", "NEED_MORE_PARAMS", "more">>)
        ELSE IF Len(args) = 1 THEN shows(e, old)
        ELSE IF Refused(e.irc, "MARKREAD", args[2] \in {"*", "not-a-timestamp"})
        THEN Fail(e, c, <<"MARKREAD", "INVALID_PARAMS", target, "invalid">>)
        ELSE shows(IF e.irc.fault = <<"forgets", "MARKREAD">> THEN e ELSE Becomes(e, marked), time)

CONCAT_TAG == "draft/multiline-concat"
MaxLines == 32
MaxBytes == 4096

-----------------------------------------------------------------------------
(* BATCH: a client opens a batch, sends its lines, and closes it. *)

IsOfBatch(irc, c, l) == irc.sending[c] # NoBatch /\ l.cmd = "PRIVMSG"

IsConcat(tags) == <<CONCAT_TAG, "">> \in tags
BytesOf(lines) == FoldLeft(LAMBDA n, line : n + (IF line.text = "x*400" THEN 400 ELSE 0), 0, lines)

AddsToBatch(e, c, l) ==
    LET batch == e.irc.sending[c]
        line == [text |-> Last(l.args), concat |-> IsConcat(l.tags)]
        lines == Append(batch.lines, line)
        wrong(args) == Fail(Becomes(e, [e.irc EXCEPT !.sending[c] = NoBatch]), c, <<"BATCH">> \o args)
        invalid == <<"batch", batch.name>> \notin l.tags \/ (line.concat /\ line.text = "")
    IN  CASE Refused(e.irc, "BATCH", invalid) -> wrong(<<"MULTILINE_INVALID", "invalid">>)
          [] Refused(e.irc, "BATCH", Len(lines) > MaxLines) -> wrong(<<"MULTILINE_MAX_LINES", ToString(MaxLines), "too many">>)
          [] Refused(e.irc, "BATCH", BytesOf(lines) > MaxBytes) -> wrong(<<"MULTILINE_MAX_BYTES", ToString(MaxBytes), "too long">>)
          [] OTHER -> Becomes(e, [e.irc EXCEPT !.sending[c].lines = lines])

\* The batch as one client gets it: in a batch that has the msgid, the time and
\* the tags of the whole, or as messages of which the first has the msgid.
BatchFor(irc, c, batch, d) ==
    LET own == {t \in batch.tags : t[1] # "label"}
        whole == {<<"time", "then">>, <<"msgid", IF irc.fault = <<"wrong", "msgid">> /\ d # c THEN "other" ELSE "id">>}
        label == IF d = c /\ irc.fault # <<"silent", "label">> THEN batch.tags \ own ELSE {}
        concat(line) == IF line.concat /\ irc.fault # <<"drops", "concat">> THEN {<<CONCAT_TAG, "">>} ELSE {}
        message(line, tags) == Tagged(Line(irc.nick[c], "PRIVMSG", <<batch.target, line.text>>), tags)
        inside == [i \in DOMAIN batch.lines |->
                      message(batch.lines[i], {<<"batch", "1">>} \cup concat(batch.lines[i])
                                              \cup (IF irc.fault = <<"repeats", "msgid">> THEN whole ELSE {}))]
        opening == Tagged(Line(irc.nick[c], "BATCH", <<"+", "1", "draft/multiline", batch.target>>),
                          whole \cup own \cup label)
        texts == SelectSeq(batch.lines, LAMBDA line : line.text # "" \/ irc.fault = <<"sends", "blank lines">>)
        alone == [i \in DOMAIN texts |->
                     message(texts[i], {t \in whole : t[1] = "time" \/ i = 1 \/ irc.fault = <<"repeats", "msgid">>} \cup own
                                       \cup (IF irc.fault = <<"leaks", "concat">> THEN concat(texts[i]) ELSE {}))]
    IN  IF "draft/multiline" \in irc.caps[d]
        THEN <<opening>> \o inside \o <<Line(irc.nick[c], "BATCH", <<"-", "1">>)>>
        ELSE alone

SendsBatch(e, c, batch) ==
    LET irc == [e.irc EXCEPT !.sending[c] = NoBatch]
        echoed == IF "echo-message" \in irc.caps[c] THEN {c} ELSE {}
        to == (Chan(irc, batch.target).members \ {c}) \cup echoed
    IN  FoldSet(LAMBDA d, f : FoldLeft(LAMBDA g, m : Tell(g, {d}, m), f, BatchFor(irc, c, batch, d)), Becomes(e, irc), to)

BATCH(e, c, args, tags) ==
    IF args[1] = "+"
    THEN Becomes(e, [e.irc EXCEPT !.sending[c] = [name |-> args[2], target |-> args[4], tags |-> tags, lines |-> <<>>]])
    ELSE IF e.irc.sending[c] = NoBatch THEN e
    ELSE SendsBatch(e, c, e.irc.sending[c])

-----------------------------------------------------------------------------
(* RENAME of a channel, which is a PART and a JOIN for those who do not     *)
(* know it.                                                                 *)

RENAME(e, c, args) ==
    LET old == args[1]
        new == args[2]
        chan == Chan(e.irc, old)
        knows == {d \in chan.members : "draft/channel-rename" \in e.irc.caps[d]}
        others == IF e.irc.fault = <<"silent", "rename">> THEN {} ELSE chan.members \ knows
        renamed == SetChan(e.irc, new, chan)
        irc == IF e.irc.fault = <<"keeps", "RENAME">> THEN renamed
               ELSE [renamed EXCEPT !.chans = [ch \in DOMAIN @ \ {old} |-> @[ch]]]
        told == Tell(Becomes(e, irc), knows, FromClient(irc, c, "RENAME", args))
        moved(d, f) ==
            LET left == Tell(f, {d}, FromClient(irc, d, "PART", <<old, "renamed">>))
                joined == Tell(left, {d}, JoinLine(irc, d, new, d))
            IN  EndOfNames(NamReply(joined, d, new), d, new)
    IN  IF Refused(e.irc, "RENAME", ~IsOp(e.irc, c, old)) THEN Reply(e, c, "ERR_CHANOPRIVSNEEDED", <<old, "not op">>)
        ELSE FoldSet(moved, told, others)

-----------------------------------------------------------------------------
(* RELAYMSG, NPC and SCENE: messages whose source is not their sender. *)

RelayNicks == {"smt/discord"}

\* The channel hears a message, and it is remembered.
RelaysTo(e, c, chan, nick, text, tags) ==
    LET m == Dated(Tagged(Line(nick, "PRIVMSG", <<chan, text>>), tags), text)
    IN  Tell(Becomes(e, Remembers(e.irc, Identity(e.irc, c), <<chan, "">>, m)), Chan(e.irc, chan).members, m)

RELAYMSG(e, c, args) ==
    LET refused(code) == Fail(e, c, <<"RELAYMSG", code, "no">>)
    IN  CASE Refused(e.irc, "RELAYMSG", ~IsOp(e.irc, c, args[1])) -> refused("PRIVS_NEEDED")
          [] Refused(e.irc, "relayed nick", args[2] \notin RelayNicks) -> refused("INVALID_NICK")
          [] OTHER -> RelaysTo(e, c, args[1], args[2], args[3], {<<"draft/relaymsg", e.irc.nick[c]>>})

\* A channel must have asked for them with +E.
Roleplays(e, c, cmd, args) ==
    LET nick == IF cmd = "SCENE" THEN "=Scene=" ELSE "*" \o args[2] \o "*"
    IN  IF Refused(e.irc, "roleplay", "E" \notin Chan(e.irc, args[1]).modes)
        THEN Reply(e, c, "ERR_CANNOTSENDRP", <<args[1], "no">>)
        ELSE RelaysTo(e, c, args[1], nick, Last(args), {})

=============================================================================
