----------------------------- MODULE IrcSession -----------------------------
(***************************************************************************)
(* The session of a client with the server under test: capabilities, SASL, *)
(* and registration.                                                       *)
(***************************************************************************)
EXTENDS IrcMetadata

SupportedCaps ==
    {"account-notify", "account-tag", "away-notify", "batch", "cap-notify", "echo-message",
     "extended-join", "extended-monitor", "invite-notify", "labeled-response", "message-tags",
     "multi-prefix", "sasl", "server-time", "setname", "userhost-in-names", "draft/channel-rename",
     "draft/chathistory", "draft/event-playback", "draft/message-redaction", "draft/multiline", "draft/relaymsg",
     "draft/metadata-3", "draft/read-marker"}

Mechanisms == {"PLAIN", "EXTERNAL", "SCRAM-SHA-256"}

\* Effects of a client that is registered.
Appears(e, c) == TellWatchers(e, "RPL_MONONLINE", e.irc.nick[c])

\* connectClient(): everything until the end of the burst, all at once.
Registers(e, c, nick, ident, caps, account) ==
    Appears(Becomes(e, Counted([e.irc EXCEPT !.stage[c] = "up", !.nick[c] = nick, !.ident[c] = ident,
                                             !.caps[c] = caps, !.account[c] = account])), c)

Burst(irc) ==
    <<"RPL_WELCOME", "RPL_YOURHOST", "RPL_CREATED", "RPL_MYINFO", "RPL_ISUPPORT">>
    \o (IF Chooses(irc, "RPL_VISIBLEHOST") THEN <<"RPL_VISIBLEHOST">> ELSE <<>>)
    \o (IF Chooses(irc, "a MOTD") THEN <<"RPL_LUSERCLIENT", "RPL_MOTDSTART", "RPL_MOTD", "RPL_ENDOFMOTD">>
        ELSE <<"ERR_NOMOTD">>)

Welcomes(e, c) ==
    LET up == Becomes(e, Counted([e.irc EXCEPT !.stage[c] = "up"]))
        greeted == FoldLeft(LAMBDA f, cmd : Reply(f, c, cmd, <<"hello">>), up, Burst(e.irc))
    IN  Appears(ShowsOwnMetadata(greeted, c), c)

\* The server closes a connection that is not registered.
Rejects(e, c) ==
    Tell(Becomes(e, [e.irc EXCEPT !.stage[c] = "closed"]), {c}, Line("server", "ERROR", <<"Closing Link">>))

\* A client that has said all it must is registered, unless its nick was taken
\* or its password is wrong.
Completes(e, c) ==
    LET reg == e.irc.reg[c]
        wrong == e.irc.password # "" /\ reg.pass # e.irc.password
        told == IF Chooses(e.irc, "only ERROR") THEN e
                ELSE Answer(e, c, "ERR_PASSWDMISMATCH", <<"incorrect">>)
    IN  CASE e.irc.nick[c] = "" \/ ~reg.user \/ Refused(e.irc, "CAP END", reg.negotiating) -> e
          [] Refused(e.irc, "PASS", wrong) -> Rejects(told, c)
          [] Refused(e.irc, "NICK", HasNick(e.irc, e.irc.nick[c])) ->
                IF Chooses(e.irc, "closes on collision") THEN Rejects(e, c)
                ELSE Answer(Becomes(e, [e.irc EXCEPT !.nick[c] = ""]), c, "ERR_NICKNAMEINUSE",
                            <<e.irc.nick[c], "in use">>)
          [] Chooses(e.irc, "PING cookie") /\ ~reg.pinged ->
                Tell(Becomes(e, [e.irc EXCEPT !.reg[c].pinged = TRUE, !.reg[c].negotiating = TRUE]), {c},
                     Line("server", "PING", <<"cookie">>))
          [] Chooses(e.irc, "registers later") -> Becomes(e, [e.irc EXCEPT !.stage[c] = "ready"])
          [] OTHER -> Welcomes(e, c)

PONG(e, c) == Completes(Becomes(e, [e.irc EXCEPT !.reg[c].negotiating = FALSE]), c)
PASS(e, c, password) == Becomes(e, [e.irc EXCEPT !.reg[c].pass = password])

USER(e, c, args) ==
    IF Refused(e.irc, "USER", args[2] = "")
    THEN Answer(e, c, "ERR_NEEDMOREPARAMS", <<"USER", "more">>)
    ELSE IF Chooses(e.irc, "not UTF-8") /\ "not UTF-8" \in {args[1], args[2]} THEN Rejects(e, c)
    ELSE Completes(Becomes(e, [e.irc EXCEPT !.reg[c].user = TRUE, !.realname[c] = args[2]]), c)

FirstNick(e, c, nick) ==
    IF Refused(e.irc, "NICK", nick = "*") THEN Answer(e, c, "ERR_ERRONEUSNICKNAME", <<nick, "erroneous">>)
    ELSE IF Refused(e.irc, "NICK", HasNick(e.irc, nick))
    THEN Answer(e, c, "ERR_NICKNAMEINUSE", <<nick, "in use">>)
    ELSE Completes(Becomes(e, [e.irc EXCEPT !.nick[c] = nick]), c)

-----------------------------------------------------------------------------
(* CAP.  The items of REQ are capabilities with "+", or "-" to drop them, *)
(* and a parameter stands for their order, which NAK repeats.             *)

CapReply(e, c, args, items) ==
    Tell(e, {c}, Listing(ServerLine(e.irc, c, "CAP", args), items))

CapRequest(e, c, args, items) ==
    LET added == {i[1] : i \in {j \in items : j[2] = "+"}}
        dropped == {i[1] : i \in {j \in items : j[2] = "-"}}
        bad == ~(added \cup dropped \subseteq SupportedCaps)
        minus == dropped # {} /\ Chooses(e.irc, "capabilities are kept")
        now == IF e.irc.fault = <<"deaf", "-">> THEN e.irc.caps[c] \cup added
               ELSE (e.irc.caps[c] \cup added) \ dropped
    IN  IF Refused(e.irc, "CAP", bad) \/ minus
        THEN CapReply(e, c, <<"NAK">> \o (IF e.irc.fault = <<"wrong", "order">> THEN <<"sorted">>
                                         ELSE Tail(args)), items)
        ELSE CapReply(Becomes(e, [e.irc EXCEPT !.caps[c] = now]), c, <<"ACK">>, items)

\* A list may take several lines if the client knows version 302.
SaslValue == "EXTERNAL,PLAIN,SCRAM-SHA-256"
CapLS(e, c, knows302) ==
    LET value(cap) ==
            CASE cap = "sasl" /\ knows302 /\ Chooses(e.irc, "values of capabilities") -> SaslValue
              [] cap = "draft/metadata-3" /\ knows302 /\ Chooses(e.irc, "before-connect") -> "before-connect"
              [] OTHER -> ""
        row == {<<cap, value(cap)>> : cap \in SupportedCaps}
        first == {item \in row : item[1] \in {"sasl", "echo-message"}}
    IN  IF \/ knows302 /\ Chooses(e.irc, "long lists")
           \/ e.irc.fault = <<"wrong", "CAP LS">>
        THEN CapReply(CapReply(e, c, <<"LS", "*">>, first), c, <<"LS">>, row \ first)
        ELSE CapReply(e, c, <<"LS">>, row)

CAP(e, c, args, items) ==
    LET opened == IF e.irc.stage[c] = "new"
                  THEN Becomes(e, [e.irc EXCEPT !.reg[c].negotiating = TRUE]) ELSE e
        enabled == IF e.irc.fault = <<"wrong", "CAP LIST">> THEN SupportedCaps ELSE e.irc.caps[c]
        aborted == IF e.irc.reg[c].mech = "" THEN e
                   ELSE Answer(Becomes(e, [e.irc EXCEPT !.reg[c].mech = ""]), c, "ERR_SASLABORTED", <<"aborted">>)
    IN  CASE args[1] = "LS" -> CapLS(opened, c, Tail(args) = <<"302">>)
          [] args[1] = "LIST" -> CapReply(e, c, <<"LIST">>, {<<cap, "">> : cap \in enabled})
          [] args[1] = "REQ" -> CapRequest(opened, c, args, items)
          [] args[1] = "END" -> IF e.irc.stage[c] # "new" THEN e ELSE PONG(aborted, c)
          [] OTHER -> Answer(e, c, "ERR_INVALIDCAPCMD", <<args[1], "invalid">>)

-----------------------------------------------------------------------------
(* AUTHENTICATE: a mechanism, then what the mechanism asks.  Credentials    *)
(* are an account and its password, with the identity to act as before      *)
(* them or not; a line of 400 bytes has some of them and is not the last.   *)

MaxChunks == 2    \* bound: lines of 400 bytes the server takes

LogsIn(e, c, account) ==
    LET known == Becomes(e, [e.irc EXCEPT !.account[c] = account, !.reg[c].mech = ""])
        one == ServerLine(e.irc, c, "RPL_LOGGEDIN", <<"mask", account, "hello">>)
        two == ServerLine(e.irc, c, "RPL_SASLSUCCESS", <<"success">>)
        told == IF Chooses(e.irc, "success comes first")
                THEN Tell(Tell(known, {c}, two), {c}, one) ELSE Tell(Tell(known, {c}, one), {c}, two)
        seen == Peers(e.irc, c) \cup
                {d \in Watchers(e.irc, e.irc.nick[c]) : "extended-monitor" \in e.irc.caps[d]}
    IN  IF e.irc.stage[c] = "up"
        THEN Tell(told, {d \in seen : "account-notify" \in e.irc.caps[d]},
                  FromClient(e.irc, c, "ACCOUNT", <<account>>))
        ELSE told

\* The exchange ends without success.
SaslFails(e, c, cmd) ==
    Answer(Becomes(e, [e.irc EXCEPT !.reg[c].mech = ""]), c, cmd, <<"failed">>)

Continues(e, c, arg) == Tell(e, {c}, Line("server", "AUTHENTICATE", <<arg>>))

StartsSasl(e, c, mech) ==
    CASE Chooses(e.irc, "no SASL later") /\ e.irc.stage[c] = "up" ->
            Answer(e, c, "ERR_ALREADYREGISTERED", <<"too late">>)
      [] Chooses(e.irc, "no SASL twice") /\ e.irc.account[c] # "" ->
            Answer(e, c, "ERR_SASLALREADY", <<"already">>)
      [] "sasl" \notin e.irc.caps[c] /\ ~Chooses(e.irc, "SASL without CAP") -> e
      [] Refused(e.irc, "mechanism", mech \notin Mechanisms) ->
            SaslFails(IF Chooses(e.irc, "RPL_SASLMECHS")
                      THEN Answer(e, c, "RPL_SASLMECHS", <<SaslValue, "are available">>) ELSE e,
                      c, "ERR_SASLFAIL")
      [] OTHER -> Continues(Becomes(e, [e.irc EXCEPT !.reg[c].mech = mech, !.reg[c].data = <<>>]), c, "+")

Accepts(irc, given) ==
    LET n == Len(given)
    IN  /\ n >= 2
        /\ <<given[n - 1], given[n]>> \in irc.accounts
        /\ n = 2 \/ given[1] = given[2] \/ Chooses(irc, "acts as others")

PlainAnswer(e, c, given) ==
    IF Refused(e.irc, "AUTHENTICATE", ~Accepts(e.irc, given)) THEN SaslFails(e, c, "ERR_SASLFAIL")
    ELSE LogsIn(e, c, IF Len(given) < 3 THEN given[1] ELSE given[2])

\* SCRAM: the name, then a proof of the password, then "+" for the signature
\* with which the server proves that it knows the password too.
ScramAnswer(e, c, given) ==
    LET said == Becomes(e, [e.irc EXCEPT !.reg[c].data = given])
    IN  CASE Len(given) = 1 -> Continues(said, c, "challenge")
          [] Refused(e.irc, "AUTHENTICATE", ~Accepts(e.irc, SubSeq(given, 1, 2))) ->
                SaslFails(e, c, "ERR_SASLFAIL")
          [] Len(given) = 2 ->
                Continues(said, c, IF e.irc.fault = <<"wrong", "signature">> THEN "forged" ELSE "signature")
          [] OTHER -> LogsIn(e, c, given[1])

\* A line of 400 bytes; `full` is the number of those before it.
TakesChunk(e, c, data) ==
    IF Len(data) <= 2 * MaxChunks THEN Becomes(e, [e.irc EXCEPT !.reg[c].data = data])
    ELSE IF Chooses(e.irc, "closes on flood") THEN Rejects(e, c)
    ELSE IF Chooses(e.irc, "closes silently") THEN Becomes(e, [e.irc EXCEPT !.stage[c] = "closed"])
    ELSE SaslFails(e, c, "ERR_SASLFAIL")

AUTHENTICATE(e, c, args) ==
    LET reg == e.irc.reg[c]
        chunk == args[1] = "400 bytes" /\ e.irc.fault # <<"wrong", "chunks">>
        given == reg.data \o (IF args[1] = "400 bytes" THEN Tail(args)
                              ELSE IF args[1] = "+" /\ reg.mech = "PLAIN" THEN <<>> ELSE args)
    IN  CASE reg.mech = "" -> StartsSasl(e, c, args[1])
          [] Refused(e.irc, "AUTHENTICATE", args[1] = "*") ->
                SaslFails(e, c, IF Chooses(e.irc, "ERR_SASLABORTED") THEN "ERR_SASLABORTED" ELSE "ERR_SASLFAIL")
          [] Refused(e.irc, "AUTHENTICATE", args[1] = "500 bytes") ->
                SaslFails(e, c, IF Chooses(e.irc, "ERR_SASLTOOLONG") THEN "ERR_SASLTOOLONG" ELSE "ERR_INPUTTOOLONG")
          [] chunk -> TakesChunk(e, c, given)
          [] reg.mech = "PLAIN" -> PlainAnswer(e, c, given)
          [] OTHER -> ScramAnswer(e, c, given)

\* What a client that is not registered may do.
PerformNew(e, c, l) ==
    CASE l.cmd = "CAP" -> CAP(e, c, l.args, l.items)
      [] l.cmd = "AUTHENTICATE" -> AUTHENTICATE(e, c, l.args)
      [] l.cmd = "PASS" -> PASS(e, c, l.args[1])
      [] l.cmd = "PING" ->
            IF Chooses(e.irc, "no PING before registration") THEN Answer(e, c, "ERR_NOTREGISTERED", <<"register first">>)
            ELSE Tell(e, {c}, Line("server", "PONG", <<"server", l.args[1]>>))
      [] l.cmd = "PONG" -> PONG(e, c)
      [] l.cmd = "NICK" -> FirstNick(e, c, l.args[1])
      [] l.cmd = "USER" -> USER(e, c, l.args)
      [] l.cmd = "QUIT" -> QUIT(e, c, l.args)
      [] l.cmd = "METADATA" -> METADATA(e, c, l.args)
      [] l.cmd = "EOF" -> Closes(e, c, "closed")

=============================================================================
