------------------------------- MODULE Services -------------------------------
(***************************************************************************)
(* A test with services: addClient() waits until NickServ answers          *)
(* (wait_for_services() of irctest/basecontrollers.py), and registerUser() *)
(* asks NickServ for an account.  The services are a process of their own, *)
(* which links to the server when it likes and answers when it likes, and  *)
(* either may crash meanwhile.                                             *)
(*                                                                         *)
(* All this happens while the test of ServerController is in the state     *)
(* "test": every step here is one of that module, or leaves it alone.      *)
(***************************************************************************)
EXTENDS ServerController, Sequences

CONSTANTS MaxAsks,   \* requests for help in the 10 seconds of wait_for_services
          Notified   \* the clients to which the server sends lines after its burst

ASSUME ServicesAssumption == MaxAsks \in Nat \ {0} /\ Notified \subseteq {"chkNS", "user"}

VARIABLES phase,      \* what addClient() or registerUser() is doing
          client,     \* the client that does it: "chkNS", or "user" of registerUser()
          purpose,    \* what the test called
          servicesUp, \* self.services_up
          linked,     \* NickServ is on the network
          session,    \* what the server knows of the client
          inbox,      \* lines sent to the client
          requests,   \* requests NickServ has received, and not answered
          asked,      \* requests for help so far
          outcome,    \* of the last call
          lost        \* history: the request of registerUser() died with the services

clientVars == <<phase, client, purpose, servicesUp, asked, outcome>>
netVars == <<linked, session, inbox, requests, lost>>
servicesVars == <<vars, clientVars, netVars>>

\* A change of the user's modes, and a NOTICE of the server itself.
Notifications == {"MODE", "server NOTICE"}
Lines == {"PING", "001", "376", "401", "NOTICE", "ERROR"} \cup Notifications

TypeOKServices ==
    /\ phase \in {"idle", "connect", "burst", "ask", "reply", "quit", "quitting"}
    /\ client \in {"chkNS", "user"} /\ purpose \in {"addClient", "registerUser"}
    /\ servicesUp \in BOOLEAN /\ linked \in BOOLEAN /\ lost \in BOOLEAN
    /\ session \in {"none", "new", "pinged", "ponged", "up", "leaving", "closed"}
    /\ inbox \in Seq(Lines)
    /\ requests \in Nat /\ asked \in 0..MaxAsks
    /\ outcome \in {"", "done", "raised", "timeout", "refused"}

InitServices ==
    /\ Init
    /\ phase = "idle" /\ client = "chkNS" /\ purpose = "addClient"
    /\ servicesUp = FALSE /\ asked = 0 /\ outcome = ""
    /\ linked = FALSE /\ session = "none" /\ inbox = <<>> /\ requests = 0 /\ lost = FALSE

-----------------------------------------------------------------------------
(* The server and the services. *)

Runs(g) == leader[g] = "running"

\* What the end of a process does to the connections.
ConnectionsEnd ==
    /\ linked' = (linked /\ Runs("server")' /\ Runs("services")')
    /\ requests' = IF linked' THEN requests ELSE 0
    /\ lost' = (lost \/ (client = "user" /\ requests' < requests))
    /\ session' = IF Runs("server")' \/ session = "none" THEN session ELSE "closed"
    /\ UNCHANGED inbox

ServicesLink ==
    /\ Runs("services") /\ listening /\ ~linked
    /\ linked' = TRUE
    /\ UNCHANGED <<vars, clientVars, session, inbox, requests, lost>>

Has(ms, line) == \E i \in DOMAIN ms : ms[i] = line
Tells(lines) == inbox' = inbox \o lines

\* Some servers want a PONG before they register a client.
ServerPings ==
    /\ session = "new"
    /\ session' = "pinged" /\ Tells(<<"PING">>)
    /\ UNCHANGED <<vars, clientVars, linked, requests, lost>>

ServerWelcomes ==
    /\ session \in {"new", "ponged"}
    /\ session' = "up" /\ Tells(<<"001", "376">>)
    /\ UNCHANGED <<vars, clientVars, linked, requests, lost>>

\* Bound: one notification at a time.
ServerNotifies ==
    /\ session = "up" /\ client \in Notified
    /\ \A line \in Notifications : ~Has(inbox, line)
    /\ \E line \in Notifications : Tells(<<line>>)
    /\ UNCHANGED <<vars, clientVars, linked, session, requests, lost>>

\* QUIT is answered with an ERROR; what NickServ still answers is for nobody.
ServerHandlesQuit ==
    /\ session = "leaving"
    /\ session' = "closed" /\ Tells(<<"ERROR">>)
    /\ requests' = 0
    /\ UNCHANGED <<vars, clientVars, linked, lost>>

NickServAnswers ==
    /\ linked /\ requests > 0
    /\ requests' = requests - 1 /\ Tells(<<"NOTICE">>)
    /\ UNCHANGED <<vars, clientVars, linked, session, lost>>

-----------------------------------------------------------------------------
(* addClient() and registerUser() begin and end. *)

Idle == phase = "idle"

\* registerUser() calls addClient() first.
TestAddsClient ==
    /\ Idle
    /\ TestWaitsForPort
    /\ purpose' \in {"addClient"} \cup (IF runServices THEN {"registerUser"} ELSE {})
    /\ outcome' = ""
    /\ UNCHANGED <<phase, client, servicesUp, asked, netVars>>

\* Faulty variant: NickServ is believed to be there.
ServicesAssumed == TRUE

\* `if self.services_up: return`
ServicesKnown == servicesUp

\* wait_for_services() is over, or was not needed.
ClientIsAdded ==
    IF purpose = "registerUser"
    THEN phase' = "connect" /\ client' = "user" /\ UNCHANGED outcome
    ELSE phase' = "idle" /\ outcome' = "done" /\ UNCHANGED client

\* wait_for_port() of addClient() has returned.
PortIsReady == pc = "waiting" /\ portOpen /\ after = "test" /\ runServices

\* The other steps of the test, one of which ends wait_for_port().
TestRuns ==
    /\ Idle
    /\ Test
    /\ IF ~PortIsReady THEN UNCHANGED <<phase, client, outcome>>
       ELSE IF ServicesKnown THEN ClientIsAdded
       ELSE phase' = "connect" /\ client' = "chkNS" /\ UNCHANGED outcome
    /\ ConnectionsEnd
    /\ UNCHANGED <<purpose, servicesUp, asked>>

TestChooses ==
    /\ Idle
    /\ TestChecksServer \/ TestStopsServer \/ TearDown
    /\ ConnectionsEnd
    /\ UNCHANGED clientVars

ProcessRuns ==
    /\ Processes \/ LeaderListens \/ \E g \in Group : LeaderForks(g) \/ LeaderCrashes(g)
    /\ ConnectionsEnd
    /\ UNCHANGED clientVars

\* An exception leaves the call, and the connection open.
CallRaises(why) ==
    /\ phase' = "idle" /\ outcome' = why
    /\ session' = "none" /\ inbox' = <<>> /\ requests' = 0
    /\ UNCHANGED <<vars, client, purpose, servicesUp, asked, linked, lost>>

-----------------------------------------------------------------------------
(* The client: chkNS of wait_for_services(), or that of registerUser(). *)

\* NICK and USER are sent with it.
ClientConnects ==
    /\ phase = "connect" /\ listening
    /\ phase' = "burst" /\ session' = "new" /\ inbox' = <<>>
    /\ UNCHANGED <<vars, client, purpose, servicesUp, asked, outcome, linked, requests, lost>>

ConnectRefused ==
    /\ phase = "connect" /\ ~listening
    /\ CallRaises("raised")

Ponged(ms) == IF Has(ms, "PING") /\ session = "pinged" THEN "ponged" ELSE session

\* Faulty variant: a PING is not answered.
PingIgnored(ms) == session

\* "Hi Unreal"
ChkAnswersPing(ms) == Ponged(ms)

\* getRegistrationMessage()
UserAnswersPing(ms) == Ponged(ms)

\* getMessages(synchronize=False) returns what came so far.
ChkReadsBurst ==
    /\ phase = "burst" /\ client = "chkNS"
    /\ \E n \in DOMAIN inbox :
          LET ms == SubSeq(inbox, 1, n)
          IN  /\ inbox' = SubSeq(inbox, n + 1, Len(inbox))
              /\ session' = ChkAnswersPing(ms)
              /\ phase' = IF Has(ms, "376") THEN "ask" ELSE "burst"
    /\ asked' = 0
    /\ UNCHANGED <<vars, client, purpose, servicesUp, outcome, linked, requests, lost>>

\* getRegistrationMessage() until the 001, then a synchronized getMessages(),
\* whose PING the server is assumed to answer.
UserReadsBurst ==
    /\ phase = "burst" /\ client = "user"
    /\ inbox # <<>>
    /\ inbox' = <<>>
    /\ session' = UserAnswersPing(inbox)
    /\ phase' = IF Has(inbox, "001") THEN "ask" ELSE "burst"
    /\ UNCHANGED <<vars, client, purpose, servicesUp, asked, outcome, linked, requests, lost>>

\* PRIVMSG NickServ, which the server refuses while there is no NickServ.
Asks ==
    /\ phase = "ask"
    /\ phase' = "reply"
    /\ IF session = "up" /\ linked
       THEN requests' = requests + 1 /\ UNCHANGED inbox
       ELSE (IF session = "up" THEN Tells(<<"401">>) ELSE UNCHANGED inbox) /\ UNCHANGED requests
    /\ UNCHANGED <<vars, client, purpose, servicesUp, asked, outcome, linked, session, lost>>

\* Faulty variant: a NOTICE of the server is taken for one of NickServ.
AnyNotice(ms) == Has(ms, "NOTICE") \/ Has(ms, "server NOTICE")

HeardNickServ(ms) == Has(ms, "NOTICE")
AskedLongEnough == asked + 1 >= MaxAsks

\* getNickServResponse(c, timeout=1), and what the loop makes of the answer;
\* nothing may have come for a second.  Its getMessages() is synchronized, as
\* are those of UserReadsBurst and UserReadsAnswer: they return with the PONG,
\* for which they would wait for ever.  Here a server that runs is assumed to
\* answer the PING; in Sable it may not.
ChkReadsAnswer ==
    /\ phase = "reply" /\ client = "chkNS"
    /\ inbox # <<>> \/ session = "up"
    /\ IF ~HeardNickServ(inbox) /\ AskedLongEnough THEN CallRaises("timeout")
       ELSE /\ phase' = IF HeardNickServ(inbox) THEN "quit" ELSE "ask"
            /\ asked' = asked + 1
            /\ inbox' = <<>>
            /\ UNCHANGED <<vars, client, purpose, servicesUp, outcome, linked, session, requests, lost>>

\* getNickServResponse() without a timeout, and the assertion on the answer.
UserReadsAnswer ==
    /\ phase = "reply" /\ client = "user"
    /\ inbox # <<>>
    /\ IF Has(inbox, "NOTICE") \/ Has(inbox, "server NOTICE")
       THEN /\ phase' = "quit" /\ inbox' = <<>>
            /\ UNCHANGED <<vars, client, purpose, servicesUp, asked, outcome, linked, session,
                           requests, lost>>
       ELSE CallRaises("refused")

SendsQuit ==
    /\ phase = "quit"
    /\ phase' = "quitting"
    /\ session' = IF session = "up" THEN "leaving" ELSE session
    /\ UNCHANGED <<vars, client, purpose, servicesUp, asked, outcome, linked, inbox, requests, lost>>

\* getMessages() up to the end of the connection; disconnect(), or
\* assertDisconnected().
ClientLeaves ==
    /\ phase = "quitting" /\ session = "closed"
    /\ client = "chkNS" => inbox # <<>>
    /\ session' = "none" /\ inbox' = <<>>
    /\ IF client = "chkNS" THEN servicesUp' = TRUE /\ ClientIsAdded
       ELSE phase' = "idle" /\ outcome' = "done" /\ UNCHANGED <<client, servicesUp>>
    /\ UNCHANGED <<vars, purpose, asked, linked, requests, lost>>

\* The connection ends, and nothing is left to read.
ClientMeetsEnd ==
    /\ session = "closed" /\ inbox = <<>>
    /\ phase \in {"burst", "reply"} \/ (phase = "quitting" /\ client = "chkNS")
    /\ CallRaises("raised")

ClientStep ==
    \/ ClientConnects \/ ConnectRefused \/ ChkReadsBurst \/ UserReadsBurst \/ Asks
    \/ ChkReadsAnswer \/ UserReadsAnswer \/ SendsQuit \/ ClientLeaves \/ ClientMeetsEnd

ServerAnswers == ServerPings \/ ServerWelcomes \/ ServerHandlesQuit

NextServices ==
    \/ ProcessRuns \/ TestRuns \/ TestChooses \/ TestAddsClient
    \/ ClientStep \/ ServerAnswers \/ ServicesLink \/ NickServAnswers \/ ServerNotifies

SpecServices == InitServices /\ [][NextServices]_servicesVars

\* A server that runs answers its clients and NickServ, once linked, what it
\* is asked; nothing forces the services to link.
FairSpecServices ==
    /\ SpecServices
    /\ WF_servicesVars(TestRuns) /\ WF_servicesVars(ClientStep)
    /\ WF_servicesVars(ServerAnswers) /\ WF_servicesVars(NickServAnswers)
    /\ \A g \in Group : /\ WF_servicesVars(LeaderObeys(g) /\ ConnectionsEnd /\ UNCHANGED clientVars)
                        /\ WF_servicesVars(HelperObeys(g) /\ ConnectionsEnd /\ UNCHANGED clientVars)

-----------------------------------------------------------------------------
(* Properties *)

\* services_up, which is never reset, is true only of services that are on the
\* network, or that have ended since.
ServicesUpIsCurrent == servicesUp => linked \/ ~Runs("server") \/ ~Runs("services")

\* registerUser() is told that there is no NickServ only if a process ended:
\* it cannot come too early, although nothing in it waits for the services.
\* (A server that notifies this client at the wrong time makes it fail as well.)
RefusedOnlyIfGone == outcome = "refused" => ~Runs("server") \/ ~Runs("services")

\* wait_for_services() ends, whether or not the services ever come, if the server
\* answers PINGs as long as it runs.
ReadinessWaitEnds ==
    phase # "idle" /\ client = "chkNS" ~> phase = "idle" \/ client = "user"

\* registerUser() ends, with such a server, unless the services end between its
\* request and their answer: getNickServResponse() then waits without a limit.
RegistrationEnds == phase # "idle" /\ client = "user" ~> phase = "idle" \/ lost

=============================================================================
