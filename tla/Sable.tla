-------------------------------- MODULE Sable --------------------------------
(***************************************************************************)
(* Tests of Sable (irctest/controllers/sable.py), a network of up to three *)
(* processes: the server, its services and its history server.  run() does *)
(* not wait for any of them.  wait_for_services() waits for the services   *)
(* and for the history server in a thread each, with a client each, and    *)
(* registerUser() has a client of its own.                                 *)
(*                                                                         *)
(* kill_proc() and wait_for_port() are in detail in ServerController: here *)
(* a process that is signalled ends, and a minute may pass at any time.    *)
(* The threads call wait_for_port() too, but addClient() has called it     *)
(* before them, and port_open is never reset.                              *)
(*                                                                         *)
(* The clients synchronize: getMessages() sends a PING and reads until its *)
(* PONG, without a limit.  The thread of the history server does not.      *)
(***************************************************************************)
EXTENDS Naturals

CONSTANTS SableConfigs,    \* what tests ask for, besides the server
          MaxTries,        \* bound: questions in 10 seconds, or looks for an answer
          MaxSableCrashes  \* bound: processes that exit by themselves

Watched == {"services", "history"}
Nodes == Watched \cup {"server"}

\* The clients of the two threads, and that of registerUser().
SableClients == Watched \cup {"user"}

ASSUME SableAssumption ==
    SableConfigs \subseteq SUBSET Watched /\ MaxTries \in Nat \ {0} /\ MaxSableCrashes \in Nat

VARIABLES stage,     \* what the test is doing
          wanted,    \* self.run_services and test_config.sable_history_server
          created,   \* services_controller and history_controller that are not None
          node,      \* the processes
          signalled, \* by kill_proc()
          accepting, \* the server listens
          portKnown, \* port_open
          joined,    \* what is linked to the server
          up,        \* whose services_up is set
          does,      \* what each client is doing
          conn,      \* what the server knows of it
          pending,   \* its requests the server has not answered
          heard,     \* answers it has not read, and the PONG it waits for
          tries,     \* questions it asked, or looks for an answer
          calling,   \* "addClient" or "registerUser"
          result,    \* of the last call
          died       \* processes that exited by themselves

nodeVars == <<node, joined, accepting, died>>
connVars == <<conn, pending, heard>>
lineVars == <<does, connVars, tries>>
testVarsSable == <<stage, wanted, created, signalled, portKnown, calling, result>>
sableVars == <<testVarsSable, nodeVars, lineVars, up>>

Killing == {"kill", "kill services", "wait for services", "kill server", "wait for server", "release"}

TypeOKSable ==
    /\ stage \in {"run", "run services", "run history", "test", "port", "threads", "register",
                  "done", "errored", "broken"} \cup Killing
    /\ wanted \in SableConfigs /\ created \subseteq wanted /\ up \subseteq created
    /\ node \in [Nodes -> {"absent", "running", "zombie", "reaped"}]
    /\ signalled \subseteq Nodes /\ joined \subseteq Watched
    /\ accepting \in BOOLEAN /\ portKnown \in BOOLEAN
    /\ does \in [SableClients -> {"nothing", "connect", "burst", "sync", "ask", "reply", "quit", "leave", "raised"}]
    /\ conn \in [SableClients -> {"none", "new", "pinged", "ponged", "refused", "up", "leaving", "bye", "closed"}]
    /\ pending \in [SableClients -> Nat]
    /\ heard \in [SableClients -> SUBSET {"present", "absent", "pong"}]
    /\ tries \in [SableClients -> 0..MaxTries]
    /\ calling \in {"addClient", "registerUser"} /\ result \in {"", "returned", "raised"}
    /\ died \in 0..MaxSableCrashes

SableBegins ==
    /\ wanted \in SableConfigs /\ created = {} /\ signalled = {}
    /\ node = [n \in Nodes |-> "absent"] /\ joined = {}
    /\ accepting = FALSE /\ portKnown = FALSE /\ up = {} /\ died = 0
    /\ does = [c \in SableClients |-> "nothing"] /\ conn = [c \in SableClients |-> "none"]
    /\ pending = [c \in SableClients |-> 0] /\ heard = [c \in SableClients |-> {}]
    /\ tries = [c \in SableClients |-> 0]
    /\ calling = "addClient" /\ result = ""

InitSable == stage = "run" /\ SableBegins

-----------------------------------------------------------------------------
(* The processes, and what they send. *)

NodeRuns(n) == node[n] = "running"

ServerAccepts ==
    /\ NodeRuns("server") /\ ~accepting
    /\ accepting' = TRUE
    /\ UNCHANGED <<testVarsSable, node, joined, died, lineVars, up>>

NodeJoins(w) ==
    /\ NodeRuns(w) /\ accepting /\ w \notin joined
    /\ joined' = joined \cup {w}
    /\ UNCHANGED <<testVarsSable, node, accepting, died, lineVars, up>>

\* With the server end the links to it, and the connections.
NodeExits(n) ==
    /\ NodeRuns(n)
    /\ node' = [node EXCEPT ![n] = "zombie"]
    /\ IF n = "server"
       THEN /\ accepting' = FALSE /\ joined' = {}
            /\ conn' = [c \in SableClients |-> IF conn[c] = "none" THEN "none" ELSE "closed"]
            /\ pending' = [c \in SableClients |-> 0]
       ELSE joined' = joined \ {n} /\ UNCHANGED <<accepting, conn, pending>>
    /\ UNCHANGED <<testVarsSable, does, heard, tries, up>>

NodeObeys(n) == n \in signalled /\ NodeExits(n) /\ UNCHANGED died
NodeCrashes(n) == died < MaxSableCrashes /\ died' = died + 1 /\ NodeExits(n)

ConnBecomes(c, s) ==
    /\ conn' = [conn EXCEPT ![c] = s]
    /\ UNCHANGED <<testVarsSable, nodeVars, does, heard, tries, up>>

ServerGreets(c) ==
    /\ UNCHANGED pending
    /\ \/ conn[c] = "new" /\ ConnBecomes(c, "pinged")
       \/ conn[c] \in {"new", "ponged"} /\ ConnBecomes(c, "up")
       \/ conn[c] = "new" /\ c = "user" /\ ConnBecomes(c, "refused")  \* 432

\* With an ERROR.
ServerLetsGo(c) == conn[c] = "leaving" /\ ConnBecomes(c, "bye") /\ pending' = [pending EXCEPT ![c] = 0]

\* What a client asks about: the accounts for registerUser().
About(c) == IF c = "history" THEN "history" ELSE "services"

\* CAP LS, LINKS or REGISTER is answered some time later.
ServerReplies(c) ==
    /\ conn[c] = "up" /\ pending[c] > 0
    /\ pending' = [pending EXCEPT ![c] = @ - 1]
    /\ heard' = [heard EXCEPT ![c] = @ \cup {IF About(c) \in joined THEN "present" ELSE "absent"}]
    /\ UNCHANGED <<testVarsSable, nodeVars, does, conn, tries, up>>

\* The client has sent the PING of getMessages(), and reads until the PONG.
Synchronizes(c) == does[c] = "sync" \/ (does[c] = "reply" /\ c # "history")
HasPong(c) == "pong" \in heard[c]

ServerPongs(c) ==
    /\ conn[c] = "up" /\ Synchronizes(c) /\ ~HasPong(c)
    /\ heard' = [heard EXCEPT ![c] = @ \cup {"pong"}]
    /\ UNCHANGED <<testVarsSable, nodeVars, does, conn, pending, tries, up>>

-----------------------------------------------------------------------------
(* setUp: run(), which may refuse, or find no database, when processes run. *)

StageIs(s) ==
    /\ stage' = s
    /\ UNCHANGED <<wanted, signalled, portKnown, calling, result, joined, accepting, died, lineVars, up>>

RunServer ==
    /\ stage = "run"
    /\ \/ StageIs("run services") /\ node' = [node EXCEPT !["server"] = "running"]
       \/ StageIs("errored") /\ UNCHANGED node
    /\ UNCHANGED created

RunWatched(w, s, next) ==
    /\ stage = s
    /\ StageIs(next)
    /\ IF w \in wanted
       THEN created' = created \cup {w} /\ node' = [node EXCEPT ![w] = "running"]
       ELSE UNCHANGED <<created, node>>

HistoryFindsNoDatabase ==
    /\ stage = "run history" /\ "history" \in wanted
    /\ StageIs("errored")
    /\ created' = created \cup {"history"}
    /\ UNCHANGED node

SetUpSable ==
    \/ RunServer
    \/ RunWatched("services", "run services", "run history")
    \/ RunWatched("history", "run history", "test")
    \/ HistoryFindsNoDatabase

-----------------------------------------------------------------------------
(* addClient() and registerUser() *)

SableTestCalls ==
    /\ stage = "test"
    /\ calling' \in {"addClient"} \cup (IF "services" \in wanted THEN {"registerUser"} ELSE {})
    /\ stage' = "port" /\ result' = ""
    /\ UNCHANGED <<wanted, created, signalled, portKnown, nodeVars, lineVars, up>>

CallEnds(why) == stage' = "test" /\ result' = why

\* `if self.services_up: return`, or the thread connects
ThreadsStart ==
    does' = [c \in SableClients |-> IF c \in created \ up THEN "connect" ELSE "nothing"]

\* wait_for_port() returns: services_up of the history server matters only if
\* there are services.
PortAnswers ==
    /\ stage = "port" /\ (accepting \/ portKnown)
    /\ portKnown' = TRUE
    /\ IF "services" \in wanted
       THEN stage' = "threads" /\ ThreadsStart /\ UNCHANGED result
       ELSE CallEnds("returned") /\ UNCHANGED does
    /\ UNCHANGED <<wanted, created, signalled, calling, nodeVars, connVars, tries, up>>

\* poll() finds that the server exited, or a minute is over.
PortDoesNotAnswer ==
    /\ stage = "port" /\ ~accepting /\ ~portKnown
    /\ CallEnds("raised")
    /\ node' = IF node["server"] = "zombie" THEN [node EXCEPT !["server"] = "reaped"] ELSE node
    /\ UNCHANGED <<wanted, created, signalled, portKnown, calling, joined, accepting, died, lineVars, up>>

\* Faulty variant: an exception stays in its thread.
ExceptionsDropped == FALSE

SomeThreadRaised == \E w \in Watched : does[w] = "raised"

\* thread.join(), for all; `if exceptions: raise ExceptionGroup`
ThreadsJoined ==
    /\ stage = "threads"
    /\ \A w \in Watched : does[w] \in {"nothing", "raised"}
    /\ IF SomeThreadRaised
       THEN CallEnds("raised") /\ does' = [c \in SableClients |-> "nothing"]
       ELSE IF calling = "registerUser"
       THEN stage' = "register" /\ does' = [does EXCEPT !["user"] = "connect"] /\ UNCHANGED result
       ELSE CallEnds("returned") /\ UNCHANGED does
    /\ UNCHANGED <<wanted, created, signalled, portKnown, calling, nodeVars, connVars, tries, up>>

-----------------------------------------------------------------------------
(* The clients *)

Continues(c, step) ==
    /\ does' = [does EXCEPT ![c] = step]
    /\ UNCHANGED <<stage, result>>

RegistrationIs(why) == CallEnds(why) /\ does' = [does EXCEPT !["user"] = "nothing"]

\* An exception ends the thread, or registerUser().
ClientRaises(c) == IF c = "user" THEN RegistrationIs("raised") ELSE Continues(c, "raised")

testAlone == <<wanted, created, signalled, portKnown, calling, joined, accepting, died>>

\* The connection is left behind.
Forgotten(c) ==
    /\ conn' = [conn EXCEPT ![c] = "none"] /\ pending' = [pending EXCEPT ![c] = 0]
    /\ heard' = [heard EXCEPT ![c] = {}] /\ tries' = [tries EXCEPT ![c] = 0]

SableClientConnects(c) ==
    /\ does[c] = "connect"
    /\ IF accepting
       THEN Continues(c, "burst") /\ conn' = [conn EXCEPT ![c] = "new"]
       ELSE ClientRaises(c) /\ UNCHANGED conn
    /\ UNCHANGED <<testAlone, node, pending, heard, tries, up>>

\* A PING is answered, up to the end of the MOTD, or the 001 of the user.
SableReadsBurst(c) ==
    /\ does[c] = "burst"
    /\ \/ conn[c] = "pinged" /\ conn' = [conn EXCEPT ![c] = "ponged"] /\ UNCHANGED <<does, stage, result>>
       \/ conn[c] = "up" /\ Continues(c, IF c = "user" THEN "sync" ELSE "ask") /\ UNCHANGED conn
    /\ UNCHANGED <<testAlone, node, pending, heard, tries, up>>

\* case.getMessages() for the rest of the MOTD, which may have come before the
\* end of the connection.
UserSynchronizes ==
    LET c == "user" IN
    /\ does[c] = "sync" /\ (HasPong(c) \/ conn[c] = "closed")
    /\ Continues(c, "ask")
    /\ heard' = [heard EXCEPT ![c] = {}]
    /\ UNCHANGED <<testAlone, node, conn, pending, tries, up>>

\* An ERR_ERRONEUSNICKNAME, or the end of the connection: sendLine() may meet it
\* although an answer came before it.
SableMeetsEnd(c) ==
    /\ \/ does[c] = "burst" /\ conn[c] \in {"refused", "closed"}
       \/ does[c] \in {"sync", "reply"} /\ conn[c] = "closed" /\ ~HasPong(c)
    /\ ClientRaises(c) /\ Forgotten(c)
    /\ UNCHANGED <<testAlone, node, up>>

SableAsks(c) ==
    /\ does[c] = "ask"
    /\ Continues(c, "reply")
    /\ pending' = [pending EXCEPT ![c] = IF conn[c] = "up" THEN @ + 1 ELSE @]
    /\ UNCHANGED <<testAlone, node, conn, heard, tries, up>>

\* Faulty variant: there is no limit.
TriesForEver(c) == FALSE

TellsOf(c) == "present" \in heard[c]
TriedEnough(c) == tries[c] + 1 >= MaxTries

\* getMessages() returns: a synchronized one once its PONG has come; another
\* after a second; both at the end of the connection, if something came before.
Reads(c) ==
    /\ does[c] = "reply"
    /\ \/ IF Synchronizes(c) THEN HasPong(c) ELSE conn[c] # "closed"
       \/ conn[c] = "closed" /\ heard[c] # {}

\* One read stands for those of getNickServResponse() in a second.
\* services_up is set; proc.wait(0.1) before the exception of a time limit.
ThreadReadsReply(c) ==
    /\ c \in Watched /\ Reads(c)
    /\ \/ /\ TellsOf(c)
          /\ up' = up \cup {c} /\ Continues(c, "quit")
          /\ heard' = [heard EXCEPT ![c] = {}]
          /\ UNCHANGED <<node, conn, pending, tries>>
       \/ /\ ~TellsOf(c) /\ ~TriedEnough(c)
          /\ Continues(c, "ask")
          /\ heard' = [heard EXCEPT ![c] = {}]
          /\ tries' = [tries EXCEPT ![c] = IF @ < MaxTries THEN @ + 1 ELSE @]
          /\ UNCHANGED <<node, conn, pending, up>>
       \/ /\ ~TellsOf(c) /\ TriedEnough(c)
          /\ Continues(c, "raised") /\ Forgotten(c)
          /\ node' = IF node[c] = "zombie" THEN [node EXCEPT ![c] = "reaped"] ELSE node
          /\ UNCHANGED up
    /\ UNCHANGED testAlone

\* Up to 100 times, each with its PING; an answer that is not REGISTER SUCCESS
\* fails the test.
UserReadsReply ==
    LET c == "user"
        answers == heard[c] \ {"pong"}
    IN
    /\ Reads(c)
    /\ \/ /\ answers = {"present"}
          /\ Continues(c, "quit") /\ UNCHANGED <<connVars, tries>>
       \/ /\ answers = {} /\ ~TriedEnough(c)
          /\ tries' = [tries EXCEPT ![c] = IF @ < MaxTries THEN @ + 1 ELSE @]
          /\ heard' = [heard EXCEPT ![c] = {}]
          /\ UNCHANGED <<does, stage, result, conn, pending>>
       \/ /\ (answers = {} /\ TriedEnough(c)) \/ "absent" \in answers
          /\ RegistrationIs("raised") /\ Forgotten(c)
    /\ UNCHANGED <<testAlone, node, up>>

SableQuits(c) ==
    /\ does[c] = "quit"
    /\ Continues(c, "leave")
    /\ conn' = [conn EXCEPT ![c] = IF @ = "up" THEN "leaving" ELSE @]
    /\ UNCHANGED <<testAlone, node, pending, heard, tries, up>>

\* getMessages() raises if the connection ended without a word; in
\* registerUser(), assertDisconnected() does not mind.
SableLeaves(c) ==
    /\ does[c] = "leave" /\ conn[c] \in {"bye", "closed"}
    /\ Forgotten(c)
    /\ IF c = "user" THEN RegistrationIs("returned")
       ELSE Continues(c, IF conn[c] = "bye" \/ heard[c] # {} THEN "nothing" ELSE "raised")
    /\ UNCHANGED <<testAlone, node, up>>

SableClientStep(c) ==
    \/ SableClientConnects(c) \/ SableReadsBurst(c) \/ (c = "user" /\ UserSynchronizes)
    \/ SableMeetsEnd(c) \/ SableAsks(c) \/ ThreadReadsReply(c)
    \/ (c = "user" /\ UserReadsReply) \/ SableQuits(c) \/ SableLeaves(c)

-----------------------------------------------------------------------------
(* tearDown: kill() of BaseServerController, which knows the services only. *)

SableTearDown ==
    /\ stage = "test"
    /\ StageIs("kill")
    /\ UNCHANGED <<created, node>>

\* Faulty variant: only the server's own process is killed.
KilledServerFirst == "kill server"

KilledFirst == IF "services" \in created THEN "kill services" ELSE "kill server"

Signals(n, next) ==
    /\ stage' = next
    /\ signalled' = signalled \cup {n}
    /\ UNCHANGED <<wanted, created, portKnown, calling, result, nodeVars, lineVars, up>>

WaitedFor(n, next) ==
    /\ node[n] \in {"zombie", "reaped"}
    /\ StageIs(next)
    /\ node' = [node EXCEPT ![n] = "reaped"]
    /\ UNCHANGED created

\* rmtree() may meet files that the history server writes.
SableKills ==
    \/ stage = "kill" /\ StageIs(KilledFirst) /\ UNCHANGED <<created, node>>
    \/ stage = "kill services" /\ Signals("services", "wait for services")
    \/ stage = "wait for services" /\ WaitedFor("services", "kill server")
    \/ stage = "kill server" /\ Signals("server", "wait for server")
    \/ stage = "wait for server" /\ WaitedFor("server", "release")
    \/ stage = "release" /\ StageIs("done") /\ UNCHANGED <<created, node>>
    \/ stage = "release" /\ NodeRuns("history") /\ StageIs("broken") /\ UNCHANGED <<created, node>>

-----------------------------------------------------------------------------

ServerSpeaks(c) == ServerGreets(c) \/ ServerPongs(c) \/ ServerLetsGo(c)

SableCalls == PortAnswers \/ PortDoesNotAnswer \/ ThreadsJoined

NextSable ==
    \/ ServerAccepts \/ \E w \in Watched : NodeJoins(w)
    \/ \E n \in Nodes : NodeObeys(n) \/ NodeCrashes(n)
    \/ \E c \in SableClients : ServerSpeaks(c) \/ ServerReplies(c) \/ SableClientStep(c)
    \/ SetUpSable \/ SableTestCalls \/ SableCalls \/ SableTearDown \/ SableKills

SpecSable == InitSable /\ [][NextSable]_sableVars

\* The threads run, and so does what a test called.  Nothing forces a node to
\* join, nor the server to greet a client, to answer it, or to let it go.
FairSpecSable ==
    /\ SpecSable
    /\ WF_sableVars(SableCalls)
    /\ \A c \in SableClients : WF_sableVars(SableClientStep(c))

-----------------------------------------------------------------------------
(* Properties *)

\* Once wait_for_services() has returned, the services and the history server
\* were both found on the network, and are there still unless a process ended:
\* no thread has failed unnoticed, and none was misled by the other.
AllUpOnceWaited ==
    stage = "register" \/ (stage = "test" /\ result = "returned" /\ "services" \in wanted)
    => \A w \in wanted : w \in up /\ (w \in joined \/ ~NodeRuns(w) \/ ~NodeRuns("server"))

\* tearDown() leaves nothing but the history server, which it does not know of
\* and never signals.
OnlyHistoryOutlives ==
    stage = "done" => \A n \in Nodes \ {"history"} : node[n] \in {"absent", "reaped"}

\* A server that runs owes the client the end of its registration, the PONG of
\* a synchronized read, or the end of the connection after QUIT.
ServerOwes(c) ==
    /\ NodeRuns("server")
    /\ \/ conn[c] \in {"new", "ponged", "leaving"}
       \/ conn[c] = "up" /\ Synchronizes(c) /\ ~HasPong(c)

\* wait_for_services() and registerUser() end, unless a server that runs owes
\* one of their clients such a line for ever: nothing else makes their joins
\* and reads without a limit wait, neither a node that never links, nor an
\* answer that never comes, nor the end of a process.
SableCallsEnd ==
    (stage \in {"threads", "register"} ~> stage = "test")
    \/ \E c \in SableClients : <>[]ServerOwes(c)

=============================================================================
