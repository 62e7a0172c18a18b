--------------------------- MODULE ServerController ---------------------------
(***************************************************************************)
(* The life of one server test: BaseServerTestCase.setUp() and tearDown()  *)
(* (irctest/cases.py) drive a server controller and, maybe, the services   *)
(* controller it owns (irctest/basecontrollers.py; run() as in             *)
(* controllers/inspircd.py, restart() as in controllers/ergo.py).          *)
(*                                                                         *)
(* A controller runs its software in a session of its own: a leader, the   *)
(* child that execute() starts and self.proc names, and possibly a helper  *)
(* process the leader forks.  A leader that exits stays a zombie until the *)
(* test waits for it or polls it; from then on its pid is gone, and its    *)
(* process group can no longer be found from it.                           *)
(***************************************************************************)
EXTENDS Naturals

CONSTANTS Helpers,      \* the groups whose leader forks a helper
          Stubborn,     \* the groups whose leader ignores SIGTERM
          RunServices,  \* the values of self.run_services
          MayRefuse,    \* run() may raise NotImplementedByController
          MaxCrashes,   \* bound: leaders that exit by themselves
          MaxPolls,     \* refused connections in the 60 seconds of wait_for_port
          Reruns,       \* what a test may do to a server that runs
          MaxRestarts   \* bound: restart() and terminate() in a test

Group == {"server", "services"}

ASSUME ServerControllerAssumption ==
    /\ Helpers \subseteq Group /\ Stubborn \subseteq Group
    /\ RunServices \subseteq BOOLEAN /\ MayRefuse \in BOOLEAN
    /\ Reruns \subseteq {"restart", "terminate"}
    /\ MaxCrashes \in Nat /\ MaxRestarts \in Nat /\ MaxPolls \in Nat \ {0}

VARIABLES pc,         \* what the test is doing
          target,     \* the group that is being stopped
          after,      \* why it is: "tearDown", "restart" or "terminate"
          proc,       \* the groups whose controller has self.proc set
          runServices, \* self.run_services
          hasServices, \* self.services_controller is not None
          portOpen,   \* self.port_open
          polls,      \* refused connections since wait_for_port() started
          ports,      \* the controller has ports in the registry
          dirs,       \* the temporary directories that exist
          leader,     \* state of each leader
          helper,     \* state of each helper
          listening,  \* the server accepts connections
          termed, killed,    \* processes sent SIGTERM, SIGKILL since execute()
          sawUp,      \* history: a connection to this server succeeded
          terminated, \* history: the server before this one was terminate()d
          crashes, restarts  \* counters

testVars == <<pc, target, after>>
ctlVars == <<proc, runServices, hasServices, portOpen, polls>>
fsVars == <<ports, dirs>>
osVars == <<leader, helper, listening, termed, killed>>
histVars == <<sawUp, terminated>>
vars == <<testVars, ctlVars, fsVars, osVars, histVars, crashes, restarts>>

Process == Group \X {"leader", "helper"}
Alive == {<<g, "leader">> : g \in {x \in Group : leader[x] = "running"}}
         \cup {<<g, "helper">> : g \in {x \in Group : helper[x] = "running"}}

\* wait_for_port() runs inside run() with services, in restart(), and in
\* addClient(); `after` does not matter then.
Waiting == {"waiting", "connecting", "connected", "handshake", "blank"}
Stopping == {"signal", "wait", "waitKilled", "release", "rmtree"}

TypeOK ==
    /\ pc \in {"new", "run", "execute", "runServices", "test", "stopped",
               "errored", "done", "broken"} \cup Waiting \cup Stopping
    /\ target \in Group
    /\ after \in {"none", "setUp", "test", "tearDown", "restart", "terminate"}
    /\ proc \subseteq Group /\ dirs \subseteq Group
    /\ runServices \in BOOLEAN /\ hasServices \in BOOLEAN /\ portOpen \in BOOLEAN
    /\ ports \in BOOLEAN /\ listening \in BOOLEAN
    /\ sawUp \in BOOLEAN /\ terminated \in BOOLEAN
    /\ leader \in [Group -> {"absent", "running", "zombie", "reaped"}]
    /\ helper \in [Group -> {"absent", "running", "gone"}]
    /\ termed \subseteq Process /\ killed \subseteq Process
    /\ polls \in 0..MaxPolls
    /\ crashes \in 0..MaxCrashes /\ restarts \in 0..MaxRestarts

Init ==
    /\ pc = "new" /\ target = "server" /\ after = "none"
    /\ proc = {} /\ dirs = {}
    /\ runServices \in RunServices /\ hasServices = FALSE
    /\ portOpen = FALSE /\ polls = 0
    /\ ports = FALSE
    /\ leader = [g \in Group |-> "absent"]
    /\ helper = [g \in Group |-> "absent"]
    /\ listening = FALSE /\ termed = {} /\ killed = {}
    /\ sawUp = FALSE /\ terminated = FALSE /\ crashes = 0 /\ restarts = 0

-----------------------------------------------------------------------------
(* The processes. *)

LeaderListens ==
    /\ leader["server"] = "running" /\ ~listening
    /\ listening' = TRUE
    /\ UNCHANGED <<testVars, ctlVars, fsVars, leader, helper, termed, killed,
                   histVars, crashes, restarts>>

LeaderForks(g) ==
    /\ g \in Helpers
    /\ leader[g] = "running" /\ helper[g] = "absent"
    /\ <<g, "leader">> \notin termed \cup killed
    /\ helper' = [helper EXCEPT ![g] = "running"]
    /\ UNCHANGED <<testVars, ctlVars, fsVars, leader, listening, termed, killed,
                   histVars, crashes, restarts>>

LeaderExits(g) ==
    /\ leader[g] = "running"
    /\ leader' = [leader EXCEPT ![g] = "zombie"]
    /\ listening' = (g # "server" /\ listening)
    /\ UNCHANGED <<testVars, ctlVars, fsVars, helper, termed, killed, histVars, restarts>>

LeaderObeys(g) ==
    /\ \/ <<g, "leader">> \in termed /\ g \notin Stubborn
       \/ <<g, "leader">> \in killed
    /\ LeaderExits(g)
    /\ UNCHANGED crashes

LeaderCrashes(g) ==
    /\ crashes < MaxCrashes
    /\ crashes' = crashes + 1
    /\ LeaderExits(g)

HelperObeys(g) ==
    /\ helper[g] = "running"
    /\ <<g, "helper">> \in termed \cup killed
    /\ helper' = [helper EXCEPT ![g] = "gone"]
    /\ UNCHANGED <<testVars, ctlVars, fsVars, leader, listening, termed, killed,
                   histVars, crashes, restarts>>

-----------------------------------------------------------------------------
(* setUp *)

\* An exception in setUp(): pytest reports it, and does not call tearDown().
SetUpRaises ==
    /\ pc' = "errored"
    /\ UNCHANGED <<target, after>>

GetPorts ==
    /\ pc = "new"
    /\ ports' = TRUE
    /\ pc' = "run"
    /\ UNCHANGED <<target, after, ctlVars, dirs, osVars, histVars, crashes, restarts>>

\* Websockets, TLS, passwords or services the software does not have.
RunRefuses ==
    /\ pc = "run" /\ MayRefuse
    /\ SetUpRaises
    /\ UNCHANGED <<ctlVars, fsVars, osVars, histVars, crashes, restarts>>

\* assert self.proc is None; create_config(), which keeps a directory that
\* is there already.
CreateConfig ==
    /\ pc \in {"run", "stopped"}
    /\ "server" \notin proc
    /\ dirs' = dirs \cup {"server"}
    /\ after' = IF pc = "run" THEN "setUp" ELSE "test"
    /\ pc' = "execute"
    /\ UNCHANGED <<target, ctlVars, ports, osVars, histVars, crashes, restarts>>

\* self.proc = self.execute(...), with start_new_session.  Helpers of a former
\* process of the controller are not followed any longer.
Starts(g) ==
    /\ proc' = proc \cup {g}
    /\ leader' = [leader EXCEPT ![g] = "running"]
    /\ helper' = [helper EXCEPT ![g] = "absent"]
    /\ termed' = termed \ ({g} \X {"leader", "helper"})
    /\ killed' = killed \ ({g} \X {"leader", "helper"})
    /\ UNCHANGED listening

ExecuteServer ==
    /\ pc = "execute"
    /\ Starts("server")
    /\ pc' = IF after = "restart" \/ runServices THEN "waiting" ELSE "test"
    /\ polls' = 0
    /\ sawUp' = FALSE
    /\ UNCHANGED <<target, after, runServices, hasServices, portOpen, fsVars, terminated,
                   crashes, restarts>>

\* services_controller = services_controller_class(...); its run().
RunServicesController ==
    /\ pc = "runServices"
    /\ hasServices' = TRUE
    /\ dirs' = dirs \cup {"services"}
    /\ Starts("services")
    /\ pc' = "test"
    /\ after' = "none"
    /\ UNCHANGED <<target, runServices, portOpen, polls, ports, histVars, crashes,
                   restarts>>

\* Its run() knows nothing of the protocol, or finds no executable: the
\* server that was started keeps running.
ServicesRefuse ==
    /\ pc = "runServices" /\ MayRefuse
    /\ hasServices' = TRUE
    /\ dirs' = dirs \cup {"services"}
    /\ SetUpRaises
    /\ UNCHANGED <<proc, runServices, portOpen, polls, ports, osVars, histVars,
                   crashes, restarts>>

-----------------------------------------------------------------------------
(* wait_for_port *)

\* An exception in the test still runs tearDown().
WaitRaises ==
    \/ after = "setUp" /\ SetUpRaises
    \/ after # "setUp" /\ pc' = "test" /\ after' = "none" /\ UNCHANGED target

\* check_is_alive(): poll() reaps a leader that exited.
CheckIsAlive ==
    /\ pc = "waiting" /\ ~portOpen
    /\ \/ /\ leader["server"] = "running"
          /\ pc' = "connecting"
          /\ UNCHANGED <<target, after, leader>>
       \/ /\ leader["server"] # "running"
          /\ leader' = [leader EXCEPT !["server"] = "reaped"]
          /\ WaitRaises
    /\ UNCHANGED <<ctlVars, fsVars, helper, listening, termed, killed, histVars,
                   crashes, restarts>>

\* create_connection() succeeds, or its second passes; only a refusal is caught.
Connects ==
    /\ pc = "connecting" /\ listening
    /\ \/ /\ pc' = "connected" /\ sawUp' = TRUE
          /\ UNCHANGED <<target, after>>
       \/ WaitRaises /\ UNCHANGED sawUp
    /\ UNCHANGED <<ctlVars, fsVars, osVars, terminated, crashes, restarts>>

\* sendall(b"QUIT :chkport"), which raises if the server has closed already.
SendsChkport ==
    /\ pc = "connected"
    /\ \/ pc' = "handshake" /\ UNCHANGED <<target, after>>
       \/ WaitRaises
    /\ UNCHANGED <<ctlVars, fsVars, osVars, histVars, crashes, restarts>>

\* Faulty variant: wait_for_port() retries for ever.
NeverGivesUp == FALSE

\* 60 seconds have passed since it started.
GivesUp == polls = MaxPolls

ConnectionRefused ==
    /\ pc = "connecting" /\ ~listening
    /\ \/ /\ ~GivesUp
          /\ polls' = IF polls < MaxPolls THEN polls + 1 ELSE polls
          /\ pc' = "waiting" /\ UNCHANGED <<target, after>>
       \/ /\ GivesUp
          /\ WaitRaises
          /\ UNCHANGED polls
    /\ UNCHANGED <<proc, runServices, hasServices, portOpen, fsVars, osVars, histVars,
                   crashes, restarts>>

\* recv() returns other bytes than those of the answer, or none at all when the
\* server has closed its half of the connection.
ReadsOther ==
    /\ pc = "handshake"
    /\ pc' = "blank"
    /\ UNCHANGED <<target, after, ctlVars, fsVars, osVars, histVars, crashes, restarts>>

\* A process of the server holds its end of the connection.
HoldsConnection == leader["server"] = "running" \/ helper["server"] = "running"

\* send(b" ") succeeds, and the loop goes on: it has no limit of its own.  (The
\* one send() that may succeed when the server has just ended is left out.)
SendsBlank ==
    /\ pc = "blank" /\ HoldsConnection
    /\ pc' = "handshake"
    /\ UNCHANGED <<target, after, ctlVars, fsVars, osVars, histVars, crashes, restarts>>

\* The answer to QUIT has come, or nothing for a second, or the connection is
\* broken: both exceptions are caught.
PortIsOpen ==
    /\ pc \in {"handshake", "blank"}
    /\ portOpen' = TRUE
    /\ pc' = "waiting"
    /\ UNCHANGED <<target, after, proc, runServices, hasServices, polls, fsVars, osVars, histVars,
                   crashes, restarts>>

WaitReturns ==
    /\ pc = "waiting" /\ portOpen
    /\ IF after = "setUp" /\ runServices
       THEN pc' = "runServices" /\ UNCHANGED after
       ELSE pc' = "test" /\ after' = "none"
    /\ UNCHANGED <<target, ctlVars, fsVars, osVars, histVars, crashes, restarts>>

-----------------------------------------------------------------------------
(* The test *)

\* addClient()
TestWaitsForPort ==
    /\ pc = "test"
    /\ pc' = "waiting" /\ after' = "test" /\ polls' = 0
    /\ UNCHANGED <<target, proc, runServices, hasServices, portOpen, fsVars, osVars, histVars,
                   crashes, restarts>>

\* server_tests/sasl.py polls the server when a connection was closed.
TestChecksServer ==
    /\ pc = "test" /\ leader["server"] = "zombie"
    /\ leader' = [leader EXCEPT !["server"] = "reaped"]
    /\ UNCHANGED <<testVars, ctlVars, fsVars, helper, listening, termed, killed,
                   histVars, crashes, restarts>>

\* restart() begins with kill_proc(); run() may follow a terminate().
TestStopsServer ==
    /\ pc = "test" /\ "server" \in proc /\ ~hasServices
    /\ restarts < MaxRestarts
    /\ restarts' = restarts + 1
    /\ pc' = "signal" /\ target' = "server" /\ after' \in Reruns
    /\ UNCHANGED <<ctlVars, fsVars, osVars, histVars, crashes>>

\* Faulty variant: the services are left to end with their server.
FirstToStopIgnoresServices == "server"

\* BaseServerController.kill() kills the services first.
FirstToStop == IF hasServices THEN "services" ELSE "server"

\* kill() of one controller: kill_proc() only if self.proc is set.
Kills(g) ==
    /\ target' = g
    /\ pc' = IF g \in proc THEN "signal" ELSE "release"

TearDown ==
    /\ pc \in {"test", "stopped"}
    /\ after' = "tearDown"
    /\ Kills(FirstToStop)
    /\ UNCHANGED <<ctlVars, fsVars, osVars, histVars, crashes, restarts>>

-----------------------------------------------------------------------------
(* kill_proc and terminate *)

\* Faulty variant: only the child itself is signalled.
LeaderOnly(g) == {<<g, "leader">>} \cap Alive

\* os.killpg(os.getpgid(pid), sig) reaches the whole group while the pid
\* exists, be it a zombie; otherwise the signal goes nowhere.
Reached(g) ==
    IF leader[g] = "reaped" THEN {} ELSE Alive \cap ({g} \X {"leader", "helper"})

SendTerm ==
    /\ pc = "signal"
    /\ termed' = termed \cup Reached(target)
    /\ pc' = "wait"
    /\ UNCHANGED <<target, after, ctlVars, fsVars, leader, helper, listening, killed,
                   histVars, crashes, restarts>>

\* Faulty variant: wait() is believed to have succeeded at once.
ExitAssumed(g) == TRUE

Exited(g) == leader[g] \in {"zombie", "reaped"}

\* Faulty variant: restart() forgets self.port_open = False.
PortOpenKept == portOpen

PortOpenAfterStop == after # "restart" /\ portOpen

\* wait() returned: self.proc = None, and back to the caller.
LeaderWaitedFor ==
    /\ pc \in {"wait", "waitKilled"}
    /\ Exited(target)
    /\ leader' = IF leader[target] = "zombie"
                 THEN [leader EXCEPT ![target] = "reaped"] ELSE leader
    /\ proc' = proc \ {target}
    /\ pc' = CASE after = "tearDown" -> "release"
               [] after = "restart" -> "execute"
               [] after = "terminate" -> "stopped"
    /\ portOpen' = PortOpenAfterStop
    /\ terminated' = IF target = "server" THEN after = "terminate" ELSE terminated
    /\ UNCHANGED <<target, after, runServices, hasServices, polls, fsVars, helper, listening,
                   termed, killed, sawUp, crashes, restarts>>

\* Faulty variant: SIGTERM is deemed enough.
NeverEscalates == FALSE

\* terminate() waits without a timeout.
MayEscalate == after # "terminate"

\* wait(5) expired.
EscalateToKill ==
    /\ pc = "wait" /\ MayEscalate
    /\ leader[target] = "running"
    /\ killed' = killed \cup Reached(target)
    /\ pc' = "waitKilled"
    /\ UNCHANGED <<target, after, ctlVars, fsVars, leader, helper, listening, termed,
                   histVars, crashes, restarts>>

\* wait(timeout=10) expired as well: TimeoutExpired leaves kill_proc().
KillExpires ==
    /\ pc = "waitKilled"
    /\ leader[target] = "running"
    /\ pc' = IF after = "tearDown" THEN "broken" ELSE "test"
    /\ after' = IF after = "tearDown" THEN after ELSE "none"
    /\ UNCHANGED <<target, ctlVars, fsVars, osVars, histVars, crashes, restarts>>

\* The rest of _BaseController.kill(); a services controller has no port.
ReleasePorts ==
    /\ pc = "release"
    /\ ports' = (target # "server" /\ ports)
    /\ pc' = "rmtree"
    /\ UNCHANGED <<target, after, ctlVars, dirs, osVars, histVars, crashes, restarts>>

\* The rest of DirectoryBasedController.kill(), then the server's turn.
RemoveDirectory ==
    /\ pc = "rmtree"
    /\ dirs' = dirs \ {target}
    /\ IF target = "services"
       THEN Kills("server")
       ELSE pc' = "done" /\ UNCHANGED target
    /\ UNCHANGED <<after, ctlVars, ports, osVars, histVars, crashes, restarts>>

\* A helper that still writes makes rmtree() raise OSError.
RemoveDirectoryFails ==
    /\ pc = "rmtree" /\ helper[target] = "running"
    /\ pc' = "broken"
    /\ UNCHANGED <<target, after, ctlVars, fsVars, osVars, histVars, crashes, restarts>>

-----------------------------------------------------------------------------

Processes == \E g \in Group : LeaderObeys(g) \/ HelperObeys(g)

\* The steps the test takes once it called something.
Test ==
    \/ GetPorts \/ RunRefuses \/ CreateConfig \/ ExecuteServer
    \/ RunServicesController \/ ServicesRefuse
    \/ CheckIsAlive \/ Connects \/ ConnectionRefused \/ SendsChkport
    \/ ReadsOther \/ SendsBlank \/ PortIsOpen \/ WaitReturns
    \/ SendTerm \/ LeaderWaitedFor \/ EscalateToKill \/ KillExpires
    \/ ReleasePorts \/ RemoveDirectory \/ RemoveDirectoryFails

Next ==
    \/ Processes \/ LeaderListens
    \/ \E g \in Group : LeaderForks(g) \/ LeaderCrashes(g)
    \/ Test
    \/ TestWaitsForPort \/ TestChecksServer \/ TestStopsServer
    \/ TearDown

Spec == Init /\ [][Next]_vars

\* Signalled processes exit and the test runs; nothing forces a server to
\* listen, nor a test to end.
FairSpec ==
    /\ Spec
    /\ WF_vars(Test)
    /\ \A g \in Group : WF_vars(LeaderObeys(g)) /\ WF_vars(HelperObeys(g))

-----------------------------------------------------------------------------
(* Properties *)

\* Nothing of the test is left on the machine, unless a helper outlives its
\* leader.
Clean ==
    /\ ~ports /\ dirs = {} /\ proc = {}
    /\ \A g \in Group : leader[g] \in {"absent", "reaped"}

\* After a tearDown() that raised nothing, no leader, port or directory is
\* left, be it of the server or of its services, whichever of them crashed,
\* was restarted or ignored SIGTERM.
CleanTearDown == pc = "done" => Clean

\* A server is only ever started when the one before it is gone: restart()
\* cannot leave two servers on one port.
RestartsAlone ==
    [][\A g \in Group : g \notin proc /\ g \in proc'
                           => leader[g] \in {"absent", "reaped"}]_vars

\* Once wait_for_port() has returned, this very server had accepted a
\* connection: the answer is not a leftover of the process that restart()
\* stopped.  (run() after terminate() does believe that leftover.)
PortOpenIsCurrent ==
    pc = "test" /\ portOpen /\ "server" \in proc /\ ~terminated => sawUp

\* A helper no signal was sent to.
HelperUnsignalled(g) ==
    helper[g] = "running" /\ <<g, "helper">> \notin (termed \cup killed)

\* kill_proc() "kills the entire process group to ensure child processes
\* (e.g., Solanum's authd and ssld helpers) are also terminated": when it
\* returns, a helper that still runs was at least sent a signal.
KillSignalsGroup ==
    [][(target \in proc /\ target \notin proc') => ~HelperUnsignalled(target)]_vars

\* Every tearDown() ends, if only with an exception, even if the software
\* ignores SIGTERM.
TearDownEnds == after = "tearDown" ~> pc \in {"done", "broken"}

\* Only one thing keeps wait_for_port() for ever: a server that lives, accepts
\* its connection, and never answers, breaks nor leaves it silent for a second.
\* A server that dies, never listens, refuses or resets ends it.
WaitEnds ==
    <>[](pc \in Waiting) => <>[](HoldsConnection /\ pc \in {"handshake", "blank"})

=============================================================================
