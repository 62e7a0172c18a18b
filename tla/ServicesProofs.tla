---------------------------- MODULE ServicesProofs ----------------------------
(***************************************************************************)
(* Safety of the life of a server test, and of a test with services, for   *)
(* any software, any number of crashes, polls and restarts, and services   *)
(* that link whenever they like.                                           *)
(***************************************************************************)
EXTENDS Services, TLAPS

-----------------------------------------------------------------------------
(* The life of a server test. *)

\* The steps of kill_proc().
Killing == {"signal", "wait", "waitKilled"}

\* A controller without self.proc has no process, not even a zombie.
ProcInv == \A g \in Group \ proc : leader[g] \in {"absent", "reaped"}

\* Why and of what a process is stopped.
StoppingInv ==
    /\ pc \in Killing => after \in {"tearDown", "restart", "terminate"}
    /\ pc \in {"release", "rmtree"} => after = "tearDown" /\ target \notin proc
    /\ pc \in Killing /\ after # "tearDown" => target = "server"

\* Services are known to their server controller before they have anything,
\* and have nothing left when the server is killed.
ServicesInv ==
    /\ ~hasServices => "services" \notin proc \cup dirs
    /\ after = "tearDown" /\ pc \in Stopping /\ target = "server" =>
          "services" \notin proc \cup dirs

\* kill() releases the ports before it removes the directory.
ReleasedInv ==
    /\ pc = "rmtree" /\ target = "server" => ~ports
    /\ pc = "done" => ~ports /\ dirs = {} /\ proc = {}

\* self.port_open, unless terminate() left it behind.
PortOpenInv ==
    /\ pc \in {"connected", "handshake", "blank"} => sawUp
    /\ pc = "stopped" => terminated
    /\ portOpen /\ pc \in {"new", "run", "execute"} => terminated
    /\ portOpen /\ "server" \in proc /\ ~terminated => sawUp

\* The inductive invariant.
IInv ==
    /\ TypeOK
    /\ ProcInv
    /\ StoppingInv
    /\ ServicesInv
    /\ ReleasedInv
    /\ PortOpenInv

-----------------------------------------------------------------------------

\* The initial states satisfy the inductive invariant.
LEMMA InitIInv == Init => IInv
<1> SUFFICES ASSUME Init PROVE IInv
  OBVIOUS
<1>1. TypeOK
  <2>1. runServices \in BOOLEAN
    BY ServerControllerAssumption, Zenon DEF Init
  <2>2. polls \in 0..MaxPolls /\ crashes \in 0..MaxCrashes /\ restarts \in 0..MaxRestarts
    BY ServerControllerAssumption DEF Init
  <2>3. termed \subseteq Process /\ killed \subseteq Process
    BY DEF Init
  <2>4. leader \in [Group -> {"absent", "running", "zombie", "reaped"}]
    BY DEF Init
  <2>5. helper \in [Group -> {"absent", "running", "gone"}]
    BY DEF Init
  <2>6. QED
    BY <2>1, <2>2, <2>3, <2>4, <2>5 DEF Init, TypeOK, Group
<1>2. ProcInv
  BY DEF Init, ProcInv, Group
<1>3. StoppingInv /\ ServicesInv /\ ReleasedInv /\ PortOpenInv
  BY DEF Init, StoppingInv, ServicesInv, ReleasedInv, PortOpenInv, Killing, Stopping
<1>4. QED
  BY <1>1, <1>2, <1>3 DEF IInv

\* Every step preserves the inductive invariant.
LEMMA StepIInv == IInv /\ [Next]_vars => IInv'
<1> SUFFICES ASSUME IInv, [Next]_vars PROVE IInv'
  OBVIOUS
<1> USE ServerControllerAssumption
<1> USE DEF IInv, TypeOK, ProcInv, StoppingInv, ServicesInv, ReleasedInv, PortOpenInv,
            Group, Killing, Stopping, Waiting, testVars, ctlVars, fsVars, osVars, histVars
<1>1. CASE LeaderListens
  BY <1>1 DEF LeaderListens
<1>2. CASE GetPorts
  BY <1>2 DEF GetPorts
<1>3. CASE RunRefuses
  BY <1>3 DEF RunRefuses, SetUpRaises
<1>4. CASE CreateConfig
  BY <1>4 DEF CreateConfig
<1>5. CASE ExecuteServer
  <2>1. TypeOK'
    <3>1. pc' \in {"waiting", "test"} /\ polls' = 0 /\ sawUp' = FALSE
      BY <1>5, Zenon DEF ExecuteServer
    <3>2. polls' \in 0..MaxPolls
      BY <3>1
    <3>3. termed' \subseteq Process /\ killed' \subseteq Process
      BY <1>5 DEF ExecuteServer, Starts
    <3>4. leader' \in [Group -> {"absent", "running", "zombie", "reaped"}]
      BY <1>5 DEF ExecuteServer, Starts
    <3>5. helper' \in [Group -> {"absent", "running", "gone"}]
      BY <1>5 DEF ExecuteServer, Starts
    <3>6. proc' \subseteq Group /\ runServices' \in BOOLEAN /\ sawUp' \in BOOLEAN
      BY <1>5, <3>1 DEF ExecuteServer, Starts
    <3>7. QED
      BY <1>5, <3>1, <3>2, <3>3, <3>4, <3>5, <3>6 DEF ExecuteServer, Starts
  <2>2. ProcInv'
    BY <1>5 DEF ExecuteServer, Starts
  <2>3. StoppingInv' /\ ServicesInv' /\ ReleasedInv' /\ PortOpenInv'
    BY <1>5 DEF ExecuteServer, Starts
  <2>4. QED
    BY <2>1, <2>2, <2>3
<1>6. CASE RunServicesController
  BY <1>6 DEF RunServicesController, Starts, Process
<1>7. CASE ServicesRefuse
  BY <1>7 DEF ServicesRefuse, SetUpRaises
<1>8. CASE CheckIsAlive
  BY <1>8 DEF CheckIsAlive, WaitRaises, SetUpRaises
<1>9. CASE Connects
  <2>1. CASE after = "setUp" /\ pc' = "errored" /\ UNCHANGED <<target, after>>
    BY <1>9, <2>1 DEF Connects
  <2>2. CASE pc' = "test" /\ after' = "none" /\ UNCHANGED target
    BY <1>9, <2>2 DEF Connects
  <2>3. CASE pc' = "connected" /\ UNCHANGED <<target, after>> /\ sawUp' = TRUE
    BY <1>9, <2>3 DEF Connects
  <2>4. QED
    BY <1>9, <2>1, <2>2, <2>3 DEF Connects, WaitRaises, SetUpRaises
<1>29. CASE SendsChkport
  <2>1. CASE after = "setUp" /\ pc' = "errored" /\ UNCHANGED <<target, after>>
    BY <1>29, <2>1 DEF SendsChkport
  <2>2. CASE pc' = "test" /\ after' = "none" /\ UNCHANGED target
    BY <1>29, <2>2 DEF SendsChkport
  <2>3. CASE pc' = "handshake" /\ UNCHANGED <<target, after>>
    BY <1>29, <2>3 DEF SendsChkport
  <2>4. QED
    BY <1>29, <2>1, <2>2, <2>3 DEF SendsChkport, WaitRaises, SetUpRaises
<1>10. CASE ConnectionRefused
  BY <1>10 DEF ConnectionRefused, WaitRaises, SetUpRaises, GivesUp
<1>11. CASE PortIsOpen
  BY <1>11 DEF PortIsOpen
<1>30. CASE ReadsOther
  BY <1>30 DEF ReadsOther
<1>31. CASE SendsBlank
  BY <1>31 DEF SendsBlank
<1>12. CASE WaitReturns
  BY <1>12 DEF WaitReturns
<1>13. CASE SendTerm
  BY <1>13 DEF SendTerm, Reached, Alive, Process
<1>14. CASE LeaderWaitedFor
  BY ZenonT(30), <1>14 DEF LeaderWaitedFor, Exited, PortOpenAfterStop
<1>15. CASE EscalateToKill
  BY <1>15 DEF EscalateToKill, Reached, Alive, Process, MayEscalate
<1>16. CASE KillExpires
  BY <1>16 DEF KillExpires
<1>17. CASE ReleasePorts
  BY <1>17 DEF ReleasePorts
<1>18. CASE RemoveDirectory
  BY <1>18 DEF RemoveDirectory, Kills
<1>19. CASE RemoveDirectoryFails
  BY <1>19 DEF RemoveDirectoryFails
<1>20. CASE TestWaitsForPort
  BY <1>20 DEF TestWaitsForPort
<1>21. CASE TestChecksServer
  BY <1>21 DEF TestChecksServer
<1>22. CASE TestStopsServer
  BY <1>22 DEF TestStopsServer
<1>23. CASE TearDown
  BY <1>23 DEF TearDown, Kills, FirstToStop
<1>24. ASSUME NEW g \in Group, LeaderObeys(g) PROVE IInv'
  BY <1>24 DEF LeaderObeys, LeaderExits
<1>25. ASSUME NEW g \in Group, HelperObeys(g) PROVE IInv'
  BY <1>25 DEF HelperObeys
<1>26. ASSUME NEW g \in Group, LeaderForks(g) PROVE IInv'
  BY <1>26 DEF LeaderForks
<1>27. ASSUME NEW g \in Group, LeaderCrashes(g) PROVE IInv'
  BY <1>27 DEF LeaderCrashes, LeaderExits
<1>28. CASE UNCHANGED vars
  BY <1>28 DEF vars
<1>32. QED
  BY <1>1, <1>2, <1>3, <1>4, <1>5, <1>6, <1>7, <1>8, <1>9, <1>10, <1>11, <1>12, <1>13, <1>14, <1>15, <1>16, <1>17, <1>18, <1>19, <1>20, <1>21, <1>22, <1>23, <1>24, <1>25, <1>26, <1>27, <1>28, <1>29, <1>30, <1>31 DEF Next, Test, Processes

\* The inductive invariant holds in every reachable state.
LEMMA InductiveInvariant == Spec => []IInv
  BY InitIInv, StepIInv, PTL DEF Spec

-----------------------------------------------------------------------------

\* The life of a server test keeps its types.
THEOREM TypeCorrect == Spec => []TypeOK
  BY InductiveInvariant, PTL DEF IInv

\* A tearDown() that raised nothing leaves no leader, port or directory,
\* whatever crashed, was restarted or ignored SIGTERM before it.
THEOREM TearDownCleans == Spec => []CleanTearDown
<1>1. IInv => CleanTearDown
  BY DEF IInv, ProcInv, ReleasedInv, CleanTearDown, Clean, Group
<1>2. QED
  BY <1>1, InductiveInvariant, PTL

\* wait_for_port() believes in no connection to a process before the last
\* restart().
THEOREM PortOpenTruthful == Spec => []PortOpenIsCurrent
<1>1. IInv => PortOpenIsCurrent
  BY DEF IInv, PortOpenInv, PortOpenIsCurrent
<1>2. QED
  BY <1>1, InductiveInvariant, PTL

\* A controller starts a process only when its former one is gone and was
\* waited for.
THEOREM NeverTwoServers == Spec => RestartsAlone
<1>1. IInv => [\A g \in Group : g \notin proc /\ g \in proc'
                 => leader[g] \in {"absent", "reaped"}]_vars
  BY DEF IInv, ProcInv
<1>2. QED
  BY <1>1, InductiveInvariant, PTL DEF RestartsAlone

-----------------------------------------------------------------------------
(* How long wait_for_port() and tearDown() can take: what is left of them    *)
(* only shrinks, and the test itself can always go on.                       *)

\* The steps of the test that are left of wait_for_port().
WaitLeft ==
    CASE pc = "waiting" /\ portOpen  -> 1
      [] pc = "blank"                -> 2
      [] pc = "handshake"            -> 3
      [] pc = "connected"            -> 4
      [] pc = "connecting"           -> 5 + 2 * (MaxPolls - polls)
      [] pc = "waiting" /\ ~portOpen -> 6 + 2 * (MaxPolls - polls)
      [] OTHER -> 0

TearingDown == after = "tearDown" /\ pc \notin {"done", "broken"}

\* Those that are left of the kill() of one controller, and of tearDown().
KillLeft ==
    CASE pc = "signal"     -> 5
      [] pc = "wait"       -> 4
      [] pc = "waitKilled" -> 3
      [] pc = "release"    -> 2
      [] pc = "rmtree"     -> 1
      [] OTHER -> 0

TearDownLeft == KillLeft + (IF target = "services" /\ pc \in Stopping THEN 5 ELSE 0)

\* tearDown() is in kill(), which stops a process that was started.
TearDownInv ==
    /\ after = "tearDown" => pc \in Stopping \cup {"done", "broken"}
    /\ pc \in Killing => target \in proc
    /\ \A g \in proc : leader[g] # "absent"

\* The guards of LeaderWaitedFor, EscalateToKill and KillExpires; the other
\* steps of kill() have none.
TearDownMoves ==
    pc \in {"wait", "waitKilled"} => Exited(target) \/ leader[target] = "running"

\* Each step of the test shortens what is left, but the one that goes round the
\* loop of the handshake, for which the server must hold the connection; and
\* nobody else lengthens it.
WaitShrinks ==
    pc \in Waiting => /\ WaitLeft \in 1..(6 + 2 * MaxPolls)
                      /\ Test /\ ~SendsBlank => WaitLeft' < WaitLeft
                      /\ SendsBlank => HoldsConnection /\ WaitLeft' = WaitLeft + 1
                      /\ ~Test => WaitLeft' = WaitLeft

TearDownShrinks ==
    TearingDown => /\ TearDownLeft \in 1..10
                   /\ Test => TearDownLeft' < TearDownLeft
                   /\ ~Test => TearDownLeft' = TearDownLeft

\* Every step keeps what tearDown() relies on.
LEMMA StepTearDownInv == IInv /\ TearDownInv /\ [Next]_vars => TearDownInv'
<1> SUFFICES ASSUME IInv, TearDownInv, [Next]_vars PROVE TearDownInv'
  OBVIOUS
<1> USE ServerControllerAssumption
<1> USE DEF IInv, TypeOK, StoppingInv, TearDownInv,
            Group, Killing, Stopping, Waiting, testVars, ctlVars, fsVars, osVars, histVars
<1>1. CASE LeaderListens  BY <1>1 DEF LeaderListens
<1>2. CASE GetPorts  BY <1>2 DEF GetPorts
<1>3. CASE RunRefuses  BY <1>3 DEF RunRefuses, SetUpRaises
<1>4. CASE CreateConfig  BY <1>4 DEF CreateConfig
<1>5. CASE ExecuteServer  BY <1>5 DEF ExecuteServer, Starts
<1>6. CASE RunServicesController  BY <1>6 DEF RunServicesController, Starts
<1>7. CASE ServicesRefuse  BY <1>7 DEF ServicesRefuse, SetUpRaises
<1>8. CASE CheckIsAlive  BY <1>8 DEF CheckIsAlive, WaitRaises, SetUpRaises
<1>9. CASE Connects \/ SendsChkport  BY <1>9 DEF Connects, SendsChkport, WaitRaises, SetUpRaises
<1>10. CASE ConnectionRefused  BY <1>10 DEF ConnectionRefused, WaitRaises, SetUpRaises
<1>11. CASE ReadsOther \/ SendsBlank \/ PortIsOpen  BY <1>11 DEF ReadsOther, SendsBlank, PortIsOpen
<1>12. CASE WaitReturns  BY <1>12 DEF WaitReturns
<1>13. CASE SendTerm  BY <1>13 DEF SendTerm
<1>14. CASE LeaderWaitedFor  BY <1>14 DEF LeaderWaitedFor, Exited
<1>15. CASE EscalateToKill  BY <1>15 DEF EscalateToKill
<1>16. CASE KillExpires  BY <1>16 DEF KillExpires
<1>17. CASE ReleasePorts  BY <1>17 DEF ReleasePorts
<1>18. CASE RemoveDirectory  BY <1>18 DEF RemoveDirectory, Kills
<1>19. CASE RemoveDirectoryFails  BY <1>19 DEF RemoveDirectoryFails
<1>20. CASE TestWaitsForPort  BY <1>20 DEF TestWaitsForPort
<1>21. CASE TestChecksServer  BY <1>21 DEF TestChecksServer
<1>22. CASE TestStopsServer  BY <1>22 DEF TestStopsServer
<1>23. CASE TearDown  BY <1>23 DEF TearDown, Kills, FirstToStop
<1>24. ASSUME NEW g \in Group, LeaderObeys(g) \/ LeaderCrashes(g) PROVE TearDownInv'
  BY <1>24 DEF LeaderObeys, LeaderCrashes, LeaderExits
<1>25. ASSUME NEW g \in Group, HelperObeys(g) \/ LeaderForks(g) PROVE TearDownInv'
  BY <1>25 DEF HelperObeys, LeaderForks
<1>26. CASE UNCHANGED vars  BY <1>26 DEF vars
<1>27. QED
  BY <1>1, <1>2, <1>3, <1>4, <1>5, <1>6, <1>7, <1>8, <1>9, <1>10, <1>11, <1>12, <1>13, <1>14, <1>15, <1>16, <1>17, <1>18, <1>19, <1>20, <1>21, <1>22, <1>23, <1>24, <1>25, <1>26 DEF Next, Test, Processes

\* What is left is counted by natural numbers.
LEMMA LeftIsCounted ==
    ASSUME TypeOK
    PROVE  WaitLeft \in 0..(6 + 2 * MaxPolls) /\ KillLeft \in 0..5 /\ TearDownLeft \in 0..10
<1>1. polls \in 0..MaxPolls /\ MaxPolls \in Nat  BY ServerControllerAssumption DEF TypeOK
<1>2. WaitLeft \in 0..(6 + 2 * MaxPolls)  BY <1>1 DEF WaitLeft
<1>3. KillLeft \in 0..5  BY DEF KillLeft
<1> QED  BY <1>2, <1>3 DEF TearDownLeft

\* Each step of the test in wait_for_port() shortens it, but that one.
LEMMA TestShortensWait ==
    ASSUME TypeOK, pc \in Waiting, Test, ~SendsBlank
    PROVE  WaitLeft' < WaitLeft
<1> USE ServerControllerAssumption DEF TypeOK, WaitLeft, Waiting, testVars, ctlVars
<1>1. CASE CheckIsAlive  BY <1>1 DEF CheckIsAlive, WaitRaises, SetUpRaises
<1>2. CASE Connects \/ SendsChkport  BY <1>2 DEF Connects, SendsChkport, WaitRaises, SetUpRaises
<1>3. CASE ConnectionRefused  BY <1>3 DEF ConnectionRefused, WaitRaises, SetUpRaises, GivesUp
<1>4. CASE ReadsOther \/ PortIsOpen  BY <1>4 DEF ReadsOther, PortIsOpen
<1>5. CASE WaitReturns  BY <1>5 DEF WaitReturns
<1>6. CASE GetPorts \/ RunRefuses \/ CreateConfig \/ ExecuteServer \/ RunServicesController \/ ServicesRefuse
  BY <1>6 DEF GetPorts, RunRefuses, CreateConfig, ExecuteServer, RunServicesController, ServicesRefuse
<1>7. CASE SendTerm \/ LeaderWaitedFor \/ EscalateToKill \/ KillExpires
  BY <1>7 DEF SendTerm, LeaderWaitedFor, EscalateToKill, KillExpires
<1>8. CASE ReleasePorts \/ RemoveDirectory \/ RemoveDirectoryFails
  BY <1>8 DEF ReleasePorts, RemoveDirectory, RemoveDirectoryFails
<1> QED  BY <1>1, <1>2, <1>3, <1>4, <1>5, <1>6, <1>7, <1>8 DEF Test

\* And so does each step of the test in tearDown().
LEMMA TestShortensTearDown ==
    ASSUME IInv, TearDownInv, TearingDown, Test
    PROVE  TearDownLeft' < TearDownLeft
<1> USE DEF TearingDown, TearDownInv, TearDownLeft, KillLeft, Stopping, testVars
<1>1. target \in Group  BY DEF IInv, TypeOK
<1>2. CASE SendTerm  BY <1>2 DEF SendTerm
<1>3. CASE LeaderWaitedFor  BY <1>3 DEF LeaderWaitedFor
<1>4. CASE EscalateToKill  BY <1>4 DEF EscalateToKill
<1>5. CASE KillExpires  BY <1>5 DEF KillExpires
<1>6. CASE ReleasePorts  BY <1>6 DEF ReleasePorts
<1>7. CASE RemoveDirectory  BY <1>1, <1>7 DEF RemoveDirectory, Kills, Group
<1>8. CASE RemoveDirectoryFails  BY <1>8 DEF RemoveDirectoryFails
<1>9. CASE CheckIsAlive \/ Connects \/ ConnectionRefused \/ SendsChkport \/ PortIsOpen \/ WaitReturns
  BY <1>9 DEF CheckIsAlive, Connects, ConnectionRefused, SendsChkport, PortIsOpen, WaitReturns
<1>11. CASE ReadsOther \/ SendsBlank  BY <1>11 DEF ReadsOther, SendsBlank
<1>10. CASE GetPorts \/ RunRefuses \/ CreateConfig \/ ExecuteServer \/ RunServicesController \/ ServicesRefuse
  BY <1>10 DEF GetPorts, RunRefuses, CreateConfig, ExecuteServer, RunServicesController, ServicesRefuse
<1> QED  BY <1>2, <1>3, <1>4, <1>5, <1>6, <1>7, <1>8, <1>9, <1>10, <1>11 DEF Test

\* Nobody else moves the test while it waits, or tears down.
LEMMA OthersLeaveTheTest ==
    ASSUME [Next]_vars, ~Test, TearDownInv, pc \in Waiting \/ TearingDown
    PROVE  UNCHANGED <<pc, target, after, portOpen, polls>>
<1> USE DEF Waiting, Stopping, TearingDown, TearDownInv, testVars, ctlVars
<1>1. CASE LeaderListens  BY <1>1 DEF LeaderListens
<1>2. ASSUME NEW g \in Group, LeaderObeys(g) \/ LeaderCrashes(g) \/ HelperObeys(g) \/ LeaderForks(g)
      PROVE UNCHANGED <<pc, target, after, portOpen, polls>>
  BY <1>2 DEF LeaderObeys, LeaderCrashes, LeaderExits, HelperObeys, LeaderForks
<1>3. CASE TestWaitsForPort \/ TestChecksServer \/ TestStopsServer \/ TearDown
  BY <1>3 DEF TestWaitsForPort, TestChecksServer, TestStopsServer, TearDown
<1>4. CASE UNCHANGED vars  BY <1>4 DEF vars
<1> QED  BY <1>1, <1>2, <1>3, <1>4 DEF Next, Processes

LEMMA InitTearDownInv == Init => TearDownInv
  BY DEF Init, TearDownInv, Killing, Stopping

LEMMA TearDownInvHolds == Spec => []TearDownInv
  BY InitIInv, StepIInv, InitTearDownInv, StepTearDownInv, PTL DEF Spec

\* wait_for_port() takes at most 6 + 2 * MaxPolls steps of the test, and two more
\* for each time it goes round the loop of its handshake, which it can only do
\* while a process of the server holds the connection; nobody else lengthens it.
THEOREM WaitIsShort ==
    Spec => [][WaitShrinks]_vars
<1>1. TypeOK /\ pc \in Waiting => WaitLeft \in 1..(6 + 2 * MaxPolls)
  BY ServerControllerAssumption DEF TypeOK, WaitLeft, Waiting
<1>2. TearDownInv /\ pc \in Waiting /\ [Next]_vars /\ ~Test => WaitLeft' = WaitLeft
  BY OthersLeaveTheTest DEF WaitLeft
<1>4. SendsBlank => HoldsConnection /\ WaitLeft' = WaitLeft + 1
  BY DEF SendsBlank, WaitLeft
<1>3. TypeOK /\ TearDownInv /\ [Next]_vars
      => [WaitShrinks]_vars
  BY <1>1, <1>2, <1>4, TestShortensWait DEF WaitShrinks
<1> QED  BY <1>3, TypeCorrect, TearDownInvHolds, PTL DEF Spec

\* tearDown() takes at most ten steps of the test, be the software as stubborn
\* as it likes, and never waits for a process without a limit: its next step is
\* possible whether or not the process it stops has exited.
THEOREM TearDownIsShort ==
    Spec => /\ [](TearingDown => pc \in Stopping /\ TearDownMoves /\ MayEscalate)
            /\ [][TearDownShrinks]_vars
<1>1. IInv /\ TearDownInv => (TearingDown => pc \in Stopping /\ TearDownMoves /\ MayEscalate)
  <2> SUFFICES ASSUME IInv, TearDownInv, TearingDown PROVE pc \in Stopping /\ TearDownMoves /\ MayEscalate
    OBVIOUS
  <2>1. pc \in Stopping /\ MayEscalate  BY DEF TearDownInv, TearingDown, MayEscalate
  <2>2. leader[target] \in {"absent", "running", "zombie", "reaped"}  BY DEF IInv, TypeOK
  <2>3. TearDownMoves  BY <2>2 DEF TearDownInv, TearDownMoves, Killing, Exited
  <2> QED  BY <2>1, <2>3
<1>2. IInv /\ TearDownInv /\ TearingDown => TearDownLeft \in 1..10
  BY DEF TearDownInv, TearingDown, TearDownLeft, KillLeft, Stopping
<1>3. TearDownInv /\ TearingDown /\ [Next]_vars /\ ~Test => TearDownLeft' = TearDownLeft
  BY OthersLeaveTheTest DEF TearDownLeft, KillLeft
<1>4. IInv /\ TearDownInv /\ [Next]_vars
      => [TearDownShrinks]_vars
  BY <1>2, <1>3, TestShortensTearDown DEF TearDownShrinks
<1> QED  BY <1>1, <1>4, InductiveInvariant, TearDownInvHolds, PTL DEF Spec

-----------------------------------------------------------------------------
(* A test with services. *)

\* A test with services is a server test: its steps are steps of
\* ServerController, or leave it alone.
LEMMA StepImplements == [NextServices]_servicesVars => [Next]_vars
<1> SUFFICES ASSUME [NextServices]_servicesVars PROVE [Next]_vars
  OBVIOUS
<1>1. CASE ProcessRuns
  BY <1>1 DEF ProcessRuns, Next
<1>2. CASE TestRuns
  BY <1>2 DEF TestRuns, Next
<1>3. CASE TestChooses
  BY <1>3 DEF TestChooses, Next
<1>4. CASE TestAddsClient
  BY <1>4 DEF TestAddsClient, Next
<1>5. CASE ServerAnswers
  BY <1>5 DEF ServerAnswers, ServerPings, ServerWelcomes, ServerHandlesQuit
<1>6. CASE ServicesLink \/ NickServAnswers \/ ServerNotifies
  BY <1>6 DEF ServicesLink, NickServAnswers, ServerNotifies
<1>7. CASE ClientStep
  BY <1>7, Zenon DEF ClientStep, ClientConnects, ConnectRefused, ChkReadsBurst, UserReadsBurst, Asks,
     ChkReadsAnswer, UserReadsAnswer, SendsQuit, ClientLeaves, ClientMeetsEnd, CallRaises
<1>8. CASE UNCHANGED servicesVars
  BY <1>8 DEF servicesVars
<1>9. QED
  BY <1>1, <1>2, <1>3, <1>4, <1>5, <1>6, <1>7, <1>8 DEF NextServices

\* Whatever the services do, a test with services is a server test, so that
\* every safety property of ServerController holds of it.
THEOREM ImplementsServerController == SpecServices => Spec
<1>1. InitServices => Init
  BY DEF InitServices
<1>2. QED
  BY <1>1, StepImplements, PTL DEF SpecServices, Spec


-----------------------------------------------------------------------------
(* Lines received. *)

\* A line appended is there, and those before it.
LEMMA HasAppended ==
    ASSUME NEW s \in Seq(Lines), NEW x \in Lines
    PROVE  /\ s \o <<x>> \in Seq(Lines)
           /\ s \o <<x>> # <<>>
           /\ \A l : Has(s \o <<x>>, l) <=> Has(s, l) \/ x = l
<1>1. s \o <<x>> \in Seq(Lines) /\ s \o <<x>> # <<>>
  OBVIOUS
<1>2. ASSUME NEW l PROVE Has(s \o <<x>>, l) <=> Has(s, l) \/ x = l
  <2>1. Len(s \o <<x>>) = Len(s) + 1 /\ (s \o <<x>>)[Len(s) + 1] = x
    OBVIOUS
  <2>2. \A i \in 1..Len(s) : (s \o <<x>>)[i] = s[i]
    OBVIOUS
  <2>3. DOMAIN s = 1..Len(s) /\ DOMAIN (s \o <<x>>) = 1..(Len(s) + 1) /\ Len(s) \in Nat
    BY <2>1
  <2>4. QED
    BY <2>1, <2>2, <2>3 DEF Has
<1>3. QED
  BY <1>1, <1>2

\* So are two.
LEMMA HasTwoAppended ==
    ASSUME NEW s \in Seq(Lines), NEW x \in Lines, NEW y \in Lines
    PROVE  \A l : Has(s \o <<x, y>>, l) => Has(s, l) \/ x = l \/ y = l
<1> DEFINE t == s \o <<x, y>>
<1>1. t \in Seq(Lines) /\ Len(t) = Len(s) + 2 /\ Len(s) \in Nat
  OBVIOUS
<1>2. \A i \in 1..Len(s) : t[i] = s[i]
  OBVIOUS
<1>3. t[Len(s) + 1] = x /\ t[Len(s) + 2] = y
  OBVIOUS
<1>4. DOMAIN s = 1..Len(s) /\ DOMAIN t = 1..(Len(s) + 2)
  BY <1>1
<1> HIDE DEF t
<1>5. ASSUME NEW l, Has(t, l) PROVE Has(s, l) \/ x = l \/ y = l
  BY <1>1, <1>2, <1>3, <1>4, <1>5 DEF Has
<1>6. QED
  BY <1>5 DEF t

\* What is in a part of the lines is in all of them.
LEMMA HasPart ==
    ASSUME NEW s \in Seq(Lines), NEW n \in DOMAIN s
    PROVE  /\ SubSeq(s, n + 1, Len(s)) \in Seq(Lines)
           /\ \A l : Has(SubSeq(s, 1, n), l) => Has(s, l)
           /\ \A l : Has(SubSeq(s, n + 1, Len(s)), l) => Has(s, l)
<1>1. DOMAIN s = 1..Len(s) /\ Len(s) \in Nat /\ n \in 1..Len(s)
  OBVIOUS
<1>2. SubSeq(s, n + 1, Len(s)) \in Seq(Lines)
  BY <1>1
<1>3. ASSUME NEW l, Has(SubSeq(s, 1, n), l) PROVE Has(s, l)
  <2>1. Len(SubSeq(s, 1, n)) = n /\ \A i \in 1..n : SubSeq(s, 1, n)[i] = s[i]
    BY <1>1
  <2>2. DOMAIN SubSeq(s, 1, n) = 1..n
    BY <1>1, <2>1
  <2>3. QED
    BY <1>1, <1>3, <2>1, <2>2 DEF Has
<1>4. ASSUME NEW l, Has(SubSeq(s, n + 1, Len(s)), l) PROVE Has(s, l)
  <2> DEFINE t == SubSeq(s, n + 1, Len(s))
  <2>1. Len(t) = Len(s) - n /\ \A i \in 1..(Len(s) - n) : t[i] = s[n + i]
    BY <1>1
  <2>2. DOMAIN t = 1..(Len(s) - n)
    BY <1>1, <1>2, <2>1
  <2>3. PICK i \in 1..(Len(s) - n) : t[i] = l
    BY <1>4, <2>2 DEF Has
  <2>4. n + i \in 1..Len(s) /\ s[n + i] = l
    BY <1>1, <2>1, <2>3
  <2>5. QED
    BY <1>1, <2>4 DEF Has
<1>5. QED
  BY <1>2, <1>3, <1>4

\* Nothing is in no lines.
LEMMA HasNothing == \A l : ~Has(<<>>, l)
  BY DEF Has


-----------------------------------------------------------------------------
(* The invariant. *)

\* When there are services: between the end of setUp() and that of the test.
SetUpInv ==
    /\ hasServices \/ pc = "runServices" => runServices
    /\ hasServices =>
          \/ pc \in {"test", "errored", "done", "broken"}
          \/ pc \in Waiting /\ after = "test"
          \/ pc \in Stopping /\ after = "tearDown"
    /\ runServices /\ ~hasServices =>
          \/ pc \in {"new", "run", "runServices", "errored"}
          \/ pc \in Waiting \cup {"execute"} /\ after = "setUp"
    /\ listening => leader["server"] = "running"

\* Every step of a server test preserves it.
LEMMA StepSetUp == IInv /\ SetUpInv /\ [Next]_vars => SetUpInv'
<1> SUFFICES ASSUME IInv, SetUpInv, [Next]_vars PROVE SetUpInv'
  OBVIOUS
<1> USE ServerControllerAssumption
<1> USE DEF IInv, TypeOK, StoppingInv, SetUpInv,
            Group, Killing, Stopping, Waiting, testVars, ctlVars, fsVars, osVars, histVars
<1>1. CASE LeaderListens
  BY <1>1 DEF LeaderListens
<1>17. CASE GetPorts \/ RunRefuses
  BY <1>17 DEF GetPorts, RunRefuses, SetUpRaises
<1>18. CASE CreateConfig
  BY <1>18 DEF CreateConfig
<1>2. CASE ExecuteServer
  BY <1>2 DEF ExecuteServer, Starts
<1>3. CASE RunServicesController \/ ServicesRefuse
  BY <1>3 DEF RunServicesController, ServicesRefuse, SetUpRaises, Starts
<1>4. CASE CheckIsAlive
  BY <1>4 DEF CheckIsAlive, WaitRaises, SetUpRaises
<1>5. CASE Connects \/ SendsChkport
  BY <1>5 DEF Connects, SendsChkport, WaitRaises, SetUpRaises
<1>19. CASE ReadsOther \/ SendsBlank \/ PortIsOpen \/ WaitReturns
  BY <1>19 DEF ReadsOther, SendsBlank, PortIsOpen, WaitReturns
<1>6. CASE ConnectionRefused
  BY <1>6 DEF ConnectionRefused, WaitRaises, SetUpRaises
<1>7. CASE SendTerm \/ EscalateToKill
  BY <1>7 DEF SendTerm, EscalateToKill
<1>8. CASE LeaderWaitedFor
  BY <1>8 DEF LeaderWaitedFor
<1>9. CASE KillExpires \/ ReleasePorts
  BY <1>9 DEF KillExpires, ReleasePorts
<1>10. CASE RemoveDirectory \/ RemoveDirectoryFails
  BY <1>10 DEF RemoveDirectory, RemoveDirectoryFails, Kills
<1>11. CASE TestWaitsForPort \/ TestChecksServer \/ TestStopsServer
  BY <1>11 DEF TestWaitsForPort, TestChecksServer, TestStopsServer
<1>12. CASE TearDown
  BY <1>12 DEF TearDown, Kills, FirstToStop
<1>13. ASSUME NEW g \in Group, LeaderObeys(g) \/ LeaderCrashes(g) PROVE SetUpInv'
  <2>1. LeaderExits(g)
    BY <1>13 DEF LeaderObeys, LeaderCrashes
  <2>2. UNCHANGED <<testVars, ctlVars>>
    BY <2>1 DEF LeaderExits
  <2>3. listening' => g # "server" /\ listening
    BY <2>1 DEF LeaderExits
  <2>4. leader' = [leader EXCEPT ![g] = "zombie"]
    BY <2>1 DEF LeaderExits
  <2>5. QED
    BY <2>2, <2>3, <2>4
<1>14. ASSUME NEW g \in Group, HelperObeys(g) \/ LeaderForks(g) PROVE SetUpInv'
  BY <1>14 DEF HelperObeys, LeaderForks
<1>15. CASE UNCHANGED vars
  BY <1>15 DEF vars
<1>16. QED
  BY <1>1, <1>2, <1>3, <1>4, <1>5, <1>6, <1>7, <1>8, <1>9, <1>10, <1>11, <1>12, <1>13, <1>14, <1>15, <1>17, <1>18, <1>19 DEF Next, Test, Processes

\* While there are services, no process is started: one that ended stays away.
LEMMA StepGone == IInv /\ SetUpInv /\ hasServices /\ [Next]_vars =>
                     hasServices' /\ \A g \in Group : ~Runs(g) => ~Runs(g)'
<1> SUFFICES ASSUME IInv, SetUpInv, hasServices, [Next]_vars
             PROVE hasServices' /\ \A g \in Group : ~Runs(g) => ~Runs(g)'
  OBVIOUS
<1> USE DEF IInv, TypeOK, SetUpInv, Group, Stopping, Waiting,
            testVars, ctlVars, fsVars, osVars, histVars, Runs
<1>1. CASE LeaderListens
  BY <1>1 DEF LeaderListens
<1>2. CASE GetPorts \/ RunRefuses
  BY <1>2 DEF GetPorts, RunRefuses
<1>3. CASE CreateConfig
  BY <1>3 DEF CreateConfig
<1>4. CASE ExecuteServer
  BY <1>4 DEF ExecuteServer
<1>5. CASE RunServicesController \/ ServicesRefuse
  BY <1>5 DEF RunServicesController, ServicesRefuse
<1>6. CASE CheckIsAlive
  BY <1>6 DEF CheckIsAlive
<1>7. CASE Connects \/ SendsChkport \/ ReadsOther \/ SendsBlank \/ PortIsOpen \/ WaitReturns
  BY <1>7 DEF Connects, SendsChkport, ReadsOther, SendsBlank, PortIsOpen, WaitReturns
<1>8. CASE ConnectionRefused
  BY <1>8 DEF ConnectionRefused
<1>9. CASE SendTerm \/ EscalateToKill
  BY <1>9 DEF SendTerm, EscalateToKill
<1>10. CASE LeaderWaitedFor
  BY <1>10 DEF LeaderWaitedFor
<1>11. CASE KillExpires \/ ReleasePorts
  BY <1>11 DEF KillExpires, ReleasePorts
<1>12. CASE RemoveDirectory \/ RemoveDirectoryFails
  BY <1>12 DEF RemoveDirectory, RemoveDirectoryFails
<1>13. CASE TestWaitsForPort \/ TestChecksServer \/ TestStopsServer
  BY <1>13 DEF TestWaitsForPort, TestChecksServer, TestStopsServer
<1>14. CASE TearDown
  BY <1>14 DEF TearDown
<1>15. ASSUME NEW g \in Group, LeaderObeys(g) \/ LeaderCrashes(g)
       PROVE hasServices' /\ \A h \in Group : ~Runs(h) => ~Runs(h)'
  BY <1>15 DEF LeaderObeys, LeaderCrashes, LeaderExits
<1>16. ASSUME NEW g \in Group, HelperObeys(g) \/ LeaderForks(g)
       PROVE hasServices' /\ \A h \in Group : ~Runs(h) => ~Runs(h)'
  BY <1>16 DEF HelperObeys, LeaderForks
<1>17. CASE UNCHANGED vars
  BY <1>17 DEF vars
<1>18. QED
  BY <1>1, <1>2, <1>3, <1>4, <1>5, <1>6, <1>7, <1>8, <1>9, <1>10, <1>11, <1>12, <1>13, <1>14, <1>15, <1>16, <1>17 DEF Next, Test, Processes

-----------------------------------------------------------------------------

\* One of the two processes that NickServ needs has ended.
Gone == ~Runs("server") \/ ~Runs("services")

\* There were services, and they are there unless they ended.
There == hasServices /\ (linked \/ Gone)

\* Where the client and its connection are.
PhaseInv ==
    /\ phase # "idle" => pc = "test" /\ hasServices
    /\ phase \in {"idle", "connect"} => inbox = <<>> /\ session = "none"
    /\ phase \in {"ask", "reply", "quit", "quitting"} => session \in {"up", "leaving", "closed"}
    /\ Has(inbox, "001") \/ Has(inbox, "376") => session \in {"up", "leaving", "closed"}
    /\ session = "leaving" => phase = "quitting"
    /\ requests > 0 => session \in {"up", "leaving"}
    /\ linked => Runs("server") /\ Runs("services") /\ hasServices
    /\ client = "chkNS" /\ phase \in {"ask", "reply"} => asked < MaxAsks

\* Only NickServ itself makes the test believe in NickServ.
EarnedInv ==
    /\ servicesUp \/ Has(inbox, "NOTICE") => There
    /\ client = "chkNS" /\ phase \in {"quit", "quitting"} => There
    /\ client = "user" /\ phase # "idle" => servicesUp

\* What registerUser() is told while it waits for NickServ, if the server
\* itself keeps silent.
RefusedInv ==
    "user" \notin Notified =>
        /\ client = "user" /\ phase \in {"ask", "reply"} =>
              \A l : Has(inbox, l) => l = "NOTICE" \/ (l = "401" /\ Gone)
        /\ outcome = "refused" => hasServices /\ Gone

\* The inductive invariant.
ServicesInvariant ==
    /\ IInv /\ SetUpInv
    /\ TypeOKServices
    /\ PhaseInv
    /\ EarnedInv
    /\ RefusedInv

\* The initial states satisfy the invariant.
LEMMA InitServicesInvariant == InitServices => ServicesInvariant
<1> SUFFICES ASSUME InitServices PROVE ServicesInvariant
  OBVIOUS
<1>1. Init
  BY DEF InitServices
<1>2. IInv
  BY <1>1, InitIInv
<1>3. SetUpInv
  BY <1>1, <1>2 DEF Init, SetUpInv, IInv, TypeOK
<1>4. TypeOKServices
  <2>0. inbox = <<>>
    BY Zenon DEF InitServices
  <2>1. inbox \in Seq(Lines)
    BY <2>0
  <2>2. asked = 0 /\ requests = 0
    BY Zenon DEF InitServices
  <2>3. asked \in 0..MaxAsks /\ requests \in Nat
    BY <2>2, ServicesAssumption
  <2>4. QED
    BY <2>1, <2>3, Zenon DEF InitServices, TypeOKServices
<1>5. \A l : ~Has(inbox, l)
  BY HasNothing DEF InitServices
<1>6. phase = "idle" /\ session = "none" /\ requests = 0 /\ inbox = <<>> /\ outcome = ""
  BY Zenon DEF InitServices
<1>7. ~linked /\ ~servicesUp
  BY Zenon DEF InitServices
<1>8. PhaseInv /\ EarnedInv /\ RefusedInv
  <2>1. PhaseInv
    <3>1. ~(requests > 0)
      <4>1. requests = 0
        BY <1>6, Zenon
      <4>2. QED
        BY <4>1
    <3>2. QED
      BY <1>5, <1>6, <1>7, <3>1, Zenon DEF PhaseInv
  <2>2. EarnedInv
    BY <1>5, <1>6, <1>7, Zenon DEF EarnedInv
  <2>3. RefusedInv
    BY <1>6 DEF RefusedInv
  <2>4. QED
    BY <2>1, <2>2, <2>3
<1>9. QED
  BY <1>2, <1>3, <1>4, <1>8 DEF ServicesInvariant

\* Whatever the processes and the test do, the connections follow.
LEMMA StepProcesses ==
    ASSUME ServicesInvariant, Next, ConnectionsEnd, UNCHANGED <<phase, client, servicesUp, outcome, asked, purpose>>,
           phase # "idle" => pc' = pc
    PROVE  ServicesInvariant'
<1> USE DEF ServicesInvariant
<1>1. IInv' /\ SetUpInv'
  BY StepIInv, StepSetUp
<1>2. hasServices => hasServices' /\ \A g \in Group : ~Runs(g) => ~Runs(g)'
  BY StepGone
<1>3. There => There'
  BY <1>2 DEF There, Gone, ConnectionsEnd, Group
<1>4. Gone /\ hasServices => Gone' /\ hasServices'
  BY <1>2 DEF Gone, Group
<1>5. TypeOKServices'
  BY DEF TypeOKServices, ConnectionsEnd
<1>6. PhaseInv'
  <2>1. phase' # "idle" => pc' = "test" /\ hasServices'
    BY <1>2 DEF PhaseInv
  <2>2. session' \in {session, "closed"} /\ (session = "none" => session' = "none")
    BY DEF ConnectionsEnd
  <2>3. linked' => Runs("server")'
    BY DEF ConnectionsEnd
  <2>7. ASSUME requests' > 0 PROVE session' = session /\ requests' = requests
    <3>1. linked' /\ requests' = requests
      BY <2>7 DEF ConnectionsEnd
    <3>2. QED
      BY <2>3, <3>1, Zenon DEF ConnectionsEnd
  <2>4. linked' => Runs("server")' /\ Runs("services")' /\ hasServices'
    BY <1>2 DEF PhaseInv, ConnectionsEnd
  <2>5. inbox' = inbox
    BY DEF ConnectionsEnd
  <2>6. QED
    BY <2>1, <2>2, <2>4, <2>5, <2>7 DEF PhaseInv
<1>7. EarnedInv'
  BY <1>3 DEF EarnedInv, ConnectionsEnd
<1>8. RefusedInv'
  BY <1>4 DEF RefusedInv, ConnectionsEnd, PhaseInv
<1>9. QED
  BY <1>1, <1>5, <1>6, <1>7, <1>8

\* A step of the server, of NickServ or of the client leaves the test alone.
LEMMA StepAlone ==
    ASSUME ServicesInvariant, UNCHANGED vars
    PROVE  /\ IInv' /\ SetUpInv' /\ (Gone' <=> Gone)
           /\ pc' = pc /\ hasServices' = hasServices
           /\ \A g \in Group : Runs(g)' <=> Runs(g)
<1>1. UNCHANGED <<pc, hasServices, leader>>
  BY DEF vars, testVars, ctlVars, osVars
<1>2. [Next]_vars /\ IInv /\ SetUpInv
  BY DEF ServicesInvariant
<1>3. IInv' /\ SetUpInv'
  BY <1>2, StepIInv, StepSetUp
<1>4. QED
  BY <1>1, <1>3 DEF Gone, Runs

\* The server and NickServ send lines.
LEMMA StepServer ==
    ASSUME ServicesInvariant,
           ServerAnswers \/ ServicesLink \/ NickServAnswers \/ ServerNotifies
    PROVE  ServicesInvariant'
<1> USE DEF ServicesInvariant, clientVars
<1>1. UNCHANGED <<vars, phase, client, purpose, servicesUp, asked, outcome>>
  BY DEF ServerAnswers, ServerPings, ServerWelcomes, ServerHandlesQuit, ServicesLink,
         NickServAnswers, ServerNotifies
<1>2. /\ IInv' /\ SetUpInv' /\ (Gone' <=> Gone) /\ pc' = pc /\ hasServices' = hasServices
      /\ \A g \in Group : Runs(g)' <=> Runs(g)
  BY <1>1, StepAlone
<1>3. inbox \in Seq(Lines) /\ requests \in Nat
  BY DEF TypeOKServices
<1>4. CASE ServicesLink
  <2>1. linked' /\ UNCHANGED <<session, inbox, requests, lost>> /\ Runs("services") /\ listening
    BY <1>4 DEF ServicesLink
  <2>2. TypeOKServices'
    BY ZenonT(30), <1>1, <2>1 DEF TypeOKServices
  <2>3. hasServices /\ Runs("server")
    BY <2>1 DEF SetUpInv, Runs, IInv, TypeOK, ProcInv, ServicesInv, Group
  <2>4. PhaseInv'
    BY <1>1, <1>2, <2>1, <2>3 DEF PhaseInv, Group
  <2>5. EarnedInv' /\ RefusedInv'
    BY <1>1, <1>2, <2>1, <2>3 DEF EarnedInv, RefusedInv, There
  <2>6. QED
    BY <1>2, <2>2, <2>4, <2>5
<1>5. CASE NickServAnswers
  <2>1. /\ linked /\ requests > 0 /\ requests' = requests - 1 /\ inbox' = inbox \o <<"NOTICE">>
        /\ UNCHANGED <<linked, session, lost>>
    BY <1>5 DEF NickServAnswers, Tells
  <2>2. /\ inbox' \in Seq(Lines) /\ \A l : Has(inbox', l) <=> Has(inbox, l) \/ "NOTICE" = l
    BY <1>3, <2>1, HasAppended DEF Lines
  <2>3. requests' \in Nat /\ (requests' > 0 => requests > 0)
    BY <1>3, <2>1
  <2>4. TypeOKServices'
    BY <1>1, <2>1, <2>2, <2>3, Zenon DEF TypeOKServices
  <2>5. PhaseInv'
    <3>1. phase \notin {"idle", "connect"}
      BY <2>1 DEF PhaseInv
    <3>2. (Has(inbox', "001") => Has(inbox, "001")) /\ (Has(inbox', "376") => Has(inbox, "376"))
      BY <2>2
    <3>3. QED
      BY <1>1, <1>2, <2>1, <2>3, <3>1, <3>2 DEF PhaseInv, Group
  <2>6. There'
    BY <1>2, <2>1 DEF There, PhaseInv
  <2>7. EarnedInv' /\ RefusedInv'
    BY <1>1, <1>2, <2>2, <2>6 DEF EarnedInv, RefusedInv, Gone
  <2>8. QED
    BY <1>2, <2>4, <2>5, <2>7
<1>6. CASE ServerNotifies
  <2>1. PICK line \in Notifications : inbox' = inbox \o <<line>>
    BY <1>6 DEF ServerNotifies, Tells
  <2>2. /\ session = "up" /\ ("user" \notin Notified => client # "user")
        /\ UNCHANGED <<linked, session, requests, lost>>
    BY <1>6 DEF ServerNotifies
  <2>3. inbox' \in Seq(Lines) /\ \A l : Has(inbox', l) <=> Has(inbox, l) \/ line = l
    BY <1>3, <2>1, HasAppended DEF Lines
  <2>4. /\ Has(inbox', "001") => Has(inbox, "001")
        /\ Has(inbox', "376") => Has(inbox, "376")
        /\ Has(inbox', "NOTICE") => Has(inbox, "NOTICE")
    BY <2>3 DEF Notifications
  <2>5. TypeOKServices'
    BY <1>1, <2>2, <2>3, Zenon DEF TypeOKServices
  <2>6. PhaseInv'
    BY <1>1, <1>2, <2>2, <2>4 DEF PhaseInv, Group
  <2>7. There' <=> There
    BY <1>2, <2>2 DEF There
  <2>8. EarnedInv' /\ RefusedInv'
    BY <1>1, <1>2, <2>2, <2>4, <2>7 DEF EarnedInv, RefusedInv
  <2>9. QED
    BY <1>2, <2>5, <2>6, <2>8
<1>7. CASE ServerAnswers
  <2>1. /\ session \in {"new", "ponged", "leaving"}
        /\ session' \in {"pinged", "up", "closed"}
        /\ UNCHANGED <<linked, lost>>
        /\ requests' = 0 \/ requests' = requests
    BY <1>7 DEF ServerAnswers, ServerPings, ServerWelcomes, ServerHandlesQuit
  <2>2. /\ phase \notin {"idle", "connect", "ask", "reply", "quit"}
        /\ phase = "quitting" => session = "leaving"
        /\ Has(inbox, "001") \/ Has(inbox, "376") => session = "leaving"
    BY <2>1 DEF PhaseInv
  <2>3. inbox' \in Seq(Lines)
    <3>1. "PING" \in Lines /\ "001" \in Lines /\ "376" \in Lines /\ "ERROR" \in Lines
      BY DEF Lines
    <3>2. \/ inbox' = inbox \o <<"PING">> \/ inbox' = inbox \o <<"001", "376">>
          \/ inbox' = inbox \o <<"ERROR">>
      BY <1>7, Zenon DEF ServerAnswers, ServerPings, ServerWelcomes, ServerHandlesQuit, Tells
    <3>3. /\ inbox \o <<"PING">> \in Seq(Lines) /\ inbox \o <<"001", "376">> \in Seq(Lines)
          /\ inbox \o <<"ERROR">> \in Seq(Lines)
      BY <1>3, <3>1
    <3>4. QED
      BY <3>2, <3>3, Zenon
  <2>4. Has(inbox', "NOTICE") => Has(inbox, "NOTICE")
    <3>1. CASE ServerWelcomes
      <4>1. inbox' = inbox \o <<"001", "376">> /\ "001" \in Lines /\ "376" \in Lines
        BY <3>1 DEF ServerWelcomes, Tells, Lines
      <4>2. \A l : Has(inbox', l) => Has(inbox, l) \/ "001" = l \/ "376" = l
        BY <1>3, <4>1, HasTwoAppended
      <4>3. QED
        BY <4>2
    <3>2. CASE ServerPings \/ ServerHandlesQuit
      <4>1. PICK line \in {"PING", "ERROR"} : inbox' = inbox \o <<line>>
        BY <3>2 DEF ServerPings, ServerHandlesQuit, Tells
      <4>2. \A l : Has(inbox', l) <=> Has(inbox, l) \/ line = l
        BY <1>3, <4>1, HasAppended DEF Lines
      <4>3. QED
        BY <4>2
    <3>3. QED
      BY <1>7, <3>1, <3>2 DEF ServerAnswers
  <2>5. Has(inbox', "001") \/ Has(inbox', "376") => session' \in {"up", "closed"}
    <3>1. CASE ServerPings
      <4>1. session = "new" /\ inbox' = inbox \o <<"PING">>
        BY <3>1 DEF ServerPings, Tells
      <4>2. \A l : Has(inbox', l) <=> Has(inbox, l) \/ "PING" = l
        BY <1>3, <4>1, HasAppended DEF Lines
      <4>3. QED
        BY <2>2, <4>1, <4>2
    <3>2. CASE ServerWelcomes \/ ServerHandlesQuit
      BY <3>2 DEF ServerWelcomes, ServerHandlesQuit
    <3>3. QED
      BY <1>7, <3>1, <3>2 DEF ServerAnswers
  <2>6. phase = "quitting" => session' = "closed"
    BY <1>7, <2>2 DEF ServerAnswers, ServerPings, ServerWelcomes, ServerHandlesQuit
  <2>7. requests' > 0 => session' \in {"up", "leaving"}
    <3>1. requests' > 0 => session \in {"up", "leaving"} /\ requests' = requests
      BY <1>3, <2>1 DEF PhaseInv
    <3>2. CASE ServerHandlesQuit
      BY <3>2 DEF ServerHandlesQuit
    <3>3. CASE ServerPings \/ ServerWelcomes
      BY <3>1, <3>3 DEF ServerPings, ServerWelcomes
    <3>4. QED
      BY <1>7, <3>2, <3>3 DEF ServerAnswers
  <2>8. TypeOKServices'
    <3>1. requests' \in Nat
      BY <1>3, <2>1
    <3>2. QED
      BY <1>1, <2>1, <2>3, <3>1, Zenon DEF TypeOKServices
  <2>9. PhaseInv'
    BY <1>1, <1>2, <2>1, <2>2, <2>5, <2>6, <2>7 DEF PhaseInv, Group
  <2>10. There' <=> There
    BY <1>2, <2>1 DEF There
  <2>11. EarnedInv' /\ RefusedInv'
    BY <1>1, <1>2, <2>2, <2>4, <2>10 DEF EarnedInv, RefusedInv
  <2>12. QED
    BY <1>2, <2>8, <2>9, <2>11
<1>8. QED
  BY <1>4, <1>5, <1>6, <1>7

\* An exception leaves no client behind.
LEMMA StepRaises ==
    ASSUME ServicesInvariant, NEW why \in {"raised", "timeout", "refused"}, CallRaises(why),
           "user" \notin Notified => (why = "refused" => hasServices /\ Gone)
    PROVE  ServicesInvariant'
<1> USE DEF ServicesInvariant
<1>1. /\ phase' = "idle" /\ outcome' = why /\ session' = "none" /\ requests' = 0
      /\ UNCHANGED <<vars, client, purpose, servicesUp, asked, linked, lost>>
  BY Zenon DEF CallRaises
<1>2. inbox' = <<>>
  BY Zenon DEF CallRaises
<1>3. /\ IInv' /\ SetUpInv' /\ (Gone' <=> Gone) /\ pc' = pc /\ hasServices' = hasServices
      /\ \A g \in Group : Runs(g)' <=> Runs(g)
  BY <1>1, StepAlone
<1>4. inbox' \in Seq(Lines)
  BY <1>2
<1>5. \A l : ~Has(inbox', l)
  BY <1>2, HasNothing
<1>6. TypeOKServices'
  <2>1. requests' \in Nat
    BY <1>1
  <2>2. QED
    BY <1>1, <1>4, <2>1, Zenon DEF TypeOKServices
<1>7. PhaseInv'
  <2>1. ~(requests' > 0)
    BY <1>1
  <2>2. linked' => Runs("server")' /\ Runs("services")' /\ hasServices'
    BY <1>1, <1>3 DEF PhaseInv, Group
  <2>3. QED
    BY <1>1, <1>2, <1>5, <2>1, <2>2, Zenon DEF PhaseInv
<1>8. There' <=> There
  BY <1>1, <1>3 DEF There
<1>9. EarnedInv' /\ RefusedInv'
  BY <1>1, <1>3, <1>5, <1>8 DEF EarnedInv, RefusedInv
<1>10. QED
  BY <1>3, <1>6, <1>7, <1>9

\* The client waits for the burst.
LEMMA StepBurst ==
    ASSUME ServicesInvariant, ClientConnects \/ ChkReadsBurst \/ UserReadsBurst
    PROVE  ServicesInvariant'
<1> USE DEF ServicesInvariant
<1>1. UNCHANGED <<vars, client, purpose, servicesUp, outcome, linked, requests, lost>>
  BY Zenon DEF ClientConnects, ChkReadsBurst, UserReadsBurst
<1>2. /\ IInv' /\ SetUpInv' /\ (Gone' <=> Gone) /\ pc' = pc /\ hasServices' = hasServices
      /\ \A g \in Group : Runs(g)' <=> Runs(g)
  BY <1>1, StepAlone
<1>3. inbox \in Seq(Lines) /\ requests \in Nat
  BY DEF TypeOKServices
<1>4. There' <=> There
  BY <1>1, <1>2 DEF There
<1>5. linked' => Runs("server")' /\ Runs("services")' /\ hasServices'
  BY <1>1, <1>2 DEF PhaseInv, Group
<1>6. CASE ClientConnects
  <2>1. phase = "connect" /\ phase' = "burst" /\ session' = "new" /\ inbox' = <<>> /\ asked' = asked
    BY <1>6, Zenon DEF ClientConnects
  <2>2. \A l : ~Has(inbox', l)
    BY <2>1, HasNothing
  <2>3. inbox' \in Seq(Lines)
    BY <2>1
  <2>4. TypeOKServices'
    BY <1>1, <2>1, <2>3, Zenon DEF TypeOKServices
  <2>5. ~(requests' > 0)
    BY <1>1, <2>1 DEF PhaseInv
  <2>6. PhaseInv'
    BY <1>1, <1>2, <1>5, <2>1, <2>2, <2>5, Zenon DEF PhaseInv
  <2>7. EarnedInv' /\ RefusedInv'
    BY <1>1, <1>2, <1>4, <2>1, <2>2, Zenon DEF EarnedInv, RefusedInv
  <2>8. QED
    BY <1>2, <2>4, <2>6, <2>7
<1>7. CASE ChkReadsBurst
  <2>1. PICK n \in DOMAIN inbox :
           /\ inbox' = SubSeq(inbox, n + 1, Len(inbox))
           /\ session' = Ponged(SubSeq(inbox, 1, n))
           /\ phase' = IF Has(SubSeq(inbox, 1, n), "376") THEN "ask" ELSE "burst"
    BY <1>7, Zenon DEF ChkReadsBurst, ChkAnswersPing
  <2>2. phase = "burst" /\ client = "chkNS" /\ asked' = 0
    BY <1>7, Zenon DEF ChkReadsBurst
  <2>3. /\ inbox' \in Seq(Lines)
        /\ \A l : Has(SubSeq(inbox, 1, n), l) => Has(inbox, l)
        /\ \A l : Has(inbox', l) => Has(inbox, l)
    BY <1>3, <2>1, HasPart
  <2>4. session' = session \/ (session = "pinged" /\ session' = "ponged")
    BY <2>1 DEF Ponged
  <2>5. asked' \in 0..MaxAsks /\ asked' < MaxAsks
    BY <2>2, ServicesAssumption
  <2>6. phase' \in {"ask", "burst"}
    BY <2>1
  <2>7. TypeOKServices'
    BY <1>1, <2>3, <2>4, <2>5, <2>6, Zenon DEF TypeOKServices
  <2>8. phase' = "ask" => session' \in {"up", "leaving", "closed"}
    BY <2>1, <2>3, <2>4 DEF PhaseInv
  <2>9. PhaseInv'
    BY <1>1, <1>2, <1>5, <2>2, <2>3, <2>4, <2>5, <2>6, <2>8 DEF PhaseInv
  <2>10. EarnedInv' /\ RefusedInv'
    BY <1>1, <1>2, <1>4, <2>2, <2>3, <2>6 DEF EarnedInv, RefusedInv
  <2>11. QED
    BY <1>2, <2>7, <2>9, <2>10
<1>8. CASE UserReadsBurst
  <2>1. /\ phase = "burst" /\ client = "user" /\ asked' = asked /\ inbox' = <<>>
        /\ session' = Ponged(inbox) /\ phase' = IF Has(inbox, "001") THEN "ask" ELSE "burst"
    BY <1>8, Zenon DEF UserReadsBurst, UserAnswersPing
  <2>2. \A l : ~Has(inbox', l)
    BY <2>1, HasNothing
  <2>3. inbox' \in Seq(Lines)
    BY <2>1
  <2>4. session' = session \/ (session = "pinged" /\ session' = "ponged")
    BY <2>1, Zenon DEF Ponged
  <2>5. phase' \in {"ask", "burst"} /\ (phase' = "ask" => session' \in {"up", "leaving", "closed"})
    <3>1. phase' = "ask" => Has(inbox, "001")
      BY <2>1, Zenon
    <3>2. phase' \in {"ask", "burst"}
      BY <2>1, Zenon
    <3>3. QED
      BY <2>4, <3>1, <3>2 DEF PhaseInv
  <2>6. TypeOKServices'
    BY <1>1, <2>1, <2>3, <2>4, <2>5, Zenon DEF TypeOKServices
  <2>7. client' = "user" /\ phase = "burst"
    BY <1>1, <2>1, Zenon
  <2>8. PhaseInv'
    BY <1>1, <1>2, <1>5, <2>2, <2>4, <2>5, <2>7 DEF PhaseInv
  <2>9. EarnedInv' /\ RefusedInv'
    BY <1>1, <1>2, <1>4, <2>2, <2>5, <2>7 DEF EarnedInv, RefusedInv
  <2>10. QED
    BY <1>2, <2>6, <2>8, <2>9
<1>9. QED
  BY <1>6, <1>7, <1>8

\* The client asks NickServ, and reads what comes.
LEMMA StepAsks ==
    ASSUME ServicesInvariant, Asks \/ ChkReadsAnswer \/ UserReadsAnswer
    PROVE  ServicesInvariant'
<1> USE DEF ServicesInvariant
<1>1. inbox \in Seq(Lines) /\ requests \in Nat /\ asked \in 0..MaxAsks
  BY DEF TypeOKServices
<1>2. CASE Asks
  <2>1. /\ phase = "ask" /\ phase' = "reply"
        /\ UNCHANGED <<vars, client, purpose, servicesUp, asked, outcome, linked, session, lost>>
    BY <1>2, Zenon DEF Asks
  <2>2. /\ IInv' /\ SetUpInv' /\ (Gone' <=> Gone) /\ pc' = pc /\ hasServices' = hasServices
        /\ \A g \in Group : Runs(g)' <=> Runs(g)
    BY <2>1, StepAlone
  <2>3. There' <=> There
    BY <2>1, <2>2 DEF There
  <2>4. \/ session = "up" /\ linked /\ requests' = requests + 1 /\ inbox' = inbox
        \/ session = "up" /\ ~linked /\ requests' = requests /\ inbox' = inbox \o <<"401">>
        \/ requests' = requests /\ inbox' = inbox
    BY <1>2, Zenon DEF Asks, Tells
  <2>5. requests' \in Nat /\ (requests' > 0 => session \in {"up", "leaving"})
    BY <1>1, <2>4 DEF PhaseInv
  <2>6. "401" \in Lines /\ "401" # "001" /\ "401" # "376" /\ "401" # "NOTICE"
    BY DEF Lines
  <2>7. inbox' \in Seq(Lines) /\ \A l : Has(inbox', l) => Has(inbox, l) \/ (l = "401" /\ ~linked)
    <3>1. CASE ~linked /\ inbox' = inbox \o <<"401">>
      <4>1. inbox' \in Seq(Lines) /\ \A l : Has(inbox', l) <=> Has(inbox, l) \/ "401" = l
        BY <1>1, <2>6, <3>1, HasAppended
      <4>2. QED
        BY <3>1, <4>1, Zenon
    <3>2. CASE inbox' = inbox
      BY <1>1, <3>2, Zenon
    <3>3. QED
      BY <2>4, <3>1, <3>2
  <2>8. /\ Has(inbox', "001") => Has(inbox, "001")
        /\ Has(inbox', "376") => Has(inbox, "376")
        /\ Has(inbox', "NOTICE") => Has(inbox, "NOTICE")
    BY <2>6, <2>7, Zenon
  <2>9. TypeOKServices'
    BY <2>1, <2>5, <2>7, Zenon DEF TypeOKServices
  <2>10. linked' => Runs("server")' /\ Runs("services")' /\ hasServices'
    BY <2>1, <2>2 DEF PhaseInv, Group
  <2>11. PhaseInv'
    BY <2>1, <2>2, <2>5, <2>8, <2>10 DEF PhaseInv
  <2>12. EarnedInv'
    BY <2>1, <2>3, <2>8 DEF EarnedInv
  <2>13. RefusedInv'
    <3>1. client = "user" /\ ~linked => Gone
      BY <2>1 DEF EarnedInv, There
    <3>2. QED
      BY <2>1, <2>2, <2>7, <3>1 DEF RefusedInv
  <2>14. QED
    BY <2>2, <2>9, <2>11, <2>12, <2>13
<1>3. CASE ChkReadsAnswer
  <2>1. CASE CallRaises("timeout")
    BY <2>1, StepRaises
  <2>2. CASE ~CallRaises("timeout")
    <3>1. /\ phase = "reply" /\ client = "chkNS" /\ asked' = asked + 1 /\ inbox' = <<>>
          /\ phase' = IF HeardNickServ(inbox) THEN "quit" ELSE "ask"
          /\ ~HeardNickServ(inbox) => ~AskedLongEnough
          /\ UNCHANGED <<vars, client, purpose, servicesUp, outcome, linked, session, requests, lost>>
      BY <1>3, <2>2, Zenon DEF ChkReadsAnswer
    <3>2. /\ IInv' /\ SetUpInv' /\ (Gone' <=> Gone) /\ pc' = pc /\ hasServices' = hasServices
          /\ \A g \in Group : Runs(g)' <=> Runs(g)
      BY <3>1, StepAlone
    <3>3. There' <=> There
      BY <3>1, <3>2 DEF There
    <3>4. \A l : ~Has(inbox', l)
      BY <3>1, HasNothing
    <3>5. inbox' \in Seq(Lines)
      BY <3>1
    <3>6. phase = "reply" /\ client = "chkNS" /\ asked' = asked + 1 /\ client' = "chkNS"
      BY <3>1, Zenon
    <3>7. /\ phase' \in {"quit", "ask"}
          /\ phase' = "quit" => Has(inbox, "NOTICE")
          /\ phase' = "ask" => ~AskedLongEnough
      BY <3>1, Zenon DEF HeardNickServ
    <3>8. asked < MaxAsks
      BY <3>6 DEF PhaseInv
    <3>9. asked' \in 0..MaxAsks /\ (phase' = "ask" => asked' < MaxAsks)
      BY <1>1, <3>6, <3>7, <3>8, ServicesAssumption DEF AskedLongEnough
    <3>10. TypeOKServices'
      BY <3>1, <3>5, <3>7, <3>9, Zenon DEF TypeOKServices
    <3>11. linked' => Runs("server")' /\ Runs("services")' /\ hasServices'
      BY <3>1, <3>2 DEF PhaseInv, Group
    <3>12. session' = session /\ requests' = requests
      BY <3>1, Zenon
    <3>13. PhaseInv'
      BY <3>2, <3>4, <3>6, <3>7, <3>9, <3>11, <3>12 DEF PhaseInv
    <3>14. UNCHANGED <<servicesUp, outcome, client>>
      BY <3>1, Zenon
    <3>15. EarnedInv'
      BY <3>3, <3>4, <3>6, <3>7, <3>14 DEF EarnedInv
    <3>16. RefusedInv'
      BY <3>2, <3>6, <3>14 DEF RefusedInv
    <3>17. QED
      BY <3>2, <3>10, <3>13, <3>15, <3>16
  <2>3. QED
    BY <2>1, <2>2
<1>4. CASE UserReadsAnswer
  <2>1. CASE Has(inbox, "NOTICE") \/ Has(inbox, "server NOTICE")
    <3>1. /\ phase = "reply" /\ client = "user" /\ phase' = "quit" /\ inbox' = <<>>
          /\ UNCHANGED <<vars, client, purpose, servicesUp, asked, outcome, linked, session, requests, lost>>
      BY <1>4, <2>1, Zenon DEF UserReadsAnswer
    <3>2. /\ IInv' /\ SetUpInv' /\ (Gone' <=> Gone) /\ pc' = pc /\ hasServices' = hasServices
          /\ \A g \in Group : Runs(g)' <=> Runs(g)
      BY <3>1, StepAlone
    <3>3. There' <=> There
      BY <3>1, <3>2 DEF There
    <3>4. \A l : ~Has(inbox', l)
      BY <3>1, HasNothing
    <3>5. inbox' \in Seq(Lines)
      BY <3>1
    <3>6. TypeOKServices'
      BY <3>1, <3>5, Zenon DEF TypeOKServices
    <3>7. /\ phase = "reply" /\ phase' = "quit" /\ client' = "user" /\ session' = session
          /\ requests' = requests /\ outcome' = outcome /\ servicesUp' = servicesUp
          /\ client = "user"
      BY <3>1, Zenon
    <3>8. linked' => Runs("server")' /\ Runs("services")' /\ hasServices'
      BY <3>1, <3>2 DEF PhaseInv, Group
    <3>9. PhaseInv'
      BY <3>2, <3>4, <3>7, <3>8 DEF PhaseInv
    <3>10. EarnedInv' /\ RefusedInv'
      BY <3>2, <3>3, <3>4, <3>7 DEF EarnedInv, RefusedInv
    <3>11. QED
      BY <3>2, <3>6, <3>9, <3>10
  <2>2. CASE ~Has(inbox, "NOTICE") /\ ~Has(inbox, "server NOTICE")
    <3>1. CallRaises("refused") /\ phase = "reply" /\ client = "user" /\ inbox # <<>>
      BY <1>4, <2>2, Zenon DEF UserReadsAnswer
    <3>2. PICK l : Has(inbox, l)
      <4>1. inbox # <<>>
        BY <3>1, Zenon
      <4>2. 1 \in DOMAIN inbox
        BY <1>1, <4>1
      <4>3. QED
        BY <4>2 DEF Has
    <3>3. "user" \notin Notified => Gone
      BY <2>2, <3>1, <3>2, Zenon DEF RefusedInv
    <3>4. hasServices
      BY <3>1 DEF PhaseInv
    <3>5. QED
      BY <3>1, <3>3, <3>4, StepRaises
  <2>3. QED
    BY <2>1, <2>2
<1>5. QED
  BY <1>2, <1>3, <1>4

\* The client leaves.
LEMMA StepLeaves ==
    ASSUME ServicesInvariant, SendsQuit \/ ClientLeaves
    PROVE  ServicesInvariant'
<1> USE DEF ServicesInvariant
<1>1. UNCHANGED <<vars, purpose, asked, linked, requests, lost>>
  BY Zenon DEF SendsQuit, ClientLeaves
<1>2. /\ IInv' /\ SetUpInv' /\ (Gone' <=> Gone) /\ pc' = pc /\ hasServices' = hasServices
      /\ \A g \in Group : Runs(g)' <=> Runs(g)
  BY <1>1, StepAlone
<1>3. There' <=> There
  BY <1>1, <1>2 DEF There
<1>4. linked' => Runs("server")' /\ Runs("services")' /\ hasServices'
  BY <1>1, <1>2 DEF PhaseInv, Group
<1>5. CASE SendsQuit
  <2>1. /\ phase = "quit" /\ phase' = "quitting"
        /\ session' = IF session = "up" THEN "leaving" ELSE session
        /\ UNCHANGED <<client, servicesUp, outcome, inbox>>
    BY <1>5, Zenon DEF SendsQuit
  <2>2. session \in {"up", "closed"}
    BY <2>1 DEF PhaseInv
  <2>3. session' \in {"leaving", "closed"} /\ (session = "up" => session' = "leaving")
    BY <2>1, <2>2
  <2>4. UNCHANGED <<client, servicesUp, outcome, inbox>> /\ phase = "quit" /\ phase' = "quitting"
    BY <2>1, Zenon
  <2>5. TypeOKServices'
    BY <1>1, <2>3, <2>4, Zenon DEF TypeOKServices
  <2>6. PhaseInv'
    BY <1>1, <1>2, <1>4, <2>2, <2>3, <2>4 DEF PhaseInv
  <2>7. EarnedInv' /\ RefusedInv'
    BY <1>2, <1>3, <2>4 DEF EarnedInv, RefusedInv
  <2>8. QED
    BY <1>2, <2>5, <2>6, <2>7
<1>6. CASE ClientLeaves
  <2>1. /\ phase = "quitting" /\ session = "closed" /\ session' = "none" /\ inbox' = <<>>
        /\ IF client = "chkNS" THEN servicesUp' = TRUE /\ ClientIsAdded
           ELSE phase' = "idle" /\ outcome' = "done" /\ UNCHANGED <<client, servicesUp>>
    BY <1>6, Zenon DEF ClientLeaves
  <2>2. \A l : ~Has(inbox', l)
    BY <2>1, HasNothing
  <2>3. inbox' \in Seq(Lines)
    BY <2>1
  <2>4. inbox' = <<>> /\ session' = "none" /\ phase = "quitting" /\ session = "closed"
    BY <2>1, Zenon
  <2>7. /\ phase' \in {"connect", "idle"}
        /\ client' \in {"chkNS", "user"}
        /\ outcome' = outcome \/ outcome' = "done"
        /\ servicesUp' \in BOOLEAN
        /\ servicesUp' => There
        /\ client' = "user" /\ phase' # "idle" => servicesUp'
    <3>1. client \in {"chkNS", "user"}
      BY DEF TypeOKServices
    <3>2. CASE client = "chkNS"
      <4>1. (servicesUp' = TRUE) /\ ClientIsAdded /\ There
        BY <2>1, <3>2, Zenon DEF EarnedInv
      <4>2. /\ phase' \in {"connect", "idle"}
            /\ client' \in {"chkNS", "user"}
            /\ outcome' = outcome \/ outcome' = "done"
        BY <3>2, <4>1, Zenon DEF ClientIsAdded
      <4>3. QED
        BY <4>1, <4>2, Zenon
    <3>3. CASE client = "user"
      <4>1. phase' = "idle" /\ outcome' = "done" /\ client' = client /\ servicesUp' = servicesUp
        BY <2>1, <3>3, Zenon
      <4>2. servicesUp \in BOOLEAN /\ (servicesUp => There)
        BY DEF TypeOKServices, EarnedInv
      <4>3. QED
        BY <3>3, <4>1, <4>2, Zenon
    <3>4. QED
      BY <3>1, <3>2, <3>3, Zenon
  <2>8. TypeOKServices'
    BY <1>1, <2>3, <2>4, <2>7, Zenon DEF TypeOKServices
  <2>9. PhaseInv'
    <3>1. ~(requests' > 0)
      BY <1>1, <2>4 DEF PhaseInv
    <3>2. phase' # "idle" => pc' = "test" /\ hasServices'
      BY <1>2, <2>4 DEF PhaseInv
    <3>3. QED
      BY <1>4, <2>2, <2>4, <2>7, <3>1, <3>2, Zenon DEF PhaseInv
  <2>10. EarnedInv'
    BY <1>3, <2>2, <2>7, Zenon DEF EarnedInv
  <2>11. RefusedInv'
    BY <1>2, <2>7, Zenon DEF RefusedInv
  <2>12. QED
    BY <1>2, <2>8, <2>9, <2>10, <2>11
<1>7. QED
  BY <1>5, <1>6

\* The test: it calls addClient() or registerUser(), and wait_for_port()
\* returns.
LEMMA StepTest ==
    ASSUME ServicesInvariant, TestRuns \/ TestAddsClient
    PROVE  ServicesInvariant'
<1> USE DEF ServicesInvariant
<1>1. Next /\ phase = "idle"
  BY DEF TestRuns, TestAddsClient, Next, Idle
<1>2. IInv' /\ SetUpInv'
  BY <1>1, StepIInv, StepSetUp
<1>3. inbox = <<>> /\ session = "none" /\ ~(requests > 0) /\ requests \in Nat
  BY <1>1 DEF PhaseInv, TypeOKServices
<1>4. CASE TestAddsClient
  <2>1. TestWaitsForPort /\ outcome' = "" /\ purpose' \in {"addClient", "registerUser"}
    BY <1>4 DEF TestAddsClient
  <2>2. UNCHANGED <<hasServices, leader>>
    BY <2>1 DEF TestWaitsForPort, osVars
  <2>3. UNCHANGED <<phase, client, servicesUp, asked, linked, session, inbox, requests, lost>>
    BY <1>4 DEF TestAddsClient, netVars
  <2>4. TypeOKServices'
    BY <2>1, <2>3, Zenon DEF TypeOKServices
  <2>5. PhaseInv' /\ EarnedInv' /\ RefusedInv'
    BY <1>1, <2>1, <2>2, <2>3 DEF PhaseInv, EarnedInv, RefusedInv, There, Gone, Runs
  <2>6. QED
    BY <1>2, <2>4, <2>5
<1>5. CASE TestRuns /\ ~PortIsReady
  BY <1>1, <1>5, StepProcesses DEF TestRuns
<1>6. CASE TestRuns /\ PortIsReady
  <2>1. WaitReturns /\ after = "test" /\ runServices
    BY <1>6 DEF TestRuns, Test, PortIsReady, GetPorts, RunRefuses, CreateConfig, ExecuteServer,
       RunServicesController, ServicesRefuse, CheckIsAlive, Connects, ConnectionRefused,
       SendsChkport, ReadsOther, SendsBlank, PortIsOpen,
       SendTerm, LeaderWaitedFor, EscalateToKill, KillExpires, ReleasePorts,
       RemoveDirectory, RemoveDirectoryFails
  <2>2. pc' = "test" /\ UNCHANGED <<hasServices, leader>>
    BY <2>1 DEF WaitReturns, ctlVars, osVars
  <2>3. hasServices
    BY <2>1 DEF WaitReturns, SetUpInv, Waiting
  <2>4. linked' = linked /\ session' = "none" /\ requests' = 0 /\ inbox' = inbox
    <3>1. linked => Runs("server")' /\ Runs("services")'
      BY <2>2 DEF PhaseInv, Runs
    <3>2. linked' = linked
      BY <1>6, <3>1 DEF TestRuns, ConnectionsEnd, TypeOKServices
    <3>3. requests = 0
      BY <1>3
    <3>4. requests' = 0 /\ session' = "none" /\ inbox' = inbox
      BY <1>3, <1>6, <3>3 DEF TestRuns, ConnectionsEnd
    <3>5. QED
      BY <3>2, <3>4
  <2>5. lost' \in BOOLEAN
    BY <1>6 DEF TestRuns, ConnectionsEnd, TypeOKServices
  <2>6. UNCHANGED <<purpose, servicesUp, asked>>
    BY <1>6 DEF TestRuns
  <2>7. /\ phase' \in {"idle", "connect"}
        /\ client' \in {"chkNS", "user"}
        /\ outcome' = outcome \/ outcome' = "done"
        /\ client' = "user" /\ phase' # "idle" => servicesUp
    <3>1. CASE servicesUp
      BY <1>6, <3>1 DEF TestRuns, ServicesKnown, ClientIsAdded, TypeOKServices
    <3>2. CASE ~servicesUp
      BY <1>6, <3>2 DEF TestRuns, ServicesKnown
    <3>3. QED
      BY <3>1, <3>2
  <2>8. TypeOKServices'
    <3>1. requests' \in Nat
      BY <2>4
    <3>2. QED
      BY <2>4, <2>5, <2>6, <2>7, <3>1, Zenon DEF TypeOKServices
  <2>9. \A l : ~Has(inbox', l)
    BY <1>3, <2>4, HasNothing
  <2>10. There' <=> There
    BY <2>2, <2>4 DEF There, Gone, Runs
  <2>11. inbox' = <<>> /\ ~(requests' > 0)
    BY <1>3, <2>4
  <2>12. linked' => Runs("server")' /\ Runs("services")' /\ hasServices'
    BY <2>2, <2>4 DEF PhaseInv, Runs
  <2>13. PhaseInv'
    BY <2>2, <2>3, <2>4, <2>7, <2>9, <2>11, <2>12, Zenon DEF PhaseInv
  <2>14. EarnedInv'
    BY <2>6, <2>7, <2>9, <2>10 DEF EarnedInv
  <2>15. RefusedInv'
    BY <2>2, <2>7 DEF RefusedInv, Gone, Runs
  <2>16. QED
    BY <1>2, <2>8, <2>13, <2>14, <2>15
<1>7. QED
  BY <1>4, <1>5, <1>6

\* Every step preserves the invariant.
LEMMA StepServicesInvariant ==
    ServicesInvariant /\ [NextServices]_servicesVars => ServicesInvariant'
<1> SUFFICES ASSUME ServicesInvariant, [NextServices]_servicesVars PROVE ServicesInvariant'
  OBVIOUS
<1>1. CASE ProcessRuns
  <2>1. Next /\ ConnectionsEnd /\ UNCHANGED <<phase, client, servicesUp, outcome, asked, purpose>>
    BY <1>1 DEF ProcessRuns, Next, clientVars
  <2>2. pc' = pc
    BY <1>1 DEF ProcessRuns, Processes, LeaderListens, LeaderObeys, LeaderCrashes, LeaderExits,
       HelperObeys, LeaderForks, testVars
  <2>3. QED
    BY <2>1, <2>2, StepProcesses
<1>2. CASE TestRuns \/ TestAddsClient
  BY <1>2, StepTest
<1>3. CASE TestChooses
  <2>1. Next /\ ConnectionsEnd /\ UNCHANGED <<phase, client, servicesUp, outcome, asked, purpose>>
    BY <1>3 DEF TestChooses, Next, clientVars
  <2>2. phase = "idle"
    BY <1>3 DEF TestChooses, Idle
  <2>3. QED
    BY <2>1, <2>2, StepProcesses
<1>4. CASE ServerAnswers \/ ServicesLink \/ NickServAnswers \/ ServerNotifies
  BY <1>4, StepServer
<1>5. CASE ClientStep
  <2>1. CASE ConnectRefused \/ ClientMeetsEnd
    <3>1. CallRaises("raised")
      BY <2>1, Zenon DEF ConnectRefused, ClientMeetsEnd
    <3>2. QED
      BY <3>1, StepRaises
  <2>2. CASE ~ConnectRefused /\ ~ClientMeetsEnd
    BY <1>5, <2>2, StepBurst, StepAsks, StepLeaves, Zenon DEF ClientStep
  <2>3. QED
    BY <2>1, <2>2
<1>6. CASE UNCHANGED servicesVars
  <2>1. /\ UNCHANGED <<vars, phase, client, purpose, servicesUp, asked, outcome>>
        /\ UNCHANGED <<linked, session, inbox, requests, lost>>
    BY <1>6 DEF servicesVars, clientVars, netVars
  <2>2. /\ IInv' /\ SetUpInv' /\ (Gone' <=> Gone) /\ pc' = pc /\ hasServices' = hasServices
        /\ \A g \in Group : Runs(g)' <=> Runs(g)
    BY <2>1, StepAlone
  <2>3. TypeOKServices'
    BY ZenonT(30), <2>1 DEF ServicesInvariant, TypeOKServices
  <2>4. PhaseInv' /\ EarnedInv' /\ RefusedInv'
    BY <2>1, <2>2 DEF ServicesInvariant, PhaseInv, EarnedInv, RefusedInv, There, Group
  <2>5. QED
    BY <2>2, <2>3, <2>4 DEF ServicesInvariant
<1>7. QED
  BY <1>1, <1>2, <1>3, <1>4, <1>5, <1>6 DEF NextServices

LEMMA ServicesInvariantHolds == SpecServices => []ServicesInvariant
  BY InitServicesInvariant, StepServicesInvariant, PTL DEF SpecServices

-----------------------------------------------------------------------------

\* The variables have their types; wait_for_services() asks NickServ at most
\* as often as its 10 seconds allow, whatever it is answered in between.
THEOREM ServicesTypeCorrect == SpecServices => []TypeOKServices
<1>1. ServicesInvariant => TypeOKServices
  BY DEF ServicesInvariant
<1>2. QED
  BY <1>1, ServicesInvariantHolds, PTL

\* services_up is true only of services that linked, and that are linked
\* unless a process ended: no line of the server, and no answer that came too
\* late, is taken for NickServ's.
THEOREM ServicesUpIsJustified == SpecServices => []ServicesUpIsCurrent
<1>1. ServicesInvariant => ServicesUpIsCurrent
  BY DEF ServicesInvariant, EarnedInv, There, Gone, ServicesUpIsCurrent
<1>2. QED
  BY <1>1, ServicesInvariantHolds, PTL

\* Unless the server itself notifies the client, registerUser() finds NickServ
\* wherever wait_for_services() had found it: it fails only after a crash.
THEOREM RegistrationRefusedOnlyAfterCrash ==
    ASSUME "user" \notin Notified
    PROVE  SpecServices => []RefusedOnlyIfGone
<1>1. ServicesInvariant => RefusedOnlyIfGone
  BY DEF ServicesInvariant, RefusedInv, Gone, RefusedOnlyIfGone
<1>2. QED
  BY <1>1, ServicesInvariantHolds, PTL

-----------------------------------------------------------------------------
(* How long wait_for_services() and registerUser() can take: every step of a *)
(* client shortens what is left, and who waits is answered, or lost.         *)

\* What is left of what the client does, after so many requests; each request
\* for help costs three steps, that of NickServ included.
PhaseLeft(p, tried) ==
    CASE p = "connect"  -> 14 + 3 * MaxAsks
      [] p = "burst"    -> 6 + 3 * MaxAsks
      [] p = "ask"      -> 5 + 3 * (MaxAsks - tried)
      [] p = "reply"    -> 3 + 3 * (MaxAsks - tried)
      [] p = "quit"     -> 2
      [] p = "quitting" -> 1
      [] OTHER -> 0

\* What is left of what the server does for its connection.
SessionLeft(s) ==
    CASE s = "new" -> 7 [] s = "pinged" -> 5 [] s = "ponged" -> 5 [] s = "up" -> 2
      [] s = "leaving" -> 1 [] OTHER -> 0

\* The lines it still reads: of the burst up to the end of the MOTD, and one
\* that it waits for after its request.
LinesLeft(p, ms) ==
    CASE p = "burst" /\ ms # <<>> -> (IF ms[1] = "001" THEN 2 ELSE 1)
      [] p = "reply" /\ ms = <<>> -> 1
      [] OTHER -> 0

Awaits == phase = "reply" /\ inbox = <<>>

ClientLeft(p, tried, s, ms) == PhaseLeft(p, tried) + SessionLeft(s) + LinesLeft(p, ms)

MostOfClient == 23 + 3 * MaxAsks

\* After wait_for_services() may come the client of registerUser().
LaterLeft(c) == IF c = "chkNS" THEN 1 + MostOfClient ELSE 0

CallLeft ==
    IF phase = "idle" THEN 0
    ELSE ClientLeft(phase, asked, session, inbox) + LaterLeft(client)

\* The steps that bring a call nearer to its end.
CallSteps == ClientStep \/ ServerAnswers \/ (Awaits /\ NickServAnswers)

CallShrinks ==
    phase # "idle" => /\ CallLeft \in 1..(1 + 2 * MostOfClient)
                      /\ CallSteps => CallLeft' < CallLeft
                      /\ CallLeft' <= CallLeft

\* A server welcomes a client with an 001, and ends its MOTD with a 376, before
\* anything else; chkNS may have read the first already.
Welcome ==
    \/ Len(inbox) >= 2 /\ inbox[1] = "001" /\ inbox[2] = "376"
    \/ Len(inbox) >= 1 /\ inbox[1] = "376" /\ client = "chkNS"

BurstInv ==
    phase = "burst" =>
        \/ session \in {"new", "ponged"} /\ inbox = <<>>
        \/ session = "pinged" /\ inbox = <<"PING">>
        \/ session = "up" /\ Welcome
        \/ session = "closed" /\ (inbox = <<>> \/ inbox = <<"PING">> \/ Welcome)

\* The request of registerUser() is with NickServ until it is answered.
WaitingInv ==
    /\ session \in {"new", "pinged", "ponged"} => phase = "burst"
    /\ phase \in {"ask", "reply", "quit"} => session \in {"up", "closed"}
    /\ phase = "quitting" => session \in {"leaving", "closed"}
    /\ Awaits /\ client = "user" /\ session = "up" /\ ~lost => linked /\ requests > 0

\* The guards of ClientStep, of ServerAnswers, and of NickServAnswers.
ClientCanStep ==
    \/ phase \in {"connect", "ask", "quit"}
    \/ phase = "burst" /\ (inbox # <<>> \/ session = "closed")
    \/ phase = "reply" /\ (inbox # <<>> \/ session = "closed" \/ (client = "chkNS" /\ session = "up"))
    \/ phase = "quitting" /\ session = "closed"
ServerCanAnswer == session \in {"new", "ponged", "leaving"}
NickServCanAnswer == linked /\ requests > 0

\* wait_for_services() never waits for NickServ, and registerUser() does not
\* wait in vain, unless its request was lost.
CallCanMove ==
    phase # "idle" =>
        \/ ClientCanStep \/ ServerCanAnswer
        \/ client = "user" /\ Awaits /\ (NickServCanAnswer \/ lost)

\* A line appended changes nothing before it.
LEMMA AppendKeeps ==
    ASSUME NEW s \in Seq(Lines), NEW x \in Lines, s # <<>>
    PROVE  /\ s \o <<x>> # <<>> /\ Len(s \o <<x>>) = Len(s) + 1 /\ Len(s) \in Nat /\ Len(s) >= 1
           /\ (s \o <<x>>)[1] = s[1]
           /\ Len(s) >= 2 => (s \o <<x>>)[2] = s[2]
  OBVIOUS

\* Who reads a line of the burst without the end of the MOTD is left with it.
LEMMA ReadsWelcome ==
    ASSUME NEW s \in Seq(Lines), Len(s) >= 2, s[1] = "001", s[2] = "376",
           NEW n \in DOMAIN s, ~Has(SubSeq(s, 1, n), "376")
    PROVE  LET t == SubSeq(s, n + 1, Len(s)) IN Len(t) >= 1 /\ t # <<>> /\ t[1] = "376"
<1>1. DOMAIN s = 1..Len(s) /\ Len(s) \in Nat /\ n \in 1..Len(s)
  OBVIOUS
<1>2. DOMAIN SubSeq(s, 1, n) = 1..n /\ \A i \in 1..n : SubSeq(s, 1, n)[i] = s[i]
  BY <1>1
<1>3. n = 1
  <2>1. SUFFICES ASSUME n >= 2 PROVE FALSE
    BY <1>1
  <2>2. 2 \in DOMAIN SubSeq(s, 1, n) /\ SubSeq(s, 1, n)[2] = "376"  BY <1>1, <1>2, <2>1
  <2> QED  BY <2>2 DEF Has
<1>4. Len(SubSeq(s, 2, Len(s))) = Len(s) - 1 /\ SubSeq(s, 2, Len(s))[1] = s[2]
  BY <1>1
<1> QED  BY <1>1, <1>3, <1>4

\* In one line there is no other.
LEMMA HasOne ==
    ASSUME NEW s, NEW x, NEW l, DOMAIN s = 1..1, s[1] = x, Has(s, l)
    PROVE  x = l
<1>1. PICK i \in 1..1 : s[i] = l  BY DEF Has
<1>2. i = 1  OBVIOUS
<1> QED  BY <1>1, <1>2

\* A first line that is there is read.
LEMMA FirstIsRead ==
    ASSUME NEW s \in Seq(Lines), NEW n \in DOMAIN s
    PROVE  Has(SubSeq(s, 1, n), s[1])
<1>1. DOMAIN s = 1..Len(s) /\ Len(s) \in Nat /\ n \in 1..Len(s)
  OBVIOUS
<1>2. DOMAIN SubSeq(s, 1, n) = 1..n /\ SubSeq(s, 1, n)[1] = s[1] /\ 1 \in 1..n
  BY <1>1
<1> QED  BY <1>2 DEF Has

\* In the burst, a client that finds lines finds a PING or the welcome; and
\* what it makes of them is one of these.
BurstIsRead ==
    /\ phase = "burst" /\ inbox # <<>> /\ UNCHANGED <<client, linked, requests, lost>>
    /\ session' = session \/ (session = "pinged" /\ session' = "ponged")
    /\ \/ phase' = "ask" /\ session' = session /\ session \in {"up", "closed"} /\ asked' \in 0..MaxAsks
       \/ /\ phase' = "burst" /\ inbox = <<"PING">> /\ inbox' = <<>> /\ asked' \in 0..MaxAsks
          /\ session = "pinged" => session' = "ponged"
       \/ /\ phase' = "burst" /\ client = "chkNS" /\ inbox[1] = "001" /\ Len(inbox') >= 1
          /\ inbox' # <<>> /\ inbox'[1] = "376" /\ session' = session
          /\ session \in {"up", "closed"}

LEMMA ReadsBurst ==
    ASSUME ServicesInvariant, BurstInv, ChkReadsBurst \/ UserReadsBurst
    PROVE  BurstIsRead
<1>1. inbox \in Seq(Lines) /\ asked \in 0..MaxAsks /\ 0 \in 0..MaxAsks
  <2>1. 0 \in 0..MaxAsks  BY ServicesAssumption
  <2> QED  BY <2>1 DEF ServicesInvariant, TypeOKServices
<1>2. phase = "burst" /\ UNCHANGED <<client, linked, requests, lost>>
  BY Zenon DEF ChkReadsBurst, UserReadsBurst
<1>3. \/ session \in {"new", "ponged"} /\ inbox = <<>>
      \/ session = "pinged" /\ inbox = <<"PING">>
      \/ session \in {"up", "closed"} /\ Welcome
      \/ session = "closed" /\ (inbox = <<>> \/ inbox = <<"PING">>)
  BY <1>2 DEF BurstInv
<1>4. CASE ChkReadsBurst
  <2>1. PICK n \in DOMAIN inbox :
           /\ inbox' = SubSeq(inbox, n + 1, Len(inbox))
           /\ session' = Ponged(SubSeq(inbox, 1, n))
           /\ phase' = IF Has(SubSeq(inbox, 1, n), "376") THEN "ask" ELSE "burst"
    BY <1>4, Zenon DEF ChkReadsBurst, ChkAnswersPing
  <2>2. client = "chkNS" /\ asked' = 0  BY <1>4, Zenon DEF ChkReadsBurst
  <2>3. inbox # <<>> /\ (session' = session \/ (session = "pinged" /\ session' = "ponged"))
    BY <2>1 DEF Ponged
  <2>4. CASE inbox = <<"PING">>
    <3>1. n = 1 /\ inbox' = <<>>  BY <1>1, <2>1, <2>4
    <3>2. Has(SubSeq(inbox, 1, n), "PING")  BY <1>1, <2>4, FirstIsRead
    <3>3. ~Has(SubSeq(inbox, 1, n), "376")
      <4>1. Len(inbox) = 1 /\ inbox[1] = "PING"  BY <2>4
      <4>2. DOMAIN SubSeq(inbox, 1, n) = 1..1 /\ SubSeq(inbox, 1, n)[1] = "PING" /\ "PING" # "376"
        BY <1>1, <3>1, <4>1
      <4> QED  BY <4>2, HasOne
    <3>4. phase' = "burst" /\ (session = "pinged" => session' = "ponged")
      BY <2>1, <3>2, <3>3 DEF Ponged
    <3> QED  BY <1>1, <1>2, <2>2, <2>3, <2>4, <3>1, <3>4 DEF BurstIsRead
  <2>5. CASE session \in {"up", "closed"} /\ Welcome
    <3>1. session' = session  BY <2>3, <2>5
    <3>2. CASE Has(SubSeq(inbox, 1, n), "376")
      BY <1>1, <1>2, <2>1, <2>2, <2>3, <2>5, <3>1, <3>2 DEF BurstIsRead
    <3>3. CASE ~Has(SubSeq(inbox, 1, n), "376")
      <4>1. inbox[1] # "376"  BY <1>1, <3>3, FirstIsRead
      <4>2. Len(inbox) >= 2 /\ inbox[1] = "001" /\ inbox[2] = "376"  BY <2>5, <4>1 DEF Welcome
      <4>3. Len(inbox') >= 1 /\ inbox' # <<>> /\ inbox'[1] = "376"
        BY <1>1, <2>1, <3>3, <4>2, ReadsWelcome
      <4> QED  BY <1>2, <2>1, <2>2, <2>3, <2>5, <3>1, <3>3, <4>2, <4>3 DEF BurstIsRead
    <3> QED  BY <3>2, <3>3
  <2> QED  BY <1>3, <2>3, <2>4, <2>5
<1>5. CASE UserReadsBurst
  <2>1. /\ client = "user" /\ asked' = asked /\ inbox # <<>> /\ inbox' = <<>>
        /\ session' = Ponged(inbox) /\ phase' = IF Has(inbox, "001") THEN "ask" ELSE "burst"
    BY <1>5, Zenon DEF UserReadsBurst, UserAnswersPing
  <2>2. session' = session \/ (session = "pinged" /\ session' = "ponged")
    BY <2>1, Zenon DEF Ponged
  <2>3. CASE inbox = <<"PING">>
    <3>1. Has(inbox, "PING") /\ ~Has(inbox, "001")  BY <2>3 DEF Has
    <3>2. phase' = "burst" /\ (session = "pinged" => session' = "ponged")
      BY <2>1, <3>1, Zenon DEF Ponged
    <3> QED  BY <1>1, <1>2, <2>1, <2>2, <2>3, <3>2 DEF BurstIsRead
  <2>4. CASE session \in {"up", "closed"} /\ Welcome
    <3>1. Len(inbox) >= 2 /\ inbox[1] = "001"  BY <2>1, <2>4 DEF Welcome
    <3>2. 1 \in DOMAIN inbox  BY <1>1, <3>1
    <3>3. Has(inbox, "001")  BY <3>1, <3>2 DEF Has
    <3>4. phase' = "ask" /\ session' = session  BY <2>1, <2>2, <2>4, <3>3
    <3> QED  BY <1>1, <1>2, <2>1, <2>4, <3>4 DEF BurstIsRead
  <2> QED  BY <1>3, <2>1, <2>3, <2>4
<1> QED  BY <1>4, <1>5

\* What the server or NickServ adds comes after the welcome.
LEMMA WelcomeKept ==
    ASSUME NEW x \in Lines, inbox \in Seq(Lines), inbox' = inbox \o <<x>>, client' = client, Welcome
    PROVE  Welcome' /\ inbox # <<>> /\ inbox' # <<>> /\ inbox'[1] = inbox[1]
<1>1. inbox # <<>>  BY DEF Welcome
<1>2. /\ inbox' # <<>> /\ Len(inbox') = Len(inbox) + 1 /\ Len(inbox) \in Nat /\ Len(inbox) >= 1
      /\ inbox'[1] = inbox[1]
      /\ Len(inbox) >= 2 => inbox'[2] = inbox[2]
  BY <1>1, AppendKeeps
<1>3. CASE Len(inbox) >= 2 /\ inbox[1] = "001" /\ inbox[2] = "376"
  BY <1>1, <1>2, <1>3 DEF Welcome
<1>4. CASE inbox[1] = "376" /\ client = "chkNS"
  BY <1>1, <1>2, <1>4 DEF Welcome
<1> QED  BY <1>3, <1>4 DEF Welcome

\* A process that ends closes connections, and takes requests with it.
LEMMA ConnectionsEndKeeps ==
    ASSUME TypeOKServices, BurstInv, WaitingInv, ConnectionsEnd, phase' = phase, client' = client
    PROVE  BurstInv' /\ WaitingInv'
<1>1. inbox' = inbox /\ (session' = session \/ (session # "none" /\ session' = "closed"))
  BY DEF ConnectionsEnd
<1>2. BurstInv'
  <2> SUFFICES ASSUME phase = "burst" PROVE BurstInv'
    BY DEF BurstInv
  <2>1. Welcome' <=> Welcome  BY <1>1 DEF Welcome
  <2> QED  BY <1>1, <2>1 DEF BurstInv
<1>3. client = "user" /\ ~lost' /\ linked /\ requests > 0 => linked' /\ requests' > 0
  BY DEF ConnectionsEnd, TypeOKServices
<1>4. lost => lost'  BY DEF ConnectionsEnd
<1>5. Awaits' <=> Awaits  BY <1>1 DEF Awaits
<1>6. WaitingInv'  BY <1>1, <1>3, <1>4, <1>5 DEF WaitingInv
<1> QED  BY <1>2, <1>6

\* Every step keeps what the clients rely on.
LEMMA StepWaiting ==
    ASSUME ServicesInvariant, BurstInv, WaitingInv, [NextServices]_servicesVars
    PROVE  BurstInv' /\ WaitingInv'
<1>1. TypeOKServices /\ PhaseInv  BY DEF ServicesInvariant
<1>2. inbox \in Seq(Lines) /\ requests \in Nat  BY <1>1 DEF TypeOKServices
<1>3. CASE ProcessRuns \/ TestChooses
  BY <1>1, <1>3, ConnectionsEndKeeps DEF ProcessRuns, TestChooses, clientVars
<1>4. CASE TestRuns
  <2>1. phase = "idle" /\ session = "none" /\ inbox = <<>>  BY <1>1, <1>4 DEF TestRuns, Idle, PhaseInv
  <2>2. phase' \in {"idle", "connect"}
    BY <1>4, <2>1 DEF TestRuns, ClientIsAdded
  <2>3. session' = "none"  BY <1>4, <2>1 DEF TestRuns, ConnectionsEnd
  <2> QED  BY <2>2, <2>3 DEF BurstInv, WaitingInv, Awaits
<1>5. CASE TestAddsClient
  BY <1>5 DEF TestAddsClient, netVars, BurstInv, WaitingInv, Awaits, Welcome
<1>6. CASE ServicesLink
  <2>1. linked' = TRUE /\ UNCHANGED <<phase, client, session, inbox, requests, lost>>
    BY <1>6 DEF ServicesLink, clientVars
  <2>2. Welcome' <=> Welcome  BY <2>1 DEF Welcome
  <2> QED  BY <2>1, <2>2 DEF BurstInv, WaitingInv, Awaits
<1>7. CASE ServerPings
  <2>1. phase = "burst" /\ inbox = <<>>  BY <1>7 DEF ServerPings, WaitingInv, BurstInv
  <2>2. inbox' = <<"PING">>  BY <1>7, <2>1 DEF ServerPings, Tells
  <2>3. session' = "pinged" /\ UNCHANGED <<phase, client>>  BY <1>7 DEF ServerPings, clientVars
  <2> QED  BY <2>1, <2>2, <2>3 DEF BurstInv, WaitingInv, Awaits
<1>8. CASE ServerWelcomes
  <2>1. phase = "burst" /\ inbox = <<>>  BY <1>8 DEF ServerWelcomes, WaitingInv, BurstInv
  <2>2. inbox' = <<"001", "376">>  BY <1>8, <2>1 DEF ServerWelcomes, Tells
  <2>3. session' = "up" /\ UNCHANGED <<phase, client>>  BY <1>8 DEF ServerWelcomes, clientVars
  <2>4. Welcome'  BY <2>2 DEF Welcome
  <2> QED  BY <2>1, <2>3, <2>4 DEF BurstInv, WaitingInv, Awaits
<1>9. CASE ServerHandlesQuit
  <2>1. phase = "quitting"  BY <1>1, <1>9 DEF ServerHandlesQuit, PhaseInv
  <2>2. session' = "closed" /\ UNCHANGED <<phase, client>>  BY <1>9 DEF ServerHandlesQuit, clientVars
  <2> QED  BY <2>1, <2>2 DEF BurstInv, WaitingInv, Awaits
<1>10. ASSUME NEW x \in Lines, inbox' = inbox \o <<x>>, session \in {"up", "leaving"},
              UNCHANGED <<phase, client, session>>
       PROVE  BurstInv' /\ WaitingInv'
  <2>1. inbox' # <<>>  BY <1>2, <1>10
  <2>2. phase = "burst" => session = "up" /\ Welcome'
    BY <1>2, <1>10, WelcomeKept DEF BurstInv
  <2> QED  BY <1>10, <2>1, <2>2 DEF BurstInv, WaitingInv, Awaits
<1>11. CASE NickServAnswers
  <2>1. session \in {"up", "leaving"}  BY <1>1, <1>11 DEF NickServAnswers, PhaseInv
  <2>2. inbox' = inbox \o <<"NOTICE">> /\ UNCHANGED <<phase, client, session>>
    BY <1>11 DEF NickServAnswers, Tells, clientVars
  <2> QED  BY <1>10, <2>1, <2>2 DEF Lines
<1>12. CASE ServerNotifies
  <2>1. session = "up" /\ UNCHANGED <<phase, client, session>>
    BY <1>12 DEF ServerNotifies, clientVars
  <2>2. PICK x \in Notifications : inbox' = inbox \o <<x>>  BY <1>12 DEF ServerNotifies, Tells
  <2> QED  BY <1>10, <2>1, <2>2 DEF Lines
<1>13. CASE ClientConnects
  <2>1. phase' = "burst" /\ session' = "new" /\ inbox' = <<>>  BY <1>13 DEF ClientConnects
  <2> QED  BY <2>1 DEF BurstInv, WaitingInv, Awaits
<1>14. ASSUME NEW why, CallRaises(why) PROVE BurstInv' /\ WaitingInv'
  <2>1. phase' = "idle" /\ session' = "none"  BY <1>14 DEF CallRaises
  <2> QED  BY <2>1 DEF BurstInv, WaitingInv, Awaits
<1>15. CASE ChkReadsBurst \/ UserReadsBurst
  <2>1. BurstIsRead  BY <1>15, ReadsBurst
  <2>2. CASE phase' = "ask"  BY <2>1, <2>2 DEF BurstIsRead, BurstInv, WaitingInv, Awaits
  <2>3. CASE phase' = "burst" /\ inbox = <<"PING">> /\ inbox' = <<>>
    <3>1. ~Welcome  BY <2>3 DEF Welcome
    <3>2. session \in {"pinged", "closed"} /\ session' \in {"ponged", "closed"}
      BY <2>1, <2>3, <3>1 DEF BurstIsRead, BurstInv
    <3> QED  BY <2>3, <3>2 DEF BurstInv, WaitingInv, Awaits
  <2>4. CASE phase' = "burst" /\ Len(inbox') >= 1 /\ inbox'[1] = "376" /\ client = "chkNS"
             /\ session' = session /\ session \in {"up", "closed"}
    <3>1. Welcome'  BY <2>1, <2>4 DEF BurstIsRead, Welcome
    <3> QED  BY <2>4, <3>1 DEF BurstInv, WaitingInv, Awaits
  <2> QED  BY <2>1, <2>2, <2>3, <2>4 DEF BurstIsRead
<1>16. CASE Asks
  <2>1. phase = "ask" /\ phase' = "reply" /\ UNCHANGED <<client, session, linked, lost>>
    BY <1>16, Zenon DEF Asks
  <2>2. session = "up" /\ linked => requests' = requests + 1  BY <1>16 DEF Asks
  <2>3. session = "up" /\ ~linked => inbox' # <<>>
    BY <1>2, <1>16, HasAppended DEF Asks, Tells, Lines
  <2> QED  BY <1>2, <2>1, <2>2, <2>3 DEF BurstInv, WaitingInv, Awaits
<1>17. CASE ChkReadsAnswer
  <2>1. CASE CallRaises("timeout")  BY <1>14, <2>1
  <2>2. CASE ~CallRaises("timeout")
    <3>1. phase = "reply" /\ phase' \in {"quit", "ask"} /\ session' = session
      BY <1>17, <2>2 DEF ChkReadsAnswer
    <3> QED  BY <3>1 DEF BurstInv, WaitingInv, Awaits
  <2> QED  BY <2>1, <2>2
<1>18. CASE UserReadsAnswer
  <2>1. CASE CallRaises("refused")  BY <1>14, <2>1
  <2>2. CASE ~CallRaises("refused")
    <3>1. phase = "reply" /\ phase' = "quit" /\ session' = session
      BY <1>18, <2>2 DEF UserReadsAnswer
    <3> QED  BY <3>1 DEF BurstInv, WaitingInv, Awaits
  <2> QED  BY <2>1, <2>2
<1>19. CASE SendsQuit
  BY <1>19 DEF SendsQuit, BurstInv, WaitingInv, Awaits
<1>20. CASE ClientLeaves
  BY <1>20 DEF ClientLeaves, ClientIsAdded, BurstInv, WaitingInv, Awaits
<1>21. CASE ConnectRefused \/ ClientMeetsEnd
  BY <1>14, <1>21, Zenon DEF ConnectRefused, ClientMeetsEnd
<1>22. CASE UNCHANGED servicesVars
  <2>1. UNCHANGED <<phase, client, session, inbox, linked, requests, lost>>
    BY <1>22 DEF servicesVars, clientVars, netVars
  <2> QED  BY <2>1 DEF BurstInv, WaitingInv, Awaits, Welcome
<1> QED
  BY <1>3, <1>4, <1>5, <1>6, <1>7, <1>8, <1>9, <1>11, <1>12, <1>13, <1>15, <1>16, <1>17, <1>18, <1>19, <1>20, <1>21, <1>22, Zenon DEF NextServices, ClientStep, ServerAnswers

-----------------------------------------------------------------------------

LEMMA MostIsNat == MaxAsks \in Nat /\ MostOfClient \in Nat
<1>1. MaxAsks \in Nat  BY ServicesAssumption
<1> QED  BY <1>1 DEF MostOfClient

\* What is left is counted by natural numbers.
LEMMA ClientIsCounted ==
    ASSUME NEW p \in {"idle", "connect", "burst", "ask", "reply", "quit", "quitting"},
           NEW a \in 0..MaxAsks, NEW s, NEW ms
    PROVE  /\ PhaseLeft(p, a) \in 0..(14 + 3 * MaxAsks)
           /\ SessionLeft(s) \in 0..7 /\ LinesLeft(p, ms) \in 0..2
           /\ ClientLeft(p, a, s, ms) \in 0..MostOfClient
           /\ p # "idle" => ClientLeft(p, a, s, ms) >= 1
<1>1. MaxAsks \in Nat  BY MostIsNat
<1>2. PhaseLeft(p, a) \in 0..(14 + 3 * MaxAsks) /\ (p # "idle" => PhaseLeft(p, a) >= 1)
  BY <1>1 DEF PhaseLeft
<1>3. SessionLeft(s) \in 0..7 /\ LinesLeft(p, ms) \in 0..2
  BY DEF SessionLeft, LinesLeft
<1> QED  BY <1>1, <1>2, <1>3 DEF ClientLeft, MostOfClient

CallTyped ==
    /\ phase \in {"idle", "connect", "burst", "ask", "reply", "quit", "quitting"}
    /\ asked \in 0..MaxAsks

LEMMA CallIsTyped == TypeOKServices => CallTyped
  BY Zenon DEF TypeOKServices, CallTyped

LEMMA CallStaysTyped == TypeOKServices' => CallTyped'
  BY CallIsTyped, PTL

CallCounted == CallLeft \in 0..(1 + 2 * MostOfClient) /\ (phase # "idle" => CallLeft >= 1)

LEMMA CallIsCounted == CallTyped => CallCounted
<1> SUFFICES ASSUME CallTyped PROVE CallCounted
  OBVIOUS
<1>1. /\ ClientLeft(phase, asked, session, inbox) \in 0..MostOfClient /\ MostOfClient \in Nat
      /\ phase # "idle" => ClientLeft(phase, asked, session, inbox) >= 1
  BY ClientIsCounted, MostIsNat DEF CallTyped
<1> QED  BY <1>1 DEF CallCounted, CallLeft, LaterLeft

LEMMA CallStaysCounted == CallTyped' => CallCounted'
  BY CallIsCounted, PTL

\* Who shortens the work of a client shortens the call.
LEMMA ClientIsPartOfCall ==
    ASSUME CallTyped, CallTyped', client' = client, phase # "idle"
    PROVE  /\ ClientLeft(phase', asked', session', inbox') < ClientLeft(phase, asked, session, inbox)
              => CallLeft' < CallLeft
           /\ ClientLeft(phase', asked', session', inbox') <= ClientLeft(phase, asked, session, inbox)
              => CallLeft' <= CallLeft
<1>1. /\ ClientLeft(phase, asked, session, inbox) \in 0..MostOfClient
      /\ ClientLeft(phase', asked', session', inbox') \in 0..MostOfClient
      /\ ClientLeft(phase, asked, session, inbox) >= 1
      /\ MostOfClient \in Nat
  BY ClientIsCounted, MostIsNat DEF CallTyped
<1> QED  BY <1>1 DEF CallLeft, LaterLeft

\* A client that reads its burst has fewer lines left, or asks.
LEMMA BurstShortens ==
    ASSUME BurstIsRead
    PROVE  ClientLeft(phase', asked', session', inbox') < ClientLeft(phase, asked, session, inbox)
<1>1. MaxAsks \in Nat  BY MostIsNat
<1>2. phase = "burst" /\ inbox # <<>> /\ (session' = session \/ (session = "pinged" /\ session' = "ponged"))
  BY DEF BurstIsRead
<1>3. SessionLeft(session') = SessionLeft(session) /\ SessionLeft(session) \in 0..7
  BY <1>2 DEF SessionLeft
<1>4. PhaseLeft(phase, asked) = 6 + 3 * MaxAsks /\ LinesLeft(phase, inbox) \in {1, 2}
  BY <1>2 DEF PhaseLeft, LinesLeft
<1>5. CASE phase' = "ask"
  <2>1. asked' \in 0..MaxAsks  BY <1>5 DEF BurstIsRead
  <2>2. PhaseLeft(phase', asked') = 5 + 3 * (MaxAsks - asked') /\ LinesLeft(phase', inbox') = 0
    BY <1>5 DEF PhaseLeft, LinesLeft
  <2> QED  BY <1>1, <1>3, <1>4, <2>1, <2>2 DEF ClientLeft
<1>6. CASE phase' = "burst" /\ inbox' = <<>>
  <2>1. PhaseLeft(phase', asked') = 6 + 3 * MaxAsks /\ LinesLeft(phase', inbox') = 0
    BY <1>6 DEF PhaseLeft, LinesLeft
  <2> QED  BY <1>1, <1>3, <1>4, <2>1 DEF ClientLeft
<1>7. CASE phase' = "burst" /\ inbox[1] = "001" /\ inbox' # <<>> /\ inbox'[1] = "376"
  <2>1. PhaseLeft(phase', asked') = 6 + 3 * MaxAsks /\ LinesLeft(phase', inbox') = 1
    BY <1>7 DEF PhaseLeft, LinesLeft
  <2>2. LinesLeft(phase, inbox) = 2  BY <1>2, <1>7 DEF LinesLeft
  <2> QED  BY <1>1, <1>3, <1>4, <2>1, <2>2 DEF ClientLeft
<1> QED  BY <1>5, <1>6, <1>7 DEF BurstIsRead

\* Each step of a client shortens its call.
LEMMA ClientShortens ==
    ASSUME ServicesInvariant, CallTyped, CallTyped', BurstInv, WaitingInv, ClientStep
    PROVE  phase # "idle" /\ CallLeft' < CallLeft
<1>1. MaxAsks \in Nat /\ MostOfClient \in Nat /\ asked \in 0..MaxAsks
  BY MostIsNat DEF CallTyped
<1>2. PhaseInv  BY DEF ServicesInvariant
<1>3. /\ ClientLeft(phase, asked, session, inbox) \in 0..MostOfClient
      /\ SessionLeft(session) \in 0..7 /\ LinesLeft(phase, inbox) \in 0..2
      /\ phase # "idle" => ClientLeft(phase, asked, session, inbox) >= 1
  BY ClientIsCounted DEF CallTyped
<1>4. ASSUME phase # "idle", phase' = "idle" PROVE CallLeft' < CallLeft
  <2>1. CallLeft' = 0  BY <1>4 DEF CallLeft
  <2>2. CallLeft >= 1 /\ CallLeft \in 0..(1 + 2 * MostOfClient)  BY <1>4, CallIsCounted DEF CallCounted
  <2> QED  BY <1>1, <2>1, <2>2
<1>5. ASSUME phase # "idle", client' = client,
             ClientLeft(phase', asked', session', inbox') < ClientLeft(phase, asked, session, inbox)
      PROVE  CallLeft' < CallLeft
  BY <1>5, ClientIsPartOfCall
<1>6. CASE ClientConnects
  <2>1. phase = "connect" /\ phase' = "burst" /\ session' = "new" /\ inbox' = <<>> /\ client' = client
    BY <1>6, Zenon DEF ClientConnects
  <2>2. /\ PhaseLeft(phase, asked) = 14 + 3 * MaxAsks /\ PhaseLeft(phase', asked') = 6 + 3 * MaxAsks
        /\ SessionLeft(session') = 7 /\ LinesLeft(phase', inbox') = 0
    BY <2>1 DEF PhaseLeft, SessionLeft, LinesLeft
  <2>3. ClientLeft(phase', asked', session', inbox') < ClientLeft(phase, asked, session, inbox)
    BY <1>1, <1>3, <2>2 DEF ClientLeft
  <2> QED  BY <1>5, <2>1, <2>3
<1>7. ASSUME NEW why, CallRaises(why), phase # "idle" PROVE CallLeft' < CallLeft
  BY <1>4, <1>7 DEF CallRaises
<1>8. CASE ConnectRefused \/ ClientMeetsEnd
  <2>1. phase # "idle" /\ CallRaises("raised")
    BY <1>8, Zenon DEF ConnectRefused, ClientMeetsEnd
  <2> QED  BY <1>7, <2>1
<1>9. CASE ChkReadsBurst \/ UserReadsBurst
  <2>1. BurstIsRead  BY <1>9, ReadsBurst
  <2> QED  BY <1>5, <2>1, BurstShortens DEF BurstIsRead
<1>10. CASE Asks
  <2>1. /\ phase = "ask" /\ phase' = "reply"
        /\ client' = client /\ session' = session /\ asked' = asked
    BY <1>10, Zenon DEF Asks
  <2>2. /\ PhaseLeft(phase, asked) = 5 + 3 * (MaxAsks - asked)
        /\ PhaseLeft(phase', asked') = 3 + 3 * (MaxAsks - asked)
        /\ LinesLeft(phase', inbox') \in 0..1 /\ LinesLeft(phase, inbox) = 0
    BY <2>1 DEF PhaseLeft, LinesLeft
  <2>3. ClientLeft(phase', asked', session', inbox') < ClientLeft(phase, asked, session, inbox)
    BY <1>1, <1>3, <2>1, <2>2 DEF ClientLeft
  <2> QED  BY <1>5, <2>1, <2>3
<1>11. CASE ChkReadsAnswer
  <2>1. phase = "reply" /\ client = "chkNS"  BY <1>11, Zenon DEF ChkReadsAnswer
  <2>2. CASE CallRaises("timeout")  BY <1>7, <2>1, <2>2
  <2>3. CASE ~CallRaises("timeout")
    <3>1. /\ phase' \in {"quit", "ask"} /\ asked' = asked + 1 /\ inbox' = <<>>
          /\ client' = client /\ session' = session
      BY <1>11, <2>3 DEF ChkReadsAnswer
    <3>2. asked < MaxAsks  BY <1>2, <2>1 DEF PhaseInv
    <3>3. PhaseLeft(phase, asked) = 3 + 3 * (MaxAsks - asked)  BY <2>1 DEF PhaseLeft
    <3>4. PhaseLeft(phase', asked') = 2 \/ PhaseLeft(phase', asked') = 5 + 3 * (MaxAsks - (asked + 1))
      BY <3>1 DEF PhaseLeft
    <3>5. LinesLeft(phase', inbox') = 0  BY <3>1 DEF LinesLeft
    <3>6. PhaseLeft(phase', asked') < PhaseLeft(phase, asked)
      BY <1>1, <3>2, <3>3, <3>4
    <3>7. PhaseLeft(phase', asked') \in Nat /\ PhaseLeft(phase, asked) \in Nat
      BY <1>1, <3>2, <3>3, <3>4
    <3>8. SessionLeft(session') = SessionLeft(session)  BY <3>1
    <3>9. ClientLeft(phase', asked', session', inbox') < ClientLeft(phase, asked, session, inbox)
      BY <1>3, <3>5, <3>6, <3>7, <3>8 DEF ClientLeft
    <3> QED  BY <1>5, <2>1, <3>1, <3>9
  <2> QED  BY <2>1, <2>2, <2>3
<1>12. CASE UserReadsAnswer
  <2>1. phase = "reply"  BY <1>12, Zenon DEF UserReadsAnswer
  <2>2. CASE CallRaises("refused")  BY <1>7, <2>1, <2>2
  <2>3. CASE ~CallRaises("refused")
    <3>1. phase' = "quit" /\ client' = client /\ session' = session
      BY <1>12, <2>3 DEF UserReadsAnswer
    <3>2. /\ PhaseLeft(phase, asked) = 3 + 3 * (MaxAsks - asked)
          /\ PhaseLeft(phase', asked') = 2 /\ LinesLeft(phase', inbox') = 0
      BY <2>1, <3>1 DEF PhaseLeft, LinesLeft
    <3>3. ClientLeft(phase', asked', session', inbox') < ClientLeft(phase, asked, session, inbox)
      BY <1>1, <1>3, <3>1, <3>2 DEF ClientLeft
    <3> QED  BY <1>5, <2>1, <3>1, <3>3
  <2> QED  BY <2>1, <2>2, <2>3
<1>13. CASE SendsQuit
  <2>1. /\ phase = "quit" /\ phase' = "quitting" /\ client' = client
        /\ session' = (IF session = "up" THEN "leaving" ELSE session)
    BY <1>13, Zenon DEF SendsQuit
  <2>2. /\ PhaseLeft(phase, asked) = 2 /\ PhaseLeft(phase', asked') = 1
        /\ LinesLeft(phase', inbox') = 0
    BY <2>1 DEF PhaseLeft, LinesLeft
  <2>3. SessionLeft(session') \in 0..7 /\ SessionLeft(session') <= SessionLeft(session)
    BY <2>1 DEF SessionLeft
  <2>4. ClientLeft(phase', asked', session', inbox') < ClientLeft(phase, asked, session, inbox)
    BY <1>3, <2>2, <2>3 DEF ClientLeft
  <2> QED  BY <1>5, <2>1, <2>4
<1>14. CASE ClientLeaves
  <2>1. phase = "quitting" /\ session' = "none"  BY <1>14, Zenon DEF ClientLeaves
  <2>2. CASE phase' = "idle"  BY <1>4, <2>1, <2>2
  <2>3. CASE phase' # "idle"
    <3>1. client = "chkNS" /\ phase' = "connect" /\ client' = "user"
      BY <1>14, <2>3 DEF ClientLeaves, ClientIsAdded
    <3>2. ClientLeft(phase', asked', session', inbox') \in 0..MostOfClient
      BY ClientIsCounted DEF CallTyped
    <3>3. CallLeft' < CallLeft  BY <1>1, <1>3, <2>1, <3>1, <3>2 DEF CallLeft, LaterLeft
    <3> QED  BY <2>1, <3>3
  <2> QED  BY <2>1, <2>2, <2>3
<1> QED
  BY <1>6, <1>8, <1>9, <1>10, <1>11, <1>12, <1>13, <1>14, Zenon DEF ClientStep

\* So does each answer of the server, and that of NickServ to who waits for it.
LEMMA AnswersShorten ==
    ASSUME ServicesInvariant, CallTyped, CallTyped', BurstInv, WaitingInv,
           ServerAnswers \/ (Awaits /\ NickServAnswers)
    PROVE  phase # "idle" /\ CallLeft' < CallLeft
<1>1. PhaseInv /\ inbox \in Seq(Lines)  BY Zenon DEF ServicesInvariant, TypeOKServices
<1>2. UNCHANGED <<phase, client, asked>>
  BY DEF ServerAnswers, ServerPings, ServerWelcomes, ServerHandlesQuit, NickServAnswers, clientVars
<1>3. /\ PhaseLeft(phase, asked) \in 0..(14 + 3 * MaxAsks) /\ MaxAsks \in Nat
      /\ SessionLeft(session) \in 0..7 /\ LinesLeft(phase, inbox) \in 0..2
  BY ClientIsCounted, MostIsNat DEF CallTyped
<1>4. PhaseLeft(phase, asked) \in Nat  BY <1>3
<1>5. ASSUME phase # "idle",
             ClientLeft(phase', asked', session', inbox') < ClientLeft(phase, asked, session, inbox)
      PROVE  CallLeft' < CallLeft
  BY <1>2, <1>5, ClientIsPartOfCall
<1>6. CASE ServerPings
  <2>1. session = "new" /\ session' = "pinged"  BY <1>6 DEF ServerPings
  <2>2. phase = "burst" /\ inbox = <<>>  BY <2>1 DEF WaitingInv, BurstInv
  <2>3. inbox' = <<"PING">>  BY <1>6, <2>2 DEF ServerPings, Tells
  <2>4. SessionLeft(session) = 7 /\ SessionLeft(session') = 5  BY <2>1 DEF SessionLeft
  <2>5. LinesLeft(phase, inbox) = 0 /\ LinesLeft(phase, inbox') = 1
    <3>1. inbox' # <<>> /\ inbox'[1] = "PING"  BY <2>3
    <3> QED  BY <2>2, <3>1 DEF LinesLeft
  <2>6. ClientLeft(phase', asked', session', inbox') < ClientLeft(phase, asked, session, inbox)
    BY <1>2, <1>4, <2>4, <2>5 DEF ClientLeft
  <2> QED  BY <1>5, <2>2, <2>6
<1>7. CASE ServerWelcomes
  <2>1. session \in {"new", "ponged"} /\ session' = "up"  BY <1>7 DEF ServerWelcomes
  <2>2. phase = "burst" /\ inbox = <<>>  BY <2>1 DEF WaitingInv, BurstInv
  <2>3. SessionLeft(session) \in {5, 7} /\ SessionLeft(session') = 2  BY <2>1 DEF SessionLeft
  <2>4. LinesLeft(phase, inbox) = 0 /\ LinesLeft(phase, inbox') \in 0..2  BY <2>2 DEF LinesLeft
  <2>5. ClientLeft(phase', asked', session', inbox') < ClientLeft(phase, asked, session, inbox)
    BY <1>2, <1>4, <2>3, <2>4 DEF ClientLeft
  <2> QED  BY <1>5, <2>2, <2>5
<1>8. CASE ServerHandlesQuit
  <2>1. session = "leaving" /\ session' = "closed"  BY <1>8 DEF ServerHandlesQuit
  <2>2. phase = "quitting"  BY <1>1, <2>1 DEF PhaseInv
  <2>3. SessionLeft(session) = 1 /\ SessionLeft(session') = 0  BY <2>1 DEF SessionLeft
  <2>4. LinesLeft(phase, inbox) = 0 /\ LinesLeft(phase, inbox') = 0  BY <2>2 DEF LinesLeft
  <2>5. ClientLeft(phase', asked', session', inbox') < ClientLeft(phase, asked, session, inbox)
    BY <1>2, <1>4, <2>3, <2>4 DEF ClientLeft
  <2> QED  BY <1>5, <2>2, <2>5
<1>9. CASE Awaits /\ NickServAnswers
  <2>1. phase = "reply" /\ inbox = <<>> /\ session' = session
    BY <1>9 DEF Awaits, NickServAnswers
  <2>2. inbox' # <<>>
    <3>1. inbox' = inbox \o <<"NOTICE">> /\ "NOTICE" \in Lines
      BY <1>9 DEF NickServAnswers, Tells, Lines
    <3> QED  BY <1>1, <3>1, HasAppended
  <2>3. LinesLeft(phase, inbox) = 1 /\ LinesLeft(phase, inbox') = 0  BY <2>1, <2>2 DEF LinesLeft
  <2>4. ClientLeft(phase', asked', session', inbox') < ClientLeft(phase, asked, session, inbox)
    BY <1>2, <1>3, <1>4, <2>1, <2>3 DEF ClientLeft
  <2> QED  BY <1>5, <2>1, <2>4
<1> QED  BY <1>6, <1>7, <1>8, <1>9 DEF ServerAnswers

\* Lines that come unasked, services that link and processes that end do not
\* make a call longer.
LEMMA OthersLengthenNothing ==
    ASSUME ServicesInvariant, CallTyped, CallTyped', BurstInv, WaitingInv,
           [NextServices]_servicesVars, ~CallSteps, phase # "idle"
    PROVE  CallLeft' <= CallLeft
<1>1. PhaseInv /\ inbox \in Seq(Lines)  BY Zenon DEF ServicesInvariant, TypeOKServices
<1>2. /\ PhaseLeft(phase, asked) \in 0..(14 + 3 * MaxAsks) /\ MaxAsks \in Nat
      /\ SessionLeft(session) \in 0..7 /\ LinesLeft(phase, inbox) \in 0..2
  BY ClientIsCounted, MostIsNat DEF CallTyped
<1>3. PhaseLeft(phase, asked) \in Nat  BY <1>2
<1>4. ASSUME UNCHANGED <<phase, client, asked>>,
             SessionLeft(session') <= SessionLeft(session), SessionLeft(session') \in 0..7,
             LinesLeft(phase, inbox') <= LinesLeft(phase, inbox), LinesLeft(phase, inbox') \in 0..2
      PROVE  CallLeft' <= CallLeft
  <2>1. ClientLeft(phase', asked', session', inbox') <= ClientLeft(phase, asked, session, inbox)
    BY <1>2, <1>3, <1>4 DEF ClientLeft
  <2> QED  BY <1>4, <2>1, ClientIsPartOfCall
<1>5. CASE ProcessRuns
  <2>1. /\ UNCHANGED <<phase, client, asked, inbox>>
        /\ session' = session \/ session' = "closed"
    BY <1>5 DEF ProcessRuns, ConnectionsEnd, clientVars
  <2>2. SessionLeft(session') <= SessionLeft(session) /\ SessionLeft(session') \in 0..7
    <3>1. CASE session' = session  BY <1>2, <3>1
    <3>2. CASE session' = "closed"
      <4>1. SessionLeft(session') = 0  BY <3>2 DEF SessionLeft
      <4> QED  BY <1>2, <4>1
    <3> QED  BY <2>1, <3>1, <3>2
  <2>3. LinesLeft(phase, inbox') = LinesLeft(phase, inbox)  BY <2>1
  <2> QED  BY <1>2, <1>4, <2>1, <2>2, <2>3
<1>6. ASSUME NEW x \in Lines, inbox' = inbox \o <<x>>, session \in {"up", "leaving"},
             UNCHANGED <<phase, client, asked, session>>
      PROVE  CallLeft' <= CallLeft
  <2>1. inbox' # <<>>  BY <1>1, <1>6, HasAppended
  <2>2. CASE phase = "burst"
    <3>1. Welcome  BY <1>6, <2>2 DEF BurstInv
    <3>2. inbox # <<>> /\ inbox'[1] = inbox[1]  BY <1>1, <1>6, <3>1, WelcomeKept
    <3>3. LinesLeft(phase, inbox') = LinesLeft(phase, inbox)  BY <2>1, <2>2, <3>2 DEF LinesLeft
    <3> QED  BY <1>2, <1>4, <1>6, <3>3
  <2>3. CASE phase # "burst"
    <3>1. LinesLeft(phase, inbox') = 0  BY <2>1, <2>3 DEF LinesLeft
    <3> QED  BY <1>2, <1>4, <1>6, <3>1
  <2> QED  BY <2>2, <2>3
<1>7. CASE NickServAnswers
  <2>1. session \in {"up", "leaving"}  BY <1>1, <1>7 DEF NickServAnswers, PhaseInv
  <2>2. inbox' = inbox \o <<"NOTICE">> /\ UNCHANGED <<phase, client, asked, session>>
    BY <1>7 DEF NickServAnswers, Tells, clientVars
  <2> QED  BY <1>6, <2>1, <2>2 DEF Lines
<1>8. CASE ServerNotifies
  <2>1. session = "up" /\ UNCHANGED <<phase, client, asked, session>>
    BY <1>8 DEF ServerNotifies, clientVars
  <2>2. PICK x \in Notifications : inbox' = inbox \o <<x>>  BY <1>8 DEF ServerNotifies, Tells
  <2> QED  BY <1>6, <2>1, <2>2 DEF Lines
<1>9. CASE ServicesLink
  <2>1. UNCHANGED <<phase, client, asked, session, inbox>>  BY <1>9 DEF ServicesLink, clientVars
  <2> QED  BY <1>2, <1>4, <2>1
<1>10. CASE UNCHANGED servicesVars
  <2>1. UNCHANGED <<phase, client, asked, session, inbox>>
    BY <1>10 DEF servicesVars, clientVars, netVars
  <2> QED  BY <1>2, <1>4, <2>1
<1>11. ~TestRuns /\ ~TestChooses /\ ~TestAddsClient  BY DEF TestRuns, TestChooses, TestAddsClient, Idle
<1> QED  BY <1>5, <1>7, <1>8, <1>9, <1>10, <1>11 DEF NextServices, CallSteps

\* In a call, somebody can always step.
LEMMA CallMoves == ServicesInvariant /\ BurstInv /\ WaitingInv => CallCanMove
<1> SUFFICES ASSUME ServicesInvariant, BurstInv, WaitingInv, phase # "idle",
                    ~ClientCanStep, ~ServerCanAnswer
             PROVE  client = "user" /\ Awaits /\ (NickServCanAnswer \/ lost)
  BY DEF CallCanMove
<1>1. phase \in {"connect", "burst", "ask", "reply", "quit", "quitting"} /\ client \in {"chkNS", "user"}
  BY Zenon DEF ServicesInvariant, TypeOKServices
<1>2. phase # "burst"
  <2>1. SUFFICES ASSUME phase = "burst" PROVE FALSE
    OBVIOUS
  <2>2. inbox = <<>> /\ session \notin {"closed", "new", "ponged"}
    BY <2>1 DEF ClientCanStep, ServerCanAnswer
  <2>3. ~Welcome /\ inbox # <<"PING">>  BY <2>2 DEF Welcome
  <2> QED  BY <2>1, <2>2, <2>3 DEF BurstInv
<1> QED  BY <1>1, <1>2 DEF ClientCanStep, ServerCanAnswer, WaitingInv, Awaits, NickServCanAnswer

LEMMA InitWaiting == InitServices => BurstInv /\ WaitingInv
  BY DEF InitServices, BurstInv, WaitingInv, Awaits

LEMMA WaitingHolds == SpecServices => [](ServicesInvariant /\ CallTyped /\ BurstInv /\ WaitingInv)
<1>1. ServicesInvariant => CallTyped  BY CallIsTyped DEF ServicesInvariant
<1> QED
  BY <1>1, ServicesInvariantHolds, InitWaiting, StepWaiting, PTL DEF SpecServices

\* If a server that runs answers the PINGs of synchronized reads, as Services
\* assumes, wait_for_services() never waits for NickServ, nor anyone for a line
\* that cannot come, whatever links, crashes or notifies: the client or the
\* server can go on.  Only registerUser() waits for NickServ, and then NickServ has its
\* request and is on the network, unless a request was lost with the services.
THEOREM ServicesCallsMove == SpecServices => []CallCanMove
  BY WaitingHolds, CallMoves, PTL

\* And both are made of at most 47 + 6 * MaxAsks such steps: each one shortens what
\* is left of the call, and nothing that happens makes it longer.
THEOREM ServicesCallsAreShort == SpecServices => [][CallShrinks]_servicesVars
<1>1. /\ ServicesInvariant /\ CallTyped /\ BurstInv /\ WaitingInv
      /\ CallTyped'
      /\ [NextServices]_servicesVars
      => [CallShrinks]_servicesVars
  <2> SUFFICES ASSUME ServicesInvariant, CallTyped, BurstInv, WaitingInv, CallTyped',
                      [NextServices]_servicesVars, phase # "idle"
               PROVE  /\ CallLeft \in 1..(1 + 2 * MostOfClient)
                      /\ CallSteps => CallLeft' < CallLeft
                      /\ CallLeft' <= CallLeft
    BY DEF CallShrinks
  <2>1. /\ CallLeft \in 0..(1 + 2 * MostOfClient) /\ CallLeft >= 1
        /\ CallLeft' \in 0..(1 + 2 * MostOfClient) /\ MostOfClient \in Nat
    BY CallIsCounted, CallStaysCounted, MostIsNat DEF CallCounted
  <2>2. CallSteps => CallLeft' < CallLeft
    BY ClientShortens, AnswersShorten DEF CallSteps
  <2>3. ~CallSteps => CallLeft' <= CallLeft  BY OthersLengthenNothing
  <2> QED  BY <2>1, <2>2, <2>3
<1> QED
  BY <1>1, WaitingHolds, PTL DEF SpecServices

=============================================================================
