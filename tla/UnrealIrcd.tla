------------------------------ MODULE UnrealIrcd ------------------------------
(***************************************************************************)
(* Controllers of UnrealIRCd (irctest/controllers/unrealircd.py) on top of *)
(* the registry of ports.  "Unreal cleans its tmp/ directory after each    *)
(* run, which prevents multiple processes from starting/stopping at the    *)
(* same time": run() and kill_proc() take a lock that all workers of the   *)
(* machine share.  Unlike that of the registry, it is a real one in every  *)
(* session.  run() holds it until the server listens.                      *)
(***************************************************************************)
EXTENDS PortRegistry, FiniteSets

VARIABLES startStop,  \* the worker that holds _STARTSTOP_LOCK, or NoWorker
          doing,      \* what each controller does with it
          server      \* the process of self.proc

unrealVars == <<startStop, doing, server>>
allVars == <<vars, unrealVars>>

Busy == {"starting", "stopping"}

TypeOKUnreal ==
    /\ TypeOK
    /\ startStop \in Workers \cup {NoWorker}
    /\ doing \in [Workers -> {"nothing", "wants to start", "wants to stop"} \cup Busy]
    /\ server \in [Workers -> {"none", "up"} \cup Busy]

InitUnreal ==
    /\ Init
    /\ startStop = NoWorker
    /\ doing = [w \in Workers |-> "nothing"]
    /\ server = [w \in Workers |-> "none"]

Does(w, what) == doing' = [doing EXCEPT ![w] = what]
ServerIs(w, what) == server' = [server EXCEPT ![w] = what]
Free(w) == doing[w] = "nothing" /\ pc[w] = "idle"

\* Faulty variant: an exception leaves the lock taken.
NeverUnlocked(w) == startStop

\* The lock once the with statement of worker w is left.
Unlocked(w) == IF startStop = w THEN NoWorker ELSE startStop

-----------------------------------------------------------------------------
(* setUp(): the ports, then run(). *)

GetsPort(w) ==
    /\ Free(w) /\ server[w] = "none"
    /\ CallGet(w)
    /\ UNCHANGED unrealVars

CallRun(w) ==
    /\ Free(w) /\ server[w] = "none" /\ ownPorts[w] # {}
    /\ Does(w, "wants to start")
    /\ UNCHANGED <<vars, startStop, server>>

StartsServer(w) ==
    /\ doing[w] = "wants to start" /\ startStop = NoWorker
    /\ startStop' = w /\ Does(w, "starting") /\ ServerIs(w, "starting")
    /\ UNCHANGED vars

ServerOpensPort(w) ==
    /\ server[w] = "starting"
    /\ ServerListens(w)
    /\ ServerIs(w, "up")
    /\ UNCHANGED <<startStop, doing>>

\* wait_for_port() returns.
RunReturns(w) ==
    /\ doing[w] = "starting" /\ server[w] = "up"
    /\ startStop' = Unlocked(w) /\ Does(w, "nothing")
    /\ UNCHANGED <<vars, server>>

\* Ports and process are dropped by an exception: tearDown() is not called,
\* and the next test has a controller of its own.
Dropped(w) ==
    /\ abandoned' = abandoned \cup ownPorts[w]
    /\ ownPorts' = [ownPorts EXCEPT ![w] = {}]
    /\ UNCHANGED <<fileVars, lock, pc, op, usedPorts, listening, boundVars>>
    /\ startStop' = Unlocked(w) /\ Does(w, "nothing") /\ ServerIs(w, "none")

\* wait_for_port() raises: the server exited, or a minute is over.
RunRaises(w) ==
    /\ doing[w] = "starting" /\ server[w] = "starting"
    /\ Dropped(w)

\* setUp() raises before run() has taken the lock, or after.
SetUpRaises(w) ==
    /\ Free(w) /\ ownPorts[w] # {}
    /\ Dropped(w)

-----------------------------------------------------------------------------
(* tearDown(): kill() *)

\* kill() of a controller that has a process calls kill_proc() first.
CallKill(w) ==
    /\ Free(w) /\ calls[w] < MaxCalls
    /\ \/ server[w] = "none" /\ CallRelease(w) /\ UNCHANGED unrealVars
       \/ /\ server[w] # "none"
          /\ Does(w, "wants to stop")
          /\ UNCHANGED <<vars, startStop, server>>

\* Faulty variant: kill_proc() is that of the base class, without the lock.
AnyTime == TRUE

MayStop == startStop = NoWorker

StopsServer(w) ==
    /\ doing[w] = "wants to stop" /\ MayStop
    /\ startStop' = w /\ Does(w, "stopping") /\ ServerIs(w, "stopping")
    /\ UNCHANGED vars

\* proc.wait(5) returns, and kill() goes on with the ports.
KillProcReturns(w) ==
    /\ doing[w] = "stopping"
    /\ CallRelease(w)
    /\ startStop' = Unlocked(w) /\ Does(w, "nothing") /\ ServerIs(w, "none")

\* TimeoutExpired
KillProcRaises(w) ==
    /\ doing[w] = "stopping"
    /\ Dropped(w)

\* The worker dies, and the kernel drops its locks.
WorkerDies(w) ==
    /\ Crash(w)
    /\ startStop' = Unlocked(w) /\ Does(w, "nothing") /\ ServerIs(w, "none")

-----------------------------------------------------------------------------

Moves(w) ==
    \/ Step(w) /\ UNCHANGED unrealVars
    \/ StartsServer(w) \/ RunReturns(w) \/ RunRaises(w)
    \/ StopsServer(w) \/ KillProcReturns(w) \/ KillProcRaises(w)

NextUnreal == \E w \in Workers :
    \/ Moves(w)
    \/ GetsPort(w) \/ CallRun(w) \/ CallKill(w) \/ SetUpRaises(w)
    \/ ServerOpensPort(w) \/ WorkerDies(w)

SpecUnreal == InitUnreal /\ [][NextUnreal]_allVars

\* Workers keep running, and wait(5) and wait_for_port() have time limits.  That
\* of wait_for_port() is not on its handshake loop, which WaitEnds of
\* ServerController is about: UnrealIRCd is taken not to keep it there for ever.
FairSpecUnreal == SpecUnreal /\ \A w \in Workers : WF_allVars(Moves(w))

-----------------------------------------------------------------------------
(* Properties *)

\* Of the servers that have a controller, at most one starts or stops at any
\* time.  Those that a time limit or a dead worker left behind are not counted.
OneStartsOrStops == Cardinality({w \in Workers : server[w] \in Busy}) <= 1

Wanting == {"wants to start", "wants to stop"}

\* Worker w, which is busy, has a step it can take by itself.
CanMove(w) ==
    \/ CanStep(w)
    \/ doing[w] \in Wanting /\ startStop = NoWorker
    \/ doing[w] = "starting" /\ server[w] \in {"starting", "up"}
    \/ doing[w] = "stopping"

\* Of the two locks, one is never awaited by a worker that holds the other: a
\* busy worker can go on, or waits for one that can.  Only the loop for a port
\* may spin, under the lock of the registry, and only when every port is that
\* of a live controller or was leaked.
HolderCanMove ==
    \A w \in Workers :
        \/ Free(w) \/ CanMove(w) \/ NoPortLeft
        \/ pc[w] = "wait" /\ CanMove(lock)
        \/ doing[w] \in Wanting /\ CanMove(startStop)

\* No controller waits for ever to start or stop its server or for its ports,
\* whichever other one fails to start, does not stop in time, or dies with the
\* lock of either file.
StartAndStopEnd ==
    \A w \in Workers : ~Free(w) ~> Free(w)

=============================================================================
