---------------------------- MODULE PortRegistry ----------------------------
(***************************************************************************)
(* The registry of used ports of irctest/basecontrollers.py.  Every worker *)
(* process of a test session keeps the ports of its current controller in  *)
(* _own_ports; all workers of the machine share one JSON file,             *)
(* irctest_ports.json, read and rewritten under a file lock.  The lock is  *)
(* a real one only under pytest-xdist: otherwise it is a null context.     *)
(*                                                                         *)
(* A call of _used_ports() is split where another worker may interleave:   *)
(* taking the lock, creating the file, reading it, the body of the with    *)
(* statement, and the two halves of write_text (truncate, then write).     *)
(***************************************************************************)
EXTENDS Naturals

CONSTANTS Workers,     \* the processes that run tests
          Ports,       \* the ports bind(("", 0)) can return
          NoWorker,    \* the lock is free
          XDist,       \* TRUE iff PYTEST_XDIST_WORKER is set
          MaxCalls,    \* bound: calls of _used_ports per worker
          MaxCrashes   \* bound: worker processes that die

ASSUME PortsAssumption ==
    /\ NoWorker \notin Workers
    /\ XDist \in BOOLEAN
    /\ MaxCalls \in Nat
    /\ MaxCrashes \in Nat

VARIABLES fileState,   \* of the JSON file: "absent", "torn" or "complete"
          onDisk,      \* the ports it lists, when it is complete
          lock,        \* the worker that holds the file lock, or NoWorker
          pc,          \* where each worker is in _used_ports
          op,          \* "get" (get_hostname_and_port) or "release" (kill)
          usedPorts,   \* the local set used_ports of the call
          ownPorts,    \* _own_ports of the worker's current controller
          listening,   \* ports on which a server of the session has a socket
          abandoned,   \* history: ports whose controller was dropped unkilled
          calls,       \* calls of _used_ports made so far
          crashes      \* worker processes that died so far

vars == <<fileState, onDisk, lock, pc, op, usedPorts, ownPorts, listening,
          abandoned, calls, crashes>>

fileVars == <<fileState, onDisk>>
procVars == <<ownPorts, listening, abandoned>>
boundVars == <<calls, crashes>>

Steps == {"idle", "wait", "read", "create", "body", "open", "write"}

\* The body of `with self._port_lock`.
InCS(w) == pc[w] \in {"read", "create", "body", "open", "write"}
NobodyInCS == \A w \in Workers : ~InCS(w)

Owned == UNION {ownPorts[w] : w \in Workers}

TypeOK ==
    /\ fileState \in {"absent", "torn", "complete"}
    /\ onDisk \subseteq Ports
    /\ lock \in Workers \cup {NoWorker}
    /\ pc \in [Workers -> Steps]
    /\ op \in [Workers -> {"get", "release"}]
    /\ usedPorts \in [Workers -> SUBSET Ports]
    /\ ownPorts \in [Workers -> SUBSET Ports]
    /\ listening \subseteq Ports
    /\ abandoned \subseteq Ports
    /\ calls \in [Workers -> 0..MaxCalls]
    /\ crashes \in 0..MaxCrashes

Init ==
    /\ fileState = "absent"
    /\ onDisk = {}
    /\ lock = NoWorker
    /\ pc = [w \in Workers |-> "idle"]
    /\ op = [w \in Workers |-> "get"]
    /\ usedPorts = [w \in Workers |-> {}]
    /\ ownPorts = [w \in Workers |-> {}]
    /\ listening = {}
    /\ abandoned = {}
    /\ calls = [w \in Workers |-> 0]
    /\ crashes = 0

-----------------------------------------------------------------------------
(* The lock. *)

\* Faulty variant: the lock is entered without waiting for its holder.
MayEnterUnlocked(w) == TRUE

\* FileLock blocks while another worker holds it; nullcontext never blocks.
MayEnter(w) == XDist => lock = NoWorker

\* The lock after worker w left the with statement, or died in it.
LockLeft(w) == IF lock = w THEN NoWorker ELSE lock

Enter(w) ==
    /\ pc[w] = "wait"
    /\ MayEnter(w)
    /\ lock' = IF XDist THEN w ELSE lock
    /\ pc' = [pc EXCEPT ![w] = "read"]
    /\ UNCHANGED <<fileVars, op, usedPorts, procVars, boundVars>>

-----------------------------------------------------------------------------
(* The file: exists() / write_text("[]"), read_text(), write_text(...). *)

CreateFile(w) ==
    /\ pc[w] = "read"
    /\ fileState = "absent"
    /\ fileState' = "torn"
    /\ pc' = [pc EXCEPT ![w] = "create"]
    /\ UNCHANGED <<onDisk, lock, op, usedPorts, procVars, boundVars>>

FinishCreate(w) ==
    /\ pc[w] = "create"
    /\ fileState' = "complete"
    /\ onDisk' = {}
    /\ pc' = [pc EXCEPT ![w] = "read"]
    /\ UNCHANGED <<lock, op, usedPorts, procVars, boundVars>>

ReadFile(w) ==
    /\ pc[w] = "read"
    /\ fileState = "complete"
    /\ usedPorts' = [usedPorts EXCEPT ![w] = onDisk]
    /\ pc' = [pc EXCEPT ![w] = "body"]
    /\ UNCHANGED <<fileVars, lock, op, procVars, boundVars>>

\* An exception in the with statement: nothing is written back, the test
\* errors, and the controller is dropped with the ports it had.
Raise(w) ==
    /\ lock' = LockLeft(w)
    /\ pc' = [pc EXCEPT ![w] = "idle"]
    /\ abandoned' = abandoned \cup ownPorts[w]
    /\ ownPorts' = [ownPorts EXCEPT ![w] = {}]
    /\ usedPorts' = [usedPorts EXCEPT ![w] = {}]
    /\ UNCHANGED <<fileVars, op, listening, boundVars>>

\* json.loads() of an empty or half-written file.
ReadTorn(w) ==
    /\ pc[w] = "read"
    /\ fileState = "torn"
    /\ Raise(w)

OpenFile(w) ==
    /\ pc[w] = "open"
    /\ fileState' = "torn"
    /\ pc' = [pc EXCEPT ![w] = "write"]
    /\ UNCHANGED <<onDisk, lock, op, usedPorts, procVars, boundVars>>

\* write_text() writes one value.  Without the lock, what two of different lengths
\* leave may be a mixture; no property of the unlocked run depends on it.
WriteFile(w) ==
    /\ pc[w] = "write"
    /\ fileState' = "complete"
    /\ onDisk' = usedPorts[w]
    /\ lock' = LockLeft(w)
    /\ pc' = [pc EXCEPT ![w] = "idle"]
    /\ usedPorts' = [usedPorts EXCEPT ![w] = {}]
    /\ UNCHANGED <<op, procVars, boundVars>>

-----------------------------------------------------------------------------
(* get_hostname_and_port *)

CallGet(w) ==
    /\ pc[w] = "idle"
    /\ calls[w] < MaxCalls
    /\ calls' = [calls EXCEPT ![w] = @ + 1]
    /\ pc' = [pc EXCEPT ![w] = "wait"]
    /\ op' = [op EXCEPT ![w] = "get"]
    /\ UNCHANGED <<fileVars, lock, usedPorts, procVars, crashes>>

\* Faulty variant: the port the kernel proposes is taken at once.
ProposedByKernel(w) == Ports \ listening

\* Faulty variant: the loop ends on a port that is in used_ports.
CandidatesInverted(w) == usedPorts[w] \ listening

\* find_hostname_and_port() binds a socket to a port that has no socket, and
\* closes it; the loop tries again while that port is in used_ports.
Candidates(w) == Ports \ (listening \cup usedPorts[w])

\* Faulty variant: the port is not added to the set that is written back.
UsedAfterGetForgotten(w, p) == usedPorts[w]

UsedAfterGet(w, p) == usedPorts[w] \cup {p}

GetPort(w) ==
    /\ pc[w] = "body"
    /\ op[w] = "get"
    /\ \E p \in Candidates(w) :
          /\ usedPorts' = [usedPorts EXCEPT ![w] = UsedAfterGet(w, p)]
          /\ ownPorts' = [ownPorts EXCEPT ![w] = @ \cup {p}]
    /\ pc' = [pc EXCEPT ![w] = "open"]
    /\ UNCHANGED <<fileVars, lock, op, listening, abandoned, boundVars>>

-----------------------------------------------------------------------------
(* kill: kill_proc() first, then the ports are released. *)

\* Faulty variant: the ports are released while the server still runs.
ListeningDuringKill(w) == listening

\* The sockets left when kill_proc() has returned.
ListeningAfterKillProc(w) == listening \ ownPorts[w]

CallRelease(w) ==
    /\ pc[w] = "idle"
    /\ calls[w] < MaxCalls
    /\ calls' = [calls EXCEPT ![w] = @ + 1]
    /\ listening' = ListeningAfterKillProc(w)
    /\ pc' = [pc EXCEPT ![w] = "wait"]
    /\ op' = [op EXCEPT ![w] = "release"]
    /\ UNCHANGED <<fileVars, lock, usedPorts, ownPorts, abandoned, crashes>>

\* Faulty variant: the released ports are left in used_ports.
UsedAfterReleaseKept(w) == usedPorts[w]

UsedAfterRelease(w) == usedPorts[w] \ ownPorts[w]

ReleasePorts(w) ==
    /\ pc[w] = "body"
    /\ op[w] = "release"
    /\ ownPorts[w] \subseteq usedPorts[w]
    /\ usedPorts' = [usedPorts EXCEPT ![w] = UsedAfterRelease(w)]
    /\ ownPorts' = [ownPorts EXCEPT ![w] = {}]
    /\ pc' = [pc EXCEPT ![w] = "open"]
    /\ UNCHANGED <<fileVars, lock, op, listening, abandoned, boundVars>>

\* used_ports.remove() of a port the file did not list: KeyError.
ReleaseFails(w) ==
    /\ pc[w] = "body"
    /\ op[w] = "release"
    /\ ~ (ownPorts[w] \subseteq usedPorts[w])
    /\ Raise(w)

-----------------------------------------------------------------------------
(* What happens around the registry. *)

\* The server that run() started binds a port given to its controller.
ServerListens(w) ==
    /\ pc[w] = "idle"
    /\ \E p \in ownPorts[w] \ listening : listening' = listening \cup {p}
    /\ UNCHANGED <<fileVars, lock, pc, op, usedPorts, ownPorts, abandoned,
                   boundVars>>

\* setUp() raised after it got ports: pytest does not call tearDown(), and
\* the next test has a controller of its own.
Abandon(w) ==
    /\ pc[w] = "idle"
    /\ ownPorts[w] # {}
    /\ abandoned' = abandoned \cup ownPorts[w]
    /\ ownPorts' = [ownPorts EXCEPT ![w] = {}]
    /\ UNCHANGED <<fileVars, lock, pc, op, usedPorts, listening, boundVars>>

\* What is lost with worker w: its ports, and those it was about to strike out
\* of the file.
LostWith(w) ==
    ownPorts[w] \cup (IF pc[w] = "open" THEN onDisk \ usedPorts[w] ELSE {})

\* The worker process dies and is replaced.  The kernel drops its lock; its
\* server, in a session of its own, lives on, and the file stays as it is.
Crash(w) ==
    /\ crashes < MaxCrashes
    /\ crashes' = crashes + 1
    /\ lock' = LockLeft(w)
    /\ pc' = [pc EXCEPT ![w] = "idle"]
    /\ abandoned' = abandoned \cup LostWith(w)
    /\ ownPorts' = [ownPorts EXCEPT ![w] = {}]
    /\ usedPorts' = [usedPorts EXCEPT ![w] = {}]
    /\ UNCHANGED <<fileVars, op, listening, calls>>

-----------------------------------------------------------------------------

\* The steps a worker takes by itself once it called _used_ports.
Step(w) ==
    \/ Enter(w)
    \/ CreateFile(w)
    \/ FinishCreate(w)
    \/ ReadFile(w)
    \/ ReadTorn(w)
    \/ GetPort(w)
    \/ ReleasePorts(w)
    \/ ReleaseFails(w)
    \/ OpenFile(w)
    \/ WriteFile(w)

Next == \E w \in Workers :
    \/ Step(w)
    \/ CallGet(w)
    \/ CallRelease(w)
    \/ ServerListens(w)
    \/ Abandon(w)
    \/ Crash(w)

Spec == Init /\ [][Next]_vars

\* Workers keep running.  The lock is polled, hence no stronger fairness.
FairSpec == Spec /\ \A w \in Workers : WF_vars(Step(w))

-----------------------------------------------------------------------------
(* Properties *)

\* No port is given to two live controllers, whatever the interleaving of
\* their workers: the "collisions between controllers starting at the same
\* time" that get_hostname_and_port double-checks against.
DisjointOwnership ==
    \A v, w \in Workers : v # w => ownPorts[v] \cap ownPorts[w] = {}

\* While no worker is rewriting it, a readable file lists every port of
\* every live controller: no rewrite loses another worker's ports.
OwnershipRegistered ==
    fileState = "complete" /\ NobodyInCS => Owned \subseteq onDisk

\* kill() never meets a KeyError: the ports of a controller are still in the
\* file when it is killed.
ReleaseNeverFails ==
    \A w \in Workers :
        pc[w] = "body" /\ op[w] = "release" => ownPorts[w] \subseteq usedPorts[w]

\* A server the session started, and possibly lost, listens only on a
\* registered port: ports are released after their server was stopped.
ListeningIsRegistered ==
    fileState = "complete" /\ NobodyInCS => listening \subseteq onDisk

\* The file lists nothing but ports of live controllers and of controllers
\* dropped without kill(): a controller that is killed leaves no trace.
OnlyAbandonedLeak ==
    fileState = "complete" /\ NobodyInCS => onDisk \subseteq Owned \cup abandoned

\* As long as no worker dies, a worker that reads the file finds it whole.
ReadsWholeFile ==
    crashes = 0 => \A w \in Workers : pc[w] = "read" => fileState # "torn"

\* Worker w, which is in a call, has a step it can take by itself.  The loop of
\* get_hostname_and_port() has none while every port the kernel proposes is in
\* used_ports.
CanStep(w) ==
    \/ pc[w] = "wait" /\ MayEnter(w)
    \/ pc[w] = "body" /\ (op[w] = "get" => Candidates(w) # {})
    \/ pc[w] \in {"read", "create", "open", "write"}

\* Every port belongs to a live controller, or was leaked.
NoPortLeft == Ports \subseteq Owned \cup abandoned

\* What the file lists, or is about to.  One that a worker left in the middle
\* of its rewriting cannot be read: it is as if it listed all ports.
Writers == {w \in Workers : pc[w] = "write"}
Unreadable == fileState = "torn" /\ \A w \in Workers : pc[w] \notin {"create", "write"}
Registered ==
    IF Unreadable THEN Ports
    ELSE IF Writers = {} THEN onDisk ELSE UNION {usedPorts[w] : w \in Writers}

\* A port is taken when the body of the with statement has chosen it, and given
\* back when the file is opened for writing.
Held == [w \in Workers |-> LostWith(w)]
LostPorts == Registered \ UNION {LostWith(w) : w \in Workers}

Allocator == INSTANCE PortAllocator WITH owned <- Held, lost <- LostPorts

\* The file protocol implements the allocator: with all the steps in between,
\* and workers that die at any of them, the calls of get_hostname_and_port and
\* kill take effect one at a time, and a port that was lost is not given again.
ImplementsAllocator == Allocator!Spec

\* Every call of get_hostname_and_port and kill ends, with or without an
\* exception: no worker waits forever for the lock or spins under it.
EveryCallReturns ==
    \A w \in Workers : pc[w] = "wait" ~> pc[w] = "idle"

=============================================================================
