------------------------- MODULE PortRegistryProofs -------------------------
(***************************************************************************)
(* Safety of the port registry, for any number of workers, ports, calls    *)
(* and crashes, provided calls are serialised: the workers run under       *)
(* pytest-xdist, which gives them a real lock, or there is only one.       *)
(***************************************************************************)
EXTENDS UnrealIrcd, FiniteSetTheorems, TLAPS

\* The assumption of the theorems.
Serialised == XDist \/ \A v, w \in Workers : v = w

\* Under pytest-xdist the lock is held by the worker in the with statement.
LockInv == XDist => \A w \in Workers : InCS(w) <=> lock = w

\* What a worker in the with statement knows of the file.
ReaderInv ==
    \A w \in Workers :
        /\ pc[w] = "create" => fileState = "torn"
        /\ pc[w] = "body" => fileState = "complete" /\ usedPorts[w] = onDisk
        /\ pc[w] = "open" => fileState = "complete"
        /\ pc[w] = "write" => fileState = "torn"

\* Nobody owns a port before the file exists.
AbsentInv ==
    fileState = "absent" \/ (\E w \in Workers : pc[w] = "create") =>
        /\ \A v \in Workers : ownPorts[v] = {}
        /\ listening = {}

\* Owned ports are in the set about to be written, or in the file.
OwnedInv ==
    /\ \A v, w \in Workers : pc[w] \in {"open", "write"} => ownPorts[v] \subseteq usedPorts[w]
    /\ fileState = "complete" =>
          \A w \in Workers : pc[w] # "open" => ownPorts[w] \subseteq onDisk

\* The same of the ports with a socket.
ListeningInv ==
    /\ \A w \in Workers : pc[w] \in {"open", "write"} => listening \subseteq usedPorts[w]
    /\ fileState = "complete" => listening \subseteq onDisk
    /\ \A w \in Workers :
          op[w] = "release" /\ pc[w] # "idle" => listening \cap ownPorts[w] = {}

\* A torn file is being written, or was left by a worker that died.
TornInv ==
    fileState = "torn" /\ crashes = 0 =>
        \E w \in Workers : pc[w] \in {"create", "write"}

\* Whoever is about to write, or nobody, accounts for the ports in the file.
LeakInv ==
    /\ \A w \in Workers : pc[w] \in {"open", "write"} =>
          \A p \in usedPorts[w] : p \in abandoned \/ \E v \in Workers : p \in ownPorts[v]
    /\ fileState = "complete" =>
          \A p \in onDisk : p \in abandoned \/ \E v \in Workers : p \in LostWith(v)

\* The inductive invariant.
IInv ==
    /\ TypeOK
    /\ LockInv
    /\ ReaderInv
    /\ AbsentInv
    /\ OwnedInv
    /\ ListeningInv
    /\ TornInv
    /\ LeakInv
    /\ DisjointOwnership

-----------------------------------------------------------------------------

\* At most one worker is in the with statement.
LEMMA Mutex ==
    ASSUME Serialised, LockInv, NEW v \in Workers, NEW w \in Workers,
           InCS(v), InCS(w)
    PROVE  v = w
<1>1. CASE XDist
  BY <1>1 DEF LockInv
<1>2. CASE ~XDist
  BY <1>2 DEF Serialised
<1>3. QED
  BY <1>1, <1>2

\* The initial states satisfy the inductive invariant.
LEMMA InitIInv == Init => IInv
  BY PortsAssumption DEF Init, IInv, TypeOK, LockInv, InCS, ReaderInv, AbsentInv,
     OwnedInv, ListeningInv, TornInv, LeakInv, LostWith, DisjointOwnership, Steps

\* The types need no lock.
LEMMA StepTypeOK ==
    ASSUME TypeOK, [Next]_vars
    PROVE  TypeOK'
<1> USE PortsAssumption DEF TypeOK, fileVars, procVars, boundVars
<1>1. ASSUME NEW w \in Workers, Enter(w) \/ CreateFile(w) \/ FinishCreate(w) \/ ReadFile(w)
      PROVE  TypeOK'
  BY <1>1 DEF Enter, CreateFile, FinishCreate, ReadFile, Steps
<1>2. ASSUME NEW w \in Workers, ReadTorn(w) \/ ReleaseFails(w) \/ Abandon(w)
      PROVE  TypeOK'
  BY <1>2 DEF ReadTorn, ReleaseFails, Abandon, Raise, LockLeft, Steps
<1>3. ASSUME NEW w \in Workers, GetPort(w)
      PROVE  TypeOK'
  BY <1>3 DEF GetPort, Candidates, UsedAfterGet, Steps
<1>4. ASSUME NEW w \in Workers, ReleasePorts(w)
      PROVE  TypeOK'
  BY <1>4 DEF ReleasePorts, UsedAfterRelease, Steps
<1>5. ASSUME NEW w \in Workers, OpenFile(w) \/ WriteFile(w)
      PROVE  TypeOK'
  BY <1>5 DEF OpenFile, WriteFile, LockLeft, Steps
<1>6. ASSUME NEW w \in Workers, CallGet(w) \/ CallRelease(w) \/ ServerListens(w)
      PROVE  TypeOK'
  BY <1>6 DEF CallGet, CallRelease, ServerListens, ListeningAfterKillProc, Steps
<1>7. ASSUME NEW w \in Workers, Crash(w)
      PROVE  TypeOK'
  BY <1>7 DEF Crash, LostWith, LockLeft, Steps
<1>8. CASE UNCHANGED vars
  BY <1>8 DEF vars
<1> QED
  BY <1>1, <1>2, <1>3, <1>4, <1>5, <1>6, <1>7, <1>8 DEF Next, Step

\* Every step of a worker, and every stuttering step, preserves it.
LEMMA StepIInv ==
    ASSUME Serialised, IInv, [Next]_vars
    PROVE  IInv'
<1>0. \A u, v \in Workers : InCS(u) /\ InCS(v) => u = v
  BY Mutex DEF IInv
<1> USE PortsAssumption DEF fileVars, procVars, boundVars
<1>1. ASSUME NEW w \in Workers, Enter(w) PROVE IInv'
  <2>1. TypeOK'
    BY StepTypeOK DEF IInv
  <2>2. LockInv'
    BY <1>1 DEF IInv, TypeOK, LockInv, Enter, InCS, MayEnter
  <2>3. ReaderInv'
    BY <1>1, <1>0 DEF IInv, TypeOK, ReaderInv, Enter, InCS, MayEnter
  <2>4. AbsentInv'
    BY <1>1, <1>0 DEF IInv, TypeOK, AbsentInv, Enter, ReaderInv, InCS,
       MayEnter
  <2>5. OwnedInv'
    BY <1>1, <1>0 DEF IInv, TypeOK, OwnedInv, Enter, ReaderInv, AbsentInv,
       DisjointOwnership, InCS, MayEnter
  <2>6. ListeningInv'
    BY <1>1, <1>0 DEF IInv, TypeOK, ListeningInv, Enter, ReaderInv,
       AbsentInv, OwnedInv, DisjointOwnership, InCS, MayEnter
  <2>7. TornInv'
    BY <1>1, <1>0 DEF IInv, TypeOK, TornInv, Enter, ReaderInv, InCS,
       MayEnter
  <2>8. LeakInv'
    BY <1>1, <1>0 DEF IInv, TypeOK, LeakInv, Enter, LostWith, ReaderInv,
       OwnedInv, InCS, MayEnter
  <2>9. DisjointOwnership'
    BY <1>1, <1>0 DEF IInv, TypeOK, DisjointOwnership, Enter, ReaderInv,
       OwnedInv, InCS, MayEnter
  <2>10. QED
    BY <2>1, <2>2, <2>3, <2>4, <2>5, <2>6, <2>7, <2>8, <2>9 DEF IInv
<1>2. ASSUME NEW w \in Workers, CreateFile(w) PROVE IInv'
  <2>1. TypeOK'
    BY StepTypeOK DEF IInv
  <2>2. LockInv'
    BY <1>2 DEF IInv, TypeOK, LockInv, CreateFile, InCS
  <2>3. ReaderInv'
    BY <1>2, <1>0 DEF IInv, TypeOK, ReaderInv, CreateFile, InCS
  <2>4. AbsentInv'
    BY <1>2, <1>0 DEF IInv, TypeOK, AbsentInv, CreateFile, ReaderInv, InCS
  <2>5. OwnedInv'
    BY <1>2, <1>0 DEF IInv, TypeOK, OwnedInv, CreateFile, ReaderInv,
       AbsentInv, DisjointOwnership, InCS
  <2>6. ListeningInv'
    BY <1>2, <1>0 DEF IInv, TypeOK, ListeningInv, CreateFile, ReaderInv,
       AbsentInv, OwnedInv, DisjointOwnership, InCS
  <2>7. TornInv'
    BY <1>2, <1>0 DEF IInv, TypeOK, TornInv, CreateFile, ReaderInv, InCS
  <2>8. LeakInv'
    BY <1>2, <1>0 DEF IInv, TypeOK, LeakInv, CreateFile, LostWith,
       ReaderInv, OwnedInv, InCS
  <2>9. DisjointOwnership'
    BY <1>2, <1>0 DEF IInv, TypeOK, DisjointOwnership, CreateFile,
       ReaderInv, OwnedInv, InCS
  <2>10. QED
    BY <2>1, <2>2, <2>3, <2>4, <2>5, <2>6, <2>7, <2>8, <2>9 DEF IInv
<1>3. ASSUME NEW w \in Workers, FinishCreate(w) PROVE IInv'
  <2>1. TypeOK'
    BY StepTypeOK DEF IInv
  <2>2. LockInv'
    BY <1>3 DEF IInv, TypeOK, LockInv, FinishCreate, InCS
  <2>3. ReaderInv'
    BY <1>3, <1>0 DEF IInv, TypeOK, ReaderInv, FinishCreate, InCS
  <2>4. AbsentInv'
    BY <1>3, <1>0 DEF IInv, TypeOK, AbsentInv, FinishCreate, ReaderInv,
       InCS
  <2>5. OwnedInv'
    BY <1>3, <1>0 DEF IInv, TypeOK, OwnedInv, FinishCreate, ReaderInv,
       AbsentInv, DisjointOwnership, InCS
  <2>6. ListeningInv'
    BY <1>3, <1>0 DEF IInv, TypeOK, ListeningInv, FinishCreate, ReaderInv,
       AbsentInv, OwnedInv, DisjointOwnership, InCS
  <2>7. TornInv'
    BY <1>3, <1>0 DEF IInv, TypeOK, TornInv, FinishCreate, ReaderInv, InCS
  <2>8. LeakInv'
    BY <1>3, <1>0 DEF IInv, TypeOK, LeakInv, FinishCreate, LostWith,
       ReaderInv, OwnedInv, InCS
  <2>9. DisjointOwnership'
    BY <1>3, <1>0 DEF IInv, TypeOK, DisjointOwnership, FinishCreate,
       ReaderInv, OwnedInv, InCS
  <2>10. QED
    BY <2>1, <2>2, <2>3, <2>4, <2>5, <2>6, <2>7, <2>8, <2>9 DEF IInv
<1>4. ASSUME NEW w \in Workers, ReadFile(w) PROVE IInv'
  <2>1. TypeOK'
    BY StepTypeOK DEF IInv
  <2>2. LockInv'
    BY <1>4 DEF IInv, TypeOK, LockInv, ReadFile, InCS
  <2>3. ReaderInv'
    BY <1>4, <1>0 DEF IInv, TypeOK, ReaderInv, ReadFile, InCS
  <2>4. AbsentInv'
    BY <1>4, <1>0 DEF IInv, TypeOK, AbsentInv, ReadFile, ReaderInv, InCS
  <2>5. OwnedInv'
    BY <1>4, <1>0 DEF IInv, TypeOK, OwnedInv, ReadFile, ReaderInv,
       AbsentInv, DisjointOwnership, InCS
  <2>6. ListeningInv'
    BY <1>4, <1>0 DEF IInv, TypeOK, ListeningInv, ReadFile, ReaderInv,
       AbsentInv, OwnedInv, DisjointOwnership, InCS
  <2>7. TornInv'
    BY <1>4, <1>0 DEF IInv, TypeOK, TornInv, ReadFile, ReaderInv, InCS
  <2>8. LeakInv'
    BY <1>4, <1>0 DEF IInv, TypeOK, LeakInv, ReadFile, LostWith,
       ReaderInv, OwnedInv, InCS
  <2>9. DisjointOwnership'
    BY <1>4, <1>0 DEF IInv, TypeOK, DisjointOwnership, ReadFile,
       ReaderInv, OwnedInv, InCS
  <2>10. QED
    BY <2>1, <2>2, <2>3, <2>4, <2>5, <2>6, <2>7, <2>8, <2>9 DEF IInv
<1>5. ASSUME NEW w \in Workers, ReadTorn(w) PROVE IInv'
  <2>1. TypeOK'
    BY StepTypeOK DEF IInv
  <2>2. LockInv'
    BY <1>5 DEF IInv, TypeOK, LockInv, ReadTorn, InCS, Raise, LockLeft
  <2>3. ReaderInv'
    BY <1>5, <1>0 DEF IInv, TypeOK, ReaderInv, ReadTorn, InCS, Raise,
       LockLeft
  <2>4. AbsentInv'
    BY <1>5, <1>0 DEF IInv, TypeOK, AbsentInv, ReadTorn, ReaderInv, InCS,
       Raise, LockLeft
  <2>5. OwnedInv'
    BY <1>5, <1>0 DEF IInv, TypeOK, OwnedInv, ReadTorn, ReaderInv,
       AbsentInv, DisjointOwnership, InCS, Raise, LockLeft
  <2>6. ListeningInv'
    BY <1>5, <1>0 DEF IInv, TypeOK, ListeningInv, ReadTorn, ReaderInv,
       AbsentInv, OwnedInv, DisjointOwnership, InCS, Raise, LockLeft
  <2>7. TornInv'
    BY <1>5, <1>0 DEF IInv, TypeOK, TornInv, ReadTorn, ReaderInv, InCS,
       Raise, LockLeft
  <2>8. LeakInv'
    BY <1>5, <1>0 DEF IInv, TypeOK, LeakInv, ReadTorn, LostWith,
       ReaderInv, OwnedInv, InCS, Raise, LockLeft
  <2>9. DisjointOwnership'
    BY <1>5, <1>0 DEF IInv, TypeOK, DisjointOwnership, ReadTorn,
       ReaderInv, OwnedInv, InCS, Raise, LockLeft
  <2>10. QED
    BY <2>1, <2>2, <2>3, <2>4, <2>5, <2>6, <2>7, <2>8, <2>9 DEF IInv
<1>6. ASSUME NEW w \in Workers, GetPort(w) PROVE IInv'
  <2>1. TypeOK'
    BY StepTypeOK DEF IInv
  <2>2. LockInv'
    BY <1>6 DEF IInv, TypeOK, LockInv, GetPort, InCS, Candidates,
       UsedAfterGet
  <2>3. ReaderInv'
    BY <1>6, <1>0 DEF IInv, TypeOK, ReaderInv, GetPort, InCS, Candidates,
       UsedAfterGet
  <2>4. AbsentInv'
    BY <1>6, <1>0 DEF IInv, TypeOK, AbsentInv, GetPort, ReaderInv, InCS,
       Candidates, UsedAfterGet
  <2>5. OwnedInv'
    BY <1>6, <1>0 DEF IInv, TypeOK, OwnedInv, GetPort, ReaderInv,
       AbsentInv, DisjointOwnership, InCS, Candidates, UsedAfterGet
  <2>6. ListeningInv'
    BY <1>6, <1>0 DEF IInv, TypeOK, ListeningInv, GetPort, ReaderInv,
       AbsentInv, OwnedInv, DisjointOwnership, InCS, Candidates,
       UsedAfterGet
  <2>7. TornInv'
    BY <1>6, <1>0 DEF IInv, TypeOK, TornInv, GetPort, ReaderInv, InCS,
       Candidates, UsedAfterGet
  <2>8. LeakInv'
    BY <1>6, <1>0 DEF IInv, TypeOK, LeakInv, GetPort, LostWith, ReaderInv,
       OwnedInv, InCS, Candidates, UsedAfterGet
  <2>9. DisjointOwnership'
    BY <1>6, <1>0 DEF IInv, TypeOK, DisjointOwnership, GetPort, ReaderInv,
       OwnedInv, InCS, Candidates, UsedAfterGet
  <2>10. QED
    BY <2>1, <2>2, <2>3, <2>4, <2>5, <2>6, <2>7, <2>8, <2>9 DEF IInv
<1>7. ASSUME NEW w \in Workers, ReleasePorts(w) PROVE IInv'
  <2>1. TypeOK'
    BY StepTypeOK DEF IInv
  <2>2. LockInv'
    BY <1>7 DEF IInv, TypeOK, LockInv, ReleasePorts, InCS,
       UsedAfterRelease
  <2>3. ReaderInv'
    BY <1>7, <1>0 DEF IInv, TypeOK, ReaderInv, ReleasePorts, InCS,
       UsedAfterRelease
  <2>4. AbsentInv'
    BY <1>7, <1>0 DEF IInv, TypeOK, AbsentInv, ReleasePorts, ReaderInv,
       InCS, UsedAfterRelease
  <2>5. OwnedInv'
    BY <1>7, <1>0 DEF IInv, TypeOK, OwnedInv, ReleasePorts, ReaderInv,
       AbsentInv, DisjointOwnership, InCS, UsedAfterRelease
  <2>6. ListeningInv'
    BY <1>7, <1>0 DEF IInv, TypeOK, ListeningInv, ReleasePorts, ReaderInv,
       AbsentInv, OwnedInv, DisjointOwnership, InCS, UsedAfterRelease
  <2>7. TornInv'
    BY <1>7, <1>0 DEF IInv, TypeOK, TornInv, ReleasePorts, ReaderInv,
       InCS, UsedAfterRelease
  <2>8. LeakInv'
    BY <1>7, <1>0 DEF IInv, TypeOK, LeakInv, ReleasePorts, LostWith,
       ReaderInv, OwnedInv, InCS, UsedAfterRelease
  <2>9. DisjointOwnership'
    BY <1>7, <1>0 DEF IInv, TypeOK, DisjointOwnership, ReleasePorts,
       ReaderInv, OwnedInv, InCS, UsedAfterRelease
  <2>10. QED
    BY <2>1, <2>2, <2>3, <2>4, <2>5, <2>6, <2>7, <2>8, <2>9 DEF IInv
<1>8. ASSUME NEW w \in Workers, ReleaseFails(w) PROVE IInv'
  <2>1. TypeOK'
    BY StepTypeOK DEF IInv
  <2>2. LockInv'
    BY <1>8 DEF IInv, TypeOK, LockInv, ReleaseFails, InCS, Raise, LockLeft
  <2>3. ReaderInv'
    BY <1>8, <1>0 DEF IInv, TypeOK, ReaderInv, ReleaseFails, InCS, Raise,
       LockLeft
  <2>4. AbsentInv'
    BY <1>8, <1>0 DEF IInv, TypeOK, AbsentInv, ReleaseFails, ReaderInv,
       InCS, Raise, LockLeft
  <2>5. OwnedInv'
    BY <1>8, <1>0 DEF IInv, TypeOK, OwnedInv, ReleaseFails, ReaderInv,
       AbsentInv, DisjointOwnership, InCS, Raise, LockLeft
  <2>6. ListeningInv'
    BY <1>8, <1>0 DEF IInv, TypeOK, ListeningInv, ReleaseFails, ReaderInv,
       AbsentInv, OwnedInv, DisjointOwnership, InCS, Raise, LockLeft
  <2>7. TornInv'
    BY <1>8, <1>0 DEF IInv, TypeOK, TornInv, ReleaseFails, ReaderInv,
       InCS, Raise, LockLeft
  <2>8. LeakInv'
    BY <1>8, <1>0 DEF IInv, TypeOK, LeakInv, ReleaseFails, LostWith,
       ReaderInv, OwnedInv, InCS, Raise, LockLeft
  <2>9. DisjointOwnership'
    BY <1>8, <1>0 DEF IInv, TypeOK, DisjointOwnership, ReleaseFails,
       ReaderInv, OwnedInv, InCS, Raise, LockLeft
  <2>10. QED
    BY <2>1, <2>2, <2>3, <2>4, <2>5, <2>6, <2>7, <2>8, <2>9 DEF IInv
<1>9. ASSUME NEW w \in Workers, OpenFile(w) PROVE IInv'
  <2>1. TypeOK'
    BY StepTypeOK DEF IInv
  <2>2. LockInv'
    BY <1>9 DEF IInv, TypeOK, LockInv, OpenFile, InCS
  <2>3. ReaderInv'
    BY <1>9, <1>0 DEF IInv, TypeOK, ReaderInv, OpenFile, InCS
  <2>4. AbsentInv'
    BY <1>9, <1>0 DEF IInv, TypeOK, AbsentInv, OpenFile, ReaderInv, InCS
  <2>5. OwnedInv'
    BY <1>9, <1>0 DEF IInv, TypeOK, OwnedInv, OpenFile, ReaderInv,
       AbsentInv, DisjointOwnership, InCS
  <2>6. ListeningInv'
    BY <1>9, <1>0 DEF IInv, TypeOK, ListeningInv, OpenFile, ReaderInv,
       AbsentInv, OwnedInv, DisjointOwnership, InCS
  <2>7. TornInv'
    BY <1>9, <1>0 DEF IInv, TypeOK, TornInv, OpenFile, ReaderInv, InCS
  <2>8. LeakInv'
    BY <1>9, <1>0 DEF IInv, TypeOK, LeakInv, OpenFile, LostWith,
       ReaderInv, OwnedInv, InCS
  <2>9. DisjointOwnership'
    BY <1>9, <1>0 DEF IInv, TypeOK, DisjointOwnership, OpenFile,
       ReaderInv, OwnedInv, InCS
  <2>10. QED
    BY <2>1, <2>2, <2>3, <2>4, <2>5, <2>6, <2>7, <2>8, <2>9 DEF IInv
<1>10. ASSUME NEW w \in Workers, WriteFile(w) PROVE IInv'
  <2>1. TypeOK'
    BY StepTypeOK DEF IInv
  <2>2. LockInv'
    BY <1>10 DEF IInv, TypeOK, LockInv, WriteFile, InCS, LockLeft
  <2>3. ReaderInv'
    BY <1>10, <1>0 DEF IInv, TypeOK, ReaderInv, WriteFile, InCS, LockLeft
  <2>4. AbsentInv'
    BY <1>10, <1>0 DEF IInv, TypeOK, AbsentInv, WriteFile, ReaderInv,
       InCS, LockLeft
  <2>5. OwnedInv'
    BY <1>10, <1>0 DEF IInv, TypeOK, OwnedInv, WriteFile, ReaderInv,
       AbsentInv, DisjointOwnership, InCS, LockLeft
  <2>6. ListeningInv'
    BY <1>10, <1>0 DEF IInv, TypeOK, ListeningInv, WriteFile, ReaderInv,
       AbsentInv, OwnedInv, DisjointOwnership, InCS, LockLeft
  <2>7. TornInv'
    BY <1>10, <1>0 DEF IInv, TypeOK, TornInv, WriteFile, ReaderInv, InCS,
       LockLeft
  <2>8. LeakInv'
    BY <1>10, <1>0 DEF IInv, TypeOK, LeakInv, WriteFile, LostWith,
       ReaderInv, OwnedInv, InCS, LockLeft
  <2>9. DisjointOwnership'
    BY <1>10, <1>0 DEF IInv, TypeOK, DisjointOwnership, WriteFile,
       ReaderInv, OwnedInv, InCS, LockLeft
  <2>10. QED
    BY <2>1, <2>2, <2>3, <2>4, <2>5, <2>6, <2>7, <2>8, <2>9 DEF IInv
<1>11. ASSUME NEW w \in Workers, CallGet(w) PROVE IInv'
  <2>1. TypeOK'
    BY StepTypeOK DEF IInv
  <2>2. LockInv'
    BY <1>11 DEF IInv, TypeOK, LockInv, CallGet, InCS
  <2>3. ReaderInv'
    BY <1>11, <1>0 DEF IInv, TypeOK, ReaderInv, CallGet, InCS
  <2>4. AbsentInv'
    BY <1>11, <1>0 DEF IInv, TypeOK, AbsentInv, CallGet, ReaderInv, InCS
  <2>5. OwnedInv'
    BY <1>11, <1>0 DEF IInv, TypeOK, OwnedInv, CallGet, ReaderInv,
       AbsentInv, DisjointOwnership, InCS
  <2>6. ListeningInv'
    BY <1>11, <1>0 DEF IInv, TypeOK, ListeningInv, CallGet, ReaderInv,
       AbsentInv, OwnedInv, DisjointOwnership, InCS
  <2>7. TornInv'
    BY <1>11, <1>0 DEF IInv, TypeOK, TornInv, CallGet, ReaderInv, InCS
  <2>8. LeakInv'
    BY <1>11, <1>0 DEF IInv, TypeOK, LeakInv, CallGet, LostWith,
       ReaderInv, OwnedInv, InCS
  <2>9. DisjointOwnership'
    BY <1>11, <1>0 DEF IInv, TypeOK, DisjointOwnership, CallGet,
       ReaderInv, OwnedInv, InCS
  <2>10. QED
    BY <2>1, <2>2, <2>3, <2>4, <2>5, <2>6, <2>7, <2>8, <2>9 DEF IInv
<1>12. ASSUME NEW w \in Workers, CallRelease(w) PROVE IInv'
  <2>1. TypeOK'
    BY StepTypeOK DEF IInv
  <2>2. LockInv'
    BY <1>12 DEF IInv, TypeOK, LockInv, CallRelease, InCS,
       ListeningAfterKillProc
  <2>3. ReaderInv'
    BY <1>12, <1>0 DEF IInv, TypeOK, ReaderInv, CallRelease, InCS,
       ListeningAfterKillProc
  <2>4. AbsentInv'
    BY <1>12, <1>0 DEF IInv, TypeOK, AbsentInv, CallRelease, ReaderInv,
       InCS, ListeningAfterKillProc
  <2>5. OwnedInv'
    BY <1>12, <1>0 DEF IInv, TypeOK, OwnedInv, CallRelease, ReaderInv,
       AbsentInv, DisjointOwnership, InCS, ListeningAfterKillProc
  <2>6. ListeningInv'
    BY <1>12, <1>0 DEF IInv, TypeOK, ListeningInv, CallRelease, ReaderInv,
       AbsentInv, OwnedInv, DisjointOwnership, InCS,
       ListeningAfterKillProc
  <2>7. TornInv'
    BY <1>12, <1>0 DEF IInv, TypeOK, TornInv, CallRelease, ReaderInv,
       InCS, ListeningAfterKillProc
  <2>8. LeakInv'
    BY <1>12, <1>0 DEF IInv, TypeOK, LeakInv, CallRelease, LostWith,
       ReaderInv, OwnedInv, InCS, ListeningAfterKillProc
  <2>9. DisjointOwnership'
    BY <1>12, <1>0 DEF IInv, TypeOK, DisjointOwnership, CallRelease,
       ReaderInv, OwnedInv, InCS, ListeningAfterKillProc
  <2>10. QED
    BY <2>1, <2>2, <2>3, <2>4, <2>5, <2>6, <2>7, <2>8, <2>9 DEF IInv
<1>13. ASSUME NEW w \in Workers, ServerListens(w) PROVE IInv'
  <2>1. TypeOK'
    BY StepTypeOK DEF IInv
  <2>2. LockInv'
    BY <1>13 DEF IInv, TypeOK, LockInv, ServerListens, InCS
  <2>3. ReaderInv'
    BY <1>13, <1>0 DEF IInv, TypeOK, ReaderInv, ServerListens, InCS
  <2>4. AbsentInv'
    BY <1>13, <1>0 DEF IInv, TypeOK, AbsentInv, ServerListens, ReaderInv,
       InCS
  <2>5. OwnedInv'
    BY <1>13, <1>0 DEF IInv, TypeOK, OwnedInv, ServerListens, ReaderInv,
       AbsentInv, DisjointOwnership, InCS
  <2>6. ListeningInv'
    BY <1>13, <1>0 DEF IInv, TypeOK, ListeningInv, ServerListens,
       ReaderInv, AbsentInv, OwnedInv, DisjointOwnership, InCS
  <2>7. TornInv'
    BY <1>13, <1>0 DEF IInv, TypeOK, TornInv, ServerListens, ReaderInv,
       InCS
  <2>8. LeakInv'
    BY <1>13, <1>0 DEF IInv, TypeOK, LeakInv, ServerListens, LostWith,
       ReaderInv, OwnedInv, InCS
  <2>9. DisjointOwnership'
    BY <1>13, <1>0 DEF IInv, TypeOK, DisjointOwnership, ServerListens,
       ReaderInv, OwnedInv, InCS
  <2>10. QED
    BY <2>1, <2>2, <2>3, <2>4, <2>5, <2>6, <2>7, <2>8, <2>9 DEF IInv
<1>14. ASSUME NEW w \in Workers, Abandon(w) PROVE IInv'
  <2>1. TypeOK'
    BY StepTypeOK DEF IInv
  <2>2. LockInv'
    BY <1>14 DEF IInv, TypeOK, LockInv, Abandon, InCS
  <2>3. ReaderInv'
    BY <1>14, <1>0 DEF IInv, TypeOK, ReaderInv, Abandon, InCS
  <2>4. AbsentInv'
    BY <1>14, <1>0 DEF IInv, TypeOK, AbsentInv, Abandon, ReaderInv, InCS
  <2>5. OwnedInv'
    BY <1>14, <1>0 DEF IInv, TypeOK, OwnedInv, Abandon, ReaderInv,
       AbsentInv, DisjointOwnership, InCS
  <2>6. ListeningInv'
    BY <1>14, <1>0 DEF IInv, TypeOK, ListeningInv, Abandon, ReaderInv,
       AbsentInv, OwnedInv, DisjointOwnership, InCS
  <2>7. TornInv'
    BY <1>14, <1>0 DEF IInv, TypeOK, TornInv, Abandon, ReaderInv, InCS
  <2>8. LeakInv'
    BY <1>14, <1>0 DEF IInv, TypeOK, LeakInv, Abandon, LostWith,
       ReaderInv, OwnedInv, InCS
  <2>9. DisjointOwnership'
    BY <1>14, <1>0 DEF IInv, TypeOK, DisjointOwnership, Abandon,
       ReaderInv, OwnedInv, InCS
  <2>10. QED
    BY <2>1, <2>2, <2>3, <2>4, <2>5, <2>6, <2>7, <2>8, <2>9 DEF IInv
<1>15. ASSUME NEW w \in Workers, Crash(w) PROVE IInv'
  <2>1. TypeOK'
    BY StepTypeOK DEF IInv
  <2>2. LockInv'
    BY <1>15 DEF IInv, TypeOK, LockInv, Crash, InCS, LockLeft, LostWith
  <2>3. ReaderInv'
    BY <1>15, <1>0 DEF IInv, TypeOK, ReaderInv, Crash, InCS, LockLeft,
       LostWith
  <2>4. AbsentInv'
    BY <1>15, <1>0 DEF IInv, TypeOK, AbsentInv, Crash, ReaderInv, InCS,
       LockLeft, LostWith
  <2>5. OwnedInv'
    BY <1>15, <1>0 DEF IInv, TypeOK, OwnedInv, Crash, ReaderInv,
       AbsentInv, DisjointOwnership, InCS, LockLeft, LostWith
  <2>6. ListeningInv'
    BY <1>15, <1>0 DEF IInv, TypeOK, ListeningInv, Crash, ReaderInv,
       AbsentInv, OwnedInv, DisjointOwnership, InCS, LockLeft, LostWith
  <2>7. TornInv'
    BY <1>15, <1>0 DEF IInv, TypeOK, TornInv, Crash, ReaderInv, InCS,
       LockLeft, LostWith
  <2>8. LeakInv'
    BY <1>15, <1>0 DEF IInv, TypeOK, LeakInv, Crash, LostWith, ReaderInv,
       OwnedInv, InCS, LockLeft
  <2>9. DisjointOwnership'
    BY <1>15, <1>0 DEF IInv, TypeOK, DisjointOwnership, Crash, ReaderInv,
       OwnedInv, InCS, LockLeft, LostWith
  <2>10. QED
    BY <2>1, <2>2, <2>3, <2>4, <2>5, <2>6, <2>7, <2>8, <2>9 DEF IInv
<1>16. CASE UNCHANGED vars
  BY <1>16 DEF IInv, TypeOK, LockInv, InCS, ReaderInv, AbsentInv,
       OwnedInv, ListeningInv, TornInv, LeakInv, LostWith,
       DisjointOwnership, Steps, vars
<1>17. QED
  BY <1>1, <1>2, <1>3, <1>4, <1>5, <1>6, <1>7, <1>8, <1>9, <1>10, <1>11, <1>12, <1>13, <1>14, <1>15, <1>16 DEF Next, Step

\* The inductive invariant holds in every reachable state.
LEMMA InductiveInvariant ==
    ASSUME Serialised PROVE Spec => []IInv
<1>1. IInv /\ [Next]_vars => IInv'
  BY StepIInv
<1>2. QED
  BY <1>1, InitIInv, PTL DEF Spec

-----------------------------------------------------------------------------
(* The properties the runs check. *)

\* The registry's variables keep their types (all of basecontrollers.py's
\* _used_ports, get_hostname_and_port and kill).
THEOREM TypeCorrect == Spec => []TypeOK
<1>1. Init => TypeOK
  BY InitIInv DEF IInv
<1>2. TypeOK /\ [Next]_vars => TypeOK'
  BY StepTypeOK
<1>3. QED
  BY <1>1, <1>2, PTL DEF Spec

\* No port is ever given to two live controllers.
THEOREM Disjointness ==
    ASSUME Serialised PROVE Spec => []DisjointOwnership
<1>1. IInv => DisjointOwnership
  BY DEF IInv
<1>2. QED
  BY <1>1, InductiveInvariant, PTL

\* No rewrite of the file loses a port that a live controller owns.
THEOREM NoLostUpdate ==
    ASSUME Serialised PROVE Spec => []OwnershipRegistered
<1>1. IInv => OwnershipRegistered
  BY DEF IInv, OwnedInv, OwnershipRegistered, Owned, NobodyInCS, InCS
<1>2. QED
  BY <1>1, InductiveInvariant, PTL

\* kill() never raises KeyError, whatever died or raised before it.
THEOREM ReleaseSafe ==
    ASSUME Serialised PROVE Spec => []ReleaseNeverFails
<1>1. IInv => ReleaseNeverFails
  BY DEF IInv, OwnedInv, ReaderInv, ReleaseNeverFails
<1>2. QED
  BY <1>1, InductiveInvariant, PTL

\* A server of the session only ever listens on a registered port.
THEOREM ListeningSafe ==
    ASSUME Serialised PROVE Spec => []ListeningIsRegistered
<1>1. IInv => ListeningIsRegistered
  BY DEF IInv, ListeningInv, ListeningIsRegistered
<1>2. QED
  BY <1>1, InductiveInvariant, PTL

\* A controller that was killed leaves no port in the file.
THEOREM LeaksOnlyAbandoned ==
    ASSUME Serialised PROVE Spec => []OnlyAbandonedLeak
<1>1. IInv => OnlyAbandonedLeak
  BY DEF IInv, LeakInv, LostWith, OnlyAbandonedLeak, Owned, NobodyInCS, InCS
<1>2. QED
  BY <1>1, InductiveInvariant, PTL

\* Without a death in the middle of write_text, the JSON is never torn for a
\* reader.
THEOREM ReadersSafe ==
    ASSUME Serialised PROVE Spec => []ReadsWholeFile
<1>1. IInv => ReadsWholeFile
  BY Mutex DEF IInv, TornInv, ReadsWholeFile, InCS
<1>2. QED
  BY <1>1, InductiveInvariant, PTL

-----------------------------------------------------------------------------
(* The file protocol implements the allocator. *)

\* Until a file is complete for the first time it lists nothing.
EmptyInv ==
    fileState = "absent" \/ (\E w \in Workers : pc[w] = "create") => onDisk = {}

\* What the body of the with statement leaves to write: one port more, which is
\* its own, or none of its own.
ChosenInv ==
    \A w \in Workers : pc[w] = "open" =>
        /\ onDisk \subseteq usedPorts[w] \/ ownPorts[w] = {}
        /\ usedPorts[w] \ onDisk \subseteq ownPorts[w]

\* The invariant of the refinement.
RInv == IInv /\ EmptyInv /\ ChosenInv

LEMMA InitRInv == Init => RInv
<1>1. Init => EmptyInv /\ ChosenInv  BY DEF Init, EmptyInv, ChosenInv
<1> QED  BY <1>1, InitIInv DEF RInv

LEMMA StepRInv ==
    ASSUME Serialised, RInv, [Next]_vars
    PROVE  RInv'
<1>0. IInv /\ TypeOK /\ ReaderInv /\ EmptyInv /\ ChosenInv
      /\ \A u, v \in Workers : InCS(u) /\ InCS(v) => u = v
  BY Mutex DEF IInv, RInv
<1>1. IInv'  BY <1>0, StepIInv
<1> USE DEF fileVars, procVars, boundVars
<1>2. EmptyInv'
  <2>1. ASSUME NEW w \in Workers, Step(w) PROVE EmptyInv'
    BY <1>0, <2>1 DEF Step, EmptyInv, TypeOK, InCS, Enter, CreateFile, FinishCreate, ReadFile, ReadTorn,
       Raise, GetPort, ReleasePorts, ReleaseFails, OpenFile, WriteFile
  <2>2. ASSUME NEW w \in Workers, CallGet(w) \/ CallRelease(w) \/ ServerListens(w) \/ Abandon(w) \/ Crash(w)
        PROVE EmptyInv'
    BY <1>0, <2>2 DEF EmptyInv, TypeOK, CallGet, CallRelease, ServerListens, Abandon, Crash
  <2>3. CASE UNCHANGED vars  BY <1>0, <2>3 DEF EmptyInv, vars
  <2> QED  BY <2>1, <2>2, <2>3 DEF Next
<1>3. ChosenInv'
  <2>1. ASSUME NEW w \in Workers, Step(w) PROVE ChosenInv'
    <3>1. CASE Enter(w) \/ CreateFile(w) \/ FinishCreate(w) \/ ReadFile(w)
      BY <1>0, <2>1, <3>1 DEF ChosenInv, TypeOK, InCS, Enter, CreateFile, FinishCreate, ReadFile
    <3>2. CASE ReadTorn(w) \/ ReleaseFails(w)
      BY <1>0, <2>1, <3>2 DEF ChosenInv, TypeOK, InCS, ReadTorn, ReleaseFails, Raise
    <3>3. CASE GetPort(w)
      BY <1>0, <2>1, <3>3 DEF ChosenInv, ReaderInv, TypeOK, InCS, GetPort, UsedAfterGet
    <3>4. CASE ReleasePorts(w)
      BY <1>0, <2>1, <3>4 DEF ChosenInv, ReaderInv, TypeOK, InCS, ReleasePorts, UsedAfterRelease
    <3>5. CASE OpenFile(w) \/ WriteFile(w)
      BY <1>0, <2>1, <3>5 DEF ChosenInv, TypeOK, InCS, OpenFile, WriteFile
    <3> QED  BY <2>1, <3>1, <3>2, <3>3, <3>4, <3>5 DEF Step
  <2>2. ASSUME NEW w \in Workers, CallGet(w) \/ CallRelease(w) \/ ServerListens(w) \/ Abandon(w) \/ Crash(w)
        PROVE ChosenInv'
    BY <1>0, <2>2 DEF ChosenInv, TypeOK, CallGet, CallRelease, ServerListens, Abandon, Crash
  <2>3. CASE UNCHANGED vars  BY <1>0, <2>3 DEF ChosenInv, vars
  <2> QED  BY <2>1, <2>2, <2>3 DEF Next
<1> QED  BY <1>1, <1>2, <1>3 DEF RInv

\* A step that changes neither what is held nor what is registered.
LEMMA Stutters ==
    ASSUME Registered' = Registered,
           \A v \in Workers : LostWith(v)' = LostWith(v)
    PROVE  UNCHANGED Allocator!vars
  BY DEF Allocator!vars, Held, LostPorts

\* A step by which one worker has nothing any more, and the file is the same.
LEMMA Drops ==
    ASSUME NEW w \in Workers, Registered' = Registered,
           \A v \in Workers : LostWith(v)' = IF v = w THEN {} ELSE LostWith(v)
    PROVE  Allocator!Lose(w)
<1> DEFINE U == UNION {LostWith(v) : v \in Workers \ {w}}
           S == (Registered \cap LostWith(w)) \ U
<1>1. Held' = [Held EXCEPT ![w] = {}]  BY DEF Held
<1>2. LostPorts = Registered \ (U \cup LostWith(w))  BY DEF LostPorts
<1>3. LostPorts' = Registered \ U
  <2>1. UNION {LostWith(v)' : v \in Workers} = U  OBVIOUS
  <2> QED  BY <2>1 DEF LostPorts
<1>4. S \in SUBSET Held[w]  BY DEF Held
<1>5. LostPorts' = LostPorts \cup S  BY <1>2, <1>3
<1> QED  BY <1>1, <1>4, <1>5 DEF Allocator!Lose

LEMMA StepRefines ==
    ASSUME Serialised, RInv, [Next]_vars
    PROVE  [Allocator!Next]_(Allocator!vars)
<1>0. /\ TypeOK /\ ReaderInv /\ EmptyInv /\ ChosenInv /\ OwnedInv
      /\ \A u, v \in Workers : InCS(u) /\ InCS(v) => u = v
  BY Mutex DEF IInv, RInv
<1> USE DEF fileVars, procVars, boundVars
<1>1. ASSUME NEW w \in Workers,
             \/ Enter(w) \/ ReadFile(w) \/ CallGet(w) \/ CallRelease(w) \/ ServerListens(w)
      PROVE  UNCHANGED Allocator!vars
  <2>1. \A v \in Workers : /\ LostWith(v)' = LostWith(v)
                           /\ pc'[v] \in {"create", "write"} <=> pc[v] \in {"create", "write"}
                           /\ pc'[v] = "write" <=> pc[v] = "write"
                           /\ pc[v] = "write" => usedPorts'[v] = usedPorts[v]
    BY <1>0, <1>1 DEF TypeOK, LostWith, Enter, ReadFile, CallGet, CallRelease, ServerListens
  <2>2. fileState' = fileState /\ onDisk' = onDisk
    BY <1>1 DEF Enter, ReadFile, CallGet, CallRelease, ServerListens
  <2>3. Registered' = Registered
    BY <2>1, <2>2 DEF Registered, Unreadable, Writers
  <2> QED  BY <2>1, <2>3, Stutters
<1>2. ASSUME NEW w \in Workers, CreateFile(w) \/ FinishCreate(w)
      PROVE  UNCHANGED Allocator!vars
  <2>1. \A v \in Workers : LostWith(v)' = LostWith(v)
    BY <1>0, <1>2 DEF TypeOK, LostWith, InCS, CreateFile, FinishCreate
  <2>2. /\ Writers = {} /\ Writers' = {} /\ ~Unreadable /\ ~Unreadable'
        /\ onDisk = {} /\ onDisk' = {}
    BY <1>0, <1>2 DEF TypeOK, EmptyInv, ReaderInv, InCS, Writers, Unreadable, CreateFile, FinishCreate
  <2>3. Registered' = Registered  BY <2>2 DEF Registered
  <2> QED  BY <2>1, <2>3, Stutters
<1>3. ASSUME NEW w \in Workers, GetPort(w)
      PROVE  Allocator!Allocate(w)
  <2>1. PICK p \in Candidates(w) :
           /\ usedPorts' = [usedPorts EXCEPT ![w] = UsedAfterGet(w, p)]
           /\ ownPorts' = [ownPorts EXCEPT ![w] = @ \cup {p}]
    BY <1>3 DEF GetPort
  <2>2. /\ fileState = "complete" /\ usedPorts[w] = onDisk
        /\ fileState' = "complete" /\ onDisk' = onDisk /\ pc' = [pc EXCEPT ![w] = "open"] /\ pc[w] = "body"
    BY <1>0, <1>3 DEF ReaderInv, GetPort
  <2>3. \A v \in Workers : pc[v] \notin {"open", "write"} /\ (pc'[v] = "open" <=> v = w) /\ pc'[v] # "write"
    BY <1>0, <2>2 DEF TypeOK, InCS
  <2>4. Registered = onDisk /\ Registered' = onDisk
    BY <2>2, <2>3 DEF Registered, Unreadable, Writers
  <2>5. p \in Ports /\ p \notin onDisk  BY <2>1, <2>2 DEF Candidates
  <2>6. \A v \in Workers : LostWith(v) = ownPorts[v] /\ LostWith(v) \subseteq onDisk
    BY <1>0, <2>2, <2>3 DEF LostWith, OwnedInv
  <2>7. \A v \in Workers : LostWith(v)' = IF v = w THEN LostWith(v) \cup {p} ELSE LostWith(v)
    <3>1. ownPorts'[w] = ownPorts[w] \cup {p} /\ \A v \in Workers \ {w} : ownPorts'[v] = ownPorts[v]
      BY <1>0, <2>1 DEF TypeOK
    <3>2. usedPorts'[w] = onDisk \cup {p}  BY <1>0, <2>1, <2>2 DEF TypeOK, UsedAfterGet
    <3> QED  BY <2>2, <2>3, <2>6, <3>1, <3>2 DEF LostWith
  <2>8. Held' = [Held EXCEPT ![w] = @ \cup {p}]  BY <2>7 DEF Held
  <2>9. UNCHANGED LostPorts
    <3>1. UNION {LostWith(v)' : v \in Workers} = (UNION {LostWith(v) : v \in Workers}) \cup {p}
      BY <2>7
    <3> QED  BY <2>4, <2>5, <3>1 DEF LostPorts
  <2>10. p \in Ports \ (LostPorts \cup Held[w] \cup Allocator!OwnedByOthers(w))
    BY <2>4, <2>5, <2>6 DEF LostPorts, Held, Allocator!OwnedByOthers
  <2> QED  BY <2>8, <2>9, <2>10 DEF Allocator!Allocate
<1>4. ASSUME NEW w \in Workers, ReleasePorts(w)
      PROVE  UNCHANGED Allocator!vars
  <2>1. /\ fileState = "complete" /\ usedPorts[w] = onDisk /\ ownPorts[w] \subseteq onDisk
        /\ fileState' = "complete" /\ onDisk' = onDisk /\ pc' = [pc EXCEPT ![w] = "open"] /\ pc[w] = "body"
        /\ usedPorts'[w] = onDisk \ ownPorts[w] /\ ownPorts' = [ownPorts EXCEPT ![w] = {}]
    BY <1>0, <1>4 DEF TypeOK, ReaderInv, ReleasePorts, UsedAfterRelease
  <2>2. \A v \in Workers : pc[v] \notin {"open", "write"} /\ (pc'[v] = "open" <=> v = w) /\ pc'[v] # "write"
    BY <1>0, <2>1 DEF TypeOK, InCS
  <2>3. Registered' = Registered  BY <2>1, <2>2 DEF Registered, Unreadable, Writers
  <2>4. \A v \in Workers : LostWith(v)' = LostWith(v)
    <3>1. ownPorts'[w] = {} /\ \A v \in Workers \ {w} : ownPorts'[v] = ownPorts[v]
      BY <1>0, <2>1 DEF TypeOK
    <3> QED  BY <2>1, <2>2, <3>1 DEF LostWith
  <2> QED  BY <2>3, <2>4, Stutters
<1>5. ASSUME NEW w \in Workers, OpenFile(w)
      PROVE  UNCHANGED Allocator!vars \/ Allocator!Free(w)
  <2>1. /\ pc[w] = "open" /\ fileState = "complete" /\ fileState' = "torn"
        /\ pc' = [pc EXCEPT ![w] = "write"] /\ UNCHANGED <<onDisk, usedPorts, ownPorts>>
    BY <1>0, <1>5 DEF ReaderInv, OpenFile
  <2>2. \A v \in Workers : /\ v # w => pc[v] \notin {"create", "open", "write"} /\ pc'[v] = pc[v]
                           /\ pc'[v] = "write" <=> v = w
    BY <1>0, <2>1 DEF TypeOK, InCS
  <2>3. Registered = onDisk  BY <2>1, <2>2 DEF Registered, Unreadable, Writers
  <2>4. Registered' = usedPorts[w]
    <3>1. Writers' = {w} /\ ~Unreadable'  BY <2>1, <2>2 DEF Writers, Unreadable
    <3> QED  BY <2>1, <3>1 DEF Registered
  <2>5. \A v \in Workers : /\ LostWith(v)' = ownPorts[v]
                           /\ LostWith(v) = IF v = w THEN ownPorts[w] \cup (onDisk \ usedPorts[w]) ELSE ownPorts[v]
    BY <2>1, <2>2 DEF LostWith
  <2>6. CASE onDisk \subseteq usedPorts[w]
    <3>1. \A v \in Workers : LostWith(v)' = LostWith(v)  BY <2>5, <2>6
    <3>2. usedPorts[w] \ onDisk \subseteq LostWith(w)  BY <1>0, <2>1, <2>5 DEF ChosenInv
    <3>3. LostPorts' = LostPorts
      <4> DEFINE U == UNION {LostWith(v) : v \in Workers}
      <4>1. U' = U  BY <3>1
      <4>2. LostWith(w) \subseteq U  OBVIOUS
      <4>3. LostPorts = onDisk \ U /\ LostPorts' = usedPorts[w] \ U'  BY <2>3, <2>4 DEF LostPorts
      <4> QED  BY <2>6, <3>2, <4>1, <4>2, <4>3
    <3> QED  BY <3>1, <3>3 DEF Held, Allocator!vars
  <2>7. CASE ownPorts[w] = {} /\ usedPorts[w] \subseteq onDisk
    <3>1. LostWith(w)' = {} /\ LostWith(w) = onDisk \ usedPorts[w]
          /\ \A v \in Workers \ {w} : LostWith(v)' = LostWith(v)
      BY <2>5, <2>7
    <3>2. Held' = [Held EXCEPT ![w] = {}]  BY <3>1 DEF Held
    <3>3. LostPorts' = LostPorts
      <4> DEFINE U == UNION {LostWith(v) : v \in Workers \ {w}}
      <4>1. UNION {LostWith(v)' : v \in Workers} = U  BY <3>1
      <4>2. UNION {LostWith(v) : v \in Workers} = U \cup (onDisk \ usedPorts[w])  BY <3>1
      <4> QED  BY <2>3, <2>4, <2>7, <4>1, <4>2 DEF LostPorts
    <3> QED  BY <3>2, <3>3 DEF Allocator!Free
  <2> QED  BY <1>0, <2>1, <2>6, <2>7 DEF ChosenInv
<1>6. ASSUME NEW w \in Workers, WriteFile(w)
      PROVE  UNCHANGED Allocator!vars
  <2>1. /\ pc[w] = "write" /\ fileState' = "complete" /\ onDisk' = usedPorts[w]
        /\ pc' = [pc EXCEPT ![w] = "idle"] /\ ownPorts' = ownPorts
    BY <1>6 DEF WriteFile
  <2>2. \A v \in Workers : /\ pc[v] # "open" /\ pc'[v] \notin {"open", "write"}
                           /\ pc[v] = "write" <=> v = w
    BY <1>0, <2>1 DEF TypeOK, InCS
  <2>3. Registered = usedPorts[w]
    <3>1. Writers = {w} /\ ~Unreadable  BY <2>1, <2>2 DEF Writers, Unreadable
    <3> QED  BY <3>1 DEF Registered
  <2>4. Registered' = usedPorts[w]  BY <2>1, <2>2 DEF Registered, Unreadable, Writers
  <2>5. \A v \in Workers : LostWith(v)' = LostWith(v)  BY <2>1, <2>2 DEF LostWith
  <2> QED  BY <2>3, <2>4, <2>5, Stutters
<1>7. ASSUME NEW w \in Workers,
             \/ ReadTorn(w) \/ ReleaseFails(w) \/ Abandon(w)
             \/ Crash(w) /\ pc[w] \notin {"create", "write"}
      PROVE  Allocator!Lose(w)
  <2>1. /\ fileState' = fileState /\ onDisk' = onDisk
        /\ pc[w] \notin {"create", "write"} /\ pc' = [pc EXCEPT ![w] = "idle"]
        /\ ownPorts' = [ownPorts EXCEPT ![w] = {}]
        /\ \A v \in Workers \ {w} : usedPorts'[v] = usedPorts[v]
    BY <1>0, <1>7 DEF TypeOK, ReadTorn, ReleaseFails, Raise, Abandon, Crash
  <2>2. \A v \in Workers : LostWith(v)' = IF v = w THEN {} ELSE LostWith(v)
    BY <1>0, <2>1 DEF TypeOK, LostWith
  <2>3. Registered' = Registered
    <3>1. \A v \in Workers : /\ pc'[v] \in {"create", "write"} <=> pc[v] \in {"create", "write"}
                             /\ pc'[v] = "write" <=> pc[v] = "write"
                             /\ pc[v] = "write" => usedPorts'[v] = usedPorts[v]
      BY <1>0, <2>1 DEF TypeOK
    <3>2. Writers' = Writers /\ Unreadable' = Unreadable  BY <2>1, <3>1 DEF Unreadable, Writers
    <3>3. {usedPorts'[v] : v \in Writers} = {usedPorts[v] : v \in Writers}  BY <3>1 DEF Writers
    <3> QED  BY <2>1, <3>2, <3>3 DEF Registered
  <2> QED  BY <2>2, <2>3, Drops
<1>8. ASSUME NEW w \in Workers, Crash(w), pc[w] \in {"create", "write"}
      PROVE  Allocator!Break(w)
  <2>1. /\ fileState = "torn" /\ fileState' = "torn" /\ pc' = [pc EXCEPT ![w] = "idle"]
        /\ ownPorts' = [ownPorts EXCEPT ![w] = {}] /\ onDisk' = onDisk
        /\ \A v \in Workers \ {w} : usedPorts'[v] = usedPorts[v]
    BY <1>0, <1>8 DEF TypeOK, ReaderInv, Crash
  <2>2. \A v \in Workers : pc'[v] \notin {"create", "write"}
    BY <1>0, <1>8, <2>1 DEF TypeOK, InCS
  <2>3. Registered' = Ports  BY <2>1, <2>2 DEF Registered, Unreadable
  <2>4. \A v \in Workers : LostWith(v)' = IF v = w THEN {} ELSE LostWith(v)
    BY <1>0, <2>1 DEF TypeOK, LostWith
  <2>5. Held' = [Held EXCEPT ![w] = {}]  BY <2>4 DEF Held
  <2>6. LostPorts' = Ports \ Allocator!OwnedByOthers(w)
    <3>1. UNION {LostWith(v)' : v \in Workers} = UNION {LostWith(v) : v \in Workers \ {w}}
      BY <2>4
    <3>2. Allocator!OwnedByOthers(w) = UNION {LostWith(v) : v \in Workers \ {w}}
      BY DEF Allocator!OwnedByOthers, Held
    <3> QED  BY <2>3, <3>1, <3>2 DEF LostPorts
  <2> QED  BY <2>5, <2>6 DEF Allocator!Break
<1>9. CASE UNCHANGED vars
  <2>1. \A v \in Workers : LostWith(v)' = LostWith(v)  BY <1>9 DEF vars, LostWith
  <2>2. Registered' = Registered  BY <1>9 DEF vars, Registered, Unreadable, Writers
  <2> QED  BY <2>1, <2>2, Stutters
<1> QED
  BY <1>1, <1>2, <1>3, <1>4, <1>5, <1>6, <1>7, <1>8, <1>9 DEF Next, Step, Allocator!Next

\* The calls of _used_ports() take effect one at a time, whatever happens
\* between their steps, and a port that was lost is not given again.
THEOREM ImplementsPortAllocator ==
    ASSUME Serialised PROVE Spec => ImplementsAllocator
<1>1. Init => Allocator!Init
  <2>1. Init => \A v \in Workers : LostWith(v) = {}  BY DEF Init, LostWith
  <2>2. Init => Registered = {}  BY DEF Init, Registered, Unreadable, Writers
  <2> QED  BY <2>1, <2>2 DEF Allocator!Init, Held, LostPorts
<1>2. RInv /\ [Next]_vars => RInv'  BY StepRInv
<1>3. RInv /\ [Next]_vars => [Allocator!Next]_(Allocator!vars)  BY StepRefines
<1> QED
  BY <1>1, <1>2, <1>3, InitRInv, PTL DEF Spec, ImplementsAllocator, Allocator!Spec

-----------------------------------------------------------------------------
(* Calls of _used_ports() end: what there is to prove of it without        *)
(* fairness.  A call is short, and somebody can always take a step of one. *)

\* Steps of its worker that a call has left, at most.  Once the file exists
\* nobody creates it again.
StepsLeft(w) ==
    CASE pc[w] = "wait" -> 7
      [] pc[w] = "read" /\ fileState = "absent" -> 6
      [] pc[w] = "create" -> 5
      [] pc[w] = "read" /\ fileState # "absent" -> 4
      [] pc[w] = "body" -> 3
      [] pc[w] = "open" -> 2
      [] pc[w] = "write" -> 1
      [] pc[w] = "idle" -> 0

\* The same, told by equations.
StepsCounted ==
    \A w \in Workers :
        /\ StepsLeft(w) \in 0..7
        /\ pc[w] = "wait" => StepsLeft(w) = 7
        /\ pc[w] = "read" /\ fileState = "absent" => StepsLeft(w) = 6
        /\ pc[w] = "create" => StepsLeft(w) = 5
        /\ pc[w] = "read" /\ fileState # "absent" => StepsLeft(w) = 4
        /\ pc[w] = "body" => StepsLeft(w) = 3
        /\ pc[w] = "open" => StepsLeft(w) = 2
        /\ pc[w] = "write" => StepsLeft(w) = 1
        /\ pc[w] = "idle" => StepsLeft(w) = 0

LEMMA StepsAreCounted == TypeOK => StepsCounted
<1> SUFFICES ASSUME TypeOK, NEW w \in Workers
             PROVE  /\ StepsLeft(w) \in 0..7
                    /\ pc[w] = "wait" => StepsLeft(w) = 7
                    /\ pc[w] = "read" /\ fileState = "absent" => StepsLeft(w) = 6
                    /\ pc[w] = "create" => StepsLeft(w) = 5
                    /\ pc[w] = "read" /\ fileState # "absent" => StepsLeft(w) = 4
                    /\ pc[w] = "body" => StepsLeft(w) = 3
                    /\ pc[w] = "open" => StepsLeft(w) = 2
                    /\ pc[w] = "write" => StepsLeft(w) = 1
                    /\ pc[w] = "idle" => StepsLeft(w) = 0
  BY DEF StepsCounted
<1>1. pc[w] \in {"idle", "wait", "read", "create", "body", "open", "write"}
  BY DEF TypeOK, Steps
<1> QED  BY <1>1 DEF StepsLeft

LEMMA StepsStayCounted == TypeOK' => StepsCounted'
  BY StepsAreCounted, PTL

\* A step of worker v is one less that it has left, and leaves the others that
\* are in a call no more than they had.
LEMMA StepShortens ==
    ASSUME TypeOK, TypeOK', NEW v \in Workers, Step(v), NEW w \in Workers
    PROVE  IF w = v THEN StepsLeft(w)' < StepsLeft(w) ELSE StepsLeft(w)' <= StepsLeft(w)
<1> USE DEF fileVars
<1>1. /\ \A u \in Workers \ {v} : pc'[u] = pc[u]
      /\ fileState # "absent" => fileState' # "absent"
  BY DEF TypeOK, Step, Enter, CreateFile, FinishCreate, ReadFile, ReadTorn, Raise, GetPort,
     ReleasePorts, ReleaseFails, OpenFile, WriteFile
<1>2. CASE w # v
  <2>1. pc'[w] = pc[w]  BY <1>1, <1>2
  <2>2. pc[w] \in {"idle", "wait", "read", "create", "body", "open", "write"}  BY DEF TypeOK, Steps
  <2> QED  BY <1>1, <1>2, <2>1, <2>2, StepsAreCounted, StepsStayCounted DEF StepsCounted
<1>3. CASE w = v
  <2>1. \/ pc[v] = "wait" /\ pc'[v] = "read"
        \/ pc[v] = "read" /\ fileState = "absent" /\ pc'[v] = "create"
        \/ pc[v] = "create" /\ pc'[v] = "read" /\ fileState' = "complete"
        \/ pc[v] = "read" /\ fileState # "absent" /\ pc'[v] = "body"
        \/ pc[v] = "body" /\ pc'[v] = "open"
        \/ pc[v] = "open" /\ pc'[v] = "write"
        \/ pc[v] \in {"read", "body", "write"} /\ pc'[v] = "idle"
    BY DEF TypeOK, Step, Enter, CreateFile, FinishCreate, ReadFile, ReadTorn, Raise, GetPort,
       ReleasePorts, ReleaseFails, OpenFile, WriteFile
  <2> QED  BY <1>3, <2>1, StepsAreCounted, StepsStayCounted DEF StepsCounted
<1> QED  BY <1>2, <1>3

\* While a worker is in a call, nothing anybody does gives it more steps.
LEMMA CallOnlyShortens ==
    ASSUME TypeOK, TypeOK', [Next]_vars, NEW w \in Workers, pc[w] # "idle"
    PROVE  StepsLeft(w)' <= StepsLeft(w)
<1>1. ASSUME NEW v \in Workers, Step(v)
      PROVE  StepsLeft(w)' <= StepsLeft(w)
  <2>1. StepsLeft(w)' \in 0..7 /\ StepsLeft(w) \in 0..7  BY StepsAreCounted, StepsStayCounted DEF StepsCounted
  <2> QED  BY <1>1, <2>1, StepShortens
<1>2. ASSUME NEW v \in Workers,
             CallGet(v) \/ CallRelease(v) \/ ServerListens(v) \/ Abandon(v) \/ Crash(v)
      PROVE  StepsLeft(w)' <= StepsLeft(w)
  <2>1. fileState' = fileState /\ (pc'[w] = pc[w] \/ pc'[w] = "idle")
    BY <1>2 DEF TypeOK, CallGet, CallRelease, ServerListens, Abandon, Crash, fileVars
  <2>2. pc[w] \in {"idle", "wait", "read", "create", "body", "open", "write"}  BY DEF TypeOK, Steps
  <2> QED  BY <2>1, <2>2, StepsAreCounted, StepsStayCounted DEF StepsCounted
<1>3. CASE UNCHANGED vars
  <2>1. StepsLeft(w)' = StepsLeft(w)  BY <1>3 DEF vars, StepsLeft
  <2> QED  BY <2>1, StepsAreCounted DEF StepsCounted
<1> QED  BY <1>1, <1>2, <1>3 DEF Next

\* A call of get_hostname_and_port() or kill() takes at most seven steps of its
\* worker, with or without a lock, whatever the others do with the file: only
\* the wait for the lock, and the loop for a port, may be long.
THEOREM CallsAreShort ==
    Spec => [][\A w \in Workers :
                 /\ Step(w) => StepsLeft(w)' < StepsLeft(w)
                 /\ pc[w] # "idle" => StepsLeft(w)' <= StepsLeft(w)]_vars
<1>1. Init => TypeOK  BY InitIInv DEF IInv
<1>2. TypeOK /\ [Next]_vars => TypeOK'  BY StepTypeOK
<1>3. TypeOK /\ TypeOK' /\ [Next]_vars
      => [\A w \in Workers :
            /\ Step(w) => StepsLeft(w)' < StepsLeft(w)
            /\ pc[w] # "idle" => StepsLeft(w)' <= StepsLeft(w)]_vars
  BY StepShortens, CallOnlyShortens
<1> QED  BY <1>1, <1>2, <1>3, PTL DEF Spec

\* The loop of get_hostname_and_port() spins only when every port belongs to a
\* live controller, or was leaked.
LEMMA SpinsWithoutPorts ==
    ASSUME Serialised, IInv, NEW w \in Workers,
           pc[w] = "body", op[w] = "get", Candidates(w) = {}
    PROVE  NoPortLeft
<1>1. fileState = "complete" /\ usedPorts[w] = onDisk  BY DEF IInv, ReaderInv
<1>2. listening \subseteq onDisk  BY <1>1 DEF IInv, ListeningInv
<1>3. Ports \subseteq onDisk  BY <1>1, <1>2 DEF Candidates
<1>4. \A v \in Workers : pc[v] # "open"
  BY Mutex DEF IInv, InCS
<1>5. \A p \in onDisk : p \in abandoned \/ \E v \in Workers : p \in ownPorts[v]
  BY <1>1, <1>4 DEF IInv, LeakInv, LostWith
<1> QED  BY <1>3, <1>5 DEF NoPortLeft, Owned

\* A worker in a call can go on, or waits for one that can.
RegistryMoves ==
    \A w \in Workers :
        \/ pc[w] = "idle" \/ CanStep(w) \/ NoPortLeft
        \/ pc[w] = "wait" /\ lock \in Workers /\ CanStep(lock)

LEMMA RegistryCanMove ==
    ASSUME Serialised, IInv
    PROVE  RegistryMoves
<1> SUFFICES ASSUME ~NoPortLeft, NEW w \in Workers, pc[w] # "idle", ~CanStep(w)
             PROVE  pc[w] = "wait" /\ lock \in Workers /\ CanStep(lock)
  BY DEF RegistryMoves
<1>1. \A v \in Workers : InCS(v) => CanStep(v)
  BY SpinsWithoutPorts DEF InCS, CanStep
<1>2. pc[w] = "wait"
  BY <1>1 DEF IInv, TypeOK, Steps, InCS
<1>3. XDist /\ lock # NoWorker
  BY <1>2 DEF CanStep, MayEnter
<1>4. lock \in Workers  BY <1>3 DEF IInv, TypeOK
<1>5. InCS(lock)  BY <1>3, <1>4 DEF IInv, LockInv
<1> QED  BY <1>1, <1>2, <1>4, <1>5

\* Nobody waits for the lock of a worker that waits for something itself: the
\* holder can go on, or spins because there is no port left.
THEOREM LockHolderCanStep ==
    ASSUME Serialised PROVE Spec => []RegistryMoves
<1>1. IInv /\ [Next]_vars => IInv'  BY StepIInv
<1>2. IInv => RegistryMoves  BY RegistryCanMove
<1> QED  BY <1>1, <1>2, InitIInv, PTL DEF Spec

\* Port p is known to somebody, or was leaked.
Taken(p) ==
    \/ p \in onDisk \cup abandoned \cup listening
    \/ \E w \in Workers : p \in ownPorts[w] \/ p \in usedPorts[w]

\* Worker w asked for a port, and was not given one yet.
Choosing(w) == op[w] = "get" /\ pc[w] \in {"wait", "read", "create", "body"}

\* Calls that were given a port: pairs of a worker and the number of a call.
Given == {d \in Workers \X (1..MaxCalls) :
             d[2] <= calls[d[1]] /\ (Choosing(d[1]) => d[2] < calls[d[1]])}

\* Every port that was ever used was given by one of them.
CountInv ==
    /\ \A w \in Workers : Choosing(w) => calls[w] >= 1
    /\ \E D \in SUBSET Given : \E h \in [D -> Ports] : \A p : Taken(p) => \E d \in D : h[d] = p

LEMMA StepCountInv ==
    ASSUME TypeOK, CountInv, [Next]_vars
    PROVE  CountInv'
<1> USE PortsAssumption DEF fileVars, procVars, boundVars
<1>0. /\ TypeOK /\ TypeOK'
      /\ \A w \in Workers : calls[w] \in 0..MaxCalls /\ calls[w] \in Int
      /\ MaxCalls \in Nat
  BY StepTypeOK DEF TypeOK
<1>1. ASSUME \A w \in Workers : Choosing(w)' => calls'[w] >= 1,
             Given \subseteq Given', \A p : Taken(p)' => Taken(p)
      PROVE  CountInv'
  <2>1. PICK D \in SUBSET Given : \E h \in [D -> Ports] : \A p : Taken(p) => \E d \in D : h[d] = p
    BY DEF CountInv
  <2>2. D \in SUBSET Given'  BY <1>1, <2>1
  <2>3. \E h \in [D -> Ports] : \A p : Taken(p)' => \E d \in D : h[d] = p  BY <1>1, <2>1
  <2> QED  BY <1>1, <2>2, <2>3 DEF CountInv
<1>2. ASSUME NEW w \in Workers,
             \/ Enter(w) \/ CreateFile(w) \/ FinishCreate(w) \/ ReadFile(w) \/ ReadTorn(w)
             \/ ReleasePorts(w) \/ ReleaseFails(w) \/ OpenFile(w) \/ WriteFile(w)
             \/ ServerListens(w) \/ Abandon(w) \/ Crash(w)
      PROVE  CountInv'
  <2>1. /\ calls' = calls
        /\ \A v \in Workers : Choosing(v)' => Choosing(v)
    BY <1>0, <1>2 DEF TypeOK, Enter, CreateFile, FinishCreate, ReadFile, ReadTorn, ReleasePorts, ReleaseFails,
       Raise, OpenFile, WriteFile, ServerListens, Abandon, Crash, Choosing
  <2>2. \A p : Taken(p)' => Taken(p)
    <3>1. CASE Enter(w) \/ CreateFile(w) \/ FinishCreate(w) \/ OpenFile(w)
      BY <3>1 DEF Enter, CreateFile, FinishCreate, OpenFile, Taken
    <3>2. CASE ReadFile(w) \/ ReleasePorts(w) \/ WriteFile(w)
      BY <1>0, <3>2 DEF TypeOK, ReadFile, ReleasePorts, UsedAfterRelease, WriteFile, Taken
    <3>3. CASE ReadTorn(w) \/ ReleaseFails(w) \/ Abandon(w)
      BY <1>0, <3>3 DEF TypeOK, ReadTorn, ReleaseFails, Raise, Abandon, Taken
    <3>4. CASE Crash(w)
      <4>1. \A p \in LostWith(w) : Taken(p)  BY DEF LostWith, Taken
      <4>2. /\ onDisk' = onDisk /\ listening' = listening /\ abandoned' = abandoned \cup LostWith(w)
            /\ \A v \in Workers : ownPorts'[v] \subseteq ownPorts[v] /\ usedPorts'[v] \subseteq usedPorts[v]
        BY <1>0, <3>4 DEF TypeOK, Crash
      <4> QED  BY <4>1, <4>2 DEF Taken
    <3>5. CASE ServerListens(w)
      BY <1>0, <3>5 DEF TypeOK, ServerListens, Taken
    <3> QED  BY <1>2, <3>1, <3>2, <3>3, <3>4, <3>5
  <2>3. Given \subseteq Given'  BY <2>1 DEF Given
  <2> QED  BY <1>1, <2>1, <2>2, <2>3 DEF CountInv
<1>3. ASSUME NEW w \in Workers, CallGet(w) \/ CallRelease(w)
      PROVE  CountInv'
  <2>1. /\ pc[w] = "idle" /\ calls' = [calls EXCEPT ![w] = @ + 1]
        /\ \A v \in Workers \ {w} : Choosing(v)' <=> Choosing(v)
    BY <1>0, <1>3 DEF TypeOK, CallGet, CallRelease, Choosing
  <2>2. \A p : Taken(p)' => Taken(p)
    BY <1>3 DEF CallGet, CallRelease, ListeningAfterKillProc, Taken
  <2>3. calls'[w] = calls[w] + 1 /\ \A v \in Workers \ {w} : calls'[v] = calls[v]
    BY <1>0, <2>1 DEF TypeOK
  <2>4. Given \subseteq Given'
    <3> SUFFICES ASSUME NEW v \in Workers, NEW n \in 1..MaxCalls, n <= calls[v],
                        Choosing(v) => n < calls[v]
                 PROVE  n <= calls'[v] /\ (Choosing(v)' => n < calls'[v])
      BY DEF Given
    <3> QED  BY <1>0, <2>1, <2>3
  <2>5. \A v \in Workers : Choosing(v)' => calls'[v] >= 1
    BY <1>0, <2>1, <2>3 DEF CountInv
  <2> QED  BY <1>1, <2>2, <2>4, <2>5
<1>4. ASSUME NEW w \in Workers, GetPort(w)
      PROVE  CountInv'
  <2>1. PICK p \in Candidates(w) :
           /\ usedPorts' = [usedPorts EXCEPT ![w] = UsedAfterGet(w, p)]
           /\ ownPorts' = [ownPorts EXCEPT ![w] = @ \cup {p}]
    BY <1>4 DEF GetPort
  <2>2. p \in Ports /\ \A q : Taken(q)' => Taken(q) \/ q = p
    <3>1. p \in Ports /\ onDisk' = onDisk /\ listening' = listening /\ abandoned' = abandoned
      BY <1>4, <2>1 DEF GetPort, Candidates
    <3>2. \A v \in Workers : /\ ownPorts'[v] \subseteq ownPorts[v] \cup {p}
                             /\ usedPorts'[v] \subseteq usedPorts[v] \cup {p}
      BY <1>0, <2>1 DEF TypeOK, UsedAfterGet
    <3> QED  BY <3>1, <3>2 DEF Taken
  <2>3. /\ calls' = calls /\ Choosing(w) /\ ~Choosing(w)'
        /\ \A v \in Workers \ {w} : Choosing(v)' <=> Choosing(v)
    BY <1>0, <1>4 DEF TypeOK, GetPort, Choosing
  <2>4. PICK D \in SUBSET Given : \E h \in [D -> Ports] : \A q : Taken(q) => \E d \in D : h[d] = q
    BY DEF CountInv
  <2>5. PICK h \in [D -> Ports] : \A q : Taken(q) => \E d \in D : h[d] = q
    BY <2>4
  <2> DEFINE new == <<w, calls[w]>>
             E == D \cup {new}
             g == [d \in E |-> IF d = new THEN p ELSE h[d]]
  <2>6. calls[w] \in 1..MaxCalls  BY <1>0, <2>3 DEF CountInv
  <2>7. new \notin D  BY <1>0, <2>3, <2>4 DEF Given
  <2>8. Given \subseteq Given' /\ new \in Given'
    <3>1. new \in Given'  BY <1>0, <2>3, <2>6 DEF Given
    <3>2. Given \subseteq Given'  BY <2>3 DEF Given
    <3> QED  BY <3>1, <3>2
  <2>9. E \in SUBSET Given'  BY <2>4, <2>8
  <2>10. g \in [E -> Ports]  BY <2>2, <2>5
  <2>11. ASSUME NEW q, Taken(q)' PROVE \E d \in E : g[d] = q
    <3>1. CASE q = p
      BY <3>1
    <3>2. CASE q # p
      <4>1. PICK d \in D : h[d] = q  BY <2>2, <2>5, <2>11, <3>2
      <4>2. d \in E /\ g[d] = q  BY <2>7, <4>1
      <4> QED  BY <4>2
    <3> QED  BY <3>1, <3>2
  <2>12. \A v \in Workers : Choosing(v)' => calls'[v] >= 1  BY <2>3 DEF CountInv
  <2> HIDE DEF g, E
  <2> QED  BY <2>9, <2>10, <2>11, <2>12 DEF CountInv
<1>5. CASE UNCHANGED vars
  BY <1>5 DEF vars, CountInv, Given, Choosing, Taken
<1> QED  BY <1>2, <1>3, <1>4, <1>5 DEF Next, Step

\* A session leaks no more ports than it asked for, with or without a lock, and
\* wherever its workers die: as long as the kernel has more to propose, the loop
\* of get_hostname_and_port() does not spin.
THEOREM PortsSuffice ==
    ASSUME IsFiniteSet(Workers), IsFiniteSet(Ports),
           Cardinality(Workers) * MaxCalls < Cardinality(Ports)
    PROVE  Spec => []~NoPortLeft
<1> USE PortsAssumption
<1>1. ASSUME CountInv, NoPortLeft PROVE FALSE
  <2>1. PICK D \in SUBSET Given : \E h \in [D -> Ports] : \A p : Taken(p) => \E d \in D : h[d] = p
    BY <1>1 DEF CountInv
  <2>2. PICK h \in [D -> Ports] : \A p : Taken(p) => \E d \in D : h[d] = p
    BY <2>1
  <2>3. \A p \in Ports : Taken(p)  BY <1>1 DEF NoPortLeft, Owned, Taken
  <2>4. h \in Surjection(D, Ports)  BY <2>2, <2>3 DEF Surjection
  <2>5. /\ IsFiniteSet(Workers \X (1..MaxCalls))
        /\ Cardinality(Workers \X (1..MaxCalls)) = Cardinality(Workers) * MaxCalls
    <3>1. IsFiniteSet(1..MaxCalls) /\ Cardinality(1..MaxCalls) = MaxCalls
      BY FS_Interval
    <3> QED  BY <3>1, FS_Product
  <2>6. D \in SUBSET (Workers \X (1..MaxCalls))  BY <2>1 DEF Given
  <2>7. IsFiniteSet(D) /\ Cardinality(D) <= Cardinality(Workers \X (1..MaxCalls))
    BY <2>5, <2>6, FS_Subset
  <2>8. Cardinality(Ports) <= Cardinality(D)  BY <2>4, <2>7, FS_Surjection
  <2>9. Cardinality(D) \in Nat /\ Cardinality(Ports) \in Nat /\ Cardinality(Workers) \in Nat
    BY <2>7, FS_CardinalityType
  <2>10. Cardinality(Workers) * MaxCalls \in Nat  BY <2>9
  <2> QED  BY <2>5, <2>7, <2>8, <2>9, <2>10
<1>2. Init => TypeOK /\ CountInv
  <2>1. Init => TypeOK  BY InitIInv DEF IInv
  <2>2. ASSUME Init PROVE CountInv
    <3>1. \A p : ~Taken(p)  BY <2>2 DEF Init, Taken
    <3>2. {} \in SUBSET Given /\ [d \in {} |-> {}] \in [{} -> Ports]  OBVIOUS
    <3>3. \A w \in Workers : ~Choosing(w)  BY <2>2 DEF Init, Choosing
    <3> QED  BY <3>1, <3>2, <3>3 DEF CountInv
  <2> QED  BY <2>1, <2>2
<1>3. TypeOK /\ CountInv /\ [Next]_vars => TypeOK' /\ CountInv'  BY StepTypeOK, StepCountInv
<1> QED  BY <1>1, <1>2, <1>3, PTL DEF Spec

-----------------------------------------------------------------------------
(* Controllers of UnrealIRCd, for any number of workers. *)

\* Whoever starts or stops its server holds the lock, and nobody else; while a
\* controller waits for that lock, or has it, it is not in the registry.
StartStopInv ==
    \A w \in Workers :
        /\ doing[w] \in Busy <=> startStop = w
        /\ server[w] \in Busy => doing[w] \in Busy
        /\ doing[w] # "nothing" => pc[w] = "idle"

UInv == TypeOKUnreal /\ StartStopInv

LEMMA InitUInv == InitUnreal => UInv
<1>1. Init => TypeOK  BY InitIInv DEF IInv
<1> QED
  BY <1>1, PortsAssumption DEF InitUnreal, Init, UInv, TypeOKUnreal, StartStopInv, Busy

\* Ports and process of w are dropped.
LEMMA DroppedIsRegistryStep ==
    ASSUME TypeOK, NEW w \in Workers, pc[w] = "idle", Dropped(w)
    PROVE  [Next]_vars
<1>1. CASE ownPorts[w] = {}
  <2>1. ownPorts' = ownPorts /\ abandoned' = abandoned
    BY <1>1 DEF TypeOK, Dropped
  <2> QED  BY <2>1 DEF Dropped, vars, fileVars, boundVars
<1>2. CASE ownPorts[w] # {}
  BY <1>2 DEF Dropped, Abandon, Next
<1> QED  BY <1>1, <1>2

\* To the registry, what a controller does around it is a call, the end of one
\* or nothing.
LEMMA UnrealIsRegistryStep ==
    ASSUME UInv, [NextUnreal]_allVars
    PROVE  [Next]_vars
<1>0. TypeOK /\ StartStopInv  BY DEF UInv, TypeOKUnreal
<1>1. ASSUME NEW w \in Workers,
             \/ Step(w) \/ GetsPort(w) \/ KillProcReturns(w) \/ ServerOpensPort(w) \/ WorkerDies(w)
      PROVE  Next
  BY <1>1 DEF GetsPort, KillProcReturns, ServerOpensPort, WorkerDies, Next
<1>2. ASSUME NEW w \in Workers,
             CallRun(w) \/ StartsServer(w) \/ RunReturns(w) \/ StopsServer(w)
      PROVE  UNCHANGED vars
  BY <1>2 DEF CallRun, StartsServer, RunReturns, StopsServer
<1>3. ASSUME NEW w \in Workers, CallKill(w)
      PROVE  [Next]_vars
  BY <1>3 DEF CallKill, Next
<1>4. ASSUME NEW w \in Workers, RunRaises(w) \/ KillProcRaises(w) \/ SetUpRaises(w)
      PROVE  [Next]_vars
  <2>1. pc[w] = "idle" /\ Dropped(w)
    BY <1>0, <1>4 DEF StartStopInv, RunRaises, KillProcRaises, SetUpRaises, Free
  <2> QED  BY <1>0, <2>1, DroppedIsRegistryStep
<1>5. CASE UNCHANGED allVars
  BY <1>5 DEF allVars
<1> QED  BY <1>1, <1>2, <1>3, <1>4, <1>5 DEF NextUnreal, Moves

\* A worker in one of the steps of _used_ports() stays a worker, and the others
\* do not move.
LEMMA StepMovesOne ==
    ASSUME TypeOK, NEW w \in Workers, Step(w)
    PROVE  pc[w] # "idle" /\ \A v \in Workers \ {w} : pc'[v] = pc[v]
BY DEF TypeOK, Step, Enter, CreateFile, FinishCreate, ReadFile, ReadTorn, Raise, GetPort,
   ReleasePorts, ReleaseFails, OpenFile, WriteFile

LEMMA StepUInv ==
    ASSUME UInv, [NextUnreal]_allVars
    PROVE  UInv'
<1>0. /\ TypeOK /\ StartStopInv
      /\ startStop \in Workers \cup {NoWorker}
      /\ doing \in [Workers -> {"nothing", "wants to start", "wants to stop", "starting", "stopping"}]
      /\ server \in [Workers -> {"none", "up", "starting", "stopping"}]
      /\ pc \in [Workers -> Steps]
      /\ NoWorker \notin Workers
  BY PortsAssumption DEF UInv, TypeOKUnreal, TypeOK, Busy
<1>1. TypeOK'
  BY <1>0, StepTypeOK, UnrealIsRegistryStep
<1> DEFINE Rest == /\ startStop' \in Workers \cup {NoWorker}
                   /\ doing' \in [Workers -> {"nothing", "wants to start", "wants to stop", "starting", "stopping"}]
                   /\ server' \in [Workers -> {"none", "up", "starting", "stopping"}]
                   /\ StartStopInv'
<1>2. ASSUME NEW w \in Workers, Step(w), UNCHANGED unrealVars
      PROVE  Rest
  BY <1>0, <1>2, StepMovesOne DEF StartStopInv, unrealVars, Busy
<1>3. ASSUME NEW w \in Workers, GetsPort(w) \/ ServerOpensPort(w)
      PROVE  Rest
  BY <1>0, <1>3 DEF StartStopInv, unrealVars, Busy, GetsPort, Free, CallGet, ServerOpensPort, ServerListens,
     ServerIs
<1>4. ASSUME NEW w \in Workers, CallRun(w) \/ CallKill(w)
      PROVE  Rest
  BY <1>0, <1>4 DEF StartStopInv, unrealVars, Busy, CallRun, CallKill, CallRelease, Free, Does, vars
<1>5. ASSUME NEW w \in Workers, StartsServer(w) \/ StopsServer(w)
      PROVE  Rest
  BY <1>0, <1>5 DEF StartStopInv, Busy, StartsServer, StopsServer, MayStop, Does, ServerIs, vars
<1>6. ASSUME NEW w \in Workers, RunReturns(w) \/ KillProcReturns(w)
      PROVE  Rest
  <2>1. CASE RunReturns(w)
    BY <1>0, <2>1 DEF StartStopInv, Busy, RunReturns, Unlocked, Does, vars
  <2>2. CASE KillProcReturns(w)
    <3>1. pc' = [pc EXCEPT ![w] = "wait"]  BY <2>2 DEF KillProcReturns, CallRelease
    <3> QED  BY <1>0, <2>2, <3>1 DEF StartStopInv, Busy, KillProcReturns, Unlocked, Does, ServerIs
  <2> QED  BY <1>6, <2>1, <2>2
<1>7. ASSUME NEW w \in Workers, RunRaises(w) \/ KillProcRaises(w) \/ SetUpRaises(w)
      PROVE  Rest
  BY <1>0, <1>7 DEF StartStopInv, Busy, RunRaises, KillProcRaises, SetUpRaises, Dropped, Free, Unlocked, Does,
     ServerIs
<1>8. ASSUME NEW w \in Workers, WorkerDies(w)
      PROVE  Rest
  BY <1>0, <1>8 DEF StartStopInv, Busy, WorkerDies, Crash, Unlocked, Does, ServerIs
<1>9. ASSUME UNCHANGED allVars
      PROVE  Rest
  <2>1. UNCHANGED <<startStop, doing, server, pc>>
    BY <1>9 DEF allVars, unrealVars, vars
  <2> QED  BY <1>0, <2>1 DEF StartStopInv, Busy
<1> HIDE DEF Rest
<1>10. ASSUME NEW w \in Workers, Moves(w)
       PROVE  Rest
  BY <1>2, <1>5, <1>6, <1>7, <1>10 DEF Moves
<1> QED
  <2>1. Rest
    BY <1>3, <1>4, <1>7, <1>8, <1>9, <1>10 DEF NextUnreal
  <2> QED
    BY <1>1, <2>1 DEF Rest, UInv, TypeOKUnreal, Busy

\* The states of run() and kill_proc() keep their types.
THEOREM UnrealTypeCorrect == SpecUnreal => []TypeOKUnreal
<1>1. UInv => TypeOKUnreal  BY DEF UInv
<1> QED  BY <1>1, InitUInv, StepUInv, PTL DEF SpecUnreal

\* Of the servers with a controller, one at most starts or stops at any time.
THEOREM StartsAndStopsExcludeEachOther == SpecUnreal => []OneStartsOrStops
<1>1. ASSUME UInv PROVE OneStartsOrStops
  <2> DEFINE S == {w \in Workers : server[w] \in Busy}
  <2>1. S \subseteq {startStop}  BY <1>1 DEF UInv, StartStopInv
  <2>2. IsFiniteSet({startStop}) /\ Cardinality({startStop}) = 1  BY FS_Singleton
  <2>3. IsFiniteSet(S) /\ Cardinality(S) <= Cardinality({startStop})  BY <2>1, <2>2, FS_Subset
  <2> QED  BY <2>2, <2>3 DEF OneStartsOrStops
<1> QED  BY <1>1, InitUInv, StepUInv, PTL DEF SpecUnreal

\* Controllers of UnrealIRCd use the registry as any others do, whichever of
\* run() and kill_proc() raises and wherever a worker dies: all that is proved
\* of the registry is true of them.
THEOREM UnrealImplementsRegistry == SpecUnreal => Spec
<1>1. InitUnreal => Init  BY DEF InitUnreal
<1> QED  BY <1>1, InitUInv, StepUInv, UnrealIsRegistryStep, PTL DEF SpecUnreal, Spec

\* A process that starts has a controller that waits for its port.
ServerInv == \A w \in Workers : doing[w] = "starting" => server[w] \in {"starting", "up"}

LEMMA StepServerInv ==
    ASSUME UInv, ServerInv, [NextUnreal]_allVars
    PROVE  ServerInv'
<1>0. /\ \A w \in Workers : doing[w] = "starting" => server[w] \in {"starting", "up"}
      /\ doing \in [Workers -> {"nothing", "wants to start", "wants to stop", "starting", "stopping"}]
      /\ server \in [Workers -> {"none", "up", "starting", "stopping"}]
  BY DEF UInv, TypeOKUnreal, Busy, ServerInv
<1>1. ASSUME NEW w \in Workers,
             \/ Step(w) /\ UNCHANGED unrealVars
             \/ GetsPort(w) \/ ServerOpensPort(w)
      PROVE  ServerInv'
  BY <1>0, <1>1 DEF ServerInv, unrealVars, GetsPort, ServerOpensPort, ServerIs
<1>2. ASSUME NEW w \in Workers,
             CallRun(w) \/ CallKill(w) \/ StartsServer(w) \/ StopsServer(w)
      PROVE  ServerInv'
  BY <1>0, <1>2 DEF ServerInv, unrealVars, CallRun, CallKill, StartsServer, StopsServer, Does, ServerIs
<1>3. ASSUME NEW w \in Workers,
             \/ RunReturns(w) \/ KillProcReturns(w) \/ WorkerDies(w)
             \/ RunRaises(w) \/ KillProcRaises(w) \/ SetUpRaises(w)
      PROVE  ServerInv'
  BY <1>0, <1>3 DEF ServerInv, RunReturns, KillProcReturns, WorkerDies, RunRaises, KillProcRaises,
     SetUpRaises, Dropped, Does, ServerIs
<1>4. CASE UNCHANGED allVars
  <2>1. UNCHANGED <<doing, server>>  BY <1>4 DEF allVars, unrealVars
  <2> QED  BY <1>0, <2>1 DEF ServerInv
<1> QED  BY <1>1, <1>2, <1>3, <1>4 DEF NextUnreal, Moves

\* With two locks, nobody waits for a worker that waits itself: whoever holds
\* that of the registry, or that of run() and kill_proc(), can go on.
THEOREM HoldersCanMove ==
    ASSUME Serialised PROVE SpecUnreal => []HolderCanMove
<1>1. ASSUME UInv, ServerInv, RegistryMoves PROVE HolderCanMove
  <2> SUFFICES ASSUME NEW w \in Workers, ~Free(w), ~CanMove(w), ~NoPortLeft
               PROVE  \/ pc[w] = "wait" /\ CanMove(lock)
                      \/ doing[w] \in Wanting /\ CanMove(startStop)
    BY DEF HolderCanMove
  <2>1. doing[w] \in {"nothing", "wants to start", "wants to stop", "starting", "stopping"}
    BY <1>1 DEF UInv, TypeOKUnreal, Busy
  <2>2. CASE pc[w] # "idle"
    BY <1>1, <2>2 DEF RegistryMoves, CanMove
  <2>3. CASE pc[w] = "idle"
    <3>1. doing[w] \in Wanting /\ startStop # NoWorker
      BY <1>1, <2>1, <2>3 DEF Free, CanMove, Wanting, ServerInv
    <3>2. startStop \in Workers  BY <1>1, <3>1 DEF UInv, TypeOKUnreal
    <3>3. doing[startStop] \in Busy  BY <1>1, <3>2 DEF UInv, StartStopInv
    <3>4. CanMove(startStop)
      BY <1>1, <3>2, <3>3 DEF CanMove, Busy, ServerInv
    <3> QED  BY <3>1, <3>4
  <2> QED  BY <2>2, <2>3
<1>2. InitUnreal => ServerInv  BY DEF InitUnreal, ServerInv
<1>3. UInv /\ ServerInv /\ [NextUnreal]_allVars => ServerInv'  BY StepServerInv
<1> QED
  BY <1>1, <1>2, <1>3, InitUInv, StepUInv, LockHolderCanStep, UnrealImplementsRegistry, PTL
     DEF SpecUnreal

\* Where a controller is in run() and kill_proc().
WantsToStart(w) == doing[w] = "wants to start"
WantsToStop(w) == doing[w] = "wants to stop"
Starting(w) == doing[w] = "starting"
Stopping(w) == doing[w] = "stopping"
DoesNothing(w) == doing[w] = "nothing"

\* Steps of its worker until run() or kill() is over, at most.
MovesLeft(w) ==
    CASE WantsToStop(w) -> 9
      [] Stopping(w) -> 8
      [] WantsToStart(w) -> 2
      [] Starting(w) -> 1
      [] DoesNothing(w) -> StepsLeft(w)

\* The same, told by equations.
MovesCounted ==
    \A w \in Workers :
        /\ StepsLeft(w) \in 0..7
        /\ pc[w] = "wait" => StepsLeft(w) = 7
        /\ pc[w] = "idle" => StepsLeft(w) = 0
        /\ WantsToStop(w) \/ Stopping(w) \/ WantsToStart(w) \/ Starting(w) \/ DoesNothing(w)
        /\ ~DoesNothing(w) => pc[w] = "idle"
        /\ WantsToStop(w) => MovesLeft(w) = 9
        /\ Stopping(w) => MovesLeft(w) = 8
        /\ WantsToStart(w) => MovesLeft(w) = 2
        /\ Starting(w) => MovesLeft(w) = 1
        /\ DoesNothing(w) => MovesLeft(w) = StepsLeft(w)

LEMMA MovesAreCounted == UInv => MovesCounted
<1> SUFFICES ASSUME UInv PROVE MovesCounted  OBVIOUS
<1>1. TypeOK  BY DEF UInv, TypeOKUnreal
<1>2. \A w \in Workers : WantsToStop(w) \/ Stopping(w) \/ WantsToStart(w) \/ Starting(w) \/ DoesNothing(w)
  BY DEF UInv, TypeOKUnreal, Busy, WantsToStop, Stopping, WantsToStart, Starting, DoesNothing
<1>3. \A w \in Workers :
        /\ StepsLeft(w) \in 0..7
        /\ pc[w] = "wait" => StepsLeft(w) = 7
        /\ pc[w] = "idle" => StepsLeft(w) = 0
  BY <1>1, StepsAreCounted DEF StepsCounted
<1>4. \A w \in Workers : ~DoesNothing(w) => pc[w] = "idle"
  BY DEF UInv, StartStopInv, DoesNothing
<1>5. \A w \in Workers :
        /\ WantsToStop(w) => MovesLeft(w) = 9
        /\ Stopping(w) => MovesLeft(w) = 8
        /\ WantsToStart(w) => MovesLeft(w) = 2
        /\ Starting(w) => MovesLeft(w) = 1
        /\ DoesNothing(w) => MovesLeft(w) = StepsLeft(w)
  BY DEF MovesLeft, WantsToStop, Stopping, WantsToStart, Starting, DoesNothing
<1> QED  BY <1>2, <1>3, <1>4, <1>5 DEF MovesCounted

LEMMA MovesStayCounted == UInv' => MovesCounted'
  BY MovesAreCounted, PTL

\* A worker that stays where it is has as many steps left as it had.
LEMMA MovesLeftUnchanged ==
    ASSUME NEW w \in Workers, doing'[w] = doing[w], pc'[w] = pc[w], fileState' = fileState
    PROVE  MovesLeft(w)' = MovesLeft(w)
  BY DEF MovesLeft, StepsLeft, WantsToStop, Stopping, WantsToStart, Starting, DoesNothing

\* A step of worker v is one less that it has left, and leaves the other busy
\* ones no more than they had.
LEMMA MoveShortens ==
    ASSUME UInv, UInv', NEW v \in Workers, Moves(v), NEW w \in Workers
    PROVE  IF w = v THEN MovesLeft(w)' < MovesLeft(w) ELSE MovesLeft(w)' <= MovesLeft(w)
<1>0. /\ TypeOK /\ TypeOK' /\ MovesCounted /\ MovesCounted'
      /\ doing = [u \in Workers |-> doing[u]]
  BY MovesAreCounted, MovesStayCounted DEF UInv, TypeOKUnreal, Busy
<1>1. CASE Step(v) /\ UNCHANGED unrealVars
  <2>1. doing' = doing /\ pc[v] # "idle"  BY <1>0, <1>1, StepMovesOne DEF unrealVars
  <2>2. DoesNothing(v) /\ DoesNothing(v)'  BY <1>0, <2>1 DEF MovesCounted, DoesNothing
  <2>3. IF w = v THEN StepsLeft(w)' < StepsLeft(w) ELSE StepsLeft(w)' <= StepsLeft(w)
    BY <1>0, <1>1, StepShortens
  <2>4. /\ WantsToStop(w)' <=> WantsToStop(w)
        /\ Stopping(w)' <=> Stopping(w)
        /\ WantsToStart(w)' <=> WantsToStart(w)
        /\ Starting(w)' <=> Starting(w)
        /\ DoesNothing(w)' <=> DoesNothing(w)
    BY <2>1 DEF WantsToStop, Stopping, WantsToStart, Starting, DoesNothing
  <2> QED  BY <1>0, <2>2, <2>3, <2>4 DEF MovesCounted
<1>2. CASE ~(Step(v) /\ UNCHANGED unrealVars)
  <2>1. /\ \A u \in Workers \ {v} : doing'[u] = doing[u] /\ pc'[u] = pc[u]
        /\ fileState' = fileState
        /\ \/ WantsToStart(v) /\ Starting(v)'
           \/ WantsToStop(v) /\ Stopping(v)'
           \/ Stopping(v) /\ DoesNothing(v)' /\ pc'[v] = "wait"
           \/ (Starting(v) \/ Stopping(v)) /\ DoesNothing(v)' /\ pc'[v] = "idle"
    <3> USE DEF WantsToStop, Stopping, WantsToStart, Starting, DoesNothing
    <3>1. CASE StartsServer(v) \/ StopsServer(v)
      BY <1>0, <3>1 DEF StartsServer, StopsServer, Does, vars
    <3>2. CASE KillProcReturns(v)
      BY <1>0, <3>2 DEF KillProcReturns, CallRelease, Does, TypeOK, fileVars
    <3>3. CASE RunReturns(v)
      BY <1>0, <3>3 DEF RunReturns, Does, vars, MovesCounted
    <3>4. CASE RunRaises(v) \/ KillProcRaises(v)
      BY <1>0, <3>4 DEF RunRaises, KillProcRaises, Dropped, Does, fileVars, MovesCounted
    <3> QED  BY <1>2, <3>1, <3>2, <3>3, <3>4 DEF Moves
  <2>2. CASE w = v
    BY <1>0, <2>1, <2>2 DEF MovesCounted
  <2>3. CASE w # v
    <3>1. MovesLeft(w)' = MovesLeft(w)  BY <2>1, <2>3, MovesLeftUnchanged
    <3>2. MovesLeft(w) \in Int  BY <1>0 DEF MovesCounted
    <3> QED  BY <2>3, <3>1, <3>2
  <2> QED  BY <2>2, <2>3
<1> QED  BY <1>1, <1>2

\* While a worker is busy, nothing anybody does gives it more steps.
LEMMA BusyOnlyShortens ==
    ASSUME UInv, UInv', [NextUnreal]_allVars, NEW w \in Workers, ~Free(w)
    PROVE  MovesLeft(w)' <= MovesLeft(w)
<1>0. /\ TypeOK /\ TypeOK' /\ MovesCounted /\ MovesCounted'
      /\ doing = [u \in Workers |-> doing[u]]
  BY MovesAreCounted, MovesStayCounted DEF UInv, TypeOKUnreal, Busy
<1>1. MovesLeft(w) \in 0..9 /\ MovesLeft(w)' \in 0..9  BY <1>0 DEF MovesCounted
<1>2. ASSUME NEW v \in Workers, Moves(v)
      PROVE  MovesLeft(w)' <= MovesLeft(w)
  BY <1>1, <1>2, MoveShortens
<1>3. ASSUME NEW v \in Workers,
             GetsPort(v) \/ CallRun(v) \/ CallKill(v) \/ SetUpRaises(v) \/ ServerOpensPort(v)
      PROVE  MovesLeft(w)' <= MovesLeft(w)
  <2>1. doing'[w] = doing[w] /\ pc'[w] = pc[w] /\ fileState' = fileState
    <3>1. CASE v = w
      BY <1>0, <1>3, <3>1 DEF Free, GetsPort, CallRun, CallKill, SetUpRaises, ServerOpensPort,
         ServerListens, fileVars
    <3>2. CASE v # w
      BY <1>0, <1>3, <3>2 DEF TypeOK, GetsPort, CallRun, CallKill, SetUpRaises, ServerOpensPort,
         ServerListens, CallGet, CallRelease, Dropped, Does, fileVars, unrealVars, vars
    <3> QED  BY <3>1, <3>2
  <2> QED  BY <1>1, <2>1, MovesLeftUnchanged
<1>4. ASSUME NEW v \in Workers, WorkerDies(v)
      PROVE  MovesLeft(w)' <= MovesLeft(w)
  <2>1. CASE v = w
    <3>1. DoesNothing(w)'
      BY <1>0, <1>4, <2>1 DEF WorkerDies, Does, DoesNothing
    <3>2. pc'[w] = "idle"
      BY <1>0, <1>4, <2>1 DEF TypeOK, WorkerDies, Crash
    <3> QED  BY <1>0, <1>1, <3>1, <3>2 DEF MovesCounted
  <2>2. CASE v # w
    <3>1. doing'[w] = doing[w] /\ pc'[w] = pc[w] /\ fileState' = fileState
      BY <1>0, <1>4, <2>2 DEF TypeOK, WorkerDies, Crash, Does, fileVars
    <3> QED  BY <1>1, <3>1, MovesLeftUnchanged
  <2> QED  BY <2>1, <2>2
<1>5. CASE UNCHANGED allVars
  <2>1. doing'[w] = doing[w] /\ pc'[w] = pc[w] /\ fileState' = fileState
    BY <1>5 DEF allVars, unrealVars, vars
  <2> QED  BY <1>1, <2>1, MovesLeftUnchanged
<1> QED  BY <1>2, <1>3, <1>4, <1>5 DEF NextUnreal

\* run() and kill() of a controller of UnrealIRCd take at most nine steps of
\* their worker, also when wait_for_port() raises or the server does not stop
\* in time: only their two locks, and the loop for a port, may be awaited long.
THEOREM StartsAndStopsAreShort ==
    SpecUnreal => [][\A w \in Workers :
                       /\ Moves(w) => MovesLeft(w)' < MovesLeft(w)
                       /\ ~Free(w) => MovesLeft(w)' <= MovesLeft(w)]_allVars
<1>1. UInv /\ UInv' /\ [NextUnreal]_allVars
      => [\A w \in Workers :
            /\ Moves(w) => MovesLeft(w)' < MovesLeft(w)
            /\ ~Free(w) => MovesLeft(w)' <= MovesLeft(w)]_allVars
  BY MoveShortens, BusyOnlyShortens
<1> QED  BY <1>1, InitUInv, StepUInv, PTL DEF SpecUnreal

=============================================================================
