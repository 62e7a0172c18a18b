------------------------------ MODULE SableProofs ------------------------------
(***************************************************************************)
(* What Sable promises of wait_for_services() and of tearDown(), for every *)
(* configuration of a test and any number of crashes and of questions.     *)
(***************************************************************************)
EXTENDS Sable, TLAPS

SettingUp == stage \in {"run", "run services", "run history"}

\* A node that does not run any longer will not run again.
Gone(n) == ~NodeRuns(n)

\* While run() starts processes there is no client, no call was made; a controller that was not
\* made has no process, and once run() is over those that are wanted are made.
SetUpInv ==
    /\ SettingUp => /\ up = {} /\ result = ""
                    /\ \A c \in SableClients : does[c] = "nothing" /\ conn[c] = "none" /\ heard[c] = {}
    /\ stage = "run" => node["server"] = "absent"
    /\ stage \in {"run", "run services"} => created = {}
    /\ stage = "run history" => "history" \notin created /\ ("services" \in wanted => "services" \in created)
    /\ \A w \in Watched : w \notin created => node[w] = "absent"
    /\ ~SettingUp /\ stage # "errored" => created = wanted

\* services_up and an answer that nobody has read were earned.
Earned(w) == w \in joined \/ Gone(w) \/ Gone("server")

EarnedInv ==
    /\ \A w \in up : Earned(w)
    /\ \A w \in Watched : "present" \in heard[w] => Earned(w)

\* Threads are at work in wait_for_services() only, and the client of
\* registerUser() after it; a thread that is done without an exception has
\* set services_up.
CallInv ==
    /\ \A w \in Watched : does[w] # "nothing" => stage = "threads" /\ w \in created
    /\ does["user"] # "nothing" => stage = "register"
    /\ \A w \in Watched : does[w] \in {"quit", "leave"} => w \in up
    /\ stage = "threads" => \A w \in created : does[w] = "nothing" => w \in up
    /\ stage = "threads" => "services" \in wanted
    /\ stage = "register" \/ (stage = "test" /\ result = "returned" /\ "services" \in wanted)
       => wanted \subseteq up

Over(n) == node[n] \in {"absent", "reaped"}

KillInv ==
    /\ stage \in {"kill server", "wait for server", "release", "done"} => Over("services")
    /\ stage \in {"release", "done"} => Over("server")

SableInv == TypeOKSable /\ SetUpInv /\ EarnedInv /\ CallInv /\ KillInv

-----------------------------------------------------------------------------

\* Every step keeps the types.
LEMMA TypeStep == TypeOKSable /\ CallInv /\ [NextSable]_sableVars => TypeOKSable'
<1> SUFFICES ASSUME TypeOKSable, CallInv, [NextSable]_sableVars PROVE TypeOKSable'
  OBVIOUS
<1> USE SableAssumption
<1>a. stage \in {"run", "run services", "run history", "test", "port", "threads", "register",
              "done", "errored", "broken"} \cup Killing
  BY DEF TypeOKSable
<1>b. wanted \in SableConfigs /\ created \subseteq wanted /\ up \subseteq created
  BY DEF TypeOKSable
<1>c. node \in [Nodes -> {"absent", "running", "zombie", "reaped"}]
  BY DEF TypeOKSable
<1>d. joined \subseteq Watched /\ signalled \subseteq Nodes
  BY DEF TypeOKSable
<1>e. does \in [SableClients -> {"nothing", "connect", "burst", "sync", "ask", "reply", "quit", "leave", "raised"}]
  BY DEF TypeOKSable
<1>f. conn \in [SableClients -> {"none", "new", "pinged", "ponged", "refused", "up", "leaving", "bye", "closed"}]
  BY DEF TypeOKSable
<1>g. pending \in [SableClients -> Nat]
  BY DEF TypeOKSable
<1>h. heard \in [SableClients -> SUBSET {"present", "absent", "pong"}]
  BY DEF TypeOKSable
<1>i. tries \in [SableClients -> 0..MaxTries]
  BY DEF TypeOKSable
<1>j. /\ accepting \in BOOLEAN /\ portKnown \in BOOLEAN
      /\ calling \in {"addClient", "registerUser"} /\ result \in {"", "returned", "raised"}
      /\ died \in 0..MaxSableCrashes
  BY DEF TypeOKSable
<1>1. CASE ServerAccepts
  BY <1>a, <1>b, <1>c, <1>d, <1>e, <1>f, <1>g, <1>h, <1>i, <1>j, <1>1
     DEF TypeOKSable, ServerAccepts, Killing, sableVars, testVarsSable, nodeVars, lineVars, connVars
<1>2. ASSUME NEW w \in Watched, NodeJoins(w) PROVE TypeOKSable'
  BY <1>a, <1>b, <1>c, <1>d, <1>e, <1>f, <1>g, <1>h, <1>i, <1>j, <1>2
     DEF TypeOKSable, NodeJoins, Killing, sableVars, testVarsSable, nodeVars, lineVars, connVars
<1>3. ASSUME NEW n \in Nodes, NodeObeys(n) PROVE TypeOKSable'
  <2>1. UNCHANGED <<stage, wanted, created, up, does, heard, tries>>
    BY <1>3 DEF NodeObeys, NodeExits, sableVars, testVarsSable, nodeVars, lineVars, connVars
  <2>2. node' \in [Nodes -> {"absent", "running", "zombie", "reaped"}]
    BY <1>c, <1>3 DEF NodeObeys, NodeExits, Nodes, Watched, sableVars, testVarsSable, nodeVars, lineVars, connVars
  <2>3. joined' \subseteq Watched /\ signalled' \subseteq Nodes
    BY <1>d, <1>3 DEF NodeObeys, NodeExits, Nodes, Watched, sableVars, testVarsSable, nodeVars, lineVars, connVars
  <2>4. conn' \in [SableClients -> {"none", "new", "pinged", "ponged", "refused", "up", "leaving", "bye", "closed"}]
    BY <1>f, <1>3 DEF NodeObeys, NodeExits, sableVars, testVarsSable, nodeVars, lineVars, connVars
  <2>5. pending' \in [SableClients -> Nat]
    BY <1>g, <1>3 DEF NodeObeys, NodeExits, sableVars, testVarsSable, nodeVars, lineVars, connVars
  <2>6. /\ accepting' \in BOOLEAN /\ portKnown' \in BOOLEAN
        /\ calling' \in {"addClient", "registerUser"} /\ result' \in {"", "returned", "raised"}
        /\ died' \in 0..MaxSableCrashes
    BY <1>j, <1>3 DEF NodeObeys, NodeExits, sableVars, testVarsSable, nodeVars, lineVars, connVars
  <2> QED
    BY <1>a, <1>b, <1>c, <1>d, <1>e, <1>f, <1>g, <1>h, <1>i, <1>j, <2>1, <2>2, <2>3, <2>4, <2>5, <2>6 DEF TypeOKSable
<1>4. ASSUME NEW n \in Nodes, NodeCrashes(n) PROVE TypeOKSable'
  <2>1. UNCHANGED <<stage, wanted, created, up, does, heard, tries>>
    BY <1>4 DEF NodeCrashes, NodeExits, sableVars, testVarsSable, nodeVars, lineVars, connVars
  <2>2. node' \in [Nodes -> {"absent", "running", "zombie", "reaped"}]
    BY <1>c, <1>4 DEF NodeCrashes, NodeExits, Nodes, Watched, sableVars, testVarsSable, nodeVars, lineVars, connVars
  <2>3. joined' \subseteq Watched /\ signalled' \subseteq Nodes
    BY <1>d, <1>4 DEF NodeCrashes, NodeExits, Nodes, Watched, sableVars, testVarsSable, nodeVars, lineVars, connVars
  <2>4. conn' \in [SableClients -> {"none", "new", "pinged", "ponged", "refused", "up", "leaving", "bye", "closed"}]
    BY <1>f, <1>4 DEF NodeCrashes, NodeExits, sableVars, testVarsSable, nodeVars, lineVars, connVars
  <2>5. pending' \in [SableClients -> Nat]
    BY <1>g, <1>4 DEF NodeCrashes, NodeExits, sableVars, testVarsSable, nodeVars, lineVars, connVars
  <2>6. /\ accepting' \in BOOLEAN /\ portKnown' \in BOOLEAN
        /\ calling' \in {"addClient", "registerUser"} /\ result' \in {"", "returned", "raised"}
        /\ died' \in 0..MaxSableCrashes
    <3>1. died < MaxSableCrashes /\ died' = died + 1
      BY <1>4 DEF NodeCrashes
    <3>2. died \in 0..MaxSableCrashes /\ MaxSableCrashes \in Nat
      BY <1>j
    <3>3. died' \in 0..MaxSableCrashes
      BY <3>1, <3>2
    <3> QED
      BY <3>3, <1>j, <1>4 DEF NodeCrashes, NodeExits, testVarsSable
  <2> QED
    BY <1>a, <1>b, <1>c, <1>d, <1>e, <1>f, <1>g, <1>h, <1>i, <1>j, <2>1, <2>2, <2>3, <2>4, <2>5, <2>6 DEF TypeOKSable
<1>5. ASSUME NEW c \in SableClients, ServerGreets(c) PROVE TypeOKSable'
  BY ZenonT(60), <1>a, <1>b, <1>c, <1>d, <1>e, <1>f, <1>g, <1>h, <1>i, <1>j, <1>5
     DEF TypeOKSable, ServerGreets, ConnBecomes, Killing, sableVars, testVarsSable, nodeVars, lineVars, connVars
<1>6. ASSUME NEW c \in SableClients, ServerLetsGo(c) PROVE TypeOKSable'
  BY <1>a, <1>b, <1>c, <1>d, <1>e, <1>f, <1>g, <1>h, <1>i, <1>j, <1>6
     DEF TypeOKSable, ServerLetsGo, ConnBecomes, Killing, sableVars, testVarsSable, nodeVars, lineVars, connVars
<1>7. ASSUME NEW c \in SableClients, ServerReplies(c) PROVE TypeOKSable'
  <2>1. UNCHANGED <<stage, wanted, created, up, node, joined, signalled, does, conn, tries, accepting, portKnown, calling, result, died>>
    BY <1>7 DEF ServerReplies, About, sableVars, testVarsSable, nodeVars, lineVars, connVars
  <2>2. pending' \in [SableClients -> Nat]
    BY <1>g, <1>7 DEF ServerReplies, About, sableVars, testVarsSable, nodeVars, lineVars, connVars
  <2>3. heard' \in [SableClients -> SUBSET {"present", "absent", "pong"}]
    BY <1>h, <1>7 DEF ServerReplies, About, sableVars, testVarsSable, nodeVars, lineVars, connVars
  <2> QED
    BY <1>a, <1>b, <1>c, <1>d, <1>e, <1>f, <1>g, <1>h, <1>i, <1>j, <2>1, <2>2, <2>3 DEF TypeOKSable
<1>8. ASSUME NEW c \in SableClients, SableClientConnects(c) PROVE TypeOKSable'
  BY ZenonT(30), <1>a, <1>b, <1>c, <1>d, <1>e, <1>f, <1>g, <1>h, <1>i, <1>j, <1>8
     DEF TypeOKSable, SableClientConnects, Continues, ClientRaises, RegistrationIs, CallEnds, testAlone, Killing, sableVars, testVarsSable, nodeVars, lineVars, connVars
<1>9. ASSUME NEW c \in SableClients, SableReadsBurst(c) PROVE TypeOKSable'
  BY ZenonT(30), <1>a, <1>b, <1>c, <1>d, <1>e, <1>f, <1>g, <1>h, <1>i, <1>j, <1>9
     DEF TypeOKSable, SableReadsBurst, Continues, testAlone, Killing, sableVars, testVarsSable, nodeVars, lineVars, connVars
<1>10. ASSUME NEW c \in SableClients, SableMeetsEnd(c) PROVE TypeOKSable'
  <2>1. UNCHANGED <<wanted, created, up, node, joined, signalled>>
    BY <1>10 DEF SableMeetsEnd, Continues, ClientRaises, RegistrationIs, CallEnds, Forgotten, testAlone, sableVars, testVarsSable, nodeVars, lineVars, connVars
  <2>2. stage' \in {"run", "run services", "run history", "test", "port", "threads", "register",
                "done", "errored", "broken"} \cup Killing
    BY <1>a, <1>10 DEF SableMeetsEnd, Continues, ClientRaises, RegistrationIs, CallEnds, Forgotten, testAlone, Killing, sableVars, testVarsSable, nodeVars, lineVars, connVars
  <2>3. does' \in [SableClients -> {"nothing", "connect", "burst", "sync", "ask", "reply", "quit", "leave", "raised"}]
    BY <1>e, <1>10 DEF SableMeetsEnd, Continues, ClientRaises, RegistrationIs, CallEnds, Forgotten, testAlone, SableClients, Watched, sableVars, testVarsSable, nodeVars, lineVars, connVars
  <2>4. conn' \in [SableClients -> {"none", "new", "pinged", "ponged", "refused", "up", "leaving", "bye", "closed"}]
    BY <1>f, <1>10 DEF SableMeetsEnd, Continues, ClientRaises, RegistrationIs, CallEnds, Forgotten, testAlone, sableVars, testVarsSable, nodeVars, lineVars, connVars
  <2>5. pending' \in [SableClients -> Nat]
    BY <1>g, <1>10 DEF SableMeetsEnd, Continues, ClientRaises, RegistrationIs, CallEnds, Forgotten, testAlone, sableVars, testVarsSable, nodeVars, lineVars, connVars
  <2>6. heard' \in [SableClients -> SUBSET {"present", "absent", "pong"}]
    BY <1>h, <1>10 DEF SableMeetsEnd, Continues, ClientRaises, RegistrationIs, CallEnds, Forgotten, testAlone, sableVars, testVarsSable, nodeVars, lineVars, connVars
  <2>7. tries' \in [SableClients -> 0..MaxTries]
    BY <1>i, <1>10 DEF SableMeetsEnd, Continues, ClientRaises, RegistrationIs, CallEnds, Forgotten, testAlone, sableVars, testVarsSable, nodeVars, lineVars, connVars
  <2>8. /\ accepting' \in BOOLEAN /\ portKnown' \in BOOLEAN
        /\ calling' \in {"addClient", "registerUser"} /\ result' \in {"", "returned", "raised"}
        /\ died' \in 0..MaxSableCrashes
    BY <1>j, <1>10 DEF SableMeetsEnd, Continues, ClientRaises, RegistrationIs, CallEnds, Forgotten, testAlone, sableVars, testVarsSable, nodeVars, lineVars, connVars
  <2> QED
    BY <1>a, <1>b, <1>c, <1>d, <1>e, <1>f, <1>g, <1>h, <1>i, <1>j, <2>1, <2>2, <2>3, <2>4, <2>5, <2>6, <2>7, <2>8 DEF TypeOKSable
<1>11. ASSUME NEW c \in SableClients, SableAsks(c) PROVE TypeOKSable'
  <2>1. UNCHANGED <<stage, wanted, created, up, node, joined, signalled, conn, heard, tries, accepting, portKnown, calling, result, died>>
    BY <1>11 DEF SableAsks, Continues, testAlone, sableVars, testVarsSable, nodeVars, lineVars, connVars
  <2>2. does' \in [SableClients -> {"nothing", "connect", "burst", "sync", "ask", "reply", "quit", "leave", "raised"}]
    BY <1>e, <1>11 DEF SableAsks, Continues, testAlone, SableClients, Watched, sableVars, testVarsSable, nodeVars, lineVars, connVars
  <2>3. pending' \in [SableClients -> Nat]
    BY <1>g, <1>11 DEF SableAsks, Continues, testAlone, sableVars, testVarsSable, nodeVars, lineVars, connVars
  <2> QED
    BY <1>a, <1>b, <1>c, <1>d, <1>e, <1>f, <1>g, <1>h, <1>i, <1>j, <2>1, <2>2, <2>3 DEF TypeOKSable
<1>12. ASSUME NEW c \in SableClients, ThreadReadsReply(c) PROVE TypeOKSable'
  <2>1. UNCHANGED <<stage, joined, signalled, accepting, portKnown, calling, result, died>>
    BY <1>12 DEF ThreadReadsReply, Reads, Continues, Forgotten, TellsOf, TriedEnough, testAlone, sableVars, testVarsSable, nodeVars, lineVars, connVars
  <2>2. does' \in [SableClients -> {"nothing", "connect", "burst", "sync", "ask", "reply", "quit", "leave", "raised"}]
    BY <1>e, <1>12 DEF ThreadReadsReply, Reads, Continues, Forgotten, TellsOf, TriedEnough, testAlone, SableClients, Watched, sableVars, testVarsSable, nodeVars, lineVars, connVars
  <2>3. heard' \in [SableClients -> SUBSET {"present", "absent", "pong"}]
    BY <1>h, <1>12 DEF ThreadReadsReply, Reads, Continues, Forgotten, TellsOf, TriedEnough, testAlone, sableVars, testVarsSable, nodeVars, lineVars, connVars
  <2>4. tries' \in [SableClients -> 0..MaxTries]
    BY <1>i, <1>12 DEF ThreadReadsReply, Reads, Continues, Forgotten, TellsOf, TriedEnough, testAlone, sableVars, testVarsSable, nodeVars, lineVars, connVars
  <2>5. conn' \in [SableClients -> {"none", "new", "pinged", "ponged", "refused", "up", "leaving", "bye", "closed"}]
    BY <1>f, <1>12 DEF ThreadReadsReply, Reads, Continues, Forgotten, TellsOf, TriedEnough, testAlone, sableVars, testVarsSable, nodeVars, lineVars, connVars
  <2>6. pending' \in [SableClients -> Nat]
    BY <1>g, <1>12 DEF ThreadReadsReply, Reads, Continues, Forgotten, TellsOf, TriedEnough, testAlone, sableVars, testVarsSable, nodeVars, lineVars, connVars
  <2>7. node' \in [Nodes -> {"absent", "running", "zombie", "reaped"}]
    BY <1>c, <1>12 DEF ThreadReadsReply, Reads, Continues, Forgotten, TellsOf, TriedEnough, testAlone, Nodes, Watched, sableVars, testVarsSable, nodeVars, lineVars, connVars
  <2>8. wanted' \in SableConfigs /\ created' \subseteq wanted' /\ up' \subseteq created'
    BY <1>b, <1>12, <1>e DEF ThreadReadsReply, Reads, testAlone, CallInv, Forgotten
  <2> QED
    BY <1>a, <1>b, <1>c, <1>d, <1>e, <1>f, <1>g, <1>h, <1>i, <1>j, <2>1, <2>2, <2>3, <2>4, <2>5, <2>6, <2>7, <2>8 DEF TypeOKSable
<1>13. CASE UserReadsReply
  <2>1. UNCHANGED <<wanted, created, up, node, joined, signalled>>
    BY <1>13 DEF UserReadsReply, Reads, Continues, RegistrationIs, CallEnds, Forgotten, TriedEnough, testAlone, sableVars, testVarsSable, nodeVars, lineVars, connVars
  <2>2. stage' \in {"run", "run services", "run history", "test", "port", "threads", "register",
                "done", "errored", "broken"} \cup Killing
    BY <1>a, <1>13 DEF UserReadsReply, Reads, Continues, RegistrationIs, CallEnds, Forgotten, TriedEnough, testAlone, Killing, sableVars, testVarsSable, nodeVars, lineVars, connVars
  <2>3. does' \in [SableClients -> {"nothing", "connect", "burst", "sync", "ask", "reply", "quit", "leave", "raised"}]
    BY <1>e, <1>13 DEF UserReadsReply, Reads, Continues, RegistrationIs, CallEnds, Forgotten, TriedEnough, testAlone, SableClients, Watched, sableVars, testVarsSable, nodeVars, lineVars, connVars
  <2>4. conn' \in [SableClients -> {"none", "new", "pinged", "ponged", "refused", "up", "leaving", "bye", "closed"}]
    BY <1>f, <1>13 DEF UserReadsReply, Reads, Continues, RegistrationIs, CallEnds, Forgotten, TriedEnough, testAlone, sableVars, testVarsSable, nodeVars, lineVars, connVars
  <2>5. pending' \in [SableClients -> Nat]
    BY <1>g, <1>13 DEF UserReadsReply, Reads, Continues, RegistrationIs, CallEnds, Forgotten, TriedEnough, testAlone, sableVars, testVarsSable, nodeVars, lineVars, connVars
  <2>6. heard' \in [SableClients -> SUBSET {"present", "absent", "pong"}]
    BY <1>h, <1>13 DEF UserReadsReply, Reads, Continues, RegistrationIs, CallEnds, Forgotten, TriedEnough, testAlone, sableVars, testVarsSable, nodeVars, lineVars, connVars
  <2>7. tries' \in [SableClients -> 0..MaxTries]
    BY <1>i, <1>13 DEF UserReadsReply, Reads, Continues, RegistrationIs, CallEnds, Forgotten, TriedEnough, testAlone, sableVars, testVarsSable, nodeVars, lineVars, connVars
  <2>8. /\ accepting' \in BOOLEAN /\ portKnown' \in BOOLEAN
        /\ calling' \in {"addClient", "registerUser"} /\ result' \in {"", "returned", "raised"}
        /\ died' \in 0..MaxSableCrashes
    BY <1>j, <1>13 DEF UserReadsReply, Reads, Continues, RegistrationIs, CallEnds, Forgotten, TriedEnough, testAlone, sableVars, testVarsSable, nodeVars, lineVars, connVars
  <2> QED
    BY <1>a, <1>b, <1>c, <1>d, <1>e, <1>f, <1>g, <1>h, <1>i, <1>j, <2>1, <2>2, <2>3, <2>4, <2>5, <2>6, <2>7, <2>8 DEF TypeOKSable
<1>14. ASSUME NEW c \in SableClients, SableQuits(c) PROVE TypeOKSable'
  BY <1>a, <1>b, <1>c, <1>d, <1>e, <1>f, <1>g, <1>h, <1>i, <1>j, <1>14
     DEF TypeOKSable, SableQuits, Continues, testAlone, Killing, sableVars, testVarsSable, nodeVars, lineVars, connVars
<1>15. ASSUME NEW c \in SableClients, SableLeaves(c) PROVE TypeOKSable'
  <2>1. UNCHANGED <<wanted, created, up, node, joined, signalled>>
    BY <1>15 DEF SableLeaves, Continues, RegistrationIs, CallEnds, Forgotten, testAlone, sableVars, testVarsSable, nodeVars, lineVars, connVars
  <2>2. stage' \in {"run", "run services", "run history", "test", "port", "threads", "register",
                "done", "errored", "broken"} \cup Killing
    BY <1>a, <1>15 DEF SableLeaves, Continues, RegistrationIs, CallEnds, Forgotten, testAlone, Killing, sableVars, testVarsSable, nodeVars, lineVars, connVars
  <2>3. does' \in [SableClients -> {"nothing", "connect", "burst", "sync", "ask", "reply", "quit", "leave", "raised"}]
    BY <1>e, <1>15 DEF SableLeaves, Continues, RegistrationIs, CallEnds, Forgotten, testAlone, SableClients, Watched, sableVars, testVarsSable, nodeVars, lineVars, connVars
  <2>4. conn' \in [SableClients -> {"none", "new", "pinged", "ponged", "refused", "up", "leaving", "bye", "closed"}]
    BY <1>f, <1>15 DEF SableLeaves, Continues, RegistrationIs, CallEnds, Forgotten, testAlone, sableVars, testVarsSable, nodeVars, lineVars, connVars
  <2>5. pending' \in [SableClients -> Nat]
    BY <1>g, <1>15 DEF SableLeaves, Continues, RegistrationIs, CallEnds, Forgotten, testAlone, sableVars, testVarsSable, nodeVars, lineVars, connVars
  <2>6. heard' \in [SableClients -> SUBSET {"present", "absent", "pong"}]
    BY <1>h, <1>15 DEF SableLeaves, Continues, RegistrationIs, CallEnds, Forgotten, testAlone, sableVars, testVarsSable, nodeVars, lineVars, connVars
  <2>7. tries' \in [SableClients -> 0..MaxTries]
    BY <1>i, <1>15 DEF SableLeaves, Continues, RegistrationIs, CallEnds, Forgotten, testAlone, sableVars, testVarsSable, nodeVars, lineVars, connVars
  <2>8. /\ accepting' \in BOOLEAN /\ portKnown' \in BOOLEAN
        /\ calling' \in {"addClient", "registerUser"} /\ result' \in {"", "returned", "raised"}
        /\ died' \in 0..MaxSableCrashes
    BY <1>j, <1>15 DEF SableLeaves, Continues, RegistrationIs, CallEnds, Forgotten, testAlone, sableVars, testVarsSable, nodeVars, lineVars, connVars
  <2> QED
    BY <1>a, <1>b, <1>c, <1>d, <1>e, <1>f, <1>g, <1>h, <1>i, <1>j, <2>1, <2>2, <2>3, <2>4, <2>5, <2>6, <2>7, <2>8 DEF TypeOKSable
<1>16. CASE RunServer
  BY <1>a, <1>b, <1>c, <1>d, <1>e, <1>f, <1>g, <1>h, <1>i, <1>j, <1>16
     DEF TypeOKSable, RunServer, StageIs, Killing, sableVars, testVarsSable, nodeVars, lineVars, connVars
<1>17. CASE RunWatched("services", "run services", "run history")
  BY ZenonT(60), <1>a, <1>b, <1>c, <1>d, <1>e, <1>f, <1>g, <1>h, <1>i, <1>j, <1>17
     DEF TypeOKSable, RunWatched, StageIs, Killing, sableVars, testVarsSable, nodeVars, lineVars, connVars
<1>18. CASE RunWatched("history", "run history", "test")
  BY ZenonT(60), <1>a, <1>b, <1>c, <1>d, <1>e, <1>f, <1>g, <1>h, <1>i, <1>j, <1>18
     DEF TypeOKSable, RunWatched, StageIs, Killing, sableVars, testVarsSable, nodeVars, lineVars, connVars
<1>19. CASE HistoryFindsNoDatabase
  BY <1>a, <1>b, <1>c, <1>d, <1>e, <1>f, <1>g, <1>h, <1>i, <1>j, <1>19
     DEF TypeOKSable, HistoryFindsNoDatabase, StageIs, Killing, sableVars, testVarsSable, nodeVars, lineVars, connVars
<1>20. CASE SableTestCalls
  BY <1>a, <1>b, <1>c, <1>d, <1>e, <1>f, <1>g, <1>h, <1>i, <1>j, <1>20
     DEF TypeOKSable, SableTestCalls, Killing, sableVars, testVarsSable, nodeVars, lineVars, connVars
<1>21. CASE PortAnswers
  BY <1>a, <1>b, <1>c, <1>d, <1>e, <1>f, <1>g, <1>h, <1>i, <1>j, <1>21
     DEF TypeOKSable, PortAnswers, ThreadsStart, CallEnds, Killing, sableVars, testVarsSable, nodeVars, lineVars, connVars
<1>22. CASE PortDoesNotAnswer
  BY <1>a, <1>b, <1>c, <1>d, <1>e, <1>f, <1>g, <1>h, <1>i, <1>j, <1>22
     DEF TypeOKSable, PortDoesNotAnswer, CallEnds, Killing, sableVars, testVarsSable, nodeVars, lineVars, connVars
<1>23. CASE ThreadsJoined
  BY ZenonT(60), <1>a, <1>b, <1>c, <1>d, <1>e, <1>f, <1>g, <1>h, <1>i, <1>j, <1>23
     DEF TypeOKSable, ThreadsJoined, SomeThreadRaised, CallEnds, Killing, sableVars, testVarsSable, nodeVars, lineVars, connVars
<1>24. CASE SableTearDown
  BY <1>a, <1>b, <1>c, <1>d, <1>e, <1>f, <1>g, <1>h, <1>i, <1>j, <1>24
     DEF TypeOKSable, SableTearDown, StageIs, Killing, sableVars, testVarsSable, nodeVars, lineVars, connVars
<1>25. CASE SableKills
  <2>1. UNCHANGED <<wanted, created, up, does, conn, pending, heard, tries, accepting, portKnown, calling, result, died>>
    BY <1>25 DEF SableKills, StageIs, KilledFirst, Signals, WaitedFor, sableVars, testVarsSable, nodeVars, lineVars, connVars
  <2>2. stage' \in {"run", "run services", "run history", "test", "port", "threads", "register",
                "done", "errored", "broken"} \cup Killing
    BY <1>a, <1>25 DEF SableKills, StageIs, KilledFirst, Signals, WaitedFor, Killing, sableVars, testVarsSable, nodeVars, lineVars, connVars
  <2>3. node' \in [Nodes -> {"absent", "running", "zombie", "reaped"}]
    BY <1>c, <1>25 DEF SableKills, StageIs, KilledFirst, Signals, WaitedFor, Nodes, Watched, sableVars, testVarsSable, nodeVars, lineVars, connVars
  <2>4. joined' \subseteq Watched /\ signalled' \subseteq Nodes
    BY <1>d, <1>25 DEF SableKills, StageIs, KilledFirst, Signals, WaitedFor, Nodes, Watched, sableVars, testVarsSable, nodeVars, lineVars, connVars
  <2> QED
    BY <1>a, <1>b, <1>c, <1>d, <1>e, <1>f, <1>g, <1>h, <1>i, <1>j, <2>1, <2>2, <2>3, <2>4 DEF TypeOKSable
<1>27. ASSUME NEW c \in SableClients, ServerPongs(c) PROVE TypeOKSable'
  <2>1. UNCHANGED <<stage, wanted, created, up, node, joined, signalled, does, conn, pending, tries, accepting, portKnown, calling, result, died>>
    BY <1>27 DEF ServerPongs, sableVars, testVarsSable, nodeVars, lineVars, connVars
  <2>2. heard' \in [SableClients -> SUBSET {"present", "absent", "pong"}]
    BY <1>h, <1>27 DEF ServerPongs
  <2> QED
    BY <1>a, <1>b, <1>c, <1>d, <1>e, <1>f, <1>g, <1>h, <1>i, <1>j, <2>1, <2>2 DEF TypeOKSable
<1>28. CASE UserSynchronizes
  <2>1. UNCHANGED <<stage, wanted, created, up, node, joined, signalled, conn, pending, tries, accepting, portKnown, calling, result, died>>
    BY <1>28 DEF UserSynchronizes, Continues, testAlone
  <2>2. heard' \in [SableClients -> SUBSET {"present", "absent", "pong"}]
    BY <1>h, <1>28 DEF UserSynchronizes
  <2>3. does' \in [SableClients -> {"nothing", "connect", "burst", "sync", "ask", "reply", "quit", "leave", "raised"}]
    BY <1>e, <1>28 DEF UserSynchronizes, Continues
  <2> QED
    BY <1>a, <1>b, <1>c, <1>d, <1>e, <1>f, <1>g, <1>h, <1>i, <1>j, <2>1, <2>2, <2>3 DEF TypeOKSable
<1>26. CASE UNCHANGED sableVars
  BY <1>26 DEF TypeOKSable, sableVars, testVarsSable, nodeVars, lineVars, connVars
<1> QED
  BY <1>1, <1>2, <1>3, <1>4, <1>5, <1>6, <1>7, <1>8, <1>9, <1>10, <1>11, <1>12, <1>13, <1>14, <1>15, <1>16, <1>17, <1>18, <1>19, <1>20, <1>21, <1>22, <1>23, <1>24, <1>25, <1>26, <1>27, <1>28 DEF NextSable, ServerSpeaks, SableClientStep, SetUpSable, SableCalls

\* Only run() makes controllers and processes.
LEMMA SetUpStep == TypeOKSable /\ SetUpInv /\ CallInv /\ [NextSable]_sableVars => SetUpInv'
<1> SUFFICES ASSUME TypeOKSable, SetUpInv, CallInv, [NextSable]_sableVars PROVE SetUpInv'
  OBVIOUS
<1>w. wanted \subseteq Watched
  BY SableAssumption DEF TypeOKSable
<1>a. wanted \in SableConfigs /\ created \subseteq wanted /\ up \subseteq created
  BY DEF TypeOKSable
<1>b. node \in [Nodes -> {"absent", "running", "zombie", "reaped"}]
  BY DEF TypeOKSable
<1>c. does \in [SableClients -> {"nothing", "connect", "burst", "sync", "ask", "reply", "quit", "leave", "raised"}]
  BY DEF TypeOKSable
<1>d. conn \in [SableClients -> {"none", "new", "pinged", "ponged", "refused", "up", "leaving", "bye", "closed"}]
  BY DEF TypeOKSable
<1>e. heard \in [SableClients -> SUBSET {"present", "absent", "pong"}]
  BY DEF TypeOKSable
<1>1. CASE ServerAccepts
  BY <1>w, <1>a, <1>b, <1>c, <1>d, <1>e, <1>1 DEF ServerAccepts, SetUpInv, SettingUp, CallInv, NodeRuns, Killing, Watched, Nodes, SableClients, sableVars, testVarsSable, nodeVars, lineVars, connVars
<1>2. ASSUME NEW w \in Watched, NodeJoins(w) PROVE SetUpInv'
  BY <1>w, <1>a, <1>b, <1>c, <1>d, <1>e, <1>2 DEF NodeJoins, SetUpInv, SettingUp, CallInv, NodeRuns, Killing, Watched, Nodes, SableClients, sableVars, testVarsSable, nodeVars, lineVars, connVars
<1>3. ASSUME NEW n \in Nodes, NodeObeys(n) PROVE SetUpInv'
  <2>1. SettingUp' => up' = {} /\ result' = "" /\ \A x \in SableClients : does'[x] = "nothing" /\ conn'[x] = "none" /\ heard'[x] = {}
    BY ZenonT(30), <1>a, <1>c, <1>d, <1>e, <1>w, <1>3 DEF NodeObeys, NodeExits, SetUpInv, SettingUp, CallInv, Killing, sableVars, testVarsSable, nodeVars, lineVars, connVars
  <2>2. stage' = "run" => node'["server"] = "absent"
    <3>1. stage' = stage /\ node[n] = "running" /\ node' = [node EXCEPT ![n] = "zombie"]
      BY <1>3 DEF NodeObeys, NodeExits, NodeRuns, testVarsSable
    <3>2. stage = "run" => node["server"] = "absent"
      BY DEF SetUpInv
    <3> QED
      BY <1>b, <3>1, <3>2
  <2>3. /\ stage' \in {"run", "run services"} => created' = {}
        /\ stage' = "run history" => "history" \notin created' /\ ("services" \in wanted' => "services" \in created')
    BY <1>a, <1>c, <1>w, <1>3 DEF NodeObeys, NodeExits, SetUpInv, SettingUp, CallInv, Killing, Watched, sableVars, testVarsSable, nodeVars, lineVars, connVars
  <2>4. \A w \in Watched : w \notin created' => node'[w] = "absent"
    BY <1>a, <1>b, <1>c, <1>w, <1>3 DEF NodeObeys, NodeExits, SetUpInv, CallInv, NodeRuns, Watched, Nodes, sableVars, testVarsSable, nodeVars, lineVars, connVars
  <2>5. ~SettingUp' /\ stage' # "errored" => created' = wanted'
    BY <1>a, <1>c, <1>w, <1>3 DEF NodeObeys, NodeExits, SetUpInv, SettingUp, CallInv, Killing, Watched, sableVars, testVarsSable, nodeVars, lineVars, connVars
  <2> QED
    BY <2>1, <2>2, <2>3, <2>4, <2>5 DEF SetUpInv
<1>4. ASSUME NEW n \in Nodes, NodeCrashes(n) PROVE SetUpInv'
  <2>1. SettingUp' => up' = {} /\ result' = "" /\ \A x \in SableClients : does'[x] = "nothing" /\ conn'[x] = "none" /\ heard'[x] = {}
    BY ZenonT(30), <1>a, <1>c, <1>d, <1>e, <1>w, <1>4 DEF NodeCrashes, NodeExits, SetUpInv, SettingUp, CallInv, Killing, sableVars, testVarsSable, nodeVars, lineVars, connVars
  <2>2. stage' = "run" => node'["server"] = "absent"
    <3>1. stage' = stage /\ node[n] = "running" /\ node' = [node EXCEPT ![n] = "zombie"]
      BY <1>4 DEF NodeCrashes, NodeExits, NodeRuns, testVarsSable
    <3>2. stage = "run" => node["server"] = "absent"
      BY DEF SetUpInv
    <3> QED
      BY <1>b, <3>1, <3>2
  <2>3. /\ stage' \in {"run", "run services"} => created' = {}
        /\ stage' = "run history" => "history" \notin created' /\ ("services" \in wanted' => "services" \in created')
    BY <1>a, <1>c, <1>w, <1>4 DEF NodeCrashes, NodeExits, SetUpInv, SettingUp, CallInv, Killing, Watched, sableVars, testVarsSable, nodeVars, lineVars, connVars
  <2>4. \A w \in Watched : w \notin created' => node'[w] = "absent"
    BY <1>a, <1>b, <1>c, <1>w, <1>4 DEF NodeCrashes, NodeExits, SetUpInv, CallInv, NodeRuns, Watched, Nodes, sableVars, testVarsSable, nodeVars, lineVars, connVars
  <2>5. ~SettingUp' /\ stage' # "errored" => created' = wanted'
    BY <1>a, <1>c, <1>w, <1>4 DEF NodeCrashes, NodeExits, SetUpInv, SettingUp, CallInv, Killing, Watched, sableVars, testVarsSable, nodeVars, lineVars, connVars
  <2> QED
    BY <2>1, <2>2, <2>3, <2>4, <2>5 DEF SetUpInv
<1>5. ASSUME NEW c \in SableClients, ServerGreets(c) PROVE SetUpInv'
  <2>1. SettingUp' => up' = {} /\ result' = "" /\ \A x \in SableClients : does'[x] = "nothing" /\ conn'[x] = "none" /\ heard'[x] = {}
    BY <1>a, <1>c, <1>d, <1>e, <1>w, <1>5 DEF ServerGreets, ConnBecomes, SetUpInv, SettingUp, CallInv, Killing, sableVars, testVarsSable, nodeVars, lineVars, connVars
  <2>2. stage' = "run" => node'["server"] = "absent"
    BY <1>b, <1>c, <1>5 DEF ServerGreets, ConnBecomes, SetUpInv, SettingUp, CallInv, Nodes, Watched, Killing, sableVars, testVarsSable, nodeVars, lineVars, connVars
  <2>3. /\ stage' \in {"run", "run services"} => created' = {}
        /\ stage' = "run history" => "history" \notin created' /\ ("services" \in wanted' => "services" \in created')
    BY <1>a, <1>c, <1>w, <1>5 DEF ServerGreets, ConnBecomes, SetUpInv, SettingUp, CallInv, Killing, Watched, sableVars, testVarsSable, nodeVars, lineVars, connVars
  <2>4. \A w \in Watched : w \notin created' => node'[w] = "absent"
    BY <1>a, <1>b, <1>c, <1>w, <1>5 DEF ServerGreets, ConnBecomes, SetUpInv, CallInv, NodeRuns, Watched, Nodes, sableVars, testVarsSable, nodeVars, lineVars, connVars
  <2>5. ~SettingUp' /\ stage' # "errored" => created' = wanted'
    BY <1>a, <1>c, <1>w, <1>5 DEF ServerGreets, ConnBecomes, SetUpInv, SettingUp, CallInv, Killing, Watched, sableVars, testVarsSable, nodeVars, lineVars, connVars
  <2> QED
    BY <2>1, <2>2, <2>3, <2>4, <2>5 DEF SetUpInv
<1>6. ASSUME NEW c \in SableClients, ServerLetsGo(c) PROVE SetUpInv'
  BY <1>w, <1>a, <1>b, <1>c, <1>d, <1>e, <1>6 DEF ServerLetsGo, ConnBecomes, SetUpInv, SettingUp, CallInv, NodeRuns, Killing, Watched, Nodes, SableClients, sableVars, testVarsSable, nodeVars, lineVars, connVars
<1>7. ASSUME NEW c \in SableClients, ServerReplies(c) PROVE SetUpInv'
  BY <1>w, <1>a, <1>b, <1>c, <1>d, <1>e, <1>7 DEF ServerReplies, About, SetUpInv, SettingUp, CallInv, NodeRuns, Killing, Watched, Nodes, SableClients, sableVars, testVarsSable, nodeVars, lineVars, connVars
<1>8. ASSUME NEW c \in SableClients, SableClientConnects(c) PROVE SetUpInv'
  BY <1>w, <1>a, <1>b, <1>c, <1>d, <1>e, <1>8 DEF SableClientConnects, Continues, ClientRaises, RegistrationIs, CallEnds, testAlone, SetUpInv, SettingUp, CallInv, NodeRuns, Killing, Watched, Nodes, SableClients, sableVars, testVarsSable, nodeVars, lineVars, connVars
<1>9. ASSUME NEW c \in SableClients, SableReadsBurst(c) PROVE SetUpInv'
  BY <1>w, <1>a, <1>b, <1>c, <1>d, <1>e, <1>9 DEF SableReadsBurst, Continues, testAlone, SetUpInv, SettingUp, CallInv, NodeRuns, Killing, Watched, Nodes, SableClients, sableVars, testVarsSable, nodeVars, lineVars, connVars
<1>10. ASSUME NEW c \in SableClients, SableMeetsEnd(c) PROVE SetUpInv'
  BY <1>w, <1>a, <1>b, <1>c, <1>d, <1>e, <1>10 DEF SableMeetsEnd, Continues, ClientRaises, RegistrationIs, CallEnds, Forgotten, testAlone, SetUpInv, SettingUp, CallInv, NodeRuns, Killing, Watched, Nodes, SableClients, sableVars, testVarsSable, nodeVars, lineVars, connVars
<1>11. ASSUME NEW c \in SableClients, SableAsks(c) PROVE SetUpInv'
  BY <1>w, <1>a, <1>b, <1>c, <1>d, <1>e, <1>11 DEF SableAsks, Continues, testAlone, SetUpInv, SettingUp, CallInv, NodeRuns, Killing, Watched, Nodes, SableClients, sableVars, testVarsSable, nodeVars, lineVars, connVars
<1>12. ASSUME NEW c \in SableClients, ThreadReadsReply(c) PROVE SetUpInv'
  <2>1. SettingUp' => up' = {} /\ result' = "" /\ \A x \in SableClients : does'[x] = "nothing" /\ conn'[x] = "none" /\ heard'[x] = {}
    BY <1>a, <1>c, <1>d, <1>e, <1>w, <1>12 DEF ThreadReadsReply, Reads, Continues, Forgotten, TellsOf, TriedEnough, testAlone, SetUpInv, SettingUp, CallInv, Killing, sableVars, testVarsSable, nodeVars, lineVars, connVars
  <2>2. stage' = "run" => node'["server"] = "absent"
    BY <1>b, <1>c, <1>12 DEF ThreadReadsReply, Reads, Continues, Forgotten, TellsOf, TriedEnough, testAlone, SetUpInv, SettingUp, CallInv, Nodes, Watched, Killing, sableVars, testVarsSable, nodeVars, lineVars, connVars
  <2>3. /\ stage' \in {"run", "run services"} => created' = {}
        /\ stage' = "run history" => "history" \notin created' /\ ("services" \in wanted' => "services" \in created')
    BY <1>a, <1>c, <1>w, <1>12 DEF ThreadReadsReply, Reads, Continues, Forgotten, TellsOf, TriedEnough, testAlone, SetUpInv, SettingUp, CallInv, Killing, Watched, sableVars, testVarsSable, nodeVars, lineVars, connVars
  <2>4. \A w \in Watched : w \notin created' => node'[w] = "absent"
    BY <1>a, <1>b, <1>c, <1>w, <1>12 DEF ThreadReadsReply, Reads, Continues, Forgotten, TellsOf, TriedEnough, testAlone, SetUpInv, CallInv, NodeRuns, Watched, Nodes, sableVars, testVarsSable, nodeVars, lineVars, connVars
  <2>5. ~SettingUp' /\ stage' # "errored" => created' = wanted'
    BY <1>a, <1>c, <1>w, <1>12 DEF ThreadReadsReply, Reads, Continues, Forgotten, TellsOf, TriedEnough, testAlone, SetUpInv, SettingUp, CallInv, Killing, Watched, sableVars, testVarsSable, nodeVars, lineVars, connVars
  <2> QED
    BY <2>1, <2>2, <2>3, <2>4, <2>5 DEF SetUpInv
<1>13. CASE UserReadsReply
  BY <1>w, <1>a, <1>b, <1>c, <1>d, <1>e, <1>13 DEF UserReadsReply, Reads, Continues, RegistrationIs, CallEnds, Forgotten, TriedEnough, testAlone, SetUpInv, SettingUp, CallInv, NodeRuns, Killing, Watched, Nodes, SableClients, sableVars, testVarsSable, nodeVars, lineVars, connVars
<1>14. ASSUME NEW c \in SableClients, SableQuits(c) PROVE SetUpInv'
  BY <1>w, <1>a, <1>b, <1>c, <1>d, <1>e, <1>14 DEF SableQuits, Continues, testAlone, SetUpInv, SettingUp, CallInv, NodeRuns, Killing, Watched, Nodes, SableClients, sableVars, testVarsSable, nodeVars, lineVars, connVars
<1>15. ASSUME NEW c \in SableClients, SableLeaves(c) PROVE SetUpInv'
  BY <1>w, <1>a, <1>b, <1>c, <1>d, <1>e, <1>15 DEF SableLeaves, Continues, RegistrationIs, CallEnds, Forgotten, testAlone, SetUpInv, SettingUp, CallInv, NodeRuns, Killing, Watched, Nodes, SableClients, sableVars, testVarsSable, nodeVars, lineVars, connVars
<1>16. CASE RunServer
  <2>1. SettingUp' => up' = {} /\ result' = "" /\ \A x \in SableClients : does'[x] = "nothing" /\ conn'[x] = "none" /\ heard'[x] = {}
    BY ZenonT(30), <1>a, <1>c, <1>d, <1>e, <1>w, <1>16 DEF RunServer, StageIs, SetUpInv, SettingUp, CallInv, Killing, sableVars, testVarsSable, nodeVars, lineVars, connVars
  <2>2. stage' = "run" => node'["server"] = "absent"
    BY <1>b, <1>c, <1>16 DEF RunServer, StageIs, SetUpInv, SettingUp, CallInv, Nodes, Watched, Killing, sableVars, testVarsSable, nodeVars, lineVars, connVars
  <2>3. /\ stage' \in {"run", "run services"} => created' = {}
        /\ stage' = "run history" => "history" \notin created' /\ ("services" \in wanted' => "services" \in created')
    BY <1>a, <1>c, <1>w, <1>16 DEF RunServer, StageIs, SetUpInv, SettingUp, CallInv, Killing, Watched, sableVars, testVarsSable, nodeVars, lineVars, connVars
  <2>4. \A w \in Watched : w \notin created' => node'[w] = "absent"
    BY <1>b, <1>16 DEF RunServer, StageIs, SetUpInv, Watched, Nodes
  <2>5. ~SettingUp' /\ stage' # "errored" => created' = wanted'
    BY <1>a, <1>c, <1>w, <1>16 DEF RunServer, StageIs, SetUpInv, SettingUp, CallInv, Killing, Watched, sableVars, testVarsSable, nodeVars, lineVars, connVars
  <2> QED
    BY <2>1, <2>2, <2>3, <2>4, <2>5 DEF SetUpInv
<1>17. CASE RunWatched("services", "run services", "run history")
  <2>1. SettingUp' => up' = {} /\ result' = "" /\ \A x \in SableClients : does'[x] = "nothing" /\ conn'[x] = "none" /\ heard'[x] = {}
    BY <1>a, <1>c, <1>d, <1>e, <1>w, <1>17 DEF RunWatched, StageIs, SetUpInv, SettingUp, CallInv, Killing, sableVars, testVarsSable, nodeVars, lineVars, connVars
  <2>2. stage' = "run" => node'["server"] = "absent"
    BY <1>b, <1>c, <1>17 DEF RunWatched, StageIs, SetUpInv, SettingUp, CallInv, Nodes, Watched, Killing, sableVars, testVarsSable, nodeVars, lineVars, connVars
  <2>3. /\ stage' \in {"run", "run services"} => created' = {}
        /\ stage' = "run history" => "history" \notin created' /\ ("services" \in wanted' => "services" \in created')
    <3>1. created' \in {created, created \cup {"services"}} /\ wanted' = wanted
      BY <1>17 DEF RunWatched, StageIs
    <3>2. stage' = "run history" /\ ("services" \in wanted => "services" \in created')
      BY <1>17 DEF RunWatched, StageIs
    <3> QED
      BY <3>1, <3>2, <1>17 DEF SetUpInv, RunWatched
  <2>4. \A w \in Watched : w \notin created' => node'[w] = "absent"
    <3>1. created \subseteq created'
      BY <1>17 DEF RunWatched, StageIs
    <3>2. \/ node' = [node EXCEPT !["services"] = "running"] /\ "services" \in created'
          \/ node' = node
      BY <1>17 DEF RunWatched, StageIs
    <3>3. \A w \in Watched : w \notin created => node[w] = "absent"
      BY DEF SetUpInv
    <3> QED
      BY <1>b, <3>1, <3>2, <3>3 DEF Watched, Nodes
  <2>5. ~SettingUp' /\ stage' # "errored" => created' = wanted'
    <3>1. CASE "services" \in wanted
      BY <1>a, <1>w, <1>17, <3>1 DEF RunWatched, StageIs, SetUpInv, SettingUp, Watched
    <3>2. CASE "services" \notin wanted
      BY <1>a, <1>w, <1>17, <3>2 DEF RunWatched, StageIs, SetUpInv, SettingUp, Watched
    <3> QED
      BY <3>1, <3>2
  <2> QED
    BY <2>1, <2>2, <2>3, <2>4, <2>5 DEF SetUpInv
<1>18. CASE RunWatched("history", "run history", "test")
  <2>1. SettingUp' => up' = {} /\ result' = "" /\ \A x \in SableClients : does'[x] = "nothing" /\ conn'[x] = "none" /\ heard'[x] = {}
    BY <1>a, <1>c, <1>d, <1>e, <1>w, <1>18 DEF RunWatched, StageIs, SetUpInv, SettingUp, CallInv, Killing, sableVars, testVarsSable, nodeVars, lineVars, connVars
  <2>2. stage' = "run" => node'["server"] = "absent"
    BY <1>b, <1>c, <1>18 DEF RunWatched, StageIs, SetUpInv, SettingUp, CallInv, Nodes, Watched, Killing, sableVars, testVarsSable, nodeVars, lineVars, connVars
  <2>3. /\ stage' \in {"run", "run services"} => created' = {}
        /\ stage' = "run history" => "history" \notin created' /\ ("services" \in wanted' => "services" \in created')
    <3>1. created' \in {created, created \cup {"history"}} /\ wanted' = wanted
      BY <1>18 DEF RunWatched, StageIs
    <3>2. stage' = "test" /\ ("history" \in wanted => "history" \in created')
      BY <1>18 DEF RunWatched, StageIs
    <3> QED
      BY <3>1, <3>2, <1>18 DEF SetUpInv, RunWatched
  <2>4. \A w \in Watched : w \notin created' => node'[w] = "absent"
    <3>1. created \subseteq created'
      BY <1>18 DEF RunWatched, StageIs
    <3>2. \/ node' = [node EXCEPT !["history"] = "running"] /\ "history" \in created'
          \/ node' = node
      BY <1>18 DEF RunWatched, StageIs
    <3>3. \A w \in Watched : w \notin created => node[w] = "absent"
      BY DEF SetUpInv
    <3> QED
      BY <1>b, <3>1, <3>2, <3>3 DEF Watched, Nodes
  <2>5. ~SettingUp' /\ stage' # "errored" => created' = wanted'
    <3>1. wanted' = wanted /\ created' = created \cup (wanted \cap {"history"})
      BY <1>18 DEF RunWatched, StageIs
    <3>2. "services" \in wanted => "services" \in created
      BY <1>18 DEF RunWatched, SetUpInv
    <3> QED
      BY <1>a, <1>w, <3>1, <3>2 DEF Watched
  <2> QED
    BY <2>1, <2>2, <2>3, <2>4, <2>5 DEF SetUpInv
<1>19. CASE HistoryFindsNoDatabase
  BY <1>w, <1>a, <1>b, <1>c, <1>d, <1>e, <1>19 DEF HistoryFindsNoDatabase, StageIs, SetUpInv, SettingUp, CallInv, NodeRuns, Killing, Watched, Nodes, SableClients, sableVars, testVarsSable, nodeVars, lineVars, connVars
<1>20. CASE SableTestCalls
  BY <1>w, <1>a, <1>b, <1>c, <1>d, <1>e, <1>20 DEF SableTestCalls, SetUpInv, SettingUp, CallInv, NodeRuns, Killing, Watched, Nodes, SableClients, sableVars, testVarsSable, nodeVars, lineVars, connVars
<1>21. CASE PortAnswers
  BY <1>w, <1>a, <1>b, <1>c, <1>d, <1>e, <1>21 DEF PortAnswers, ThreadsStart, CallEnds, SetUpInv, SettingUp, CallInv, NodeRuns, Killing, Watched, Nodes, SableClients, sableVars, testVarsSable, nodeVars, lineVars, connVars
<1>22. CASE PortDoesNotAnswer
  BY <1>w, <1>a, <1>b, <1>c, <1>d, <1>e, <1>22 DEF PortDoesNotAnswer, CallEnds, SetUpInv, SettingUp, CallInv, NodeRuns, Killing, Watched, Nodes, SableClients, sableVars, testVarsSable, nodeVars, lineVars, connVars
<1>23. CASE ThreadsJoined
  BY <1>w, <1>a, <1>b, <1>c, <1>d, <1>e, <1>23 DEF ThreadsJoined, SomeThreadRaised, CallEnds, SetUpInv, SettingUp, CallInv, NodeRuns, Killing, Watched, Nodes, SableClients, sableVars, testVarsSable, nodeVars, lineVars, connVars
<1>24. CASE SableTearDown
  BY <1>w, <1>a, <1>b, <1>c, <1>d, <1>e, <1>24 DEF SableTearDown, StageIs, SetUpInv, SettingUp, CallInv, NodeRuns, Killing, Watched, Nodes, SableClients, sableVars, testVarsSable, nodeVars, lineVars, connVars
<1>25. CASE SableKills
  <2>1. SettingUp' => up' = {} /\ result' = "" /\ \A x \in SableClients : does'[x] = "nothing" /\ conn'[x] = "none" /\ heard'[x] = {}
    BY <1>a, <1>c, <1>d, <1>e, <1>w, <1>25 DEF SableKills, StageIs, KilledFirst, Signals, WaitedFor, SetUpInv, SettingUp, CallInv, Killing, sableVars, testVarsSable, nodeVars, lineVars, connVars
  <2>2. stage' = "run" => node'["server"] = "absent"
    BY <1>b, <1>c, <1>25 DEF SableKills, StageIs, KilledFirst, Signals, WaitedFor, SetUpInv, SettingUp, CallInv, Nodes, Watched, Killing, sableVars, testVarsSable, nodeVars, lineVars, connVars
  <2>3. /\ stage' \in {"run", "run services"} => created' = {}
        /\ stage' = "run history" => "history" \notin created' /\ ("services" \in wanted' => "services" \in created')
    BY <1>a, <1>c, <1>w, <1>25 DEF SableKills, StageIs, KilledFirst, Signals, WaitedFor, SetUpInv, SettingUp, CallInv, Killing, Watched, sableVars, testVarsSable, nodeVars, lineVars, connVars
  <2>4. \A w \in Watched : w \notin created' => node'[w] = "absent"
    BY ZenonT(60), <1>a, <1>b, <1>c, <1>w, <1>25 DEF SableKills, StageIs, KilledFirst, Signals, WaitedFor, SetUpInv, CallInv, NodeRuns, Watched, Nodes, sableVars, testVarsSable, nodeVars, lineVars, connVars
  <2>5. ~SettingUp' /\ stage' # "errored" => created' = wanted'
    BY <1>a, <1>c, <1>w, <1>25 DEF SableKills, StageIs, KilledFirst, Signals, WaitedFor, SetUpInv, SettingUp, CallInv, Killing, Watched, sableVars, testVarsSable, nodeVars, lineVars, connVars
  <2> QED
    BY <2>1, <2>2, <2>3, <2>4, <2>5 DEF SetUpInv
<1>27. ASSUME NEW c \in SableClients, ServerPongs(c) PROVE SetUpInv'
  <2>1. ~SettingUp
    BY <1>d, <1>27 DEF ServerPongs, SetUpInv
  <2> QED
    BY <1>27, <2>1 DEF ServerPongs, SetUpInv, SettingUp, testVarsSable, nodeVars
<1>28. CASE UserSynchronizes
  <2>1. ~SettingUp
    BY <1>28 DEF UserSynchronizes, SetUpInv, SableClients
  <2> QED
    BY <1>28, <2>1 DEF UserSynchronizes, Continues, testAlone, SetUpInv, SettingUp
<1>26. CASE UNCHANGED sableVars
  BY <1>26 DEF SetUpInv, SettingUp, CallInv, NodeRuns, Killing, Watched, Nodes, SableClients, sableVars, testVarsSable, nodeVars, lineVars, connVars
<1> QED
  BY <1>1, <1>2, <1>3, <1>4, <1>5, <1>6, <1>7, <1>8, <1>9, <1>10, <1>11, <1>12, <1>13, <1>14, <1>15, <1>16, <1>17, <1>18, <1>19, <1>20, <1>21, <1>22, <1>23, <1>24, <1>25, <1>26, <1>27, <1>28 DEF NextSable, ServerSpeaks, SableClientStep, SetUpSable, SableCalls

\* Links end with a process, and processes do not come back.
LEMMA EarnedStep == TypeOKSable /\ SetUpInv /\ EarnedInv /\ CallInv /\ [NextSable]_sableVars => EarnedInv'
<1> SUFFICES ASSUME TypeOKSable, SetUpInv, EarnedInv, CallInv, [NextSable]_sableVars PROVE EarnedInv'
  OBVIOUS
<1>w. wanted \subseteq Watched
  BY SableAssumption DEF TypeOKSable
<1>a. wanted \in SableConfigs /\ created \subseteq wanted /\ up \subseteq created
  BY DEF TypeOKSable
<1>b. node \in [Nodes -> {"absent", "running", "zombie", "reaped"}]
  BY DEF TypeOKSable
<1>c. heard \in [SableClients -> SUBSET {"present", "absent", "pong"}]
  BY DEF TypeOKSable
<1>d. joined \subseteq Watched /\ signalled \subseteq Nodes
  BY DEF TypeOKSable
<1>1. CASE ServerAccepts
  BY <1>w, <1>a, <1>b, <1>c, <1>d, <1>1 DEF ServerAccepts, EarnedInv, Earned, Gone, SetUpInv, SettingUp, NodeRuns, Nodes, Watched, SableClients, sableVars, testVarsSable, nodeVars, lineVars, connVars
<1>2. ASSUME NEW w \in Watched, NodeJoins(w) PROVE EarnedInv'
  BY <1>w, <1>a, <1>b, <1>c, <1>d, <1>2 DEF NodeJoins, EarnedInv, Earned, Gone, SetUpInv, SettingUp, NodeRuns, Nodes, Watched, SableClients, sableVars, testVarsSable, nodeVars, lineVars, connVars
<1>3. ASSUME NEW n \in Nodes, NodeObeys(n) PROVE EarnedInv'
  <2>1. \A w \in up' : Earned(w)'
    BY <1>a, <1>b, <1>d, <1>w, <1>3 DEF NodeObeys, NodeExits, NodeRuns, EarnedInv, Earned, Gone, Nodes, Watched
  <2>2. \A w \in Watched : "present" \in heard'[w] => Earned(w)'
    BY ZenonT(30), <1>a, <1>b, <1>c, <1>d, <1>w, <1>3 DEF NodeObeys, NodeExits, EarnedInv, Earned, Gone, NodeRuns, SetUpInv, SettingUp, Nodes, Watched, SableClients, sableVars, testVarsSable, nodeVars, lineVars, connVars
  <2> QED
    BY <2>1, <2>2 DEF EarnedInv
<1>4. ASSUME NEW n \in Nodes, NodeCrashes(n) PROVE EarnedInv'
  <2>1. \A w \in up' : Earned(w)'
    BY <1>a, <1>b, <1>d, <1>w, <1>4 DEF NodeCrashes, NodeExits, NodeRuns, EarnedInv, Earned, Gone, Nodes, Watched
  <2>2. \A w \in Watched : "present" \in heard'[w] => Earned(w)'
    BY ZenonT(30), <1>a, <1>b, <1>c, <1>d, <1>w, <1>4 DEF NodeCrashes, NodeExits, EarnedInv, Earned, Gone, NodeRuns, SetUpInv, SettingUp, Nodes, Watched, SableClients, sableVars, testVarsSable, nodeVars, lineVars, connVars
  <2> QED
    BY <2>1, <2>2 DEF EarnedInv
<1>5. ASSUME NEW c \in SableClients, ServerGreets(c) PROVE EarnedInv'
  BY <1>w, <1>a, <1>b, <1>c, <1>d, <1>5 DEF ServerGreets, ConnBecomes, EarnedInv, Earned, Gone, SetUpInv, SettingUp, NodeRuns, Nodes, Watched, SableClients, sableVars, testVarsSable, nodeVars, lineVars, connVars
<1>6. ASSUME NEW c \in SableClients, ServerLetsGo(c) PROVE EarnedInv'
  BY <1>w, <1>a, <1>b, <1>c, <1>d, <1>6 DEF ServerLetsGo, ConnBecomes, EarnedInv, Earned, Gone, SetUpInv, SettingUp, NodeRuns, Nodes, Watched, SableClients, sableVars, testVarsSable, nodeVars, lineVars, connVars
<1>7. ASSUME NEW c \in SableClients, ServerReplies(c) PROVE EarnedInv'
  BY <1>w, <1>a, <1>b, <1>c, <1>d, <1>7 DEF ServerReplies, About, EarnedInv, Earned, Gone, SetUpInv, SettingUp, NodeRuns, Nodes, Watched, SableClients, sableVars, testVarsSable, nodeVars, lineVars, connVars
<1>8. ASSUME NEW c \in SableClients, SableClientConnects(c) PROVE EarnedInv'
  BY <1>w, <1>a, <1>b, <1>c, <1>d, <1>8 DEF SableClientConnects, Continues, ClientRaises, RegistrationIs, CallEnds, testAlone, EarnedInv, Earned, Gone, SetUpInv, SettingUp, NodeRuns, Nodes, Watched, SableClients, sableVars, testVarsSable, nodeVars, lineVars, connVars
<1>9. ASSUME NEW c \in SableClients, SableReadsBurst(c) PROVE EarnedInv'
  BY <1>w, <1>a, <1>b, <1>c, <1>d, <1>9 DEF SableReadsBurst, Continues, testAlone, EarnedInv, Earned, Gone, SetUpInv, SettingUp, NodeRuns, Nodes, Watched, SableClients, sableVars, testVarsSable, nodeVars, lineVars, connVars
<1>10. ASSUME NEW c \in SableClients, SableMeetsEnd(c) PROVE EarnedInv'
  BY <1>w, <1>a, <1>b, <1>c, <1>d, <1>10 DEF SableMeetsEnd, Continues, ClientRaises, RegistrationIs, CallEnds, Forgotten, testAlone, EarnedInv, Earned, Gone, SetUpInv, SettingUp, NodeRuns, Nodes, Watched, SableClients, sableVars, testVarsSable, nodeVars, lineVars, connVars
<1>11. ASSUME NEW c \in SableClients, SableAsks(c) PROVE EarnedInv'
  BY <1>w, <1>a, <1>b, <1>c, <1>d, <1>11 DEF SableAsks, Continues, testAlone, EarnedInv, Earned, Gone, SetUpInv, SettingUp, NodeRuns, Nodes, Watched, SableClients, sableVars, testVarsSable, nodeVars, lineVars, connVars
<1>12. ASSUME NEW c \in SableClients, ThreadReadsReply(c) PROVE EarnedInv'
  <2>1. \A w \in up' : Earned(w)'
    <3>1. joined' = joined /\ \A n \in Nodes : Gone(n) => Gone(n)'
      BY <1>b, <1>12 DEF ThreadReadsReply, Reads, Gone, NodeRuns, testAlone, Nodes
    <3>2. up' = up \/ (up' = up \cup {c} /\ "present" \in heard[c] /\ c \in Watched)
      BY <1>12 DEF ThreadReadsReply, Reads, TellsOf
    <3> QED
      BY <1>a, <1>w, <3>1, <3>2 DEF EarnedInv, Earned, Nodes
  <2>2. \A w \in Watched : "present" \in heard'[w] => Earned(w)'
    <3>1. joined' = joined /\ \A n \in Nodes : Gone(n) => Gone(n)'
      BY <1>b, <1>12 DEF ThreadReadsReply, Reads, Gone, NodeRuns, testAlone, Nodes
    <3>2. \A w \in Watched : heard'[w] \in {heard[w], {}}
      BY <1>c, <1>12 DEF ThreadReadsReply, Reads, Forgotten, SableClients
    <3> QED
      BY <3>1, <3>2 DEF EarnedInv, Earned, Nodes
  <2> QED
    BY <2>1, <2>2 DEF EarnedInv
<1>13. CASE UserReadsReply
  BY <1>w, <1>a, <1>b, <1>c, <1>d, <1>13 DEF UserReadsReply, Reads, Continues, RegistrationIs, CallEnds, Forgotten, TriedEnough, testAlone, EarnedInv, Earned, Gone, SetUpInv, SettingUp, NodeRuns, Nodes, Watched, SableClients, sableVars, testVarsSable, nodeVars, lineVars, connVars
<1>14. ASSUME NEW c \in SableClients, SableQuits(c) PROVE EarnedInv'
  BY <1>w, <1>a, <1>b, <1>c, <1>d, <1>14 DEF SableQuits, Continues, testAlone, EarnedInv, Earned, Gone, SetUpInv, SettingUp, NodeRuns, Nodes, Watched, SableClients, sableVars, testVarsSable, nodeVars, lineVars, connVars
<1>15. ASSUME NEW c \in SableClients, SableLeaves(c) PROVE EarnedInv'
  BY <1>w, <1>a, <1>b, <1>c, <1>d, <1>15 DEF SableLeaves, Continues, RegistrationIs, CallEnds, Forgotten, testAlone, EarnedInv, Earned, Gone, SetUpInv, SettingUp, NodeRuns, Nodes, Watched, SableClients, sableVars, testVarsSable, nodeVars, lineVars, connVars
<1>16. CASE RunServer
  BY <1>w, <1>a, <1>b, <1>c, <1>d, <1>16 DEF RunServer, StageIs, EarnedInv, Earned, Gone, SetUpInv, SettingUp, NodeRuns, Nodes, Watched, SableClients, sableVars, testVarsSable, nodeVars, lineVars, connVars
<1>17. CASE RunWatched("services", "run services", "run history")
  BY <1>w, <1>a, <1>b, <1>c, <1>d, <1>17 DEF RunWatched, StageIs, EarnedInv, Earned, Gone, SetUpInv, SettingUp, NodeRuns, Nodes, Watched, SableClients, sableVars, testVarsSable, nodeVars, lineVars, connVars
<1>18. CASE RunWatched("history", "run history", "test")
  BY <1>w, <1>a, <1>b, <1>c, <1>d, <1>18 DEF RunWatched, StageIs, EarnedInv, Earned, Gone, SetUpInv, SettingUp, NodeRuns, Nodes, Watched, SableClients, sableVars, testVarsSable, nodeVars, lineVars, connVars
<1>19. CASE HistoryFindsNoDatabase
  BY <1>w, <1>a, <1>b, <1>c, <1>d, <1>19 DEF HistoryFindsNoDatabase, StageIs, EarnedInv, Earned, Gone, SetUpInv, SettingUp, NodeRuns, Nodes, Watched, SableClients, sableVars, testVarsSable, nodeVars, lineVars, connVars
<1>20. CASE SableTestCalls
  BY <1>w, <1>a, <1>b, <1>c, <1>d, <1>20 DEF SableTestCalls, EarnedInv, Earned, Gone, SetUpInv, SettingUp, NodeRuns, Nodes, Watched, SableClients, sableVars, testVarsSable, nodeVars, lineVars, connVars
<1>21. CASE PortAnswers
  BY <1>w, <1>a, <1>b, <1>c, <1>d, <1>21 DEF PortAnswers, ThreadsStart, CallEnds, EarnedInv, Earned, Gone, SetUpInv, SettingUp, NodeRuns, Nodes, Watched, SableClients, sableVars, testVarsSable, nodeVars, lineVars, connVars
<1>22. CASE PortDoesNotAnswer
  BY <1>w, <1>a, <1>b, <1>c, <1>d, <1>22 DEF PortDoesNotAnswer, CallEnds, EarnedInv, Earned, Gone, SetUpInv, SettingUp, NodeRuns, Nodes, Watched, SableClients, sableVars, testVarsSable, nodeVars, lineVars, connVars
<1>23. CASE ThreadsJoined
  BY <1>w, <1>a, <1>b, <1>c, <1>d, <1>23 DEF ThreadsJoined, SomeThreadRaised, CallEnds, EarnedInv, Earned, Gone, SetUpInv, SettingUp, NodeRuns, Nodes, Watched, SableClients, sableVars, testVarsSable, nodeVars, lineVars, connVars
<1>24. CASE SableTearDown
  BY <1>w, <1>a, <1>b, <1>c, <1>d, <1>24 DEF SableTearDown, StageIs, EarnedInv, Earned, Gone, SetUpInv, SettingUp, NodeRuns, Nodes, Watched, SableClients, sableVars, testVarsSable, nodeVars, lineVars, connVars
<1>25. CASE SableKills
  <2>1. \A w \in up' : Earned(w)'
    BY <1>a, <1>b, <1>w, <1>25 DEF SableKills, StageIs, Signals, WaitedFor, nodeVars, EarnedInv, Earned, Gone, NodeRuns, Nodes, Watched
  <2>2. \A w \in Watched : "present" \in heard'[w] => Earned(w)'
    BY <1>a, <1>b, <1>c, <1>d, <1>w, <1>25 DEF SableKills, StageIs, KilledFirst, Signals, WaitedFor, EarnedInv, Earned, Gone, NodeRuns, SetUpInv, SettingUp, Nodes, Watched, SableClients, sableVars, testVarsSable, nodeVars, lineVars, connVars
  <2> QED
    BY <2>1, <2>2 DEF EarnedInv
<1>27. ASSUME NEW c \in SableClients, ServerPongs(c) PROVE EarnedInv'
  BY <1>c, <1>27 DEF ServerPongs, EarnedInv, Earned, Gone, NodeRuns, Watched, SableClients, testVarsSable, nodeVars
<1>28. CASE UserSynchronizes
  BY <1>c, <1>28 DEF UserSynchronizes, Continues, testAlone, EarnedInv, Earned, Gone, NodeRuns, Watched, SableClients
<1>26. CASE UNCHANGED sableVars
  BY <1>26 DEF EarnedInv, Earned, Gone, SetUpInv, SettingUp, NodeRuns, Nodes, Watched, SableClients, sableVars, testVarsSable, nodeVars, lineVars, connVars
<1> QED
  BY <1>1, <1>2, <1>3, <1>4, <1>5, <1>6, <1>7, <1>8, <1>9, <1>10, <1>11, <1>12, <1>13, <1>14, <1>15, <1>16, <1>17, <1>18, <1>19, <1>20, <1>21, <1>22, <1>23, <1>24, <1>25, <1>26, <1>27, <1>28 DEF NextSable, ServerSpeaks, SableClientStep, SetUpSable, SableCalls

\* Threads end before wait_for_services() does, with services_up or an exception.
LEMMA CallStep == TypeOKSable /\ SetUpInv /\ CallInv /\ [NextSable]_sableVars => CallInv'
<1> SUFFICES ASSUME TypeOKSable, SetUpInv, CallInv, [NextSable]_sableVars PROVE CallInv'
  OBVIOUS
<1>w. wanted \subseteq Watched
  BY SableAssumption DEF TypeOKSable
<1>a. wanted \in SableConfigs /\ created \subseteq wanted /\ up \subseteq created
  BY DEF TypeOKSable
<1>b. does \in [SableClients -> {"nothing", "connect", "burst", "sync", "ask", "reply", "quit", "leave", "raised"}]
  BY DEF TypeOKSable
<1>1. CASE ServerAccepts
  BY <1>w, <1>a, <1>b, <1>1 DEF ServerAccepts, CallInv, SetUpInv, SettingUp, Killing, Watched, SableClients, sableVars, testVarsSable, nodeVars, lineVars, connVars
<1>2. ASSUME NEW w \in Watched, NodeJoins(w) PROVE CallInv'
  BY <1>w, <1>a, <1>b, <1>2 DEF NodeJoins, CallInv, SetUpInv, SettingUp, Killing, Watched, SableClients, sableVars, testVarsSable, nodeVars, lineVars, connVars
<1>3. ASSUME NEW n \in Nodes, NodeObeys(n) PROVE CallInv'
  BY <1>w, <1>a, <1>b, <1>3 DEF NodeObeys, NodeExits, CallInv, SetUpInv, SettingUp, Killing, Watched, SableClients, sableVars, testVarsSable, nodeVars, lineVars, connVars
<1>4. ASSUME NEW n \in Nodes, NodeCrashes(n) PROVE CallInv'
  BY <1>w, <1>a, <1>b, <1>4 DEF NodeCrashes, NodeExits, CallInv, SetUpInv, SettingUp, Killing, Watched, SableClients, sableVars, testVarsSable, nodeVars, lineVars, connVars
<1>5. ASSUME NEW c \in SableClients, ServerGreets(c) PROVE CallInv'
  BY <1>w, <1>a, <1>b, <1>5 DEF ServerGreets, ConnBecomes, CallInv, SetUpInv, SettingUp, Killing, Watched, SableClients, sableVars, testVarsSable, nodeVars, lineVars, connVars
<1>6. ASSUME NEW c \in SableClients, ServerLetsGo(c) PROVE CallInv'
  BY <1>w, <1>a, <1>b, <1>6 DEF ServerLetsGo, ConnBecomes, CallInv, SetUpInv, SettingUp, Killing, Watched, SableClients, sableVars, testVarsSable, nodeVars, lineVars, connVars
<1>7. ASSUME NEW c \in SableClients, ServerReplies(c) PROVE CallInv'
  BY <1>w, <1>a, <1>b, <1>7 DEF ServerReplies, About, CallInv, SetUpInv, SettingUp, Killing, Watched, SableClients, sableVars, testVarsSable, nodeVars, lineVars, connVars
<1>8. ASSUME NEW c \in SableClients, SableClientConnects(c) PROVE CallInv'
  <2>1. /\ \A w \in Watched : does'[w] # "nothing" => stage' = "threads" /\ w \in created'
        /\ does'["user"] # "nothing" => stage' = "register"
    BY ZenonT(30), <1>a, <1>b, <1>w, <1>8 DEF SableClientConnects, Continues, ClientRaises, RegistrationIs, CallEnds, testAlone, CallInv, SetUpInv, SettingUp, Killing, Watched, SableClients, sableVars, testVarsSable, nodeVars, lineVars, connVars
  <2>2. \A w \in Watched : does'[w] \in {"quit", "leave"} => w \in up'
    BY <1>a, <1>b, <1>w, <1>8 DEF SableClientConnects, Continues, ClientRaises, RegistrationIs, CallEnds, testAlone, CallInv, Watched, SableClients, sableVars, testVarsSable, nodeVars, lineVars, connVars
  <2>3. stage' = "threads" => \A w \in created' : does'[w] = "nothing" => w \in up'
    BY <1>a, <1>b, <1>w, <1>8 DEF SableClientConnects, Continues, ClientRaises, RegistrationIs, CallEnds, testAlone, CallInv, SetUpInv, SettingUp, Watched, SableClients, Killing, sableVars, testVarsSable, nodeVars, lineVars, connVars
  <2>4. stage' = "threads" => "services" \in wanted'
    BY <1>a, <1>w, <1>8 DEF SableClientConnects, Continues, ClientRaises, RegistrationIs, CallEnds, testAlone, CallInv, Killing, sableVars, testVarsSable, nodeVars, lineVars, connVars
  <2>5. stage' = "register" \/ (stage' = "test" /\ result' = "returned" /\ "services" \in wanted')
       => wanted' \subseteq up'
    BY <1>a, <1>b, <1>w, <1>8 DEF SableClientConnects, Continues, ClientRaises, RegistrationIs, CallEnds, testAlone, CallInv, SetUpInv, SettingUp, Killing, Watched, SableClients, sableVars, testVarsSable, nodeVars, lineVars, connVars
  <2> QED
    BY <2>1, <2>2, <2>3, <2>4, <2>5 DEF CallInv
<1>9. ASSUME NEW c \in SableClients, SableReadsBurst(c) PROVE CallInv'
  <2>1. /\ \A w \in Watched : does'[w] # "nothing" => stage' = "threads" /\ w \in created'
        /\ does'["user"] # "nothing" => stage' = "register"
    BY <1>a, <1>b, <1>w, <1>9 DEF SableReadsBurst, Continues, testAlone, CallInv, SetUpInv, SettingUp, Killing, Watched, SableClients, sableVars, testVarsSable, nodeVars, lineVars, connVars
  <2>2. \A w \in Watched : does'[w] \in {"quit", "leave"} => w \in up'
    BY <1>a, <1>b, <1>w, <1>9 DEF SableReadsBurst, Continues, testAlone, CallInv, Watched, SableClients, sableVars, testVarsSable, nodeVars, lineVars, connVars
  <2>3. stage' = "threads" => \A w \in created' : does'[w] = "nothing" => w \in up'
    BY <1>a, <1>b, <1>w, <1>9 DEF SableReadsBurst, Continues, testAlone, CallInv, SetUpInv, SettingUp, Watched, SableClients, Killing, sableVars, testVarsSable, nodeVars, lineVars, connVars
  <2>4. stage' = "threads" => "services" \in wanted'
    BY <1>a, <1>w, <1>9 DEF SableReadsBurst, Continues, testAlone, CallInv, Killing, sableVars, testVarsSable, nodeVars, lineVars, connVars
  <2>5. stage' = "register" \/ (stage' = "test" /\ result' = "returned" /\ "services" \in wanted')
       => wanted' \subseteq up'
    BY <1>a, <1>b, <1>w, <1>9 DEF SableReadsBurst, Continues, testAlone, CallInv, SetUpInv, SettingUp, Killing, Watched, SableClients, sableVars, testVarsSable, nodeVars, lineVars, connVars
  <2> QED
    BY <2>1, <2>2, <2>3, <2>4, <2>5 DEF CallInv
<1>10. ASSUME NEW c \in SableClients, SableMeetsEnd(c) PROVE CallInv'
  <2>1. /\ \A w \in Watched : does'[w] # "nothing" => stage' = "threads" /\ w \in created'
        /\ does'["user"] # "nothing" => stage' = "register"
    BY ZenonT(30), <1>a, <1>b, <1>w, <1>10 DEF SableMeetsEnd, Continues, ClientRaises, RegistrationIs, CallEnds, Forgotten, testAlone, CallInv, SetUpInv, SettingUp, Killing, Watched, SableClients, sableVars, testVarsSable, nodeVars, lineVars, connVars
  <2>2. \A w \in Watched : does'[w] \in {"quit", "leave"} => w \in up'
    BY <1>a, <1>b, <1>w, <1>10 DEF SableMeetsEnd, Continues, ClientRaises, RegistrationIs, CallEnds, Forgotten, testAlone, CallInv, Watched, SableClients, sableVars, testVarsSable, nodeVars, lineVars, connVars
  <2>3. stage' = "threads" => \A w \in created' : does'[w] = "nothing" => w \in up'
    BY <1>a, <1>b, <1>w, <1>10 DEF SableMeetsEnd, Continues, ClientRaises, RegistrationIs, CallEnds, Forgotten, testAlone, CallInv, SetUpInv, SettingUp, Watched, SableClients, Killing, sableVars, testVarsSable, nodeVars, lineVars, connVars
  <2>4. stage' = "threads" => "services" \in wanted'
    BY <1>a, <1>w, <1>10 DEF SableMeetsEnd, Continues, ClientRaises, RegistrationIs, CallEnds, Forgotten, testAlone, CallInv, Killing, sableVars, testVarsSable, nodeVars, lineVars, connVars
  <2>5. stage' = "register" \/ (stage' = "test" /\ result' = "returned" /\ "services" \in wanted')
       => wanted' \subseteq up'
    BY <1>a, <1>b, <1>w, <1>10 DEF SableMeetsEnd, Continues, ClientRaises, RegistrationIs, CallEnds, Forgotten, testAlone, CallInv, SetUpInv, SettingUp, Killing, Watched, SableClients, sableVars, testVarsSable, nodeVars, lineVars, connVars
  <2> QED
    BY <2>1, <2>2, <2>3, <2>4, <2>5 DEF CallInv
<1>11. ASSUME NEW c \in SableClients, SableAsks(c) PROVE CallInv'
  BY <1>w, <1>a, <1>b, <1>11 DEF SableAsks, Continues, testAlone, CallInv, SetUpInv, SettingUp, Killing, Watched, SableClients, sableVars, testVarsSable, nodeVars, lineVars, connVars
<1>12. ASSUME NEW c \in SableClients, ThreadReadsReply(c) PROVE CallInv'
  <2>1. /\ \A w \in Watched : does'[w] # "nothing" => stage' = "threads" /\ w \in created'
        /\ does'["user"] # "nothing" => stage' = "register"
    BY ZenonT(60), <1>a, <1>b, <1>w, <1>12 DEF ThreadReadsReply, Reads, Continues, Forgotten, TellsOf, TriedEnough, testAlone, CallInv, SetUpInv, SettingUp, Killing, Watched, SableClients, sableVars, testVarsSable, nodeVars, lineVars, connVars
  <2>2. \A w \in Watched : does'[w] \in {"quit", "leave"} => w \in up'
    BY <1>a, <1>b, <1>w, <1>12 DEF ThreadReadsReply, Reads, Continues, Forgotten, TellsOf, TriedEnough, testAlone, CallInv, Watched, SableClients, sableVars, testVarsSable, nodeVars, lineVars, connVars
  <2>3. stage' = "threads" => \A w \in created' : does'[w] = "nothing" => w \in up'
    BY <1>a, <1>b, <1>w, <1>12 DEF ThreadReadsReply, Reads, Continues, Forgotten, TellsOf, TriedEnough, testAlone, CallInv, SetUpInv, SettingUp, Watched, SableClients, Killing, sableVars, testVarsSable, nodeVars, lineVars, connVars
  <2>4. stage' = "threads" => "services" \in wanted'
    BY <1>a, <1>w, <1>12 DEF ThreadReadsReply, Reads, Continues, Forgotten, TellsOf, TriedEnough, testAlone, CallInv, Killing, sableVars, testVarsSable, nodeVars, lineVars, connVars
  <2>5. stage' = "register" \/ (stage' = "test" /\ result' = "returned" /\ "services" \in wanted')
       => wanted' \subseteq up'
    BY <1>a, <1>b, <1>w, <1>12 DEF ThreadReadsReply, Reads, Continues, Forgotten, TellsOf, TriedEnough, testAlone, CallInv, SetUpInv, SettingUp, Killing, Watched, SableClients, sableVars, testVarsSable, nodeVars, lineVars, connVars
  <2> QED
    BY <2>1, <2>2, <2>3, <2>4, <2>5 DEF CallInv
<1>13. CASE UserReadsReply
  BY <1>w, <1>a, <1>b, <1>13 DEF UserReadsReply, Reads, Continues, RegistrationIs, CallEnds, Forgotten, TriedEnough, testAlone, CallInv, SetUpInv, SettingUp, Killing, Watched, SableClients, sableVars, testVarsSable, nodeVars, lineVars, connVars
<1>14. ASSUME NEW c \in SableClients, SableQuits(c) PROVE CallInv'
  BY <1>w, <1>a, <1>b, <1>14 DEF SableQuits, Continues, testAlone, CallInv, SetUpInv, SettingUp, Killing, Watched, SableClients, sableVars, testVarsSable, nodeVars, lineVars, connVars
<1>15. ASSUME NEW c \in SableClients, SableLeaves(c) PROVE CallInv'
  <2>1. /\ \A w \in Watched : does'[w] # "nothing" => stage' = "threads" /\ w \in created'
        /\ does'["user"] # "nothing" => stage' = "register"
    BY <1>a, <1>b, <1>w, <1>15 DEF SableLeaves, Continues, RegistrationIs, CallEnds, Forgotten, testAlone, CallInv, SetUpInv, SettingUp, Killing, Watched, SableClients, sableVars, testVarsSable, nodeVars, lineVars, connVars
  <2>2. \A w \in Watched : does'[w] \in {"quit", "leave"} => w \in up'
    BY <1>a, <1>b, <1>w, <1>15 DEF SableLeaves, Continues, RegistrationIs, CallEnds, Forgotten, testAlone, CallInv, Watched, SableClients, sableVars, testVarsSable, nodeVars, lineVars, connVars
  <2>3. stage' = "threads" => \A w \in created' : does'[w] = "nothing" => w \in up'
    BY <1>a, <1>b, <1>w, <1>15 DEF SableLeaves, Continues, RegistrationIs, CallEnds, Forgotten, testAlone, CallInv, SetUpInv, SettingUp, Watched, SableClients, Killing, sableVars, testVarsSable, nodeVars, lineVars, connVars
  <2>4. stage' = "threads" => "services" \in wanted'
    BY <1>a, <1>w, <1>15 DEF SableLeaves, Continues, RegistrationIs, CallEnds, Forgotten, testAlone, CallInv, Killing, sableVars, testVarsSable, nodeVars, lineVars, connVars
  <2>5. stage' = "register" \/ (stage' = "test" /\ result' = "returned" /\ "services" \in wanted')
       => wanted' \subseteq up'
    BY <1>a, <1>b, <1>w, <1>15 DEF SableLeaves, Continues, RegistrationIs, CallEnds, Forgotten, testAlone, CallInv, SetUpInv, SettingUp, Killing, Watched, SableClients, sableVars, testVarsSable, nodeVars, lineVars, connVars
  <2> QED
    BY <2>1, <2>2, <2>3, <2>4, <2>5 DEF CallInv
<1>16. CASE RunServer
  BY <1>w, <1>a, <1>b, <1>16 DEF RunServer, StageIs, CallInv, SetUpInv, SettingUp, Killing, Watched, SableClients, sableVars, testVarsSable, nodeVars, lineVars, connVars
<1>17. CASE RunWatched("services", "run services", "run history")
  BY <1>w, <1>a, <1>b, <1>17 DEF RunWatched, StageIs, CallInv, SetUpInv, SettingUp, Killing, Watched, SableClients, sableVars, testVarsSable, nodeVars, lineVars, connVars
<1>18. CASE RunWatched("history", "run history", "test")
  <2>1. /\ \A w \in Watched : does'[w] # "nothing" => stage' = "threads" /\ w \in created'
        /\ does'["user"] # "nothing" => stage' = "register"
    BY <1>a, <1>b, <1>w, <1>18 DEF RunWatched, StageIs, CallInv, SetUpInv, SettingUp, Killing, Watched, SableClients, sableVars, testVarsSable, nodeVars, lineVars, connVars
  <2>2. \A w \in Watched : does'[w] \in {"quit", "leave"} => w \in up'
    BY <1>a, <1>b, <1>w, <1>18 DEF RunWatched, StageIs, CallInv, Watched, SableClients, sableVars, testVarsSable, nodeVars, lineVars, connVars
  <2>3. stage' = "threads" => \A w \in created' : does'[w] = "nothing" => w \in up'
    BY <1>a, <1>b, <1>w, <1>18 DEF RunWatched, StageIs, CallInv, SetUpInv, SettingUp, Watched, SableClients, Killing, sableVars, testVarsSable, nodeVars, lineVars, connVars
  <2>4. stage' = "threads" => "services" \in wanted'
    BY <1>a, <1>w, <1>18 DEF RunWatched, StageIs, CallInv, Killing, sableVars, testVarsSable, nodeVars, lineVars, connVars
  <2>5. stage' = "register" \/ (stage' = "test" /\ result' = "returned" /\ "services" \in wanted')
       => wanted' \subseteq up'
    BY <1>18 DEF RunWatched, StageIs, CallInv, SetUpInv, SettingUp, testVarsSable
  <2> QED
    BY <2>1, <2>2, <2>3, <2>4, <2>5 DEF CallInv
<1>19. CASE HistoryFindsNoDatabase
  BY <1>w, <1>a, <1>b, <1>19 DEF HistoryFindsNoDatabase, StageIs, CallInv, SetUpInv, SettingUp, Killing, Watched, SableClients, sableVars, testVarsSable, nodeVars, lineVars, connVars
<1>20. CASE SableTestCalls
  BY <1>w, <1>a, <1>b, <1>20 DEF SableTestCalls, CallInv, SetUpInv, SettingUp, Killing, Watched, SableClients, sableVars, testVarsSable, nodeVars, lineVars, connVars
<1>21. CASE PortAnswers
  <2>1. /\ \A w \in Watched : does'[w] # "nothing" => stage' = "threads" /\ w \in created'
        /\ does'["user"] # "nothing" => stage' = "register"
    BY <1>a, <1>b, <1>w, <1>21 DEF PortAnswers, ThreadsStart, CallEnds, CallInv, SetUpInv, SettingUp, Killing, Watched, SableClients, sableVars, testVarsSable, nodeVars, lineVars, connVars
  <2>2. \A w \in Watched : does'[w] \in {"quit", "leave"} => w \in up'
    BY <1>a, <1>b, <1>w, <1>21 DEF PortAnswers, ThreadsStart, CallEnds, CallInv, Watched, SableClients, sableVars, testVarsSable, nodeVars, lineVars, connVars
  <2>3. stage' = "threads" => \A w \in created' : does'[w] = "nothing" => w \in up'
    BY <1>a, <1>b, <1>w, <1>21 DEF PortAnswers, ThreadsStart, CallEnds, CallInv, SetUpInv, SettingUp, Watched, SableClients, Killing, sableVars, testVarsSable, nodeVars, lineVars, connVars
  <2>4. stage' = "threads" => "services" \in wanted'
    BY <1>a, <1>w, <1>21 DEF PortAnswers, ThreadsStart, CallEnds, CallInv, Killing, sableVars, testVarsSable, nodeVars, lineVars, connVars
  <2>5. stage' = "register" \/ (stage' = "test" /\ result' = "returned" /\ "services" \in wanted')
       => wanted' \subseteq up'
    BY <1>a, <1>b, <1>w, <1>21 DEF PortAnswers, ThreadsStart, CallEnds, CallInv, SetUpInv, SettingUp, Killing, Watched, SableClients, sableVars, testVarsSable, nodeVars, lineVars, connVars
  <2> QED
    BY <2>1, <2>2, <2>3, <2>4, <2>5 DEF CallInv
<1>22. CASE PortDoesNotAnswer
  BY <1>w, <1>a, <1>b, <1>22 DEF PortDoesNotAnswer, CallEnds, CallInv, SetUpInv, SettingUp, Killing, Watched, SableClients, sableVars, testVarsSable, nodeVars, lineVars, connVars
<1>23. CASE ThreadsJoined
  <2>1. /\ \A w \in Watched : does'[w] # "nothing" => stage' = "threads" /\ w \in created'
        /\ does'["user"] # "nothing" => stage' = "register"
    BY <1>a, <1>b, <1>w, <1>23 DEF ThreadsJoined, SomeThreadRaised, CallEnds, CallInv, SetUpInv, SettingUp, Killing, Watched, SableClients, sableVars, testVarsSable, nodeVars, lineVars, connVars
  <2>2. \A w \in Watched : does'[w] \in {"quit", "leave"} => w \in up'
    BY <1>a, <1>b, <1>w, <1>23 DEF ThreadsJoined, SomeThreadRaised, CallEnds, CallInv, Watched, SableClients, sableVars, testVarsSable, nodeVars, lineVars, connVars
  <2>3. stage' = "threads" => \A w \in created' : does'[w] = "nothing" => w \in up'
    BY <1>a, <1>b, <1>w, <1>23 DEF ThreadsJoined, SomeThreadRaised, CallEnds, CallInv, SetUpInv, SettingUp, Watched, SableClients, Killing, sableVars, testVarsSable, nodeVars, lineVars, connVars
  <2>4. stage' = "threads" => "services" \in wanted'
    BY <1>a, <1>w, <1>23 DEF ThreadsJoined, SomeThreadRaised, CallEnds, CallInv, Killing, sableVars, testVarsSable, nodeVars, lineVars, connVars
  <2>5. stage' = "register" \/ (stage' = "test" /\ result' = "returned" /\ "services" \in wanted')
       => wanted' \subseteq up'
    BY <1>a, <1>b, <1>w, <1>23 DEF ThreadsJoined, SomeThreadRaised, CallEnds, CallInv, SetUpInv, SettingUp, Killing, Watched, SableClients, sableVars, testVarsSable, nodeVars, lineVars, connVars
  <2> QED
    BY <2>1, <2>2, <2>3, <2>4, <2>5 DEF CallInv
<1>24. CASE SableTearDown
  BY <1>w, <1>a, <1>b, <1>24 DEF SableTearDown, StageIs, CallInv, SetUpInv, SettingUp, Killing, Watched, SableClients, sableVars, testVarsSable, nodeVars, lineVars, connVars
<1>25. CASE SableKills
  BY <1>w, <1>a, <1>b, <1>25 DEF SableKills, StageIs, KilledFirst, Signals, WaitedFor, CallInv, SetUpInv, SettingUp, Killing, Watched, SableClients, sableVars, testVarsSable, nodeVars, lineVars, connVars
<1>27. ASSUME NEW c \in SableClients, ServerPongs(c) PROVE CallInv'
  BY <1>27 DEF ServerPongs, CallInv, testVarsSable
<1>28. CASE UserSynchronizes
  BY <1>w, <1>a, <1>b, <1>28 DEF UserSynchronizes, Continues, testAlone, CallInv, Watched, SableClients
<1>26. CASE UNCHANGED sableVars
  BY <1>26 DEF CallInv, SetUpInv, SettingUp, Killing, Watched, SableClients, sableVars, testVarsSable, nodeVars, lineVars, connVars
<1> QED
  BY <1>1, <1>2, <1>3, <1>4, <1>5, <1>6, <1>7, <1>8, <1>9, <1>10, <1>11, <1>12, <1>13, <1>14, <1>15, <1>16, <1>17, <1>18, <1>19, <1>20, <1>21, <1>22, <1>23, <1>24, <1>25, <1>26, <1>27, <1>28 DEF NextSable, ServerSpeaks, SableClientStep, SetUpSable, SableCalls

\* kill() goes from the services to the server.
LEMMA KillStep == TypeOKSable /\ SetUpInv /\ CallInv /\ KillInv /\ [NextSable]_sableVars => KillInv'
<1> SUFFICES ASSUME TypeOKSable, SetUpInv, CallInv, KillInv, [NextSable]_sableVars PROVE KillInv'
  OBVIOUS
<1>w. wanted \subseteq Watched
  BY SableAssumption DEF TypeOKSable
<1>a. wanted \in SableConfigs /\ created \subseteq wanted /\ up \subseteq created
  BY DEF TypeOKSable
<1>b. node \in [Nodes -> {"absent", "running", "zombie", "reaped"}]
  BY DEF TypeOKSable
<1>1. CASE ServerAccepts
  BY <1>w, <1>a, <1>b, <1>1 DEF ServerAccepts, KillInv, Over, SetUpInv, SettingUp, CallInv, Killing, NodeRuns, Watched, Nodes, sableVars, testVarsSable, nodeVars, lineVars, connVars
<1>2. ASSUME NEW w \in Watched, NodeJoins(w) PROVE KillInv'
  BY <1>w, <1>a, <1>b, <1>2 DEF NodeJoins, KillInv, Over, SetUpInv, SettingUp, CallInv, Killing, NodeRuns, Watched, Nodes, sableVars, testVarsSable, nodeVars, lineVars, connVars
<1>3. ASSUME NEW n \in Nodes, NodeObeys(n) PROVE KillInv'
  BY <1>w, <1>a, <1>b, <1>3 DEF NodeObeys, NodeExits, KillInv, Over, SetUpInv, SettingUp, CallInv, Killing, NodeRuns, Watched, Nodes, sableVars, testVarsSable, nodeVars, lineVars, connVars
<1>4. ASSUME NEW n \in Nodes, NodeCrashes(n) PROVE KillInv'
  BY <1>w, <1>a, <1>b, <1>4 DEF NodeCrashes, NodeExits, KillInv, Over, SetUpInv, SettingUp, CallInv, Killing, NodeRuns, Watched, Nodes, sableVars, testVarsSable, nodeVars, lineVars, connVars
<1>5. ASSUME NEW c \in SableClients, ServerGreets(c) PROVE KillInv'
  BY <1>w, <1>a, <1>b, <1>5 DEF ServerGreets, ConnBecomes, KillInv, Over, SetUpInv, SettingUp, CallInv, Killing, NodeRuns, Watched, Nodes, sableVars, testVarsSable, nodeVars, lineVars, connVars
<1>6. ASSUME NEW c \in SableClients, ServerLetsGo(c) PROVE KillInv'
  BY <1>w, <1>a, <1>b, <1>6 DEF ServerLetsGo, ConnBecomes, KillInv, Over, SetUpInv, SettingUp, CallInv, Killing, NodeRuns, Watched, Nodes, sableVars, testVarsSable, nodeVars, lineVars, connVars
<1>7. ASSUME NEW c \in SableClients, ServerReplies(c) PROVE KillInv'
  BY <1>w, <1>a, <1>b, <1>7 DEF ServerReplies, About, KillInv, Over, SetUpInv, SettingUp, CallInv, Killing, NodeRuns, Watched, Nodes, sableVars, testVarsSable, nodeVars, lineVars, connVars
<1>8. ASSUME NEW c \in SableClients, SableClientConnects(c) PROVE KillInv'
  BY <1>w, <1>a, <1>b, <1>8 DEF SableClientConnects, Continues, ClientRaises, RegistrationIs, CallEnds, testAlone, KillInv, Over, SetUpInv, SettingUp, CallInv, Killing, NodeRuns, Watched, Nodes, sableVars, testVarsSable, nodeVars, lineVars, connVars
<1>9. ASSUME NEW c \in SableClients, SableReadsBurst(c) PROVE KillInv'
  BY <1>w, <1>a, <1>b, <1>9 DEF SableReadsBurst, Continues, testAlone, KillInv, Over, SetUpInv, SettingUp, CallInv, Killing, NodeRuns, Watched, Nodes, sableVars, testVarsSable, nodeVars, lineVars, connVars
<1>10. ASSUME NEW c \in SableClients, SableMeetsEnd(c) PROVE KillInv'
  BY <1>w, <1>a, <1>b, <1>10 DEF SableMeetsEnd, Continues, ClientRaises, RegistrationIs, CallEnds, Forgotten, testAlone, KillInv, Over, SetUpInv, SettingUp, CallInv, Killing, NodeRuns, Watched, Nodes, sableVars, testVarsSable, nodeVars, lineVars, connVars
<1>11. ASSUME NEW c \in SableClients, SableAsks(c) PROVE KillInv'
  BY <1>w, <1>a, <1>b, <1>11 DEF SableAsks, Continues, testAlone, KillInv, Over, SetUpInv, SettingUp, CallInv, Killing, NodeRuns, Watched, Nodes, sableVars, testVarsSable, nodeVars, lineVars, connVars
<1>12. ASSUME NEW c \in SableClients, ThreadReadsReply(c) PROVE KillInv'
  BY <1>w, <1>a, <1>b, <1>12 DEF ThreadReadsReply, Reads, Continues, Forgotten, TellsOf, TriedEnough, testAlone, KillInv, Over, SetUpInv, SettingUp, CallInv, Killing, NodeRuns, Watched, Nodes, sableVars, testVarsSable, nodeVars, lineVars, connVars
<1>13. CASE UserReadsReply
  BY <1>w, <1>a, <1>b, <1>13 DEF UserReadsReply, Reads, Continues, RegistrationIs, CallEnds, Forgotten, TriedEnough, testAlone, KillInv, Over, SetUpInv, SettingUp, CallInv, Killing, NodeRuns, Watched, Nodes, sableVars, testVarsSable, nodeVars, lineVars, connVars
<1>14. ASSUME NEW c \in SableClients, SableQuits(c) PROVE KillInv'
  BY <1>w, <1>a, <1>b, <1>14 DEF SableQuits, Continues, testAlone, KillInv, Over, SetUpInv, SettingUp, CallInv, Killing, NodeRuns, Watched, Nodes, sableVars, testVarsSable, nodeVars, lineVars, connVars
<1>15. ASSUME NEW c \in SableClients, SableLeaves(c) PROVE KillInv'
  BY <1>w, <1>a, <1>b, <1>15 DEF SableLeaves, Continues, RegistrationIs, CallEnds, Forgotten, testAlone, KillInv, Over, SetUpInv, SettingUp, CallInv, Killing, NodeRuns, Watched, Nodes, sableVars, testVarsSable, nodeVars, lineVars, connVars
<1>16. CASE RunServer
  BY <1>w, <1>a, <1>b, <1>16 DEF RunServer, StageIs, KillInv, Over, SetUpInv, SettingUp, CallInv, Killing, NodeRuns, Watched, Nodes, sableVars, testVarsSable, nodeVars, lineVars, connVars
<1>17. CASE RunWatched("services", "run services", "run history")
  BY <1>w, <1>a, <1>b, <1>17 DEF RunWatched, StageIs, KillInv, Over, SetUpInv, SettingUp, CallInv, Killing, NodeRuns, Watched, Nodes, sableVars, testVarsSable, nodeVars, lineVars, connVars
<1>18. CASE RunWatched("history", "run history", "test")
  BY <1>w, <1>a, <1>b, <1>18 DEF RunWatched, StageIs, KillInv, Over, SetUpInv, SettingUp, CallInv, Killing, NodeRuns, Watched, Nodes, sableVars, testVarsSable, nodeVars, lineVars, connVars
<1>19. CASE HistoryFindsNoDatabase
  BY <1>w, <1>a, <1>b, <1>19 DEF HistoryFindsNoDatabase, StageIs, KillInv, Over, SetUpInv, SettingUp, CallInv, Killing, NodeRuns, Watched, Nodes, sableVars, testVarsSable, nodeVars, lineVars, connVars
<1>20. CASE SableTestCalls
  BY <1>w, <1>a, <1>b, <1>20 DEF SableTestCalls, KillInv, Over, SetUpInv, SettingUp, CallInv, Killing, NodeRuns, Watched, Nodes, sableVars, testVarsSable, nodeVars, lineVars, connVars
<1>21. CASE PortAnswers
  BY <1>w, <1>a, <1>b, <1>21 DEF PortAnswers, ThreadsStart, CallEnds, KillInv, Over, SetUpInv, SettingUp, CallInv, Killing, NodeRuns, Watched, Nodes, sableVars, testVarsSable, nodeVars, lineVars, connVars
<1>22. CASE PortDoesNotAnswer
  BY <1>w, <1>a, <1>b, <1>22 DEF PortDoesNotAnswer, CallEnds, KillInv, Over, SetUpInv, SettingUp, CallInv, Killing, NodeRuns, Watched, Nodes, sableVars, testVarsSable, nodeVars, lineVars, connVars
<1>23. CASE ThreadsJoined
  BY <1>w, <1>a, <1>b, <1>23 DEF ThreadsJoined, SomeThreadRaised, CallEnds, KillInv, Over, SetUpInv, SettingUp, CallInv, Killing, NodeRuns, Watched, Nodes, sableVars, testVarsSable, nodeVars, lineVars, connVars
<1>24. CASE SableTearDown
  BY <1>w, <1>a, <1>b, <1>24 DEF SableTearDown, StageIs, KillInv, Over, SetUpInv, SettingUp, CallInv, Killing, NodeRuns, Watched, Nodes, sableVars, testVarsSable, nodeVars, lineVars, connVars
<1>25. CASE SableKills
  BY <1>w, <1>a, <1>b, <1>25 DEF SableKills, StageIs, KilledFirst, Signals, WaitedFor, KillInv, Over, SetUpInv, SettingUp, CallInv, Killing, NodeRuns, Watched, Nodes, sableVars, testVarsSable, nodeVars, lineVars, connVars
<1>27. ASSUME NEW c \in SableClients, ServerPongs(c) PROVE KillInv'
  BY <1>27 DEF ServerPongs, KillInv, Over, testVarsSable, nodeVars
<1>28. CASE UserSynchronizes
  BY <1>28 DEF UserSynchronizes, Continues, testAlone, KillInv, Over
<1>26. CASE UNCHANGED sableVars
  BY <1>26 DEF KillInv, Over, SetUpInv, SettingUp, CallInv, Killing, NodeRuns, Watched, Nodes, sableVars, testVarsSable, nodeVars, lineVars, connVars
<1> QED
  BY <1>1, <1>2, <1>3, <1>4, <1>5, <1>6, <1>7, <1>8, <1>9, <1>10, <1>11, <1>12, <1>13, <1>14, <1>15, <1>16, <1>17, <1>18, <1>19, <1>20, <1>21, <1>22, <1>23, <1>24, <1>25, <1>26, <1>27, <1>28 DEF NextSable, ServerSpeaks, SableClientStep, SetUpSable, SableCalls

-----------------------------------------------------------------------------

LEMMA InitSableInv == InitSable => SableInv
<1> SUFFICES ASSUME InitSable PROVE SableInv
  OBVIOUS
<1>1. TypeOKSable
  <2>1. pending \in [SableClients -> Nat] /\ tries \in [SableClients -> 0..MaxTries] /\ died \in 0..MaxSableCrashes
    <3>1. 0 \in 0..MaxTries /\ 0 \in 0..MaxSableCrashes
      BY SableAssumption
    <3> QED
      BY <3>1 DEF InitSable, SableBegins
  <2>2. stage = "run" /\ wanted \in SableConfigs /\ created = {} /\ up = {} /\ signalled = {} /\ joined = {}
    BY DEF InitSable, SableBegins
  <2>3. /\ node \in [Nodes -> {"absent"}] /\ accepting = FALSE /\ portKnown = FALSE
        /\ does \in [SableClients -> {"nothing"}] /\ conn \in [SableClients -> {"none"}]
        /\ heard \in [SableClients -> {{}}] /\ calling = "addClient" /\ result = ""
    BY DEF InitSable, SableBegins
  <2> QED
    BY <2>1, <2>2, <2>3 DEF TypeOKSable
<1>2. SetUpInv /\ EarnedInv
  BY SableAssumption DEF InitSable, SableBegins, SetUpInv, SettingUp, EarnedInv, Watched, Nodes, SableClients
<1>3. CallInv /\ KillInv
  BY DEF InitSable, SableBegins, CallInv, KillInv, Watched, SableClients
<1> QED
  BY <1>1, <1>2, <1>3 DEF SableInv

THEOREM SableInvariance == SpecSable => []SableInv
<1>1. SableInv /\ [NextSable]_sableVars => SableInv'
  BY TypeStep, SetUpStep, EarnedStep, CallStep, KillStep DEF SableInv
<1> QED
  BY InitSableInv, <1>1, PTL DEF SpecSable

\* Every variable keeps its type, whatever tests ask for.
THEOREM SableTypeCorrect == SpecSable => []TypeOKSable
<1>1. SableInv => TypeOKSable
  BY DEF SableInv
<1> QED
  BY SableInvariance, <1>1, PTL

\* wait_for_services() returns only after it has found all that the test asked
\* for: its two threads cannot fail unnoticed.
THEOREM WaitedForAll == SpecSable => []AllUpOnceWaited
<1>1. SableInv => AllUpOnceWaited
  BY DEF SableInv, EarnedInv, Earned, Gone, CallInv, AllUpOnceWaited
<1> QED
  BY SableInvariance, <1>1, PTL

\* After kill(), only a history server can still run.
THEOREM OnlyHistoryIsLeft == SpecSable => []OnlyHistoryOutlives
<1>1. SableInv => OnlyHistoryOutlives
  BY DEF SableInv, KillInv, Over, OnlyHistoryOutlives, Nodes, Watched
<1> QED
  BY SableInvariance, <1>1, PTL

-----------------------------------------------------------------------------
(* How long wait_for_services() and registerUser() can take: every step of   *)
(* them shortens what is left, and as long as the server owes no line a step *)
(* is possible.                                                              *)

\* What is left of what the server does for a client, and for its connection.
ConnLeft(s) ==
    CASE s = "new" -> 7 [] s = "pinged" -> 6 [] s = "ponged" -> 5 [] s = "up" -> 4
      [] s = "leaving" -> 3 [] s = "bye" -> 2 [] s = "refused" -> 1 [] OTHER -> 0

\* What is left of what a client does; each question costs three steps, one of
\* which is the PONG of the read that follows it.
ScriptLeft(step, tried, synchronized) ==
    CASE step = "connect" -> 16 + 3 * (MaxTries - tried)
      [] step = "burst"   -> 8 + 3 * (MaxTries - tried)
      [] step = "sync"    -> (IF synchronized THEN 6 ELSE 7) + 3 * (MaxTries - tried)
      [] step = "ask"     -> 5 + 3 * (MaxTries - tried)
      [] step = "reply"   -> (IF synchronized THEN 3 ELSE 4) + 3 * (MaxTries - tried)
      [] step = "quit"    -> 2
      [] step = "leave"   -> 1
      [] OTHER -> 0

ClientLeft(c) == ScriptLeft(does[c], tries[c], HasPong(c)) + ConnLeft(conn[c])

MostOfClient == 23 + 3 * MaxTries

InCall == stage \in {"threads", "register"}

\* Of a call: the two threads come first, then the client of registerUser().
CallLeft ==
    CASE stage = "threads"  -> 1 + ClientLeft("services") + ClientLeft("history") + MostOfClient
      [] stage = "register" -> ClientLeft("user")
      [] OTHER -> 0

\* The steps a call is made of, those of the server that greets a client,
\* answers its PING and lets it go included.
CallSteps ==
    SableCalls \/ \E c \in SableClients : ServerSpeaks(c) \/ SableClientStep(c)

CallShrinks ==
    InCall => /\ CallLeft \in 1..(1 + 3 * MostOfClient)
              /\ CallSteps => CallLeft' < CallLeft
              /\ CallLeft' <= CallLeft

\* A client knows how far its connection has come.
ConnOf(c) ==
    CASE does[c] \in {"nothing", "connect", "raised"} -> conn[c] = "none"
      [] does[c] = "burst" -> conn[c] \in {"new", "pinged", "ponged", "refused", "up", "closed"}
      [] does[c] \in {"sync", "ask", "reply", "quit"} -> conn[c] \in {"up", "closed"}
      [] does[c] = "leave" -> conn[c] \in {"leaving", "bye", "closed"}

ConnInv == \A c \in SableClients : ConnOf(c)

\* A connection that has not ended is one to a server that runs.
RunsInv ==
    /\ accepting => NodeRuns("server")
    /\ \A c \in SableClients : conn[c] \notin {"none", "closed"} => NodeRuns("server")

\* The guards of SableClientStep(c).
ClientCanStep(c) ==
    \/ does[c] \in {"connect", "ask", "quit"}
    \/ does[c] = "burst" /\ conn[c] \in {"pinged", "up", "refused", "closed"}
    \/ does[c] = "sync" /\ (HasPong(c) \/ conn[c] = "closed")
    \/ does[c] = "reply" /\ (HasPong(c) \/ c = "history" \/ conn[c] = "closed")
    \/ does[c] = "leave" /\ conn[c] \in {"bye", "closed"}

\* The guard of ThreadsJoined.
CallCanReturn ==
    stage = "threads" /\ \A w \in Watched : does[w] \in {"nothing", "raised"}

CallWaitsForServerOnly ==
    InCall => CallCanReturn \/ \E c \in SableClients : ClientCanStep(c) \/ ServerOwes(c)

\* At work: a thread only in wait_for_services(), the user only after it; a
\* client of registerUser() is at work as long as it lasts.
WorkInv ==
    /\ \A w \in Watched : stage # "threads" => does[w] = "nothing"
    /\ stage = "register" <=> does["user"] # "nothing"
    /\ does["user"] # "raised"

\* What is left is counted by natural numbers.
LeftCounted == \A c \in SableClients : ClientLeft(c) \in 0..MostOfClient

LEMMA MostIsEnough == MostOfClient \in Nat /\ MostOfClient >= 20
  BY SableAssumption DEF MostOfClient

LEMMA LeftIsCounted == TypeOKSable => LeftCounted
<1> SUFFICES ASSUME TypeOKSable, NEW c \in SableClients PROVE ClientLeft(c) \in 0..MostOfClient
  BY DEF LeftCounted
<1>1. tries[c] \in 0..MaxTries /\ MaxTries \in Nat  BY SableAssumption DEF TypeOKSable
<1>2. ConnLeft(conn[c]) \in 0..7  BY DEF ConnLeft
<1>3. ScriptLeft(does[c], tries[c], HasPong(c)) \in 0..(16 + 3 * MaxTries)  BY <1>1 DEF ScriptLeft
<1> QED  BY <1>1, <1>2, <1>3 DEF ClientLeft, MostOfClient

LEMMA LeftStaysCounted == TypeOKSable' => LeftCounted'
  BY LeftIsCounted, PTL

\* A step of the client, or of the server for it, shortens what is left of it,
\* and leaves the other clients where they are.
LEMMA ClientShortens ==
    ASSUME TypeOKSable, ConnInv, NEW c \in SableClients, ServerSpeaks(c) \/ SableClientStep(c)
    PROVE  /\ ClientLeft(c)' < ClientLeft(c)
           /\ \A d \in SableClients : d # c => ClientLeft(d)' = ClientLeft(d)
           /\ stage' = stage \/ (c = "user" /\ stage' = "test")
<1>1. does \in [SableClients -> {"nothing", "connect", "burst", "sync", "ask", "reply", "quit", "leave", "raised"}]
  BY DEF TypeOKSable
<1>2. conn \in [SableClients -> {"none", "new", "pinged", "ponged", "refused", "up", "leaving", "bye", "closed"}]
  BY DEF TypeOKSable
<1>3. tries \in [SableClients -> 0..MaxTries] /\ MaxTries \in Nat  BY SableAssumption DEF TypeOKSable
<1>4. ConnOf(c)  BY DEF ConnInv
<1>15. heard \in [SableClients -> SUBSET {"present", "absent", "pong"}]  BY DEF TypeOKSable
<1> USE <1>1, <1>2, <1>3, <1>4, <1>15
    DEF ClientLeft, ConnLeft, ScriptLeft, HasPong, ConnOf, testVarsSable, nodeVars, connVars, lineVars
<1>5. CASE ServerGreets(c)  BY <1>5 DEF ServerGreets, ConnBecomes
<1>6. CASE ServerLetsGo(c)  BY <1>6 DEF ServerLetsGo, ConnBecomes
<1>16. CASE ServerPongs(c)  BY <1>16 DEF ServerPongs, Synchronizes
<1>17. CASE c = "user" /\ UserSynchronizes  BY <1>17 DEF UserSynchronizes, Continues
<1>7. CASE SableClientConnects(c)
  BY <1>7 DEF SableClientConnects, Continues, ClientRaises, RegistrationIs, CallEnds
<1>8. CASE SableReadsBurst(c)  BY <1>8 DEF SableReadsBurst, Continues
<1>9. CASE SableMeetsEnd(c)
  BY <1>9 DEF SableMeetsEnd, Continues, ClientRaises, RegistrationIs, CallEnds, Forgotten
<1>10. CASE SableAsks(c)  BY <1>10 DEF SableAsks, Continues
<1>11. CASE ThreadReadsReply(c)
  BY <1>11 DEF ThreadReadsReply, Reads, Continues, Forgotten, TriedEnough
<1>12. CASE c = "user" /\ UserReadsReply
  BY <1>12 DEF UserReadsReply, Reads, Continues, RegistrationIs, CallEnds, Forgotten, TriedEnough
<1>13. CASE SableQuits(c)  BY <1>13 DEF SableQuits, Continues
<1>14. CASE SableLeaves(c)
  BY <1>14 DEF SableLeaves, Continues, RegistrationIs, CallEnds, Forgotten
<1> QED
  BY <1>5, <1>6, <1>7, <1>8, <1>9, <1>10, <1>11, <1>12, <1>13, <1>14, <1>16, <1>17 DEF ServerSpeaks, SableClientStep

\* The end of a process closes connections, which shortens what is left; what
\* else happens concerns no client.
LEMMA OthersLengthenNothing ==
    ASSUME TypeOKSable, [NextSable]_sableVars, ~CallSteps, InCall
    PROVE  stage' = stage /\ \A c \in SableClients : ClientLeft(c)' <= ClientLeft(c)
<1>1. does \in [SableClients -> {"nothing", "connect", "burst", "sync", "ask", "reply", "quit", "leave", "raised"}]
  BY DEF TypeOKSable
<1>2. conn \in [SableClients -> {"none", "new", "pinged", "ponged", "refused", "up", "leaving", "bye", "closed"}]
  BY DEF TypeOKSable
<1>3. tries \in [SableClients -> 0..MaxTries] /\ MaxTries \in Nat  BY SableAssumption DEF TypeOKSable
<1>4. CASE stage' = stage /\ UNCHANGED <<does, conn, tries>> /\ \A c \in SableClients : HasPong(c)' = HasPong(c)
  <2>1. \A c \in SableClients : ClientLeft(c)' = ClientLeft(c)  BY <1>4 DEF ClientLeft
  <2> QED  BY <1>4, <2>1, LeftIsCounted, MostIsEnough DEF LeftCounted
<1>5. ASSUME NEW n \in Nodes, NodeExits(n)
      PROVE stage' = stage /\ \A c \in SableClients : ClientLeft(c)' <= ClientLeft(c)
  BY <1>1, <1>2, <1>3, <1>5 DEF NodeExits, ClientLeft, ConnLeft, ScriptLeft, HasPong, testVarsSable
<1>6. CASE ServerAccepts \/ \E w \in Watched : NodeJoins(w)
  BY <1>4, <1>6 DEF ServerAccepts, NodeJoins, HasPong, testVarsSable, nodeVars, lineVars, connVars
<1>9. ASSUME NEW d \in SableClients, ServerReplies(d)
      PROVE stage' = stage /\ \A c \in SableClients : ClientLeft(c)' <= ClientLeft(c)
  <2>1. heard \in [SableClients -> SUBSET {"present", "absent", "pong"}]  BY DEF TypeOKSable
  <2>2. \A c \in SableClients : HasPong(c)' = HasPong(c)  BY <1>9, <2>1 DEF ServerReplies, HasPong
  <2> QED  BY <1>4, <1>9, <2>2 DEF ServerReplies, testVarsSable, nodeVars
<1>7. ~SetUpSable /\ ~SableTestCalls /\ ~SableTearDown /\ ~SableKills
  BY DEF InCall, SetUpSable, RunServer, RunWatched, HistoryFindsNoDatabase, SableTestCalls, SableTearDown, SableKills
<1>8. CASE UNCHANGED sableVars
  BY <1>4, <1>8 DEF HasPong, sableVars, testVarsSable, lineVars, connVars
<1> QED  BY <1>5, <1>6, <1>7, <1>8, <1>9 DEF NextSable, CallSteps, NodeObeys, NodeCrashes

\* Every step keeps a client and its connection together.
LEMMA ConnStep == TypeOKSable /\ WorkInv /\ ConnInv /\ [NextSable]_sableVars => ConnInv'
<1> SUFFICES ASSUME TypeOKSable, WorkInv, ConnInv, [NextSable]_sableVars, NEW d \in SableClients
             PROVE  ConnOf(d)'
  BY DEF ConnInv
<1>1. does \in [SableClients -> {"nothing", "connect", "burst", "sync", "ask", "reply", "quit", "leave", "raised"}]
  BY DEF TypeOKSable
<1>2. conn \in [SableClients -> {"none", "new", "pinged", "ponged", "refused", "up", "leaving", "bye", "closed"}]
  BY DEF TypeOKSable
<1>3. ConnOf(d)  BY DEF ConnInv
<1>4. CASE UNCHANGED <<does, conn>>  BY <1>3, <1>4 DEF ConnOf
<1>5. ASSUME NEW n \in Nodes, NodeExits(n) PROVE ConnOf(d)'
  BY <1>1, <1>2, <1>3, <1>5 DEF NodeExits, ConnOf
<1>6. ASSUME NEW c \in SableClients, ServerSpeaks(c) PROVE ConnOf(d)'
  BY <1>1, <1>2, <1>3, <1>6 DEF ServerSpeaks, ServerGreets, ServerPongs, ServerLetsGo, ConnBecomes, ConnOf
<1>7. ASSUME NEW c \in SableClients, SableClientStep(c) PROVE ConnOf(d)'
  <2> USE <1>1, <1>2, <1>3 DEF ConnOf, connVars
  <2>1. CASE SableClientConnects(c)
    BY <2>1 DEF SableClientConnects, Continues, ClientRaises, RegistrationIs
  <2>2. CASE SableReadsBurst(c)  BY <2>2 DEF SableReadsBurst, Continues
  <2>3. CASE SableMeetsEnd(c)
    BY <2>3 DEF SableMeetsEnd, Continues, ClientRaises, RegistrationIs, Forgotten
  <2>4. CASE SableAsks(c)  BY <2>4 DEF SableAsks, Continues
  <2>5. CASE ThreadReadsReply(c)  BY <2>5 DEF ThreadReadsReply, Reads, Continues, Forgotten
  <2>6. CASE c = "user" /\ UserReadsReply
    BY <2>6 DEF UserReadsReply, Reads, Continues, RegistrationIs, Forgotten
  <2>7. CASE SableQuits(c)  BY <2>7 DEF SableQuits, Continues
  <2>8. CASE SableLeaves(c)
    BY <2>8 DEF SableLeaves, Continues, RegistrationIs, Forgotten
  <2>9. CASE c = "user" /\ UserSynchronizes  BY <2>9 DEF UserSynchronizes, Continues
  <2> QED  BY <1>7, <2>1, <2>2, <2>3, <2>4, <2>5, <2>6, <2>7, <2>8, <2>9 DEF SableClientStep
<1>8. CASE PortAnswers
  BY <1>1, <1>2, <1>3, <1>8 DEF PortAnswers, ThreadsStart, connVars, ConnOf, WorkInv, SableClients
<1>9. CASE ThreadsJoined
  BY <1>1, <1>2, <1>3, <1>9 DEF ThreadsJoined, connVars, ConnOf, WorkInv, SableClients
<1>10. CASE PortDoesNotAnswer \/ SableTestCalls \/ SableTearDown
  BY <1>4, <1>10 DEF PortDoesNotAnswer, SableTestCalls, SableTearDown, StageIs, lineVars, connVars
<1>11. CASE SetUpSable
  BY <1>4, <1>11 DEF SetUpSable, RunServer, RunWatched, HistoryFindsNoDatabase, StageIs, lineVars, connVars
<1>12. CASE SableKills
  BY <1>4, <1>12 DEF SableKills, Signals, WaitedFor, StageIs, lineVars, connVars
<1>13. CASE ServerAccepts \/ (\E w \in Watched : NodeJoins(w)) \/ \E c \in SableClients : ServerReplies(c)
  BY <1>4, <1>13 DEF ServerAccepts, NodeJoins, ServerReplies, lineVars, connVars
<1>14. CASE UNCHANGED sableVars  BY <1>4, <1>14 DEF sableVars, lineVars, connVars
<1> QED
  BY <1>5, <1>6, <1>7, <1>8, <1>9, <1>10, <1>11, <1>12, <1>13, <1>14 DEF NextSable, SableCalls, NodeObeys, NodeCrashes

\* Every step keeps the clients at work when, and only when, their call needs them.
LEMMA WorkStep == TypeOKSable /\ WorkInv /\ ConnInv /\ [NextSable]_sableVars => WorkInv'
<1> SUFFICES ASSUME TypeOKSable, WorkInv, ConnInv, [NextSable]_sableVars PROVE WorkInv'
  OBVIOUS
<1>1. does \in [SableClients -> {"nothing", "connect", "burst", "sync", "ask", "reply", "quit", "leave", "raised"}]
  BY DEF TypeOKSable
<1>2. CASE UNCHANGED <<does, stage>>  BY <1>2 DEF WorkInv
<1>3. CASE UNCHANGED does /\ {stage, stage'} \cap {"threads", "register"} = {}
  BY <1>3 DEF WorkInv
<1>4. ASSUME NEW c \in SableClients, SableClientStep(c) PROVE WorkInv'
  <2> USE <1>1 DEF WorkInv, SableClients, Watched
  <2>1. CASE SableClientConnects(c)
    BY <2>1 DEF SableClientConnects, Continues, ClientRaises, RegistrationIs, CallEnds
  <2>2. CASE SableReadsBurst(c)  BY <2>2 DEF SableReadsBurst, Continues
  <2>3. CASE SableMeetsEnd(c)
    BY <2>3 DEF SableMeetsEnd, Continues, ClientRaises, RegistrationIs, CallEnds
  <2>4. CASE SableAsks(c)  BY <2>4 DEF SableAsks, Continues
  <2>5. CASE ThreadReadsReply(c)  BY <2>5 DEF ThreadReadsReply, Reads, Continues
  <2>6. CASE c = "user" /\ UserReadsReply
    BY <2>6 DEF UserReadsReply, Reads, Continues, RegistrationIs, CallEnds
  <2>7. CASE SableQuits(c)  BY <2>7 DEF SableQuits, Continues
  <2>8. CASE SableLeaves(c)
    BY <2>8 DEF SableLeaves, Continues, RegistrationIs, CallEnds
  <2>9. CASE c = "user" /\ UserSynchronizes  BY <2>9 DEF UserSynchronizes, Continues
  <2> QED  BY <1>4, <2>1, <2>2, <2>3, <2>4, <2>5, <2>6, <2>7, <2>8, <2>9 DEF SableClientStep
<1>5. CASE PortAnswers
  <2>4. created \subseteq wanted /\ wanted \in SableConfigs  BY DEF TypeOKSable
  <2>1. "user" \notin created  BY <2>4, SableAssumption DEF Watched
  <2>2. CASE stage' = "threads" /\ ThreadsStart
    <3>1. does'["user"] = "nothing"  BY <2>1, <2>2 DEF ThreadsStart, SableClients
    <3> QED  BY <2>2, <3>1 DEF WorkInv, Watched
  <2>3. CASE CallEnds("returned") /\ UNCHANGED does
    BY <1>3, <1>5, <2>3 DEF PortAnswers, CallEnds
  <2> QED  BY <1>5, <2>2, <2>3 DEF PortAnswers
<1>6. CASE ThreadsJoined
  BY <1>1, <1>6 DEF ThreadsJoined, SomeThreadRaised, CallEnds, WorkInv, SableClients, Watched
<1>7. CASE PortDoesNotAnswer \/ SableTestCalls \/ SableTearDown
  BY <1>3, <1>7 DEF PortDoesNotAnswer, SableTestCalls, SableTearDown, StageIs, CallEnds, lineVars
<1>8. CASE SetUpSable
  BY <1>3, <1>8 DEF SetUpSable, RunServer, RunWatched, HistoryFindsNoDatabase, StageIs, lineVars
<1>9. CASE SableKills
  BY <1>3, <1>9 DEF SableKills, KilledFirst, Signals, WaitedFor, StageIs, lineVars
<1>10. CASE ServerAccepts \/ (\E w \in Watched : NodeJoins(w)) \/ \E n \in Nodes : NodeExits(n)
  BY <1>2, <1>10 DEF ServerAccepts, NodeJoins, NodeExits, lineVars, testVarsSable
<1>11. CASE \E c \in SableClients : ServerReplies(c) \/ ServerSpeaks(c)
  BY <1>2, <1>11 DEF ServerReplies, ServerSpeaks, ServerGreets, ServerPongs, ServerLetsGo, ConnBecomes, testVarsSable
<1>12. CASE UNCHANGED sableVars  BY <1>2, <1>12 DEF sableVars, lineVars, testVarsSable
<1> QED
  BY <1>4, <1>5, <1>6, <1>7, <1>8, <1>9, <1>10, <1>11, <1>12 DEF NextSable, SableCalls, NodeObeys, NodeCrashes

\* A call steps from stage to stage, and each stage leaves enough for the next.
LEMMA CallShortens ==
    ASSUME TypeOKSable, TypeOKSable', WorkInv, ConnInv, InCall, CallSteps
    PROVE  CallLeft' < CallLeft
<1>1. /\ \A c \in SableClients : ClientLeft(c) \in 0..MostOfClient
      /\ MostOfClient \in Nat /\ MostOfClient >= 20
  BY LeftIsCounted, MostIsEnough DEF LeftCounted
<1>3. \A c \in SableClients : ClientLeft(c)' \in 0..MostOfClient
  BY LeftStaysCounted DEF LeftCounted
<1>4. {"services", "history", "user"} = SableClients /\ Watched = {"services", "history"}
  BY DEF SableClients, Watched
<1>5. ~PortAnswers /\ ~PortDoesNotAnswer
  BY DEF PortAnswers, PortDoesNotAnswer, InCall
<1>7. CASE ThreadsJoined
  BY <1>1, <1>3, <1>4, <1>7 DEF ThreadsJoined, CallEnds, CallLeft
<1>8. ASSUME NEW c \in SableClients, ServerSpeaks(c) \/ SableClientStep(c)
      PROVE CallLeft' < CallLeft
  <2>1. /\ ClientLeft(c)' < ClientLeft(c)
        /\ \A d \in SableClients : d # c => ClientLeft(d)' = ClientLeft(d)
        /\ stage' = stage \/ (c = "user" /\ stage' = "test")
    BY <1>8, ClientShortens
  <2>2. does[c] # "nothing"
    <3>1. SUFFICES ASSUME does[c] = "nothing" PROVE FALSE
      OBVIOUS
    <3>2. conn[c] = "none"  BY <3>1 DEF ConnInv, ConnOf
    <3> QED
      BY <1>8, <3>1, <3>2 DEF ServerSpeaks, ServerGreets, ServerPongs, ServerLetsGo, SableClientStep, SableClientConnects, SableReadsBurst, UserSynchronizes, SableMeetsEnd, SableAsks, ThreadReadsReply, UserReadsReply, Reads, SableQuits, SableLeaves
  <2>3. (c = "user" /\ stage = "register") \/ (c \in Watched /\ stage = "threads")
    BY <1>4, <2>2 DEF WorkInv
  <2>4. CASE c = "user" /\ stage = "register"
    BY <1>1, <1>3, <1>4, <2>1, <2>4 DEF CallLeft
  <2>5. CASE c \in Watched /\ stage = "threads"
    <3>1. stage' = "threads"  BY <1>4, <2>1, <2>5
    <3>2. /\ ClientLeft("services") \in Nat /\ ClientLeft("history") \in Nat
          /\ ClientLeft("services")' \in Nat /\ ClientLeft("history")' \in Nat
      BY <1>1, <1>3, <1>4
    <3>3. /\ CallLeft = 1 + ClientLeft("services") + ClientLeft("history") + MostOfClient
          /\ CallLeft' = 1 + ClientLeft("services")' + ClientLeft("history")' + MostOfClient
      BY <2>5, <3>1 DEF CallLeft, MostOfClient
    <3>4. CASE c = "services"
      <4>1. ClientLeft("services")' < ClientLeft("services")  BY <2>1, <3>4
      <4>2. ClientLeft("history")' = ClientLeft("history")  BY <1>4, <2>1, <3>4
      <4> QED  BY <1>1, <3>2, <3>3, <4>1, <4>2
    <3>5. CASE c = "history"
      <4>1. ClientLeft("history")' < ClientLeft("history")  BY <2>1, <3>5
      <4>2. ClientLeft("services")' = ClientLeft("services")  BY <1>4, <2>1, <3>5
      <4> QED  BY <1>1, <3>2, <3>3, <4>1, <4>2
    <3> QED  BY <1>4, <2>5, <3>4, <3>5
  <2> QED  BY <2>3, <2>4, <2>5
<1> QED  BY <1>5, <1>7, <1>8 DEF CallSteps, SableCalls

\* Nothing else that happens during a call makes it longer.
LEMMA NothingLengthens ==
    ASSUME TypeOKSable, TypeOKSable', WorkInv, ConnInv, InCall, [NextSable]_sableVars
    PROVE  CallLeft' <= CallLeft /\ CallLeft \in 1..(1 + 3 * MostOfClient)
<1>1. /\ \A c \in SableClients : ClientLeft(c) \in 0..MostOfClient
      /\ MostOfClient \in Nat /\ MostOfClient >= 20
  BY LeftIsCounted, MostIsEnough DEF LeftCounted
<1>2. "services" \in SableClients /\ "history" \in SableClients /\ "user" \in SableClients
  BY DEF SableClients, Watched
<1>3. stage = "register" => ClientLeft("user") >= 1
  <2> SUFFICES ASSUME stage = "register" PROVE ClientLeft("user") >= 1
    OBVIOUS
  <2>1. does["user"] \in {"connect", "burst", "sync", "ask", "reply", "quit", "leave"}
    BY <1>2 DEF WorkInv, TypeOKSable
  <2>2. tries["user"] \in 0..MaxTries /\ MaxTries \in Nat  BY <1>2, SableAssumption DEF TypeOKSable
  <2>3. /\ ScriptLeft(does["user"], tries["user"], HasPong("user")) \in Nat
        /\ ScriptLeft(does["user"], tries["user"], HasPong("user")) >= 1
    BY <2>1, <2>2 DEF ScriptLeft
  <2>4. ConnLeft(conn["user"]) \in Nat  BY DEF ConnLeft
  <2> QED  BY <2>3, <2>4 DEF ClientLeft
<1>4. CallLeft \in 1..(1 + 3 * MostOfClient)
  BY <1>1, <1>2, <1>3 DEF CallLeft, InCall
<1>5. \A c \in SableClients : ClientLeft(c)' \in 0..MostOfClient
  BY LeftStaysCounted DEF LeftCounted
<1>6. CASE CallSteps
  <2>1. CallLeft' < CallLeft  BY <1>6, CallShortens
  <2>2. CallLeft' \in Nat  BY <1>1, <1>2, <1>5 DEF CallLeft
  <2> QED  BY <1>4, <2>1, <2>2
<1>7. CASE ~CallSteps
  <2>1. stage' = stage /\ \A c \in SableClients : ClientLeft(c)' <= ClientLeft(c)
    BY <1>7, OthersLengthenNothing
  <2> QED  BY <1>1, <1>2, <1>4, <1>5, <2>1 DEF CallLeft
<1> QED  BY <1>4, <1>6, <1>7

\* In a call, somebody can always step, or the server owes somebody a line.
LEMMA CallMoves == TypeOKSable /\ WorkInv /\ ConnInv /\ RunsInv => CallWaitsForServerOnly
<1> SUFFICES ASSUME TypeOKSable, WorkInv, ConnInv, RunsInv, InCall, ~CallCanReturn
             PROVE  \E c \in SableClients : ClientCanStep(c) \/ ServerOwes(c)
  BY DEF CallWaitsForServerOnly
<1>1. PICK c \in SableClients : does[c] \notin {"nothing", "raised"}
  BY DEF InCall, CallCanReturn, WorkInv, SableClients
<1>2. does[c] \in {"connect", "burst", "sync", "ask", "reply", "quit", "leave"}  BY <1>1 DEF TypeOKSable
<1>3. ConnOf(c)  BY DEF ConnInv
<1>4. conn[c] \notin {"none", "closed"} => NodeRuns("server")  BY DEF RunsInv
<1> QED  BY <1>2, <1>3, <1>4 DEF ConnOf, ClientCanStep, ServerOwes, Synchronizes

\* Connections end with the server they are to.
LEMMA RunsStep == TypeOKSable /\ RunsInv /\ [NextSable]_sableVars => RunsInv'
<1> SUFFICES ASSUME TypeOKSable, RunsInv, [NextSable]_sableVars PROVE RunsInv'
  OBVIOUS
<1>1. conn \in [SableClients -> {"none", "new", "pinged", "ponged", "refused", "up", "leaving", "bye", "closed"}]
  BY DEF TypeOKSable
<1>2. node \in [Nodes -> {"absent", "running", "zombie", "reaped"}]  BY DEF TypeOKSable
<1>3. CASE UNCHANGED <<node, accepting, conn>>  BY <1>3 DEF RunsInv, NodeRuns
<1>4. ASSUME NEW n \in Nodes, NodeExits(n) PROVE RunsInv'
  BY <1>1, <1>2, <1>4 DEF NodeExits, RunsInv, NodeRuns
<1>5. ASSUME NEW c \in SableClients, ServerSpeaks(c) PROVE RunsInv'
  BY <1>1, <1>5 DEF ServerSpeaks, ServerGreets, ServerPongs, ServerLetsGo, ConnBecomes, RunsInv, NodeRuns, nodeVars
<1>6. ASSUME NEW c \in SableClients, SableClientStep(c) PROVE RunsInv'
  <2> USE <1>1, <1>2 DEF RunsInv, NodeRuns, testAlone, connVars
  <2>1. CASE SableClientConnects(c)  BY <2>1 DEF SableClientConnects
  <2>2. CASE SableReadsBurst(c)  BY <2>2 DEF SableReadsBurst
  <2>3. CASE SableMeetsEnd(c)  BY <2>3 DEF SableMeetsEnd, Forgotten
  <2>4. CASE SableAsks(c)  BY <2>4 DEF SableAsks
  <2>5. CASE ThreadReadsReply(c)
    <3>1. accepting' = accepting /\ node'["server"] = node["server"]
      BY <2>5 DEF ThreadReadsReply, Forgotten, Nodes, Watched
    <3>2. \A d \in SableClients : conn'[d] \in {conn[d], "none"}
      BY <2>5 DEF ThreadReadsReply, Forgotten
    <3> QED  BY <3>1, <3>2
  <2>6. CASE c = "user" /\ UserReadsReply  BY <2>6 DEF UserReadsReply, Forgotten
  <2>7. CASE SableQuits(c)  BY <2>7 DEF SableQuits
  <2>8. CASE SableLeaves(c)  BY <2>8 DEF SableLeaves, Forgotten
  <2>9. CASE c = "user" /\ UserSynchronizes  BY <2>9 DEF UserSynchronizes
  <2> QED  BY <1>6, <2>1, <2>2, <2>3, <2>4, <2>5, <2>6, <2>7, <2>8, <2>9 DEF SableClientStep
<1>7. CASE PortAnswers \/ ThreadsJoined \/ SableTestCalls
  BY <1>3, <1>7 DEF PortAnswers, ThreadsJoined, SableTestCalls, nodeVars, connVars, lineVars
<1>8. CASE PortDoesNotAnswer
  BY <1>2, <1>8 DEF PortDoesNotAnswer, RunsInv, NodeRuns, lineVars, connVars
<1>14. ASSUME UNCHANGED <<accepting, conn>>, NodeRuns("server") => NodeRuns("server")' PROVE RunsInv'
  BY <1>14 DEF RunsInv
<1>15. "server" \in Nodes  BY DEF Nodes
<1>9. CASE SetUpSable
  <2>1. UNCHANGED <<accepting, conn>>
    BY <1>9 DEF SetUpSable, RunServer, RunWatched, HistoryFindsNoDatabase, StageIs, lineVars, connVars
  <2>2. node' = node => (NodeRuns("server") => NodeRuns("server")')  BY DEF NodeRuns
  <2>3. ASSUME NEW n \in Nodes, node' = [node EXCEPT ![n] = "running"]
        PROVE  NodeRuns("server") => NodeRuns("server")'
    BY <1>2, <1>15, <2>3 DEF NodeRuns
  <2>4. NodeRuns("server") => NodeRuns("server")'
    BY <1>9, <2>2, <2>3 DEF SetUpSable, RunServer, RunWatched, HistoryFindsNoDatabase, Nodes, Watched, NodeRuns
  <2> QED  BY <1>14, <2>1, <2>4
<1>10. CASE SableKills
  <2>1. UNCHANGED <<accepting, conn>>
    BY <1>10 DEF SableKills, Signals, WaitedFor, StageIs, nodeVars, lineVars, connVars
  <2>2. node' = node => (NodeRuns("server") => NodeRuns("server")')  BY DEF NodeRuns
  <2>3. ASSUME NEW n \in Nodes, node[n] \in {"zombie", "reaped"}, node' = [node EXCEPT ![n] = "reaped"]
        PROVE  NodeRuns("server") => NodeRuns("server")'
    BY <1>2, <1>15, <2>3 DEF NodeRuns
  <2>5. node' = node \/ WaitedFor("services", "kill server") \/ WaitedFor("server", "release")
    BY <1>10 DEF SableKills, Signals, nodeVars
  <2>6. "services" \in Nodes  BY DEF Nodes, Watched
  <2>4. NodeRuns("server") => NodeRuns("server")'  BY <1>15, <2>2, <2>3, <2>5, <2>6 DEF WaitedFor
  <2> QED  BY <1>14, <2>1, <2>4
<1>11. CASE ServerAccepts \/ (\E w \in Watched : NodeJoins(w)) \/ \E c \in SableClients : ServerReplies(c)
  BY <1>11 DEF ServerAccepts, NodeJoins, ServerReplies, RunsInv, NodeRuns, nodeVars, lineVars, connVars
<1>12. CASE SableTearDown  BY <1>3, <1>12 DEF SableTearDown, StageIs, lineVars, connVars
<1>13. CASE UNCHANGED sableVars  BY <1>3, <1>13 DEF sableVars, nodeVars, lineVars, connVars
<1> QED
  BY <1>4, <1>5, <1>6, <1>7, <1>8, <1>9, <1>10, <1>11, <1>12, <1>13 DEF NextSable, SableCalls, NodeObeys, NodeCrashes

LEMMA InitCallInv == InitSable => WorkInv /\ ConnInv /\ RunsInv
  BY DEF InitSable, SableBegins, WorkInv, ConnInv, ConnOf, RunsInv, SableClients, Watched

LEMMA CallInvariance == SpecSable => [](TypeOKSable /\ WorkInv /\ ConnInv /\ RunsInv)
<1>1. SableInv => TypeOKSable  BY DEF SableInv
<1> QED
  BY <1>1, SableInvariance, InitCallInv, WorkStep, ConnStep, RunsStep, PTL DEF SpecSable

\* wait_for_services() and registerUser() of a test of Sable wait for nothing
\* but a server that runs: unless it owes one of their clients the end of its
\* registration, the PONG of a synchronized read or the end of its connection,
\* a client can go on, or the threads are joined.  In particular they wait
\* neither for each other, nor for a node, nor for an answer of the services.
THEOREM SableCallsMove == SpecSable => []CallWaitsForServerOnly
  BY CallInvariance, CallMoves, PTL

\* And they are made of at most 70 + 9 * MaxTries such steps, those lines of the
\* server included: each one shortens what is left of the call, and nothing that
\* happens makes it longer.
THEOREM SableCallsAreShort == SpecSable => [][CallShrinks]_sableVars
<1>1. /\ TypeOKSable /\ WorkInv /\ ConnInv
      /\ TypeOKSable'
      /\ [NextSable]_sableVars
      => [CallShrinks]_sableVars
  BY CallShortens, NothingLengthens DEF CallShrinks
<1> QED
  BY <1>1, CallInvariance, PTL DEF SpecSable

================================================================================
