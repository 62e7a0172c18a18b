-------------------------- MODULE ServerTestsProofs --------------------------
(***************************************************************************)
(* What is true of server tests whatever the server does: of any number of *)
(* clients, any tests, and any answers.  Nothing here looks into the       *)
(* definition of the server.                                               *)
(***************************************************************************)
EXTENDS ServerTests, SequenceTheorems, BoundedInduction

-----------------------------------------------------------------------------
(* Patterns *)

\* Without ANYSTR and ANYLIST, match_list() is equality.
LEMMA ExactParameters ==
    ASSUME NEW S, NEW got \in Seq(S), NEW expected \in Seq(S),
           \A i \in DOMAIN expected : expected[i] \notin {ANYSTR, ANYLIST}
    PROVE  MatchList(got, expected) <=> got = expected
<1>1. MatchList(got, expected) <=> /\ Len(got) = Len(expected)
                                   /\ \A i \in 1..Len(expected) : got[i] = expected[i]
  BY DEF MatchList, MatchString
<1>2. (Len(got) = Len(expected) /\ \A i \in 1..Len(expected) : got[i] = expected[i]) => got = expected
  BY SeqEqual
<1> QED  BY <1>1, <1>2

\* A pattern without options expects its own parameters.
LEMMA NoOptions ==
    ASSUME NEW S, NEW args \in Seq(S), NEW got, NEW p, p.args = args, p.either = {}
    PROVE  Expected(p, got) = args
<1>1. Expected(p, got) = [i \in DOMAIN args |-> args[i]]  BY DEF Expected
<1> QED  BY <1>1

\* assertMessageMatch() with a source, a command and parameters, none of them a
\* wildcard, accepts the messages that have them and no other.
THEOREM ExactPattern ==
    ASSUME NEW S, NEW src, NEW cmd, NEW args \in Seq(S), NEW m, m.args \in Seq(S),
           src # ANYSTR, \A i \in DOMAIN args : args[i] \notin {ANYSTR, ANYLIST}
    PROVE  MessageMatches(m, From(src, cmd, args)) <=> m.src = src /\ m.cmd = cmd /\ m.args = args
<1> DEFINE p == From(src, cmd, args)
<1>1. /\ p.cmds = {cmd} /\ p.src = src /\ p.args = args /\ p.either = {}
      /\ p.with = {} /\ p.without = {} /\ p.only = FALSE
  BY DEF From, Pattern
<1>2. Expected(p, m.args) = args  BY <1>1, NoOptions
<1>3. MatchList(m.args, args) <=> m.args = args  BY ExactParameters
<1>4. MatchDict(m.tags \cup m.items, p.with, p.without, p.only)  BY <1>1 DEF MatchDict
<1>5. MatchString(m.src, src) <=> m.src = src  BY DEF MatchString
<1> HIDE DEF p
<1>6. MessageMatches(m, p) <=> m.cmd \in {cmd} /\ m.src = src /\ m.args = args
  BY <1>1, <1>2, <1>3, <1>4, <1>5 DEF MessageMatches
<1> QED  BY <1>6 DEF p

-----------------------------------------------------------------------------
(* Verdicts *)

\* A set of positions that is not empty has a first one.
LEMMA FirstPosition ==
    ASSUME NEW n \in Nat, NEW W \in SUBSET (1..n), W # {}
    PROVE  \E i \in W : \A j \in W : i <= j
<1> DEFINE T == {n - i : i \in W}
<1>0. \A i \in W : i \in Int /\ n - i \in 0..n  OBVIOUS
<1>1. T \subseteq 0..n /\ T \in SUBSET Nat /\ T # {}
  <2>1. T \subseteq 0..n  BY <1>0
  <2>2. T # {}
    <3>1. PICK i \in W : TRUE  OBVIOUS
    <3> QED  BY <3>1
  <2> HIDE DEF T
  <2> QED  BY <2>1, <2>2
<1>2. IsFiniteSet(T)
  <2>1. IsFiniteSet(0..n)  BY FS_Interval
  <2> HIDE DEF T
  <2> QED  BY <1>1, <2>1, FS_Subset
<1>3. PICK t \in T : \A y \in T : y <= t
  <2> HIDE DEF T
  <2> QED  BY <1>1, <1>2, MaxOfNumbers
<1>4. PICK i \in W : t = n - i  BY <1>3
<1>5. ASSUME NEW j \in W PROVE i <= j
  <2>1. n - j \in T  OBVIOUS
  <2>2. n - j <= n - i  BY <1>3, <1>4, <2>1
  <2> QED  BY <1>0, <2>2
<1> QED  BY <1>5

\* What the first assertion that fails leads to: a verdict, or the end of the
\* branch.
LEMMA JudgedType ==
    ASSUME NEW S, NEW checks \in Seq(S), NEW ms,
           \A i \in DOMAIN checks : checks[i].otherwise \in Verdicts \cup {"else"}
    PROVE  Judged(checks, ms) \in Verdicts \cup {"else"}
<1> DEFINE wrong == {i \in DOMAIN checks : ~Holds(checks[i], ms)}
           first == CHOOSE i \in wrong : \A j \in wrong : i <= j
<1>1. DOMAIN checks = 1..Len(checks) /\ Len(checks) \in Nat  OBVIOUS
<1>2. CASE wrong = {}
  BY <1>2 DEF Judged, Verdicts
<1>3. CASE wrong # {}
  <2>1. \E i \in wrong : \A j \in wrong : i <= j
    <3>1. wrong \in SUBSET (1..Len(checks))  BY <1>1
    <3> HIDE DEF wrong
    <3> QED  BY <1>1, <1>3, <3>1, FirstPosition
  <2>2. first \in wrong
    <3> HIDE DEF wrong
    <3> QED  BY <2>1
  <2>3. first \in DOMAIN checks  BY <2>2
  <2>4. Judged(checks, ms) = checks[first].otherwise  BY <1>3 DEF Judged
  <2> HIDE DEF first
  <2> QED  BY <2>3, <2>4
<1> QED  BY <1>2, <1>3

-----------------------------------------------------------------------------
(* Where a test is *)

\* The script of the running test, and the position of its next step.
Script == Tests[test].steps
At == Len(Script) - Len(steps) + 1

\* What is left to do is the end of the script.
PosInv ==
    /\ test \in DOMAIN Tests
    /\ steps \in Seq(Range(Script)) /\ Len(steps) <= Len(Script)
    /\ \A j \in 1..Len(steps) : steps[j] = Script[At - 1 + j]

\* The queues are queues of clients.
QueuesInv ==
    /\ toServer = [c \in Clients |-> toServer[c]]
    /\ DOMAIN toClient = Clients /\ DOMAIN inbuffer = Clients

\* The inductive invariant of the types.
TInv == verdict \in Verdicts /\ PosInv /\ QueuesInv

LEMMA ScriptType ==
    ASSUME NEW t \in DOMAIN Tests, NEW script, script = Tests[t].steps
    PROVE  /\ t \in Nat /\ script \in Seq(Range(script))
           /\ \A i \in DOMAIN script :
                /\ script[i].client \in Clients
                /\ script[i].branch \in 0..(Len(script) - i)
                /\ \A ms : Judged(script[i].checks, ms) \in Verdicts \cup {"else"}
<1>1. /\ t \in Nat /\ script \in Seq(Range(script))
      /\ \A i \in DOMAIN script :
            /\ script[i].client \in Clients
            /\ script[i].branch \in 0..(Len(script) - i)
            /\ script[i].checks \in Seq(Range(script[i].checks))
            /\ \A check \in Range(script[i].checks) : check.otherwise \in Verdicts \cup {"else"}
  BY TestsAssumption
<1>2. ASSUME NEW i \in DOMAIN script, NEW ms
      PROVE  Judged(script[i].checks, ms) \in Verdicts \cup {"else"}
  <2>1. \A j \in DOMAIN script[i].checks : script[i].checks[j].otherwise \in Verdicts \cup {"else"}
    BY <1>1 DEF Range
  <2> QED  BY <1>1, <2>1, JudgedType
<1> QED  BY <1>1, <1>2

\* The step a test is about to make.
LEMMA CurrentStepType ==
    ASSUME PosInv, steps # <<>>
    PROVE  /\ At \in DOMAIN Script /\ CurrentStep = Script[At]
           /\ At \in 1..Len(Script) /\ Len(steps) \in Nat /\ Len(Script) \in Nat
           /\ CurrentStep.client \in Clients
           /\ CurrentStep.branch \in 0..(Len(Script) - At)
           /\ \A ms : Judged(CurrentStep.checks, ms) \in Verdicts \cup {"else"}
<1>1. Script \in Seq(Range(Script))
      /\ \A i \in DOMAIN Script :
            /\ Script[i].client \in Clients /\ Script[i].branch \in 0..(Len(Script) - i)
            /\ \A ms : Judged(Script[i].checks, ms) \in Verdicts \cup {"else"}
  BY ScriptType DEF PosInv, Script
<1>2. /\ Len(steps) \in Nat /\ Len(Script) \in Nat /\ DOMAIN Script = 1..Len(Script)
      /\ Len(steps) > 0 /\ Head(steps) = steps[1]
  BY <1>1 DEF PosInv
<1>3. At \in 1..Len(Script) /\ Head(steps) = Script[At]
  BY <1>2 DEF PosInv, At
<1> QED  BY <1>1, <1>2, <1>3 DEF CurrentStep

\* After n steps the test is n positions further, or it has ended.
LEMMA JumpsPosition ==
    ASSUME PosInv, steps # <<>>, NEW n \in 1..Len(steps), NEW outcome, Jumps(outcome, n)
    PROVE  PosInv' /\ Script' = Script /\ (verdict' = "running" => At' = At + n)
<1>1. /\ test' = test /\ verdict' = outcome
      /\ steps' = IF outcome = "running" THEN SubSeq(steps, n + 1, Len(steps)) ELSE steps
  BY DEF Jumps
<1>2. Script' = Script  BY <1>1 DEF Script
<1>3. Len(steps) \in Nat /\ Len(Script) \in Nat /\ \A i \in 1..Len(steps) : steps[i] \in Range(Script)
  BY CurrentStepType DEF PosInv
<1>4. CASE outcome = "running"
  <2>1. /\ steps' \in Seq(Range(Script)) /\ Len(steps') = Len(steps) - n
        /\ \A j \in 1..(Len(steps) - n) : steps'[j] = steps[n + j]
    <3>1. \A i \in (n + 1)..Len(steps) : steps[i] \in Range(Script)  BY <1>3
    <3>2. /\ SubSeq(steps, n + 1, Len(steps)) \in Seq(Range(Script))
          /\ Len(SubSeq(steps, n + 1, Len(steps)))
                = IF n + 1 <= Len(steps) THEN Len(steps) - (n + 1) + 1 ELSE 0
          /\ \A i \in 1..(Len(steps) - (n + 1) + 1) :
                SubSeq(steps, n + 1, Len(steps))[i] = steps[n + 1 + i - 1]
      BY <1>3, <3>1, SubSeqProperties
    <3> QED  BY <1>1, <1>3, <1>4, <3>2
  <2>2. At' = At + n  BY <1>2, <1>3, <2>1 DEF At
  <2>3. ASSUME NEW j \in 1..Len(steps')
        PROVE  steps'[j] = Script[At' - 1 + j]
    <3>1. n + j \in 1..Len(steps) /\ steps'[j] = steps[n + j]  BY <1>3, <2>1
    <3>2. steps[n + j] = Script[At - 1 + (n + j)]  BY <3>1 DEF PosInv
    <3>3. At - 1 + (n + j) = At' - 1 + j
      <4>1. At \in Int  BY CurrentStepType
      <4> QED  BY <2>2, <4>1
    <3> QED  BY <3>1, <3>2, <3>3
  <2> QED  BY <1>1, <1>2, <1>3, <2>1, <2>2, <2>3 DEF PosInv
<1>5. CASE outcome # "running"
  BY <1>1, <1>2, <1>5 DEF PosInv, At
<1> QED  BY <1>4, <1>5

\* A step that goes on, or that may branch, leads to one of its successors.
LEMMA FollowsPosition ==
    ASSUME PosInv, steps # <<>>, NEW outcome,
           \/ Goes(outcome) /\ outcome \in Verdicts
           \/ Follows(CurrentStep, outcome) /\ outcome \in Verdicts \cup {"else"}
    PROVE  /\ PosInv' /\ Script' = Script /\ verdict' \in Verdicts
           /\ verdict' = "running" => At' \in Successors(Script, At)
<1>1. /\ At \in 1..Len(Script) /\ Len(steps) \in Nat /\ Len(Script) \in Nat /\ CurrentStep = Script[At]
      /\ CurrentStep.branch \in 0..(Len(Script) - At) /\ Len(steps) = Len(Script) - At + 1
  BY CurrentStepType DEF At
<1>2. /\ 1 \in 1..Len(steps) /\ 1 + CurrentStep.branch \in 1..Len(steps)
      /\ At + 1 \in Successors(Script, At) /\ At + (1 + CurrentStep.branch) \in Successors(Script, At)
  <2> DEFINE branch == CurrentStep.branch
  <2>1. At \in Int /\ branch \in Nat /\ Script[At].branch = branch  BY <1>1
  <2>2. 1 \in 1..Len(steps) /\ 1 + branch \in 1..Len(steps)  BY <1>1, <2>1
  <2>3. At + (1 + branch) = At + 1 + Script[At].branch  BY <2>1
  <2> QED  BY <2>2, <2>3 DEF Successors
<1>3. CASE Goes(outcome) /\ outcome \in Verdicts
  BY <1>2, <1>3, JumpsPosition DEF Goes, Jumps
<1>4. CASE Follows(CurrentStep, outcome) /\ outcome = "else"
  <2>1. Jumps("running", 1 + CurrentStep.branch)  BY <1>4 DEF Follows
  <2>2. verdict' \in Verdicts  BY <2>1 DEF Jumps, Verdicts
  <2> QED  BY <1>2, <2>1, <2>2, JumpsPosition
<1>5. CASE Follows(CurrentStep, outcome) /\ outcome # "else"
  BY <1>2, <1>5, JumpsPosition DEF Follows, Goes, Jumps
<1> QED  BY <1>3, <1>4, <1>5

-----------------------------------------------------------------------------
(* Types *)

LEMMA InitTInv == Init => TInv
<1> SUFFICES ASSUME Init PROVE TInv  OBVIOUS
<1>1. PICK t \in DOMAIN Tests : test = t /\ steps = Tests[t].steps  BY DEF Init
<1>2. steps = Script /\ Script \in Seq(Range(Script))  BY <1>1, ScriptType DEF Script
<1>3. PosInv  BY <1>1, <1>2 DEF PosInv, At
<1>4. QueuesInv  BY DEF Init, QueuesInv, Queues
<1> QED  BY <1>3, <1>4 DEF TInv, Init, Verdicts

\* What is sent and left to clients does not change who they are.
LEMMA QueuesStep == ASSUME TInv, [Next]_vars PROVE QueuesInv'
<1> USE DEF TInv, QueuesInv
<1>1. ASSUME Running, NEW s, s = CurrentStep,
             \/ TestConnects(s) \/ TestRegistersUser(s) \/ TestAddsClient(s)
             \/ TestRequires(s) \/ TestSetsPassword(s) \/ TestUnless(s) \/ TestConfigures(s)
      PROVE  QueuesInv'
  BY <1>1 DEF TestConnects, TestRegistersUser, TestAddsClient, TestRequires, TestSetsPassword,
              TestUnless, TestConfigures, Sent
<1>2. ASSUME Running, NEW s, s = CurrentStep, TestSends(s) \/ TestRemovesClient(s)
      PROVE  QueuesInv'
  BY <1>2 DEF TestSends, TestRemovesClient
<1>3. ASSUME Running, NEW s, s = CurrentStep,
             TestGetsMessages(s) \/ TestAwaitsJoin(s) \/ TestAssertsDisconnected(s)
      PROVE  QueuesInv'
  BY <1>3 DEF TestGetsMessages, TestAwaitsJoin, TestAssertsDisconnected, Keeps
<1>4. ASSUME Running, NEW s, s = CurrentStep, TestGetsMessage(s)
      PROVE  QueuesInv'
  BY <1>4 DEF TestGetsMessage, Keeps
<1>5. ASSUME Running, NEW s, s = CurrentStep, TestAwaits(s) \/ TestAnswersPing(s)
      PROVE  QueuesInv'
  BY <1>5 DEF TestAwaits, TestAnswersPing, Keeps
<1>6. CASE TestEnds  BY <1>6 DEF TestEnds
<1>7. CASE ServerHandles  BY <1>7 DEF ServerHandles, Sent
<1>8. CASE ServerRegisters  BY <1>8 DEF ServerRegisters, Sent
<1>9. CASE ServerAnswersHistory  BY <1>9 DEF ServerAnswersHistory, Sent
<1>10. CASE UNCHANGED vars  BY <1>10 DEF vars
<1> QED  BY <1>1, <1>2, <1>3, <1>4, <1>5, <1>6, <1>7, <1>8, <1>9, <1>10 DEF Next, TestStep

\* A step of the test, but for the answer to a PING, has an outcome.
LEMMA OutcomeOfStep ==
    ASSUME PosInv, steps # <<>>, NEW s, s = CurrentStep,
           \/ TestConnects(s) \/ TestRegistersUser(s) \/ TestSends(s)
           \/ TestGetsMessages(s) \/ TestGetsMessage(s) \/ TestAwaitsJoin(s)
           \/ TestAssertsDisconnected(s) \/ TestAddsClient(s) \/ TestRemovesClient(s)
           \/ TestAwaits(s) \/ TestRequires(s)
           \/ TestSetsPassword(s) \/ TestUnless(s) \/ TestConfigures(s)
    PROVE  \E outcome \in Verdicts \cup {"else"} :
              (Goes(outcome) /\ outcome \in Verdicts) \/ Follows(s, outcome)
<1>1. {"running", "failed", "unsupported"} \subseteq Verdicts  BY DEF Verdicts
<1>2. \A ms : Judged(s.checks, ms) \in Verdicts \cup {"else"}  BY CurrentStepType
<1>3. CASE TestConnects(s)  BY <1>1, <1>3 DEF TestConnects
<1>4. CASE TestRegistersUser(s)  BY <1>1, <1>4 DEF TestRegistersUser
<1>5. CASE TestSends(s)  BY <1>1, <1>5 DEF TestSends
<1>6. CASE TestGetsMessages(s)  BY <1>1, <1>2, <1>6 DEF TestGetsMessages
<1>7. CASE TestGetsMessage(s)  BY <1>1, <1>2, <1>7 DEF TestGetsMessage
<1>8. CASE TestAwaitsJoin(s)  BY <1>1, <1>8 DEF TestAwaitsJoin
<1>9. CASE TestAssertsDisconnected(s)  BY <1>1, <1>9 DEF TestAssertsDisconnected
<1>10. CASE TestAddsClient(s)  BY <1>1, <1>10 DEF TestAddsClient
<1>11. CASE TestRemovesClient(s)  BY <1>1, <1>11 DEF TestRemovesClient
<1>12. CASE TestAwaits(s)  BY <1>1, <1>2, <1>12 DEF TestAwaits
<1>13. CASE TestRequires(s)  BY <1>1, <1>13 DEF TestRequires
<1>14. CASE TestSetsPassword(s)  BY <1>1, <1>14 DEF TestSetsPassword
<1>15. CASE TestUnless(s)  BY <1>1, <1>15 DEF TestUnless
<1>16. CASE TestConfigures(s)  BY <1>1, <1>16 DEF TestConfigures
<1> QED  BY <1>3, <1>4, <1>5, <1>6, <1>7, <1>8, <1>9, <1>10, <1>11, <1>12, <1>13, <1>14, <1>15, <1>16

\* The test stays at its step, or goes on to a successor of it, or ends.
LEMMA PositionStep ==
    ASSUME TInv, [Next]_vars
    PROVE  /\ PosInv' /\ Script' = Script /\ verdict' \in Verdicts
           /\ verdict' = "running" => verdict = "running"
           /\ \/ steps' = steps /\ At' = At
              \/ Running /\ (verdict' = "running" => At' \in Successors(Script, At))
<1> USE DEF TInv
<1>1. ASSUME Running, NEW s, s = CurrentStep,
             \/ TestConnects(s) \/ TestRegistersUser(s) \/ TestSends(s)
             \/ TestGetsMessages(s) \/ TestGetsMessage(s) \/ TestAwaitsJoin(s)
             \/ TestAssertsDisconnected(s) \/ TestAddsClient(s) \/ TestRemovesClient(s)
             \/ TestAwaits(s) \/ TestRequires(s)
             \/ TestSetsPassword(s) \/ TestUnless(s) \/ TestConfigures(s)
      PROVE  /\ PosInv' /\ Script' = Script /\ verdict' \in Verdicts
             /\ verdict' = "running" => At' \in Successors(Script, At)
  <2>1. steps # <<>>  BY <1>1 DEF Running
  <2>2. PICK outcome \in Verdicts \cup {"else"} :
            (Goes(outcome) /\ outcome \in Verdicts) \/ Follows(CurrentStep, outcome)
    BY <1>1, <2>1, OutcomeOfStep
  <2> QED  BY <2>1, <2>2, FollowsPosition
<1>2. ASSUME UNCHANGED <<test, steps>>, verdict' \in {verdict, "passed"}
      PROVE  PosInv' /\ Script' = Script /\ verdict' \in Verdicts /\ At' = At
  BY <1>2 DEF PosInv, Script, At, Verdicts
<1>3. CASE Running /\ TestAnswersPing(CurrentStep)  BY <1>2, <1>3 DEF TestAnswersPing
<1>4. CASE TestEnds  BY <1>2, <1>4 DEF TestEnds
<1>5. CASE ServerHandles \/ ServerRegisters \/ ServerAnswersHistory
  BY <1>2, <1>5 DEF ServerHandles, ServerRegisters, ServerAnswersHistory
<1>6. CASE UNCHANGED vars  BY <1>2, <1>6 DEF vars
<1> QED  BY <1>1, <1>3, <1>4, <1>5, <1>6 DEF Next, TestStep, Running

LEMMA StepTInv == TInv /\ [Next]_vars => TInv'
BY QueuesStep, PositionStep DEF TInv

LEMMA SpecTInv == Spec => []TInv
BY InitTInv, StepTInv, PTL DEF Spec

\* The test, what it has left to do, its verdict and the queues of its clients
\* have their types, whatever the server does.
THEOREM TypeCorrect == Spec => []TypeOK
<1>1. TInv => TypeOK
  <2> SUFFICES ASSUME TInv PROVE TypeOK  OBVIOUS
  <2>1. test \in Nat /\ DOMAIN steps = 1..Len(steps)  BY ScriptType DEF TInv, PosInv
  <2>2. \A q \in {toServer, toClient, inbuffer} : DOMAIN q = Clients  BY DEF TInv, QueuesInv
  <2> QED  BY <2>1, <2>2 DEF TInv, TypeOK
<1> QED  BY <1>1, SpecTInv, PTL

-----------------------------------------------------------------------------
(* Labels *)

\* A label accounts for the lines that are sent, and the messages left.
Accounts(l, sent, left) ==
    \A c \in Clients : (sent[c] # <<>> => c \in l.late) /\ (left[c] # <<>> => c \in l.left)

Labels == Labelled(Script)

\* In a settled script, the label of its position accounts for the queues.
LabelInv == Settled(Script) /\ verdict = "running" => Accounts(Labels[At], toServer, inbuffer)

LEMMA AccountsMore ==
    ASSUME NEW l, NEW m, Covered(l, m), NEW sent, NEW left, Accounts(l, sent, left)
    PROVE  Accounts(m, sent, left)
BY DEF Accounts, Covered

\* The label after a step accounts for the queues if that before it did.
LEMMA AccountsAfter ==
    ASSUME QueuesInv, NEW s, s.client \in Clients, NEW l, Accounts(l, toServer, inbuffer),
           \/ TestConnects(s) \/ TestRegistersUser(s) \/ TestSends(s)
           \/ TestGetsMessages(s) \/ TestGetsMessage(s) \/ TestAwaitsJoin(s)
           \/ TestAssertsDisconnected(s) \/ TestAddsClient(s) \/ TestRemovesClient(s)
           \/ TestAwaits(s) \/ TestRequires(s)
           \/ TestSetsPassword(s) \/ TestUnless(s) \/ TestConfigures(s)
    PROVE  Accounts(LabelAfter(s, l), toServer', inbuffer')
<1> DEFINE c == s.client
<1>1. CASE TestSends(s) \/ TestRemovesClient(s)
  <2>1. s.do \in {"send", "remove"} /\ inbuffer' = inbuffer
        /\ \A d \in Clients : d # c => toServer'[d] = toServer[d]
    BY <1>1 DEF TestSends, TestRemovesClient, QueuesInv
  <2>2. LabelAfter(s, l) = Label(l.late \cup {c}, l.left)
    BY <2>1 DEF LabelAfter, Synchronizing, Popping, AwaitingSteps
  <2> QED  BY <2>1, <2>2 DEF Accounts, Label
<1>2. CASE TestGetsMessages(s) \/ TestAwaitsJoin(s) \/ TestAssertsDisconnected(s)
  <2>1. s.do \in Synchronizing /\ toServer' = toServer /\ toServer[c] = <<>>
        /\ inbuffer' = [inbuffer EXCEPT ![c] = <<>>]
    BY <1>2 DEF TestGetsMessages, TestAwaitsJoin, TestAssertsDisconnected, Synchronizing, Synchronized, Keeps
  <2>2. LabelAfter(s, l) = Label(l.late \ {c}, l.left \ {c})
    BY <2>1 DEF LabelAfter, Synchronizing, Popping, AwaitingSteps
  <2> QED  BY <2>1, <2>2 DEF Accounts, Label, QueuesInv
<1>3. CASE TestGetsMessage(s)
  <2>1. s.do \in Popping /\ toServer' = toServer
        /\ \A d \in Clients : d # c => inbuffer'[d] = inbuffer[d]
    BY <1>3 DEF TestGetsMessage, Popping, Keeps, QueuesInv
  <2>2. c \notin l.left => toServer[c] = <<>>
    <3>1. c \notin l.left => inbuffer[c] = <<>>  BY DEF Accounts
    <3>2. inbuffer[c] = <<>> => {i \in DOMAIN inbuffer[c] : Wanted(s, inbuffer[c][i])} = {}
      OBVIOUS
    <3> QED  BY <1>3, <3>1, <3>2 DEF TestGetsMessage, Synchronized
  <2>3. LabelAfter(s, l) = Label(IF c \in l.left THEN l.late ELSE l.late \ {c}, l.left \cup {c})
    BY <2>1 DEF LabelAfter, Synchronizing, Popping, AwaitingSteps
  <2> QED  BY <2>1, <2>2, <2>3 DEF Accounts, Label
<1>4. CASE TestAwaits(s)
  <2>1. s.do \in AwaitingSteps /\ toServer' = toServer
        /\ \A d \in Clients : d # c => inbuffer'[d] = inbuffer[d]
    BY <1>4 DEF TestAwaits, Keeps, QueuesInv
  <2>2. LabelAfter(s, l) = Label(l.late, l.left \cup {c})
    BY <2>1 DEF LabelAfter, Synchronizing, Popping, AwaitingSteps
  <2> QED  BY <2>1, <2>2 DEF Accounts, Label
<1>5. CASE \/ TestConnects(s) \/ TestRegistersUser(s) \/ TestAddsClient(s) \/ TestRequires(s)
           \/ TestSetsPassword(s) \/ TestUnless(s) \/ TestConfigures(s)
  <2>1. /\ s.do \in {"connect", "account", "add", "option", "password", "unless", "history",
                     "expiry", "invisible"}
        /\ UNCHANGED <<toServer, inbuffer>>
    BY <1>5 DEF TestConnects, TestRegistersUser, TestAddsClient, TestRequires, TestSetsPassword,
                TestUnless, TestConfigures
  <2>2. LabelAfter(s, l) = l
    BY <2>1 DEF LabelAfter, Synchronizing, Popping, AwaitingSteps
  <2> QED  BY <2>1, <2>2
<1> QED  BY <1>1, <1>2, <1>3, <1>4, <1>5

LEMMA InitLabelInv == Init => LabelInv
<1> SUFFICES ASSUME Init PROVE Accounts(Labels[At], toServer, inbuffer)  BY DEF LabelInv
<1> QED  BY DEF Init, Queues, Accounts

LEMMA StepLabelInv == TInv /\ LabelInv /\ [Next]_vars => LabelInv'
<1> SUFFICES ASSUME TInv, LabelInv, [Next]_vars, Settled(Script)', (verdict = "running")'
             PROVE  Accounts(Labels[At], toServer, inbuffer)'
  BY DEF LabelInv
<1>1. Script' = Script /\ verdict = "running" /\ Labels' = Labels /\ Settled(Script)
  BY PositionStep DEF Labels
<1>2. Accounts(Labels[At], toServer, inbuffer)  BY <1>1 DEF LabelInv
<1>3. SUFFICES Accounts(Labels[At'], toServer', inbuffer')  BY <1>1 DEF Accounts
<1>4. ASSUME Running
      PROVE  /\ CurrentStep = Script[At] /\ At \in DOMAIN Script /\ CurrentStep.client \in Clients
             /\ \A j \in Successors(Script, At) : Covered(LabelAfter(CurrentStep, Labels[At]), Labels[j])
             /\ CurrentStep.do \in PingLoops
                => Covered(Label({CurrentStep.client}, {CurrentStep.client}), Labels[At])
  <2>1. CurrentStep = Script[At] /\ At \in DOMAIN Script /\ CurrentStep.client \in Clients
    BY <1>4, CurrentStepType DEF TInv, Running
  <2>2. Settles(Labels, Script)  BY <1>1 DEF Settled, Labels
  <2> QED  BY <2>1, <2>2 DEF Settles
<1>5. ASSUME Running, NEW s, s = CurrentStep,
             \/ TestConnects(s) \/ TestRegistersUser(s) \/ TestSends(s)
             \/ TestGetsMessages(s) \/ TestGetsMessage(s) \/ TestAwaitsJoin(s)
             \/ TestAssertsDisconnected(s) \/ TestAddsClient(s) \/ TestRemovesClient(s)
             \/ TestAwaits(s) \/ TestRequires(s)
             \/ TestSetsPassword(s) \/ TestUnless(s) \/ TestConfigures(s)
      PROVE  Accounts(Labels[At'], toServer', inbuffer')
  <2>1. At' \in Successors(Script, At)
    <3>1. PICK outcome \in Verdicts \cup {"else"} :
              (Goes(outcome) /\ outcome \in Verdicts) \/ Follows(CurrentStep, outcome)
      BY <1>5, OutcomeOfStep DEF TInv, Running
    <3> QED  BY <1>5, <3>1, FollowsPosition DEF TInv, Running
  <2>2. Accounts(LabelAfter(s, Labels[At]), toServer', inbuffer')
    BY <1>2, <1>4, <1>5, AccountsAfter DEF TInv
  <2> QED  BY <1>4, <1>5, <2>1, <2>2, AccountsMore
<1>6. CASE Running /\ TestAnswersPing(CurrentStep)
  <2> DEFINE c == CurrentStep.client
  <2>1. CurrentStep.do \in PingLoops
    BY <1>6 DEF TestAnswersPing, PingsToAnswer, PingLoops
  <2>2. c \in Labels[At].late /\ c \in Labels[At].left
    BY <1>4, <1>6, <2>1 DEF Covered, Label
  <2>3. \A d \in Clients : d # c => toServer'[d] = toServer[d] /\ inbuffer'[d] = inbuffer[d]
    BY <1>6 DEF TestAnswersPing, Keeps, TInv, QueuesInv
  <2>4. At' = At  BY <1>1, <1>6 DEF TestAnswersPing, At
  <2> QED  BY <1>2, <2>2, <2>3, <2>4 DEF Accounts
<1>7. CASE TestEnds  BY <1>7 DEF TestEnds
<1>8. CASE ServerHandles
  <2>1. inbuffer' = inbuffer /\ \A d \in Clients : toServer'[d] # <<>> => toServer[d] # <<>>
    BY <1>8 DEF ServerHandles, TInv, QueuesInv
  <2>2. At' = At  BY <1>1, <1>8 DEF ServerHandles, At
  <2> QED  BY <1>2, <2>1, <2>2 DEF Accounts
<1>9. CASE ServerRegisters \/ ServerAnswersHistory \/ UNCHANGED vars
  <2>1. UNCHANGED <<steps, toServer, inbuffer>>
    BY <1>9 DEF ServerRegisters, ServerAnswersHistory, vars
  <2> QED  BY <1>1, <1>2, <2>1 DEF At
<1> QED  BY <1>5, <1>6, <1>7, <1>8, <1>9 DEF Next, TestStep

LEMMA SpecLabelInv == Spec => [](TInv /\ LabelInv)
BY InitTInv, StepTInv, InitLabelInv, StepLabelInv, PTL DEF Spec

\* A step that asserts an absence is made by getMessages().
LEMMA AbsenceStep ==
    ASSUME TInv, [Next]_vars, steps' # steps, AssertsAbsence(CurrentStep)
    PROVE  Running /\ TestGetsMessages(CurrentStep)
<1>1. CurrentStep.do = "getMessages"  BY DEF AssertsAbsence
<1>2. Running /\ ~TestAnswersPing(CurrentStep)
  BY <1>1, PositionStep DEF TestAnswersPing
<1>3. /\ ~TestEnds /\ ~ServerHandles /\ ~ServerRegisters /\ ~ServerAnswersHistory /\ ~UNCHANGED vars
  BY DEF TestEnds, ServerHandles, ServerRegisters, ServerAnswersHistory, vars
<1>4. \/ TestConnects(CurrentStep) \/ TestRegistersUser(CurrentStep) \/ TestSends(CurrentStep)
      \/ TestGetsMessages(CurrentStep) \/ TestGetsMessage(CurrentStep) \/ TestAwaitsJoin(CurrentStep)
      \/ TestAssertsDisconnected(CurrentStep) \/ TestAddsClient(CurrentStep)
      \/ TestRemovesClient(CurrentStep) \/ TestAwaits(CurrentStep) \/ TestRequires(CurrentStep)
      \/ TestSetsPassword(CurrentStep) \/ TestUnless(CurrentStep) \/ TestConfigures(CurrentStep)
  BY <1>2, <1>3 DEF Next, TestStep
<1> QED
  BY <1>1, <1>2, <1>4
  DEF TestConnects, TestRegistersUser, TestSends, TestGetsMessage, TestAwaitsJoin,
      TestAssertsDisconnected, TestAddsClient, TestRemovesClient, TestAwaits, AwaitingSteps,
      TestRequires, TestSetsPassword, TestUnless, TestConfigures

LEMMA SettledStep ==
    ASSUME TInv, LabelInv, [Next]_vars, Settled(Script), steps' # steps, AssertsAbsence(CurrentStep)
    PROVE  toServer = Queues
<1>1. Running /\ TestGetsMessages(CurrentStep)  BY AbsenceStep
<1>2. CurrentStep = Script[At] /\ At \in DOMAIN Script
  BY <1>1, CurrentStepType DEF TInv, Running
<1>3. Labels[At].late \subseteq {CurrentStep.client}
  <2>1. Settles(Labels, Script)  BY DEF Settled, Labels
  <2> QED  BY <1>2, <2>1 DEF Settles
<1>4. toServer[CurrentStep.client] = <<>>  BY <1>1 DEF TestGetsMessages, Synchronized
<1>5. \A c \in Clients : toServer[c] = <<>>
  BY <1>1, <1>3, <1>4 DEF LabelInv, Running, Accounts
<1> QED  BY <1>5 DEF Queues, TInv, QueuesInv

\* Whatever the server does, and whatever the tests are: where the text of a
\* test settles its assertions of an absence, they come when the server has
\* handled every line of every client.
THEOREM LinesSettled == Spec => LinesAreSettled
<1>1. TInv /\ LabelInv /\ [Next]_vars
      => [(Running /\ steps' # steps /\ AssertsAbsence(CurrentStep) /\ Settled(Tests[test].steps))
            => toServer = Queues]_vars
  BY SettledStep DEF Script
<1> QED  BY <1>1, SpecLabelInv, PTL DEF Spec, LinesAreSettled

\* With a server that answers for its history at once, tests whose text settles
\* them never assert an absence while something is on its way.
THEOREM AbsenceSettled ==
    ASSUME \A t \in DOMAIN Tests : Settled(Tests[t].steps)
    PROVE  Spec /\ [](irc.asked = Queues) => AbsenceIsSettled
<1>1. TInv /\ LabelInv /\ [Next]_vars /\ irc.asked = Queues
      => [(Running /\ steps' # steps /\ AssertsAbsence(CurrentStep))
            => toServer = Queues /\ irc.asked = Queues]_vars
  <2>1. TInv => Settled(Script)  BY DEF TInv, PosInv, Script
  <2> QED  BY <2>1, SettledStep
<1> QED  BY <1>1, SpecLabelInv, PTL DEF Spec, AbsenceIsSettled

=============================================================================
