-------------------------- MODULE TestClientsProofs --------------------------
(***************************************************************************)
(* The names of clients, for any names the test gives and any number of    *)
(* calls; and the client tests, for any client: types, tearDown(), and     *)
(* what a test waits for.                                                  *)
(***************************************************************************)
EXTENDS TestClients, ClientCases, BoundedInduction, SequenceTheorems

Numbers == Nat \ {0}
AnyName == Words \cup Numbers

\* The largest number a test gives, or 0.
LargestGiven == Max(GivenNumbers \cup {0})

-----------------------------------------------------------------------------
(* The invariant. *)

\* Types, without the bounds.
NamesInv ==
    /\ IsFiniteSet(DOMAIN clients) /\ DOMAIN clients \subseteq AnyName
    /\ \A n \in DOMAIN clients : clients[n] \in {"up", "closed"}
    /\ added = [name |-> added.name, chosen |-> added.chosen, count |-> added.count]
    /\ added.name \in Names \cup {None}
    /\ added.chosen \in BOOLEAN /\ added.count \in Nat
    /\ result \in {"none", "returned"} \cup Exceptions
    /\ steps \in 0..MaxSteps

\* The client that registers is in the dict.
RegisteringInv ==
    \/ registering = NoCall
    \/ /\ registering.attempt \in {1, 2} /\ registering.given \in Given
       /\ registering.client \in DOMAIN clients

\* A step adds two clients at most, one of them after a failure, and a chosen
\* number exceeds those in use by one.
BoundInv ==
    /\ added.count + (IF registering.attempt = 1 THEN 1 ELSE 0) <= 2 * steps
    /\ \A n \in DOMAIN clients \cap Nat : n <= added.count + LargestGiven
    /\ DOMAIN clients \subseteq Names

\* The clients that calls without a name connected, or are connecting.
Unnamed == Len(connected) +
    (IF registering # NoCall /\ registering.given = None THEN 1 ELSE 0)

\* Each client there ever was is one of these, and none was removed: then their
\* numbers are those of the calls.
CountInv ==
    /\ connected \in Seq(Names)
    /\ Cardinality(DOMAIN clients) <= added.count
    /\ Unnamed <= added.count
    /\ added.count = Unnamed /\ Cardinality(DOMAIN clients) = Unnamed =>
          /\ DOMAIN clients = 1..Unnamed
          /\ \A n \in 1..Len(connected) : connected[n] = n
          /\ registering # NoCall /\ registering.given = None
                => registering.client = Unnamed

IInv == NamesInv /\ RegisteringInv /\ BoundInv /\ CountInv

-----------------------------------------------------------------------------

LEMMA LargestGivenIs ==
    LargestGiven \in Nat /\ \A n \in GivenNumbers : n <= LargestGiven
<1>1. /\ GivenNumbers \cup {0} \in SUBSET Nat
      /\ IsFiniteSet(GivenNumbers \cup {0}) /\ GivenNumbers \cup {0} # {}
  BY TestClientsAssumption, FS_AddElement
<1> HIDE DEF LargestGiven
<1>2. /\ Max(GivenNumbers \cup {0}) \in GivenNumbers \cup {0}
      /\ \A n \in GivenNumbers \cup {0} : n <= Max(GivenNumbers \cup {0})
  BY <1>1, MaxOfNumbers
<1> QED  BY <1>1, <1>2 DEF LargestGiven

\* A chosen number is not in use, and exceeds those that are by one.
LEMMA NewNameIs ==
    ASSUME NamesInv, ~CannotNumber
    PROVE  /\ NewName \in Numbers /\ NewName \notin DOMAIN clients
           /\ \A n \in DOMAIN clients : n < NewName
           /\ NewName = 1 \/ NewName - 1 \in DOMAIN clients
<1> DEFINE S == (DOMAIN clients \ Words) \cup {0}
<1>1. /\ DOMAIN clients \subseteq Numbers
      /\ DOMAIN clients \ Words = DOMAIN clients
  BY DEF NamesInv, AnyName, CannotNumber
<1>2. S \in SUBSET Nat /\ IsFiniteSet(S) /\ S # {}
  <2>1. S = DOMAIN clients \cup {0}  BY <1>1
  <2>2. IsFiniteSet(DOMAIN clients)  BY DEF NamesInv
  <2> QED  BY <1>1, <2>1, <2>2, FS_AddElement DEF Numbers
<1>3. NewName = Max(S) + 1  BY DEF NewName
<1> HIDE DEF S
<1>4. Max(S) \in S /\ \A y \in S : y <= Max(S)  BY <1>2, MaxOfNumbers
<1> QED  BY <1>1, <1>2, <1>3, <1>4 DEF S, Numbers

-----------------------------------------------------------------------------
(* addClient() *)

\* What Adds does to the dict and to the counts.
LEMMA AddsOne ==
    ASSUME IInv, NEW given \in Given, ~(given = None /\ CannotNumber), Adds(given),
           added.count < 2 * MaxSteps
    PROVE  LET n == added'.name IN
           /\ n \in Names /\ n \in AnyName
           /\ n = IF given = None THEN NewName ELSE given
           /\ added' = [name |-> n, chosen |-> given = None, count |-> added.count + 1]
           /\ added'.count = added.count + 1 /\ added'.chosen \in BOOLEAN
           /\ DOMAIN clients' = DOMAIN clients \cup {n}
           /\ clients'[n] = "up"
           /\ \A m \in DOMAIN clients' : clients'[m] \in {"up", "closed"}
           /\ IsFiniteSet(DOMAIN clients')
           /\ Cardinality(DOMAIN clients') \in Nat
           /\ Cardinality(DOMAIN clients') <= Cardinality(DOMAIN clients) + 1
           /\ \A m \in DOMAIN clients' \cap Nat : m <= added'.count + LargestGiven
           /\ DOMAIN clients' \subseteq Names
<1> DEFINE n == IF given = None THEN NewName ELSE given
<1>1. /\ clients' = WithClient(n, "up")
      /\ added' = [name |-> n, chosen |-> given = None, count |-> added.count + 1]
  BY DEF Adds
<1>2. /\ DOMAIN clients' = DOMAIN clients \cup {n}
      /\ clients'[n] = "up"
      /\ \A m \in DOMAIN clients' : clients'[m] \in {"up", "closed"}
  <2> HIDE DEF n
  <2> QED  BY <1>1 DEF WithClient, IInv, NamesInv
<1>3. added.count \in Nat /\ LargestGiven \in Nat
  BY LargestGivenIs DEF IInv, NamesInv
<1>4. n \in AnyName /\ (n \in Nat => n <= added.count + 1 + LargestGiven)
  <2>1. CASE given = None
    <3>1. n = NewName /\ NewName \in Numbers
      BY <2>1, NewNameIs DEF IInv
    <3>2. NewName = 1 \/ NewName - 1 \in DOMAIN clients \cap Nat
      BY <2>1, <3>1, NewNameIs DEF IInv, Numbers
    <3>3. NewName - 1 \in DOMAIN clients \cap Nat => NewName - 1 <= added.count + LargestGiven
      BY DEF IInv, BoundInv
    <3> QED  BY <1>3, <3>1, <3>2, <3>3 DEF Numbers, AnyName
  <2>2. CASE given \in Words
    BY <2>2, TestClientsAssumption DEF AnyName
  <2>3. CASE given \in GivenNumbers
    BY <2>3, <1>3, LargestGivenIs, TestClientsAssumption DEF AnyName, Numbers
  <2> QED  BY <2>1, <2>2, <2>3 DEF Given
<1>5. n \in Names
  <2>1. MaxSteps \in Nat  BY TestClientsAssumption
  <2>2. added.count + 1 + LargestGiven <= 2 * MaxSteps + LargestGiven  BY <1>3, <2>1
  <2>3. n \in Numbers => n \in 1..(2 * MaxSteps + LargestGiven)
    BY <1>3, <1>4, <2>1, <2>2 DEF Numbers
  <2> QED  BY <1>4, <2>3 DEF Names, AnyName, LargestGiven
<1>6. /\ IsFiniteSet(DOMAIN clients') /\ Cardinality(DOMAIN clients') \in Nat
      /\ Cardinality(DOMAIN clients') <= Cardinality(DOMAIN clients) + 1
  <2>1. IsFiniteSet(DOMAIN clients)  BY DEF IInv, NamesInv
  <2> HIDE DEF n
  <2>2. /\ IsFiniteSet(DOMAIN clients \cup {n})
        /\ Cardinality(DOMAIN clients \cup {n}) = Cardinality(DOMAIN clients)
             \/ Cardinality(DOMAIN clients \cup {n}) = Cardinality(DOMAIN clients) + 1
    BY <2>1, FS_AddElement
  <2>3. Cardinality(DOMAIN clients) \in Nat  BY <2>1, FS_CardinalityType
  <2> QED  BY <1>2, <2>2, <2>3
<1>7. \A m \in DOMAIN clients' \cap Nat : m <= added.count + 1 + LargestGiven
  <2>1. \A m \in DOMAIN clients \cap Nat : m <= added.count + LargestGiven
    BY DEF IInv, BoundInv
  <2> HIDE DEF n
  <2> QED  BY <1>2, <1>3, <1>4, <2>1
<1>8. DOMAIN clients' \subseteq Names  BY <1>2, <1>5 DEF IInv, BoundInv
<1> QED  BY <1>1, <1>2, <1>3, <1>4, <1>5, <1>6, <1>7, <1>8

LEMMA StepAddClient == ASSUME IInv, AddClient PROVE IInv'
<1>1. PICK given \in Given :
          \/ AddRaises(given)
          \/ /\ ~(given = None /\ CannotNumber)
             /\ Adds(given)
             /\ result' = "returned"
             /\ UNCHANGED <<registering, connected>>
  BY DEF AddClient
<1>2. /\ registering = NoCall /\ steps < MaxSteps /\ steps' = steps + 1
      /\ MaxSteps \in Nat /\ steps \in 0..MaxSteps /\ added.count \in Nat
  BY TestClientsAssumption DEF AddClient, Idle, IInv, NamesInv
<1>3. NoCall.attempt = 0 /\ NoCall.given = None  BY DEF NoCall
<1>4. CASE AddRaises(given)
  <2>1. /\ registering' = registering /\ result' = "ValueError"
        /\ UNCHANGED <<clients, added, connected>>
    BY <1>2, <1>4 DEF AddRaises
  <2>2. NamesInv'  BY <1>2, <2>1 DEF IInv, NamesInv, Exceptions
  <2>3. RegisteringInv' /\ CountInv'
    BY <2>1 DEF IInv, RegisteringInv, CountInv, Unnamed
  <2>4. BoundInv'  BY <1>2, <2>1 DEF IInv, BoundInv
  <2> QED  BY <2>2, <2>3, <2>4 DEF IInv
<1>5. CASE /\ ~(given = None /\ CannotNumber) /\ Adds(given) /\ result' = "returned"
           /\ UNCHANGED <<registering, connected>>
  <2>1. added.count <= 2 * steps  BY <1>2, <1>3 DEF IInv, BoundInv
  <2>2. added.count < 2 * MaxSteps  BY <1>2, <2>1
  <2> DEFINE n == added'.name
  <2>3. /\ n \in Names
        /\ added' = [name |-> n, chosen |-> given = None, count |-> added.count + 1]
        /\ added'.count = added.count + 1 /\ added'.chosen \in BOOLEAN
        /\ DOMAIN clients' = DOMAIN clients \cup {n} /\ n \in AnyName
        /\ \A m \in DOMAIN clients' : clients'[m] \in {"up", "closed"}
        /\ IsFiniteSet(DOMAIN clients')
        /\ Cardinality(DOMAIN clients') \in Nat
        /\ Cardinality(DOMAIN clients') <= Cardinality(DOMAIN clients) + 1
        /\ \A m \in DOMAIN clients' \cap Nat : m <= added'.count + LargestGiven
        /\ DOMAIN clients' \subseteq Names
    BY <1>5, <2>2, AddsOne
  <2> HIDE DEF n
  <2>4. NamesInv'
    BY <1>2, <1>5, <2>3 DEF IInv, NamesInv, n
  <2>5. RegisteringInv'  BY <1>2, <1>5 DEF RegisteringInv
  <2>6. BoundInv'  BY <1>2, <1>3, <1>5, <2>1, <2>3 DEF BoundInv
  <2>7. CountInv'
    <3>1. Unnamed' = Unnamed /\ Unnamed \in Nat /\ Unnamed <= added.count
      BY <1>2, <1>3, <1>5 DEF IInv, CountInv, Unnamed
    <3>2. IsFiniteSet(DOMAIN clients)  BY DEF IInv, NamesInv
    <3>3. /\ Cardinality(DOMAIN clients) \in Nat
          /\ Cardinality(DOMAIN clients) <= added.count
      BY <3>2, FS_CardinalityType DEF IInv, CountInv
    <3>4. connected' \in Seq(Names)  BY <1>5 DEF IInv, CountInv
    <3> QED  BY <1>2, <2>3, <3>1, <3>3, <3>4 DEF CountInv
  <2> QED  BY <2>4, <2>5, <2>6, <2>7 DEF IInv
<1> QED  BY <1>1, <1>4, <1>5

-----------------------------------------------------------------------------
(* connectClient() *)

\* A set of numbers below n, as many as there are: the case of one more call
\* when each one connected its own client.
LEMMA NextNumber ==
    ASSUME IInv, registering = NoCall, ~CannotNumber,
           added.count = Unnamed, Cardinality(DOMAIN clients) = Unnamed
    PROVE  NewName = Unnamed + 1 /\ DOMAIN clients \cup {NewName} = 1..(Unnamed + 1)
<1>1. Unnamed \in Nat
  BY DEF IInv, CountInv, Unnamed
<1>2. DOMAIN clients = 1..Unnamed
  BY DEF IInv, CountInv
<1>3. /\ NewName \in Numbers /\ NewName \notin 1..Unnamed
      /\ NewName = 1 \/ NewName - 1 \in 1..Unnamed
  BY <1>2, NewNameIs DEF IInv
<1>4. NewName = Unnamed + 1  BY <1>1, <1>3 DEF Numbers
<1> QED  BY <1>1, <1>2, <1>4

LEMMA StepAttempt ==
    ASSUME IInv, NEW number \in {1, 2}, NEW given \in Given, Attempt(number, given),
           \/ number = 1 /\ registering = NoCall /\ steps' = steps + 1 /\ steps < MaxSteps
           \/ /\ number = 2 /\ steps' = steps
              /\ registering.attempt = 1 /\ registering.given = given
    PROVE  IInv'
<1>1. /\ ~(given = None /\ CannotNumber) /\ Adds(given)
      /\ registering' = [attempt |-> number, given |-> given, client |-> added'.name]
      /\ result' = "none" /\ connected' = connected
  BY DEF Attempt
<1>2. /\ MaxSteps \in Nat /\ steps \in 0..MaxSteps /\ added.count \in Nat
      /\ steps' \in 0..MaxSteps
  BY TestClientsAssumption DEF IInv, NamesInv
<1>3. NoCall.attempt = 0 /\ NoCall.given = None  BY DEF NoCall
<1>4. /\ added.count + 1 + (IF number = 1 THEN 1 ELSE 0) <= 2 * steps'
      /\ added.count < 2 * MaxSteps
  <2>1. CASE number = 1
    <3>1. added.count <= 2 * steps  BY <1>2, <1>3, <2>1 DEF IInv, BoundInv
    <3> QED  BY <1>2, <2>1, <3>1
  <2>2. CASE number = 2
    <3>1. added.count + 1 <= 2 * steps /\ steps' = steps  BY <2>2 DEF IInv, BoundInv
    <3> QED  BY <1>2, <2>2, <3>1
  <2> QED  BY <2>1, <2>2
<1> DEFINE n == added'.name
<1>5. /\ n \in Names
      /\ n = IF given = None THEN NewName ELSE given
      /\ added' = [name |-> n, chosen |-> given = None, count |-> added.count + 1]
      /\ added'.count = added.count + 1 /\ added'.chosen \in BOOLEAN
      /\ DOMAIN clients' = DOMAIN clients \cup {n} /\ n \in AnyName
      /\ \A m \in DOMAIN clients' : clients'[m] \in {"up", "closed"}
      /\ IsFiniteSet(DOMAIN clients')
      /\ Cardinality(DOMAIN clients') \in Nat
      /\ Cardinality(DOMAIN clients') <= Cardinality(DOMAIN clients) + 1
      /\ \A m \in DOMAIN clients' \cap Nat : m <= added'.count + LargestGiven
      /\ DOMAIN clients' \subseteq Names
  BY <1>1, <1>4, AddsOne
<1>6. /\ registering'.attempt = number /\ registering'.given = given
      /\ registering'.client = n /\ registering' # NoCall
  BY <1>1, <1>3
<1> HIDE DEF n
<1>7. NamesInv'  BY <1>1, <1>2, <1>5 DEF IInv, NamesInv, n
<1>8. RegisteringInv'  BY <1>5, <1>6 DEF RegisteringInv
<1>9. BoundInv'
  <2>1. added'.count + (IF registering'.attempt = 1 THEN 1 ELSE 0) <= 2 * steps'
    BY <1>4, <1>5, <1>6
  <2> QED  BY <1>5, <2>1 DEF BoundInv
<1>10. CountInv'
  <2>1. IsFiniteSet(DOMAIN clients)  BY DEF IInv, NamesInv
  <2>2. /\ Cardinality(DOMAIN clients) \in Nat /\ Unnamed \in Nat
        /\ Cardinality(DOMAIN clients) <= added.count /\ Unnamed <= added.count
    BY <2>1, FS_CardinalityType DEF IInv, CountInv, Unnamed
  <2>3. connected' \in Seq(Names)  BY <1>1 DEF IInv, CountInv
  <2>4. CASE number = 1 /\ given = None
    <3>1. registering = NoCall /\ Unnamed = Len(connected)
      BY <2>3, <2>4, <1>1, <1>3 DEF Unnamed
    <3>2. Unnamed' = Unnamed + 1
      BY <1>1, <1>6, <2>4, <3>1 DEF Unnamed
    <3>3. /\ Cardinality(DOMAIN clients') <= added'.count
          /\ Unnamed' <= added'.count
      BY <1>2, <1>5, <2>2, <3>2
    <3>4. ASSUME added'.count = Unnamed', Cardinality(DOMAIN clients') = Unnamed'
          PROVE  /\ DOMAIN clients' = 1..Unnamed'
                 /\ \A i \in 1..Len(connected') : connected'[i] = i
                 /\ registering'.client = Unnamed'
      <4>1. added.count = Unnamed /\ Cardinality(DOMAIN clients) = Unnamed
        BY <1>2, <1>5, <2>2, <3>2, <3>4
      <4>2. n = Unnamed + 1 /\ DOMAIN clients' = 1..(Unnamed + 1)
        BY <1>1, <1>5, <2>4, <3>1, <4>1, NextNumber
      <4>3. \A i \in 1..Len(connected) : connected[i] = i
        BY <4>1 DEF IInv, CountInv
      <4> QED  BY <1>1, <1>6, <3>2, <4>2, <4>3
    <3> QED  BY <2>3, <3>3, <3>4 DEF CountInv
  <2>5. CASE ~(number = 1 /\ given = None)
    <3>1. Unnamed' = Unnamed
      <4>1. CASE number = 1
        BY <1>1, <1>3, <1>6, <2>5, <4>1 DEF Unnamed
      <4>2. CASE number = 2
        BY <1>1, <1>3, <1>6, <4>2 DEF Unnamed
      <4> QED  BY <4>1, <4>2
    <3>2. added'.count # Unnamed'  BY <1>2, <1>5, <2>2, <3>1
    <3>3. Cardinality(DOMAIN clients') <= added'.count /\ Unnamed' <= added'.count
      BY <1>2, <1>5, <2>2, <3>1
    <3> QED  BY <2>3, <3>2, <3>3 DEF CountInv
  <2> QED  BY <2>4, <2>5
<1> QED  BY <1>7, <1>8, <1>9, <1>10 DEF IInv

\* The name cannot be chosen: an exception, and no client.
LEMMA StepAddRaises ==
    ASSUME IInv, NEW given \in Given, AddRaises(given),
           steps' \in 0..MaxSteps, steps <= steps'
    PROVE  IInv'
<1>1. /\ registering' = NoCall /\ result' = "ValueError"
      /\ UNCHANGED <<clients, added, connected>>
  BY DEF AddRaises
<1>2. NoCall.attempt = 0 /\ NoCall.given = None  BY DEF NoCall
<1>3. NamesInv'  BY <1>1 DEF IInv, NamesInv, Exceptions
<1>4. RegisteringInv'  BY <1>1 DEF RegisteringInv
<1>5. BoundInv'
  <2>1. added.count \in Nat /\ steps \in Nat /\ steps' \in Nat
    BY TestClientsAssumption DEF IInv, NamesInv
  <2> QED  BY <1>1, <1>2, <2>1 DEF IInv, BoundInv
<1>6. CountInv'
  <2>1. /\ Unnamed' = Len(connected) /\ Len(connected) \in Nat
        /\ Unnamed = Unnamed' \/ Unnamed = Unnamed' + 1
    BY <1>1 DEF IInv, CountInv, Unnamed
  <2>2. added.count \in Nat  BY DEF IInv, NamesInv
  <2> QED  BY <1>1, <2>1, <2>2 DEF IInv, CountInv
<1> QED  BY <1>3, <1>4, <1>5, <1>6 DEF IInv

LEMMA StepConnectClient == ASSUME IInv, ConnectClient PROVE IInv'
<1>1. PICK given \in Given : AddRaises(given) \/ Attempt(1, given)
  BY DEF ConnectClient
<1>2. /\ registering = NoCall /\ steps' = steps + 1 /\ steps < MaxSteps
      /\ steps' \in 0..MaxSteps /\ steps <= steps'
  BY TestClientsAssumption DEF ConnectClient, Idle, IInv, NamesInv
<1>3. CASE AddRaises(given)  BY <1>2, <1>3, StepAddRaises
<1>4. CASE Attempt(1, given)  BY <1>2, <1>4, StepAttempt
<1> QED  BY <1>1, <1>3, <1>4

LEMMA StepRegistered == ASSUME IInv, Registered PROVE IInv'
<1>1. /\ registering # NoCall /\ registering' = NoCall /\ result' = "returned"
      /\ connected' = IF registering.given = None
                      THEN Append(connected, registering.client) ELSE connected
      /\ UNCHANGED <<clients, added, steps>>
  BY DEF Registered, Idle
<1>2. NoCall.attempt = 0 /\ NoCall.given = None  BY DEF NoCall
<1>3. /\ registering.client \in DOMAIN clients /\ registering.client \in Names
      /\ registering.attempt \in {1, 2}
  BY <1>1 DEF IInv, RegisteringInv, BoundInv
<1>4. NamesInv' /\ RegisteringInv'
  BY <1>1 DEF IInv, NamesInv, RegisteringInv
<1>5. BoundInv'
  <2>1. added.count \in Nat /\ steps \in Nat
    BY TestClientsAssumption DEF IInv, NamesInv
  <2> QED  BY <1>1, <1>2, <2>1 DEF IInv, BoundInv
<1>6. CountInv'
  <2>1. connected \in Seq(Names) /\ Len(connected) \in Nat
    BY DEF IInv, CountInv
  <2>2. connected' \in Seq(Names) /\ Unnamed' = Unnamed /\ Len(connected') = Unnamed
    BY <1>1, <1>2, <1>3, <2>1 DEF Unnamed
  <2>3. ASSUME added.count = Unnamed, Cardinality(DOMAIN clients) = Unnamed
        PROVE  DOMAIN clients = 1..Unnamed /\ \A i \in 1..Len(connected') : connected'[i] = i
    <3>1. /\ DOMAIN clients = 1..Unnamed
          /\ \A i \in 1..Len(connected) : connected[i] = i
          /\ registering.given = None => registering.client = Unnamed
      BY <1>1, <2>3 DEF IInv, CountInv
    <3>2. CASE registering.given = None
      BY <1>1, <2>1, <2>2, <3>1, <3>2
    <3>3. CASE registering.given # None
      BY <1>1, <3>1, <3>3
    <3> QED  BY <3>1, <3>2, <3>3
  <2> QED  BY <1>1, <2>2, <2>3 DEF IInv, CountInv
<1> QED  BY <1>4, <1>5, <1>6 DEF IInv

LEMMA StepRegistrationFails == ASSUME IInv, RegistrationFails PROVE IInv'
<1>1. registering # NoCall /\ steps' = steps
  BY DEF RegistrationFails, Idle
<1>2. /\ registering.attempt \in {1, 2} /\ registering.given \in Given
      /\ steps' \in 0..MaxSteps /\ steps \in Nat /\ added.count \in Nat
  BY <1>1, TestClientsAssumption DEF IInv, RegisteringInv, NamesInv
<1>3. PICK exception \in Exceptions :
          \/ /\ MayRetry(exception)
             /\ \/ AddRaises(registering.given)
                \/ Attempt(2, registering.given)
          \/ /\ ~MayRetry(exception)
             /\ registering' = NoCall /\ result' = exception
             /\ UNCHANGED <<clients, added, connected>>
  BY DEF RegistrationFails
<1>4. CASE MayRetry(exception) /\ AddRaises(registering.given)
  <2>1. steps <= steps'  BY <1>1, <1>2
  <2> QED  BY <1>2, <1>4, <2>1, StepAddRaises
<1>5. CASE MayRetry(exception) /\ Attempt(2, registering.given)
  <2>1. registering.attempt = 1  BY <1>5 DEF MayRetry
  <2> QED  BY <1>1, <1>2, <1>5, <2>1, StepAttempt
<1>6. CASE /\ registering' = NoCall /\ result' = exception
           /\ UNCHANGED <<clients, added, connected>>
  <2>1. NoCall.attempt = 0 /\ NoCall.given = None  BY DEF NoCall
  <2>2. NamesInv' /\ RegisteringInv'
    BY <1>1, <1>6 DEF IInv, NamesInv, RegisteringInv
  <2>3. BoundInv'  BY <1>1, <1>2, <1>6, <2>1 DEF IInv, BoundInv
  <2>4. CountInv'
    <3>1. /\ Unnamed' = Len(connected) /\ Len(connected) \in Nat
          /\ Unnamed = Unnamed' \/ Unnamed = Unnamed' + 1
      BY <1>6 DEF IInv, CountInv, Unnamed
    <3> QED  BY <1>2, <1>6, <3>1 DEF IInv, CountInv
  <2> QED  BY <2>2, <2>3, <2>4 DEF IInv
<1> QED  BY <1>3, <1>4, <1>5, <1>6

-----------------------------------------------------------------------------
(* The other steps. *)

LEMMA StepServerCloses == ASSUME IInv, ServerCloses PROVE IInv'
<1>1. PICK n \in DOMAIN clients : clients' = WithClient(n, "closed")
  BY DEF ServerCloses
<1>2. UNCHANGED <<registering, result, added, connected, steps>>
  BY DEF ServerCloses
<1>3. /\ DOMAIN clients' = DOMAIN clients
      /\ \A m \in DOMAIN clients' : clients'[m] \in {"up", "closed"}
  BY <1>1 DEF WithClient, IInv, NamesInv
<1>4. NamesInv'  BY <1>2, <1>3 DEF IInv, NamesInv
<1>5. RegisteringInv' /\ BoundInv'
  BY <1>2, <1>3 DEF IInv, RegisteringInv, BoundInv
<1>6. Unnamed' = Unnamed  BY <1>2 DEF Unnamed
<1>7. CountInv'  BY <1>2, <1>3, <1>6 DEF IInv, CountInv
<1> QED  BY <1>4, <1>5, <1>7 DEF IInv

\* A client leaves the dict while no call runs.
LEMMA Removal ==
    ASSUME IInv, registering = NoCall, NEW n \in DOMAIN clients,
           clients' = WithoutClient(n),
           result' \in {"returned"}, UNCHANGED <<registering, added, connected, steps>>
    PROVE  IInv'
<1>1. /\ DOMAIN clients' = DOMAIN clients \ {n}
      /\ \A m \in DOMAIN clients' : clients'[m] \in {"up", "closed"}
  BY DEF WithoutClient, IInv, NamesInv
<1>2. IsFiniteSet(DOMAIN clients)  BY DEF IInv, NamesInv
<1>3. /\ IsFiniteSet(DOMAIN clients')
      /\ Cardinality(DOMAIN clients) \in Nat
      /\ Cardinality(DOMAIN clients') = Cardinality(DOMAIN clients) - 1
  <2>1. /\ IsFiniteSet(DOMAIN clients \ {n})
        /\ Cardinality(DOMAIN clients \ {n}) = Cardinality(DOMAIN clients) - 1
    BY <1>2, FS_RemoveElement
  <2>2. Cardinality(DOMAIN clients) \in Nat  BY <1>2, FS_CardinalityType
  <2> QED  BY <1>1, <2>1, <2>2
<1>4. NamesInv'  BY <1>1, <1>3 DEF IInv, NamesInv
<1>5. RegisteringInv' /\ BoundInv'
  BY <1>1 DEF IInv, RegisteringInv, BoundInv
<1>6. CountInv'
  <2>1. Unnamed' = Unnamed /\ Unnamed \in Nat /\ added.count \in Nat
    BY DEF IInv, NamesInv, CountInv, Unnamed
  <2>2. /\ Cardinality(DOMAIN clients) <= added.count /\ Unnamed <= added.count
        /\ connected \in Seq(Names)
    BY DEF IInv, CountInv
  <2>3. Cardinality(DOMAIN clients') < added.count  BY <1>3, <2>1, <2>2
  <2>4. ~(added.count = Unnamed /\ Cardinality(DOMAIN clients') = Unnamed)
    BY <1>3, <2>1, <2>3
  <2>5. Cardinality(DOMAIN clients') <= added.count  BY <1>3, <2>1, <2>2
  <2> QED  BY <2>1, <2>2, <2>4, <2>5 DEF CountInv
<1> QED  BY <1>4, <1>5, <1>6 DEF IInv

\* An assertion that fails leaves the dict as it is.
LEMMA OnlyResult ==
    ASSUME IInv, result' \in {"AssertionError", result},
           UNCHANGED <<clients, registering, added, connected, steps>>
    PROVE  IInv'
<1>1. NamesInv' /\ RegisteringInv' /\ BoundInv'
  BY DEF IInv, NamesInv, RegisteringInv, BoundInv, Exceptions
<1>2. CountInv'  BY DEF IInv, CountInv, Unnamed
<1> QED  BY <1>1, <1>2 DEF IInv

LEMMA StepIInv == IInv /\ [Next]_vars => IInv'
<1> SUFFICES ASSUME IInv, [Next]_vars PROVE IInv'  OBVIOUS
<1>1. CASE AddClient  BY <1>1, StepAddClient
<1>2. CASE ConnectClient  BY <1>2, StepConnectClient
<1>3. CASE Registered  BY <1>3, StepRegistered
<1>4. CASE RegistrationFails  BY <1>4, StepRegistrationFails
<1>5. CASE ServerCloses  BY <1>5, StepServerCloses
<1>6. CASE RemoveClient
  <2>1. PICK n \in DOMAIN clients : clients' = WithoutClient(n)
    BY <1>6 DEF RemoveClient
  <2>2. /\ registering = NoCall /\ result' = "returned"
        /\ UNCHANGED <<registering, added, connected, steps>>
    BY <1>6 DEF RemoveClient, Idle
  <2> QED  BY <2>1, <2>2, Removal
<1>7. CASE AssertDisconnected
  <2>1. /\ registering = NoCall
        /\ UNCHANGED <<registering, added, connected, steps>>
    BY <1>7 DEF AssertDisconnected, Idle
  <2>2. PICK n \in DOMAIN clients :
            \/ clients' = WithoutClient(n) /\ result' = "returned"
            \/ result' = "AssertionError" /\ clients' = clients
    BY <1>7 DEF AssertDisconnected
  <2>3. CASE clients' = WithoutClient(n) /\ result' = "returned"
    BY <2>1, <2>3, Removal
  <2>4. CASE result' = "AssertionError" /\ clients' = clients
    BY <2>1, <2>4, OnlyResult
  <2> QED  BY <2>2, <2>3, <2>4
<1>8. CASE UNCHANGED vars
  BY <1>8, OnlyResult DEF vars
<1> QED  BY <1>1, <1>2, <1>3, <1>4, <1>5, <1>6, <1>7, <1>8 DEF Next

LEMMA InitIInv == Init => IInv
<1> SUFFICES ASSUME Init PROVE IInv  OBVIOUS
<1>1. /\ DOMAIN clients = {} /\ registering = NoCall /\ result = "none"
      /\ added = [name |-> None, chosen |-> FALSE, count |-> 0]
      /\ connected = <<>> /\ steps = 0
  BY DEF Init
<1>2. IsFiniteSet({}) /\ Cardinality({}) = 0  BY FS_EmptySet
<1>3. NoCall.attempt = 0  BY DEF NoCall
<1>4. NamesInv  BY <1>1, <1>2, TestClientsAssumption DEF NamesInv
<1>5. RegisteringInv /\ BoundInv  BY <1>1, <1>3 DEF RegisteringInv, BoundInv
<1>6. CountInv
  <2>1. Unnamed = 0 /\ Len(connected) = 0 /\ connected \in Seq(Names)  BY <1>1 DEF Unnamed
  <2> QED  BY <1>1, <1>2, <2>1 DEF CountInv
<1> QED  BY <1>4, <1>5, <1>6 DEF IInv

THEOREM Invariance == Spec => []IInv
BY InitIInv, StepIInv, PTL DEF Spec

-----------------------------------------------------------------------------
(* The theorems. *)

\* The clients, the running call and the histories have their types; the numbers
\* of clients are bounded by those of the test and by its calls.
THEOREM TypeCorrect == Spec => []TypeOK
<1>1. ASSUME IInv PROVE TypeOK
  <2>1. MaxSteps \in Nat /\ added.count \in Nat /\ steps \in 0..MaxSteps
    BY <1>1, TestClientsAssumption DEF IInv, NamesInv
  <2>2. added.count \in 0..(2 * MaxSteps)
    <3>1. added.count <= 2 * steps  BY <1>1, <2>1 DEF IInv, BoundInv
    <3> QED  BY <2>1, <3>1
  <2>3. Given \subseteq Names \cup {None}
    <3>1. \A n \in GivenNumbers : n \in 1..(2 * MaxSteps + LargestGiven)
      BY <2>1, LargestGivenIs, TestClientsAssumption
    <3> QED  BY <3>1 DEF Given, Names, LargestGiven
  <2>4. /\ registering.attempt \in 0..2
        /\ {registering.given, registering.client} \subseteq Names \cup {None}
    BY <1>1, <2>3 DEF IInv, RegisteringInv, BoundInv, NoCall
  <2> QED  BY <1>1, <2>1, <2>2, <2>4 DEF IInv, NamesInv, BoundInv, CountInv, TypeOK
<1> QED  BY <1>1, Invariance, PTL

\* addClient() never takes the name of a client it still has, for any names and
\* numbers the test gives and any number of removals and retries.
THEOREM ChosenNameIsFresh == Spec => AutoNameIsFresh
<1> DEFINE A == added'.chosen /\ added'.count # added.count
                => added'.name \notin DOMAIN clients
<1>1. ASSUME IInv, [Next]_vars PROVE [A]_vars
  <2> SUFFICES ASSUME Next, added'.chosen, added'.count # added.count
               PROVE  added'.name \notin DOMAIN clients
    BY <1>1
  <2>1. PICK given \in Given : ~(given = None /\ CannotNumber) /\ Adds(given)
    <3>1. added' # added  OBVIOUS
    <3>2. CASE AddClient
      BY <3>1, <3>2 DEF AddClient, AddRaises
    <3>3. CASE ConnectClient
      BY <3>1, <3>3 DEF ConnectClient, AddRaises, Attempt
    <3>4. CASE RegistrationFails
      <4>1. registering # NoCall  BY <3>4 DEF RegistrationFails, Idle
      <4>2. registering.given \in Given
        BY <1>1, <4>1 DEF IInv, RegisteringInv
      <4> QED  BY <3>1, <3>4, <4>2 DEF RegistrationFails, AddRaises, Attempt
    <3> QED
      BY <3>1, <3>2, <3>3, <3>4 DEF Next, Registered, ServerCloses, RemoveClient,
         AssertDisconnected
  <2>2. given = None /\ added'.name = NewName
    BY <2>1 DEF Adds
  <2> QED  BY <1>1, <2>1, <2>2, NewNameIs DEF IInv
<1>2. Spec => [][A]_vars  BY <1>1, Invariance, PTL DEF Spec
<1> QED  BY <1>2 DEF AutoNameIsFresh

\* While every client there ever was is one that an unnamed call connected, and
\* none was removed, the n-th call connected client n.
THEOREM CallsNumberClients == Spec => []NumberedByCalls
<1>1. ASSUME IInv PROVE NumberedByCalls
  <2> SUFFICES ASSUME added.count = Len(connected),
                      Cardinality(DOMAIN clients) = Len(connected)
               PROVE  \A n \in 1..Len(connected) : connected[n] = n
    BY DEF NumberedByCalls
  <2>1. Len(connected) \in Nat /\ Unnamed <= added.count
    BY <1>1 DEF IInv, CountInv
  <2>2. Unnamed = Len(connected)  BY <2>1 DEF Unnamed
  <2> QED  BY <1>1, <2>2 DEF IInv, CountInv
<1> QED  BY <1>1, Invariance, PTL

-----------------------------------------------------------------------------
(* The scripts of the client tests. *)

StepKinds == {"run", "terminate", "accept", "handshake", "write", "read", "begin", "negotiate"}

\* A step of a client test: a test negotiates no capability but sasl.
IsStep(s) ==
    /\ s.do \in StepKinds
    /\ {"do", "sock", "cert", "config", "caps", "raises"} \subseteq DOMAIN s
    /\ s.sock \in Sockets /\ s.config.sock \in Sockets
    /\ NamesIn(s.caps) \subseteq {"sasl"}

AcceptsConnection(s) == s.do \in {"accept", "handshake"}
MakesFile(s) == s.do = "accept" /\ s.cert = ""

\* Steps of which none accepts a connection under an assertRaises().
Calm(s) == IsStep(s) /\ ~(AcceptsConnection(s) /\ s.raises)
CalmSeq(q) == \E S : q \in Seq(S) /\ \A s \in S : Calm(s)

\* A connection is only expected to fail after one that did not.
RaisesLate(q) ==
    \A i \in 1..Len(q) : AcceptsConnection(q[i]) /\ q[i].raises
        => \E j \in 1..(i - 1) : MakesFile(q[j])

IsScript(q) == q # <<>> /\ \E S : q \in Seq(S) /\ \A s \in S : IsStep(s)

LEMMA CalmPair ==
    ASSUME NEW s, NEW t, Calm(s), Calm(t)
    PROVE  CalmSeq(<<s>>) /\ <<s>> # <<>> /\ CalmSeq(<<s, t>>)
<1> DEFINE S == {s, t}
<1>1. <<s>> \in Seq(S) /\ <<s, t>> \in Seq(S) /\ \A x \in S : Calm(x)  OBVIOUS
<1> HIDE DEF S
<1>2. CalmSeq(<<s>>) /\ CalmSeq(<<s, t>>)  BY <1>1 DEF CalmSeq
<1>3. <<s>> # <<>>  OBVIOUS
<1> QED  BY <1>2, <1>3

LEMMA CalmConcat ==
    ASSUME NEW p, NEW q, CalmSeq(p), CalmSeq(q)
    PROVE  CalmSeq(p \o q) /\ (p # <<>> => p \o q # <<>>)
<1>1. PICK S : p \in Seq(S) /\ \A s \in S : Calm(s)  BY DEF CalmSeq
<1>2. PICK T : q \in Seq(T) /\ \A s \in T : Calm(s)  BY DEF CalmSeq
<1>3. p \in Seq(S \cup T) /\ q \in Seq(S \cup T)  BY <1>1, <1>2, SeqMonotonic
<1>4. p \o q \in Seq(S \cup T) /\ Len(p \o q) = Len(p) + Len(q)  BY <1>3, ConcatProperties
<1>5. Len(p) \in Nat /\ Len(q) \in Nat /\ (p # <<>> => Len(p) > 0)  BY <1>3
<1>6. \A s \in S \cup T : Calm(s)  BY <1>1, <1>2
<1>7. CalmSeq(p \o q)  BY <1>4, <1>6 DEF CalmSeq
<1>8. p # <<>> => p \o q # <<>>
  <2>1. p # <<>> => Len(p \o q) > 0  BY <1>4, <1>5
  <2> QED  BY <2>1
<1> QED  BY <1>7, <1>8

LEMMA CalmExcept ==
    ASSUME NEW q, CalmSeq(q), NEW i, NEW s, i \in DOMAIN q => Calm(s)
    PROVE  CalmSeq([q EXCEPT ![i] = s]) /\ (q # <<>> => [q EXCEPT ![i] = s] # <<>>)
<1>1. PICK S : q \in Seq(S) /\ \A x \in S : Calm(x)  BY DEF CalmSeq
<1>2. CASE i \in DOMAIN q
  <2>1. q \in Seq(S \cup {s}) /\ i \in 1..Len(q)  BY <1>1, <1>2, SeqMonotonic
  <2>2. [q EXCEPT ![i] = s] \in Seq(S \cup {s}) /\ Len([q EXCEPT ![i] = s]) = Len(q)
    BY <2>1, ExceptSeq
  <2>3. \A x \in S \cup {s} : Calm(x)  BY <1>1, <1>2
  <2> QED  BY <1>1, <2>2, <2>3 DEF CalmSeq
<1>3. CASE i \notin DOMAIN q
  <2>1. [q EXCEPT ![i] = s] = q
    <3>1. q = [j \in DOMAIN q |-> q[j]]  BY <1>1
    <3> QED  BY <1>3, <3>1
  <2> QED  BY <2>1
<1> QED  BY <1>2, <1>3

\* A calm sequence is a script, in which nothing is expected to fail.
LEMMA CalmScript ==
    ASSUME NEW q, CalmSeq(q), q # <<>>
    PROVE  IsScript(q) /\ RaisesLate(q)
<1>1. PICK S : q \in Seq(S) /\ \A s \in S : Calm(s)  BY DEF CalmSeq
<1>2. IsScript(q)  BY <1>1 DEF IsScript, Calm
<1>3. \A i \in 1..Len(q) : Calm(q[i])  BY <1>1, ElementOfSeq
<1> QED  BY <1>2, <1>3 DEF RaisesLate, Calm

\* What the steps of the tests are made of.
LEMMA NoStepIs ==
    /\ DOMAIN NoStep = {"do", "sock", "cert", "config", "line", "caps", "acked", "passes",
                        "fails", "returns", "pings", "raises"}
    /\ NoStep.sock = "server" /\ NoStep.config.sock = "server" /\ NoStep.caps = {}
    /\ NoStep.raises = FALSE /\ NoStep.cert = ""
BY DEF NoStep, NotRun

LEMMA PartsAreCalm ==
    /\ \A sock \in Sockets : \A tls, trusted, auth :
          CalmSeq(Run(sock, tls, trusted, auth)) /\ Run(sock, tls, trusted, auth) # <<>>
    /\ \A sock \in Sockets : Calm(Accept(sock))
    /\ \A cert : CalmSeq(AcceptTls(cert))
    /\ CalmSeq(Terminate)
    /\ \A line : CalmSeq(Write(line))
    /\ \A arg : CalmSeq(Auth(arg))
    /\ \A pattern : CalmSeq(Reads(pattern)) /\ Calm(Read(pattern)) /\ Calm(Raising(Read(pattern)))
<1> DEFINE run(sock, tls, trusted, auth) ==
             [NoStep EXCEPT !.do = "run",
                !.config = [sock |-> sock, tls |-> tls, trusted |-> trusted, auth |-> auth]]
<1>1. ASSUME NEW sock \in Sockets, NEW tls, NEW trusted, NEW auth
      PROVE  CalmSeq(Run(sock, tls, trusted, auth)) /\ Run(sock, tls, trusted, auth) # <<>>
  <2>1. Calm(run(sock, tls, trusted, auth))
    BY <1>1, NoStepIs DEF Calm, IsStep, StepKinds, AcceptsConnection, NamesIn, Sockets
  <2>2. Run(sock, tls, trusted, auth) = <<run(sock, tls, trusted, auth)>>  BY DEF Run
  <2> HIDE DEF run
  <2> QED  BY <2>1, <2>2, CalmPair
<1>2. ASSUME NEW sock \in Sockets PROVE Calm(Accept(sock))
  BY <1>2, NoStepIs DEF Accept, Calm, IsStep, StepKinds, AcceptsConnection, NamesIn, Sockets
<1>3. ASSUME NEW cert PROVE CalmSeq(AcceptTls(cert))
  <2> DEFINE a == [Accept("server") EXCEPT !.cert = cert]
  <2>1. Calm(a)
    BY NoStepIs DEF Accept, Calm, IsStep, StepKinds, AcceptsConnection, NamesIn, Sockets
  <2> HIDE DEF a
  <2>2. AcceptTls(cert) = <<a>>  BY DEF AcceptTls, a
  <2> QED  BY <2>1, <2>2, CalmPair
<1>4. CalmSeq(Terminate)
  <2> DEFINE t == [NoStep EXCEPT !.do = "terminate"]
  <2>1. Calm(t)
    BY NoStepIs DEF Calm, IsStep, StepKinds, AcceptsConnection, NamesIn, Sockets
  <2> HIDE DEF t
  <2>2. Terminate = <<t>>  BY DEF Terminate, t
  <2> QED  BY <2>1, <2>2, CalmPair
<1>5. ASSUME NEW line PROVE CalmSeq(Write(line))
  <2> DEFINE w == [NoStep EXCEPT !.do = "write", !.line = line]
  <2>1. Calm(w)
    BY NoStepIs DEF Calm, IsStep, StepKinds, AcceptsConnection, NamesIn, Sockets
  <2> HIDE DEF w
  <2>2. Write(line) = <<w>>  BY DEF Write, w
  <2> QED  BY <2>1, <2>2, CalmPair
<1>6. ASSUME NEW arg PROVE CalmSeq(Auth(arg))  BY <1>5 DEF Auth
<1>7. ASSUME NEW pattern
      PROVE  CalmSeq(Reads(pattern)) /\ Calm(Read(pattern)) /\ Calm(Raising(Read(pattern)))
  <2>1. Calm(Read(pattern)) /\ Calm(Raising(Read(pattern)))
    BY NoStepIs DEF Read, Raising, Calm, IsStep, StepKinds, AcceptsConnection, NamesIn, Sockets
  <2> QED  BY <2>1, CalmPair DEF Reads
<1> QED  BY <1>1, <1>2, <1>3, <1>4, <1>5, <1>6, <1>7

LEMMA OpeningsAreCalm ==
    /\ \A auth, first : CalmSeq(ReadCapLs(auth, first)) /\ ReadCapLs(auth, first) # <<>>
    /\ \A caps, pattern : NamesIn(caps) \subseteq {"sasl"} => CalmSeq(LoopUntil(caps, pattern))
    /\ \A auth, caps, pattern : NamesIn(caps) \subseteq {"sasl"}
          => CalmSeq(Negotiate(auth, caps, pattern)) /\ Negotiate(auth, caps, pattern) # <<>>
<1>1. ASSUME NEW auth, NEW first
      PROVE  CalmSeq(ReadCapLs(auth, first)) /\ ReadCapLs(auth, first) # <<>>
  <2>1. "server" \in Sockets  BY DEF Sockets
  <2>2. CalmSeq(Run("server", FALSE, FALSE, auth)) /\ Run("server", FALSE, FALSE, auth) # <<>>
    BY <2>1, PartsAreCalm
  <2> DEFINE r == [NoStep EXCEPT !.do = "read", !.passes = first]
  <2>3. Calm(Accept("server"))  BY <2>1, PartsAreCalm
  <2>4. Calm(r)  BY NoStepIs DEF Calm, IsStep, StepKinds, AcceptsConnection, NamesIn, Sockets
  <2>5. CalmSeq(<<Accept("server"), r>>)
    BY <2>3, <2>4, CalmPair
  <2> QED  BY <2>2, <2>5, CalmConcat DEF ReadCapLs
<1>2. ASSUME NEW caps, NEW pattern, NamesIn(caps) \subseteq {"sasl"}
      PROVE  CalmSeq(LoopUntil(caps, pattern))
  <2> DEFINE b == [NoStep EXCEPT !.do = "begin"]
             n == [NoStep EXCEPT !.do = "negotiate", !.caps = caps]
             m == [n EXCEPT !.passes = {pattern}]
  <2>1. Calm(b) /\ Calm(n) /\ Calm(m)
    BY <1>2, NoStepIs DEF Calm, IsStep, StepKinds, AcceptsConnection, NamesIn, Sockets
  <2>2. [<<b, n>> EXCEPT ![2].passes = {pattern}] = <<b, m>>
    <3> HIDE DEF b, n
    <3> QED  OBVIOUS
  <2>3. LoopUntil(caps, pattern) = <<b, m>>  BY <2>2 DEF LoopUntil, Loop
  <2>4. CalmSeq(<<b, m>>)
    BY <2>1, CalmPair
  <2> QED  BY <2>3, <2>4
<1>3. ASSUME NEW auth, NEW caps, NEW pattern, NamesIn(caps) \subseteq {"sasl"}
      PROVE  CalmSeq(Negotiate(auth, caps, pattern)) /\ Negotiate(auth, caps, pattern) # <<>>
  <2> DEFINE r == ReadCapLs(auth, HasCapLs)
             w == Write(Listing(Line("", "CAP", <<"LS">>), caps))
             l == LoopUntil(caps, pattern)
  <2>1. CalmSeq(r) /\ r # <<>>  BY <1>1
  <2>2. CalmSeq(w)  BY PartsAreCalm
  <2>3. CalmSeq(l)  BY <1>2, <1>3
  <2>4. Negotiate(auth, caps, pattern) = (r \o w) \o l  BY DEF Negotiate
  <2> HIDE DEF r, w, l
  <2>5. CalmSeq(r \o w) /\ r \o w # <<>>  BY <2>1, <2>2, CalmConcat
  <2> QED  BY <2>3, <2>4, <2>5, CalmConcat
<1> QED  BY <1>1, <1>2, <1>3

LEMMA SaslIsKnown == NamesIn({}) = {} /\ NamesIn(Sasl) = {"sasl"} /\ NamesIn(SaslExternal) = {"sasl"}
<1>1. <<"sasl", "">>[1] = "sasl" /\ <<"sasl", "EXTERNAL">>[1] = "sasl"  OBVIOUS
<1> QED  BY <1>1 DEF NamesIn, Sasl, SaslExternal

LEMMA AuthenticationIsCalm ==
    /\ \A mechanism : CalmSeq(Authenticates(mechanism)) /\ Authenticates(mechanism) # <<>>
    /\ CalmSeq(LoggedIn)
    /\ CalmSeq(ScramStarts) /\ ScramStarts # <<>>
<1>1. ASSUME NEW mechanism PROVE CalmSeq(Authenticates(mechanism)) /\ Authenticates(mechanism) # <<>>
  BY SaslIsKnown, OpeningsAreCalm, PartsAreCalm, CalmConcat DEF Authenticates
<1>2. CalmSeq(LoggedIn)
  BY SaslIsKnown, OpeningsAreCalm, PartsAreCalm, CalmConcat DEF LoggedIn
<1>3. CalmSeq(ScramStarts) /\ ScramStarts # <<>>
  BY <1>1, PartsAreCalm, CalmConcat DEF ScramStarts
<1> QED  BY <1>1, <1>2, <1>3

\* These tests expect nothing to fail.
LEMMA CalmTests ==
    /\ CalmSeq(testSendCap.steps) /\ testSendCap.steps # <<>>
    /\ CalmSeq(testEmptyCapLs.steps) /\ testEmptyCapLs.steps # <<>>
    /\ CalmSeq(testPlain.steps) /\ testPlain.steps # <<>>
    /\ CalmSeq(testPlainLarge.steps) /\ testPlainLarge.steps # <<>>
    /\ CalmSeq(testPlainLargeMultiple.steps) /\ testPlainLargeMultiple.steps # <<>>
    /\ CalmSeq(testEcdsa.steps) /\ testEcdsa.steps # <<>>
    /\ CalmSeq(testScram.steps) /\ testScram.steps # <<>>
    /\ CalmSeq(testTrustedCertificate.steps) /\ testTrustedCertificate.steps # <<>>
    /\ CalmSeq(testUntrustedCertificate.steps) /\ testUntrustedCertificate.steps # <<>>
<1> USE DEF Exchanges, Test
<1>1. CalmSeq(testSendCap.steps) /\ testSendCap.steps # <<>>
  BY OpeningsAreCalm DEF testSendCap
<1>2. CalmSeq(testEmptyCapLs.steps) /\ testEmptyCapLs.steps # <<>>
  BY OpeningsAreCalm, SaslIsKnown DEF testEmptyCapLs
<1>3. CalmSeq(testPlain.steps) /\ testPlain.steps # <<>>
  BY AuthenticationIsCalm, PartsAreCalm, CalmConcat DEF testPlain
<1>4. CalmSeq(testPlainLarge.steps) /\ testPlainLarge.steps # <<>>
  BY AuthenticationIsCalm, PartsAreCalm, CalmConcat DEF testPlainLarge
<1>5. CalmSeq(testPlainLargeMultiple.steps) /\ testPlainLargeMultiple.steps # <<>>
  BY AuthenticationIsCalm, PartsAreCalm, CalmConcat DEF testPlainLargeMultiple
<1>6. CalmSeq(testEcdsa.steps) /\ testEcdsa.steps # <<>>
  BY AuthenticationIsCalm, PartsAreCalm, CalmConcat DEF testEcdsa
<1>7. CalmSeq(testScram.steps) /\ testScram.steps # <<>>
  BY AuthenticationIsCalm, PartsAreCalm, CalmConcat DEF testScram
<1>8. CalmSeq(testTrustedCertificate.steps) /\ testTrustedCertificate.steps # <<>>
  BY PartsAreCalm, CalmConcat DEF testTrustedCertificate, Sockets
<1>9. CalmSeq(testUntrustedCertificate.steps) /\ testUntrustedCertificate.steps # <<>>
  <2>1. CalmSeq(<<Raising(Read(Cmd("CAP")))>>)  BY PartsAreCalm, CalmPair
  <2> QED  BY <2>1, PartsAreCalm, CalmConcat DEF testUntrustedCertificate, Sockets
<1> QED  BY <1>1, <1>2, <1>3, <1>4, <1>5, <1>6, <1>7, <1>8, <1>9

\* A sequence in which a connection has its file.
ConnectsCalmly(q) == CalmSeq(q) /\ \E j \in 1..Len(q) : MakesFile(q[j])

LEMMA ConnectsConcat ==
    ASSUME NEW p, NEW q, CalmSeq(p), CalmSeq(q), ConnectsCalmly(p) \/ ConnectsCalmly(q)
    PROVE  ConnectsCalmly(p \o q)
<1>1. PICK S : p \in Seq(S) /\ \A s \in S : Calm(s)  BY DEF CalmSeq
<1>2. PICK T : q \in Seq(T) /\ \A s \in T : Calm(s)  BY DEF CalmSeq
<1>3. p \in Seq(S \cup T) /\ q \in Seq(S \cup T)  BY <1>1, <1>2, SeqMonotonic
<1>4. /\ Len(p) \in Nat /\ Len(q) \in Nat /\ Len(p \o q) = Len(p) + Len(q)
      /\ \A i \in 1..(Len(p) + Len(q)) : (p \o q)[i] = IF i <= Len(p) THEN p[i] ELSE q[i - Len(p)]
  BY <1>3, ConcatProperties
<1>5. ASSUME NEW j \in 1..Len(p), MakesFile(p[j])
      PROVE  \E i \in 1..Len(p \o q) : MakesFile((p \o q)[i])
  <2>1. j \in 1..Len(p \o q) /\ (p \o q)[j] = p[j]  BY <1>4
  <2> QED  BY <1>5, <2>1
<1>6. ASSUME NEW j \in 1..Len(q), MakesFile(q[j])
      PROVE  \E i \in 1..Len(p \o q) : MakesFile((p \o q)[i])
  <2>1. Len(p) + j \in 1..Len(p \o q) /\ (p \o q)[Len(p) + j] = q[j]  BY <1>4
  <2> QED  BY <1>6, <2>1
<1>7. CalmSeq(p \o q)  BY CalmConcat
<1> QED  BY <1>5, <1>6, <1>7 DEF ConnectsCalmly

\* After a connection that has its file, one may be expected to fail.
LEMMA LateScript ==
    ASSUME NEW p, NEW s, ConnectsCalmly(p), IsStep(s)
    PROVE  IsScript(p \o <<s>>) /\ RaisesLate(p \o <<s>>)
<1>1. PICK S : p \in Seq(S) /\ \A x \in S : Calm(x)  BY DEF ConnectsCalmly, CalmSeq
<1> DEFINE T == S \cup {s}
           q == p \o <<s>>
<1>2. p \in Seq(T) /\ <<s>> \in Seq(T)  BY <1>1, SeqMonotonic
<1>3. \A x \in T : IsStep(x)  BY <1>1 DEF Calm
<1>4. /\ Len(p) \in Nat /\ Len(<<s>>) = 1 /\ q \in Seq(T) /\ Len(q) = Len(p) + Len(<<s>>)
      /\ \A i \in 1..(Len(p) + Len(<<s>>)) : q[i] = IF i <= Len(p) THEN p[i] ELSE <<s>>[i - Len(p)]
  <2> HIDE DEF T
  <2> QED  BY <1>2, ConcatProperties
<1> HIDE DEF T, q
<1>5. q # <<>>  BY <1>4
<1>6. IsScript(q)  BY <1>3, <1>4, <1>5 DEF IsScript
<1>7. PICK j \in 1..Len(p) : MakesFile(p[j])  BY DEF ConnectsCalmly
<1>8. ASSUME NEW i \in 1..Len(q), AcceptsConnection(q[i]), q[i].raises
      PROVE  \E k \in 1..(i - 1) : MakesFile(q[k])
  <2>1. \A k \in 1..Len(p) : Calm(q[k])  BY <1>1, <1>4, ElementOfSeq
  <2>2. i = Len(p) + 1  BY <1>4, <1>8, <2>1 DEF Calm
  <2>3. j \in 1..(i - 1) /\ MakesFile(q[j])  BY <1>4, <1>7, <2>2
  <2> QED  BY <2>3
<1>9. RaisesLate(q)  BY <1>8 DEF RaisesLate
<1> QED  BY <1>6, <1>9 DEF q

LEMMA ScramRefusalIsCalm == Calm(NotAuthorized("notsesame"))
BY NoStepIs DEF NotAuthorized, Read, Calm, IsStep, StepKinds, AcceptsConnection, NamesIn, Sockets

LEMMA AnnouncementIsCalm ==
    ASSUME NEW trusted
    PROVE  ConnectsCalmly(StsAnnounced(trusted)) /\ StsAnnounced(trusted) # <<>>
<1> DEFINE run == Run("insecure", FALSE, trusted, "")
           accept == <<Accept("insecure")>>
           read == Reads(Msg("CAP", <<"LS", ANYSTR>>))
           write == Write(Listing(Line("", "CAP", <<"LS">>), {<<"sts", "port">>}))
<1>1. CalmSeq(run) /\ run # <<>> /\ CalmSeq(accept) /\ CalmSeq(read) /\ CalmSeq(write)
  BY PartsAreCalm, CalmPair DEF Sockets
<1>2. ConnectsCalmly(accept)
  <2>1. MakesFile(Accept("insecure"))  BY NoStepIs DEF MakesFile, Accept
  <2>2. accept[1] = Accept("insecure") /\ 1 \in 1..Len(accept)  OBVIOUS
  <2> HIDE DEF accept
  <2> QED  BY <1>1, <2>1, <2>2 DEF ConnectsCalmly
<1>3. StsAnnounced(trusted) = ((run \o accept) \o read) \o write  BY DEF StsAnnounced
<1> HIDE DEF run, accept, read, write
<1>4. ConnectsCalmly(run \o accept) /\ run \o accept # <<>>
  BY <1>1, <1>2, ConnectsConcat, CalmConcat
<1>5. ConnectsCalmly((run \o accept) \o read) /\ (run \o accept) \o read # <<>>
  BY <1>1, <1>4, ConnectsConcat, CalmConcat DEF ConnectsCalmly
<1> QED  BY <1>1, <1>3, <1>5, ConnectsConcat, CalmConcat DEF ConnectsCalmly

\* A calm sequence whose sixth step expects something else.
LEMMA SixthAmended ==
    ASSUME NEW q, CalmSeq(q), q # <<>>, NEW v, NEW w, NEW z,
           \/ z = [q EXCEPT ![6].acked = v, ![6].returns = w]
           \/ z = [q EXCEPT ![6].acked = v, ![6].passes = w]
    PROVE  CalmSeq(z) /\ z # <<>>
<1> DEFINE a == [q[6] EXCEPT !.acked = v]
           p == [q EXCEPT ![6] = a]
           r == [p[6] EXCEPT !.returns = w]
           s == [p[6] EXCEPT !.passes = w]
<1>1. 6 \in DOMAIN q => Calm(q[6])
  <2>1. PICK S : q \in Seq(S) /\ \A x \in S : Calm(x)  BY DEF CalmSeq
  <2> QED  BY <2>1, ElementOfSeq
<1>2. \A x : Calm(x) => /\ Calm([x EXCEPT !.acked = v]) /\ Calm([x EXCEPT !.returns = w])
                        /\ Calm([x EXCEPT !.passes = w])
  BY DEF Calm, IsStep, AcceptsConnection
<1>3. 6 \in DOMAIN q => Calm(a)  BY <1>1, <1>2
<1>4. CalmSeq(p) /\ (q # <<>> => p # <<>>)
  <2> HIDE DEF a
  <2> QED  BY <1>3, CalmExcept
<1>5. 6 \in DOMAIN p => Calm(p[6])
  <2> HIDE DEF a, p
  <2>1. PICK S : p \in Seq(S) /\ \A x \in S : Calm(x)  BY <1>4 DEF CalmSeq
  <2> QED  BY <2>1, ElementOfSeq
<1>6. 6 \in DOMAIN p => Calm(r) /\ Calm(s)
  <2> HIDE DEF a, p
  <2> QED  BY <1>2, <1>5
<1>7. /\ CalmSeq([p EXCEPT ![6] = r]) /\ (p # <<>> => [p EXCEPT ![6] = r] # <<>>)
      /\ CalmSeq([p EXCEPT ![6] = s]) /\ (p # <<>> => [p EXCEPT ![6] = s] # <<>>)
  <2> HIDE DEF a, p, r, s
  <2> QED  BY <1>4, <1>6, CalmExcept
<1>8. /\ [q EXCEPT ![6].acked = v, ![6].returns = w] = [p EXCEPT ![6] = r]
      /\ [q EXCEPT ![6].acked = v, ![6].passes = w] = [p EXCEPT ![6] = s]
  OBVIOUS
<1> HIDE DEF a, p, r, s
<1> QED  BY <1>4, <1>7, <1>8

LEMMA StepsOfTest == \A q, payload, habits, faults : Test(q, payload, habits, faults).steps = q
BY DEF Test

\* The other tests.
LEMMA NegotiatingTests ==
    /\ CalmSeq(testPlainNotAvailable.steps) /\ testPlainNotAvailable.steps # <<>>
    /\ CalmSeq(testPlainNotAvailable302.steps) /\ testPlainNotAvailable302.steps # <<>>
    /\ CalmSeq(testScramBadPassword.steps) /\ testScramBadPassword.steps # <<>>
    /\ CalmSeq(testScramMaliciousServer.steps) /\ testScramMaliciousServer.steps # <<>>
<1>2. CalmSeq(testPlainNotAvailable.steps) /\ testPlainNotAvailable.steps # <<>>
  <2> DEFINE n == Negotiate("PLAIN", SaslExternal, IsAuth("PLAIN"))
             q == [n EXCEPT ![6].acked = {"sasl"}, ![6].returns = {CapEnd, Cmd("QUIT")}]
             w == Write(Line("", "904", <<>>))
             r == Reads(Cmd("CAP"))
  <2>1. CalmSeq(n) /\ n # <<>> /\ CalmSeq(w) /\ CalmSeq(r)
    BY SaslIsKnown, OpeningsAreCalm, PartsAreCalm
  <2>2. CalmSeq(q) /\ q # <<>>
    <3> HIDE DEF n
    <3> QED  BY <2>1, SixthAmended
  <2>3. testPlainNotAvailable.steps = (q \o w) \o r  BY StepsOfTest DEF testPlainNotAvailable
  <2> HIDE DEF n, q, w, r
  <2> QED  BY <2>1, <2>2, <2>3, CalmConcat
<1>3. CalmSeq(testPlainNotAvailable302.steps) /\ testPlainNotAvailable302.steps # <<>>
  <2> DEFINE n == Negotiate("PLAIN", SaslExternal, CapEnd)
             q == [n EXCEPT ![6].acked = {"sasl"}, ![6].passes = {CapEnd, Cmd("QUIT")}]
  <2>1. CalmSeq(n) /\ n # <<>>  BY SaslIsKnown, OpeningsAreCalm
  <2>2. CalmSeq(q) /\ q # <<>>
    <3> HIDE DEF n
    <3> QED  BY <2>1, SixthAmended
  <2>3. testPlainNotAvailable302.steps = q  BY DEF testPlainNotAvailable302, Test
  <2> QED  BY <2>2, <2>3
<1>4. CalmSeq(ScramStarts \o <<NotAuthorized("notsesame")>>)
      /\ ScramStarts \o <<NotAuthorized("notsesame")>> # <<>>
  BY ScramRefusalIsCalm, AuthenticationIsCalm, CalmPair, CalmConcat
<1>5. CalmSeq(testScramBadPassword.steps) /\ testScramBadPassword.steps # <<>>
  BY <1>4, StepsOfTest DEF testScramBadPassword, Exchanges
<1>6. CalmSeq(testScramMaliciousServer.steps) /\ testScramMaliciousServer.steps # <<>>
  <2> DEFINE refusal == ScramStarts \o <<NotAuthorized("notsesame")>>
             fake == Auth("fake response")
             read == [Read(IsAuth("*")) EXCEPT !.pings = TRUE]
  <2>1. Calm(read)
    BY NoStepIs DEF Read, Calm, IsStep, StepKinds, AcceptsConnection, NamesIn, Sockets
  <2>2. CalmSeq(refusal) /\ refusal # <<>> /\ CalmSeq(fake)  BY <1>4, PartsAreCalm
  <2>3. testScramMaliciousServer.steps = (refusal \o fake) \o <<read>>
    BY StepsOfTest DEF testScramMaliciousServer
  <2> HIDE DEF refusal, fake, read
  <2> QED  BY <2>1, <2>2, <2>3, CalmPair, CalmConcat
<1> QED  BY <1>2, <1>3, <1>5, <1>6

LEMMA StsTests ==
    /\ \A policy : CalmSeq(testSts(policy).steps) /\ testSts(policy).steps # <<>>
    /\ IsScript(testStsInvalidCertificate.steps) /\ RaisesLate(testStsInvalidCertificate.steps)
<1> USE DEF Test
<1>1. ASSUME NEW policy PROVE CalmSeq(testSts(policy).steps) /\ testSts(policy).steps # <<>>
  <2> DEFINE announce == StsAnnounced(TRUE)
             tls == AcceptTls("good")
             write == Write(Listing(Line("", "CAP", <<"LS">>), {<<"sts", policy>>}))
             err == Write(Line("", "ERROR", <<>>))
             accept == <<Accept("server")>>
             run == Run("insecure", FALSE, TRUE, "")
  <2>1. /\ CalmSeq(announce) /\ announce # <<>> /\ CalmSeq(tls) /\ CalmSeq(write) /\ CalmSeq(err)
        /\ CalmSeq(accept) /\ CalmSeq(run) /\ CalmSeq(Terminate)
    BY AnnouncementIsCalm, PartsAreCalm, CalmPair DEF Sockets, ConnectsCalmly
  <2>2. testSts(policy).steps
            = ((((((announce \o tls) \o write) \o err) \o accept) \o Terminate) \o run) \o accept
    BY DEF testSts
  <2> HIDE DEF announce, tls, write, err, accept, run
  <2> QED  BY <2>1, <2>2, CalmConcat
<1>2. IsStep(Raising(AcceptTls("good")[1]))
  <2>1. AcceptTls("good")[1] = [Accept("server") EXCEPT !.cert = "good"]  BY DEF AcceptTls
  <2> QED  BY <2>1, NoStepIs DEF Raising, Accept, IsStep, StepKinds, NamesIn, Sockets
<1> QED  BY <1>1, <1>2, AnnouncementIsCalm, LateScript DEF testStsInvalidCertificate

\* Tests begin with a client that is run, and that they wait for.
Opens(q) == Len(q) >= 2 /\ q[1].do = "run" /\ q[2].do = "accept"
OpensCalmly(q) == CalmSeq(q) /\ Opens(q)

LEMMA OpensHere ==
    ASSUME NEW s, NEW t, NEW q, Calm(s), Calm(t), s.do = "run", t.do = "accept",
           q = <<t>> \/ \E r : q = <<t, r>> /\ Calm(r)
    PROVE  OpensCalmly(<<s>> \o q)
<1>1. CalmSeq(<<s>>) /\ CalmSeq(q)  BY CalmPair
<1>2. CalmSeq(<<s>> \o q)  BY <1>1, CalmConcat
<1>3. Opens(<<s>> \o <<t>>)  BY DEF Opens
<1>4. ASSUME NEW r PROVE Opens(<<s>> \o <<t, r>>)  BY DEF Opens
<1> QED  BY <1>2, <1>3, <1>4 DEF OpensCalmly

LEMMA OpensConcat ==
    ASSUME NEW p, NEW q, NEW T, OpensCalmly(p), q \in Seq(T)
    PROVE  Opens(p \o q) /\ (CalmSeq(q) => OpensCalmly(p \o q))
<1>1. PICK S : p \in Seq(S) /\ \A s \in S : Calm(s)  BY DEF OpensCalmly, CalmSeq
<1>2. p \in Seq(S \cup T) /\ q \in Seq(S \cup T)  BY <1>1, SeqMonotonic
<1>3. /\ Len(p) \in Nat /\ Len(q) \in Nat /\ Len(p \o q) = Len(p) + Len(q)
      /\ \A i \in 1..(Len(p) + Len(q)) : (p \o q)[i] = IF i <= Len(p) THEN p[i] ELSE q[i - Len(p)]
  BY <1>2, ConcatProperties
<1>4. Len(p) >= 2 /\ p[1].do = "run" /\ p[2].do = "accept"  BY DEF OpensCalmly, Opens
<1>5. Opens(p \o q)  BY <1>3, <1>4 DEF Opens
<1> QED  BY <1>5, CalmConcat DEF OpensCalmly

LEMMA CalmOpening ==
    ASSUME NEW p, NEW q, OpensCalmly(p), CalmSeq(q)
    PROVE  OpensCalmly(p \o q)
<1>1. PICK T : q \in Seq(T)  BY DEF CalmSeq
<1> QED  BY <1>1, OpensConcat

LEMMA SixthOpens ==
    ASSUME NEW q, OpensCalmly(q), NEW v, NEW w, NEW z,
           \/ z = [q EXCEPT ![6].acked = v, ![6].returns = w]
           \/ z = [q EXCEPT ![6].acked = v, ![6].passes = w]
    PROVE  OpensCalmly(z)
<1>1. PICK S : q \in Seq(S)  BY DEF OpensCalmly, CalmSeq
<1>2. q # <<>> /\ Len(q) \in Nat /\ DOMAIN q = 1..Len(q) /\ Len(q) >= 2
  BY <1>1 DEF OpensCalmly, Opens
<1>3. CalmSeq(z)  BY <1>2, SixthAmended DEF OpensCalmly
<1>4. DOMAIN z = DOMAIN q /\ z[1] = q[1] /\ z[2] = q[2]  BY <1>2
<1>5. Len(z) \in Nat /\ DOMAIN z = 1..Len(z)
  <2>1. PICK T : z \in Seq(T)  BY <1>3 DEF CalmSeq
  <2> QED  BY <2>1
<1>6. Len(z) = Len(q)  BY <1>2, <1>4, <1>5
<1> QED  BY <1>3, <1>4, <1>6 DEF OpensCalmly, Opens

LEMMA BeginningsOpen ==
    /\ \A auth, first : OpensCalmly(ReadCapLs(auth, first))
    /\ \A auth, caps, pattern : NamesIn(caps) \subseteq {"sasl"}
          => OpensCalmly(Negotiate(auth, caps, pattern))
    /\ \A mechanism : OpensCalmly(Authenticates(mechanism))
    /\ OpensCalmly(ScramStarts)
    /\ \A trusted : OpensCalmly(StsAnnounced(trusted))
    /\ \A cert : OpensCalmly(Run("server", TRUE, TRUE, "") \o AcceptTls(cert))
<1> DEFINE run(sock, tls, trusted, auth) ==
             [NoStep EXCEPT !.do = "run",
                !.config = [sock |-> sock, tls |-> tls, trusted |-> trusted, auth |-> auth]]
<1>1. ASSUME NEW sock \in Sockets, NEW tls, NEW trusted, NEW auth
      PROVE  /\ Run(sock, tls, trusted, auth) = <<run(sock, tls, trusted, auth)>>
             /\ run(sock, tls, trusted, auth).do = "run" /\ Calm(run(sock, tls, trusted, auth))
  <2>1. Run(sock, tls, trusted, auth) = <<run(sock, tls, trusted, auth)>>  BY DEF Run
  <2>2. run(sock, tls, trusted, auth).do = "run"  BY NoStepIs
  <2>3. Calm(run(sock, tls, trusted, auth))
    BY <1>1, NoStepIs DEF Calm, IsStep, StepKinds, AcceptsConnection, NamesIn, Sockets
  <2> QED  BY <2>1, <2>2, <2>3
<1>2. \A sock \in Sockets : Accept(sock).do = "accept" /\ Calm(Accept(sock))
  BY NoStepIs, PartsAreCalm DEF Accept
<1>3. "server" \in Sockets /\ "insecure" \in Sockets  BY DEF Sockets
<1> HIDE DEF run
<1>4. ASSUME NEW auth, NEW first PROVE OpensCalmly(ReadCapLs(auth, first))
  <2> DEFINE r == [NoStep EXCEPT !.do = "read", !.passes = first]
  <2>1. Calm(r)
    BY NoStepIs DEF Calm, IsStep, StepKinds, AcceptsConnection, NamesIn, Sockets
  <2>2. ReadCapLs(auth, first) = Run("server", FALSE, FALSE, auth) \o <<Accept("server"), r>>
    BY DEF ReadCapLs
  <2> HIDE DEF r
  <2> QED  BY <1>1, <1>2, <1>3, <2>1, <2>2, OpensHere
<1>5. ASSUME NEW auth, NEW caps, NEW pattern, NamesIn(caps) \subseteq {"sasl"}
      PROVE  OpensCalmly(Negotiate(auth, caps, pattern))
  BY <1>4, <1>5, PartsAreCalm, OpeningsAreCalm, CalmOpening DEF Negotiate
<1>6. ASSUME NEW mechanism PROVE OpensCalmly(Authenticates(mechanism))
  BY <1>5, SaslIsKnown, PartsAreCalm, CalmOpening DEF Authenticates
<1>7. OpensCalmly(ScramStarts)  BY <1>6, PartsAreCalm, CalmOpening DEF ScramStarts
<1>8. ASSUME NEW trusted PROVE OpensCalmly(StsAnnounced(trusted))
  <2> DEFINE accept == <<Accept("insecure")>>
             read == Reads(Msg("CAP", <<"LS", ANYSTR>>))
             write == Write(Listing(Line("", "CAP", <<"LS">>), {<<"sts", "port">>}))
  <2>1. CalmSeq(read) /\ CalmSeq(write)  BY PartsAreCalm
  <2>2. OpensCalmly(Run("insecure", FALSE, trusted, "") \o accept)
    BY <1>1, <1>2, <1>3, OpensHere
  <2>3. StsAnnounced(trusted) = ((Run("insecure", FALSE, trusted, "") \o accept) \o read) \o write
    BY DEF StsAnnounced
  <2> HIDE DEF accept, read, write
  <2> QED  BY <2>1, <2>2, <2>3, CalmOpening
<1>9. ASSUME NEW cert PROVE OpensCalmly(Run("server", TRUE, TRUE, "") \o AcceptTls(cert))
  <2> DEFINE a == [Accept("server") EXCEPT !.cert = cert]
  <2>1. a.do = "accept" /\ Calm(a) /\ AcceptTls(cert) = <<a>>
    BY NoStepIs DEF Accept, AcceptTls, Calm, IsStep, StepKinds, AcceptsConnection, NamesIn, Sockets
  <2> HIDE DEF a
  <2> QED  BY <1>1, <1>3, <2>1, OpensHere
<1> QED  BY <1>4, <1>5, <1>6, <1>7, <1>8, <1>9

LEMMA TestsOpen ==
    /\ Opens(testSendCap.steps) /\ Opens(testEmptyCapLs.steps) /\ Opens(testPlain.steps)
    /\ Opens(testPlainLarge.steps) /\ Opens(testPlainLargeMultiple.steps) /\ Opens(testEcdsa.steps)
    /\ Opens(testScram.steps) /\ Opens(testScramBadPassword.steps)
    /\ Opens(testScramMaliciousServer.steps) /\ Opens(testTrustedCertificate.steps)
    /\ Opens(testUntrustedCertificate.steps) /\ Opens(testPlainNotAvailable.steps)
    /\ Opens(testPlainNotAvailable302.steps) /\ Opens(testStsInvalidCertificate.steps)
    /\ \A policy : Opens(testSts(policy).steps)
<1> USE DEF Exchanges, Test
<1>1. OpensCalmly(testSendCap.steps)
  BY BeginningsOpen DEF testSendCap
<1>2. OpensCalmly(testEmptyCapLs.steps)
  BY BeginningsOpen, SaslIsKnown DEF testEmptyCapLs
<1>3. OpensCalmly(testPlain.steps)
  BY BeginningsOpen, AuthenticationIsCalm, PartsAreCalm, CalmOpening DEF testPlain
<1>4. OpensCalmly(testPlainLarge.steps)
  BY BeginningsOpen, AuthenticationIsCalm, PartsAreCalm, CalmOpening DEF testPlainLarge
<1>5. OpensCalmly(testPlainLargeMultiple.steps)
  BY BeginningsOpen, AuthenticationIsCalm, PartsAreCalm, CalmOpening
  DEF testPlainLargeMultiple
<1>6. OpensCalmly(testEcdsa.steps)
  BY BeginningsOpen, AuthenticationIsCalm, PartsAreCalm, CalmOpening DEF testEcdsa
<1>7. OpensCalmly(testScram.steps)
  BY BeginningsOpen, PartsAreCalm, CalmOpening DEF testScram
<1>8. OpensCalmly(ScramStarts \o <<NotAuthorized("notsesame")>>)
  BY BeginningsOpen, ScramRefusalIsCalm, CalmPair, CalmOpening
<1>9. OpensCalmly(testScramBadPassword.steps)
  BY <1>8 DEF testScramBadPassword
<1>10. OpensCalmly(testScramMaliciousServer.steps)
  <2> DEFINE refusal == ScramStarts \o <<NotAuthorized("notsesame")>>
             fake == Auth("fake response")
             read == [Read(IsAuth("*")) EXCEPT !.pings = TRUE]
  <2>1. Calm(read)
    BY NoStepIs DEF Read, Calm, IsStep, StepKinds, AcceptsConnection, NamesIn, Sockets
  <2>2. OpensCalmly(refusal) /\ CalmSeq(fake)  BY <1>8, PartsAreCalm
  <2>3. testScramMaliciousServer.steps = (refusal \o fake) \o <<read>>
    BY DEF testScramMaliciousServer
  <2> HIDE DEF refusal, fake, read
  <2> QED  BY <2>1, <2>2, <2>3, CalmPair, CalmOpening
<1>11. OpensCalmly(testTrustedCertificate.steps)
  BY BeginningsOpen, PartsAreCalm, CalmOpening DEF testTrustedCertificate
<1>12. OpensCalmly(testUntrustedCertificate.steps)
  <2>1. CalmSeq(<<Raising(Read(Cmd("CAP")))>>)  BY PartsAreCalm, CalmPair
  <2> QED  BY <2>1, BeginningsOpen, CalmOpening DEF testUntrustedCertificate
<1>13. OpensCalmly(testPlainNotAvailable.steps)
  <2> DEFINE n == Negotiate("PLAIN", SaslExternal, IsAuth("PLAIN"))
             q == [n EXCEPT ![6].acked = {"sasl"}, ![6].returns = {CapEnd, Cmd("QUIT")}]
             w == Write(Line("", "904", <<>>))
             r == Reads(Cmd("CAP"))
  <2>1. OpensCalmly(n) /\ CalmSeq(w) /\ CalmSeq(r)
    BY SaslIsKnown, BeginningsOpen, PartsAreCalm
  <2>2. OpensCalmly(q)
    <3> HIDE DEF n
    <3> QED  BY <2>1, SixthOpens
  <2>3. testPlainNotAvailable.steps = (q \o w) \o r  BY DEF testPlainNotAvailable
  <2> HIDE DEF n, q, w, r
  <2> QED  BY <2>1, <2>2, <2>3, CalmOpening
<1>14. OpensCalmly(testPlainNotAvailable302.steps)
  <2> DEFINE n == Negotiate("PLAIN", SaslExternal, CapEnd)
             q == [n EXCEPT ![6].acked = {"sasl"}, ![6].passes = {CapEnd, Cmd("QUIT")}]
  <2>1. OpensCalmly(n)  BY SaslIsKnown, BeginningsOpen
  <2>2. OpensCalmly(q)
    <3>1. OpensCalmly(n)  BY <2>1
    <3> HIDE DEF n
    <3> QED  BY <3>1, SixthOpens
  <2>3. testPlainNotAvailable302.steps = q  BY DEF testPlainNotAvailable302
  <2> QED  BY <2>2, <2>3
<1>15. Opens(testStsInvalidCertificate.steps)
  <2> DEFINE s == Raising(AcceptTls("good")[1])
  <2>1. <<s>> \in Seq({s})  OBVIOUS
  <2>2. testStsInvalidCertificate.steps = StsAnnounced(FALSE) \o <<s>>
    BY DEF testStsInvalidCertificate
  <2> HIDE DEF s
  <2> QED  BY <2>1, <2>2, BeginningsOpen, OpensConcat
<1>16. ASSUME NEW policy PROVE OpensCalmly(testSts(policy).steps)
  <2> DEFINE announce == StsAnnounced(TRUE)
             tls == AcceptTls("good")
             write == Write(Listing(Line("", "CAP", <<"LS">>), {<<"sts", policy>>}))
             err == Write(Line("", "ERROR", <<>>))
             accept == <<Accept("server")>>
             run == Run("insecure", FALSE, TRUE, "")
  <2>1. /\ OpensCalmly(announce) /\ CalmSeq(tls) /\ CalmSeq(write) /\ CalmSeq(err)
        /\ CalmSeq(accept) /\ CalmSeq(run) /\ CalmSeq(Terminate)
    BY BeginningsOpen, PartsAreCalm, CalmPair DEF Sockets
  <2>2. testSts(policy).steps
            = ((((((announce \o tls) \o write) \o err) \o accept) \o Terminate) \o run) \o accept
    BY DEF testSts
  <2> HIDE DEF announce, tls, write, err, accept, run
  <2> QED  BY <2>1, <2>2, CalmOpening
<1> QED
  BY <1>1, <1>2, <1>3, <1>4, <1>5, <1>6, <1>7, <1>9, <1>10, <1>11, <1>12, <1>13, <1>14, <1>15, <1>16
  DEF OpensCalmly

\* Every client test is a script, in which a connection is only expected to
\* fail after one that was not.
LEMMA ClientTestScripts ==
    ASSUME NEW t \in DOMAIN ClientTests
    PROVE  IsScript(ClientTests[t].steps) /\ RaisesLate(ClientTests[t].steps) /\ Opens(ClientTests[t].steps)
<1> DEFINE Ok(test) == IsScript(test.steps) /\ RaisesLate(test.steps) /\ Opens(test.steps)
<1>1. /\ Ok(testSendCap) /\ Ok(testEmptyCapLs) /\ Ok(testPlain) /\ Ok(testPlainNotAvailable)
      /\ Ok(testPlainLarge) /\ Ok(testPlainLargeMultiple) /\ Ok(testEcdsa) /\ Ok(testScram)
      /\ Ok(testScramBadPassword) /\ Ok(testScramMaliciousServer) /\ Ok(testPlainNotAvailable302)
      /\ Ok(testTrustedCertificate) /\ Ok(testUntrustedCertificate)
      /\ \A policy : Ok(testSts(policy))
      /\ Ok(testStsInvalidCertificate)
  BY CalmTests, NegotiatingTests, StsTests, TestsOpen, CalmScript
<1>2. t \in 1..16  BY DEF ClientTests
<1> HIDE DEF Ok
<1>3. /\ Ok(ClientTests[1]) /\ Ok(ClientTests[2]) /\ Ok(ClientTests[3]) /\ Ok(ClientTests[4])
      /\ Ok(ClientTests[5]) /\ Ok(ClientTests[6]) /\ Ok(ClientTests[7]) /\ Ok(ClientTests[8])
      /\ Ok(ClientTests[9]) /\ Ok(ClientTests[10]) /\ Ok(ClientTests[11]) /\ Ok(ClientTests[12])
      /\ Ok(ClientTests[13]) /\ Ok(ClientTests[14]) /\ Ok(ClientTests[15]) /\ Ok(ClientTests[16])
  BY <1>1 DEF ClientTests
<1>4. \/ t = 1 \/ t = 2 \/ t = 3 \/ t = 4 \/ t = 5 \/ t = 6 \/ t = 7 \/ t = 8 \/ t = 9
      \/ t = 10 \/ t = 11 \/ t = 12 \/ t = 13 \/ t = 14 \/ t = 15 \/ t = 16
  BY <1>2
<1> QED  BY <1>3, <1>4 DEF Ok

-----------------------------------------------------------------------------
(* The client tests. *)

Links == [state : {"open", "closed"}, tls : {"plain", "hello", "shaken", "refused"}]

\* Types, of which those of TypeOKClientCases are a part.
CaseTypes ==
    /\ clientTest \in DOMAIN ClientTests
    /\ outcome \in {"running", "passed", "failed"} /\ ended \in {"no", "done", "raised"}
    /\ proc \in {"none", "running", "exited"} /\ config.sock \in Sockets
    /\ opened \in 0..MaxConnections /\ conn \in 0..opened /\ hasFile \in BOOLEAN
    /\ "conn" \in DOMAIN sut /\ sut.conn \in 0..opened
    /\ link \in [Connection -> Links]
    /\ backlog \in [Sockets -> Seq(1..opened)]
    /\ acked \subseteq {"sasl"} /\ clientCrashes \in 0..MaxClientCrashes

\* What is left of the test is a script, in which a connection that may fail
\* still comes after one that may not, or there was one.
ScriptInv == outcome = "running" => IsScript(script) /\ (hasFile \/ RaisesLate(script)) /\ ended = "no"

\* A connection has its file, unless its handshake goes on, or ended the test.
FileInv ==
    /\ conn = 0 \/ hasFile \/ outcome = "failed"
       \/ (outcome = "running" /\ Step.do = "handshake" /\ ~Step.raises)
    /\ outcome = "passed" => ended # "raised"

CaseInv == CaseTypes /\ ScriptInv /\ FileInv

\* The step of a running test, and those behind it.
LEMMA ScriptSteps ==
    ASSUME IsScript(script)
    PROVE  /\ IsStep(Step) /\ Step = script[1] /\ Len(script) \in Nat \ {0}
           /\ Len(Tail(script)) = Len(script) - 1
           /\ \A i \in 1..(Len(script) - 1) : Tail(script)[i] = script[i + 1]
           /\ Tail(script) # <<>> => IsScript(Tail(script))
<1>1. PICK S : script \in Seq(S) /\ \A s \in S : IsStep(s)  BY DEF IsScript
<1>2. script # <<>>  BY DEF IsScript
<1>3. /\ Head(script) \in S /\ Tail(script) \in Seq(S) /\ Len(Tail(script)) = Len(script) - 1
      /\ \A i \in 1..Len(Tail(script)) : Tail(script)[i] = script[i + 1]
  BY <1>1, <1>2, HeadTailProperties
<1>4. Head(script) = script[1] /\ Len(script) \in Nat \ {0}  BY <1>1, <1>2
<1>5. Tail(script) # <<>> => IsScript(Tail(script))  BY <1>1, <1>3 DEF IsScript
<1> QED  BY <1>1, <1>3, <1>4, <1>5 DEF Step

\* A step that goes on leaves a script, and what is late in it.
LEMMA GoesOn ==
    ASSUME CaseTypes, ScriptInv, outcome = "running", Goes \/ Ends("passed") \/ Ends("failed")
    PROVE  /\ outcome' \in {"running", "passed", "failed"}
           /\ outcome' = "running" =>
                /\ IsScript(script')
                /\ RaisesLate(script) /\ ~MakesFile(Step) => RaisesLate(script')
<1>1. CASE Ends("passed") \/ Ends("failed")  BY <1>1 DEF Ends
<1>2. CASE Goes /\ Tail(script) = <<>>  BY <1>2 DEF Goes, Ends
<1>3. CASE Goes /\ Tail(script) # <<>>
  <2>1. script' = Tail(script) /\ outcome' = outcome  BY <1>3 DEF Goes
  <2>2. IsScript(script)  BY DEF ScriptInv
  <2>3. ASSUME RaisesLate(script), ~MakesFile(Step), NEW i \in 1..Len(script'),
               AcceptsConnection(script'[i]), script'[i].raises
        PROVE  \E j \in 1..(i - 1) : MakesFile(script'[j])
    <3>1. i + 1 \in 1..Len(script) /\ script'[i] = script[i + 1] /\ i \in Nat
      BY <2>1, <2>2, ScriptSteps
    <3>2. PICK j \in 1..i : MakesFile(script[j])
      <4>1. \E j \in 1..((i + 1) - 1) : MakesFile(script[j])  BY <2>3, <3>1 DEF RaisesLate
      <4>2. (i + 1) - 1 = i  BY <3>1
      <4> QED  BY <4>1, <4>2
    <3>3. j # 1  BY <2>2, <2>3, <3>2, ScriptSteps
    <3>4. j - 1 \in 1..(i - 1) /\ j - 1 \in 1..(Len(script) - 1) /\ (j - 1) + 1 = j
      BY <2>2, <3>1, <3>2, <3>3, ScriptSteps
    <3>5. script'[j - 1] = script[j]  BY <2>1, <2>2, <3>4, ScriptSteps
    <3> QED  BY <3>2, <3>4, <3>5
  <2>4. RaisesLate(script) /\ ~MakesFile(Step) => RaisesLate(script')  BY <2>3 DEF RaisesLate
  <2> QED  BY <1>3, <2>1, <2>2, <2>4, ScriptSteps
<1> QED  BY <1>1, <1>2, <1>3

\* What a step that is no accept() does to the script and to the file.
LEMMA OtherStep ==
    ASSUME CaseInv, outcome = "running", ~AcceptsConnection(Step), UNCHANGED <<conn, hasFile, ended>>,
           Goes \/ Ends("passed") \/ Ends("failed") \/ UNCHANGED <<script, outcome>>
    PROVE  outcome' \in {"running", "passed", "failed"} /\ ScriptInv' /\ FileInv'
<1>1. conn = 0 \/ hasFile  BY DEF CaseInv, FileInv, AcceptsConnection
<1>2. ended' = "no"  BY DEF CaseInv, ScriptInv
<1>3. FileInv'  BY <1>1, <1>2 DEF FileInv
<1>4. CASE UNCHANGED <<script, outcome>>
  BY <1>3, <1>4 DEF CaseInv, ScriptInv
<1>5. CASE Goes \/ Ends("passed") \/ Ends("failed")
  <2>1. ~MakesFile(Step)  BY DEF MakesFile, AcceptsConnection
  <2> QED  BY <1>2, <1>3, <1>5, <2>1, GoesOn DEF CaseInv, ScriptInv
<1> QED  BY <1>4, <1>5

LEMMA InitCaseInv == InitClientCases => CaseInv
<1> SUFFICES ASSUME InitClientCases PROVE CaseInv  OBVIOUS
<1>1. script = ClientTests[clientTest].steps /\ clientTest \in DOMAIN ClientTests
      /\ outcome = "running" /\ ended = "no"
  BY DEF InitClientCases
<1>2. IsScript(script) /\ RaisesLate(script)  BY <1>1, ClientTestScripts
<1>3. "conn" \in DOMAIN sut /\ sut.conn = 0  BY DEF InitClientCases
<1>4. link \in [Connection -> Links] /\ config.sock \in Sockets
  BY DEF InitClientCases, NothingOpen, Links, NotRun, Sockets
<1>5. /\ opened = 0 /\ conn = 0 /\ hasFile = FALSE /\ acked = {} /\ clientCrashes = 0 /\ proc = "none"
  BY DEF InitClientCases, NothingOpen
<1>6. backlog \in [Sockets -> Seq(1..opened)]
  <2>1. <<>> \in Seq(1..opened)  OBVIOUS
  <2> QED  BY <2>1 DEF InitClientCases, NothingOpen
<1>7. CaseTypes
  <2>1. 0 \in 0..MaxConnections /\ 0 \in 0..opened /\ 0 \in 0..MaxClientCrashes
    BY <1>5, ClientCasesAssumption
  <2> QED  BY <1>1, <1>3, <1>4, <1>5, <1>6, <2>1, Zenon DEF CaseTypes
<1> QED  BY <1>1, <1>2, <1>5, <1>7 DEF CaseInv, ScriptInv, FileInv

LEMMA TestMovesCaseInv == ASSUME CaseInv, TestMoves PROVE CaseInv'
<1> USE DEF CaseInv, At, testSide, clientSide, process, lines
<1>1. outcome = "running" => IsStep(Step)  BY ScriptSteps DEF ScriptInv
<1>2. CASE RunsClient
  <2>1. /\ outcome = "running" /\ ~AcceptsConnection(Step) /\ UNCHANGED <<conn, hasFile, ended>>
        /\ Goes \/ Ends("failed")
    BY <1>2 DEF RunsClient, AcceptsConnection
  <2>2. outcome' \in {"running", "passed", "failed"} /\ ScriptInv' /\ FileInv'  BY <2>1, OtherStep
  <2>3. /\ proc' \in {"none", "running", "exited"} /\ config'.sock \in Sockets
        /\ "conn" \in DOMAIN sut' /\ sut'.conn \in 0..opened
    <3>1. CASE proc = "none"
      <4>1. proc' = "running" /\ config'.sock \in Sockets
        BY <1>1, <1>2, <2>1, <3>1 DEF RunsClient, IsStep
      <4>2. DOMAIN sut' = DOMAIN sut /\ ("conn" \in DOMAIN sut => sut'.conn = 0)
        BY <1>2, <3>1 DEF RunsClient
      <4> QED  BY <4>1, <4>2 DEF CaseTypes
    <3>2. CASE proc # "none"
      BY <1>2, <3>2 DEF RunsClient, CaseTypes
    <3> QED  BY <3>1, <3>2
  <2> QED  BY <1>2, <2>2, <2>3 DEF RunsClient, CaseTypes
<1>3. CASE TerminatesClient
  <2>1. /\ outcome = "running" /\ ~AcceptsConnection(Step) /\ UNCHANGED <<conn, hasFile, ended>>
        /\ Goes
    BY <1>3 DEF TerminatesClient, AcceptsConnection
  <2>2. outcome' \in {"running", "passed", "failed"} /\ ScriptInv' /\ FileInv'  BY <2>1, OtherStep
  <2>3. link' \in [Connection -> Links]  BY <1>3 DEF TerminatesClient, CaseTypes, Links
  <2>4. "conn" \in DOMAIN sut' /\ sut'.conn \in 0..opened  BY <1>3 DEF TerminatesClient, CaseTypes
  <2> QED  BY <1>3, <2>2, <2>3, <2>4 DEF TerminatesClient, CaseTypes
<1>4. CASE Accepts
  <2>1. outcome = "running" /\ IsStep(Step) /\ IsScript(script) /\ (hasFile \/ RaisesLate(script))
    BY <1>1, <1>4 DEF Accepts, ScriptInv
  <2>2. backlog[Step.sock] \in Seq(1..opened) /\ backlog[Step.sock] # <<>>
    BY <1>4, <2>1 DEF Accepts, IsStep, CaseTypes
  <2>3. conn' \in 1..opened /\ backlog' \in [Sockets -> Seq(1..opened)]
    <3>1. Head(backlog[Step.sock]) \in 1..opened /\ Tail(backlog[Step.sock]) \in Seq(1..opened)
      BY <2>2, HeadTailProperties
    <3> QED  BY <1>4, <3>1 DEF Accepts, CaseTypes
  <2>4. UNCHANGED <<clientTest, ended, acked, sut, opened, link, proc, config, clientCrashes>>
    BY <1>4 DEF Accepts
  <2>5. CASE Step.cert = ""
    <3>1. Goes /\ hasFile' = TRUE /\ ended' = ended  BY <1>4, <2>5 DEF Accepts
    <3>2. outcome' \in {"running", "passed", "failed"} /\ (outcome' = "running" => IsScript(script'))
      BY <2>1, <3>1, GoesOn
    <3>3. ScriptInv' /\ FileInv'  BY <2>1, <3>1, <3>2 DEF ScriptInv, FileInv
    <3> QED  BY <2>3, <2>4, <3>1, <3>2, <3>3 DEF CaseTypes
  <2>6. CASE Step.cert # ""
    <3> DEFINE s == [Step EXCEPT !.do = "handshake"]
    <3>1. script' = <<s>> \o Tail(script) /\ UNCHANGED <<outcome, hasFile, ended>>
      BY <1>4, <2>6 DEF Accepts
    <3>2. /\ DOMAIN s = DOMAIN Step /\ s.do = "handshake" /\ s.sock = Step.sock /\ s.cert = Step.cert
          /\ s.config = Step.config /\ s.caps = Step.caps /\ s.raises = Step.raises
      BY <2>1 DEF IsStep
    <3>3. IsStep(s)  BY <2>1, <3>2 DEF IsStep, StepKinds
    <3> HIDE DEF s
    <3>4. /\ IsScript(script') /\ Len(script') = Len(script) /\ script'[1] = s /\ Head(script') = s
          /\ \A i \in 2..Len(script) : script'[i] = script[i]
      <4>1. PICK S : script \in Seq(S) /\ \A x \in S : IsStep(x)  BY <2>1 DEF IsScript
      <4> DEFINE T == S \cup {s}
      <4>2. script # <<>> /\ \A x \in T : IsStep(x)  BY <2>1, <3>3, <4>1 DEF IsScript
      <4>3. script \in Seq(T) /\ <<s>> \in Seq(T)  BY <4>1, SeqMonotonic
      <4> HIDE DEF T
      <4>4. Tail(script) \in Seq(T) /\ Len(Tail(script)) = Len(script) - 1
        BY <4>2, <4>3, HeadTailProperties
      <4>5. /\ Len(<<s>>) = 1 /\ <<s>>[1] = s /\ Len(script) \in Nat \ {0}
            /\ \A i \in 1..(Len(script) - 1) : Tail(script)[i] = script[i + 1]
        BY <2>1, ScriptSteps
      <4>6. /\ script' \in Seq(T) /\ Len(script') = Len(<<s>>) + Len(Tail(script))
            /\ \A i \in 1..(Len(<<s>>) + Len(Tail(script))) :
                  script'[i] = IF i <= Len(<<s>>) THEN <<s>>[i] ELSE Tail(script)[i - Len(<<s>>)]
        BY <3>1, <4>3, <4>4, ConcatProperties
      <4>7. Len(script') = Len(script)  BY <4>4, <4>5, <4>6
      <4>8. script'[1] = s  BY <4>4, <4>5, <4>6
      <4>9. script' # <<>> /\ Head(script') = script'[1]  BY <4>5, <4>6, <4>7
      <4>10. ASSUME NEW i \in 2..Len(script) PROVE script'[i] = script[i]
        <5>1. i - 1 \in 1..(Len(script) - 1) /\ (i - 1) + 1 = i  BY <4>5
        <5>2. script'[i] = Tail(script)[i - 1]  BY <4>4, <4>5, <4>6
        <5> QED  BY <4>5, <5>1, <5>2
      <4>11. IsScript(script')  BY <4>2, <4>6, <4>9 DEF IsScript
      <4> QED  BY <4>7, <4>8, <4>9, <4>10, <4>11
    <3>5. Step = script[1] /\ Len(script) \in Nat \ {0}  BY <2>1, ScriptSteps
    <3>6. hasFile \/ ~Step.raises
      <4> SUFFICES ASSUME RaisesLate(script), Step.raises PROVE FALSE  BY <2>1
      <4>1. AcceptsConnection(script[1])  BY <1>4, <3>5 DEF Accepts, AcceptsConnection
      <4>2. 1 \in 1..Len(script)  BY <3>5
      <4>3. \E j \in 1..(1 - 1) : MakesFile(script[j])  BY <3>5, <4>1, <4>2 DEF RaisesLate
      <4> QED  BY <4>3
    <3>7. ASSUME RaisesLate(script), ~hasFile PROVE RaisesLate(script')
      <4> SUFFICES ASSUME NEW i \in 1..Len(script'), AcceptsConnection(script'[i]), script'[i].raises
                   PROVE  \E j \in 1..(i - 1) : MakesFile(script'[j])
        BY DEF RaisesLate
      <4>1. i # 1  BY <3>2, <3>4, <3>6, <3>7
      <4>2. i \in 1..Len(script) /\ i \in 2..Len(script)  BY <3>4, <3>5, <4>1
      <4>3. script'[i] = script[i]  BY <3>4, <4>2
      <4>4. PICK j \in 1..(i - 1) : MakesFile(script[j])  BY <3>7, <4>2, <4>3 DEF RaisesLate
      <4>5. j # 1  BY <2>6, <3>5, <4>4 DEF MakesFile
      <4>6. j \in 2..Len(script)  BY <3>5, <4>2, <4>4, <4>5
      <4>7. script'[j] = script[j]  BY <3>4, <4>6
      <4> QED  BY <4>4, <4>7
    <3>8. ScriptInv'  BY <2>1, <3>1, <3>4, <3>7 DEF ScriptInv
    <3>9. FileInv'
      <4>1. Step' = s  BY <3>4 DEF Step
      <4> QED  BY <2>1, <3>1, <3>2, <3>6, <4>1 DEF FileInv
    <3> QED  BY <2>3, <2>4, <3>1, <3>8, <3>9 DEF CaseTypes
  <2> QED  BY <2>5, <2>6
<1>5. CASE AcceptTimesOut
  BY <1>5 DEF AcceptTimesOut, Ends, CaseTypes, ScriptInv, FileInv
<1>6. CASE HandshakeEnds
  <2>1. outcome = "running" /\ Step.do = "handshake" /\ UNCHANGED <<conn, ended>>
        /\ IsScript(script) /\ (hasFile \/ RaisesLate(script)) /\ ended = "no"
    BY <1>6 DEF HandshakeEnds, ScriptInv
  <2>2. /\ Goes \/ Ends("failed")
        /\ hasFile' = TRUE \/ hasFile' = hasFile
        /\ hasFile' = hasFile => hasFile \/ Ends("failed") \/ Step.raises
    BY <1>6 DEF HandshakeEnds, Succeeds, Raises
  <2>3. /\ outcome' \in {"running", "passed", "failed"}
        /\ outcome' = "running" =>
             /\ IsScript(script')
             /\ RaisesLate(script) /\ ~MakesFile(Step) => RaisesLate(script')
    BY <2>1, <2>2, GoesOn
  <2>4. Step.raises => hasFile
    <3> SUFFICES ASSUME RaisesLate(script), Step.raises PROVE FALSE  BY <2>1
    <3>1. Step = script[1] /\ 1 \in 1..Len(script)  BY <2>1, ScriptSteps
    <3>2. AcceptsConnection(script[1])  BY <2>1, <3>1 DEF AcceptsConnection
    <3>3. \E j \in 1..(1 - 1) : MakesFile(script[j])  BY <3>1, <3>2 DEF RaisesLate
    <3> QED  BY <3>3
  <2>5. hasFile' = TRUE \/ Ends("failed")  BY <2>2, <2>4
  <2>6. ScriptInv' /\ FileInv'
    BY <2>1, <2>2, <2>3, <2>5 DEF ScriptInv, FileInv, Ends, MakesFile
  <2> QED  BY <1>6, <2>2, <2>3, <2>6 DEF HandshakeEnds, CaseTypes
<1>7. CASE Writes
  <2>1. /\ outcome = "running" /\ ~AcceptsConnection(Step) /\ UNCHANGED <<conn, hasFile, ended>>
        /\ Goes \/ Ends("failed")
    BY <1>7 DEF Writes, AcceptsConnection
  <2>2. outcome' \in {"running", "passed", "failed"} /\ ScriptInv' /\ FileInv'  BY <2>1, OtherStep
  <2> QED  BY <1>7, <2>2 DEF Writes, CaseTypes
<1>8. CASE ReadsMessage
  <2>1. /\ outcome = "running" /\ ~AcceptsConnection(Step) /\ UNCHANGED <<conn, hasFile, ended>>
        /\ Goes \/ Ends("passed") \/ Ends("failed") \/ UNCHANGED <<script, outcome>>
    BY <1>8 DEF ReadsMessage, Judges, Succeeds, AcceptsConnection
  <2>2. outcome' \in {"running", "passed", "failed"} /\ ScriptInv' /\ FileInv'  BY <2>1, OtherStep
  <2> QED  BY <1>8, <2>2 DEF ReadsMessage, CaseTypes
<1>9. CASE ReadMeetsEnd
  <2>1. /\ outcome = "running" /\ ~AcceptsConnection(Step) /\ UNCHANGED <<conn, hasFile, ended>>
        /\ Goes \/ Ends("failed")
    BY <1>9 DEF ReadMeetsEnd, Raises, AcceptsConnection
  <2>2. outcome' \in {"running", "passed", "failed"} /\ ScriptInv' /\ FileInv'  BY <2>1, OtherStep
  <2> QED  BY <1>9, <2>2 DEF ReadMeetsEnd, CaseTypes
<1>10. CASE BeginsNegotiation
  <2>1. /\ outcome = "running" /\ ~AcceptsConnection(Step) /\ UNCHANGED <<conn, hasFile, ended>>
        /\ Goes
    BY <1>10 DEF BeginsNegotiation, AcceptsConnection
  <2>2. outcome' \in {"running", "passed", "failed"} /\ ScriptInv' /\ FileInv'  BY <2>1, OtherStep
  <2> QED  BY <1>10, <2>2 DEF BeginsNegotiation, CaseTypes
<1>11. CASE Negotiates
  <2>1. /\ outcome = "running" /\ ~AcceptsConnection(Step) /\ UNCHANGED <<conn, hasFile, ended>>
        /\ Goes \/ Ends("passed") \/ Ends("failed") \/ UNCHANGED <<script, outcome>>
    BY <1>11 DEF Negotiates, Judges, Succeeds, AcceptsConnection
  <2>2. outcome' \in {"running", "passed", "failed"} /\ ScriptInv' /\ FileInv'  BY <2>1, OtherStep
  <2>3. acked' \subseteq {"sasl"}
    BY <1>1, <1>11, <2>1 DEF Negotiates, Grants, IsStep, CaseTypes
  <2> QED  BY <1>11, <2>2, <2>3 DEF Negotiates, CaseTypes
<1>12. CASE TearDown
  BY <1>12 DEF TearDown, CaseTypes, ScriptInv, FileInv
<1> QED
  BY <1>2, <1>3, <1>4, <1>5, <1>6, <1>7, <1>8, <1>9, <1>10, <1>11, <1>12 DEF TestMoves

LEMMA ClientMovesCaseInv ==
    ASSUME CaseInv, ClientMoves \/ ClientCrashes \/ UNCHANGED caseVars
    PROVE  CaseInv'
<1> USE DEF CaseInv, testSide, clientSide, process, lines
<1>1. UNCHANGED testSide
  BY DEF ClientMoves, ClientConnects, ClientShakes, ClientHandles, ClientCrashes, caseVars
<1>2. ScriptInv' /\ FileInv'  BY <1>1 DEF ScriptInv, FileInv, Step
<1>3. CASE ClientConnects
  <2>1. opened' = opened + 1 /\ opened' \in 1..MaxConnections /\ opened \in Nat
    BY <1>3, ClientCasesAssumption DEF ClientConnects, CaseTypes
  <2>2. backlog' \in [Sockets -> Seq(1..opened')]
    <3>1. ASSUME NEW sock \in Sockets
          PROVE  backlog[sock] \in Seq(1..opened') /\ Append(backlog[sock], opened') \in Seq(1..opened')
      <4>1. backlog[sock] \in Seq(1..opened) /\ 1..opened \subseteq 1..opened'
        BY <2>1 DEF CaseTypes
      <4>2. backlog[sock] \in Seq(1..opened')  BY <4>1, SeqMonotonic
      <4> QED  BY <2>1, <4>2
    <3>2. backlog' = [backlog EXCEPT ![Target] = Append(@, opened')] /\ DOMAIN backlog = Sockets
          /\ backlog = [sock \in Sockets |-> backlog[sock]]
      BY <1>3 DEF ClientConnects, CaseTypes
    <3> QED  BY <3>1, <3>2
  <2>3. link' \in [Connection -> Links]  BY <1>3 DEF ClientConnects, CaseTypes, Links
  <2>4. "conn" \in DOMAIN sut' /\ sut'.conn = opened'  BY <1>3 DEF ClientConnects, CaseTypes
  <2>5. conn' \in 0..opened'  BY <1>1, <2>1 DEF CaseTypes
  <2> QED  BY <1>1, <1>2, <1>3, <2>1, <2>2, <2>3, <2>4, <2>5 DEF ClientConnects, CaseTypes
<1>4. CASE ClientShakes
  <2>1. link' \in [Connection -> Links]
    <3>1. \/ link' = [link EXCEPT ![conn].tls = "shaken"]
          \/ link' = [link EXCEPT ![conn] = [state |-> "closed", tls |-> "refused"]]
          \/ link' = [link EXCEPT ![conn] = [state |-> "closed", tls |-> "shaken"]]
      BY <1>4 DEF ClientShakes
    <3>2. /\ \A n \in Connection : [link[n] EXCEPT !.tls = "shaken"] \in Links
          /\ [state |-> "closed", tls |-> "refused"] \in Links
          /\ [state |-> "closed", tls |-> "shaken"] \in Links
      BY DEF CaseTypes, Links
    <3>3. link \in [Connection -> Links]  BY DEF CaseTypes
    <3> QED  BY <3>1, <3>2, <3>3
  <2>2. "conn" \in DOMAIN sut' /\ sut'.conn \in 0..opened  BY <1>4 DEF ClientShakes, CaseTypes
  <2> QED  BY <1>1, <1>2, <1>4, <2>1, <2>2 DEF ClientShakes, CaseTypes
<1>5. CASE ClientHandles
  <2>1. link' \in [Connection -> Links]
    <3>1. link' = link \/ link' = [link EXCEPT ![sut.conn].state = "closed"]
      BY <1>5 DEF ClientHandles
    <3>2. \A n \in Connection : [link[n] EXCEPT !.state = "closed"] \in Links
      BY DEF CaseTypes, Links
    <3>3. link \in [Connection -> Links]  BY DEF CaseTypes
    <3> QED  BY <3>1, <3>2, <3>3
  <2>2. "conn" \in DOMAIN sut' /\ sut'.conn \in 0..opened  BY <1>5 DEF ClientHandles, CaseTypes
  <2> QED  BY <1>1, <1>2, <1>5, <2>1, <2>2 DEF ClientHandles, CaseTypes
<1>6. CASE ClientCrashes
  <2>1. link' \in [Connection -> Links]
    BY <1>6 DEF ClientCrashes, CaseTypes, Links
  <2>2. "conn" \in DOMAIN sut' /\ sut'.conn \in 0..opened  BY <1>6 DEF ClientCrashes, CaseTypes
  <2>3. clientCrashes' \in 0..MaxClientCrashes
    BY <1>6, ClientCasesAssumption DEF ClientCrashes, CaseTypes
  <2> QED  BY <1>1, <1>2, <1>6, <2>1, <2>2, <2>3 DEF ClientCrashes, CaseTypes
<1>7. CASE UNCHANGED caseVars
  BY <1>1, <1>2, <1>7 DEF caseVars, CaseTypes
<1> QED  BY <1>3, <1>4, <1>5, <1>6, <1>7 DEF ClientMoves

LEMMA SpecCaseInv == SpecClientCases => []CaseInv
<1>1. CaseInv /\ [NextClientCases]_caseVars => CaseInv'
  BY TestMovesCaseInv, ClientMovesCaseInv DEF NextClientCases
<1> QED  BY <1>1, InitCaseInv, PTL DEF SpecClientCases

\* Types, for any client, and any number of connections and crashes.
THEOREM CaseTypeCorrect == SpecClientCases => []TypeOKClientCases
<1>1. CaseInv => TypeOKClientCases
  <2> SUFFICES ASSUME CaseInv PROVE TypeOKClientCases  OBVIOUS
  <2>1. clientTest \in 0..Len(ClientTests)  BY DEF CaseInv, CaseTypes, ClientTests
  <2>2. \A n \in Connection : link[n].state \in {"open", "closed"}  BY DEF CaseInv, CaseTypes, Links
  <2>3. ASSUME NEW sock \in Sockets, NEW i \in DOMAIN backlog[sock]
        PROVE  backlog[sock][i] \in 1..opened
    <3>1. backlog[sock] \in Seq(1..opened)  BY DEF CaseInv, CaseTypes
    <3>2. i \in 1..Len(backlog[sock])  BY <3>1
    <3> QED  BY <3>1, <3>2, ElementOfSeq
  <2> QED  BY <2>1, <2>2, <2>3 DEF CaseInv, CaseTypes, TypeOKClientCases
<1> QED  BY <1>1, SpecCaseInv, PTL

\* Whatever a client does, tearDown() after a test that passed closes what the
\* test had accepted, and raises nothing.
THEOREM PassedTestIsTornDown == SpecClientCases => []PassedIsTornDown
<1>1. CaseInv => PassedIsTornDown  BY DEF CaseInv, FileInv, PassedIsTornDown
<1> QED  BY <1>1, SpecCaseInv, PTL

-----------------------------------------------------------------------------
(* The waits of the client tests. *)

\* A running test has a connection, or comes to its first accept(); one that
\* ended has nothing left.  The only open connection is that of a client that
\* is alive.
WaitInv ==
    /\ outcome # "running" => script = <<>>
    /\ outcome = "running" =>
         /\ conn # 0 \/ Opens(script) \/ Step.do = "accept"
         /\ \A n \in Connection : link[n].state = "open" => n = sut.conn
         /\ sut.conn # 0 => Alive

LEMMA InitWaitInv == InitClientCases => WaitInv
<1> SUFFICES ASSUME InitClientCases PROVE WaitInv  OBVIOUS
<1>1. script = ClientTests[clientTest].steps /\ clientTest \in DOMAIN ClientTests
      /\ outcome = "running" /\ sut.conn = 0
  BY DEF InitClientCases
<1>2. Opens(script)  BY <1>1, ClientTestScripts
<1>3. \A n \in Connection : link[n].state = "closed"  BY DEF InitClientCases, NothingOpen
<1> QED  BY <1>1, <1>2, <1>3 DEF WaitInv

\* What a step of a running test leaves.
LEMMA WhatIsLeft ==
    ASSUME CaseInv, WaitInv, outcome = "running",
           Goes \/ Ends("passed") \/ Ends("failed") \/ UNCHANGED <<script, outcome>>
    PROVE  /\ outcome' # "running" => script' = <<>>
           /\ Goes /\ Opens(script) => outcome' = "running" /\ Step'.do = "accept"
<1>1. IsScript(script)  BY DEF CaseInv, ScriptInv
<1>2. outcome' # "running" => script' = <<>>  BY DEF Goes, Ends
<1>3. ASSUME Goes, Opens(script) PROVE outcome' = "running" /\ Step'.do = "accept"
  <2> DEFINE l == Len(script)
  <2>1. /\ Len(Tail(script)) = l - 1 /\ l \in Nat
        /\ \A i \in 1..(l - 1) : Tail(script)[i] = script[i + 1]
    BY <1>1, ScriptSteps
  <2>2. l >= 2 /\ script[2].do = "accept"  BY <1>3 DEF Opens
  <2> HIDE DEF l
  <2>3. Tail(script) # <<>>
    <3>1. l - 1 # 0  BY <2>1, <2>2
    <3>2. Len(<<>>) = 0  OBVIOUS
    <3> QED  BY <2>1, <3>1, <3>2, Zenon
  <2>4. 1 \in 1..(l - 1) /\ 1 + 1 = 2  BY <2>1, <2>2
  <2>5. Tail(script)[1] = script[2]  BY <2>1, <2>4
  <2>6. script' = Tail(script) /\ outcome' = "running"  BY <1>3, <2>3 DEF Goes
  <2>7. Head(Tail(script)) = Tail(script)[1]
    <3>1. IsScript(Tail(script))  BY <1>1, <2>3, ScriptSteps
    <3> QED  BY <3>1 DEF IsScript
  <2> QED  BY <2>2, <2>5, <2>6, <2>7 DEF Step
<1> QED  BY <1>2, <1>3

LEMMA TestMovesWaitInv == ASSUME CaseInv, WaitInv, TestMoves PROVE WaitInv'
<1> USE DEF testSide, clientSide, process, lines
<1>1. ASSUME outcome = "running", Step.do \notin {"run", "accept"}
      PROVE  conn # 0
  BY <1>1, ScriptSteps DEF CaseInv, WaitInv, Opens, ScriptInv
<1>2. ASSUME sut.conn = 0, outcome = "running", NEW n \in Connection
      PROVE  link[n].state # "open"
  BY <1>2 DEF WaitInv, Connection
<1>3. CASE RunsClient
  <2>1. outcome = "running" /\ (Goes \/ Ends("failed")) /\ UNCHANGED <<conn, link>>
    BY <1>3 DEF RunsClient, At
  <2>2. CASE proc = "none"
    <3>1. Goes /\ proc' = "running" /\ Step.do = "run"  BY <1>3, <2>2 DEF RunsClient, At
    <3>2. sut'.conn = 0  BY <1>3, <2>2 DEF RunsClient, CaseInv, CaseTypes
    <3>3. sut.conn = 0  BY <2>1, <2>2 DEF WaitInv, Alive
    <3>4. conn # 0 \/ Opens(script)  BY <2>1, <3>1 DEF WaitInv
    <3> QED  BY <1>2, <2>1, <3>1, <3>2, <3>3, <3>4, WhatIsLeft DEF WaitInv, Alive
  <2>3. CASE proc # "none"
    <3>1. Ends("failed")  BY <1>3, <2>3 DEF RunsClient
    <3> QED  BY <3>1 DEF WaitInv, Ends
  <2> QED  BY <2>2, <2>3
<1>4. CASE TerminatesClient
  <2>1. outcome = "running" /\ Goes /\ conn' = conn /\ Step.do = "terminate"
    BY <1>4 DEF TerminatesClient, At
  <2>2. conn' # 0  BY <1>1, <2>1
  <2>3. sut'.conn = 0  BY <1>4 DEF TerminatesClient, CaseInv, CaseTypes
  <2>4. ASSUME NEW n \in Connection PROVE link'[n].state # "open"
    <3>1. link \in [Connection -> Links]  BY DEF CaseInv, CaseTypes
    <3>2. CASE sut.conn = 0
      BY <1>2, <1>4, <2>1, <3>2 DEF TerminatesClient
    <3>3. CASE sut.conn # 0
      <4>1. link' = [link EXCEPT ![sut.conn].state = "closed"]  BY <1>4, <3>3 DEF TerminatesClient
      <4>2. n # sut.conn => link'[n] = link[n]  BY <3>1, <4>1
      <4>3. n = sut.conn => link'[n].state = "closed"  BY <3>1, <4>1 DEF Links
      <4> QED  BY <2>1, <4>2, <4>3 DEF WaitInv
    <3> QED  BY <3>2, <3>3
  <2> QED  BY <2>1, <2>2, <2>3, <2>4, WhatIsLeft DEF WaitInv
<1>5. CASE Accepts
  <2>1. outcome = "running" /\ IsStep(Step)
    BY <1>5, ScriptSteps DEF Accepts, At, CaseInv, ScriptInv
  <2>2. backlog[Step.sock] \in Seq(1..opened) /\ backlog[Step.sock] # <<>>
    BY <1>5, <2>1 DEF Accepts, IsStep, CaseInv, CaseTypes
  <2>3. conn' # 0
    <3>1. Head(backlog[Step.sock]) \in 1..opened  BY <2>2, HeadTailProperties
    <3>2. opened \in Nat  BY ClientCasesAssumption DEF CaseInv, CaseTypes
    <3>3. conn' \in 1..opened  BY <1>5, <3>1 DEF Accepts
    <3> QED  BY <3>2, <3>3
  <2>4. outcome' # "running" => script' = <<>>
    BY <1>5, <2>1 DEF Accepts, Goes, Ends
  <2> QED  BY <1>5, <2>1, <2>3, <2>4 DEF Accepts, WaitInv, Alive
<1>6. CASE AcceptTimesOut \/ HandshakeEnds \/ Writes \/ ReadsMessage \/ ReadMeetsEnd
           \/ BeginsNegotiation \/ Negotiates
  <2>1. /\ outcome = "running" /\ UNCHANGED <<conn, link, sut, proc>>
        /\ Step.do \in {"run", "accept"} => Ends("failed")
        /\ Goes \/ Ends("passed") \/ Ends("failed") \/ UNCHANGED <<script, outcome>>
    <3>1. CASE AcceptTimesOut  BY <3>1 DEF AcceptTimesOut, At
    <3>2. CASE HandshakeEnds  BY <3>2 DEF HandshakeEnds, At, Succeeds, Raises
    <3>3. CASE Writes  BY <3>3 DEF Writes, At
    <3>4. CASE ReadsMessage  BY <3>4 DEF ReadsMessage, At, Judges, Succeeds
    <3>5. CASE ReadMeetsEnd  BY <3>5 DEF ReadMeetsEnd, At, Raises
    <3>6. CASE BeginsNegotiation  BY <3>6 DEF BeginsNegotiation, At
    <3>7. CASE Negotiates  BY <3>7 DEF Negotiates, At, Judges, Succeeds
    <3> QED  BY <1>6, <3>1, <3>2, <3>3, <3>4, <3>5, <3>6, <3>7
  <2>2. outcome' # "running" => script' = <<>>  BY <2>1, WhatIsLeft
  <2>3. CASE Step.do \in {"run", "accept"}
    BY <2>1, <2>3 DEF WaitInv, Ends
  <2>4. CASE Step.do \notin {"run", "accept"}
    BY <1>1, <2>1, <2>2, <2>4 DEF WaitInv, Alive
  <2> QED  BY <2>3, <2>4
<1>7. CASE TearDown
  BY <1>7 DEF TearDown, WaitInv
<1> QED  BY <1>3, <1>4, <1>5, <1>6, <1>7 DEF TestMoves

LEMMA ClientMovesWaitInv ==
    ASSUME CaseInv, WaitInv, ClientMoves \/ ClientCrashes \/ UNCHANGED caseVars
    PROVE  WaitInv'
<1> USE DEF testSide, clientSide, process, lines
<1>1. UNCHANGED <<outcome, script, conn>>
  BY DEF ClientMoves, ClientConnects, ClientShakes, ClientHandles, ClientCrashes, caseVars
<1>2. Step' = Step /\ Opens(script)' = Opens(script)  BY <1>1 DEF Step, Opens
<1>3. /\ link \in [Connection -> Links] /\ "conn" \in DOMAIN sut /\ sut.conn \in 0..opened
      /\ opened \in 0..MaxConnections
  BY DEF CaseInv, CaseTypes
<1> DEFINE Rest == outcome = "running" =>
                     /\ \A n \in Connection : link'[n].state = "open" => n = sut'.conn
                     /\ sut'.conn # 0 => proc' = "running"
<1>4. Rest => WaitInv'  BY <1>1, <1>2 DEF WaitInv, Alive
<1>5. CASE ClientConnects
  <2>1. opened' = opened + 1 /\ sut'.conn = opened' /\ outcome = "running" /\ sut.conn = 0
        /\ proc' = "running"
    BY <1>3, <1>5 DEF ClientConnects, Alive
  <2>2. ASSUME NEW n \in Connection, link'[n].state = "open" PROVE n = sut'.conn
    <3>1. n # opened' => link'[n] = link[n]  BY <1>3, <1>5 DEF ClientConnects
    <3>2. n # 0  BY DEF Connection
    <3> QED  BY <2>1, <2>2, <3>1, <3>2 DEF WaitInv
  <2> QED  BY <1>4, <2>1, <2>2
<1>6. CASE ClientShakes
  <2>1. conn = sut.conn /\ outcome = "running" /\ proc' = proc  BY <1>6 DEF ClientShakes, At
  <2>2. ASSUME NEW n \in Connection, n # conn PROVE link'[n] = link[n]
    BY <1>3, <1>6, <2>2 DEF ClientShakes
  <2>3. \/ sut' = sut
        \/ sut'.conn = 0 /\ (conn \in Connection => link'[conn].state = "closed")
    BY <1>3, <1>6 DEF ClientShakes
  <2> QED  BY <1>4, <2>1, <2>2, <2>3 DEF WaitInv, Alive
<1>7. CASE ClientHandles
  <2>1. outcome = "running" /\ proc' = proc  BY <1>7 DEF ClientHandles
  <2>2. \/ link' = link /\ sut'.conn = sut.conn
        \/ link' = [link EXCEPT ![sut.conn].state = "closed"] /\ sut'.conn = 0
    BY <1>3, <1>7 DEF ClientHandles
  <2>3. ASSUME NEW n \in Connection, link' = [link EXCEPT ![sut.conn].state = "closed"]
        PROVE  (n # sut.conn => link'[n] = link[n]) /\ (n = sut.conn => link'[n].state = "closed")
    BY <1>3, <2>3 DEF Links
  <2> QED  BY <1>4, <2>1, <2>2, <2>3 DEF WaitInv, Alive
<1>8. CASE ClientCrashes
  <2>1. outcome = "running" /\ sut'.conn = 0  BY <1>3, <1>8 DEF ClientCrashes
  <2>2. \/ link' = link /\ sut.conn = 0
        \/ link' = [link EXCEPT ![sut.conn].state = "closed"]
    BY <1>8 DEF ClientCrashes
  <2>3. ASSUME NEW n \in Connection, link' = [link EXCEPT ![sut.conn].state = "closed"]
        PROVE  (n # sut.conn => link'[n] = link[n]) /\ (n = sut.conn => link'[n].state = "closed")
    BY <1>3, <2>3 DEF Links
  <2>4. \A n \in Connection : n # 0  BY DEF Connection
  <2> QED  BY <1>4, <2>1, <2>2, <2>3, <2>4 DEF WaitInv, Alive
<1>9. CASE UNCHANGED caseVars
  BY <1>9, <1>4 DEF caseVars, WaitInv, Alive
<1> QED  BY <1>5, <1>6, <1>7, <1>8, <1>9 DEF ClientMoves

LEMMA SpecWaitInv == SpecClientCases => [](CaseInv /\ WaitInv)
<1>1. CaseInv /\ WaitInv /\ [NextClientCases]_caseVars => WaitInv'
  BY TestMovesWaitInv, ClientMovesWaitInv DEF NextClientCases
<1> QED  BY <1>1, InitWaitInv, SpecCaseInv, PTL DEF SpecClientCases

\* The test has a step to take: the guards of its actions.
CanGoOn ==
    \/ outcome # "running"
    \/ \E do \in {"run", "terminate", "write", "begin"} : At(do)
    \/ At("accept") /\ (backlog[Step.sock] # <<>> \/ (Checked(Step.sock) /\ ~Alive))
    \/ At("handshake") /\ (link[conn].tls # "hello" \/ link[conn].state = "closed")
    \/ (At("read") \/ At("negotiate")) /\ (toTest[conn] # <<>> \/ link[conn].state = "closed")

\* The client the test is connected to is alive, and has not closed.
ClientIsThere == conn # 0 /\ conn = sut.conn /\ link[conn].state = "open" /\ Alive

\* A test that has not ended can go on, or waits for a client that is there,
\* or for a connection: of a client that is alive, or on the insecure socket,
\* for which acceptClient() does not look whether the client is alive.  A
\* handshake and getMessage() meet the end of a connection.
WaitsForLivingClient ==
    ended = "no" =>
        CanGoOn \/ ClientIsThere \/ (At("accept") /\ (Alive \/ Step.sock = "insecure"))

\* The test never waits for a client that is gone, but for a connection to the
\* insecure socket.  Fairness apart, this is what ClientTestEnds asks.
THEOREM TestsWaitForClients == SpecClientCases => []WaitsForLivingClient
<1>1. ASSUME CaseInv, WaitInv PROVE WaitsForLivingClient
  <2> SUFFICES ASSUME outcome = "running" PROVE WaitsForLivingClient
    BY DEF WaitsForLivingClient, CanGoOn
  <2>1. IsStep(Step)  BY <1>1, ScriptSteps DEF CaseInv, ScriptInv
  <2>2. CASE Step.do \in {"run", "terminate", "write", "begin"}
    BY <2>2 DEF WaitsForLivingClient, CanGoOn, At
  <2>3. CASE Step.do = "accept"
    BY <2>1, <2>3 DEF WaitsForLivingClient, CanGoOn, At, Checked, IsStep, Sockets
  <2>4. CASE Step.do \in {"handshake", "read", "negotiate"}
    <3>1. conn # 0
      BY <1>1, <2>4, ScriptSteps DEF CaseInv, WaitInv, Opens, ScriptInv
    <3>2. conn \in Connection /\ link[conn].state \in {"open", "closed"}
      <4>1. conn \in 0..opened /\ opened \in 0..MaxConnections /\ link \in [Connection -> Links]
        BY <1>1 DEF CaseInv, CaseTypes
      <4>2. conn \in Connection  BY <3>1, <4>1, ClientCasesAssumption DEF Connection
      <4> QED  BY <4>1, <4>2 DEF Links
    <3>3. CASE link[conn].state = "closed"
      BY <2>4, <3>3 DEF WaitsForLivingClient, CanGoOn, At
    <3>4. CASE link[conn].state = "open"
      BY <1>1, <3>1, <3>2, <3>4 DEF WaitsForLivingClient, ClientIsThere, WaitInv
    <3> QED  BY <3>2, <3>3, <3>4
  <2> QED  BY <2>1, <2>2, <2>3, <2>4 DEF IsStep, StepKinds
<1> QED  BY <1>1, SpecWaitInv, PTL

\* The steps left: two for each of the script, of which the handshake of an
\* accept() is one, and tearDown().
StepsLeft(left, end) ==
    2 * Len(left) + (IF end = "no" THEN 1 ELSE 0)
    - (IF left # <<>> /\ Head(left).do = "handshake" THEN 1 ELSE 0)

TakesALine ==
    toTest[conn] # <<>> /\ toTest' = [toTest EXCEPT ![conn] = Tail(@)] /\ UNCHANGED conn

\* A step of the test leaves fewer of them, or takes a line of the client's
\* (in the loop of negotiateCapabilities(), or a PING); the client leaves them
\* alone, and does nothing when it is gone.
TestShrinks ==
    /\ TestMoves => \/ StepsLeft(script', ended') < StepsLeft(script, ended)
                    \/ TakesALine /\ UNCHANGED <<script, outcome, ended>>
    /\ ~TestMoves => UNCHANGED <<script, outcome, ended>>
    /\ ~Alive => ~ClientMoves

LEMMA StepsAreCounted ==
    ASSUME NEW q, NEW r, NEW S, NEW T, q \in Seq(S), r \in Seq(T), q # <<>>,
           Len(r) < Len(q) \/ (Len(r) = Len(q) /\ Head(q).do # "handshake" /\ Head(r).do = "handshake")
    PROVE  StepsLeft(r, "no") < StepsLeft(q, "no")
<1>1. Len(q) \in Nat \ {0} /\ Len(r) \in Nat  OBVIOUS
<1>2. Len(r) = Len(q) => r # <<>>  BY <1>1
<1> QED  BY <1>1, <1>2 DEF StepsLeft

\* A test takes no more steps than its script has, and the lines it is sent:
\* it ends unless it waits, or its client talks for ever.
THEOREM TestsAreShort == SpecClientCases => [][TestShrinks]_caseVars
<1> USE DEF testSide, clientSide, process, lines
<1>1. ASSUME CaseInv, WaitInv, [NextClientCases]_caseVars PROVE [TestShrinks]_caseVars
  <2> SUFFICES ASSUME NextClientCases PROVE TestShrinks  BY <1>1
  <2>1. ~Alive => ~ClientMoves
    <3>1. ClientConnects => Alive  BY DEF ClientConnects
    <3>2. ClientHandles => Alive  BY <1>1 DEF ClientHandles, WaitInv
    <3>3. ASSUME ClientShakes PROVE Alive
      <4>1. outcome = "running" /\ Step.do = "handshake" /\ conn = sut.conn
        BY <3>3 DEF ClientShakes, At
      <4>2. conn # 0  BY <1>1, <4>1, ScriptSteps DEF CaseInv, WaitInv, Opens, ScriptInv
      <4> QED  BY <1>1, <4>1, <4>2 DEF WaitInv
    <3> QED  BY <3>1, <3>2, <3>3 DEF ClientMoves
  <2>2. ~TestMoves => UNCHANGED <<script, outcome, ended>>
    BY DEF NextClientCases, ClientMoves, ClientConnects, ClientShakes, ClientHandles, ClientCrashes
  <2>3. ASSUME TestMoves
        PROVE  \/ StepsLeft(script', ended') < StepsLeft(script, ended)
               \/ TakesALine /\ UNCHANGED <<script, outcome, ended>>
    <3>1. CASE TearDown
      <4>1. script' = script /\ script = <<>> /\ ended = "no" /\ ended' # "no"
        BY <1>1, <3>1 DEF TearDown, WaitInv
      <4> QED  BY <4>1 DEF StepsLeft
    <3>2. CASE ~TearDown
      <4>1. outcome = "running" /\ ended' = ended
        BY <2>3, <3>2 DEF TestMoves, At, RunsClient, TerminatesClient, Accepts, AcceptTimesOut,
           HandshakeEnds, Writes, ReadsMessage, ReadMeetsEnd, BeginsNegotiation, Negotiates
      <4>2. IsScript(script) /\ ended = "no"  BY <1>1, <4>1 DEF CaseInv, ScriptInv
      <4>3. PICK S : script \in Seq(S) /\ script # <<>>  BY <4>2 DEF IsScript
      <4>4. ASSUME Goes \/ Ends("passed") \/ Ends("failed")
            PROVE  StepsLeft(script', ended') < StepsLeft(script, ended)
        <5>1. script' \in Seq(S) /\ Len(script') < Len(script)
          <6>1. <<>> \in Seq(S) /\ Len(<<>>) < Len(script)  BY <4>3
          <6>2. Tail(script) \in Seq(S) /\ Len(Tail(script)) < Len(script)
            BY <4>3, HeadTailProperties
          <6> QED  BY <4>4, <6>1, <6>2 DEF Goes, Ends
        <5> QED  BY <4>1, <4>2, <4>3, <5>1, StepsAreCounted
      <4>5. CASE RunsClient \/ TerminatesClient \/ AcceptTimesOut \/ HandshakeEnds \/ Writes
                 \/ ReadMeetsEnd \/ BeginsNegotiation
        <5>1. Goes \/ Ends("failed")
          BY <4>5 DEF RunsClient, TerminatesClient, AcceptTimesOut, HandshakeEnds, Writes,
             ReadMeetsEnd, BeginsNegotiation, Succeeds, Raises
        <5> QED  BY <4>4, <5>1
      <4>6. CASE Accepts
        <5>1. CASE Step.cert = ""
          <6>1. Goes  BY <4>6, <5>1 DEF Accepts
          <6> QED  BY <4>4, <6>1
        <5>2. CASE Step.cert # ""
          <6> DEFINE s == [Step EXCEPT !.do = "handshake"]
          <6>1. script' = <<s>> \o Tail(script) /\ Step.do = "accept"
            BY <4>6, <5>2 DEF Accepts, At
          <6>2. s.do = "handshake"  BY <4>2, ScriptSteps DEF IsStep
          <6> HIDE DEF s
          <6> DEFINE T == S \cup {s}
          <6>3. script \in Seq(T) /\ <<s>> \in Seq(T)  BY <4>3, SeqMonotonic
          <6> HIDE DEF T
          <6>4. Tail(script) \in Seq(T) /\ Len(Tail(script)) = Len(script) - 1
            BY <4>3, <6>3, HeadTailProperties
          <6>5. /\ script' \in Seq(T) /\ Len(script') = Len(<<s>>) + Len(Tail(script))
                /\ \A i \in 1..(Len(<<s>>) + Len(Tail(script))) :
                      script'[i] = IF i <= Len(<<s>>) THEN <<s>>[i] ELSE Tail(script)[i - Len(<<s>>)]
            BY <6>1, <6>3, <6>4, ConcatProperties
          <6>6. Len(<<s>>) = 1 /\ <<s>>[1] = s /\ Len(script) \in Nat  BY <4>3
          <6>7. Len(script') = Len(script) /\ script'[1] = s  BY <6>4, <6>5, <6>6
          <6>8. script' # <<>> /\ Head(script') = script'[1]  BY <4>3, <6>5, <6>7
          <6> QED  BY <4>1, <4>2, <4>3, <6>1, <6>2, <6>5, <6>7, <6>8, StepsAreCounted DEF Step
        <5> QED  BY <5>1, <5>2
      <4>7. CASE ReadsMessage \/ Negotiates
        <5>1. \/ Goes \/ Ends("passed") \/ Ends("failed")
              \/ UNCHANGED <<script, outcome>>
          BY <4>7 DEF ReadsMessage, Negotiates, Judges, Succeeds
        <5>2. TakesALine  BY <4>7 DEF ReadsMessage, Negotiates, Reading, TakesALine
        <5> QED  BY <4>1, <4>4, <5>1, <5>2
      <4> QED  BY <2>3, <3>2, <4>5, <4>6, <4>7 DEF TestMoves
    <3> QED  BY <3>1, <3>2
  <2> QED  BY <2>1, <2>2, <2>3 DEF TestShrinks
<1> QED  BY <1>1, SpecWaitInv, PTL DEF SpecClientCases

=============================================================================
