------------------------------ MODULE TestClients ------------------------------
(***************************************************************************)
(* The dict of clients of a BaseServerTestCase (irctest/cases.py): names   *)
(* given by the test or chosen by addClient(), connectClient() and its     *)
(* @retry, removeClient(), assertDisconnected().  Of a connection, only    *)
(* whether the server closed it is kept.                                   *)
(***************************************************************************)
EXTENDS Naturals, FiniteSets, FiniteSetsExt, Sequences

CONSTANTS Words,        \* client names that are not numbers
          GivenNumbers, \* the numbers a test may give as names
          None,         \* no name
          TestDoes,     \* what the test does to its clients
          Flaky,        \* the server may close a connection that registers
          MaxSteps      \* bound: addClient() and connectClient() calls

ASSUME TestClientsAssumption ==
    /\ TestDoes \subseteq {"add", "connect", "remove", "assert"}
    /\ Flaky \in BOOLEAN
    /\ MaxSteps \in Nat
    /\ GivenNumbers \subseteq Nat \ {0} /\ IsFiniteSet(GivenNumbers)
    /\ (Words \cup {None}) \cap Nat = {} /\ None \notin Words

VARIABLES clients,     \* self.clients, from names to "up" or "closed"
          registering, \* the running connectClient(), or NoCall
          result,      \* how the last call ended
          added,       \* history: the last name addClient() used, and if it chose it
          connected,   \* history: clients of connectClient() without a name
          steps

vars == <<clients, registering, result, added, connected, steps>>

NoCall == [attempt |-> 0, given |-> None, client |-> None]
\* How a connection that does not work ends a call, and what else does.
NoConnection == {"ConnectionClosed", "ConnectionResetError", "ConnectionRefusedError"}
Exceptions == NoConnection \cup {"AssertionError", "ValueError"}
Names == Words \cup 1..(2 * MaxSteps + Max(GivenNumbers \cup {0}))

TypeOK ==
    /\ DOMAIN clients \subseteq Names
    /\ \A n \in DOMAIN clients : clients[n] \in {"up", "closed"}
    /\ registering.attempt \in 0..2
    /\ {registering.given, registering.client, added.name} \subseteq Names \cup {None}
    /\ added.chosen \in BOOLEAN /\ added.count \in 0..(2 * MaxSteps)
    /\ result \in {"none", "returned"} \cup Exceptions
    /\ connected \in Seq(Names)
    /\ steps \in 0..MaxSteps

Init ==
    /\ clients = [n \in {} |-> "up"]
    /\ registering = NoCall
    /\ result = "none"
    /\ added = [name |-> None, chosen |-> FALSE, count |-> 0]
    /\ connected = <<>> /\ steps = 0

Idle == registering = NoCall

WithClient(n, state) == [m \in DOMAIN clients \cup {n} |-> IF m = n THEN state ELSE clients[m]]
WithoutClient(n) == [m \in DOMAIN clients \ {n} |-> clients[m]]

-----------------------------------------------------------------------------
(* addClient *)

\* Faulty variant: the name is the number of clients, plus one.
CountPlusOne == Cardinality(DOMAIN clients) + 1

\* Faulty variant: the largest name in use is not incremented.
MaxNotNext == Max((DOMAIN clients \ Words) \cup {0})

\* max(used_ids + [0]) + 1
NewName == Max((DOMAIN clients \ Words) \cup {0}) + 1

\* int(name) raises on a name that is not a number.
CannotNumber == DOMAIN clients \cap Words # {}

\* addClient(given); an entry of the same name is replaced.  When connect() is
\* refused the entry stays: to the model, a connection that is closed at once.
Adds(given) ==
    LET n == IF given = None THEN NewName ELSE given
    IN  /\ clients' = WithClient(n, "up")
        /\ added' = [name |-> n, chosen |-> given = None, count |-> added.count + 1]

AddRaises(given) ==
    /\ given = None /\ CannotNumber
    /\ result' = "ValueError"
    /\ registering' = NoCall
    /\ UNCHANGED <<clients, added, connected>>

\* The name argument: none, a word, or a number.
Given == {None} \cup Words \cup GivenNumbers

AddClient ==
    /\ "add" \in TestDoes
    /\ Idle /\ steps < MaxSteps /\ steps' = steps + 1
    /\ \E given \in Given :
          \/ AddRaises(given)
          \/ /\ ~(given = None /\ CannotNumber)
             /\ Adds(given)
             /\ result' = "returned"
             /\ UNCHANGED <<registering, connected>>

-----------------------------------------------------------------------------
(* connectClient: addClient(), then registration; tried at most twice. *)

Attempt(number, given) ==
    /\ ~(given = None /\ CannotNumber)
    /\ Adds(given)
    /\ registering' = [attempt |-> number, given |-> given, client |-> added'.name]
    /\ result' = "none"
    /\ UNCHANGED connected

ConnectClient ==
    /\ "connect" \in TestDoes
    /\ Idle /\ steps < MaxSteps /\ steps' = steps + 1
    /\ \E given \in Given : AddRaises(given) \/ Attempt(1, given)

Registered ==
    /\ ~Idle
    /\ clients[registering.client] = "up"
    /\ registering' = NoCall
    /\ result' = "returned"
    /\ connected' = IF registering.given = None
                    THEN Append(connected, registering.client) ELSE connected
    /\ UNCHANGED <<clients, added, steps>>

\* @retry calls connectClient() a second time, with the same arguments, and
\* only for ConnectionClosed.
MayRetry(exception) == exception = "ConnectionClosed" /\ registering.attempt = 1

\* The socket was refused or closed, or recv() met the end of the connection; or,
\* whatever the connection, an assertion of connectClient() failed, a capability
\* was refused, or ValueError was raised over a password or a token of 005.  The
\* client stays in the dict.
RegistrationFails ==
    /\ ~Idle
    /\ \E exception \in Exceptions :
          /\ exception \in NoConnection => clients[registering.client] = "closed"
          /\ \/ /\ MayRetry(exception)
                /\ \/ AddRaises(registering.given)
                   \/ Attempt(2, registering.given)
             \/ /\ ~MayRetry(exception)
                /\ registering' = NoCall /\ result' = exception
                /\ UNCHANGED <<clients, added, connected>>
    /\ UNCHANGED steps

-----------------------------------------------------------------------------

ServerCloses ==
    /\ \E n \in DOMAIN clients :
          /\ clients[n] = "up"
          /\ Flaky \/ n # registering.client
          /\ clients' = WithClient(n, "closed")
    /\ UNCHANGED <<registering, result, added, connected, steps>>

RemoveClient ==
    /\ "remove" \in TestDoes /\ Idle
    /\ \E n \in DOMAIN clients : clients' = WithoutClient(n)
    /\ result' = "returned"
    /\ UNCHANGED <<registering, added, connected, steps>>

AssertDisconnected ==
    /\ "assert" \in TestDoes /\ Idle
    /\ \E n \in DOMAIN clients :
          \/ /\ clients[n] = "closed"
             /\ clients' = WithoutClient(n) /\ result' = "returned"
          \/ /\ clients[n] = "up"
             /\ result' = "AssertionError" /\ UNCHANGED clients
    /\ UNCHANGED <<registering, added, connected, steps>>

Next ==
    \/ AddClient \/ ConnectClient \/ Registered \/ RegistrationFails
    \/ ServerCloses \/ RemoveClient \/ AssertDisconnected

Spec == Init /\ [][Next]_vars

-----------------------------------------------------------------------------
(* Properties *)

\* A client the test did not name never takes the place of another one,
\* whatever was removed, disconnected, retried or numbered before: `clients`
\* keeps the clients the test still talks to.
AutoNameIsFresh ==
    [][ added'.chosen /\ added'.count # added.count
        => added'.name \notin DOMAIN clients ]_vars

\* Tests call the client of their n-th connectClient() n, from 1 on.  They may, as
\* long as no attempt failed: every client there ever was is one that a call
\* connected, and none is gone.  The docstring of addClient() says otherwise, "the
\* lowest unused non-negative integer": that would be 0 for the first client, and
\* every such test would be wrong.
NumberedByCalls ==
    (added.count = Len(connected) /\ Cardinality(DOMAIN clients) = Len(connected))
    => \A n \in 1..Len(connected) : connected[n] = n

=============================================================================
