----------------------------- MODULE Disconnection -----------------------------
(***************************************************************************)
(* assertDisconnected() of BaseServerTestCase (irctest/cases.py) on top of *)
(* a ClientMock: a test sends what should make the server close the        *)
(* connection, then asserts that it did.  The assertion calls              *)
(* getMessages() twice and expects one of the two calls to raise.          *)
(***************************************************************************)
EXTENDS ClientMock

VARIABLES routine,       \* "none", or the call of getMessages() it waits for
          outcome,       \* of assertDisconnected()
          closedBefore,  \* history: the server had closed when it was called
          endSeen        \* history: one of its calls met the end of the stream

histVars == <<closedBefore, endSeen>>
routineVars == <<routine, outcome, histVars>>
allVars == <<vars, routineVars>>

TypeOKRoutine ==
    /\ TypeOK
    /\ routine \in {"none", "first", "second", "over"}
    /\ outcome \in {"none", "disconnected", "AssertionError", "error"}
    /\ {closedBefore, endSeen} \subseteq BOOLEAN

InitRoutine ==
    /\ Init
    /\ routine = "none" /\ outcome = "none"
    /\ closedBefore = FALSE /\ endSeen = FALSE

\* Faulty variant: except Exception
AnyException == Exceptions

\* except (socket.error, ConnectionClosed)
CaughtAsDisconnection == {"ConnectionClosed", "ConnectionResetError"}

\* self.getMessages(client), called by assertDisconnected().
RoutineGetsMessages ==
    /\ EntersReceiveLoop(FALSE, TRUE)
    /\ UNCHANGED <<data, delivered, net, cut, sent, commands, calls>>

CallAssertDisconnected ==
    /\ routine = "none" /\ call.at = "idle"
    /\ RoutineGetsMessages
    /\ routine' = "first"
    /\ closedBefore' = (peer # "open")
    /\ UNCHANGED <<outcome, endSeen>>

\* Faulty variant: one call that returns is enough for the assertion to fail.
FinalAfterOne(step) == TRUE

\* Only the second of the two calls must raise.
IsFinal(step) == step = "second"

FirstCallReturned ==
    /\ routine = "first" /\ ~IsFinal(routine)
    /\ call.at = "idle" /\ result = "returned"
    /\ RoutineGetsMessages
    /\ routine' = "second"
    /\ UNCHANGED <<outcome, histVars>>

SecondCallReturned ==
    /\ routine \in {"first", "second"} /\ IsFinal(routine)
    /\ call.at = "idle" /\ result = "returned"
    /\ routine' = "over" /\ outcome' = "AssertionError"
    /\ UNCHANGED <<vars, histVars>>

CallRaised ==
    /\ routine \in {"first", "second"} /\ call.at = "idle" /\ result \in Exceptions
    /\ routine' = "over"
    /\ outcome' = IF result \in CaughtAsDisconnection THEN "disconnected" ELSE "error"
    /\ UNCHANGED <<vars, histVars>>

\* A call of the assertion ends on recv() finding the connection closed.
MeetsEnd == routine # "none" /\ call.at = "recv" /\ AtEnd /\ call'.at = "idle"

NextRoutine ==
    \/ /\ Server \/ ServerWrites \/ ServerCloses
       /\ UNCHANGED routineVars
    \/ /\ Client
       /\ endSeen' = (endSeen \/ MeetsEnd)
       /\ UNCHANGED <<routine, outcome, closedBefore>>
    \/ /\ routine = "none"
       /\ SendLine \/ CallGetMessages \/ CallGetMessage
       /\ UNCHANGED routineVars
    \/ CallAssertDisconnected \/ FirstCallReturned \/ SecondCallReturned \/ CallRaised

SpecRoutine == InitRoutine /\ [][NextRoutine]_allVars

FairSpecRoutine ==
    /\ SpecRoutine
    /\ WF_allVars(Server /\ UNCHANGED routineVars)
    /\ WF_allVars(Client /\ endSeen' = (endSeen \/ MeetsEnd)
                         /\ UNCHANGED <<routine, outcome, closedBefore>>)
    /\ WF_allVars(FirstCallReturned \/ SecondCallReturned \/ CallRaised)

-----------------------------------------------------------------------------
(* Properties *)

\* assertDisconnected() accepts only a connection that the server closed:
\* neither an empty answer nor a lost PONG is taken for a disconnection.
AcceptsOnlyClosed == outcome = "disconnected" => peer # "open"

\* A connection that was closed when assertDisconnected() was called is
\* accepted, however many lines the server had left in the socket and
\* whatever an earlier getMessage() left in inbuffer.
ClosedBeforeIsNoticed == closedBefore => outcome # "AssertionError"

\* "Client not disconnected." is not raised about a client whose connection
\* the assertion itself found closed.
NoFalseAlarm == outcome = "AssertionError" => ~endSeen

=============================================================================
