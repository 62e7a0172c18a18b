-------------------------- MODULE DisconnectionProofs --------------------------
(***************************************************************************)
(* Soundness of assertDisconnected(), for every server, every number of    *)
(* lines and calls, and every way recv() may cut the stream.               *)
(***************************************************************************)
EXTENDS Disconnection, SequenceTheorems, TLAPS

\* The types the argument needs.  Nothing is said of `messages`, nor
\* needed here: what the loop over lines leaves of them is in ClientMockProofs.
TypeInv ==
    /\ net \in Seq(Message) /\ data \in Seq(Message)
    /\ requests \in Seq(Nat) /\ pings \in Nat /\ sent \in Seq(Message)
    /\ call \in [at : {"idle", "loop", "recv", "filled"},
                 single : BOOLEAN, sync : BOOLEAN, token : Nat]

\* Only the end of the connection raises what the assertion catches.
CaughtInv ==
    /\ result \in CaughtAsDisconnection => peer # "open"
    /\ AcceptsOnlyClosed

\* No line is an answer to a PING that was not emitted yet.
TokenInv ==
    /\ \A i \in 1..Len(net) : net[i].token <= pings
    /\ \A i \in 1..Len(data) : data[i].token <= pings
    /\ \A i \in 1..Len(requests) : requests[i] <= pings

\* The calls of the assertion are synchronized calls of getMessages().
RoutineInv ==
    routine \in {"first", "second"} =>
        /\ call.at \in {"idle", "recv"}
        /\ call.at = "recv" => call.sync /\ ~call.single /\ inbuffer = <<>>

\* The assertion says nothing before it is over.
OutcomeInv ==
    /\ outcome \in {"none", "disconnected", "AssertionError", "error"}
    /\ routine # "over" => outcome = "none"
    /\ ClosedBeforeIsNoticed

\* A first call on a closed connection has no PONG to expect.
FirstInv ==
    closedBefore /\ routine = "first" =>
        /\ peer # "open"
        /\ call.at = "recv" =>
              /\ \A i \in 1..Len(net) : net[i].token # call.token
              /\ \A i \in 1..Len(data) : data[i].token # call.token
        /\ call.at = "idle" /\ result = "returned" =>
              net = <<>> /\ data = <<>> /\ inbuffer = <<>>

\* A second call then finds nothing but the end of the connection.
SecondInv ==
    closedBefore /\ routine = "second" =>
        /\ peer # "open"
        /\ net = <<>> /\ data = <<>>
        /\ call.at = "recv" => messages = <<>>
        /\ call.at = "idle" => result \in Exceptions

\* The inductive invariant.
IInv ==
    /\ TypeInv
    /\ CaughtInv
    /\ TokenInv
    /\ RoutineInv
    /\ FirstInv
    /\ SecondInv
    /\ OutcomeInv

-----------------------------------------------------------------------------
(* What recv() leaves in the socket, and what it returns. *)

LEMMA RestOf ==
    ASSUME NEW S, NEW s \in Seq(S), NEW n \in 0..Len(s)
    PROVE  /\ SubSeq(s, n + 1, Len(s)) \in Seq(S)
           /\ Len(SubSeq(s, n + 1, Len(s))) = Len(s) - n
           /\ \A i \in 1..(Len(s) - n) : SubSeq(s, n + 1, Len(s))[i] = s[n + i]
<1>1. Len(s) \in Nat /\ n \in Nat /\ n <= Len(s)  BY LenProperties
<1>2. n + 1 \in 1..(Len(s) + 1) /\ Len(s) \in n..Len(s)  BY <1>1
<1>3. CASE n = Len(s)
  <2>1. SubSeq(s, n + 1, Len(s)) = <<>>  BY <1>1, <1>3
  <2> QED  BY <2>1, <1>1, <1>3
<1>4. CASE n < Len(s)
  <2>1. \A i \in (n + 1)..Len(s) : s[i] \in S  BY <1>1, ElementOfSeq
  <2> QED  BY <2>1, <1>1, <1>4
<1> QED  BY <1>1, <1>3, <1>4

LEMMA StartOf ==
    ASSUME NEW S, NEW s \in Seq(S), NEW n \in 0..Len(s)
    PROVE  /\ SubSeq(s, 1, n) \in Seq(S)
           /\ Len(SubSeq(s, 1, n)) = n
           /\ \A i \in 1..n : SubSeq(s, 1, n)[i] = s[i]
<1>1. Len(s) \in Nat /\ n \in Nat /\ n <= Len(s)  BY LenProperties
<1>2. \A i \in 1..n : s[i] \in S  BY <1>1, ElementOfSeq
<1> QED  BY <1>1, <1>2

\* A property of every line in `data` and in the socket is one of every line
\* in `data` and in the socket after recv().
LEMMA ReceivedKeeps ==
    ASSUME NEW S, NEW s \in Seq(S), NEW d \in Seq(S), NEW n \in 0..Len(s),
           NEW T,
           \A i \in 1..Len(s) : s[i] \in T,
           \A i \in 1..Len(d) : d[i] \in T
    PROVE  /\ d \o SubSeq(s, 1, n) \in Seq(S)
           /\ \A i \in 1..Len(SubSeq(s, n + 1, Len(s))) :
                 SubSeq(s, n + 1, Len(s))[i] \in T
           /\ \A i \in 1..Len(d \o SubSeq(s, 1, n)) : (d \o SubSeq(s, 1, n))[i] \in T
<1>1. Len(s) \in Nat /\ Len(d) \in Nat /\ n \in Nat /\ n <= Len(s)  BY LenProperties
<1> DEFINE a == SubSeq(s, 1, n)
           b == SubSeq(s, n + 1, Len(s))
<1>2. a \in Seq(S) /\ Len(a) = n /\ \A i \in 1..n : a[i] = s[i]  BY StartOf
<1>3. b \in Seq(S) /\ Len(b) = Len(s) - n /\ \A i \in 1..(Len(s) - n) : b[i] = s[n + i]
  BY RestOf
<1> HIDE DEF a, b
<1>4. /\ d \o a \in Seq(S) /\ Len(d \o a) = Len(d) + n
      /\ \A i \in 1..(Len(d) + n) :
            (d \o a)[i] = IF i <= Len(d) THEN d[i] ELSE a[i - Len(d)]
  BY <1>1, <1>2, ConcatProperties
<1>5. ASSUME NEW i \in 1..Len(b)
      PROVE  b[i] \in T
  <2>1. b[i] = s[n + i] /\ n + i \in 1..Len(s)  BY <1>1, <1>3
  <2> QED  BY <2>1
<1>6. ASSUME NEW i \in 1..Len(d \o a)
      PROVE  (d \o a)[i] \in T
  <2>1. i \in 1..(Len(d) + n)  BY <1>4
  <2>2. CASE i <= Len(d)
    <3>1. (d \o a)[i] = d[i] /\ i \in 1..Len(d)  BY <2>1, <2>2, <1>1, <1>4
    <3> QED  BY <3>1
  <2>3. CASE i > Len(d)
    <3>1. (d \o a)[i] = a[i - Len(d)] /\ i - Len(d) \in 1..n  BY <2>1, <2>3, <1>1, <1>4
    <3>2. i - Len(d) \in 1..Len(s)  BY <3>1, <1>1
    <3> QED  BY <3>1, <3>2, <1>2
  <2> QED  BY <2>1, <2>2, <2>3, <1>1
<1> QED  BY <1>4, <1>5, <1>6 DEF a, b

-----------------------------------------------------------------------------
(* Facts about several actions. *)

LEMMA InitIInv == InitRoutine => IInv
<1> SUFFICES ASSUME InitRoutine PROVE IInv  OBVIOUS
<1> USE DEF InitRoutine, Init, NoCall
<1>1. TypeInv  BY DEF TypeInv
<1>2. CaughtInv  BY DEF CaughtInv, AcceptsOnlyClosed, CaughtAsDisconnection
<1>3. TokenInv  BY DEF TokenInv
<1>4. RoutineInv /\ FirstInv /\ SecondInv /\ OutcomeInv
  BY DEF RoutineInv, FirstInv, SecondInv, OutcomeInv, ClosedBeforeIsNoticed
<1> QED  BY <1>1, <1>2, <1>3, <1>4 DEF IInv

LEMMA TokenOfLine ==
    ASSUME NEW s \in Seq(Message), NEW i \in 1..Len(s)
    PROVE  s[i].token \in Nat
<1>1. s[i] \in Message  BY ElementOfSeq
<1> QED  BY <1>1 DEF Message

\* Sending never opens a connection again.
LEMMA SendingKeepsClosed ==
    ASSUME NEW r, Sends(r)
    PROVE  /\ peer # "open" => peer' # "open" /\ requests' = requests
           /\ peer = "open" => requests' = Append(requests, r)
BY DEF Sends

\* What is appended to the requests is typed and was emitted.
LEMMA RequestAppended ==
    ASSUME NEW q \in Seq(Nat), NEW p \in Nat, NEW r \in 0..p,
           \A i \in 1..Len(q) : q[i] <= p
    PROVE  /\ Append(q, r) \in Seq(Nat)
           /\ \A i \in 1..Len(Append(q, r)) : Append(q, r)[i] <= p
<1>1. /\ Append(q, r) \in Seq(Nat)
      /\ Len(Append(q, r)) = Len(q) + 1
      /\ \A i \in 1..Len(q) : Append(q, r)[i] = q[i]
      /\ Append(q, r)[Len(q) + 1] = r
  BY AppendProperties
<1>2. Len(q) \in Nat  BY LenProperties
<1> QED  BY <1>1, <1>2

\* Entering the receive loop keeps what does not depend on the assertion.
LEMMA EnteringKeeps ==
    ASSUME TypeInv, CaughtInv, TokenInv,
           NEW single \in BOOLEAN, NEW sync \in BOOLEAN,
           EntersReceiveLoop(single, sync),
           data' = data, net' = net, sent' = sent, outcome' = outcome
    PROVE  TypeInv' /\ CaughtInv' /\ TokenInv'
<1>1. CASE /\ sync /\ Sends(pings + 1) /\ pings' = pings + 1
           /\ call' = [at |-> "recv", single |-> single, sync |-> TRUE, token |-> pings + 1]
           /\ result' = "none"
  <2>1. pings \in Nat /\ pings + 1 \in 0..(pings + 1) /\ pings' \in Nat
    BY <1>1 DEF TypeInv
  <2>2. \A i \in 1..Len(requests) : requests[i] <= pings'
    <3> SUFFICES ASSUME NEW i \in 1..Len(requests) PROVE requests[i] <= pings + 1
      BY <1>1
    <3>1. requests[i] \in Nat  BY ElementOfSeq DEF TypeInv
    <3>2. requests[i] <= pings  BY DEF TokenInv
    <3> QED  BY <2>1, <3>1, <3>2
  <2>3. requests' \in Seq(Nat) /\ \A i \in 1..Len(requests') : requests'[i] <= pings'
    <3>1. CASE peer = "open"
      <4>1. requests \in Seq(Nat) /\ pings + 1 \in 0..pings'  BY <2>1, <1>1 DEF TypeInv
      <4>2. requests' = Append(requests, pings + 1)
        BY <1>1, <3>1, SendingKeepsClosed
      <4> QED  BY <2>1, <2>2, <4>1, <4>2, RequestAppended
    <3>2. CASE peer # "open"
      BY <1>1, <2>2, <3>2, SendingKeepsClosed DEF TypeInv
    <3> QED  BY <3>1, <3>2
  <2>4. TypeInv'  BY <1>1, <2>1, <2>3 DEF TypeInv
  <2>5. CaughtInv'
    BY <1>1, SendingKeepsClosed
    DEF CaughtInv, AcceptsOnlyClosed, CaughtAsDisconnection
  <2>6. TokenInv'
    <3>1. ASSUME NEW i \in 1..Len(net) PROVE net[i].token <= pings + 1
      <4>1. net[i].token \in Nat  BY TokenOfLine DEF TypeInv
      <4>2. net[i].token <= pings  BY DEF TokenInv
      <4> QED  BY <2>1, <4>1, <4>2
    <3>2. ASSUME NEW i \in 1..Len(data) PROVE data[i].token <= pings + 1
      <4>1. data[i].token \in Nat  BY TokenOfLine DEF TypeInv
      <4>2. data[i].token <= pings  BY DEF TokenInv
      <4> QED  BY <2>1, <4>1, <4>2
    <3> QED  BY <1>1, <2>3, <3>1, <3>2 DEF TokenInv
  <2> QED  BY <2>4, <2>5, <2>6
<1>2. CASE /\ ~sync
           /\ call' = [at |-> "recv", single |-> single, sync |-> FALSE, token |-> 0]
           /\ result' = "none"
           /\ UNCHANGED <<peer, requests, pings>>
  <2>1. TypeInv'  BY <1>2 DEF TypeInv
  <2>2. CaughtInv'  BY <1>2 DEF CaughtInv, AcceptsOnlyClosed, CaughtAsDisconnection
  <2>3. TokenInv'  BY <1>2 DEF TokenInv
  <2> QED  BY <2>1, <2>2, <2>3
<1>3. CASE /\ SendFails /\ call' = NoCall
           /\ UNCHANGED <<peer, requests, pings>>
  <2>1. TypeInv'  BY <1>3 DEF TypeInv, NoCall
  <2>2. CaughtInv'
    BY <1>3 DEF SendFails, CaughtInv, AcceptsOnlyClosed, CaughtAsDisconnection
  <2>3. TokenInv'  BY <1>3 DEF TokenInv
  <2> QED  BY <2>1, <2>2, <2>3
<1> QED  BY <1>1, <1>2, <1>3 DEF EntersReceiveLoop

\* recv() keeps what is known of the lines, parsed or not.
LEMMA ReceivingKeeps ==
    ASSUME TypeInv, TokenInv, NEW n \in 0..Len(net), NEW c, Receives(n, c),
           data' = data \o SubSeq(net, 1, n) \/ data' = <<>>
    PROVE  net' \in Seq(Message) /\ data' \in Seq(Message) /\ TokenInv'
<1> DEFINE T == {m \in Message : m.token <= pings}
<1>1. net \in Seq(Message) /\ data \in Seq(Message)  BY DEF TypeInv
<1>2. \A i \in 1..Len(net) : net[i] \in T  BY <1>1, ElementOfSeq DEF TokenInv
<1>3. \A i \in 1..Len(data) : data[i] \in T  BY <1>1, ElementOfSeq DEF TokenInv
<1>4. net' = SubSeq(net, n + 1, Len(net)) /\ pings' = pings /\ requests' = requests
  BY DEF Receives, serverVars
<1> HIDE DEF T
<1>5. /\ data \o SubSeq(net, 1, n) \in Seq(Message)
      /\ \A i \in 1..Len(SubSeq(net, n + 1, Len(net))) :
            SubSeq(net, n + 1, Len(net))[i] \in T
      /\ \A i \in 1..Len(data \o SubSeq(net, 1, n)) : (data \o SubSeq(net, 1, n))[i] \in T
  BY <1>1, <1>2, <1>3, ReceivedKeeps
<1>6. net' \in Seq(Message)  BY <1>1, <1>4, RestOf
<1>7. \A i \in 1..Len(net') : net'[i] \in T  BY <1>4, <1>5
<1>8. data' \in Seq(Message) /\ \A i \in 1..Len(data') : data'[i] \in T
  <2>1. CASE data' = <<>>  BY <2>1
  <2>2. CASE data' = data \o SubSeq(net, 1, n)  BY <2>2, <1>5
  <2> QED  BY <2>1, <2>2
<1>9. TokenInv'  BY <1>4, <1>7, <1>8 DEF TokenInv, T
<1> QED  BY <1>6, <1>8, <1>9

\* When the first call of the assertion waits on a closed connection, its
\* PONG is not among the lines received.
LEMMA NoPongReceived ==
    ASSUME TypeInv, NEW n \in 0..Len(net), NEW c, Receives(n, c),
           \A i \in 1..Len(net) : net[i].token # call.token,
           \A i \in 1..Len(data) : data[i].token # call.token
    PROVE  /\ ~GotPong(data \o SubSeq(net, 1, n))
           /\ \A i \in 1..Len(net') : net'[i].token # call.token
           /\ \A i \in 1..Len(data \o SubSeq(net, 1, n)) :
                 (data \o SubSeq(net, 1, n))[i].token # call.token
<1> DEFINE T == {m \in Message : m.token # call.token}
<1>1. net \in Seq(Message) /\ data \in Seq(Message)  BY DEF TypeInv
<1>2. \A i \in 1..Len(net) : net[i] \in T  BY <1>1, ElementOfSeq
<1>3. \A i \in 1..Len(data) : data[i] \in T  BY <1>1, ElementOfSeq
<1>4. net' = SubSeq(net, n + 1, Len(net))  BY DEF Receives
<1> HIDE DEF T
<1>5. /\ \A i \in 1..Len(SubSeq(net, n + 1, Len(net))) :
            SubSeq(net, n + 1, Len(net))[i] \in T
      /\ \A i \in 1..Len(data \o SubSeq(net, 1, n)) : (data \o SubSeq(net, 1, n))[i] \in T
  BY <1>1, <1>2, <1>3, ReceivedKeeps
<1>6. \A i \in 1..Len(net') : net'[i].token # call.token  BY <1>4, <1>5 DEF T
<1>7. \A i \in 1..Len(data \o SubSeq(net, 1, n)) :
            (data \o SubSeq(net, 1, n))[i].token # call.token
  BY <1>5 DEF T
<1> QED  BY <1>6, <1>7 DEF GotPong, IsOwnPong

\* The ends of a call keep the type of `call`, and tell of the connection.
LEMMA EndingKeeps ==
    ASSUME TypeInv, RoutineInv,
           \/ \E msgs : Returns(msgs)
           \/ \E e \in Exceptions : /\ Raises(e)
                                    /\ e \in CaughtAsDisconnection => peer # "open"
    PROVE  /\ call' \in [at : {"idle", "loop", "recv", "filled"},
                         single : BOOLEAN, sync : BOOLEAN, token : Nat]
           /\ data' = <<>>
           /\ call'.at \in {"idle", "filled"}
           /\ routine \in {"first", "second"} /\ call.at = "recv" =>
                 call'.at = "idle" /\ inbuffer' = <<>>
           /\ result' = result \/ (result' \in CaughtAsDisconnection => peer # "open")
<1>1. CASE \E msgs : Returns(msgs)
  <2> PICK msgs : Returns(msgs)  BY <1>1
  <2>1. CASE call.single /\ call' = [call EXCEPT !.at = "filled"] /\ result' = result
    BY <2>1 DEF TypeInv, RoutineInv, Returns
  <2>2. CASE ~call.single /\ call' = NoCall /\ result' = "returned" /\ inbuffer' = inbuffer
    BY <2>2 DEF TypeInv, RoutineInv, Returns, NoCall, CaughtAsDisconnection
  <2> QED  BY <2>1, <2>2 DEF Returns
<1>2. CASE \E e \in Exceptions : /\ Raises(e)
                                 /\ e \in CaughtAsDisconnection => peer # "open"
  BY <1>2 DEF TypeInv, RoutineInv, Raises, NoCall
<1> QED  BY <1>1, <1>2

-----------------------------------------------------------------------------
(* The steps of the server: none after it closed the connection. *)

LEMMA ServerKeeps ==
    ASSUME IInv, Server \/ ServerWrites \/ ServerCloses, UNCHANGED routineVars
    PROVE  IInv'
<1> USE DEF IInv, clientVars, routineVars, histVars
<1>1. peer = "open"
  BY DEF Server, ServerAnswersPing, ServerHandlesCommand, ServerWrites, ServerCloses
<1>2. UNCHANGED clientVars
  BY DEF Server, ServerAnswersPing, ServerHandlesCommand, ServerWrites, ServerCloses
<1>3. pings' = pings
  BY DEF Server, ServerAnswersPing, ServerHandlesCommand, ServerWrites, ServerCloses
<1>4. CaughtInv'
  BY <1>1, <1>2 DEF CaughtInv, AcceptsOnlyClosed, CaughtAsDisconnection
<1>5. RoutineInv'  BY <1>2 DEF RoutineInv
<1>6. ~(closedBefore /\ routine \in {"first", "second"})
  BY <1>1 DEF FirstInv, SecondInv
<1>7. FirstInv' /\ SecondInv'  BY <1>6 DEF FirstInv, SecondInv
<1>8. OutcomeInv'  BY DEF OutcomeInv, ClosedBeforeIsNoticed
<1>9. ASSUME NEW kind \in {"reply", "async", "pong", "451", "garbled"},
             NEW token \in 0..pings, Writes(kind, token)
      PROVE  /\ sent' \in Seq(Message) /\ net' \in Seq(Message)
             /\ \A i \in 1..Len(net') : net'[i].token <= pings
  <2> DEFINE line == [kind |-> kind, id |-> Len(sent) + 1, token |-> token]
  <2>1. net \in Seq(Message) /\ sent \in Seq(Message) /\ pings \in Nat  BY DEF TypeInv
  <2>2. Len(sent) \in Nat /\ token \in Nat /\ token <= pings  BY <2>1, LenProperties
  <2>3. line \in Message  BY <2>2 DEF Message
  <2>4. line.token = token  OBVIOUS
  <2>5. sent' = Append(sent, line) /\ net' = Append(net, line)  BY <1>9 DEF Writes
  <2> HIDE DEF line
  <2>6. sent' \in Seq(Message)  BY <2>1, <2>3, <2>5, AppendProperties
  <2>7. /\ net' \in Seq(Message) /\ Len(net') = Len(net) + 1
        /\ \A i \in 1..Len(net) : net'[i] = net[i]
        /\ net'[Len(net) + 1] = line
    BY <2>1, <2>3, <2>5, AppendProperties
  <2>8. Len(net) \in Nat  BY <2>1, LenProperties
  <2>9. ASSUME NEW i \in 1..Len(net') PROVE net'[i].token <= pings
    <3>1. i \in 1..Len(net) \/ i = Len(net) + 1  BY <2>7, <2>8
    <3>2. CASE i \in 1..Len(net)  BY <3>2, <2>7 DEF TokenInv
    <3>3. CASE i = Len(net) + 1  BY <3>3, <2>2, <2>4, <2>7
    <3> QED  BY <3>1, <3>2, <3>3
  <2> QED  BY <2>6, <2>7, <2>9
<1>10. ASSUME requests # <<>>
       PROVE  /\ Tail(requests) \in Seq(Nat)
              /\ \A i \in 1..Len(Tail(requests)) : Tail(requests)[i] <= pings
              /\ Head(requests) \in 0..pings
  <2>1. requests \in Seq(Nat) /\ pings \in Nat  BY DEF TypeInv
  <2>2. /\ Head(requests) \in Nat /\ Tail(requests) \in Seq(Nat)
        /\ Len(Tail(requests)) = Len(requests) - 1
        /\ \A i \in 1..Len(Tail(requests)) : Tail(requests)[i] = requests[i + 1]
        /\ Head(requests) = requests[1]
    BY <2>1, <1>10, HeadTailProperties
  <2>3. Len(requests) \in Nat /\ Len(requests) > 0
    BY <2>1, <1>10, LenProperties, EmptySeq
  <2>4. requests[1] <= pings  BY <2>3 DEF TokenInv
  <2>5. ASSUME NEW i \in 1..Len(Tail(requests)) PROVE Tail(requests)[i] <= pings
    <3>1. i + 1 \in 1..Len(requests)  BY <2>2, <2>3
    <3> QED  BY <3>1, <2>2 DEF TokenInv
  <2> QED  BY <2>1, <2>2, <2>4, <2>5
<1>11. TypeInv' /\ TokenInv'
  <2>1. CASE ServerAnswersPing
    <3>1. PICK kind \in {"pong"} \cup IF Unregistered THEN {"451"} ELSE {} :
             Writes(kind, Head(requests))
      BY <2>1 DEF ServerAnswersPing
    <3>2. kind \in {"reply", "async", "pong", "451", "garbled"}  OBVIOUS
    <3>3. requests # <<>> /\ requests' = Tail(requests)  BY <2>1 DEF ServerAnswersPing
    <3> QED  BY <1>2, <1>3, <1>9, <1>10, <3>1, <3>2, <3>3 DEF TypeInv, TokenInv
  <2>2. CASE ServerHandlesCommand
    <3>1. requests # <<>> /\ Head(requests) = 0 /\ requests' = Tail(requests)
      BY <2>2 DEF ServerHandlesCommand
    <3>2. CASE \E kind \in LineKinds("reply") : Writes(kind, 0)
      <4> PICK kind \in LineKinds("reply") : Writes(kind, 0)  BY <3>2
      <4>1. kind \in {"reply", "async", "pong", "451", "garbled"}  BY DEF LineKinds
      <4>2. 0 \in 0..pings  BY DEF TypeInv
      <4> QED  BY <1>2, <1>3, <1>9, <1>10, <3>1, <4>1, <4>2 DEF TypeInv, TokenInv
    <3>3. CASE UNCHANGED <<sent, net>>
      BY <1>2, <1>3, <1>10, <3>1, <3>3 DEF TypeInv, TokenInv
    <3> QED  BY <2>2, <3>2, <3>3 DEF ServerHandlesCommand
  <2>3. CASE ServerWrites
    <3> PICK kind \in LineKinds("async") : Writes(kind, 0)  BY <2>3 DEF ServerWrites
    <3>1. kind \in {"reply", "async", "pong", "451", "garbled"}  BY DEF LineKinds
    <3>2. 0 \in 0..pings /\ requests' = requests  BY <2>3 DEF TypeInv, ServerWrites
    <3> QED  BY <1>2, <1>3, <1>9, <3>1, <3>2 DEF TypeInv, TokenInv
  <2>4. CASE ServerCloses
    BY <1>2, <1>3, <2>4 DEF TypeInv, TokenInv, ServerCloses
  <2> QED  BY <2>1, <2>2, <2>3, <2>4 DEF Server
<1> QED  BY <1>4, <1>5, <1>7, <1>8, <1>11

-----------------------------------------------------------------------------
(* The steps of the client inside a call. *)

\* A connection with nothing left in the socket gives nothing to recv().
LEMMA NothingReceived ==
    ASSUME net = <<>>, NEW n \in 0..Len(net), NEW c, Receives(n, c)
    PROVE  FALSE
<1>1. n = 0 /\ Len(net) = 0  OBVIOUS
<1>2. c = "none"  BY <1>1 DEF Receives
<1>3. <<cut, c>> \in {<<"none", "body">>, <<"none", "cr">>, <<"body", "cr">>}
  BY <1>1 DEF Receives
<1> QED  BY <1>2, <1>3

LEMMA ClientKeeps ==
    ASSUME IInv, Client, UNCHANGED <<routine, outcome, closedBefore>>
    PROVE  IInv'
<1> USE DEF IInv
<1>1. OutcomeInv'  BY DEF OutcomeInv, ClosedBeforeIsNoticed
<1>2. CASE ReceivePart
  <2> PICK n \in 0..Len(net), c \in Cuts :
          /\ Receives(n, c)
          /\ data' = data \o SubSeq(net, 1, n)
          /\ UNCHANGED <<inbuffer, call, messages, result, delivered>>
    BY <1>2 DEF ReceivePart
  <2>1. UNCHANGED <<peer, requests, sent, pings>>  BY DEF Receives, serverVars
  <2>2. TypeInv' /\ TokenInv'  BY <2>1, ReceivingKeeps DEF TypeInv
  <2>3. CaughtInv'  BY <2>1 DEF CaughtInv, AcceptsOnlyClosed, CaughtAsDisconnection
  <2>4. RoutineInv'  BY DEF RoutineInv
  <2>5. call.at = "recv"  BY DEF Receives
  <2>6. FirstInv'
    <3> SUFFICES ASSUME closedBefore, routine = "first"
                 PROVE  /\ peer # "open"
                        /\ \A i \in 1..Len(net') : net'[i].token # call.token
                        /\ \A i \in 1..Len(data') : data'[i].token # call.token
      BY <2>1, <2>5 DEF FirstInv
    <3>1. /\ peer # "open"
          /\ \A i \in 1..Len(net) : net[i].token # call.token
          /\ \A i \in 1..Len(data) : data[i].token # call.token
      BY <2>5 DEF FirstInv
    <3> QED  BY <3>1, NoPongReceived
  <2>7. ~(closedBefore /\ routine = "second")  BY NothingReceived DEF SecondInv
  <2>8. SecondInv'  BY <2>7 DEF SecondInv
  <2> QED  BY <1>1, <2>2, <2>3, <2>4, <2>6, <2>8
<1>3. CASE ReceiveChunk
  <2> PICK n \in 0..Len(net) :
          /\ Receives(n, "none")
          /\ LET lines == data \o SubSeq(net, 1, n)
             IN  \/ \E e \in {"UnicodeDecodeError", "ValueError"} : Raises(e)
                 \/ /\ call.sync => GotPong(lines)
                    /\ \E msgs : Returns(msgs)
                 \/ /\ call.sync /\ ~GotPong(lines)
                    /\ data' = <<>>
                    /\ UNCHANGED <<inbuffer, call, result, delivered>>
    BY <1>3 DEF ReceiveChunk
  <2>1. UNCHANGED <<peer, requests, sent, pings>> /\ call.at = "recv"
    BY DEF Receives, serverVars
  <2>2. data' = <<>>  BY DEF Raises, Returns
  <2>3. \/ /\ \/ \E msgs : Returns(msgs)
              \/ \E e \in Exceptions : /\ Raises(e)
                                       /\ e \in CaughtAsDisconnection => peer # "open"
        \/ UNCHANGED <<inbuffer, call, result, delivered>>
    BY DEF Exceptions, CaughtAsDisconnection
  <2>4. TypeInv' /\ TokenInv'
    BY <2>1, <2>2, <2>3, ReceivingKeeps, EndingKeeps DEF TypeInv
  <2>5. CaughtInv'
    BY <2>1, <2>3, EndingKeeps DEF CaughtInv, AcceptsOnlyClosed
  <2>6. RoutineInv'
    BY <2>1, <2>3, EndingKeeps DEF RoutineInv
  <2>7. FirstInv'
    <3> SUFFICES ASSUME closedBefore, routine = "first" PROVE FirstInv'  BY DEF FirstInv
    <3>1. /\ peer # "open" /\ call.sync
          /\ \A i \in 1..Len(net) : net[i].token # call.token
          /\ \A i \in 1..Len(data) : data[i].token # call.token
      BY <2>1 DEF FirstInv, RoutineInv
    <3>2. /\ ~GotPong(data \o SubSeq(net, 1, n))
          /\ \A i \in 1..Len(net') : net'[i].token # call.token
      BY <3>1, NoPongReceived
    <3>3. CASE \E e \in {"UnicodeDecodeError", "ValueError"} : Raises(e)
      BY <2>1, <3>1, <3>3 DEF FirstInv, Raises, NoCall
    <3>4. CASE UNCHANGED <<inbuffer, call, result, delivered>>
      <4>1. \A i \in 1..Len(data') : data'[i].token # call.token  BY <2>2
      <4> QED  BY <2>1, <3>1, <3>2, <3>4, <4>1 DEF FirstInv
    <3> QED  BY <3>1, <3>2, <3>3, <3>4
  <2>8. ~(closedBefore /\ routine = "second")  BY NothingReceived DEF SecondInv
  <2>9. SecondInv'  BY <2>8 DEF SecondInv
  <2> QED  BY <1>1, <2>4, <2>5, <2>6, <2>7, <2>9
<1>4. CASE ReceiveTimeout
  <2>1. /\ UNCHANGED <<peer, requests, sent, pings, net>> /\ call.at = "recv"
        /\ Returns(<<>>) /\ ~call.sync
    BY <1>4 DEF ReceiveTimeout, serverVars
  <2>2. routine \notin {"first", "second"}  BY <2>1 DEF RoutineInv
  <2>3. \E msgs : Returns(msgs)  BY <2>1
  <2>4. TypeInv'
    <3>1. /\ data' = <<>>
          /\ call' \in [at : {"idle", "loop", "recv", "filled"},
                        single : BOOLEAN, sync : BOOLEAN, token : Nat]
      BY <2>3, EndingKeeps
    <3> QED  BY <2>1, <3>1 DEF TypeInv
  <2>5. TokenInv'  BY <2>1, <2>3, EndingKeeps DEF TokenInv
  <2>6. CaughtInv'  BY <2>1, <2>3, EndingKeeps DEF CaughtInv, AcceptsOnlyClosed
  <2>7. RoutineInv' /\ FirstInv' /\ SecondInv'
    BY <2>2 DEF RoutineInv, FirstInv, SecondInv
  <2> QED  BY <1>1, <2>4, <2>5, <2>6, <2>7
<1>5. CASE ReceiveEnd
  <2>1. /\ UNCHANGED <<peer, requests, sent, pings, net>> /\ call.at = "recv"
        /\ peer # "open" /\ net = <<>>
        /\ \/ messages # <<>> /\ Returns(messages)
           \/ Raises("ConnectionClosed")
    BY <1>5 DEF ReceiveEnd, AtEnd, serverVars
  <2>2. \/ \E msgs : Returns(msgs)
        \/ \E e \in Exceptions : /\ Raises(e)
                                 /\ e \in CaughtAsDisconnection => peer # "open"
    BY <2>1 DEF Exceptions
  <2>3. TypeInv'  BY <2>1, <2>2, EndingKeeps DEF TypeInv
  <2>4. TokenInv'  BY <2>1, <2>2, EndingKeeps DEF TokenInv
  <2>5. CaughtInv'  BY <2>1, <2>2, EndingKeeps DEF CaughtInv, AcceptsOnlyClosed
  <2>6. RoutineInv'  BY <2>1, <2>2, EndingKeeps DEF RoutineInv
  <2>7. FirstInv'  BY <2>1, <2>2, EndingKeeps DEF FirstInv
  <2>8. SecondInv'
    <3> SUFFICES ASSUME closedBefore, routine = "second" PROVE SecondInv'  BY DEF SecondInv
    <3>1. messages = <<>>  BY <2>1 DEF SecondInv
    <3>2. Raises("ConnectionClosed")  BY <2>1, <3>1
    <3> QED  BY <2>1, <3>2 DEF SecondInv, Raises, NoCall, Exceptions
  <2> QED  BY <1>1, <2>3, <2>4, <2>5, <2>6, <2>7, <2>8
<1>6. CASE GetMessageRefills \/ GetMessagePops \/ GetMessageFails
  <2>1. call.at \in {"loop", "filled"}
    BY <1>6 DEF GetMessageRefills, GetMessagePops, GetMessageFails
  <2>2. routine \notin {"first", "second"}  BY <2>1 DEF RoutineInv
  <2>3. RoutineInv' /\ FirstInv' /\ SecondInv'
    BY <2>2 DEF RoutineInv, FirstInv, SecondInv
  <2>4. TypeInv' /\ CaughtInv' /\ TokenInv'
    <3>1. CASE GetMessageRefills
      <4>1. EntersReceiveLoop(TRUE, call.sync) /\ UNCHANGED <<data, net, sent>>
        BY <3>1 DEF GetMessageRefills
      <4>2. call.sync \in BOOLEAN  BY DEF TypeInv
      <4> QED  BY <4>1, <4>2, EnteringKeeps
    <3>2. CASE GetMessagePops
      <4>1. UNCHANGED <<data, net, peer, requests, sent, pings>>
        BY <3>2 DEF GetMessagePops, serverVars
      <4>2. \/ call' = NoCall /\ result' = "returned"
            \/ call' = [call EXCEPT !.at = "loop"] /\ result' = result
        BY <3>2 DEF GetMessagePops
      <4>3. TypeInv'
        <5>1. call' \in [at : {"idle", "loop", "recv", "filled"},
                         single : BOOLEAN, sync : BOOLEAN, token : Nat]
          <6>1. CASE call' = NoCall  BY <6>1 DEF NoCall
          <6>2. CASE call' = [call EXCEPT !.at = "loop"]  BY <6>2 DEF TypeInv
          <6> QED  BY <4>2, <6>1, <6>2
        <5> QED  BY <4>1, <5>1 DEF TypeInv
      <4>4. TokenInv'  BY <4>1 DEF TokenInv
      <4>5. CaughtInv'
        BY <4>1, <4>2 DEF CaughtInv, AcceptsOnlyClosed, CaughtAsDisconnection
      <4> QED  BY <4>3, <4>4, <4>5
    <3>3. CASE GetMessageFails
      <4>1. UNCHANGED <<net, peer, requests, sent, pings>> /\ Raises("NoMessageException")
        BY <3>3 DEF GetMessageFails, serverVars
      <4>2. TypeInv'  BY <4>1 DEF TypeInv, Raises, NoCall
      <4>3. TokenInv'  BY <4>1 DEF TokenInv, Raises
      <4>4. CaughtInv'
        BY <4>1 DEF CaughtInv, AcceptsOnlyClosed, CaughtAsDisconnection, Raises
      <4> QED  BY <4>2, <4>3, <4>4
    <3> QED  BY <1>6, <3>1, <3>2, <3>3
  <2> QED  BY <1>1, <2>3, <2>4
<1> QED  BY <1>2, <1>3, <1>4, <1>5, <1>6 DEF Client

-----------------------------------------------------------------------------
(* The steps of the test and of assertDisconnected(). *)

LEMMA TestKeeps ==
    ASSUME IInv, routine = "none",
           SendLine \/ CallGetMessages \/ CallGetMessage, UNCHANGED routineVars
    PROVE  IInv'
<1> USE DEF IInv, routineVars, histVars
<1>1. RoutineInv' /\ FirstInv' /\ SecondInv'  BY DEF RoutineInv, FirstInv, SecondInv
<1>2. OutcomeInv'  BY DEF OutcomeInv, ClosedBeforeIsNoticed
<1>3. TypeInv' /\ CaughtInv' /\ TokenInv'
  <2>1. CASE SendLine
    <3>1. UNCHANGED <<call, data, net, sent, pings>>  BY <2>1 DEF SendLine
    <3>2. CASE Sends(0) /\ result' = "none"
      <4>1. requests \in Seq(Nat) /\ pings \in Nat /\ 0 \in 0..pings  BY DEF TypeInv
      <4>2. requests' \in Seq(Nat) /\ \A i \in 1..Len(requests') : requests'[i] <= pings
        <5>1. CASE peer = "open"
          <6>1. requests' = Append(requests, 0)  BY <3>2, <5>1, SendingKeepsClosed
          <6>2. \A i \in 1..Len(requests) : requests[i] <= pings  BY DEF TokenInv
          <6> QED  BY <4>1, <6>1, <6>2, RequestAppended
        <5>2. CASE peer # "open"
          BY <3>2, <4>1, <5>2, SendingKeepsClosed DEF TokenInv
        <5> QED  BY <5>1, <5>2
      <4>3. TypeInv'  BY <3>1, <4>2 DEF TypeInv
      <4>4. TokenInv'  BY <3>1, <4>2 DEF TokenInv
      <4>5. CaughtInv'
        BY <3>2, SendingKeepsClosed
        DEF CaughtInv, AcceptsOnlyClosed, CaughtAsDisconnection
      <4> QED  BY <4>3, <4>4, <4>5
    <3>3. CASE SendFails /\ UNCHANGED <<peer, requests>>
      <4>1. TypeInv'  BY <3>1, <3>3 DEF TypeInv
      <4>2. TokenInv'  BY <3>1, <3>3 DEF TokenInv
      <4>3. CaughtInv'  BY <3>3 DEF CaughtInv, AcceptsOnlyClosed, SendFails
      <4> QED  BY <4>1, <4>2, <4>3
    <3> QED  BY <2>1, <3>2, <3>3 DEF SendLine
  <2>2. CASE CallGetMessages
    <3> PICK sync \in BOOLEAN : EntersReceiveLoop(FALSE, sync)
      BY <2>2 DEF CallGetMessages
    <3>1. UNCHANGED <<data, net, sent>>  BY <2>2 DEF CallGetMessages
    <3> QED  BY <3>1, EnteringKeeps
  <2>3. CASE CallGetMessage
    <3>1. UNCHANGED <<data, net, peer, requests, sent, pings>>
      BY <2>3 DEF CallGetMessage, serverVars
    <3>2. PICK sync \in BOOLEAN :
             call' = [at |-> "loop", single |-> TRUE, sync |-> sync, token |-> 0]
      BY <2>3 DEF CallGetMessage
    <3>3. TypeInv'  BY <3>1, <3>2 DEF TypeInv
    <3>4. TokenInv'  BY <3>1 DEF TokenInv
    <3>5. CaughtInv'
      BY <2>3, <3>1
      DEF CallGetMessage, CaughtInv, AcceptsOnlyClosed, CaughtAsDisconnection
    <3> QED  BY <3>3, <3>4, <3>5
  <2> QED  BY <2>1, <2>2, <2>3
<1> QED  BY <1>1, <1>2, <1>3

\* A synchronized getMessages(), as the assertion calls it.
LEMMA RoutineCallKeeps ==
    ASSUME IInv, RoutineGetsMessages, outcome' = outcome
    PROVE  /\ TypeInv' /\ CaughtInv' /\ TokenInv'
           /\ net' = net /\ data' = data
           /\ peer # "open" => peer' # "open"
           /\ \/ /\ call'.at = "recv" /\ call'.sync /\ ~call'.single
                 /\ inbuffer' = <<>> /\ messages' = inbuffer
                 /\ call'.token = pings + 1
              \/ /\ call'.at = "idle" /\ result' \in Exceptions
<1>1. /\ EntersReceiveLoop(FALSE, TRUE)
      /\ UNCHANGED <<data, net, sent>>
  BY DEF RoutineGetsMessages
<1>2. TypeInv' /\ CaughtInv' /\ TokenInv'  BY <1>1, EnteringKeeps DEF IInv
<1>3. CASE /\ Sends(pings + 1)
           /\ call' = [at |-> "recv", single |-> FALSE, sync |-> TRUE, token |-> pings + 1]
           /\ messages' = BufferedAtStart /\ inbuffer' = InbufferAtStart
  BY <1>1, <1>2, <1>3, SendingKeepsClosed DEF BufferedAtStart, InbufferAtStart
<1>4. CASE /\ SendFails /\ call' = NoCall
           /\ result' \in {"ConnectionClosed", "ConnectionResetError"} /\ peer' = peer
  BY <1>1, <1>2, <1>4 DEF NoCall, Exceptions
<1> QED  BY <1>1, <1>3, <1>4 DEF EntersReceiveLoop

LEMMA RoutineKeeps ==
    ASSUME IInv,
           CallAssertDisconnected \/ FirstCallReturned \/ SecondCallReturned \/ CallRaised
    PROVE  IInv'
<1> USE DEF IInv
<1>1. CASE CallAssertDisconnected
  <2>1. /\ RoutineGetsMessages /\ routine' = "first" /\ outcome' = outcome
        /\ closedBefore' = (peer # "open")
    BY <1>1 DEF CallAssertDisconnected
  <2>2. TypeInv' /\ CaughtInv' /\ TokenInv'  BY <2>1, RoutineCallKeeps
  <2>3. RoutineInv'  BY <2>1, RoutineCallKeeps DEF RoutineInv
  <2>4. FirstInv'
    <3> SUFFICES ASSUME peer # "open" PROVE FirstInv'  BY <2>1 DEF FirstInv
    <3>1. CASE call'.at = "recv"
      <4>1. call'.token = pings + 1 /\ pings \in Nat /\ net' = net /\ data' = data
        BY <2>1, <3>1, RoutineCallKeeps DEF TypeInv
      <4>2. ASSUME NEW i \in 1..Len(net) PROVE net[i].token # pings + 1
        <5>1. net[i].token \in Nat  BY TokenOfLine DEF TypeInv
        <5>2. net[i].token <= pings  BY DEF TokenInv
        <5> QED  BY <4>1, <5>1, <5>2
      <4>3. ASSUME NEW i \in 1..Len(data) PROVE data[i].token # pings + 1
        <5>1. data[i].token \in Nat  BY TokenOfLine DEF TypeInv
        <5>2. data[i].token <= pings  BY DEF TokenInv
        <5> QED  BY <4>1, <5>1, <5>2
      <4> QED  BY <2>1, <3>1, <4>1, <4>2, <4>3, RoutineCallKeeps DEF FirstInv
    <3>2. CASE call'.at = "idle" /\ result' \in Exceptions
      BY <2>1, <3>2, RoutineCallKeeps DEF FirstInv, Exceptions
    <3> QED  BY <2>1, <3>1, <3>2, RoutineCallKeeps
  <2>5. SecondInv'  BY <2>1 DEF SecondInv
  <2>6. OutcomeInv'  BY <1>1, <2>1 DEF CallAssertDisconnected, OutcomeInv, ClosedBeforeIsNoticed
  <2> QED  BY <2>2, <2>3, <2>4, <2>5, <2>6
<1>2. CASE FirstCallReturned
  <2>1. /\ RoutineGetsMessages /\ routine = "first" /\ routine' = "second"
        /\ call.at = "idle" /\ result = "returned"
        /\ outcome' = outcome /\ closedBefore' = closedBefore
    BY <1>2 DEF FirstCallReturned, histVars
  <2>2. TypeInv' /\ CaughtInv' /\ TokenInv'  BY <2>1, RoutineCallKeeps
  <2>3. RoutineInv'  BY <2>1, RoutineCallKeeps DEF RoutineInv
  <2>4. FirstInv'  BY <2>1 DEF FirstInv
  <2>5. SecondInv'
    <3> SUFFICES ASSUME closedBefore PROVE SecondInv'  BY <2>1 DEF SecondInv
    <3>1. peer # "open" /\ net = <<>> /\ data = <<>> /\ inbuffer = <<>>
      BY <2>1 DEF FirstInv
    <3> QED  BY <2>1, <3>1, RoutineCallKeeps DEF SecondInv
  <2>6. OutcomeInv'  BY <2>1 DEF OutcomeInv, ClosedBeforeIsNoticed
  <2> QED  BY <2>2, <2>3, <2>4, <2>5, <2>6
<1>3. CASE SecondCallReturned \/ CallRaised
  <2>1. UNCHANGED <<vars, histVars>> /\ routine' = "over"
    BY <1>3 DEF SecondCallReturned, CallRaised
  <2>2. TypeInv'  BY <2>1 DEF TypeInv, vars, clientVars, serverVars
  <2>3. TokenInv'  BY <2>1 DEF TokenInv, vars, clientVars, serverVars
  <2>4. RoutineInv' /\ FirstInv' /\ SecondInv'
    BY <2>1 DEF RoutineInv, FirstInv, SecondInv
  <2>5. CaughtInv'
    <3>1. outcome' = "disconnected" => result \in CaughtAsDisconnection
      BY <1>3 DEF SecondCallReturned, CallRaised
    <3> QED
      BY <2>1, <3>1
      DEF CaughtInv, AcceptsOnlyClosed, vars, clientVars, serverVars
  <2>6. OutcomeInv'
    <3>1. CASE SecondCallReturned
      <4>1. routine = "second" /\ call.at = "idle" /\ result = "returned"
        BY <3>1 DEF SecondCallReturned, IsFinal
      <4>2. ~closedBefore  BY <4>1 DEF SecondInv, Exceptions
      <4> QED
        BY <2>1, <3>1, <4>2
        DEF SecondCallReturned, OutcomeInv, ClosedBeforeIsNoticed, histVars
    <3>2. CASE CallRaised
      BY <2>1, <3>2 DEF CallRaised, OutcomeInv, ClosedBeforeIsNoticed
    <3> QED  BY <1>3, <3>1, <3>2
  <2> QED  BY <2>2, <2>3, <2>4, <2>5, <2>6
<1> QED  BY <1>1, <1>2, <1>3

-----------------------------------------------------------------------------

LEMMA StepIInv == IInv /\ [NextRoutine]_allVars => IInv'
<1> SUFFICES ASSUME IInv, [NextRoutine]_allVars PROVE IInv'  OBVIOUS
<1>1. CASE (Server \/ ServerWrites \/ ServerCloses) /\ UNCHANGED routineVars
  BY <1>1, ServerKeeps
<1>2. CASE Client /\ UNCHANGED <<routine, outcome, closedBefore>>
  BY <1>2, ClientKeeps
<1>3. CASE /\ routine = "none" /\ UNCHANGED routineVars
           /\ SendLine \/ CallGetMessages \/ CallGetMessage
  BY <1>3, TestKeeps
<1>4. CASE CallAssertDisconnected \/ FirstCallReturned \/ SecondCallReturned \/ CallRaised
  BY <1>4, RoutineKeeps
<1>5. CASE UNCHANGED allVars
  BY <1>5 DEF IInv, TypeInv, CaughtInv, TokenInv, RoutineInv, FirstInv, SecondInv,
     OutcomeInv, AcceptsOnlyClosed, ClosedBeforeIsNoticed,
     allVars, vars, clientVars, serverVars, routineVars, histVars
<1> QED  BY <1>1, <1>2, <1>3, <1>4, <1>5 DEF NextRoutine

LEMMA InductiveInvariant == SpecRoutine => []IInv
BY InitIInv, StepIInv, PTL DEF SpecRoutine

\* Whatever the server writes and however recv() cuts it, an assertion that
\* passes speaks of a connection that the server closed.
THEOREM Soundness == SpecRoutine => []AcceptsOnlyClosed
<1>1. IInv => AcceptsOnlyClosed  BY DEF IInv, CaughtInv
<1> QED  BY <1>1, InductiveInvariant, PTL

\* However many lines were left in the socket or in inbuffer, two calls are
\* enough to notice that a connection had been closed.
THEOREM Completeness == SpecRoutine => []ClosedBeforeIsNoticed
<1>1. IInv => ClosedBeforeIsNoticed  BY DEF IInv, OutcomeInv
<1> QED  BY <1>1, InductiveInvariant, PTL

=============================================================================
