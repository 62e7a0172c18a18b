------------------------------ MODULE ClientMock ------------------------------
(***************************************************************************)
(* One ClientMock of irctest/client_mock.py, and the server it talks to.   *)
(*                                                                         *)
(* TCP carries bytes, and recv() returns any non-empty prefix of those     *)
(* that arrived.  What matters of a prefix is where it cuts a line: before *)
(* it ("none"), inside it ("body"), or between its CR and its LF ("cr").   *)
(* `net` holds the lines of which the last byte was not received yet, and  *)
(* `cut` says how much of the first of them was.                           *)
(*                                                                         *)
(* The server is external: it answers commands in order, writes lines of   *)
(* its own at any time, answers PING with PONG or, before registration,    *)
(* with 451, and may close the connection.                                 *)
(***************************************************************************)
EXTENDS Naturals, Sequences

CONSTANTS SplitCRLF,       \* recv() may return the CR of a line without its LF
          Garbled,         \* the server may write lines that are not UTF-8
          Unregistered,    \* the server may answer PING with 451
          CarefulCallers,  \* no unsynchronized getMessages() after a
                           \* getMessage() that left messages in inbuffer
          MaxLines,        \* bound: lines besides answers to PING
          MaxCommands,     \* bound: lines the test sends
          MaxCalls         \* bound: calls of getMessages() and getMessage()

ASSUME ClientMockAssumption ==
    /\ {SplitCRLF, Garbled, Unregistered, CarefulCallers} \subseteq BOOLEAN
    /\ {MaxLines, MaxCommands, MaxCalls} \subseteq Nat

VARIABLES inbuffer,   \* self.inbuffer
          call,       \* the running getMessages() or getMessage()
          messages,   \* its local variable `messages`
          data,       \* the complete lines in its local variable `data`
          result,     \* how the last call ended
          delivered,  \* history: messages handed to the test
          net, cut,   \* lines not received yet, and the cut in the first one
          peer,       \* the server's end: "open", "closed", "reset"
          requests,   \* lines of the client the server did not handle yet
          sent,       \* history: all lines the server wrote
          pings, commands, calls   \* counters

clientVars == <<inbuffer, call, messages, data, result, delivered>>
serverVars == <<peer, requests, sent, pings, commands>>
vars == <<clientVars, net, cut, serverVars, calls>>

Cuts == {"none", "body", "cr"}
Exceptions == {"ConnectionClosed", "ConnectionResetError", "NoMessageException",
               "UnicodeDecodeError", "ValueError"}

\* `id` is the position of a line in what the server wrote; `token` is that
\* of the PING a PONG answers.
Message == [kind : {"reply", "async", "pong", "451", "garbled"}, id : Nat, token : Nat]

NoCall == [at |-> "idle", single |-> FALSE, sync |-> FALSE, token |-> 0]

TypeOK ==
    /\ inbuffer \in Seq(Message)
    /\ call \in [at : {"idle", "loop", "recv", "filled"},
                 single : BOOLEAN, sync : BOOLEAN, token : Nat]
    /\ messages \in Seq(Message) /\ data \in Seq(Message)
    /\ result \in Exceptions \cup {"none", "returned"}
    /\ delivered \in Seq(Message)
    /\ net \in Seq(Message) /\ cut \in Cuts
    /\ peer \in {"open", "closed", "reset"}
    /\ requests \in Seq(Nat)
    /\ sent \in Seq(Message)
    /\ {pings, commands, calls} \subseteq Nat

Init ==
    /\ inbuffer = <<>> /\ call = NoCall /\ messages = <<>> /\ data = <<>>
    /\ result = "none" /\ delivered = <<>>
    /\ net = <<>> /\ cut = "none"
    /\ peer = "open" /\ requests = <<>> /\ sent = <<>>
    /\ pings = 0 /\ commands = 0 /\ calls = 0

-----------------------------------------------------------------------------
(* The server.  A request is the token of a PING, or 0 for a command. *)

Writes(kind, token) ==
    LET line == [kind |-> kind, id |-> Len(sent) + 1, token |-> token]
    IN  /\ sent' = Append(sent, line)
        /\ net' = Append(net, line)

LinesWritten == Len(SelectSeq(sent, LAMBDA m : m.kind \notin {"pong", "451"}))

LineKinds(kind) == {kind} \cup IF Garbled THEN {"garbled"} ELSE {}

ServerAnswersPing ==
    /\ peer = "open" /\ requests # <<>>
    /\ Head(requests) # 0
    /\ requests' = Tail(requests)
    /\ \E kind \in {"pong"} \cup IF Unregistered THEN {"451"} ELSE {} :
          Writes(kind, Head(requests))
    /\ UNCHANGED <<clientVars, cut, peer, pings, commands, calls>>

\* A command is answered by one line, or by none.
ServerHandlesCommand ==
    /\ peer = "open" /\ requests # <<>>
    /\ Head(requests) = 0
    /\ requests' = Tail(requests)
    /\ \/ /\ LinesWritten < MaxLines
          /\ \E kind \in LineKinds("reply") : Writes(kind, 0)
       \/ UNCHANGED <<sent, net>>
    /\ UNCHANGED <<clientVars, cut, peer, pings, commands, calls>>

ServerWrites ==
    /\ peer = "open"
    /\ LinesWritten < MaxLines
    /\ \E kind \in LineKinds("async") : Writes(kind, 0)
    /\ UNCHANGED <<clientVars, cut, peer, requests, pings, commands, calls>>

ServerCloses ==
    /\ peer = "open"
    /\ peer' = "closed"
    /\ requests' = <<>>
    /\ UNCHANGED <<clientVars, net, cut, sent, pings, commands, calls>>

-----------------------------------------------------------------------------
(* sendLine.  The first line sent to a closed connection is accepted by    *)
(* the kernel and provokes a reset; once reset, sending fails.             *)

SendFails == peer = "reset"

Sends(request) ==
    /\ peer # "reset"
    /\ peer' \in IF peer = "closed" THEN {"closed", "reset"} ELSE {peer}
    /\ requests' = IF peer = "open" THEN Append(requests, request) ELSE requests

SendLine ==
    /\ call.at = "idle"
    /\ commands < MaxCommands
    /\ commands' = commands + 1
    /\ \/ Sends(0) /\ result' = "none"
       \/ /\ SendFails
          /\ result' \in {"ConnectionClosed", "ConnectionResetError"}
          /\ UNCHANGED <<peer, requests>>
    /\ UNCHANGED <<inbuffer, call, messages, data, delivered, net, cut, sent,
                   pings, calls>>

-----------------------------------------------------------------------------
(* getMessages: before the receive loop. *)

\* Faulty variant: messages that getMessage() left behind are not returned.
BufferedForgotten == <<>>

\* Faulty variant: the inbuffer is not emptied by the call that returns it.
InbufferKept == inbuffer

\* (self.inbuffer, messages) = ([], self.inbuffer)
BufferedAtStart == inbuffer
InbufferAtStart == <<>>

\* Emits the PING of a synchronized call, and enters the receive loop.
EntersReceiveLoop(single, sync) ==
    \/ /\ sync
       /\ Sends(pings + 1)
       /\ pings' = pings + 1
       /\ call' = [at |-> "recv", single |-> single, sync |-> TRUE, token |-> pings + 1]
       /\ messages' = BufferedAtStart
       /\ inbuffer' = InbufferAtStart
       /\ result' = "none"
    \/ /\ ~sync
       /\ call' = [at |-> "recv", single |-> single, sync |-> FALSE, token |-> 0]
       /\ messages' = BufferedAtStart
       /\ inbuffer' = InbufferAtStart
       /\ result' = "none"
       /\ UNCHANGED <<peer, requests, pings>>
    \/ /\ sync /\ SendFails
       /\ call' = NoCall
       /\ result' \in {"ConnectionClosed", "ConnectionResetError"}
       /\ UNCHANGED <<peer, requests, pings, messages, inbuffer>>

CallGetMessages ==
    /\ call.at = "idle"
    /\ calls < MaxCalls
    /\ calls' = calls + 1
    /\ \E sync \in BOOLEAN :
          /\ CarefulCallers => sync \/ inbuffer = <<>>
          /\ EntersReceiveLoop(FALSE, sync)
    /\ UNCHANGED <<data, delivered, net, cut, sent, commands>>

-----------------------------------------------------------------------------
(* getMessages: the receive loop. *)

\* recv() returns the rest of the first n lines of net, and line n+1 up to c.
Receives(n, c) ==
    /\ call.at = "recv"
    /\ n = Len(net) => c = "none"
    /\ n = 0 => <<cut, c>> \in {<<"none", "body">>, <<"none", "cr">>, <<"body", "cr">>}
    /\ c = "cr" => SplitCRLF
    /\ net' = SubSeq(net, n + 1, Len(net))
    /\ cut' = c
    /\ UNCHANGED <<serverVars, calls>>

\* new_data.endswith(b"\r\n"): the LF of a line cut after its CR is a chunk
\* of its own that does not.
Terminated(n, c) == c = "none" /\ ~(n = 1 /\ cut = "cr")

\* Faulty variant: any PONG ends the call.
AnyPong(m) == m.kind = "pong" /\ call.sync

IsOwnPong(m) == m.kind = "pong" /\ m.token = call.token

GotPong(lines) == \E i \in 1..Len(lines) : IsOwnPong(lines[i])

\* messages.append(message), for every line but an own PONG.
Parsed(lines) ==
    LET kept[n \in 0..Len(lines)] ==
            IF n = 0 THEN <<>>
            ELSE IF IsOwnPong(lines[n]) THEN kept[n - 1]
            ELSE Append(kept[n - 1], lines[n])
    IN  kept[Len(lines)]

HasKind(lines, kind) == \E i \in 1..Len(lines) : lines[i].kind = kind

\* The end of the call: getMessages() hands its messages to the test, while
\* getMessage() stores them in inbuffer and goes on.
Returns(msgs) ==
    /\ messages' = <<>> /\ data' = <<>>
    /\ \/ /\ call.single
          /\ inbuffer' = msgs
          /\ call' = [call EXCEPT !.at = "filled"]
          /\ UNCHANGED <<delivered, result>>
       \/ /\ ~call.single
          /\ delivered' = delivered \o msgs
          /\ call' = NoCall
          /\ result' = "returned"
          /\ UNCHANGED inbuffer

Raises(exception) ==
    /\ messages' = <<>> /\ data' = <<>>
    /\ call' = NoCall
    /\ result' = exception
    /\ UNCHANGED <<inbuffer, delivered>>

\* `data += new_data`, and nothing else.
ReceivePart ==
    \E n \in 0..Len(net), c \in Cuts :
        /\ Receives(n, c)
        /\ ~Terminated(n, c)
        /\ data' = data \o SubSeq(net, 1, n)
        /\ UNCHANGED <<inbuffer, call, messages, result, delivered>>

\* All of data is parsed, up to the end of the loop over its lines.
ReceiveChunk ==
    \E n \in 0..Len(net) :
        /\ Receives(n, "none")
        /\ Terminated(n, "none")
        /\ LET lines == data \o SubSeq(net, 1, n)
               parsed == messages \o Parsed(lines)
               refused == call.sync /\ HasKind(lines, "451")
           IN  \/ /\ HasKind(lines, "garbled")
                  /\ Raises("UnicodeDecodeError")
               \/ /\ ~HasKind(lines, "garbled") /\ refused
                  /\ Raises("ValueError")
               \/ /\ ~HasKind(lines, "garbled") /\ ~refused
                  /\ call.sync => GotPong(lines)
                  /\ Returns(parsed)
               \/ /\ ~HasKind(lines, "garbled") /\ ~refused
                  /\ call.sync /\ ~GotPong(lines)
                  /\ messages' = parsed /\ data' = <<>>
                  /\ UNCHANGED <<inbuffer, call, result, delivered>>

\* socket.timeout: only an unsynchronized getMessages() that received no
\* byte gives up, and returns []; any other call keeps waiting.
ReceiveTimeout ==
    /\ call.at = "recv"
    /\ ~call.single /\ ~call.sync
    /\ data = <<>> /\ cut = "none"
    /\ Returns(<<>>)
    /\ UNCHANGED <<net, cut, serverVars, calls>>

\* Faulty variant: the end of the connection is taken for a timeout.
NeverAtEnd == FALSE

\* recv() returns b"" or raises ConnectionResetError.
AtEnd == peer # "open" /\ net = <<>>

ReceiveEnd ==
    /\ call.at = "recv"
    /\ AtEnd
    /\ \/ messages # <<>> /\ Returns(messages)
       \/ messages = <<>> /\ Raises("ConnectionClosed")
    /\ UNCHANGED <<net, cut, serverVars, calls>>

-----------------------------------------------------------------------------
(* getMessage *)

\* The call; its loop runs in the three actions that follow.
CallGetMessage ==
    /\ call.at = "idle"
    /\ calls < MaxCalls
    /\ calls' = calls + 1
    /\ \E sync \in BOOLEAN :
          call' = [at |-> "loop", single |-> TRUE, sync |-> sync, token |-> 0]
    /\ result' = "none"
    /\ UNCHANGED <<inbuffer, messages, data, delivered, net, cut, serverVars>>

GetMessageRefills ==
    /\ call.at = "loop"
    /\ inbuffer = <<>>
    /\ EntersReceiveLoop(TRUE, call.sync)
    /\ UNCHANGED <<data, delivered, net, cut, sent, commands, calls>>

\* self.inbuffer.pop(0); a message filter_pred refuses is gone, too.
GetMessagePops ==
    /\ call.at \in {"loop", "filled"}
    /\ inbuffer # <<>>
    /\ inbuffer' = Tail(inbuffer)
    /\ delivered' = Append(delivered, Head(inbuffer))
    /\ \/ call' = NoCall /\ result' = "returned"
       \/ call' = [call EXCEPT !.at = "loop"] /\ UNCHANGED result
    /\ UNCHANGED <<messages, data, net, cut, serverVars, calls>>

GetMessageFails ==
    /\ call.at = "filled"
    /\ inbuffer = <<>>
    /\ Raises("NoMessageException")
    /\ UNCHANGED <<net, cut, serverVars, calls>>

-----------------------------------------------------------------------------

Server == ServerAnswersPing \/ ServerHandlesCommand

Client ==
    \/ ReceivePart \/ ReceiveChunk \/ ReceiveTimeout \/ ReceiveEnd
    \/ GetMessageRefills \/ GetMessagePops \/ GetMessageFails

Next ==
    \/ Server \/ ServerWrites \/ ServerCloses
    \/ SendLine \/ CallGetMessages \/ CallGetMessage \/ Client

Spec == Init /\ [][Next]_vars

\* The server answers what it is asked, and the client keeps running.
FairSpec == Spec /\ WF_vars(Server) /\ WF_vars(Client)

-----------------------------------------------------------------------------
(* Properties *)

\* The lines the server wrote and the test did not get, in order.
Pending == inbuffer \o messages \o data \o net

Ids(s) == {s[i].id : i \in 1..Len(s)}

\* Whatever fails, the test never gets a line twice nor two lines in the
\* wrong order, from either of getMessages() and getMessage().
DeliveredInOrder ==
    \A i, j \in 1..Len(delivered) : i < j => delivered[i].id < delivered[j].id

\* A synchronized call that ends while the connection is up returns only
\* after everything the client had sent was answered, and leaves no answer
\* behind in the socket: "irctest emits a PING, waits for a PONG, and
\* captures all messages between the two" (basecontrollers.py).
SyncCapturesReplies ==
    [][ call.at = "recv" /\ call.sync /\ call'.at \in {"idle", "filled"}
        /\ result' \notin Exceptions /\ peer = "open"
        => /\ requests = <<>>
           /\ \A i \in 1..Len(net') : net'[i].kind # "reply" ]_vars

\* A call that does not raise loses no line: each one it took from inbuffer
\* or from the socket is handed to the test, kept, or its own PONG.
NoSilentLoss ==
    [][ result' \notin Exceptions
        => \A m \in {Pending[i] : i \in 1..Len(Pending)} :
              \/ IsOwnPong(m)
              \/ m.id \in Ids(delivered') \cup Ids(Pending') ]_vars

\* Under careful callers and a server that writes UTF-8, the client
\* implements the channel the tests rely on.
Channel == INSTANCE FifoChannel WITH queue <- Pending
ImplementsFifoChannel == Channel!Spec

\* A call ends once the server answered its PING or had nothing to say; only
\* an unsynchronized getMessage() may wait for ever.
CallReturns ==
    call.at = "recv" /\ (call.sync \/ ~call.single) ~> call.at # "recv"

=============================================================================
