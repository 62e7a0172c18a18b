----------------------------- MODULE FifoChannel -----------------------------
(***************************************************************************)
(* What a test expects of the connection of one mocked client: every line  *)
(* the server wrote is handed to the test, once and in order.  The only    *)
(* lines that may disappear are answers to the PINGs that the client emits *)
(* on its own.                                                             *)
(***************************************************************************)
EXTENDS Naturals, Sequences

CONSTANT Message          \* lines a server writes

VARIABLES queue,          \* lines written and not handed to the test yet
          delivered       \* lines handed to the test

vars == <<queue, delivered>>

Init ==
    /\ queue = <<>>
    /\ delivered = <<>>

\* The server writes one more line.
Write ==
    /\ queue' \in Seq(Message)
    /\ Len(queue') = Len(queue) + 1
    /\ SubSeq(queue', 1, Len(queue)) = queue
    /\ UNCHANGED delivered

Without(q, i) == SubSeq(q, 1, i - 1) \o SubSeq(q, i + 1, Len(q))

\* The queue, perhaps without one PONG.
Visible == {queue} \cup
    {Without(queue, i) : i \in {j \in 1..Len(queue) : queue[j].kind = "pong"}}

\* The test gets some lines, perhaps none, from the head of the queue.
Deliver ==
    \E q \in Visible : \E n \in 0..Len(q) :
        /\ delivered' = delivered \o SubSeq(q, 1, n)
        /\ queue' = SubSeq(q, n + 1, Len(q))

Next == Deliver \/ Write

Spec == Init /\ [][Next]_vars

=============================================================================
