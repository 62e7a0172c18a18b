---------------------------- MODULE PortAllocator ----------------------------
(***************************************************************************)
(* What the workers of a test session expect of the registry of ports, as  *)
(* if it were one object that does each call at once: a port is given to   *)
(* one worker, a worker gives all of its ports back or loses them, and     *)
(* what is lost is not given again.                                        *)
(***************************************************************************)
CONSTANTS Workers, Ports

VARIABLES owned,   \* the ports of the current controller of each worker
          lost     \* ports that nobody owns and nobody will get

vars == <<owned, lost>>

OwnedByOthers(w) == UNION {owned[v] : v \in Workers \ {w}}

Init ==
    /\ owned = [w \in Workers |-> {}]
    /\ lost = {}

\* get_hostname_and_port()
Allocate(w) ==
    /\ \E p \in Ports \ (lost \cup owned[w] \cup OwnedByOthers(w)) :
          owned' = [owned EXCEPT ![w] = @ \cup {p}]
    /\ UNCHANGED lost

\* kill()
Free(w) ==
    /\ owned' = [owned EXCEPT ![w] = {}]
    /\ UNCHANGED lost

\* A controller is dropped without kill(), or its worker dies: some of its
\* ports are lost.
Lose(w) ==
    /\ owned' = [owned EXCEPT ![w] = {}]
    /\ \E S \in SUBSET owned[w] : lost' = lost \cup S

\* A worker dies while it rewrites the file: nobody gets a port any more.
Break(w) ==
    /\ owned' = [owned EXCEPT ![w] = {}]
    /\ lost' = Ports \ OwnedByOthers(w)

Next == \E w \in Workers : Allocate(w) \/ Free(w) \/ Lose(w) \/ Break(w)

Spec == Init /\ [][Next]_vars

=============================================================================
