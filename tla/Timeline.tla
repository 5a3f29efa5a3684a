------------------------------ MODULE Timeline ------------------------------
(***************************************************************************)
(* What the kernel promises to the sources and the hosts of a run about    *)
(* physical time, whatever its execution thread does and in whatever order *)
(* host threads call it:                                                   *)
(*                                                                         *)
(*   - a partition is served time n only once every stream that influences *)
(*     it is closed through n;                                             *)
(*   - a reservation is taken beyond the instant being served, and is      *)
(*     published at exactly the boundary it was reserved for, when the     *)
(*     influence of its target is closed through it;                       *)
(*   - an instant is sealed once everyone has reached it with nothing      *)
(*     awaiting publication in it, and is never opened again.              *)
(***************************************************************************)
EXTENDS Integers

CONSTANTS Partitions, Streams, Deps, Commands, Target

VARIABLES
    now,        \* physical time that is being served
    sealed,     \* physical time that is over for everyone, -1 before time 0
    reached,    \* reached[p]: physical time partition p has been served
    closedTo,   \* closedTo[s]: physical time through which s sends no more
    awaiting    \* commands with the boundary they are reserved for

vars == <<now, sealed, reached, closedTo, awaiting>>

ClosedFor(p, n) == \A s \in Deps[p] : closedTo[s] >= n

Init ==
    /\ now = 0 /\ sealed = -1 /\ awaiting = {}
    /\ reached = [p \in Partitions |-> 0]
    /\ closedTo \in [Streams -> Nat]

\* A stream asserts a longer closed prefix.
CloseTo(s) ==
    /\ \E n \in {closedTo'[s]} :
          n > closedTo[s] /\ closedTo' = [closedTo EXCEPT ![s] = n]
    /\ UNCHANGED <<now, sealed, reached, awaiting>>

\* A command is reserved for a boundary that is still to come.
Admit(c) ==
    /\ \A d \in awaiting : d.cmd # c
    /\ \E d \in awaiting' :
          d.cmd = c /\ d.boundary > now /\ awaiting' = awaiting \cup {d}
    /\ UNCHANGED <<now, sealed, reached, closedTo>>

\* The partitions P are served the same unsealed time, now or a later one:
\* nobody is when the engines fail, and the run is over.
Serve(P) ==
    /\ now' >= now /\ now' > sealed
    /\ \A p \in P : reached[p] < now' /\ ClosedFor(p, now')
    /\ \A d \in awaiting : now' <= d.boundary
    /\ reached' = [p \in Partitions |-> IF p \in P THEN now' ELSE reached[p]]
    /\ UNCHANGED <<sealed, closedTo, awaiting>>

\* Reserved commands are handed to their targets at their boundary.
Publish ==
    /\ awaiting' \subseteq awaiting
    /\ \A d \in awaiting \ awaiting' :
          d.boundary = now /\ ClosedFor(Target[d.cmd], now)
    /\ UNCHANGED <<now, sealed, reached, closedTo>>

\* The time being served is over for everyone.
Seal ==
    /\ now > sealed /\ sealed' = now
    /\ \A p \in Partitions : reached[p] = now /\ ClosedFor(p, now)
    /\ \A d \in awaiting : d.boundary > now
    /\ UNCHANGED <<now, reached, closedTo, awaiting>>

Next ==
    \/ \E s \in Streams : CloseTo(s)
    \/ \E c \in Commands : Admit(c)
    \/ \E P \in SUBSET Partitions : Serve(P)
    \/ Publish
    \/ Seal

Spec == Init /\ [][Next]_vars
=============================================================================
