------------------------------ MODULE Instants ------------------------------
(***************************************************************************)
(* Simulation time of the kernel (aerokernel/time.py, engine.py,           *)
(* transactions.py): an Instant is a physical nanosecond and a microstep,  *)
(* ordered lexicographically.  The module holds what routing does with     *)
(* one: rounding up to a recipient's native grid and eligibility.          *)
(***************************************************************************)
EXTENDS Integers

Instant == [ns : Nat, microstep : Nat]

At(n, m) == [ns |-> n, microstep |-> m]

\* The dataclass ordering of Instant: `a < b`.
Before(a, b) == \/ a.ns < b.ns
                \/ a.ns = b.ns /\ a.microstep < b.microstep

\* The dataclass ordering of Instant: `a <= b`.
AtOrBefore(a, b) == Before(a, b) \/ a = b

Max2(a, b) == IF a >= b THEN a ELSE b

\* The members of S that nothing in S precedes: the heads of a queue whose
\* entries carry the instant they are due at.
Heads(S) == {x \in S : \A y \in S : AtOrBefore(x.at, y.at)}

(***************************************************************************)
(* Timing.boundary with origin 0: the next multiple of the native step.    *)
(* A step of 1 stands for every mode that does not latch (des, real_time). *)
(***************************************************************************)
Latch(step, n) == ((n + step - 1) \div step) * step

(***************************************************************************)
(* eligibility(requested, available, lag): the instant from which routed   *)
(* work may be dispatched.  Work routed within the instant it becomes      *)
(* available in moves to a later microstep; work pushed to another         *)
(* nanosecond, by request, lag or the grid, starts at microstep 0.         *)
(***************************************************************************)
Eligible(step, requested, available, lag) ==
    LET n == Max2(requested.ns, available.ns) + lag
        m == IF n = available.ns
             THEN Max2(requested.microstep, available.microstep + 1)
             ELSE 0
    IN  At(Latch(step, n), IF Latch(step, n) = n THEN m ELSE 0)

=============================================================================
