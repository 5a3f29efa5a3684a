------------------------------ MODULE MCActions ------------------------------
(***************************************************************************)
(* Commands and cancellations, instantiated for model checking.  The       *)
(* worker is the target of both commands: `order` comes from the host and  *)
(* `task` from the boss, which may cancel any command and so is the source *)
(* of one and a third party to the other.                                  *)
(***************************************************************************)
EXTENDS Actions, TLC

CONSTANTS boss, worker, order, task, k1, k2

MCRank == [p \in Partitions |-> IF p = boss THEN 1 ELSE 2]
MCSource == [c \in Commands |-> IF c = order THEN Host ELSE boss]
\* Cancel messages have no order among each other.
CancelSymmetry == Permutations(Cancels)

MCTarget == [c \in Commands |-> worker]
=============================================================================
