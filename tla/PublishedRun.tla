---------------------------- MODULE PublishedRun ----------------------------
(***************************************************************************)
(* What the directory of one run promises to whoever reads it: the         *)
(* published prefix covers acknowledged records only and never shrinks,    *)
(* and the outcome is decided once, after the writer is gone.  It knows    *)
(* nothing of files, threads, flushes or crashes.                          *)
(***************************************************************************)
EXTENDS Naturals

CONSTANTS
    Undecided,  \* the run has no final outcome yet
    Outcomes    \* the outcomes a run may end with

VARIABLES
    produced,   \* records the writer has acknowledged
    published,  \* records readers may rely on
    outcome     \* the final outcome, or Undecided

vars == <<produced, published, outcome>>

Init == produced = 0 /\ published = 0 /\ outcome = Undecided

\* The writer acknowledges one more record.
Produce ==
    /\ outcome = Undecided
    /\ produced' = produced + 1
    /\ UNCHANGED <<published, outcome>>

\* More of what is acknowledged is published.
Publish ==
    /\ outcome = Undecided
    /\ published' \in published .. produced
    /\ UNCHANGED <<produced, outcome>>

Decide ==
    /\ outcome = Undecided
    /\ outcome' \in Outcomes
    /\ UNCHANGED <<produced, published>>

Next == Produce \/ Publish \/ Decide

Spec == Init /\ [][Next]_vars
=============================================================================
