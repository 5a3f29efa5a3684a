------------------------------ MODULE Custody -------------------------------
(***************************************************************************)
(* What the sender of a job may rely on: the job is in one place at a      *)
(* time, and leaves a vehicle only because it is over, or has failed, or   *)
(* because another vehicle has agreed to take it, which then is the one    *)
(* that gets it.  One that fails although another has agreed to take it    *)
(* may still be taken: it is not final that it has failed.  There are no   *)
(* incidents, flights or decisions here.                                   *)
(***************************************************************************)
CONSTANTS Jobs, Vehicles, None

VARIABLES
    place,   \* place[j]: "queue", a vehicle, "between" two vehicles, "spoilt", "over"
    taker    \* taker[j]: the vehicle that has agreed to take j over, or None

vars == <<place, taker>>

Init == place = [j \in Jobs |-> "queue"] /\ taker = [j \in Jobs |-> None]

Assign(j, v) ==
    /\ place[j] = "queue"
    /\ place' = [place EXCEPT ![j] = v] /\ UNCHANGED taker

\* Another vehicle agrees; the job may change hands at once or stay for now.
Agree(j, v) ==
    /\ place[j] \in Vehicles \ {v} /\ taker[j] = None
    /\ taker' = [taker EXCEPT ![j] = v]
    /\ place' \in {place, [place EXCEPT ![j] = "between"]}

\* It fails although another vehicle waits for it.
Spoil(j) ==
    /\ place[j] \in Vehicles /\ taker[j] # None
    /\ place' = [place EXCEPT ![j] = "spoilt"] /\ UNCHANGED taker

\* Jobs are left for those who take them: seldom more than one at once.
Leave(S) ==
    /\ \A j \in S : place[j] \in Vehicles \cup {"spoilt"} /\ taker[j] # None
    /\ place' = [j \in Jobs |-> IF j \in S THEN "between" ELSE place[j]] /\ UNCHANGED taker

Take(j) ==
    /\ place[j] = "between"
    /\ place' = [place EXCEPT ![j] = taker[j]] /\ taker' = [taker EXCEPT ![j] = None]

\* Completed or failed.
End(j) ==
    /\ place[j] \in Vehicles /\ taker[j] = None
    /\ place' = [place EXCEPT ![j] = "over"] /\ UNCHANGED taker

Next ==
    \/ \E S \in SUBSET Jobs : Leave(S)
    \/ \E j \in Jobs : \/ Spoil(j) \/ Take(j) \/ End(j)
                     \/ \E v \in Vehicles : Assign(j, v) \/ Agree(j, v)

Spec == Init /\ [][Next]_vars
=============================================================================
