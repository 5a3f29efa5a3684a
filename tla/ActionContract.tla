--------------------------- MODULE ActionContract ---------------------------
(***************************************************************************)
(* What a requester may rely on about the commands of a run, whatever      *)
(* waves, batches and cancellations do to them:                            *)
(*                                                                         *)
(*   - a command has an outcome only after it was handed to its target;    *)
(*   - an outcome is final;                                                *)
(*   - a cancellation is granted before the outcome, and once granted it   *)
(*     excludes success; nothing is canceled that was not granted.         *)
(*                                                                         *)
(* A step of the kernel publishes a whole wave, so it may take several     *)
(* commands several stages further at once.                                *)
(***************************************************************************)
CONSTANT Commands

VARIABLES
    handed,   \* handed[c]: c has been dispatched to its target
    granted,  \* granted[c]: a cancellation of c has been accepted
    outcome   \* outcome[c]: "open", or how c ended

vars == <<handed, granted, outcome>>

Outcomes == {"rejected", "succeeded", "failed", "canceled"}

Init ==
    /\ handed = [c \in Commands |-> FALSE]
    /\ granted = [c \in Commands |-> FALSE]
    /\ outcome = [c \in Commands |-> "open"]

Fits(c) ==
    /\ granted[c] => outcome[c] \in {"open", "failed", "canceled"}
    /\ outcome[c] = "canceled" => granted[c]
    /\ outcome[c] # "open" \/ granted[c] => handed[c]

Progress(c) ==
    /\ handed[c] => handed'[c]
    /\ granted[c] => granted'[c]
    /\ outcome[c] # "open" => outcome'[c] = outcome[c] /\ granted'[c] = granted[c]
    /\ (outcome'[c] # outcome[c] \/ granted'[c] # granted[c]) => handed[c]
    /\ Fits(c)'

Next ==
    /\ handed' \in [Commands -> BOOLEAN]
    /\ granted' \in [Commands -> BOOLEAN]
    /\ outcome' \in [Commands -> Outcomes \cup {"open"}]
    /\ \A c \in Commands : Progress(c)

Spec == Init /\ [][Next]_vars
=============================================================================
