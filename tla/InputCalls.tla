----------------------------- MODULE InputCalls -----------------------------
(***************************************************************************)
(* What a caller of a worker may believe: the call is answered once; an    *)
(* input reported as not submitted is never executed, not even later, and  *)
(* a receipt is the receipt of that very input.  Of an uncertain input the *)
(* caller knows nothing.  There are no threads, pipes or deadlines here.   *)
(***************************************************************************)
CONSTANT Calls

VARIABLES
    executed,   \* the inputs a worker has taken up
    told        \* told[c]: what the caller of c was told: the input whose receipt
                \* it was given, "uncertain", "not_submitted", or "none" yet

vars == <<executed, told>>

Init == executed = {} /\ told = [c \in Calls |-> "none"]

Execute(c) ==
    /\ c \notin executed /\ told[c] # "not_submitted"
    /\ executed' = executed \cup {c}
    /\ UNCHANGED told

Tell(c, o) ==
    /\ told[c] = "none"
    /\ o \in Calls => o = c /\ c \in executed
    /\ o = "not_submitted" => c \notin executed
    /\ told' = [told EXCEPT ![c] = o]
    /\ UNCHANGED executed

Next == \E c \in Calls :
    Execute(c) \/ \E o \in Calls \cup {"not_submitted", "uncertain"} : Tell(c, o)

Spec == Init /\ [][Next]_vars
=============================================================================
