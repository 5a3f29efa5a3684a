----------------------------- MODULE RemoteCalls -----------------------------
(***************************************************************************)
(* What a caller of a remote engine may rely on, whatever timeouts, faults *)
(* and concurrent calls do to the connection:                              *)
(*                                                                         *)
(*   - the engine runs each call that was asked at most once, in the order *)
(*     they were asked, and a caller gets only results of calls that ran;  *)
(*   - a call is asked only while the connection is usable, and when the   *)
(*     result of the one before was got: nothing is asked again;           *)
(*   - a connection that has become unusable stays so.                     *)
(***************************************************************************)
EXTENDS Naturals, Sequences

VARIABLES
    asked,   \* number of calls asked
    ran,     \* calls the engine has run, in order
    got,     \* calls whose results were got, in order
    usable   \* calls may still be asked

vars == <<asked, ran, got, usable>>

Init == asked = 0 /\ ran = <<>> /\ got = <<>> /\ usable = TRUE

Ask ==
    /\ usable /\ got = ran /\ Len(ran) = asked
    /\ asked' = asked + 1
    /\ UNCHANGED <<ran, got, usable>>

Run ==
    /\ Len(ran) < asked
    /\ ran' = Append(ran, asked)
    /\ UNCHANGED <<asked, got, usable>>

\* The last result is got; that of a closing call ends the connection.
Get ==
    /\ usable /\ Len(got) < Len(ran)
    /\ got' = ran /\ usable' \in BOOLEAN
    /\ UNCHANGED <<asked, ran>>

Fail ==
    /\ usable /\ usable' = FALSE
    /\ UNCHANGED <<asked, ran, got>>

Next == Ask \/ Run \/ Get \/ Fail

Spec == Init /\ [][Next]_vars
=============================================================================
