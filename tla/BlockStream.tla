---------------------------- MODULE BlockStream ----------------------------
(***************************************************************************)
(* What a synchronisation promises to the chain it feeds: the blocks after *)
(* the common ancestor come out in order, each one once and with all the   *)
(* content its header commits to, and a synchronisation that reports       *)
(* success has handed out every one of them.                               *)
(***************************************************************************)
EXTENDS Naturals, Sequences

CONSTANTS
    Height,      \* the blocks to come out are 1..Height
    Content(_)   \* what the header of a block commits to

VARIABLES out, outcome

Complete(b) == [number |-> b, parts |-> Content(b)]

Init == out = <<>> /\ outcome = "running"

HandOut ==
    \E n \in 1..(Height - Len(out)) :
        /\ out' = out \o [i \in 1..n |-> Complete(Len(out) + i)]
        /\ UNCHANGED outcome

Succeed ==
    /\ outcome = "running" /\ Len(out) = Height
    /\ outcome' = "success"
    /\ UNCHANGED out

Fail ==
    /\ outcome = "running"
    /\ outcome' = "failure"
    /\ UNCHANGED out

Next == HandOut \/ Succeed \/ Fail

Spec == Init /\ [][Next]_<<out, outcome>>
=============================================================================
