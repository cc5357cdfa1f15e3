---------------------------- MODULE BoundedReader ----------------------------
(***************************************************************************)
(* What a caller may rely on when it hands an input to a decoder: the      *)
(* input is only ever consumed forwards and never past its end, values are *)
(* entered and left one at a time and nest no deeper than the limit, and   *)
(* there is one outcome, reported when every value has been left.          *)
(***************************************************************************)
EXTENDS Integers

CONSTANT Limit          \* DecoderOptions::remaining_depth

VARIABLES
    size,               \* the length of the input
    consumed,           \* how much of it the caller's decoder has moved past
    level,              \* values entered and not left
    outcome             \* "running" or what decode returned

reader == <<size, consumed, level, outcome>>

Outcomes == {"ok", "err", "depth"}

Init == size \in Nat /\ consumed = 0 /\ level = 0 /\ outcome = "running"

Read ==
    /\ outcome = "running"
    /\ consumed' \in consumed..size
    /\ level' \in {level - 1, level, level + 1} /\ level' \in 0..Limit
    /\ UNCHANGED <<size, outcome>>

Report ==
    /\ outcome = "running"
    /\ level = 0
    /\ outcome' \in Outcomes
    /\ UNCHANGED <<size, consumed, level>>

Next == Read \/ Report
Spec == Init /\ [][Next]_reader
=============================================================================
