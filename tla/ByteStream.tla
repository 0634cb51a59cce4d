----------------------------- MODULE ByteStream -----------------------------
(***************************************************************************)
(* What one direction of a face promises (lib/core/transports.js:22-24:    *)
(* "Every transport resolves to a uniform duplex face"): whatever lies     *)
(* between, the far side gets the bytes that were put in, in order, each   *)
(* once, and nothing else, until the direction is over.                    *)
(***************************************************************************)
EXTENDS Naturals, Sequences

VARIABLES
    given,  \* how many bytes were put in; a byte is its position
    got,    \* the bytes that came out
    over    \* no more will come out

Init == given = 0 /\ got = <<>> /\ over = FALSE

Put == given' \in Nat /\ given' >= given

Take ==
    \E n \in 0 .. given' - Len(got) :
        got' = got \o [i \in 1 .. n |-> Len(got) + i]

End == over' = TRUE

\* Bytes may go in and come out in one step, and none comes out past the end.
Next == Put /\ (over => End /\ got' = got) /\ Take /\ (End \/ UNCHANGED over)

Spec == Init /\ [][Next]_<<given, got, over>>

=============================================================================
