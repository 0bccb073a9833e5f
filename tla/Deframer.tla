------------------------------ MODULE Deframer ------------------------------
(***************************************************************************)
(* What a receiver promises whoever feeds it: it hands complete units to   *)
(* their handlers in stream order, each once.  A prompt one has handed     *)
(* over every complete unit when it asks for more bytes.                   *)
(***************************************************************************)
EXTENDS Stream

VARIABLES
    got,        \* number of bytes received so far
    delivered,  \* starts of the units handed to the handlers, in order
    prompt      \* which of the two promises it makes

dvars == <<got, delivered, prompt>>

\* Start of the unit to deliver next; it is pending once all of it arrived.
NextStart == Consumed(delivered) + 1
Pending   == NextStart \in Starts /\ After(NextStart) - 1 <= got

Init == got = 0 /\ delivered = <<>> /\ prompt \in BOOLEAN

Arrive ==
    /\ prompt => ~Pending
    /\ \E n \in 1..(StreamLen - got) : got' = got + n
    /\ UNCHANGED <<delivered, prompt>>

Deliver ==
    /\ Pending
    /\ delivered' = Append(delivered, NextStart)
    /\ UNCHANGED <<got, prompt>>

Next == Arrive \/ Deliver

SafeSpec == Init /\ [][Next]_dvars
Spec == SafeSpec /\ WF_dvars(prompt /\ Deliver)
=============================================================================
