------------------------------- MODULE Outbox -------------------------------
(***************************************************************************)
(* What a sender promises whoever hands it messages: as long as the        *)
(* connection lasts they go out in the order in which they were handed     *)
(* over, each once, and none is left behind.                               *)
(***************************************************************************)
EXTENDS Sequences

CONSTANTS Messages, NoMessage

VARIABLES
    queue,     \* accepted and not written yet
    last,      \* the message written last
    broken     \* the connection is gone

ovars == <<queue, last, broken>>

Init == queue = <<>> /\ last = NoMessage /\ broken = FALSE

Accept ==
    /\ ~broken
    /\ \E m \in Messages : queue' = Append(queue, m)
    /\ UNCHANGED <<last, broken>>

Write ==
    /\ ~broken /\ queue # <<>>
    /\ last' = Head(queue) /\ queue' = Tail(queue)
    /\ UNCHANGED broken

\* What was not written is lost with the connection.
Break ==
    /\ ~broken
    /\ broken' = TRUE /\ queue' = <<>>
    /\ UNCHANGED last

Next == Accept \/ Write \/ Break

SafeSpec == Init /\ [][Next]_ovars
Spec == SafeSpec /\ WF_ovars(Write)
=============================================================================
