---------------------------- MODULE RequestReply ----------------------------
(***************************************************************************)
(* What an RTSP server promises a connection: every request it reads gets  *)
(* one answer, at once or later, and nothing is answered that was not      *)
(* asked.  Answers may overtake each other.                                *)
(***************************************************************************)
CONSTANT Requests    \* the requests a peer may send

VARIABLES
    asked,      \* requests read so far
    answered    \* requests answered so far

rrvars == <<asked, answered>>

Init == asked = {} /\ answered = {}

\* A request is read and answered at once...
AskAndAnswer(c) ==
    /\ c \notin asked
    /\ asked' = asked \cup {c}
    /\ answered' = answered \cup {c}

\* ...or kept for later.
Ask(c) ==
    /\ c \notin asked
    /\ asked' = asked \cup {c}
    /\ UNCHANGED answered

Answer(c) ==
    /\ c \in asked \ answered
    /\ answered' = answered \cup {c}
    /\ UNCHANGED asked

Next == \E c \in Requests : AskAndAnswer(c) \/ Ask(c) \/ Answer(c)

SafeSpec == Init /\ [][Next]_rrvars

\* No request waits for ever.
AllAnswered == \A c \in Requests : (c \in asked) ~> (c \in answered)
=============================================================================
