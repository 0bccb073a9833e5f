------------------------------- MODULE Stream -------------------------------
(***************************************************************************)
(* The bytes one peer writes to the RTSP connection.  A byte is known by   *)
(* its position 1..StreamLen; what the parsers look at is which positions  *)
(* begin a unit (an RTSP message or an interleaved '$' packet) and how     *)
(* long that unit is.  Both Client::input and ServerHandle::input cut this *)
(* stream back into units.                                                 *)
(***************************************************************************)
EXTENDS Integers, Sequences

CONSTANTS
    StreamLen,   \* number of bytes the peer writes
    Starts,      \* positions at which a unit begins
    RtpStarts,   \* those units that are interleaved packets ('$' channel len len ...)
    UnitLen      \* length of the unit that begins at a position

\* The peer writes whole units back to back; an interleaved packet has the
\* four-byte header that rtpOverRtsp reads, a message at least one byte.
ASSUME StreamAssumption ==
    /\ StreamLen \in Nat \ {0}
    /\ Starts \subseteq 1..StreamLen
    /\ 1 \in Starts
    /\ RtpStarts \subseteq Starts
    /\ UnitLen \in [Starts -> Nat \ {0}]
    /\ \A s \in RtpStarts : UnitLen[s] >= 4
    /\ \A s \in Starts : s + UnitLen[s] \in Starts \cup {StreamLen + 1}

MsgStarts == Starts \ RtpStarts

\* Position just after the unit that begins at s.
After(s) == s + UnitLen[s]

\* Number of bytes taken off the stream once the units in d are cut.
Consumed(d) == IF d = <<>> THEN 0 ELSE After(d[Len(d)]) - 1

\* The units in d are the first ones of the stream, none skipped or repeated.
IsPrefixOfUnits(d) ==
    /\ d \in Seq(Starts)
    /\ d # <<>> => d[1] = 1
    /\ \A k \in 1..(Len(d) - 1) : d[k + 1] = After(d[k])
=============================================================================
