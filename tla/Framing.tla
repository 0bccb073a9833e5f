------------------------------ MODULE Framing -------------------------------
(***************************************************************************)
(* The receive loops Client::input (Rtsp2Client.cpp) and                   *)
(* ServerHandle::input (Rtsp2Server.cpp): append the chunk to cache_, cut  *)
(* units off the front, keep the remainder in cache_ for the next call.    *)
(* One loop turn is one step.  The two loops differ in what follows a      *)
(* complete RTSP message: the client breaks out of the loop, the server    *)
(* goes on; and only the client's message handlers make input() fail.      *)
(***************************************************************************)
EXTENDS Stream

CONSTANT Sides   \* the loops that are looked at: "client", "server" or both

ASSUME SidesAssumption == Sides \subseteq {"client", "server"}

VARIABLES
    side,        \* which of the two loops this is
    arrived,     \* bytes passed to input() so far
    data,        \* the argument of the current input() call
    cache,       \* cache_
    len,         \* local len: bytes of the current buffer not yet consumed
    needMore,    \* needMoreRtspMessage_
    pc,          \* "idle" between calls, "loop", "exit" after a break, "failed"
    delivered    \* starts of the units handed to handlers so far

vars == <<side, arrived, data, cache, len, needMore, pc, delivered>>

-----------------------------------------------------------------------------
(* What p and len denote: the last len bytes of cache_, or of the chunk    *)
(* when cache_ was empty on entry (it only changes when the loop is over). *)

Buffer == IF cache = <<>> THEN data ELSE cache

Rest(b)  == SubSeq(b, Len(b) - len + 1, Len(b))
RestHead(b) == SubSeq(b, 1, len)
RestUncut(b) == b
Kept(b) == Rest(b)

p == Buffer[Len(Buffer) - len + 1]

\* rtpOverRtsp: 0 while the header or the payload is incomplete.
RtpReadIgnoringLength(s, n) == IF n < 4 THEN 0 ELSE UnitLen[s]
RtpRead(s, n) == IF n < 4 \/ UnitLen[s] - 4 > n - 4 THEN 0 ELSE UnitLen[s]

\* RtspRequest::read / RtspResponse::read: 0 while incomplete, negative when
\* the bytes do not begin a message.
MessageRead(s, n) ==
    IF s \notin MsgStarts THEN -1 ELSE IF n < UnitLen[s] THEN 0 ELSE UnitLen[s]

AtInterleaved == p \in RtpStarts /\ ~needMore

AfterMessageBreaks == "exit"
AfterMessage == IF side = "client" THEN "exit" ELSE "loop"

NeedMoreSticks == needMore
NeedMoreAfterMessage == FALSE

-----------------------------------------------------------------------------
Init ==
    /\ side \in Sides
    /\ arrived = 0 /\ data = <<>> /\ cache = <<>> /\ len = 0
    /\ needMore = FALSE /\ pc = "idle" /\ delivered = <<>>

\* A call input(data, n): the chunk is appended to cache_ unless that is empty.
Input(n) ==
    LET chunk == [i \in 1..n |-> arrived + i]
    IN  /\ pc = "idle"
        /\ data' = chunk
        /\ cache' = IF cache = <<>> THEN <<>> ELSE cache \o chunk
        /\ len' = Len(cache) + n
        /\ arrived' = arrived + n
        /\ pc' = "loop"
        /\ UNCHANGED <<side, needMore, delivered>>

\* '$' at p and the whole packet is there: handled, and the loop goes on.
CutPacket ==
    /\ pc = "loop" /\ len > 0 /\ AtInterleaved
    /\ RtpRead(p, len) > 0
    /\ delivered' = Append(delivered, p)
    /\ len' = len - RtpRead(p, len)
    /\ UNCHANGED <<side, arrived, data, cache, needMore, pc>>

PartialPacket ==
    /\ pc = "loop" /\ len > 0 /\ AtInterleaved
    /\ RtpRead(p, len) = 0
    /\ pc' = "exit"
    /\ UNCHANGED <<side, arrived, data, cache, len, needMore, delivered>>

\* A whole request or response at p: handled without error.
CutMessage ==
    /\ pc = "loop" /\ len > 0 /\ ~AtInterleaved
    /\ MessageRead(p, len) > 0
    /\ needMore' = NeedMoreAfterMessage
    /\ delivered' = Append(delivered, p)
    /\ len' = len - MessageRead(p, len)
    /\ pc' = AfterMessage
    /\ UNCHANGED <<side, arrived, data, cache>>

PartialMessage ==
    /\ pc = "loop" /\ len > 0 /\ ~AtInterleaved
    /\ MessageRead(p, len) = 0
    /\ needMore' = TRUE
    /\ pc' = "exit"
    /\ UNCHANGED <<side, arrived, data, cache, len, delivered>>

\* input() returns an error without touching cache_: neither parser accepts
\* the bytes, or the client's response handler reports one.  The connection
\* is then closed (as the example clients do), so input() is not called again.
Failed ==
    /\ pc = "loop" /\ len > 0 /\ ~AtInterleaved
    /\ \/ MessageRead(p, len) < 0
       \/ side = "client" /\ MessageRead(p, len) > 0
    /\ needMore' = (needMore /\ MessageRead(p, len) < 0)
    /\ delivered' = IF MessageRead(p, len) > 0 THEN Append(delivered, p) ELSE delivered
    /\ pc' = "failed"
    /\ UNCHANGED <<side, arrived, data, cache, len>>

\* The epilogue: the unconsumed bytes become cache_.
Return ==
    /\ pc = "exit" \/ (pc = "loop" /\ len = 0)
    /\ cache' = Kept(Buffer)
    /\ len' = 0
    /\ data' = <<>>
    /\ pc' = "idle"
    /\ UNCHANGED <<side, arrived, needMore, delivered>>

\* The peer has nothing more to say, or the connection is closed.
Closed ==
    /\ pc = "failed" \/ (pc = "idle" /\ arrived = StreamLen)
    /\ UNCHANGED vars

InLoop == CutPacket \/ PartialPacket \/ CutMessage \/ PartialMessage \/ Failed \/ Return

Next == (\E n \in 1..(StreamLen - arrived) : Input(n)) \/ InLoop \/ Closed

\* input() runs to completion; the network delivers what the peer wrote.
Fairness == WF_vars(InLoop) /\ WF_vars(\E n \in 1..(StreamLen - arrived) : Input(n))

Spec == Init /\ [][Next]_vars
FairSpec == Spec /\ Fairness
-----------------------------------------------------------------------------
TypeOK ==
    /\ side \in Sides
    /\ arrived \in 0..StreamLen
    /\ data \in Seq(1..StreamLen) /\ cache \in Seq(1..StreamLen)
    /\ len \in 0..StreamLen
    /\ needMore \in BOOLEAN
    /\ pc \in {"idle", "loop", "exit", "failed"}
    /\ delivered \in Seq(Starts)

\* Bytes that arrived and still wait in the receiver.
Waiting == IF pc = "idle" THEN cache ELSE Rest(Buffer)

\* However the stream is cut into chunks, the bytes kept by the receiver
\* (cache_, or p..p+len inside input) are exactly those after the last
\* delivered unit, in order: no chunk boundary loses or repeats a byte.
NoByteLost ==
    pc # "failed" =>
        Waiting = [i \in 1..(arrived - Consumed(delivered)) |-> Consumed(delivered) + i]

\* Units reach the handlers in the order they were written, each exactly once.
InOrderDelivery == IsPrefixOfUnits(delivered)

\* The receiver never loses its place: every time it looks at *p, p is the
\* first byte of a unit, and needMoreRtspMessage_ (which makes the loop treat
\* even a '$' as message text) is only ever set while p is inside a message.
AlignedReads ==
    /\ (pc = "loop" /\ len > 0) =>
          /\ p \in Starts
          /\ needMore => p \in MsgStarts
    /\ pc = "idle" /\ needMore => cache # <<>> /\ cache[1] \in MsgStarts

\* Both receive loops keep the Deframer's promise, the server's the prompt one.
D == INSTANCE Deframer WITH got <- arrived, prompt <- (side = "server")
ImplementsDeframer == D!Spec

\* Every unit whose last byte was passed to input() reaches its handler,
\* unless the connection was closed on an error.
EveryUnitDelivered ==
    \A s \in Starts :
        (arrived >= After(s) - 1) ~>
            ((\E k \in DOMAIN delivered : delivered[k] = s) \/ pc = "failed")
=============================================================================
