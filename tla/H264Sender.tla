----------------------------- MODULE H264Sender -----------------------------
(***************************************************************************)
(* What the pull server and the push client send of a file: GetNextFrame   *)
(* of H264MeidaSource cuts it at its start codes, pack of H264RtpPacker    *)
(* makes RTP packets of a frame, whole or as fragments of MaxPayload bytes. *)
(* One step is a call of GetNextFrame or one packet.                       *)
(*                                                                         *)
(* A byte is known by its position; the scanner tells 0, 1 and the others  *)
(* apart.                                                                  *)
(***************************************************************************)
EXTENDS Integers, Sequences, FiniteSetsExt

CONSTANTS
    Files,        \* the files that are looked at
    MaxPayload,   \* 1400 in the code
    SeqModulus    \* 2^16 in the code

ASSUME SenderAssumption ==
    /\ Files \subseteq Seq(Nat)
    /\ MaxPayload \in Nat \ {0} /\ SeqModulus \in Nat \ {0}

VARIABLES
    file,      \* buf_
    offset,    \* offset_, the position from which GetNextFrame scans
    pc,        \* "source", "pack", or "ended" when GetNextFrame returned nullptr
    nal,       \* where the NAL unit that is packed begins
    p, len,    \* locals of pack: the bytes that are left
    seq,       \* seq, the number of the next packet
    sent       \* packets handed to onrtp_: positions, start and end bit, number

vars == <<file, offset, pc, nal, p, len, seq, sent>>

End == Len(file) + 1

\* The scan gives up five bytes before the end.
StartCodeAt(i) ==
    /\ file[i] = 0 /\ file[i + 1] = 0
    /\ file[i + 2] = 1 \/ (file[i + 2] = 0 /\ file[i + 3] = 1)
StartCodes(from) == {i \in from..(End - 5) : StartCodeAt(i)}
Found(from) == StartCodes(from) # {}
FindStartCode(from) == Min(StartCodes(from))

NextFromLate(start) == start + 4
NextFromCode(start) == start
NextFrom(start) == start + 3
FrameEnd(start) == IF Found(NextFrom(start)) THEN FindStartCode(NextFrom(start)) ELSE End

\* removeStartCode.
CodeLength(start) == IF file[start + 2] = 1 THEN 3 ELSE 4

Init ==
    /\ file \in Files /\ offset = 1 /\ pc = "source"
    /\ nal = 1 /\ p = 1 /\ len = 0 /\ seq = 0 /\ sent = <<>>

GetNextFrame ==
    /\ pc = "source" /\ offset # End /\ Found(offset)
    /\ LET start == FindStartCode(offset)
       IN  /\ nal' = start + CodeLength(start) /\ p' = nal'
           /\ offset' = FrameEnd(start) /\ len' = offset' - nal'
    /\ pc' = "pack"
    /\ UNCHANGED <<file, seq, sent>>

NoFrame ==
    /\ pc = "source" /\ (offset = End \/ ~Found(offset))
    /\ pc' = "ended"
    /\ UNCHANGED <<file, offset, nal, p, len, seq, sent>>

-----------------------------------------------------------------------------
(* pack.                                                                   *)

Packet(from, n, first, last) ==
    [nal |-> nal, from |-> from, to |-> from + n - 1, first |-> first, last |-> last, seq |-> seq]
Emit(packet) == sent' = Append(sent, packet) /\ seq' = (seq + 1) % SeqModulus

FitsBelow == len < MaxPayload
Fits == len <= MaxPayload

Single ==
    /\ pc = "pack" /\ len > 0 /\ Fits /\ p = nal
    /\ Emit(Packet(p, len, TRUE, TRUE))
    /\ pc' = "source"
    /\ UNCHANGED <<file, offset, nal, p, len>>

LastFragment ==
    /\ pc = "pack" /\ len > 0 /\ Fits /\ p # nal
    /\ Emit(Packet(p, len, FALSE, TRUE))
    /\ pc' = "source"
    /\ UNCHANGED <<file, offset, nal, p, len>>

\* The first byte of the unit goes into the headers of its fragments.
HeaderKept == 0
HeaderTaken == 1

FirstFragment ==
    /\ pc = "pack" /\ len > 0 /\ ~Fits /\ p = nal
    /\ Emit(Packet(p + HeaderTaken, MaxPayload, TRUE, FALSE))
    /\ p' = p + 1 + MaxPayload /\ len' = len - 1 - MaxPayload
    /\ UNCHANGED <<file, offset, pc, nal>>

MiddleFragment ==
    /\ pc = "pack" /\ len > 0 /\ ~Fits /\ p # nal
    /\ Emit(Packet(p, MaxPayload, FALSE, FALSE))
    /\ p' = p + MaxPayload /\ len' = len - MaxPayload
    /\ UNCHANGED <<file, offset, pc, nal>>

\* The loop ends, for an empty unit or after a fragment that was not the last.
NothingLeft ==
    /\ pc = "pack" /\ ~(len > 0)
    /\ pc' = "source"
    /\ UNCHANGED <<file, offset, nal, p, len, seq, sent>>

Ended == pc = "ended" /\ UNCHANGED vars

Next ==
    \/ GetNextFrame \/ NoFrame
    \/ Single \/ FirstFragment \/ MiddleFragment \/ LastFragment \/ NothingLeft
    \/ Ended

Spec == Init /\ [][Next]_vars
-----------------------------------------------------------------------------
TypeOK ==
    /\ file \in Seq(Nat) /\ offset \in 1..End
    /\ pc \in {"source", "pack", "ended"}
    /\ nal \in 1..End /\ p \in 1..End /\ len \in 0..Len(file)
    /\ seq \in 0..(SeqModulus - 1)
    /\ sent \in Seq([nal : 1..End, from : 1..End, to : 0..Len(file),
                     first : BOOLEAN, last : BOOLEAN, seq : 0..(SeqModulus - 1)])

\* Packets hold bytes of the unit that was found, at most MaxPayload of them,
\* and the fragments of a unit meet: none is skipped, sent twice, or read past
\* the end of the frame, whatever the length of the unit.
FragmentsMeet ==
    \A k \in DOMAIN sent :
       LET a == sent[k] IN
       /\ a.from <= a.to /\ a.to - a.from < MaxPayload /\ a.to < offset
       /\ a.from = IF ~a.first THEN sent[k - 1].to + 1 ELSE IF a.last THEN a.nal ELSE a.nal + 1
       /\ ~a.first => k > 1 /\ sent[k - 1].nal = a.nal /\ ~sent[k - 1].last

\* Neither the scan nor the loop of pack goes on forever: a frame is found behind
\* the last one, a packet leaves less of the unit, and a file that is sent stays so,
\* whatever the bytes and the length of the unit.
Nearer ==
    \/ pc = "source" /\ pc' = "pack" /\ offset' > offset
    \/ pc = "source" /\ pc' = "ended"
    \/ pc = "pack" /\ offset' = offset /\ (pc' = "source" \/ (pc' = "pack" /\ len' < len))
Advances == [][Nearer]_vars

\* The units of a file as the byte stream format has them: a start code is
\* 0 0 1 with the zero before it, if there is one.
Prefixes == {i \in 1..(End - 3) : file[i] = 0 /\ file[i + 1] = 0 /\ file[i + 2] = 1}
CodeStart(i) == IF i > 1 /\ file[i - 1] = 0 THEN i - 1 ELSE i
LastByte(i) ==
    LET following == {j \in Prefixes : j > i}
    IN  IF following = {} THEN Len(file) ELSE CodeStart(Min(following)) - 1
Units == {<<i + 3, LastByte(i)>> : i \in {i \in Prefixes : LastByte(i) >= i + 3}}

\* What a receiver puts together: units whose end was marked.
Received == {<<sent[k].nal, sent[k].to>> : k \in {k \in DOMAIN sent : sent[k].last}}

TooLong(u) == u[2] - u[1] = MaxPayload
Unseen(i) == CodeStart(i) > Len(file) - 4

\* Every unit of the file arrives, whole and as it is in the file, and nothing
\* else does.  Lost are units of MaxPayload + 1 bytes, whose first fragment is
\* also the end; and a start code in the last four bytes is not seen, so that
\* a unit of one byte behind a short code becomes part of the unit before.
UnitsArrive ==
    pc = "ended" /\ (\A i \in Prefixes : ~Unseen(i)) =>
        Received = {u \in Units : ~TooLong(u)}
=============================================================================
