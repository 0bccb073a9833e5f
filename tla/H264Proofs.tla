----------------------------- MODULE H264Proofs -----------------------------
(***************************************************************************)
(* For every file, every payload size and every modulus: the packets of a   *)
(* unit meet and stay within the frame that was found, and the units of the *)
(* file are what a receiver puts together.                                  *)
(***************************************************************************)
EXTENDS H264Sender, SequenceTheorems, WellFoundedInduction, TLAPS

Packets == [nal : 1..End, from : 1..End, to : 0..Len(file),
            first : BOOLEAN, last : BOOLEAN, seq : 0..(SeqModulus - 1)]

\* While a unit is packed, what is left of it ends where the frame ends.
RestOfFrame == pc = "pack" => p + len = offset /\ nal <= p

\* Once its header is gone, the packet before is a fragment that ends there.
Resumes ==
    pc = "pack" /\ p # nal =>
        /\ sent # <<>>
        /\ sent[Len(sent)].nal = nal /\ ~sent[Len(sent)].last /\ sent[Len(sent)].to = p - 1

IInv == TypeOK /\ RestOfFrame /\ Resumes /\ FragmentsMeet

-----------------------------------------------------------------------------
(* The scan.                                                               *)

\* Natural numbers have a least one among them.
LEMMA LeastExists ==
    ASSUME NEW S \in SUBSET Nat, S # {}
    PROVE  Min(S) \in S /\ \A y \in S : Min(S) <= y
<1>1. \E x \in S : \A y \in S : <<y, x>> \notin OpToRel(<, Nat)
  BY NatLessThanWellFounded, WFMin
<1>2. PICK x \in S : \A y \in S : <<y, x>> \notin OpToRel(<, Nat)
  BY <1>1
<1>3. \A y \in S : ~(y < x)
  <2> TAKE y \in S
  <2>1. y \in Nat /\ x \in Nat
    OBVIOUS
  <2>2. <<y, x>> \in Nat \X Nat
    BY <2>1
  <2>3. y < x => <<y, x>> \in OpToRel(<, Nat)
    BY <2>2 DEF OpToRel
  <2> QED BY <2>3, <1>2
<1>4. \A y \in S : x <= y
  BY <1>3
<1> QED BY <1>4 DEF Min

\* The start code that is found lies between the scan's start and its end.
LEMMA FoundIsStartCode ==
    ASSUME NEW from \in Nat, Found(from), End \in Nat
    PROVE  /\ FindStartCode(from) \in from..(End - 5)
           /\ StartCodeAt(FindStartCode(from))
<1>1. StartCodes(from) \in SUBSET Nat /\ StartCodes(from) # {}
  BY DEF StartCodes, Found
<1>2. FindStartCode(from) \in StartCodes(from)
  BY <1>1, LeastExists DEF FindStartCode
<1> QED BY <1>2 DEF StartCodes

\* The next start code lies behind this one's bytes, also where the scan for it
\* begins within them: the fourth byte of a long code is no zero.
LEMMA FrameBehindCode ==
    ASSUME file \in Seq(Nat), NEW s \in 1..(End - 5), StartCodeAt(s)
    PROVE  /\ CodeLength(s) \in {3, 4}
           /\ FrameEnd(s) \in (s + CodeLength(s))..End
<1>1. Len(file) \in Nat /\ End \in Nat /\ End = Len(file) + 1
  BY DEF End
<1>2. CodeLength(s) \in {3, 4}
  BY DEF CodeLength
<1>3. CASE ~Found(NextFrom(s))
  BY <1>1, <1>2, <1>3 DEF FrameEnd
<1>4. CASE Found(NextFrom(s))
  <2>1. NextFrom(s) \in Nat /\ NextFrom(s) = s + 3
    BY DEF NextFrom
  <2>2. /\ FindStartCode(NextFrom(s)) \in (s + 3)..(End - 5)
        /\ StartCodeAt(FindStartCode(NextFrom(s)))
    BY <1>1, <1>4, <2>1, FoundIsStartCode
  <2>3. FrameEnd(s) = FindStartCode(NextFrom(s))
    BY <1>4 DEF FrameEnd
  <2>4. CASE CodeLength(s) = 3
    BY <1>1, <2>2, <2>3, <2>4
  <2>5. CASE CodeLength(s) = 4
    <3>1. file[s + 2] # 1
      BY <2>5 DEF CodeLength
    <3>2. file[s + 3] = 1
      BY <3>1 DEF StartCodeAt
    <3>3. ~StartCodeAt(s + 3)
      BY <3>2 DEF StartCodeAt
    <3>4. FrameEnd(s) # s + 3
      BY <2>2, <2>3, <3>3
    <3>5. PICK e : e = FrameEnd(s) /\ e \in (s + 3)..(End - 5) /\ e # s + 3
      BY <2>2, <2>3, <3>4
    <3>6. e \in (s + 4)..End
      BY <1>1, <3>5
    <3> QED BY <1>2, <2>5, <3>5, <3>6
  <2> QED BY <1>2, <2>4, <2>5
<1> QED BY <1>2, <1>3, <1>4

-----------------------------------------------------------------------------
(* One more packet.                                                        *)

\* A packet that meets the one before can be sent.
LEMMA OneMoreMeets ==
    ASSUME TypeOK, FragmentsMeet, NEW a \in Packets, sent' = Append(sent, a), offset' = offset,
           a.from <= a.to, a.to - a.from < MaxPayload, a.to < offset,
           a.first => a.from = IF a.last THEN a.nal ELSE a.nal + 1,
           ~a.first => /\ sent # <<>> /\ a.from = sent[Len(sent)].to + 1
                       /\ sent[Len(sent)].nal = a.nal /\ ~sent[Len(sent)].last
    PROVE  FragmentsMeet'
<1>1. sent \in Seq(Packets)
  BY DEF TypeOK, Packets
<1>2. /\ Len(sent) \in Nat /\ DOMAIN sent = 1..Len(sent)
      /\ DOMAIN sent' = 1..(Len(sent) + 1)
      /\ sent'[Len(sent) + 1] = a
      /\ \A k \in 1..Len(sent) : sent'[k] = sent[k]
  BY <1>1, AppendProperties, LenProperties
<1> SUFFICES ASSUME NEW k \in 1..(Len(sent) + 1)
             PROVE  /\ sent'[k].from <= sent'[k].to /\ sent'[k].to - sent'[k].from < MaxPayload
                    /\ sent'[k].to < offset
                    /\ sent'[k].from = IF ~sent'[k].first THEN sent'[k - 1].to + 1
                                       ELSE IF sent'[k].last THEN sent'[k].nal ELSE sent'[k].nal + 1
                    /\ ~sent'[k].first => /\ k > 1 /\ sent'[k - 1].nal = sent'[k].nal
                                          /\ ~sent'[k - 1].last
  BY <1>2 DEF FragmentsMeet
<1>3. CASE k = Len(sent) + 1
  <2>1. sent # <<>> => k > 1 /\ sent'[k - 1] = sent[Len(sent)]
    <3> SUFFICES ASSUME sent # <<>> PROVE k > 1 /\ sent'[k - 1] = sent[Len(sent)]
      OBVIOUS
    <3>1. Len(sent) >= 1
      BY <1>1, EmptySeq
    <3> QED BY <1>2, <1>3, <3>1
  <2> QED BY <1>2, <1>3, <2>1
<1>4. CASE k # Len(sent) + 1
  <2>1. k \in 1..Len(sent) /\ sent'[k] = sent[k]
    BY <1>2, <1>4
  <2>2. /\ sent[k].from <= sent[k].to /\ sent[k].to - sent[k].from < MaxPayload
        /\ sent[k].to < offset
        /\ sent[k].from = IF ~sent[k].first THEN sent[k - 1].to + 1
                          ELSE IF sent[k].last THEN sent[k].nal ELSE sent[k].nal + 1
        /\ ~sent[k].first => k > 1 /\ sent[k - 1].nal = sent[k].nal /\ ~sent[k - 1].last
    BY <1>2, <2>1 DEF FragmentsMeet
  <2>3. ~sent[k].first => sent'[k - 1] = sent[k - 1]
    BY <1>2, <2>1, <2>2
  <2> QED BY <2>1, <2>2, <2>3
<1> QED BY <1>3, <1>4

\* It is the last one then.
LEMMA LastOne ==
    ASSUME sent \in Seq(Packets), NEW a \in Packets, sent' = Append(sent, a)
    PROVE  sent' \in Seq(Packets) /\ sent' # <<>> /\ sent'[Len(sent')] = a
  BY AppendProperties

-----------------------------------------------------------------------------
\* Nothing is found and nothing sent.
LEMMA InitIInv == Init => IInv
<1> SUFFICES ASSUME Init PROVE IInv
  OBVIOUS
<1>1. file \in Seq(Nat) /\ Len(file) \in Nat
  BY SenderAssumption DEF Init
<1>2. 0 \in 0..(SeqModulus - 1)
  BY SenderAssumption
<1>3. sent \in Seq(Packets)
  BY EmptySeq DEF Init
<1>4. TypeOK
  BY <1>1, <1>2, <1>3 DEF Init, TypeOK, End, Packets
<1>5. FragmentsMeet
  BY DEF Init, FragmentsMeet
<1> QED BY <1>4, <1>5 DEF IInv, Init, RestOfFrame, Resumes

\* The number of the next packet stays below the modulus.
LEMMA NumberInRange ==
    ASSUME seq \in 0..(SeqModulus - 1)
    PROVE  (seq + 1) % SeqModulus \in 0..(SeqModulus - 1)
  BY SenderAssumption

\* What is left between two positions.
LEMMA Remainder ==
    ASSUME NEW a \in Nat, NEW b \in Nat, NEW n \in Nat, 1 <= a, a <= b, b <= n + 1
    PROVE  b - a \in 0..n /\ a + (b - a) = b
  OBVIOUS

\* A frame begins behind its start code and ends before the next one.
LEMMA FrameIInv == ASSUME IInv, GetNextFrame PROVE IInv'
<1> DEFINE s == FindStartCode(offset)
<1>1. file \in Seq(Nat) /\ Len(file) \in Nat /\ End = Len(file) + 1 /\ offset \in 1..End
  BY DEF IInv, TypeOK, End
<1>2. s \in offset..(End - 5) /\ StartCodeAt(s)
  BY <1>1, FoundIsStartCode DEF GetNextFrame
<1>3. CodeLength(s) \in {3, 4} /\ FrameEnd(s) \in (s + CodeLength(s))..End
  BY <1>1, <1>2, FrameBehindCode
<1>4. /\ nal' = s + CodeLength(s) /\ p' = nal' /\ offset' = FrameEnd(s) /\ len' = offset' - nal'
      /\ pc' = "pack" /\ UNCHANGED <<file, seq, sent>>
  BY DEF GetNextFrame
<1> HIDE DEF s
<1>5. /\ nal' \in 1..End /\ p' \in 1..End /\ offset' \in 1..End /\ len' \in 0..Len(file)
      /\ offset <= offset' /\ End' = End /\ p' + len' = offset'
  <2>1. End' = End
    BY <1>4 DEF End
  <2>2. /\ offset \in Nat \ {0} /\ s \in Nat /\ offset <= s /\ Len(file) \in Nat /\ End = Len(file) + 1
        /\ CodeLength(s) \in Nat /\ CodeLength(s) >= 3
    BY <1>1, <1>2, <1>3, SMTT(30)
  <2>3. FrameEnd(s) \in Nat /\ s + CodeLength(s) <= FrameEnd(s) /\ FrameEnd(s) <= End
    BY <1>3, <2>2
  <2>4. nal' \in Nat /\ offset' \in Nat /\ offset + 3 <= nal' /\ nal' <= offset' /\ offset' <= End
    BY ONLY <1>4, <2>2, <2>3
  <2>5. p' = nal' /\ len' = offset' - nal'
    BY <1>4
  <2>6. nal' \in 1..End /\ offset' \in 1..End /\ offset <= offset'
    BY ONLY <2>2, <2>4
  <2>7. offset' - nal' \in 0..Len(file) /\ nal' + (offset' - nal') = offset'
    <3>1. 1 <= nal'
      BY ONLY <2>2, <2>4
    <3>2. offset' <= Len(file) + 1
      BY ONLY <2>2, <2>4
    <3> QED BY <2>2, <2>4, <3>1, <3>2, Remainder, Zenon
  <2>8. len' \in 0..Len(file) /\ p' + len' = offset'
    BY <2>5, <2>7, Zenon
  <2> QED BY <2>1, <2>5, <2>6, <2>7, <2>8
<1>6. TypeOK'
  BY <1>4, <1>5 DEF IInv, TypeOK
<1>7. FragmentsMeet'
  <2>1. \A k \in DOMAIN sent : sent[k].to < offset'
    <3> TAKE k \in DOMAIN sent
    <3>1. sent[k] \in Packets
      BY ElementOfSeq, LenProperties DEF IInv, TypeOK, Packets
    <3>2. sent[k].to < offset /\ sent[k].to \in Int
      BY <3>1, <1>1 DEF IInv, FragmentsMeet, Packets
    <3> QED BY <1>1, <1>5, <3>2
  <2> QED BY <1>4, <2>1 DEF IInv, FragmentsMeet
<1>8. RestOfFrame' /\ Resumes'
  BY <1>4, <1>5 DEF RestOfFrame, Resumes
<1> QED BY <1>6, <1>7, <1>8 DEF IInv

\* A packet of the frame's bytes is a packet.
LEMMA InFrame ==
    ASSUME IInv, NEW from \in Nat, NEW n \in Nat \ {0}, from >= 1, from + n <= offset
    PROVE  /\ nal \in 1..End /\ from \in 1..End /\ from + n - 1 \in 0..Len(file)
           /\ seq \in 0..(SeqModulus - 1)
<1>1. /\ offset \in 1..End /\ nal \in 1..End /\ seq \in 0..(SeqModulus - 1)
      /\ End = Len(file) + 1 /\ Len(file) \in Nat
  BY DEF IInv, TypeOK, End
<1> QED BY <1>1

\* What the four ways to send a packet have in common.
LEMMA EmitFacts ==
    ASSUME IInv, NEW a \in Packets, Emit(a), file' = file
    PROVE  /\ sent' = Append(sent, a) /\ sent' \in Seq(Packets) /\ sent' # <<>>
           /\ sent'[Len(sent')] = a
           /\ seq' \in 0..(SeqModulus - 1) /\ End' = End
<1>1. seq \in 0..(SeqModulus - 1) /\ sent \in Seq(Packets)
  BY DEF IInv, TypeOK, Packets
<1>2. sent' = Append(sent, a) /\ seq' = (seq + 1) % SeqModulus
  BY DEF Emit
<1>3. sent' \in Seq(Packets) /\ sent' # <<>> /\ sent'[Len(sent')] = a
  BY <1>1, <1>2, LastOne
<1> QED BY <1>1, <1>2, <1>3, NumberInRange DEF End

\* A unit that is done leaves nothing to resume.
LEMMA Done ==
    ASSUME IInv, pc' = "source", UNCHANGED <<file, offset, nal, p, len>>, End' = End,
           sent' \in Seq(Packets), seq' \in 0..(SeqModulus - 1), FragmentsMeet'
    PROVE  IInv'
<1>1. TypeOK'
  BY DEF IInv, TypeOK, Packets
<1> QED BY <1>1 DEF IInv, RestOfFrame, Resumes

\* What is known of the unit before a packet of it is sent.
LEMMA UnitFacts ==
    ASSUME IInv, pc = "pack", len > 0
    PROVE  /\ p \in Nat /\ len \in Nat \ {0} /\ offset \in Nat /\ nal \in Nat /\ nal >= 1 /\ nal <= p
           /\ p + len = offset /\ MaxPayload \in Nat \ {0} /\ End \in Nat /\ offset <= End
           /\ End = Len(file) + 1 /\ Len(file) \in Nat
           /\ p # nal => /\ sent # <<>> /\ sent[Len(sent)].nal = nal
                         /\ ~sent[Len(sent)].last /\ sent[Len(sent)].to = p - 1
<1>1. /\ file \in Seq(Nat) /\ offset \in 1..End /\ nal \in 1..End /\ p \in 1..End /\ len \in 0..Len(file)
      /\ End = Len(file) + 1 /\ Len(file) \in Nat
  BY DEF IInv, TypeOK, End
<1>2. p + len = offset /\ nal <= p
  BY DEF IInv, RestOfFrame
<1>3. p # nal => /\ sent # <<>> /\ sent[Len(sent)].nal = nal
                 /\ ~sent[Len(sent)].last /\ sent[Len(sent)].to = p - 1
  BY Zenon DEF IInv, Resumes
<1>4. MaxPayload \in Nat \ {0}
  BY SenderAssumption
<1>5. End \in Nat /\ p \in Nat /\ len \in Nat \ {0} /\ offset \in Nat /\ offset <= End /\ nal \in Nat /\ nal >= 1
  BY <1>1
<1> QED BY <1>1, <1>2, <1>3, <1>4, <1>5

\* A unit that fits is one packet.
LEMMA SingleIInv == ASSUME IInv, Single PROVE IInv'
<1>1. /\ pc = "pack" /\ len > 0 /\ len <= MaxPayload /\ p = nal
      /\ Emit(Packet(p, len, TRUE, TRUE)) /\ pc' = "source"
      /\ UNCHANGED <<file, offset, nal, p, len>> /\ UNCHANGED <<file, offset, nal>>
  BY DEF Single, Fits
<1>2. /\ p \in Nat /\ len \in Nat \ {0} /\ p + len = offset /\ offset \in Nat /\ p >= 1
      /\ MaxPayload \in Nat
  BY <1>1, UnitFacts
<1>3. p + len <= offset
  BY ONLY <1>2
<1>4. PICK a \in Packets :
         /\ a.nal = nal /\ a.from = p /\ a.to = p + len - 1
         /\ a.first = TRUE /\ a.last = TRUE /\ Emit(a)
  <2>1. /\ nal \in 1..End /\ p \in 1..End /\ p + len - 1 \in 0..Len(file)
        /\ seq \in 0..(SeqModulus - 1)
    BY <1>2, <1>3, InFrame
  <2>2. Packet(p, len, TRUE, TRUE) \in Packets
    BY <2>1 DEF Packet, Packets
  <2> QED BY <1>1, <2>2 DEF Packet
<1>s. /\ sent' = Append(sent, a) /\ sent' \in Seq(Packets) /\ sent' # <<>>
      /\ sent'[Len(sent')] = a /\ seq' \in 0..(SeqModulus - 1) /\ End' = End
  BY <1>1, <1>4, EmitFacts
<1>5. a.from <= a.to /\ a.to - a.from < MaxPayload /\ a.to < offset
  BY <1>1, <1>2, <1>4
<1>6. FragmentsMeet'
  BY <1>1, <1>4, <1>5, <1>s, OneMoreMeets DEF IInv
<1> QED BY <1>1, <1>s, <1>6, Done

\* The last fragment begins where the one before ended.
LEMMA LastIInv == ASSUME IInv, LastFragment PROVE IInv'
<1>1. /\ pc = "pack" /\ len > 0 /\ len <= MaxPayload /\ p # nal
      /\ Emit(Packet(p, len, FALSE, TRUE)) /\ pc' = "source"
      /\ UNCHANGED <<file, offset, nal, p, len>> /\ UNCHANGED <<file, offset, nal>>
  BY DEF LastFragment, Fits
<1>2. /\ p \in Nat /\ len \in Nat \ {0} /\ p + len = offset /\ offset \in Nat /\ p >= 1
      /\ MaxPayload \in Nat
      /\ sent # <<>> /\ sent[Len(sent)].nal = nal /\ ~sent[Len(sent)].last
      /\ sent[Len(sent)].to = p - 1
  BY <1>1, UnitFacts
<1>3. p + len <= offset
  BY ONLY <1>2
<1>4. PICK a \in Packets :
         /\ a.nal = nal /\ a.from = p /\ a.to = p + len - 1
         /\ a.first = FALSE /\ a.last = TRUE /\ Emit(a)
  <2>1. /\ nal \in 1..End /\ p \in 1..End /\ p + len - 1 \in 0..Len(file)
        /\ seq \in 0..(SeqModulus - 1)
    BY <1>2, <1>3, InFrame
  <2>2. Packet(p, len, FALSE, TRUE) \in Packets
    BY <2>1 DEF Packet, Packets
  <2> QED BY <1>1, <2>2 DEF Packet
<1>s. /\ sent' = Append(sent, a) /\ sent' \in Seq(Packets) /\ sent' # <<>>
      /\ sent'[Len(sent')] = a /\ seq' \in 0..(SeqModulus - 1) /\ End' = End
  BY <1>1, <1>4, EmitFacts
<1>5. a.from <= a.to /\ a.to - a.from < MaxPayload /\ a.to < offset
  BY <1>1, <1>2, <1>4
<1>6. a.from = sent[Len(sent)].to + 1
  BY <1>2, <1>4
<1>7. FragmentsMeet'
  BY <1>1, <1>2, <1>4, <1>5, <1>6, <1>s, OneMoreMeets DEF IInv
<1> QED BY <1>1, <1>s, <1>7, Done

\* A fragment that is not the last leaves the rest of the frame behind it.
LEMMA MoreToCome ==
    ASSUME IInv, pc = "pack", UNCHANGED <<file, offset, pc, nal>>, End' = End,
           NEW used \in Nat, used <= len, used > 0, p' = p + used, len' = len - used, len > 0,
           NEW a \in Packets, a.nal = nal, a.to = p' - 1, a.last = FALSE,
           sent' \in Seq(Packets), sent' # <<>>, sent'[Len(sent')] = a,
           seq' \in 0..(SeqModulus - 1), FragmentsMeet'
    PROVE  IInv'
<1>1. /\ p \in Nat /\ len \in Nat \ {0} /\ p + len = offset /\ offset <= End /\ nal >= 1 /\ nal <= p
      /\ End = Len(file) + 1 /\ Len(file) \in Nat /\ offset \in Nat /\ nal \in Nat
  BY UnitFacts
<1>2. p + used \in 1..End /\ len - used \in 0..Len(file) /\ (p + used) + (len - used) = offset
      /\ nal <= p + used
  BY <1>1, SMTT(30)
<1>3. p' \in 1..End' /\ len' \in 0..Len(file') /\ p' + len' = offset' /\ nal' <= p'
  BY <1>2, Zenon
<1>4. TypeOK'
  BY <1>3 DEF IInv, TypeOK, Packets
<1>5. RestOfFrame' /\ Resumes'
  BY <1>3 DEF RestOfFrame, Resumes
<1> QED BY <1>4, <1>5 DEF IInv

\* The first fragment begins behind the unit's first byte.
LEMMA FirstIInv == ASSUME IInv, FirstFragment PROVE IInv'
<1>1. /\ pc = "pack" /\ len > 0 /\ ~(len <= MaxPayload) /\ p = nal
      /\ Emit(Packet(p + 1, MaxPayload, TRUE, FALSE))
      /\ p' = p + 1 + MaxPayload /\ len' = len - 1 - MaxPayload
      /\ UNCHANGED <<file, offset, pc, nal>> /\ UNCHANGED <<file, offset, nal>>
  BY DEF FirstFragment, Fits, HeaderTaken
<1>2. /\ p \in Nat /\ len \in Nat \ {0} /\ p + len = offset /\ offset \in Nat /\ p >= 1
      /\ MaxPayload \in Nat \ {0}
  BY <1>1, UnitFacts
<1>3. /\ (p + 1) + MaxPayload <= offset /\ p + 1 \in Nat /\ p + 1 >= 1
      /\ 1 + MaxPayload \in Nat /\ 1 + MaxPayload <= len /\ 1 + MaxPayload > 0
      /\ p + 1 + MaxPayload = p + (1 + MaxPayload) /\ len - 1 - MaxPayload = len - (1 + MaxPayload)
      /\ (p + 1) + MaxPayload - 1 = (p + 1 + MaxPayload) - 1
  BY <1>1, <1>2
<1>4. PICK a \in Packets :
         /\ a.nal = nal /\ a.from = p + 1 /\ a.to = (p + 1) + MaxPayload - 1
         /\ a.first = TRUE /\ a.last = FALSE /\ Emit(a)
  <2>1. /\ nal \in 1..End /\ p + 1 \in 1..End /\ (p + 1) + MaxPayload - 1 \in 0..Len(file)
        /\ seq \in 0..(SeqModulus - 1)
    BY <1>2, <1>3, InFrame
  <2>2. Packet(p + 1, MaxPayload, TRUE, FALSE) \in Packets
    BY <2>1 DEF Packet, Packets
  <2> QED BY <1>1, <2>2 DEF Packet
<1>s. /\ sent' = Append(sent, a) /\ sent' \in Seq(Packets) /\ sent' # <<>>
      /\ sent'[Len(sent')] = a /\ seq' \in 0..(SeqModulus - 1) /\ End' = End
  BY <1>1, <1>4, EmitFacts
<1>5. a.from <= a.to /\ a.to - a.from < MaxPayload /\ a.to < offset /\ a.from = a.nal + 1
  BY <1>1, <1>2, <1>4
<1>6. FragmentsMeet'
  BY <1>1, <1>4, <1>5, <1>s, OneMoreMeets DEF IInv
<1>7. p' = p + (1 + MaxPayload) /\ len' = len - (1 + MaxPayload) /\ a.to = p' - 1
  BY <1>1, <1>3, <1>4, Zenon
<1> QED BY <1>1, <1>3, <1>4, <1>6, <1>7, <1>s, MoreToCome

\* A fragment in between begins where the one before ended.
LEMMA MiddleIInv == ASSUME IInv, MiddleFragment PROVE IInv'
<1>1. /\ pc = "pack" /\ len > 0 /\ ~(len <= MaxPayload) /\ p # nal
      /\ Emit(Packet(p, MaxPayload, FALSE, FALSE))
      /\ p' = p + MaxPayload /\ len' = len - MaxPayload
      /\ UNCHANGED <<file, offset, pc, nal>> /\ UNCHANGED <<file, offset, nal>>
  BY DEF MiddleFragment, Fits
<1>2. /\ p \in Nat /\ len \in Nat \ {0} /\ p + len = offset /\ offset \in Nat /\ p >= 1
      /\ MaxPayload \in Nat \ {0}
      /\ sent # <<>> /\ sent[Len(sent)].nal = nal /\ ~sent[Len(sent)].last
      /\ sent[Len(sent)].to = p - 1
  BY <1>1, UnitFacts
<1>3. p + MaxPayload <= offset /\ MaxPayload <= len /\ MaxPayload > 0 /\ MaxPayload \in Nat
  BY <1>1, <1>2
<1>4. PICK a \in Packets :
         /\ a.nal = nal /\ a.from = p /\ a.to = p + MaxPayload - 1
         /\ a.first = FALSE /\ a.last = FALSE /\ Emit(a)
  <2>1. /\ nal \in 1..End /\ p \in 1..End /\ p + MaxPayload - 1 \in 0..Len(file)
        /\ seq \in 0..(SeqModulus - 1)
    BY <1>2, <1>3, InFrame
  <2>2. Packet(p, MaxPayload, FALSE, FALSE) \in Packets
    BY <2>1 DEF Packet, Packets
  <2> QED BY <1>1, <2>2 DEF Packet
<1>s. /\ sent' = Append(sent, a) /\ sent' \in Seq(Packets) /\ sent' # <<>>
      /\ sent'[Len(sent')] = a /\ seq' \in 0..(SeqModulus - 1) /\ End' = End
  BY <1>1, <1>4, EmitFacts
<1>5. /\ a.from <= a.to /\ a.to - a.from < MaxPayload /\ a.to < offset
      /\ a.from = sent[Len(sent)].to + 1
  BY <1>1, <1>2, <1>4
<1>6. FragmentsMeet'
  BY <1>1, <1>2, <1>4, <1>5, <1>s, OneMoreMeets DEF IInv
<1>7. a.to = p' - 1
  <2>1. p' = p + MaxPayload /\ a.to = p + MaxPayload - 1
    BY <1>1, <1>4
  <2> QED BY <1>2, <2>1
<1> QED BY <1>1, <1>3, <1>4, <1>6, <1>7, <1>s, MoreToCome

\* Every call of GetNextFrame and every packet.
LEMMA NextIInv == IInv /\ [Next]_vars => IInv'
<1> SUFFICES ASSUME IInv, [Next]_vars PROVE IInv'
  OBVIOUS
<1>1. CASE NoFrame \/ NothingLeft \/ Ended \/ UNCHANGED vars
  <2>1. UNCHANGED <<file, offset, nal, p, len, seq, sent>>
    BY <1>1 DEF NoFrame, NothingLeft, Ended, vars
  <2>2. pc' = pc \/ pc' \in {"source", "ended"}
    BY <1>1 DEF NoFrame, NothingLeft, Ended, vars
  <2>3. FragmentsMeet'
    BY <2>1 DEF IInv, FragmentsMeet
  <2>4. TypeOK'
    BY <2>1, <2>2 DEF IInv, TypeOK, End
  <2> QED BY <2>1, <2>2, <2>3, <2>4 DEF IInv, RestOfFrame, Resumes
<1> QED BY <1>1, FrameIInv, SingleIInv, FirstIInv, MiddleIInv, LastIInv DEF Next

\* The invariant of the sender.
LEMMA SenderIInv == Spec => []IInv
  BY InitIInv, NextIInv, PTL DEF Spec

\* Positions stay within the file: nothing is read behind its end.
THEOREM SenderTypeCorrect == Spec => []TypeOK
<1>1. IInv => TypeOK
  BY DEF IInv
<1> QED BY <1>1, SenderIInv, PTL

\* Fragments hold at most MaxPayload bytes, stay within their frame and meet.
THEOREM FragmentsAlwaysMeet == Spec => []FragmentsMeet
<1>1. IInv => FragmentsMeet
  BY DEF IInv
<1> QED BY <1>1, SenderIInv, PTL

-----------------------------------------------------------------------------
(* Start codes.  The scan finds those of the byte stream format.           *)

\* No code is cut by the begin of a scan.
Clean(from) == \A i \in Prefixes : CodeStart(i) < from => i < from

\* What UnitsArrive leaves out: the codes that are not seen.
AllSeen == \A i \in Prefixes : ~Unseen(i)

\* The prefix of the code that the scan found.
PrefixOf(s) == s + CodeLength(s) - 3

\* Prefixes are positions within the file.
LEMMA PrefixFacts ==
    ASSUME file \in Seq(Nat), NEW i \in Prefixes
    PROVE  /\ i \in Nat /\ i >= 1 /\ i <= End - 3 /\ End \in Nat /\ End = Len(file) + 1 /\ Len(file) \in Nat
           /\ file[i] = 0 /\ file[i + 1] = 0 /\ file[i + 2] = 1
           /\ CodeStart(i) \in {i, i - 1} /\ CodeStart(i) >= 1 /\ CodeStart(i) <= i
           /\ CodeStart(i) \in Nat /\ (CodeStart(i) = i - 1 => i > 1 /\ file[i - 1] = 0)
<1>1. Len(file) \in Nat /\ End = Len(file) + 1
  BY DEF End
<1>2. i \in 1..(End - 3) /\ file[i] = 0 /\ file[i + 1] = 0 /\ file[i + 2] = 1
  BY DEF Prefixes
<1>3. i \in Nat /\ i >= 1 /\ i <= End - 3 /\ End \in Nat
  BY <1>1, <1>2
<1>4. CASE i > 1 /\ file[i - 1] = 0
  BY <1>1, <1>2, <1>3, <1>4 DEF CodeStart
<1>5. CASE ~(i > 1 /\ file[i - 1] = 0)
  <2>1. CodeStart(i) = i
    BY <1>5 DEF CodeStart
  <2> QED BY <1>1, <1>2, <1>3, <2>1
<1> QED BY <1>4, <1>5

\* A code begins behind the prefix of another before it.
LEMMA CodesApart ==
    ASSUME file \in Seq(Nat), NEW i \in Prefixes, NEW j \in Prefixes, i < j
    PROVE  i + 3 <= CodeStart(j)
<1>1. i \in Nat /\ file[i] = 0 /\ file[i + 1] = 0 /\ file[i + 2] = 1
  BY PrefixFacts
<1>2. /\ j \in Nat /\ file[j] = 0 /\ file[j + 1] = 0 /\ CodeStart(j) \in {j, j - 1}
      /\ (CodeStart(j) = j - 1 => file[j - 1] = 0)
  BY PrefixFacts
<1>3. j # i + 2 /\ j + 1 # i + 2
  BY <1>1, <1>2
<1>4. j >= i + 3
  BY <1>1, <1>2, <1>3
<1>5. j = i + 3 => j - 1 = i + 2
  BY <1>1, <1>2
<1>6. CodeStart(j) = j - 1 => j # i + 3
  BY <1>1, <1>2, <1>5
<1> QED BY <1>1, <1>2, <1>4, <1>6

\* Where a code begins, the scan sees one.
LEMMA CodeAtPrefix ==
    ASSUME file \in Seq(Nat), NEW i \in Prefixes
    PROVE  StartCodeAt(CodeStart(i))
<1>1. /\ i \in Nat /\ file[i] = 0 /\ file[i + 1] = 0 /\ file[i + 2] = 1
      /\ CodeStart(i) \in {i, i - 1} /\ (CodeStart(i) = i - 1 => file[i - 1] = 0)
  BY PrefixFacts
<1>2. PICK c : c = CodeStart(i)
  OBVIOUS
<1>3. CASE c = i
  BY <1>1, <1>2, <1>3 DEF StartCodeAt
<1>4. CASE c = i - 1
  <2>1. c + 1 = i /\ c + 2 = i + 1 /\ c + 3 = i + 2
    BY <1>1, <1>4
  <2>2. file[c] = 0 /\ file[c + 1] = 0 /\ file[c + 2] = 0 /\ file[c + 3] = 1
    BY <1>1, <1>2, <1>4, <2>1
  <2> QED BY <1>2, <2>2 DEF StartCodeAt
<1> QED BY <1>1, <1>2, <1>3, <1>4

\* A scan that cuts no code finds the first code that begins there.
LEMMA ScanFinds ==
    ASSUME file \in Seq(Nat), NEW from \in Nat \ {0}, Clean(from), Found(from),
           NEW m, m = FindStartCode(from)
    PROVE  /\ m \in from..(End - 5) /\ StartCodeAt(m) /\ CodeLength(m) \in {3, 4}
           /\ PrefixOf(m) \in Prefixes /\ CodeStart(PrefixOf(m)) = m
           /\ \A i \in Prefixes : i >= from => i >= PrefixOf(m)
<1>1. Len(file) \in Nat /\ End \in Nat /\ End = Len(file) + 1
  BY DEF End
<1>2. m \in from..(End - 5) /\ StartCodeAt(m) /\ m \in Nat /\ m >= 1 /\ m >= from /\ m <= End - 5
  <2>1. m \in from..(End - 5) /\ StartCodeAt(m)
    BY <1>1, FoundIsStartCode
  <2> QED BY <1>1, <2>1
<1>3. ASSUME NEW c \in Nat, c >= from, c < m, StartCodeAt(c) PROVE FALSE
  <2>1. StartCodes(from) \in SUBSET Nat /\ StartCodes(from) # {}
    BY DEF StartCodes, Found
  <2>2. c \in StartCodes(from)
    <3>1. c \in from..(End - 5)
      BY <1>1, <1>2, <1>3
    <3> QED BY <1>3, <3>1 DEF StartCodes
  <2>3. m <= c
    BY <2>1, <2>2, LeastExists DEF FindStartCode
  <2> QED BY <1>2, <1>3, <2>3
<1>4. PICK j : j = PrefixOf(m)
  OBVIOUS
<1>5. /\ CodeLength(m) \in {3, 4} /\ j \in Prefixes
      /\ \/ j = m
         \/ j = m + 1
  <2>1. CASE file[m + 2] = 1
    <3>1. CodeLength(m) = 3 /\ j = m
      BY <1>2, <1>4, <2>1 DEF CodeLength, PrefixOf
    <3>2. m \in 1..(End - 3)
      BY <1>1, <1>2
    <3> QED BY <1>2, <2>1, <3>1, <3>2 DEF StartCodeAt, Prefixes
  <2>2. CASE file[m + 2] # 1
    <3>1. CodeLength(m) = 4 /\ j = m + 1
      BY <1>2, <1>4, <2>2 DEF CodeLength, PrefixOf
    <3>2. m + 1 \in 1..(End - 3) /\ (m + 1) + 1 = m + 2 /\ (m + 1) + 2 = m + 3
      BY ONLY <1>1, <1>2
    <3>3. file[m + 1] = 0 /\ file[m + 2] = 0 /\ file[m + 3] = 1
      BY <1>2, <2>2 DEF StartCodeAt
    <3> QED BY <3>1, <3>2, <3>3 DEF Prefixes
  <2> QED BY <2>1, <2>2
<1>6. CodeStart(j) = m
  <2>1. CASE j = m + 1
    <3>1. j > 1 /\ j - 1 = m
      BY <1>2, <2>1
    <3>2. file[m] = 0
      BY <1>2 DEF StartCodeAt
    <3> QED BY <3>1, <3>2 DEF CodeStart
  <2>2. CASE j = m /\ CodeStart(j) = m - 1
    <3>1. StartCodeAt(m - 1) /\ m - 1 \in Nat
      BY <1>5, <2>2, CodeAtPrefix, PrefixFacts
    <3>2. m - 1 < from => m < from
      BY <1>5, <2>2 DEF Clean
    <3>3. m - 1 >= from /\ m - 1 < m
      BY <1>2, <3>1, <3>2
    <3> QED BY <1>3, <3>1, <3>3
  <2>3. CodeStart(j) \in {j, j - 1}
    BY <1>5, PrefixFacts
  <2> QED BY <1>5, <2>1, <2>2, <2>3
<1>7. ASSUME NEW i \in Prefixes, i >= from, ~(i >= j) PROVE FALSE
  <2>1. /\ i \in Nat /\ CodeStart(i) \in Nat /\ CodeStart(i) <= i /\ StartCodeAt(CodeStart(i)) /\ j \in Nat
    <3>1. i \in Nat /\ CodeStart(i) \in Nat /\ CodeStart(i) <= i /\ j \in Nat
      BY <1>5, PrefixFacts
    <3> QED BY <3>1, CodeAtPrefix
  <2>2. i < j
    BY <1>7, <2>1
  <2>3. i + 3 <= m
    BY <1>5, <1>6, <2>2, CodesApart
  <2>4. CodeStart(i) >= from
    BY <1>7, <2>1 DEF Clean
  <2>5. CodeStart(i) < m
    BY <1>2, <2>1, <2>3
  <2> QED BY <1>3, <2>1, <2>4, <2>5
<1> QED BY <1>2, <1>4, <1>5, <1>6, <1>7

\* If it finds none, there is none.
LEMMA ScanFindsNone ==
    ASSUME file \in Seq(Nat), AllSeen, NEW from \in Nat \ {0}, Clean(from), ~Found(from), NEW i \in Prefixes
    PROVE  i < from
<1> SUFFICES ASSUME ~(i < from) PROVE FALSE
  OBVIOUS
<1>1. /\ i \in Nat /\ StartCodeAt(CodeStart(i)) /\ CodeStart(i) \in Nat
      /\ End = Len(file) + 1 /\ Len(file) \in Nat
  BY CodeAtPrefix, PrefixFacts
<1>2. CodeStart(i) >= from
  BY <1>1 DEF Clean
<1>3. CodeStart(i) <= End - 5
  BY <1>1 DEF AllSeen, Unseen
<1>4. CodeStart(i) \in from..(End - 5)
  BY <1>1, <1>2, <1>3
<1> QED BY <1>1, <1>4 DEF Found, StartCodes

\* Where a code begins and behind its first bytes, no code is cut.
LEMMA ScansClean ==
    ASSUME file \in Seq(Nat), NEW j \in Prefixes, NEW s, s = CodeStart(j)
    PROVE  Clean(s) /\ Clean(s + 3)
<1>1. /\ j \in Nat /\ s \in Nat /\ s \in {j, j - 1} /\ file[j] = 0 /\ file[j + 1] = 0 /\ file[j + 2] = 1
  BY PrefixFacts
<1>2. ASSUME NEW i \in Prefixes, CodeStart(i) < s, ~(i < s) PROVE FALSE
  <2>1. i \in Nat /\ CodeStart(i) \in {i, i - 1}
    BY PrefixFacts
  <2>2. i = s
    BY <1>1, <1>2, <2>1
  <2>3. CASE s = j
    BY <1>2, <2>2, <2>3
  <2>4. CASE s = j - 1
    <3>1. i < j /\ ~(i + 3 <= s)
      BY <1>1, <2>2, <2>4
    <3> QED BY <3>1, CodesApart
  <2> QED BY <1>1, <2>3, <2>4
<1>3. ASSUME NEW i \in Prefixes, CodeStart(i) < s + 3, ~(i < s + 3) PROVE FALSE
  <2>1. i \in Nat /\ CodeStart(i) \in {i, i - 1}
    BY PrefixFacts
  <2>2. i = s + 3 /\ CodeStart(i) = s + 2 /\ i > j
    BY <1>1, <1>3, <2>1
  <2>3. j + 3 <= s + 2
    BY <2>2, CodesApart
  <2> QED BY ONLY <1>1, <2>3
<1> QED BY <1>2, <1>3 DEF Clean

\* A unit that is found ends where the byte stream format ends it.
LEMMA FrameIsUnit ==
    ASSUME file \in Seq(Nat), NEW j \in Prefixes, NEW s, s = CodeStart(j), AllSeen
    PROVE  /\ LastByte(j) = FrameEnd(s) - 1 /\ FrameEnd(s) \in Nat /\ j < FrameEnd(s)
           /\ Clean(FrameEnd(s)) /\ \A i \in Prefixes : i > j => i >= FrameEnd(s)
<1>1. /\ j \in Nat /\ s \in Nat /\ s >= 1 /\ s \in {j, j - 1} /\ End = Len(file) + 1 /\ Len(file) \in Nat
      /\ j <= End - 3
  BY PrefixFacts
<1>2. Clean(s + 3) /\ s + 3 \in Nat \ {0} /\ NextFrom(s) = s + 3
  BY <1>1, ScansClean DEF NextFrom
<1>3. \A i \in Prefixes : i > j => i >= s + 3 /\ i \in Nat
  <2> TAKE i \in Prefixes
  <2>1. PICK c : c = CodeStart(i) /\ c \in Nat /\ c <= i /\ i \in Nat
    BY PrefixFacts
  <2>2. i > j => j + 3 <= c
    BY <1>1, <2>1, CodesApart
  <2>3. i > j => j + 3 <= i /\ s <= j
    BY <1>1, <2>1, <2>2
  <2> QED BY ONLY <1>1, <2>1, <2>3
<1>4. PICK following : following = {i \in Prefixes : i > j}
  OBVIOUS
<1>5. CASE ~Found(s + 3)
  <2>1. following = {}
    <3> SUFFICES ASSUME NEW i \in Prefixes, i > j PROVE FALSE
      BY <1>4
    <3>1. i < s + 3 /\ i >= s + 3 /\ i \in Nat
      BY <1>2, <1>3, <1>5, ScanFindsNone
    <3> QED BY <1>1, <3>1
  <2>2. FrameEnd(s) = End /\ LastByte(j) = Len(file)
    BY <1>2, <1>4, <1>5, <2>1 DEF FrameEnd, LastByte
  <2>3. Clean(End)
    <3>1. \A i \in Prefixes : i < End
      <4> TAKE i \in Prefixes
      <4>1. i \in Nat /\ i <= End - 3 /\ End \in Nat
        BY PrefixFacts
      <4> QED BY <4>1
    <3> QED BY <3>1 DEF Clean
  <2>4. Len(file) = End - 1 /\ End \in Nat /\ j < End
    BY <1>1
  <2> QED BY <1>4, <2>1, <2>2, <2>3, <2>4
<1>6. CASE Found(s + 3)
  <2>1. PICK m : m = FindStartCode(s + 3)
    OBVIOUS
  <2>2. PICK k : k = PrefixOf(m)
    OBVIOUS
  <2>3. m \in (s + 3)..(End - 5) /\ k \in Prefixes /\ CodeStart(k) = m /\ \A i \in Prefixes : i >= s + 3 => i >= k
    BY <1>2, <1>6, <2>1, <2>2, ScanFinds
  <2>4. k \in Nat /\ m \in {k, k - 1} /\ m \in Nat /\ m >= s + 3
    <3>1. k \in Nat /\ m \in {k, k - 1} /\ m \in Nat
      BY <2>3, PrefixFacts
    <3> QED BY <1>1, <2>3, <3>1
  <2>5. k > j /\ k >= m /\ j < m
    <3>1. j < m
      BY ONLY <1>1, <2>4
    <3>2. k >= m
      BY ONLY <2>4
    <3> QED BY ONLY <1>1, <2>4, <3>1, <3>2
  <2>6. Min(following) = k
    <3>1. following \in SUBSET Nat /\ k \in following
      BY <1>3, <1>4, <2>3, <2>5
    <3>2. PICK l : l = Min(following) /\ l \in following /\ l <= k
      BY <3>1, LeastExists
    <3>3. l \in Nat /\ k <= l
      BY <1>3, <1>4, <2>3, <2>4, <3>2
    <3> QED BY <2>4, <3>2, <3>3
  <2>7. FrameEnd(s) = m /\ LastByte(j) = m - 1
    <3>1. FrameEnd(s) = m
      BY <1>2, <1>6, <2>1 DEF FrameEnd
    <3>2. following # {}
      BY <1>4, <2>3, <2>5
    <3> QED BY <1>4, <2>3, <2>6, <3>1, <3>2 DEF LastByte
  <2>8. Clean(m)
    BY <2>3, ScansClean
  <2>9. \A i \in Prefixes : i > j => i >= m
    BY <1>3, <2>3, <2>4, <2>5
  <2> QED BY <2>4, <2>5, <2>7, <2>8, <2>9
<1> QED BY <1>5, <1>6

-----------------------------------------------------------------------------
(* What was received.                                                      *)

\* The unit behind a prefix, and whether the sender gets it across.
Unit(i) == <<i + 3, LastByte(i)>>
Sendable(i) == LastByte(i) >= i + 3 /\ ~TooLong(Unit(i))

\* Those that were packed, all but the one that is being packed.
Packed == {i \in Prefixes : i < offset /\ (pc = "pack" => i + 3 # nal) /\ Sendable(i)}

\* How far it is.
Reached ==
    pc = "pack" =>
        /\ nal - 3 \in Prefixes /\ nal - 3 < offset /\ LastByte(nal - 3) = offset - 1
        /\ p # nal /\ len > 0 => offset - nal > MaxPayload + 1
        /\ p # nal /\ len = 0 => offset - nal = MaxPayload + 1

UInv ==
    /\ IInv
    /\ AllSeen => /\ Clean(offset) /\ Reached /\ Received = {Unit(i) : i \in Packed}
                  /\ pc = "ended" => \A i \in Prefixes : i < offset

\* Another unit is received with its last packet.
LEMMA OneReceived ==
    ASSUME NEW S, sent \in Seq(S), NEW a, sent' = Append(sent, a)
    PROVE  Received' = IF a.last THEN Received \cup {<<a.nal, a.to>>} ELSE Received
<1>1. PICK n \in Nat : /\ n = Len(sent) /\ DOMAIN sent = 1..n /\ DOMAIN sent' = 1..(n + 1)
                       /\ sent'[n + 1] = a /\ \A k \in 1..n : sent'[k] = sent[k]
  <2>1. sent \in Seq(S \cup {a}) /\ a \in S \cup {a}
    BY SeqMonotonic
  <2> QED BY <2>1, AppendProperties, LenProperties
<1>2. n + 1 \in 1..(n + 1) /\ \A k \in 1..(n + 1) : k = n + 1 \/ k \in 1..n
  OBVIOUS
<1>3. \A k \in 1..n : k \in 1..(n + 1)
  OBVIOUS
<1> QED BY <1>1, <1>2, <1>3 DEF Received

\* None at first.
LEMMA InitUInv == Init => UInv
<1> SUFFICES ASSUME Init PROVE UInv
  OBVIOUS
<1>1. IInv /\ offset = 1 /\ pc = "source" /\ sent = <<>>
  BY InitIInv DEF Init
<1>2. file \in Seq(Nat)
  BY <1>1 DEF IInv, TypeOK
<1>3. \A i \in Prefixes : ~(CodeStart(i) < 1) /\ ~(i < 1)
  <2> TAKE i \in Prefixes
  <2>1. i \in Nat /\ i >= 1 /\ CodeStart(i) \in Nat /\ CodeStart(i) >= 1
    BY <1>2, PrefixFacts
  <2> QED BY <2>1
<1>4. Clean(offset) /\ Packed = {}
  BY <1>1, <1>3 DEF Clean, Packed
<1>5. Received = {}
  BY <1>1 DEF Received
<1> QED BY <1>1, <1>4, <1>5 DEF UInv, Reached

\* The prefixes and the ends of their units are a matter of the file.
LEMMA FileFacts ==
    ASSUME file' = file
    PROVE  /\ Prefixes' = Prefixes /\ AllSeen' = AllSeen
           /\ \A i : LastByte(i)' = LastByte(i) /\ Unit(i)' = Unit(i) /\ Sendable(i)' = Sendable(i)
           /\ \A i : Clean(i)' = Clean(i)
<1>1. Prefixes' = Prefixes /\ End' = End
  BY DEF Prefixes, End
<1>2. \A i : CodeStart(i)' = CodeStart(i)
  BY DEF CodeStart
<1>3. \A i : LastByte(i)' = LastByte(i)
  BY <1>1, <1>2 DEF LastByte
<1> QED BY <1>1, <1>2, <1>3 DEF AllSeen, Unseen, Unit, Sendable, TooLong, Clean

\* A frame that is found is a unit, the next one.
LEMMA FrameUInv == ASSUME UInv, GetNextFrame PROVE UInv'
<1>1. /\ file \in Seq(Nat) /\ offset \in Nat \ {0} /\ Found(offset) /\ pc = "source"
  BY DEF UInv, IInv, TypeOK, End, GetNextFrame
<1>2. PICK s : s = FindStartCode(offset)
  OBVIOUS
<1>3. /\ nal' = s + CodeLength(s) /\ p' = nal' /\ offset' = FrameEnd(s) /\ pc' = "pack"
      /\ UNCHANGED <<file, seq, sent>>
  BY <1>2 DEF GetNextFrame
<1>4. IInv' /\ AllSeen' = AllSeen
  BY <1>3, FrameIInv, FileFacts DEF UInv
<1> SUFFICES ASSUME AllSeen
             PROVE  Clean(offset)' /\ Reached' /\ Received' = {Unit(i) : i \in Packed}'
  BY <1>3, <1>4 DEF UInv
<1>5. Clean(offset) /\ Received = {Unit(i) : i \in Packed}
  BY DEF UInv
<1>6. PICK j : j = PrefixOf(s)
  OBVIOUS
<1>7. /\ s \in offset..(End - 5) /\ CodeLength(s) \in {3, 4} /\ j \in Prefixes /\ CodeStart(j) = s
      /\ \A i \in Prefixes : i >= offset => i >= j
  BY <1>1, <1>2, <1>5, <1>6, ScanFinds
<1>8. j \in Nat /\ nal' = j + 3 /\ nal' - 3 = j /\ s \in Nat /\ offset <= s /\ s <= j
  <2>1. j \in Nat /\ s \in Nat /\ s <= j
    BY <1>1, <1>7, PrefixFacts
  <2>2. offset <= s
    BY <1>1, <1>7
  <2>3. s + CodeLength(s) = (s + CodeLength(s) - 3) + 3
    BY <1>7, <2>1
  <2>4. nal' = j + 3
    BY <1>3, <1>6, <2>3 DEF PrefixOf
  <2> QED BY <2>1, <2>2, <2>4
<1>9. /\ LastByte(j) = offset' - 1 /\ offset' \in Nat /\ j < offset' /\ Clean(offset')
      /\ \A i \in Prefixes : i > j => i >= offset'
  BY <1>1, <1>3, <1>7, FrameIsUnit
<1>10. Clean(offset)'
  BY <1>3, <1>9, FileFacts
<1>11. Reached'
  BY <1>3, <1>7, <1>8, <1>9, FileFacts DEF Reached
<1>12. ASSUME NEW i \in Prefixes PROVE i < offset <=> i < offset' /\ i + 3 # nal'
  <2>1. i \in Nat /\ offset \in Nat /\ offset' \in Nat /\ j < offset'
    BY <1>1, <1>9, PrefixFacts
  <2>2. (i >= offset => i >= j) /\ (i > j => i >= offset')
    BY <1>7, <1>9
  <2>3. i + 3 # nal' <=> i # j
    BY ONLY <1>8, <2>1
  <2>4. i < offset => i < offset' /\ i # j
    BY ONLY <1>8, <2>1
  <2>5. i < offset' /\ i # j => i < offset
    BY ONLY <1>8, <2>1, <2>2
  <2> QED BY <2>3, <2>4, <2>5
<1>13. Packed' = Packed
  <2>1. Packed' = {i \in Prefixes : i < offset' /\ i + 3 # nal' /\ Sendable(i)}
    BY <1>3, FileFacts DEF Packed
  <2> QED BY <1>1, <1>12, <2>1 DEF Packed
<1>14. Received' = Received
  BY <1>3 DEF Received
<1>15. {Unit(i) : i \in Packed}' = {Unit(i) : i \in Packed'}
  BY <1>3, FileFacts
<1> QED BY <1>5, <1>10, <1>11, <1>13, <1>14, <1>15
\* A unit is done: it was received, if it is one that the sender gets across.
LEMMA UnitDone ==
    ASSUME UInv, AllSeen, pc = "pack", pc' = "source", UNCHANGED <<file, offset, nal>>,
           Received' = IF Sendable(nal - 3) THEN Received \cup {Unit(nal - 3)} ELSE Received
    PROVE  Clean(offset)' /\ Reached' /\ Received' = {Unit(i) : i \in Packed}'
<1>1. /\ file \in Seq(Nat) /\ Clean(offset) /\ nal - 3 \in Prefixes /\ nal - 3 < offset /\ nal \in Int
      /\ Received = {Unit(i) : i \in Packed}
  BY DEF UInv, IInv, TypeOK, Reached
<1>2. Clean(offset)' /\ Reached'
  BY <1>1, FileFacts DEF Reached
<1>3. ASSUME NEW i \in Prefixes PROVE i + 3 # nal <=> i # nal - 3
  <2>1. i \in Nat
    BY <1>1, PrefixFacts
  <2> QED BY <1>1, <2>1
<1>4. Packed = {i \in Prefixes : i < offset /\ i # nal - 3 /\ Sendable(i)}
  BY <1>3 DEF Packed
<1>5. Packed' = {i \in Prefixes : i < offset /\ Sendable(i)}
  BY FileFacts DEF Packed
<1>6. Packed' = IF Sendable(nal - 3) THEN Packed \cup {nal - 3} ELSE Packed
  BY <1>1, <1>4, <1>5
<1>7. {Unit(i) : i \in Packed}' = {Unit(i) : i \in Packed'}
  BY FileFacts
<1> QED BY <1>1, <1>2, <1>6, <1>7

\* The last packet of a unit.
LEMMA LastUInv == ASSUME UInv, Single \/ LastFragment PROVE UInv'
<1>1. PICK first \in BOOLEAN :
         /\ pc = "pack" /\ len > 0 /\ len <= MaxPayload /\ (first <=> p = nal)
         /\ Emit(Packet(p, len, first, TRUE)) /\ pc' = "source"
         /\ UNCHANGED <<file, offset, nal, p, len>> /\ UNCHANGED <<file, offset, nal>>
  BY DEF Single, LastFragment, Fits
<1>2. IInv /\ IInv' /\ AllSeen' = AllSeen
  BY <1>1, SingleIInv, LastIInv, FileFacts DEF UInv
<1> SUFFICES ASSUME AllSeen
             PROVE  Clean(offset)' /\ Reached' /\ Received' = {Unit(i) : i \in Packed}'
  BY <1>1, <1>2 DEF UInv
<1>3. /\ p \in Nat /\ len \in Nat \ {0} /\ p + len = offset /\ offset \in Nat /\ nal \in Nat
      /\ nal <= p /\ p >= 1 /\ MaxPayload \in Nat
  BY <1>1, <1>2, UnitFacts
<1>4. PICK a : a.nal = nal /\ a.to = p + len - 1 /\ a.last = TRUE /\ sent' = Append(sent, a)
  BY <1>1 DEF Packet, Emit
<1>5. Received' = Received \cup {<<nal, p + len - 1>>}
  <2>1. sent \in Seq(Packets)
    BY <1>2 DEF IInv, TypeOK, Packets
  <2> QED BY <1>4, <2>1, OneReceived
<1>6. PICK u \in Int : u = LastByte(nal - 3) /\ u = offset - 1 /\ (p # nal => offset - nal > MaxPayload + 1)
  BY <1>1, <1>3 DEF UInv, Reached
<1>7. (nal - 3) + 3 = nal /\ u = p + len - 1 /\ u >= nal /\ u - nal # MaxPayload
  BY ONLY <1>1, <1>3, <1>6
<1>8. Sendable(nal - 3) /\ Unit(nal - 3) = <<nal, p + len - 1>>
  <2>1. Unit(nal - 3) = <<nal, u>>
    BY <1>6, <1>7 DEF Unit
  <2>2. ~TooLong(Unit(nal - 3))
    BY <1>7, <2>1 DEF TooLong
  <2> QED BY <1>6, <1>7, <2>1, <2>2 DEF Sendable
<1> QED BY <1>1, <1>5, <1>8, UnitDone

\* A unit that ends without one: it is empty, or too long by one byte.
LEMMA NothingLeftUInv == ASSUME UInv, NothingLeft, IInv' PROVE UInv'
<1>1. pc = "pack" /\ ~(len > 0) /\ pc' = "source" /\ UNCHANGED <<file, offset, nal, sent>>
  BY DEF NothingLeft
<1>2. AllSeen' = AllSeen /\ Received' = Received
  BY <1>1, FileFacts DEF Received
<1> SUFFICES ASSUME AllSeen
             PROVE  Clean(offset)' /\ Reached' /\ Received' = {Unit(i) : i \in Packed}'
  BY <1>1, <1>2 DEF UInv
<1>3. /\ len = 0 /\ offset = p /\ offset \in Nat /\ nal \in Nat /\ MaxPayload \in Nat
  <2>1. len \in Nat /\ p \in Nat /\ nal \in Nat /\ p + len = offset /\ MaxPayload \in Nat
    <3>1. file \in Seq(Nat) /\ nal \in 1..End /\ p \in 1..End /\ len \in 0..Len(file) /\ p + len = offset
      BY <1>1 DEF UInv, IInv, TypeOK, RestOfFrame
    <3>2. Len(file) \in Nat /\ End \in Nat
      BY <3>1 DEF End
    <3> QED BY <3>1, <3>2, SenderAssumption
  <2> QED BY <1>1, <2>1
<1>4. PICK u \in Int : u = LastByte(nal - 3) /\ u = offset - 1 /\ (p # nal => offset - nal = MaxPayload + 1)
  BY <1>1, <1>3 DEF UInv, Reached
<1>5. (nal - 3) + 3 = nal /\ (u >= nal => u - nal = MaxPayload)
  BY ONLY <1>3, <1>4
<1>6. ~Sendable(nal - 3)
  <2>1. Unit(nal - 3) = <<nal, u>>
    BY <1>4, <1>5 DEF Unit
  <2>2. u >= nal => TooLong(Unit(nal - 3))
    BY <1>5, <2>1 DEF TooLong
  <2> QED BY <1>4, <1>5, <2>2 DEF Sendable
<1> QED BY <1>1, <1>2, <1>6, UnitDone

\* A fragment that is not the last.
LEMMA FragmentUInv == ASSUME UInv, FirstFragment \/ MiddleFragment PROVE UInv'
<1>1. /\ pc = "pack" /\ len > 0 /\ ~(len <= MaxPayload) /\ UNCHANGED <<file, offset, pc, nal>>
      /\ \E a : a.last = FALSE /\ sent' = Append(sent, a)
      /\ p = nal => p' = p + 1 + MaxPayload /\ len' = len - 1 - MaxPayload
      /\ p # nal => p' = p + MaxPayload /\ len' = len - MaxPayload
  BY DEF FirstFragment, MiddleFragment, Fits, HeaderTaken, Packet, Emit
<1>2. IInv /\ IInv' /\ AllSeen' = AllSeen
  BY <1>1, FirstIInv, MiddleIInv, FileFacts DEF UInv
<1> SUFFICES ASSUME AllSeen
             PROVE  Clean(offset)' /\ Reached' /\ Received' = {Unit(i) : i \in Packed}'
  BY <1>1, <1>2 DEF UInv
<1>3. /\ p \in Nat /\ len \in Nat \ {0} /\ p + len = offset /\ offset \in Nat /\ nal \in Nat
      /\ nal <= p /\ p >= 1 /\ MaxPayload \in Nat \ {0}
  BY <1>1, <1>2, UnitFacts
<1>4. Received' = Received
  <2>1. sent \in Seq(Packets)
    BY <1>2 DEF IInv, TypeOK, Packets
  <2> QED BY <1>1, <2>1, OneReceived
<1>5. {Unit(i) : i \in Packed}' = {Unit(i) : i \in Packed}
  BY <1>1, FileFacts DEF Packed
<1>6. /\ Clean(offset) /\ Received = {Unit(i) : i \in Packed}
      /\ nal - 3 \in Prefixes /\ nal - 3 < offset /\ LastByte(nal - 3) = offset - 1
      /\ p # nal => offset - nal > MaxPayload + 1
  BY <1>1 DEF UInv, Reached
<1>7. /\ len' > 0 => offset - nal > MaxPayload + 1
      /\ len' = 0 => offset - nal = MaxPayload + 1
  <2>1. CASE p = nal
    <3>1. len' = len - 1 - MaxPayload /\ offset - nal = len
      BY <1>1, <1>3, <2>1
    <3> QED BY ONLY <1>3, <3>1
  <2>2. CASE p # nal
    <3>1. len' = len - MaxPayload /\ offset - nal > MaxPayload + 1
      BY <1>1, <1>6, <2>2
    <3> QED BY ONLY <1>1, <1>3, <3>1
  <2> QED BY <2>1, <2>2
<1>8. Reached' /\ Clean(offset)'
  BY <1>1, <1>6, <1>7, FileFacts DEF Reached
<1> QED BY <1>4, <1>5, <1>6, <1>8

\* At the end every code was looked at.
LEMMA NoFrameUInv == ASSUME UInv, NoFrame, IInv' PROVE UInv'
<1>1. /\ pc = "source" /\ (offset = End \/ ~Found(offset)) /\ pc' = "ended"
      /\ UNCHANGED <<file, offset, nal, p, len, seq, sent>>
  BY DEF NoFrame
<1>2. /\ file \in Seq(Nat) /\ offset \in Nat \ {0}
      /\ AllSeen' = AllSeen /\ Received' = Received /\ Packed' = Packed
      /\ {Unit(i) : i \in Packed}' = {Unit(i) : i \in Packed'}
  BY <1>1, FileFacts DEF UInv, IInv, TypeOK, End, Received, Packed
<1>3. ASSUME AllSeen, NEW i \in Prefixes PROVE i < offset
  <2>1. CASE offset = End
    <3>1. i \in Nat /\ i <= End - 3 /\ End \in Nat
      BY <1>2, PrefixFacts
    <3> QED BY <2>1, <3>1
  <2>2. CASE ~Found(offset)
    BY <1>2, <1>3, <2>2, ScanFindsNone DEF UInv
  <2> QED BY <1>1, <2>1, <2>2
<1> QED BY <1>1, <1>2, <1>3, FileFacts DEF UInv, Reached

\* Every call of GetNextFrame and every packet.
LEMMA NextUInv == UInv /\ [Next]_vars => UInv'
<1> SUFFICES ASSUME UInv, [Next]_vars PROVE UInv'
  OBVIOUS
<1>1. IInv'
  BY NextIInv DEF UInv
<1>2. CASE Ended \/ UNCHANGED vars
  <2>1. UNCHANGED <<file, offset, pc, nal, p, len, seq, sent>>
    BY <1>2 DEF Ended, vars
  <2>2. /\ AllSeen' = AllSeen /\ Prefixes' = Prefixes /\ Clean(offset)' = Clean(offset)
        /\ Reached' = Reached /\ Received' = Received /\ Packed' = Packed
        /\ {Unit(i) : i \in Packed}' = {Unit(i) : i \in Packed'}
    BY <2>1, FileFacts DEF Reached, Received, Packed
  <2> QED BY <1>1, <2>1, <2>2 DEF UInv
<1> QED BY <1>1, <1>2, FrameUInv, LastUInv, FragmentUInv, NothingLeftUInv, NoFrameUInv DEF Next

\* Every unit of the byte stream format is received whole, and nothing else is.
THEOREM UnitsAlwaysArrive == Spec => []UnitsArrive
<1>1. UInv => UnitsArrive
  <2> SUFFICES ASSUME UInv, pc = "ended", AllSeen PROVE Received = {u \in Units : ~TooLong(u)}
    BY DEF UnitsArrive, AllSeen
  <2>1. Packed = {i \in Prefixes : Sendable(i)} /\ Received = {Unit(i) : i \in Packed}
    BY DEF UInv, Packed
  <2>2. Units = {Unit(i) : i \in {i \in Prefixes : LastByte(i) >= i + 3}}
    BY DEF Units, Unit
  <2> QED BY <2>1, <2>2 DEF Sendable
<1> QED BY <1>1, InitUInv, NextUInv, PTL DEF Spec

-----------------------------------------------------------------------------
(* Progress.                                                               *)

\* Neither the scan nor the loop of pack goes on forever: every step comes nearer to
\* the end of the file, or of the unit, whatever the bytes and the payload size.
THEOREM SenderAdvances == Spec => Advances
<1>1. ASSUME IInv, Next PROVE Nearer \/ UNCHANGED vars
  <2>1. CASE GetNextFrame
    <3>1. /\ file \in Seq(Nat) /\ offset \in Nat \ {0} /\ Found(offset) /\ pc = "source" /\ pc' = "pack"
          /\ offset' = FrameEnd(FindStartCode(offset)) /\ End \in Nat
      BY <1>1, <2>1 DEF IInv, TypeOK, End, GetNextFrame
    <3>2. PICK s : s = FindStartCode(offset)
      OBVIOUS
    <3>3. s \in offset..(End - 5) /\ StartCodeAt(s)
      BY <3>1, <3>2, FoundIsStartCode
    <3>4. s \in 1..(End - 5)
      BY <3>1, <3>3
    <3>5. PICK n \in {3, 4} : n = CodeLength(s) /\ offset' \in (s + n)..End
      BY <3>1, <3>2, <3>3, <3>4, FrameBehindCode
    <3>6. offset' > offset
      BY ONLY <3>1, <3>3, <3>5
    <3> QED BY <3>1, <3>6 DEF Nearer
  <2>2. CASE FirstFragment \/ MiddleFragment
    <3>1. /\ pc = "pack" /\ pc' = pc /\ offset' = offset /\ len > 0
          /\ len' = len - 1 - MaxPayload \/ len' = len - MaxPayload
      BY <2>2 DEF FirstFragment, MiddleFragment
    <3>2. len \in Nat /\ MaxPayload \in Nat \ {0}
      BY <1>1, <3>1, UnitFacts
    <3>3. len' < len
      BY ONLY <3>1, <3>2
    <3> QED BY <3>1, <3>3 DEF Nearer
  <2>3. CASE NoFrame \/ Single \/ LastFragment \/ NothingLeft
    BY <2>3 DEF NoFrame, Single, LastFragment, NothingLeft, Nearer
  <2>4. CASE Ended
    BY <2>4 DEF Ended
  <2> QED BY <1>1, <2>1, <2>2, <2>3, <2>4 DEF Next
<1>2. IInv /\ [Next]_vars => [Nearer]_vars
  BY <1>1
<1> QED BY <1>2, SenderIInv, PTL DEF Spec, Advances
=============================================================================
