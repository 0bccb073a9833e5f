--------------------------- MODULE FramingProofs ----------------------------
(***************************************************************************)
(* For every stream and every way to cut it into chunks: the invariants of *)
(* Framing hold, and the loops implement the Deframer.                     *)
(***************************************************************************)
EXTENDS Framing, SequenceTheorems, TLAPS

\* The n positions after a: what a buffer that lost nothing looks like.
Run(a, n) == [i \in 1..n |-> a + i]

-----------------------------------------------------------------------------
(* Runs of positions under the three operations the loops apply to them.   *)

\* A run is a sequence of the given length.
LEMMA RunSeq ==
    ASSUME NEW a \in Nat, NEW n \in Nat
    PROVE  /\ Run(a, n) \in Seq(Nat) /\ Len(Run(a, n)) = n
           /\ \A i \in 1..n : Run(a, n)[i] = a + i
           /\ Run(a, n) = <<>> <=> n = 0
  BY DEF Run

\* Appending the next chunk to cache_ extends the run.
LEMMA RunConcat ==
    ASSUME NEW a \in Nat, NEW n \in Nat, NEW m \in Nat
    PROVE  Run(a, n) \o Run(a + n, m) = Run(a, n + m)
  BY DEF Run

\* Dropping the consumed bytes leaves the rest of the run.
LEMMA RunTail ==
    ASSUME NEW a \in Nat, NEW n \in Nat, NEW k \in 0..n
    PROVE  SubSeq(Run(a, n), n - k + 1, n) = Run(a + n - k, k)
  BY DEF Run

-----------------------------------------------------------------------------
(* The units cut so far, and what cutting one more does.                   *)

\* Positions and lengths are numbers.
LEMMA UnitFacts ==
    ASSUME NEW s \in Starts
    PROVE  /\ s \in Nat \ {0} /\ UnitLen[s] \in Nat \ {0}
           /\ After(s) \in Nat /\ After(s) = s + UnitLen[s]
  BY StreamAssumption DEF After

\* Between two units the next byte begins a unit or lies past the stream.
LEMMA CutPoint ==
    ASSUME NEW d, IsPrefixOfUnits(d)
    PROVE  /\ Consumed(d) \in 0..StreamLen
           /\ Consumed(d) + 1 \in Starts \cup {StreamLen + 1}
<1>1. CASE d = <<>>
  BY <1>1, StreamAssumption DEF Consumed
<1>2. CASE d # <<>>
  <2>1. d[Len(d)] \in Starts
    BY <1>2 DEF IsPrefixOfUnits
  <2>2. After(d[Len(d)]) \in Starts \cup {StreamLen + 1}
    BY <2>1, StreamAssumption DEF After
  <2>3. After(d[Len(d)]) \in 1..(StreamLen + 1)
    BY <2>2, StreamAssumption
  <2> QED BY <1>2, <2>2, <2>3, StreamAssumption DEF Consumed
<1> QED BY <1>1, <1>2

\* Cutting the unit at the cut point moves the cut point behind that unit...
LEMMA CutMoves ==
    ASSUME NEW d \in Seq(Starts), NEW s \in Starts
    PROVE  Consumed(Append(d, s)) = After(s) - 1
<1>1. Append(d, s) # <<>> /\ Append(d, s)[Len(Append(d, s))] = s
  OBVIOUS
<1> QED BY <1>1 DEF Consumed

\* ...and keeps the units in stream order.
LEMMA CutKeepsOrder ==
    ASSUME NEW d, IsPrefixOfUnits(d), Consumed(d) + 1 \in Starts
    PROVE  IsPrefixOfUnits(Append(d, Consumed(d) + 1))
<1> SUFFICES ASSUME NEW s \in Starts, s = Consumed(d) + 1
             PROVE  IsPrefixOfUnits(Append(d, s))
  OBVIOUS
<1>1. d \in Seq(Starts) /\ Len(d) \in Nat
  BY DEF IsPrefixOfUnits
<1>2. /\ Append(d, s) \in Seq(Starts) /\ Len(Append(d, s)) = Len(d) + 1
      /\ Append(d, s)[Len(d) + 1] = s
      /\ \A k \in 1..Len(d) : Append(d, s)[k] = d[k]
  BY <1>1
<1>3. CASE d = <<>>
  BY <1>2, <1>3 DEF Consumed, IsPrefixOfUnits
<1>4. CASE d # <<>>
  <2>1. Len(d) \in 1..Len(d) /\ d[Len(d)] \in Starts
    BY <1>1, <1>4
  <2>2. After(d[Len(d)]) \in Nat
    BY <2>1, UnitFacts, Zenon
  <2>3. s = After(d[Len(d)])
    BY <2>2, <1>4 DEF Consumed
  <2>4. d[1] = 1 /\ \A k \in 1..(Len(d) - 1) : d[k + 1] = After(d[k])
    BY <1>4 DEF IsPrefixOfUnits
  <2>5. \A k \in 1..Len(d) : Append(d, s)[k + 1] = After(Append(d, s)[k])
    BY <2>1, <2>3, <2>4, <1>1, <1>2
  <2> QED BY <2>1, <2>4, <2>5, <1>2 DEF IsPrefixOfUnits
<1> QED BY <1>3, <1>4

-----------------------------------------------------------------------------
(* The inductive invariant.  NoByteLost alone is not inductive: inside the *)
(* loop the bytes in front of p are still in the buffer, and Return relies *)
(* on the whole buffer being a run that ends at the last byte received.    *)

Cut == Consumed(delivered)

Buffered(b) == b = Run(arrived - Len(b), Len(b)) /\ Len(b) <= arrived

IInv ==
    /\ TypeOK
    /\ InOrderDelivery
    /\ Buffered(cache)
    /\ pc \in {"loop", "exit"} =>
          /\ Buffered(Buffer)
          /\ len = arrived - Cut /\ len <= Len(Buffer)
    /\ pc = "idle" => Len(cache) = arrived - Cut
    /\ pc # "failed" =>
          /\ Cut <= arrived
          /\ needMore => Cut < arrived /\ Cut + 1 \in MsgStarts

\* In the loop *p is the byte after the last delivered unit, and it begins a
\* unit: this is what every handler step starts from.
LEMMA AtCutPoint ==
    ASSUME IInv, pc = "loop", len > 0
    PROVE  /\ p = Cut + 1 /\ p \in Starts
           /\ len = arrived - Cut /\ Cut \in Nat /\ Cut < arrived
           /\ UnitLen[p] \in Nat \ {0}
           /\ needMore => p \in MsgStarts
<1>1. /\ Buffer \in Seq(1..StreamLen) /\ Len(Buffer) \in Nat /\ arrived \in 0..StreamLen
      /\ len \in Nat /\ StreamLen \in Nat
  BY StreamAssumption DEF IInv, TypeOK, Buffer
<1>2. Cut \in 0..StreamLen /\ Cut + 1 \in Starts \cup {StreamLen + 1}
  BY CutPoint DEF IInv, InOrderDelivery, Cut
<1>3. len = arrived - Cut /\ len <= Len(Buffer) /\ Buffered(Buffer)
  BY DEF IInv
<1>4. p = arrived - Len(Buffer) + (Len(Buffer) - len + 1)
  <2>1. Len(Buffer) - len + 1 \in 1..Len(Buffer) /\ arrived - Len(Buffer) \in Nat
    BY <1>1, <1>3 DEF Buffered
  <2>2. Run(arrived - Len(Buffer), Len(Buffer))[Len(Buffer) - len + 1]
          = arrived - Len(Buffer) + (Len(Buffer) - len + 1)
    BY <2>1, <1>1, RunSeq
  <2> QED BY <2>2, <1>3 DEF Buffered, p
<1>5. p = Cut + 1 /\ Cut < arrived
  BY <1>1, <1>2, <1>3, <1>4
<1>6. p \in Starts
  BY <1>1, <1>2, <1>5
<1> QED BY <1>1, <1>2, <1>3, <1>5, <1>6, StreamAssumption DEF IInv

\* Initially nothing was received.
LEMMA InitInv == Init => IInv
<1> SUFFICES ASSUME Init PROVE IInv
  OBVIOUS
<1>1. arrived = 0 /\ cache = <<>> /\ delivered = <<>> /\ pc = "idle" /\ ~needMore /\ Cut = 0
  BY DEF Init, Cut, Consumed
<1>2. TypeOK
  <2>1. <<>> \in Seq(Starts) /\ <<>> \in Seq(1..StreamLen) /\ 0 \in 0..StreamLen
    BY StreamAssumption
  <2> QED BY <2>1 DEF Init, TypeOK
<1>3. InOrderDelivery
  BY <1>1 DEF InOrderDelivery, IsPrefixOfUnits
<1>4. Buffered(cache)
  BY <1>1, RunSeq DEF Buffered
<1> QED BY <1>1, <1>2, <1>3, <1>4 DEF IInv

\* A call input(data, n) appends exactly the next n bytes to what is buffered.
LEMMA InputInv ==
    ASSUME IInv, NEW n \in 1..(StreamLen - arrived), Input(n)
    PROVE  IInv'
<1> DEFINE chunk == [i \in 1..n |-> arrived + i]
<1>1. /\ StreamLen \in Nat /\ arrived \in 0..StreamLen /\ n \in Nat /\ n > 0
      /\ arrived + n \in 0..StreamLen
  BY StreamAssumption DEF IInv, TypeOK
<1>2. /\ chunk = Run(arrived, n) /\ chunk \in Seq(1..StreamLen) /\ Len(chunk) = n
      /\ chunk # <<>>
  <2>1. \A i \in 1..n : arrived + i \in 1..StreamLen
    BY <1>1
  <2> QED BY <2>1, <1>1, RunSeq DEF Run
<1>3. /\ cache \in Seq(1..StreamLen) /\ Len(cache) \in Nat /\ Len(cache) = arrived - Cut
      /\ Buffered(cache) /\ Cut \in 0..StreamLen /\ Cut' = Cut
  BY CutPoint DEF IInv, TypeOK, Input, InOrderDelivery, Cut
<1>4. /\ arrived' = arrived + n /\ data' = chunk /\ len' = Len(cache) + n /\ pc' = "loop"
      /\ cache' = IF cache = <<>> THEN <<>> ELSE cache \o chunk
      /\ UNCHANGED <<side, needMore, delivered>>
  BY DEF Input
<1> HIDE DEF chunk
<1>5. TypeOK'
  <2>1. cache' \in Seq(1..StreamLen)
    BY <1>2, <1>3, <1>4, ConcatProperties
  <2>2. len' \in 0..StreamLen
    BY <1>1, <1>3, <1>4
  <2> QED BY <2>1, <2>2, <1>1, <1>2, <1>4 DEF IInv, TypeOK
<1>6. InOrderDelivery'
  BY <1>4 DEF IInv, InOrderDelivery
<1>7. Buffered(cache)' /\ Buffered(Buffer)' /\ len' <= Len(Buffer')
  <2>1. CASE cache = <<>>
    <3>1. cache' = <<>> /\ Buffer' = chunk /\ Len(cache) = 0
      BY <2>1, <1>4 DEF Buffer
    <3>2. Run(arrived + n - Len(<<>>), Len(<<>>)) = <<>>
      BY <1>1, RunSeq
    <3>3. Run(arrived + n - Len(chunk), Len(chunk)) = chunk
      BY <1>1, <1>2
    <3> QED BY <3>1, <3>2, <3>3, <1>1, <1>2, <1>4 DEF Buffered
  <2>2. CASE cache # <<>>
    <3>1. /\ cache' = cache \o chunk /\ Len(cache \o chunk) = Len(cache) + n
          /\ cache \o chunk # <<>>
      <4>1. Len(cache \o chunk) = Len(cache) + n /\ cache \o chunk \in Seq(1..StreamLen)
        BY <1>2, <1>3, ConcatProperties
      <4>2. Len(cache) + n > 0
        BY <1>1, <1>3
      <4> QED BY <4>1, <4>2, <2>2, <1>4
    <3>2. Buffer' = cache \o chunk
      BY <3>1 DEF Buffer
    <3>3. /\ arrived - Len(cache) \in Nat
          /\ cache = Run(arrived - Len(cache), Len(cache))
          /\ chunk = Run((arrived - Len(cache)) + Len(cache), n)
      BY <1>1, <1>2, <1>3 DEF Buffered
    <3>4. cache \o chunk = Run(arrived - Len(cache), Len(cache) + n)
      <4>1. Run(arrived - Len(cache), Len(cache)) \o Run((arrived - Len(cache)) + Len(cache), n)
              = Run(arrived - Len(cache), Len(cache) + n)
        BY <3>3, <1>1, <1>3, RunConcat
      <4> QED BY <4>1, <3>3
    <3>5. arrived + n - (Len(cache) + n) = arrived - Len(cache)
      BY <1>1, <1>3
    <3>6. Len(cache') = Len(cache) + n /\ arrived' - Len(cache') = arrived - Len(cache)
          /\ Len(cache') <= arrived'
      BY <3>1, <3>5, <1>1, <1>3, <1>4
    <3>7. cache' = Run(arrived' - Len(cache'), Len(cache'))
      BY <3>1, <3>4, <3>6
    <3>8. Buffered(cache)'
      BY <3>6, <3>7 DEF Buffered
    <3>9. Buffer' = cache' /\ len' = Len(cache')
      BY <3>1, <3>2, <1>4
    <3>10. Buffered(Buffer)'
      BY <3>6, <3>7, <3>9 DEF Buffered
    <3> QED BY <3>6, <3>8, <3>9, <3>10, <1>1, <1>3
  <2> QED BY <2>1, <2>2
<1>8. len' = arrived' - Cut'
  BY <1>1, <1>3, <1>4
<1>9. Cut' <= arrived' /\ (needMore' => Cut' < arrived' /\ Cut' + 1 \in MsgStarts)
  BY <1>1, <1>3, <1>4 DEF IInv, Input
<1> QED BY <1>4, <1>5, <1>6, <1>7, <1>8, <1>9 DEF IInv

\* Cutting the complete unit at p: the cut point moves by its length.
LEMMA CutEffect ==
    ASSUME IInv, pc = "loop", len > 0, UnitLen[p] <= len,
           delivered' = Append(delivered, p), len' = len - UnitLen[p],
           UNCHANGED <<side, arrived, data, cache>>, needMore' = FALSE,
           pc' \in {"loop", "exit"}
    PROVE  IInv'
<1>1. /\ p = Cut + 1 /\ p \in Starts /\ len = arrived - Cut /\ Cut \in Nat
      /\ UnitLen[p] \in Nat \ {0}
  BY AtCutPoint
<1>2. /\ arrived \in 0..StreamLen /\ len \in 0..StreamLen /\ StreamLen \in Nat
      /\ delivered \in Seq(Starts) /\ IsPrefixOfUnits(delivered)
  BY StreamAssumption DEF IInv, TypeOK, InOrderDelivery
<1>3. IsPrefixOfUnits(Append(delivered, p))
  BY <1>1, <1>2, CutKeepsOrder DEF Cut
<1>4. Consumed(Append(delivered, p)) = Cut + UnitLen[p]
  <2>1. Consumed(Append(delivered, p)) = After(p) - 1 /\ After(p) = p + UnitLen[p]
    BY <1>1, <1>2, CutMoves, UnitFacts
  <2> QED BY <2>1, <1>1, SMTT(30)
<1>5. Cut' = Cut + UnitLen[p] /\ InOrderDelivery' /\ delivered' \in Seq(Starts)
  BY <1>3, <1>4 DEF Cut, InOrderDelivery, IsPrefixOfUnits
<1>6. len' = arrived' - Cut' /\ Cut' <= arrived' /\ len' \in 0..StreamLen
  BY <1>1, <1>2, <1>5, SMTT(30)
<1>7. TypeOK'
  BY <1>2, <1>5, <1>6 DEF IInv, TypeOK
<1>8. Buffered(cache)' /\ Buffered(Buffer)' /\ Buffer' = Buffer
  BY DEF IInv, Buffered, Buffer
<1>9. len' <= Len(Buffer')
  <2>1. Len(Buffer) \in Nat /\ len <= Len(Buffer)
    BY DEF IInv, TypeOK, Buffer
  <2> QED BY <2>1, <1>1, <1>2, <1>8
<1> QED BY <1>5, <1>6, <1>7, <1>8, <1>9 DEF IInv

\* A handler step of the loop that finds a whole unit at p.
LEMMA CutInv == ASSUME IInv, CutPacket \/ CutMessage PROVE IInv'
<1>1. CASE CutPacket
  <2>1. pc = "loop" /\ len > 0 /\ needMore = FALSE /\ RtpRead(p, len) > 0
    BY <1>1 DEF CutPacket, AtInterleaved, IInv, TypeOK
  <2>2. UnitLen[p] \in Nat /\ len \in Int
    BY <2>1, AtCutPoint DEF IInv, TypeOK
  <2>3. RtpRead(p, len) = UnitLen[p] /\ UnitLen[p] <= len
    BY <2>1, <2>2 DEF RtpRead
  <2> QED BY <2>1, <2>3, <1>1, CutEffect DEF CutPacket
<1>2. CASE CutMessage
  <2>1. pc = "loop" /\ len > 0 /\ needMore' = FALSE /\ MessageRead(p, len) > 0
    BY <1>2 DEF CutMessage, NeedMoreAfterMessage
  <2>2. UnitLen[p] \in Nat /\ len \in Int
    BY <2>1, AtCutPoint DEF IInv, TypeOK
  <2>3. MessageRead(p, len) = UnitLen[p] /\ UnitLen[p] <= len
    BY <2>1, <2>2 DEF MessageRead
  <2> QED BY <2>1, <2>3, <1>2, CutEffect DEF CutMessage, AfterMessage
<1> QED BY <1>1, <1>2

\* Leaving the loop on an incomplete unit.
LEMMA PartialInv == ASSUME IInv, PartialPacket \/ PartialMessage PROVE IInv'
<1>1. pc = "loop" /\ len > 0 /\ pc' = "exit"
      /\ UNCHANGED <<side, arrived, data, cache, len, delivered>>
  BY DEF PartialPacket, PartialMessage
<1>2. p = Cut + 1 /\ Cut < arrived
  BY <1>1, AtCutPoint
<1>3. needMore' \in BOOLEAN /\ (needMore' => p \in MsgStarts)
  <2>1. CASE PartialPacket
    BY <2>1, <1>1, AtCutPoint DEF PartialPacket, IInv, TypeOK
  <2>2. CASE PartialMessage
    BY <2>2 DEF PartialMessage, MessageRead
  <2> QED BY <2>1, <2>2
<1>4. Cut' = Cut /\ Buffer' = Buffer /\ TypeOK' /\ InOrderDelivery'
  BY <1>1, <1>3 DEF Cut, Buffer, IInv, TypeOK, InOrderDelivery
<1> QED BY <1>1, <1>2, <1>3, <1>4 DEF IInv, Buffered

\* An error return leaves cache_ as it is; at most p was handed out before.
LEMMA FailedInv == ASSUME IInv, Failed PROVE IInv'
<1>1. pc = "loop" /\ len > 0 /\ pc' = "failed" /\ UNCHANGED <<side, arrived, data, cache, len>>
  BY DEF Failed
<1>2. p = Cut + 1 /\ p \in Starts /\ IsPrefixOfUnits(delivered)
  BY <1>1, AtCutPoint DEF IInv, InOrderDelivery
<1>3. IsPrefixOfUnits(delivered')
  <2>1. IsPrefixOfUnits(Append(delivered, p))
    BY <1>2, CutKeepsOrder DEF Cut
  <2> QED BY <1>2, <2>1 DEF Failed
<1>4. needMore' \in BOOLEAN
  BY DEF Failed
<1>5. TypeOK'
  BY <1>1, <1>3, <1>4 DEF IInv, TypeOK, IsPrefixOfUnits
<1> QED BY <1>1, <1>3, <1>5 DEF IInv, InOrderDelivery, Buffered

\* The epilogue keeps exactly the bytes behind the cut point.
LEMMA ReturnInv == ASSUME IInv, Return PROVE IInv'
<1>1. /\ pc \in {"loop", "exit"} /\ pc' = "idle" /\ len' = 0 /\ data' = <<>>
      /\ cache' = SubSeq(Buffer, Len(Buffer) - len + 1, Len(Buffer))
      /\ UNCHANGED <<side, arrived, needMore, delivered>>
  BY DEF Return, Kept, Rest
<1>2. /\ arrived \in 0..StreamLen /\ StreamLen \in Nat /\ Len(Buffer) \in Nat
      /\ len \in Nat /\ len <= Len(Buffer) /\ len = arrived - Cut
      /\ Buffered(Buffer) /\ Cut \in 0..StreamLen
  BY <1>1, StreamAssumption, CutPoint DEF IInv, TypeOK, Buffer, InOrderDelivery, Cut
<1>3. cache' = Run(arrived - len, len)
  <2> DEFINE b == Len(Buffer)
  <2>1. arrived - b \in Nat /\ len \in 0..b
    BY <1>2 DEF Buffered
  <2>2. SubSeq(Run(arrived - b, b), b - len + 1, b) = Run((arrived - b) + b - len, len)
    BY <1>2, <2>1, RunTail
  <2>3. (arrived - b) + b - len = arrived - len
    BY <1>2
  <2> QED BY <1>1, <1>2, <2>2, <2>3 DEF Buffered
<1>4. Len(cache') = len /\ arrived - len \in Nat
  <2>1. arrived - len \in Nat
    BY <1>2
  <2> QED BY <1>2, <1>3, <2>1, RunSeq
<1>5. cache' \in Seq(1..StreamLen)
  <2>1. \A i \in 1..len : (arrived - len) + i \in 1..StreamLen
    BY <1>2, <1>4
  <2> QED BY <1>2, <1>3, <2>1 DEF Run
<1>6. TypeOK'
  <2>1. data' \in Seq(1..StreamLen) /\ len' \in 0..StreamLen
    BY <1>1, <1>2
  <2> QED BY <1>1, <1>5, <2>1 DEF IInv, TypeOK
<1>7. Buffered(cache)' /\ Len(cache') = arrived' - Cut'
  <2>1. len <= arrived /\ Cut' = Cut
    BY <1>1, <1>2 DEF Cut
  <2>2. cache' = Run(arrived' - Len(cache'), Len(cache')) /\ Len(cache') <= arrived'
    BY <1>1, <1>3, <1>4, <2>1
  <2> QED BY <1>1, <1>2, <1>4, <2>1, <2>2 DEF Buffered
<1>8. Cut' = Cut /\ InOrderDelivery'
  BY <1>1 DEF Cut, IInv, InOrderDelivery
<1> QED BY <1>1, <1>6, <1>7, <1>8 DEF IInv

\* No step of the receiver leaves the invariant.
LEMMA NextInv == IInv /\ [Next]_vars => IInv'
<1> SUFFICES ASSUME IInv, [Next]_vars PROVE IInv'
  OBVIOUS
<1>1. CASE \E n \in 1..(StreamLen - arrived) : Input(n)
  BY <1>1, InputInv
<1>2. CASE CutPacket \/ CutMessage
  BY <1>2, CutInv
<1>3. CASE PartialPacket \/ PartialMessage
  BY <1>3, PartialInv
<1>4. CASE Failed
  BY <1>4, FailedInv
<1>5. CASE Return
  BY <1>5, ReturnInv
<1>6. CASE UNCHANGED vars
  BY <1>6 DEF vars, IInv, TypeOK, InOrderDelivery, Buffered, Buffer, Cut
<1> QED BY <1>1, <1>2, <1>3, <1>4, <1>5, <1>6 DEF Next, InLoop, Closed

\* The inductive invariant holds for every chunking of every stream.
THEOREM Invariance == Spec => []IInv
  BY InitInv, NextInv, PTL DEF Spec

-----------------------------------------------------------------------------
(* What a reader of the input() loops wants to know.                       *)

\* Client::input and ServerHandle::input keep their variables in range: in
\* particular len never goes negative, whatever the chunking.
THEOREM TypeCorrect == Spec => []TypeOK
<1>1. IInv => TypeOK
  BY DEF IInv
<1> QED BY <1>1, Invariance, PTL

\* Handlers see the units of the stream in order, each once.
THEOREM InOrder == Spec => []InOrderDelivery
<1>1. IInv => InOrderDelivery
  BY DEF IInv
<1> QED BY <1>1, Invariance, PTL

\* Whatever the chunking, no byte behind the last delivered unit is lost.
THEOREM Conservation == Spec => []NoByteLost
<1>1. ASSUME IInv PROVE NoByteLost
  <2> SUFFICES ASSUME pc # "failed"
               PROVE  Waiting = Run(Cut, arrived - Cut)
    BY DEF NoByteLost, Run, Cut
  <2>1. /\ arrived \in 0..StreamLen /\ StreamLen \in Nat /\ Cut \in 0..StreamLen
        /\ Cut <= arrived /\ pc \in {"idle", "loop", "exit", "failed"}
        /\ Len(Buffer) \in Nat
    BY <1>1, StreamAssumption, CutPoint DEF IInv, TypeOK, InOrderDelivery, Cut, Buffer
  <2>2. CASE pc = "idle"
    <3>1. cache = Run(arrived - (arrived - Cut), arrived - Cut)
      BY <1>1, <2>2 DEF IInv, Buffered
    <3>2. arrived - (arrived - Cut) = Cut
      BY <2>1
    <3> QED BY <2>2, <3>1, <3>2 DEF Waiting
  <2>3. CASE pc \in {"loop", "exit"}
    <3> DEFINE b == Len(Buffer)
    <3>1. /\ Buffer = Run(arrived - b, b) /\ arrived - b \in Nat /\ len \in 0..b
          /\ len = arrived - Cut
      BY <1>1, <2>1, <2>3 DEF IInv, Buffered
    <3>2. SubSeq(Run(arrived - b, b), b - len + 1, b) = Run((arrived - b) + b - len, len)
      BY <2>1, <3>1, RunTail
    <3>3. (arrived - b) + b - len = Cut
      BY <2>1, <3>1
    <3>4. Waiting = SubSeq(Buffer, b - len + 1, b)
      BY <2>3 DEF Waiting, Rest
    <3> QED BY <3>1, <3>2, <3>3, <3>4
  <2> QED BY <2>1, <2>2, <2>3
<1> QED BY <1>1, Invariance, PTL

\* Whenever the loop looks at *p it looks at the first byte of a unit.
THEOREM Alignment == Spec => []AlignedReads
<1>1. ASSUME IInv PROVE AlignedReads
  <2>1. ASSUME pc = "loop", len > 0
        PROVE  p \in Starts /\ (needMore => p \in MsgStarts)
    BY <1>1, <2>1, AtCutPoint
  <2>2. ASSUME pc = "idle", needMore
        PROVE  cache # <<>> /\ cache[1] \in MsgStarts
    <3>1. /\ Len(cache) = arrived - Cut /\ Cut < arrived /\ Cut + 1 \in MsgStarts
          /\ cache = Run(arrived - Len(cache), Len(cache))
          /\ arrived \in Nat /\ Cut \in Nat
      BY <1>1, <2>2, StreamAssumption, CutPoint
      DEF IInv, TypeOK, InOrderDelivery, Cut, Buffered
    <3>2. arrived - Len(cache) = Cut /\ Len(cache) \in Nat /\ Len(cache) >= 1
      BY <3>1
    <3>3. cache[1] = Cut + 1
      <4>1. cache = Run(Cut, Len(cache)) /\ 1 \in 1..Len(cache)
        BY <3>1, <3>2
      <4>2. Run(Cut, Len(cache))[1] = Cut + 1
        BY <3>1, <3>2, <4>1, RunSeq
      <4> QED BY <4>1, <4>2
    <3> QED BY <3>1, <3>2, <3>3, RunSeq
  <2> QED BY <2>1, <2>2 DEF AlignedReads
<1> QED BY <1>1, Invariance, PTL

-----------------------------------------------------------------------------
(* Both loops implement the Deframer, the server's the prompt one: it       *)
(* leaves the loop only on an incomplete unit or on an exhausted buffer,   *)
(* the client after every message.                                         *)

Prompt == side = "server" /\ pc \in {"idle", "exit"} => ~D!Pending

\* The Deframer's next unit begins at the cut point.
LEMMA NextStartIsCut ==
    /\ D!NextStart = Cut + 1
    /\ D!Pending <=> Cut + 1 \in Starts /\ After(Cut + 1) - 1 <= arrived
<1>1. \A s : D!After(s) = After(s)
  BY DEF D!After, After
<1>2. D!NextStart = Cut + 1
  BY <1>1 DEF D!NextStart, D!Consumed, Consumed, Cut
<1> QED BY <1>1, <1>2 DEF D!Pending

\* An incomplete unit at p is not pending.
LEMMA IncompleteAtP ==
    ASSUME IInv, pc = "loop", len > 0, len < UnitLen[p]
    PROVE  ~D!Pending
<1>1. /\ p = Cut + 1 /\ p \in Starts /\ len = arrived - Cut /\ Cut \in Nat
      /\ arrived \in Nat
  BY AtCutPoint, StreamAssumption DEF IInv, TypeOK
<1>2. After(p) = p + UnitLen[p] /\ UnitLen[p] \in Nat
  BY <1>1, UnitFacts
<1>3. ~(After(Cut + 1) - 1 <= arrived)
  BY <1>1, <1>2
<1> QED BY <1>3, NextStartIsCut

\* With well-formed input the server's parsers never both reject the bytes.
LEMMA ServerNeverFails ==
    ASSUME side = "server", IInv PROVE ~Failed
<1> SUFFICES ASSUME Failed PROVE FALSE
  OBVIOUS
<1>1. pc = "loop" /\ len > 0 /\ ~AtInterleaved /\ MessageRead(p, len) < 0
  BY DEF Failed
<1>2. p \in Starts /\ (needMore => p \in MsgStarts) /\ UnitLen[p] \in Nat
  BY <1>1, AtCutPoint
<1>3. p \in MsgStarts
  BY <1>1, <1>2 DEF AtInterleaved, MsgStarts
<1> QED BY <1>1, <1>2, <1>3 DEF MessageRead

\* Prompt holds in every state the server's loop can reach.
LEMMA PromptInv ==
    ASSUME IInv, Prompt, [Next]_vars
    PROVE  Prompt'
<1> SUFFICES ASSUME side = "server", side' = side PROVE Prompt'
  <2>1. side' = side
    BY DEF Next, InLoop, Closed, Input, CutPacket, PartialPacket, CutMessage, PartialMessage,
           Failed, Return, vars
  <2> QED BY <2>1 DEF Prompt
<1>1. CASE \E n \in 1..(StreamLen - arrived) : Input(n)
  BY <1>1 DEF Input, Prompt
<1>2. CASE CutPacket \/ CutMessage
  BY <1>2 DEF CutPacket, CutMessage, AfterMessage, Prompt
<1>3. CASE PartialPacket \/ PartialMessage
  <2>1. pc = "loop" /\ len > 0 /\ UNCHANGED <<arrived, delivered>>
    BY <1>3 DEF PartialPacket, PartialMessage
  <2>2. UnitLen[p] \in Nat \ {0} /\ len \in Int /\ p \in Starts
    BY <2>1, AtCutPoint DEF IInv, TypeOK
  <2>3. len < UnitLen[p]
    <3>1. CASE PartialPacket
      <4>1. UnitLen[p] >= 4
        BY <3>1, StreamAssumption DEF PartialPacket, AtInterleaved
      <4> QED BY <3>1, <4>1, <2>2 DEF PartialPacket, RtpRead
    <3>2. CASE PartialMessage
      BY <3>2, <2>2 DEF PartialMessage, MessageRead
    <3> QED BY <1>3, <3>1, <3>2
  <2>4. ~D!Pending
    BY <2>1, <2>3, IncompleteAtP
  <2> QED BY <2>1, <2>4 DEF Prompt, D!Pending, D!NextStart
<1>4. CASE Failed
  BY <1>4, ServerNeverFails
<1>5. CASE Return
  <2>1. UNCHANGED <<arrived, delivered>>
    BY <1>5 DEF Return
  <2>2. ~D!Pending
    <3>1. CASE pc = "exit"
      BY <3>1 DEF Prompt
    <3>2. CASE pc = "loop" /\ len = 0
      <4>1. arrived = Cut /\ Cut \in Nat
        BY <3>2, CutPoint, StreamAssumption DEF IInv, TypeOK, InOrderDelivery, Cut
      <4>2. ASSUME Cut + 1 \in Starts PROVE After(Cut + 1) - 1 > arrived
        <5>1. /\ After(Cut + 1) = Cut + 1 + UnitLen[Cut + 1]
              /\ UnitLen[Cut + 1] \in Nat \ {0} /\ After(Cut + 1) \in Nat
          BY <4>2, UnitFacts
        <5> QED BY <4>1, <5>1
      <4>3. ASSUME Cut + 1 \in Starts PROVE After(Cut + 1) \in Nat
        BY <4>3, UnitFacts
      <4>4. ~(Cut + 1 \in Starts /\ After(Cut + 1) - 1 <= arrived)
        BY <4>1, <4>2, <4>3
      <4> QED BY <4>4, NextStartIsCut
    <3> QED BY <1>5, <3>1, <3>2 DEF Return
  <2> QED BY <2>1, <2>2 DEF Prompt, D!Pending, D!NextStart
<1>6. CASE UNCHANGED vars
  BY <1>6 DEF vars, Prompt, D!Pending, D!NextStart
<1> QED BY <1>1, <1>2, <1>3, <1>4, <1>5, <1>6 DEF Next, InLoop, Closed

\* A step of a loop is a step of the Deframer or changes neither what was
\* received nor what was delivered; a client that fails may have delivered.
LEMMA StepRefines ==
    ASSUME IInv, Prompt, [Next]_vars
    PROVE  [D!Next]_(D!dvars)
<1>1. ASSUME NEW n \in 1..(StreamLen - arrived), Input(n)
      PROVE  D!Arrive
  BY <1>1 DEF Input, Prompt, D!Arrive
<1>2. CASE CutPacket \/ CutMessage \/ (Failed /\ MessageRead(p, len) > 0)
  <2>1. /\ pc = "loop" /\ len > 0 /\ delivered' = Append(delivered, p)
        /\ UNCHANGED <<side, arrived>>
    BY <1>2 DEF CutPacket, CutMessage, Failed
  <2>2. /\ p = Cut + 1 /\ p \in Starts /\ len = arrived - Cut /\ Cut \in Nat
        /\ UnitLen[p] \in Nat \ {0} /\ len \in Int /\ arrived \in Nat
    BY <2>1, AtCutPoint, StreamAssumption DEF IInv, TypeOK
  <2>3. UnitLen[p] <= len
    BY <1>2, <2>2 DEF CutPacket, CutMessage, RtpRead, MessageRead
  <2>4. After(p) = p + UnitLen[p]
    BY <2>2, UnitFacts
  <2>5. After(p) - 1 <= arrived
    BY <2>2, <2>3, <2>4
  <2>6. D!Deliver
    BY <2>1, <2>2, <2>5, NextStartIsCut DEF D!Deliver
  <2> QED BY <2>6 DEF D!Next
<1>3. CASE PartialPacket \/ PartialMessage \/ Return \/ UNCHANGED vars
  BY <1>3 DEF PartialPacket, PartialMessage, Return, vars, D!dvars
<1>4. CASE Failed /\ ~(MessageRead(p, len) > 0)
  BY <1>4 DEF Failed, D!dvars
<1> QED BY <1>1, <1>2, <1>3, <1>4 DEF Next, InLoop, Closed, D!Next

\* Client::input and ServerHandle::input hand over complete units in order,
\* each once, and ServerHandle::input every complete unit before it returns:
\* they implement the safety part of the Deframer.
THEOREM LoopsImplementDeframer == Spec => D!SafeSpec
<1>1. Init => D!Init /\ Prompt
  <2>1. Init => D!Init
    BY DEF Init, D!Init
  <2>2. ASSUME Init PROVE ~D!Pending
    <3>1. Cut + 1 = 1 /\ arrived = 0
      BY <2>2 DEF Init, Cut, Consumed
    <3>2. After(1) = 1 + UnitLen[1] /\ UnitLen[1] \in Nat \ {0}
      BY StreamAssumption, UnitFacts
    <3>3. ~(After(1) - 1 <= arrived)
      BY <3>1, <3>2
    <3> QED BY <3>1, <3>3, NextStartIsCut
  <2> QED BY <2>1, <2>2 DEF Prompt
<1>2. IInv /\ Prompt /\ [Next]_vars => Prompt'
  BY PromptInv
<1>3. IInv /\ Prompt /\ [Next]_vars => [D!Next]_(D!dvars)
  BY StepRefines
<1> QED BY <1>1, <1>2, <1>3, Invariance, PTL DEF Spec, D!SafeSpec
=============================================================================
