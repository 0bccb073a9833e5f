----------------------------- MODULE MD5Proofs -----------------------------
(***************************************************************************)
(* For every content below 2^49 bytes, cut into any pieces that the 32 bits *)
(* of sum() can count: the blocks that MD5 processes are those of RFC 1321, *)
(* but for contents of 56 bytes modulo 64.  For pieces of any length: blocks *)
(* are whole.  Both bounds are needed.                                     *)
(***************************************************************************)
EXTENDS MD5, SequenceTheorems, TLAPS

IInv == TypeOK /\ size <= MaxContent /\ ContentKept /\ DigestAsSpecified /\ PaddingForgotten

-----------------------------------------------------------------------------
(* Sequences.                                                              *)

\* The bytes of a piece of the content, numbered on from the first.
LEMMA DataFacts ==
    ASSUME NEW first \in Nat, NEW n \in Nat
    PROVE  /\ Data(first, n) \in Seq(Bytes) /\ Len(Data(first, n)) = n
           /\ \A k \in 1..n : Data(first, n)[k] = <<"data", first + k>>
<1>1. \A k \in 1..n : <<"data", first + k>> \in Bytes
  BY DEF Bytes
<1> QED BY <1>1 DEF Data

\* Data continue those before them.
LEMMA DataContinues ==
    ASSUME NEW n \in Nat, NEW m \in Nat
    PROVE  Data(0, n) \o Data(n, m) = Data(0, n + m)
<1>1. PICK s, t, u : s = Data(0, n) /\ t = Data(n, m) /\ u = Data(0, n + m)
  OBVIOUS
<1>2. s \in Seq(Bytes) /\ Len(s) = n /\ \A k \in 1..n : s[k] = <<"data", k>>
  <2>1. /\ Data(0, n) \in Seq(Bytes) /\ Len(Data(0, n)) = n
        /\ \A k \in 1..n : Data(0, n)[k] = <<"data", 0 + k>>
    BY DataFacts
  <2> QED BY <1>1, <2>1
<1>3. t \in Seq(Bytes) /\ Len(t) = m /\ \A k \in 1..m : t[k] = <<"data", n + k>>
  BY <1>1, DataFacts, Zenon
<1>4. u \in Seq(Bytes) /\ Len(u) = n + m /\ \A k \in 1..(n + m) : u[k] = <<"data", k>>
  <2>1. n + m \in Nat
    OBVIOUS
  <2>2. /\ Data(0, n + m) \in Seq(Bytes) /\ Len(Data(0, n + m)) = n + m
        /\ \A k \in 1..(n + m) : Data(0, n + m)[k] = <<"data", 0 + k>>
    BY <2>1, DataFacts
  <2> QED BY <1>1, <2>2
<1>5. /\ s \o t \in Seq(Bytes) /\ Len(s \o t) = n + m
      /\ \A k \in 1..(n + m) : (s \o t)[k] = IF k <= n THEN s[k] ELSE t[k - n]
  BY <1>2, <1>3, ConcatProperties
<1>6. \A k \in 1..(n + m) : (s \o t)[k] = <<"data", k>>
  <2> SUFFICES ASSUME NEW k \in 1..(n + m) PROVE (s \o t)[k] = <<"data", k>>
    OBVIOUS
  <2>1. CASE k <= n
    BY <1>2, <1>5, <2>1
  <2>2. CASE ~(k <= n)
    <3>1. k - n \in 1..m /\ n + (k - n) = k
      BY <2>2
    <3>2. t[k - n] = <<"data", k>>
      BY <1>3, <3>1
    <3> QED BY <1>5, <2>2, <3>2
  <2> QED BY <2>1, <2>2
<1>7. s \o t = u
  BY <1>4, <1>5, <1>6, SeqEqual
<1> QED BY <1>1, <1>7

\* n bytes of padding are n bytes.
LEMMA PaddingFacts ==
    ASSUME NEW n \in Nat
    PROVE  Padding(n) \in Seq(Bytes) /\ Len(Padding(n)) = n
<1>1. <<"0x80", 0>> \in Bytes /\ <<"0x00", 0>> \in Bytes
  BY DEF Bytes
<1> QED BY <1>1 DEF Padding

\* A byte of the length is one.
LEMMA ByteFacts == ASSUME NEW n \in Nat, NEW power \in Nat \ {0} PROVE ByteAt(n, power) \in Bytes
<1>1. PICK q : q = n \div power
  OBVIOUS
<1>2. q \in Int
  BY <1>1
<1>3. q % 256 \in Nat
  BY <1>2
<1> QED BY <1>1, <1>3 DEF ByteAt, Bytes

\* The length of the content takes eight bytes.
LEMMA LengthFacts ==
    ASSUME NEW n \in Nat
    PROVE  LengthBytes(n) \in Seq(Bytes) /\ Len(LengthBytes(n)) = 8
<1>1. \A power \in Nat \ {0} : ByteAt(n, power) \in Bytes
  BY ByteFacts
<1>2. SevenBytes(n) \in Seq(Bytes) /\ Len(SevenBytes(n)) = 7
  BY <1>1, SMT DEF SevenBytes
<1>3. PICK last, seven : LengthBytes(n) = seven \o <<last>> /\ seven = SevenBytes(n) /\ last \in Bytes
  BY <1>1, SMT DEF LengthBytes
<1>4. <<last>> \in Seq(Bytes) /\ Len(<<last>>) = 1
  BY <1>3
<1>5. seven \in Seq(Bytes) /\ Len(seven) = 7
  BY <1>2, <1>3
<1>6. seven \o <<last>> \in Seq(Bytes) /\ Len(seven \o <<last>>) = Len(seven) + Len(<<last>>)
  BY <1>4, <1>5, ConcatProperties
<1> QED BY <1>3, <1>4, <1>5, <1>6

\* Below 2^52 bits a shift by 52 gives the same byte as one by 56: none is left.
LEMMA LengthsAgree ==
    ASSUME NEW n \in Nat, n <= MaxContent PROVE LengthBytes(n * 8) = RfcLength(n * 8)
<1>1. n * 8 \in Nat /\ n * 8 < 4503599627370496
  BY SMT DEF MaxContent
<1>2. (n * 8) \div 4503599627370496 = 0 /\ (n * 8) \div 72057594037927936 = 0
  BY <1>1, SMT
<1> QED BY <1>2, SMT DEF LengthBytes, RfcLength, ByteAt

\* Pieces may be joined in any order.
LEMMA Joined ==
    ASSUME NEW r \in Seq(Bytes), NEW s \in Seq(Bytes), NEW t \in Seq(Bytes)
    PROVE  (r \o s) \o t = r \o (s \o t)
  BY ConcatAssociative

\* Whole blocks and whole blocks are whole blocks.
LEMMA SumOfMultiples ==
    ASSUME NEW a \in Nat, NEW b \in Nat, a % 64 = 0, b % 64 = 0
    PROVE  (a + b) % 64 = 0
  OBVIOUS

\* What a call of sum() processes and what it caches make up its message.
LEMMA CutInTwo ==
    ASSUME NEW s \in Seq(Bytes), NEW i \in 0..Len(s)
    PROVE  /\ SubSeq(s, 1, i) \in Seq(Bytes) /\ SubSeq(s, i + 1, Len(s)) \in Seq(Bytes)
           /\ Len(SubSeq(s, 1, i)) = i
           /\ SubSeq(s, 1, i) \o SubSeq(s, i + 1, Len(s)) = s
<1>1. Len(s) \in Nat /\ \A k \in 1..Len(s) : s[k] \in Bytes
  BY LenProperties, ElementOfSeq
<1>2. SubSeq(s, 1, i) \in Seq(Bytes) /\ Len(SubSeq(s, 1, i)) = i
  BY <1>1, SubSeqProperties
<1>3. SubSeq(s, i + 1, Len(s)) \in Seq(Bytes)
  BY <1>1, SubSeqProperties
<1>4. SubSeq(s, 1, i) \o SubSeq(s, i + 1, Len(s)) = SubSeq(s, 1, Len(s))
  <2>1. 1 \in 1..(Len(s) + 1) /\ i \in (1 - 1)..Len(s) /\ Len(s) \in i..Len(s)
    BY <1>1
  <2> QED BY <2>1, ConcatAdjacentSubSeq
<1> QED BY <1>2, <1>3, <1>4, SubSeqFull

\* What processChunk is given are whole blocks, and all there are.
LEMMA BlocksFit ==
    ASSUME NEW n \in Nat
    PROVE  Blocks(n) \in 0..n /\ Blocks(n) % 64 = 0 /\ (n % 64 = 0 => Blocks(n) = n)
  BY DEF Blocks

\* A call of sum(), of any length: blocks are whole, or the call runs away.
LEMMA SumTypes ==
    ASSUME NEW pending \in Seq(Bytes), NEW data \in Seq(Bytes), NEW after, SumBytes(pending, data, after),
           chunks \in Seq(Bytes), cache \in Seq(Bytes), Len(chunks) % 64 = 0
    PROVE  /\ pc' \in {after, "runaway"} /\ chunks' \in Seq(Bytes) /\ cache' \in Seq(Bytes)
           /\ Len(chunks') % 64 = 0
<1>1. PICK message, length, i :
          message = pending \o data /\ length = Len(data) % Width32 /\ i = Blocks(length)
  OBVIOUS
<1>2. /\ message \in Seq(Bytes) /\ Len(message) = Len(pending) + Len(data)
      /\ Len(pending) \in Nat /\ Len(data) \in Nat
  BY <1>1, ConcatProperties, LenProperties
<1>3. length \in 0..Len(data)
  BY <1>1, <1>2, SMT DEF Width32
<1>4. i \in 0..length /\ i % 64 = 0
  BY <1>1, <1>3, BlocksFit
<1>5. PICK end : end = IF pending = <<>> THEN length ELSE Len(message)
  OBVIOUS
<1>6. i \in 0..Len(message) /\ end \in i..Len(message)
  BY <1>2, <1>3, <1>4, <1>5
<1>7. CASE length + 64 >= Width32
  BY <1>1, <1>7 DEF SumBytes
<1>8. CASE ~(length + 64 >= Width32)
  <2>1. pc' = after /\ chunks' = chunks \o SubSeq(message, 1, i) /\ cache' = SubSeq(message, i + 1, end)
    BY <1>1, <1>5, <1>8 DEF SumBytes
  <2>2. SubSeq(message, 1, i) \in Seq(Bytes) /\ Len(SubSeq(message, 1, i)) = i
    BY <1>2, <1>6, CutInTwo
  <2>3. SubSeq(message, i + 1, end) \in Seq(Bytes)
    <3>1. \A k \in (i + 1)..end : message[k] \in Bytes
      BY <1>2, <1>6, ElementOfSeq
    <3> QED BY <1>2, <1>6, <3>1, SubSeqProperties
  <2>4. /\ chunks' \in Seq(Bytes) /\ Len(chunks') = Len(chunks) + i /\ Len(chunks) \in Nat
    BY <2>1, <2>2, ConcatProperties, LenProperties
  <2>5. (Len(chunks) + i) % 64 = 0
    <3>1. i \in Nat
      BY <1>2, <1>3, <1>4
    <3> QED BY <1>4, <2>4, <3>1, SumOfMultiples, ZenonT(40)
  <2> QED BY <2>1, <2>3, <2>4, <2>5
<1> QED BY <1>7, <1>8

\* Lengths that fit are not changed by their conversion.
LEMMA FitsUnchanged == ASSUME NEW n \in Nat, Fits(n) PROVE n % Width32 = n /\ ~(n + 64 >= Width32)
<1>1. n + 64 < Width32
  BY DEF Fits
<1> QED BY <1>1, SMT DEF Width32

\* One that its 32 bits can count: nothing is lost between chunks and cache_.
LEMMA SumKeeps ==
    ASSUME NEW pending \in Seq(Bytes), NEW data \in Seq(Bytes), chunks \in Seq(Bytes),
           NEW after, SumBytes(pending, data, after), Fits(Len(data))
    PROVE  /\ pc' = after
           /\ chunks' \o cache' = chunks \o (pending \o data)
           /\ chunks' = chunks \o SubSeq(pending \o data, 1, Blocks(Len(data)))
<1>1. PICK message, i : message = pending \o data /\ i = Blocks(Len(data))
  OBVIOUS
<1>2. message \in Seq(Bytes) /\ Len(message) = Len(pending) + Len(data) /\ Len(pending) \in Nat /\ Len(data) \in Nat
  BY <1>1, ConcatProperties, LenProperties
<1>3. i \in 0..Len(message)
  BY <1>1, <1>2, BlocksFit
<1>4. PICK front, back : front = SubSeq(message, 1, i) /\ back = SubSeq(message, i + 1, Len(message))
  OBVIOUS
<1>5. front \in Seq(Bytes) /\ back \in Seq(Bytes) /\ Len(front) = i /\ front \o back = message
  BY <1>2, <1>3, <1>4, CutInTwo
<1>6. pc' = after /\ chunks' = chunks \o front /\ cache' = back
  <2>1. Len(data) % Width32 = Len(data) /\ ~(Len(data) + 64 >= Width32)
    BY <1>2, FitsUnchanged
  <2>2. pending = <<>> => Len(data) = Len(message)
    BY <1>2
  <2> QED BY <1>1, <1>4, <2>1, <2>2 DEF SumBytes
<1>7. chunks' \o cache' = chunks \o message
  <2>1. (chunks \o front) \o back = chunks \o (front \o back)
    BY <1>5, Joined, Zenon
  <2> QED BY <1>5, <1>6, <2>1
<1> QED BY <1>1, <1>4, <1>6, <1>7

-----------------------------------------------------------------------------
(* The steps.                                                              *)

\* The types hold initially,
LEMMA InitTypes == Init => TypeOK
<1>1. 0 \in 0..(Width64 - 1)
  BY SMT DEF Width64
<1>2. Len(<<>>) % 64 = 0
  OBVIOUS
<1> QED BY <1>1, <1>2, EmptySeq DEF Init, TypeOK

\* and whatever is counted modulo 2^64 keeps them.
LEMMA Counted == ASSUME NEW n \in Nat PROVE n % Width64 \in 0..(Width64 - 1)
  BY SMT DEF Width64

\* What final() gives to sum() are bytes, those of the cache first.
LEMMA PaddedFacts ==
    ASSUME TypeOK
    PROVE  /\ Padded \in Seq(Bytes) /\ total \in Nat /\ AppendLen(total % 64) \in Nat
           /\ Len(Padded) = Len(cache) + AppendLen(total % 64) + 8
           /\ Padded = cache \o (Padding(AppendLen(total % 64)) \o LengthBytes((total * 8) % Width64))
<1>1. cache \in Seq(Bytes) /\ total \in Nat
  BY Counted DEF TypeOK
<1>2. PICK n, pad, bits :
          n = AppendLen(total % 64) /\ pad = Padding(n) /\ bits = LengthBytes((total * 8) % Width64)
  OBVIOUS
<1>3. n \in Nat
  BY <1>1, <1>2 DEF AppendLen
<1>4. (total * 8) % Width64 \in Nat
  <2>1. total * 8 \in Nat
    BY <1>1
  <2> QED BY <2>1, SMT DEF Width64
<1>5. pad \in Seq(Bytes) /\ Len(pad) = n /\ bits \in Seq(Bytes) /\ Len(bits) = 8
  BY <1>2, <1>3, <1>4, PaddingFacts, LengthFacts, Zenon
<1>6. PICK mid, padded : mid = cache \o pad /\ padded = mid \o bits /\ padded = Padded
  BY <1>2 DEF Padded
<1>7. mid \in Seq(Bytes) /\ Len(mid) = Len(cache) + n
  BY <1>1, <1>5, <1>6, ConcatProperties
<1>8. padded \in Seq(Bytes) /\ Len(padded) = Len(mid) + Len(bits)
  <2>1. mid \o bits \in Seq(Bytes) /\ Len(mid \o bits) = Len(mid) + Len(bits)
    BY <1>5, <1>7, ConcatProperties
  <2> QED BY <1>6, <2>1
<1>9. (cache \o pad) \o bits = cache \o (pad \o bits)
  BY <1>1, <1>5, Joined, Zenon
<1>10. Len(padded) = Len(cache) + n + 8
  BY <1>5, <1>7, <1>8
<1> QED BY <1>1, <1>2, <1>3, <1>6, <1>8, <1>9, <1>10

\* A call of any length keeps the types.
LEMMA StepKeepsTypes == TypeOK /\ [Next]_vars => TypeOK'
<1> SUFFICES ASSUME TypeOK, [Next]_vars PROVE TypeOK'
  OBVIOUS
<1>1. /\ cache \in Seq(Bytes) /\ chunks \in Seq(Bytes) /\ Len(chunks) % 64 = 0
      /\ size \in Nat /\ total \in Nat
  BY PaddedFacts DEF TypeOK
<1>2. ASSUME NEW len \in Nat, Sum(len) PROVE TypeOK'
  <2>1. Data(size, len) \in Seq(Bytes)
    BY <1>1, DataFacts, Zenon
  <2>2. /\ pc' \in {"summing", "runaway"} /\ chunks' \in Seq(Bytes) /\ cache' \in Seq(Bytes)
        /\ Len(chunks') % 64 = 0
    BY <1>1, <1>2, <2>1, SumTypes, Zenon DEF Sum
  <2>3. total' = (total + len) % Width64 /\ size' = size + len
    BY <1>2 DEF Sum
  <2>4. total + len \in Nat /\ size + len \in Nat
    BY <1>1
  <2>5. total' \in 0..(Width64 - 1) /\ size' \in Nat
    BY <2>3, <2>4, Counted, Zenon
  <2> QED BY <2>2, <2>5, Zenon DEF TypeOK
<1>3. CASE Final
  <2>1. Padded \in Seq(Bytes)
    BY PaddedFacts
  <2>2. /\ pc' \in {"final", "runaway"} /\ chunks' \in Seq(Bytes) /\ cache' \in Seq(Bytes)
        /\ Len(chunks') % 64 = 0
    BY <1>1, <1>3, <2>1, SumTypes, Zenon DEF Final
  <2>3. total' = (total * 8 + Len(Padded)) % Width64 /\ size' = size
    BY <1>3 DEF Final
  <2>4. total * 8 + Len(Padded) \in Nat
    <3>1. Len(Padded) \in Nat
      BY <2>1, LenProperties
    <3> QED BY <1>1, <3>1
  <2>5. total' \in 0..(Width64 - 1) /\ size' \in Nat
    BY <1>1, <2>3, <2>4, Counted, Zenon
  <2> QED BY <2>2, <2>5, Zenon DEF TypeOK
<1>4. CASE Reset
  <2>1. Init'
    BY <1>4 DEF Reset, Init
  <2> QED BY <2>1, InitTypes, PTL
<1>5. CASE UNCHANGED vars
  BY <1>5, Zenon DEF TypeOK, vars
<1> QED BY <1>2, <1>3, <1>4, <1>5 DEF Next

\* Contents within the bounds are counted as they are, in bytes and in bits.
LEMMA NotWrapped ==
    ASSUME NEW n \in Nat, n <= MaxContent
    PROVE  n % Width64 = n /\ (n * 8) % Width64 = n * 8
<1>1. n * 8 \in Nat /\ n * 8 < 18446744073709551616 /\ n < 18446744073709551616
  BY SMT DEF MaxContent
<1> QED BY <1>1, SMT DEF Width64

\* sum() keeps the invariant, whatever is left over from the call before.
LEMMA SumStep ==
    ASSUME IInv, TypeOK', NEW len \in Nat, Fits(len), size + len <= MaxContent, Sum(len) PROVE IInv'
<1>1. len \in Nat /\ size \in Nat
  BY DEF IInv, TypeOK
<1>2. PICK data : data = Data(size, len)
  OBVIOUS
<1>3. data \in Seq(Bytes) /\ Len(data) = len
  BY <1>1, <1>2, DataFacts, Zenon
<1>4. /\ pc = "summing" /\ SumBytes(cache, data, "summing")
      /\ total' = (total + len) % Width64 /\ size' = size + len
  BY <1>2 DEF Sum
<1>5. cache \in Seq(Bytes) /\ chunks \in Seq(Bytes) /\ total = size /\ chunks \o cache = Data(0, size)
  BY <1>4 DEF IInv, TypeOK, ContentKept
<1>6. pc' = "summing" /\ chunks' \o cache' = chunks \o (cache \o data)
  BY <1>3, <1>4, <1>5, SumKeeps
<1>7. chunks' \o cache' = Data(0, size')
  <2>1. chunks' \o cache' = (chunks \o cache) \o data
    <3>1. (chunks \o cache) \o data = chunks \o (cache \o data)
      BY <1>3, <1>5, Joined, Zenon
    <3> QED BY <1>6, <3>1
  <2> QED BY <1>1, <1>2, <1>4, <1>5, <2>1, DataContinues
<1>8. total' = size' /\ size' <= MaxContent
  <2>1. size + len \in Nat
    BY <1>1
  <2>2. (size + len) % Width64 = size + len
    BY <2>1, NotWrapped
  <2> QED BY <1>4, <1>5, <2>2
<1>9. ContentKept'
  BY <1>6, <1>7, <1>8 DEF ContentKept
<1>10. DigestAsSpecified' /\ PaddingForgotten'
  BY <1>6 DEF DigestAsSpecified, PaddingForgotten
<1> QED BY <1>8, <1>9, <1>10 DEF IInv

\* final() fills the last block.
LEMMA BlockFilled ==
    ASSUME NEW n \in Nat
    PROVE  AppendLen(n % 64) \in Nat /\ (n + AppendLen(n % 64) + 8) % 64 = 0
  BY DEF AppendLen

\* Zeros up to 56 modulo 64, counted by final() and by RFC 1321.
LEMMA ZerosAgree ==
    ASSUME NEW n \in Nat, n % 64 # 56
    PROVE  AppendLen(n % 64) = 1 + CHOOSE z \in 0..63 : (n + 1 + z) % 64 = 56
<1>1. PICK z : z = AppendLen(n % 64) - 1
  OBVIOUS
<1>2. z \in 0..63 /\ (n + 1 + z) % 64 = 56
  BY <1>1 DEF AppendLen
<1>3. \A y \in 0..63 : (n + 1 + y) % 64 = 56 => y = z
  BY <1>2
<1>4. (CHOOSE y \in 0..63 : (n + 1 + y) % 64 = 56) = z
  BY <1>2, <1>3
<1>5. AppendLen(n % 64) = 1 + z
  BY <1>1 DEF AppendLen
<1> QED BY <1>4, <1>5

\* final() keeps it: the blocks it pads are all that was not yet digested.
LEMMA FinalStep == ASSUME IInv, TypeOK', Fits(Len(Padded)), Final PROVE IInv'
<1>1. /\ pc = "summing" /\ cache \in Seq(Bytes) /\ chunks \in Seq(Bytes) /\ size \in Nat /\ total = size
      /\ chunks \o cache = Data(0, size) /\ Len(chunks) % 64 = 0 /\ TypeOK /\ size <= MaxContent
  BY DEF IInv, TypeOK, ContentKept, Final
<1>2. PICK n, pad, bits : n = AppendLen(size % 64) /\ pad = Padding(n) /\ bits = RfcLength(size * 8)
  OBVIOUS
<1>3. n \in Nat /\ size * 8 \in Nat
  BY <1>1, <1>2 DEF AppendLen
<1>4. bits = LengthBytes(size * 8) /\ bits = LengthBytes((total * 8) % Width64)
  BY <1>1, <1>2, LengthsAgree, NotWrapped, Zenon
<1>5. pad \in Seq(Bytes) /\ Len(pad) = n /\ bits \in Seq(Bytes) /\ Len(bits) = 8
  BY <1>2, <1>3, <1>4, PaddingFacts, LengthFacts, Zenon
<1>6. PICK tail, padded : tail = pad \o bits /\ padded = Padded
  OBVIOUS
<1>7. /\ padded \in Seq(Bytes) /\ Len(padded) = Len(cache) + n + 8 /\ Len(cache) \in Nat
      /\ padded = cache \o tail /\ tail \in Seq(Bytes)
  <2>1. /\ Padded \in Seq(Bytes) /\ Len(Padded) = Len(cache) + AppendLen(total % 64) + 8
        /\ Padded = cache \o (Padding(AppendLen(total % 64)) \o LengthBytes((total * 8) % Width64))
    BY <1>1, PaddedFacts
  <2>2. tail \in Seq(Bytes) /\ Len(cache) \in Nat
    BY <1>1, <1>5, <1>6, ConcatProperties, LenProperties
  <2> QED BY <1>1, <1>2, <1>4, <1>6, <2>1, <2>2
<1>8. SumBytes(padded, padded, "final") /\ size' = size /\ Fits(Len(padded))
  BY <1>6 DEF Final
<1>9. pc' = "final" /\ chunks' = chunks \o SubSeq(padded \o padded, 1, Blocks(Len(padded)))
  <2>1. /\ padded \in Seq(Bytes) /\ chunks \in Seq(Bytes)
        /\ SumBytes(padded, padded, "final") /\ Fits(Len(padded))
    BY <1>1, <1>7, <1>8
  <2> QED BY <2>1, SumKeeps, ZenonT(40)
<1>10. ContentKept'
  BY <1>9 DEF ContentKept
<1>11. chunks' = (Data(0, size) \o pad) \o bits
  <2>1. Len(chunks) + Len(cache) = size /\ Len(chunks) \in Nat
    <3>1. Len(chunks \o cache) = size
      BY <1>1, DataFacts
    <3> QED BY <1>1, <3>1, ConcatProperties, LenProperties
  <2>2. (size + n + 8) % 64 = 0
    BY <1>1, <1>2, BlockFilled
  <2>3. Len(padded) % 64 = 0 /\ Len(padded) \in Nat /\ Len(padded) > 0
    <3>1. size + n + 8 = Len(chunks) + Len(padded)
      <4>1. ASSUME NEW a \in Nat, NEW b \in Nat, NEW c, c = b + n + 8, a + b = size
            PROVE  size + n + 8 = a + c
        BY <1>3, <4>1
      <4>2. Len(padded) = Len(cache) + n + 8 /\ Len(cache) \in Nat
        BY <1>7
      <4> QED BY <2>1, <4>1, <4>2
    <3>2. Len(padded) \in Nat /\ Len(padded) > 0
      BY <1>3, <1>7
    <3>3. ASSUME NEW a \in Nat, NEW b \in Nat, a % 64 = 0, (a + b) % 64 = 0 PROVE b % 64 = 0
      BY ONLY <3>3
    <3>4. (Len(chunks) + Len(padded)) % 64 = 0
      BY <2>2, <3>1
    <3> QED BY <1>1, <2>1, <3>2, <3>3, <3>4
  <2>4. Blocks(Len(padded)) = Len(padded)
    BY <2>3, BlocksFit
  <2>5. SubSeq(padded \o padded, 1, Len(padded)) = padded
    <3>1. SubSeq(padded \o padded, 1, Len(padded)) = SubSeq(padded, 1, Len(padded))
      BY <1>7, <2>3, SubSeqOfConcat1
    <3> QED BY <1>7, <3>1, SubSeqFull
  <2>6. chunks' = Data(0, size) \o tail
    <3>1. chunks' = chunks \o (cache \o tail)
      BY <1>7, <1>9, <2>4, <2>5
    <3>2. (chunks \o cache) \o tail = chunks \o (cache \o tail)
      BY <1>1, <1>7, Joined, Zenon
    <3> QED BY <1>1, <3>1, <3>2
  <2>7. Data(0, size) \o tail = (Data(0, size) \o pad) \o bits
    <3>1. Data(0, size) \in Seq(Bytes)
      BY <1>1, DataFacts
    <3>2. (Data(0, size) \o pad) \o bits = Data(0, size) \o (pad \o bits)
      BY <1>5, <3>1, Joined, Zenon
    <3> QED BY <1>6, <3>2
  <2> QED BY <2>6, <2>7
<1>12. DigestAsSpecified'
  <2>1. ASSUME size % 64 # 56 PROVE chunks' = RfcMessage'
    <3>1. n = 1 + (CHOOSE z \in 0..63 : (size + 1 + z) % 64 = 56)
      BY <1>1, <1>2, <2>1, ZerosAgree
    <3> QED BY <1>2, <1>8, <1>11, <3>1 DEF RfcMessage
  <2> QED BY <1>8, <2>1 DEF DigestAsSpecified
<1>13. PaddingForgotten'
  <2>1. ASSUME size % 64 = 56 PROVE chunks' = Data(0, size) \o bits
    <3>1. n = 0
      BY <1>2, <2>1 DEF AppendLen
    <3>2. pad = <<>>
      BY <1>5, <3>1, EmptySeq
    <3>3. Data(0, size) \in Seq(Bytes)
      BY <1>1, DataFacts
    <3>4. Data(0, size) \o <<>> = Data(0, size)
      BY <3>3, ConcatEmptySeq
    <3> QED BY <1>11, <3>2, <3>4
  <2> QED BY <1>2, <1>8, <2>1 DEF PaddingForgotten
<1> QED BY <1>1, <1>8, <1>10, <1>12, <1>13 DEF IInv

\* A digest begins with no byte.
LEMMA EmptyContent == <<>> \o <<>> = Data(0, 0)
  BY DEF Data

\* So the invariant holds at the beginning.
LEMMA InitIInv == Init => IInv
<1> SUFFICES ASSUME Init PROVE IInv
  OBVIOUS
<1>1. 0 <= MaxContent
  BY SMT DEF MaxContent
<1>2. size <= MaxContent
  BY <1>1 DEF Init
<1>3. ContentKept /\ DigestAsSpecified /\ PaddingForgotten
  BY EmptyContent DEF Init, ContentKept, DigestAsSpecified, PaddingForgotten
<1> QED BY <1>2, <1>3, InitTypes DEF IInv

\* Every call within the bounds keeps the invariant.
LEMMA StepKeeps == IInv /\ [NextWithin]_vars => IInv'
<1> SUFFICES ASSUME IInv, [NextWithin]_vars PROVE IInv'
  OBVIOUS
<1>1. TypeOK'
  <2>1. [Next]_vars
    BY DEF NextWithin, Next
  <2> QED BY <2>1, StepKeepsTypes DEF IInv
<1>2. CASE Reset
  <2>1. Init'
    BY <1>2 DEF Reset, Init
  <2> QED BY <2>1, InitIInv, PTL
<1>3. CASE UNCHANGED vars
  BY <1>1, <1>3 DEF IInv, ContentKept, DigestAsSpecified, PaddingForgotten, RfcMessage, vars
<1> QED BY <1>1, <1>2, <1>3, SumStep, FinalStep DEF NextWithin

-----------------------------------------------------------------------------
(* The theorems.                                                           *)

\* processChunk is given whole blocks by pieces of any length, as long as the
\* loop of sum() ends (Rtsp2Utility.cpp:429-458).
THEOREM MD5TypeCorrect == Spec => []TypeOK
BY InitTypes, StepKeepsTypes, PTL DEF Spec

\* sum() may be called with any pieces below 2^32 - 64 bytes, although it
\* processes no more blocks than the new piece has (Rtsp2Utility.cpp:429-458).
THEOREM PiecesKept == SpecWithin => []ContentKept
<1>1. IInv => ContentKept
  BY DEF IInv
<1> QED BY InitIInv, StepKeeps, <1>1, PTL DEF SpecWithin

\* The blocks are those of RFC 1321 for contents of every length below 2^49
\* bytes but 56 modulo 64, in such pieces (Rtsp2Utility.cpp:508-541).
THEOREM DigestsAgree == SpecWithin => []DigestAsSpecified
<1>1. IInv => DigestAsSpecified
  BY DEF IInv
<1> QED BY InitIInv, StepKeeps, <1>1, PTL DEF SpecWithin

\* At 56 modulo 64 final() appends the length at once, and the digest is not
\* that of RFC 1321 (Rtsp2Utility.cpp:512-519).
THEOREM NoPaddingAt56 == SpecWithin => []PaddingForgotten
<1>1. IInv => PaddingForgotten
  BY DEF IInv
<1> QED BY InitIInv, StepKeeps, <1>1, PTL DEF SpecWithin

\* The bounds are the code's: a first piece of 2^32 bytes is forgotten, one of
\* 2^32 - 64 runs away (Rtsp2Utility.cpp:432-443), and at 2^52 bits the last
\* byte of the length is another (Rtsp2Utility.cpp:533).
THEOREM BoundsAreNeeded ==
    /\ Init /\ Sum(Width32) => pc' = "summing" /\ size' = Width32 /\ chunks' = <<>> /\ cache' = <<>>
    /\ Init /\ Sum(Width32 - 64) => pc' = "runaway"
    /\ LengthBytes(8 * (MaxContent + 1)) # RfcLength(8 * (MaxContent + 1))
<1>1. /\ Width32 \in Nat /\ Width32 % Width32 = 0 /\ ~(0 + 64 >= Width32) /\ Width32 - 64 \in Nat
      /\ (Width32 - 64) % Width32 = Width32 - 64 /\ (Width32 - 64) + 64 >= Width32
  BY SMT DEF Width32
<1>2. Blocks(0) = 0
  BY DEF Blocks
<1>3. ASSUME Init, Sum(Width32)
      PROVE  pc' = "summing" /\ size' = Width32 /\ chunks' = <<>> /\ cache' = <<>>
  <2>1. PICK data : data = Data(0, Width32) /\ data \in Seq(Bytes) /\ Len(data) = Width32
    <3>1. 0 \in Nat
      OBVIOUS
    <3>2. Data(0, Width32) \in Seq(Bytes) /\ Len(Data(0, Width32)) = Width32
      BY <1>1, <3>1, DataFacts, Zenon
    <3> QED BY <3>2
  <2>2. cache = <<>> /\ chunks = <<>> /\ size = 0 /\ <<>> \o data = data
    BY <1>3, <2>1, ConcatEmptySeq DEF Init
  <2>3. SumBytes(<<>>, data, "summing") /\ size' = 0 + Width32
    BY <1>3, <2>1, <2>2 DEF Sum
  <2>4. pc' = "summing" /\ chunks' = <<>> \o SubSeq(data, 1, 0) /\ cache' = SubSeq(data, 0 + 1, 0)
    <3>1. PICK length, i : length = 0 /\ i = 0 /\ length = Len(data) % Width32 /\ i = Blocks(length)
      BY <1>1, <1>2, <2>1
    <3>2. ~(length + 64 >= Width32)
      BY <1>1, <3>1
    <3> QED BY <2>2, <2>3, <3>1, <3>2, Zenon DEF SumBytes
  <2>5. SubSeq(data, 1, 0) = <<>> /\ SubSeq(data, 0 + 1, 0) = <<>>
    BY <2>1, SubSeqEmpty
  <2>6. 0 + Width32 = Width32
    BY <1>1
  <2> QED BY <2>3, <2>4, <2>5, <2>6
<1>4. ASSUME Init, Sum(Width32 - 64) PROVE pc' = "runaway"
  <2>1. PICK data, n : n = Width32 - 64 /\ data = Data(size, n) /\ Len(data) = n
    <3>1. size \in Nat
      BY <1>4 DEF Init
    <3>2. Len(Data(size, Width32 - 64)) = Width32 - 64
      BY <1>1, <3>1, DataFacts, Zenon
    <3> QED BY <3>2
  <2>2. SumBytes(cache, data, "summing")
    BY <1>4, <2>1 DEF Sum
  <2> QED BY <1>1, <2>1, <2>2, Zenon DEF SumBytes
<1>5. LengthBytes(8 * (MaxContent + 1)) # RfcLength(8 * (MaxContent + 1))
  <2>1. PICK bits, a, b : /\ bits = 8 * (MaxContent + 1)
                          /\ a = ByteAt(bits, 4503599627370496) /\ b = ByteAt(bits, 72057594037927936)
    BY SMT
  <2>2. bits = 4503599627370496
    BY <2>1, SMT DEF MaxContent
  <2>3. a = <<"length", 1>> /\ b = <<"length", 0>>
    BY <2>1, <2>2, SMT DEF ByteAt
  <2> QED BY <2>1, <2>3, SMT DEF LengthBytes, RfcLength
<1> QED BY <1>3, <1>4, <1>5, Zenon
=============================================================================
