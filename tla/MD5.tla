-------------------------------- MODULE MD5 --------------------------------
(***************************************************************************)
(* class MD5 (Rtsp2Utility.h, Rtsp2Utility.cpp), as the code of nonces and  *)
(* digests uses it: some calls of sum(), one of final(), then reset().      *)
(*                                                                         *)
(* A byte of the content is known by its position, the bytes that final()   *)
(* appends by what they are for.  The rounds of processChunk are not        *)
(* computed: chunks holds all bytes that it was given, of which the digest  *)
(* is a function.                                                          *)
(*                                                                         *)
(* Integers have the width of the code: total_ has 64 bits, but length and  *)
(* the index i in sum() have 32.                                           *)
(***************************************************************************)
EXTENDS Integers, Sequences

VARIABLES
    pc,        \* "summing", "final" when the digest has been computed, or "runaway"
    cache,     \* cache_
    total,     \* total_
    chunks,    \* the bytes given to processChunk
    size       \* history: bytes of the content

vars == <<pc, cache, total, chunks, size>>

Width32 == 4294967296             \* 2^32
Width64 == 18446744073709551616   \* 2^64

Bytes == {"data", "0x80", "0x00", "length"} \X Nat
Data(first, n) == [k \in 1..n |-> <<"data", first + k>>]

Init ==
    /\ pc = "summing" /\ cache = <<>> /\ total = 0 /\ chunks = <<>> /\ size = 0

\* sum(data, len) from cache_ = pending: whole blocks of the message are
\* processed, and the rest is cached.  length remains that of the new data when
\* they are appended to cache_, which may so come to hold more than a block.
\*
\* length is len modulo 2^32: without a cache the bytes behind it are forgotten,
\* and with one they wait there.  From 2^32 - 64 on, i + 64 becomes 0 before it
\* exceeds length: the loop reads past the message and does not end.
Blocks(length) == 64 * (length \div 64)
SumBytes(pending, data, after) ==
    LET message == pending \o data
        length == Len(data) % Width32
        i == Blocks(length)
    IN  IF length + 64 >= Width32
        THEN pc' = "runaway" /\ UNCHANGED <<cache, chunks>>
        ELSE /\ pc' = after
             /\ chunks' = chunks \o SubSeq(message, 1, i)
             /\ cache' = SubSeq(message, i + 1, IF pending = <<>> THEN length ELSE Len(message))

Sum(len) ==
    /\ pc = "summing"
    /\ SumBytes(cache, Data(size, len), "summing")
    /\ total' = (total + len) % Width64 /\ size' = size + len

\* Bytes that final() appends before the length.
AppendLen(least) ==
    IF least < 56 THEN 56 - least ELSE IF least > 56 THEN 120 - least ELSE 0

Padding(n) == [i \in 1..n |-> IF i = 1 THEN <<"0x80", 0>> ELSE <<"0x00", 0>>]

\* The eight bytes of total_ once it counts bits: shifted by 0, 8, ... 48, and
\* by 52, where RFC 1321 has the next byte, at 56.
ByteAt(bits, power) == <<"length", (bits \div power) % 256>>
SevenBytes(bits) ==
    <<ByteAt(bits, 1), ByteAt(bits, 256), ByteAt(bits, 65536), ByteAt(bits, 16777216),
      ByteAt(bits, 4294967296), ByteAt(bits, 1099511627776), ByteAt(bits, 281474976710656)>>
LengthBytes(bits) == SevenBytes(bits) \o <<ByteAt(bits, 4503599627370496)>>   \* 2^52

\* final(): cache_ is padded, and given to sum() as new data behind itself.
Padded == cache \o Padding(AppendLen(total % 64)) \o LengthBytes((total * 8) % Width64)
Final ==
    /\ pc = "summing"
    /\ SumBytes(Padded, Padded, "final")
    /\ total' = (total * 8 + Len(Padded)) % Width64
    /\ UNCHANGED size

Reset ==
    /\ pc = "final" /\ pc' = "summing"
    /\ cache' = <<>> /\ total' = 0 /\ chunks' = <<>> /\ size' = 0

Next == (\E len \in Nat : Sum(len)) \/ Final \/ Reset

Spec == Init /\ [][Next]_vars

\* The lengths for which the integers of the code are wide enough: no message
\* of sum() overruns its 32 bits, and no content has 2^52 bits or more.
Fits(length) == length + 64 < Width32
MaxContent == 562949953421311   \* 2^49 - 1 bytes

NextWithin ==
    \/ \E len \in Nat : Fits(len) /\ size + len <= MaxContent /\ Sum(len)
    \/ Fits(Len(Padded)) /\ Final
    \/ Reset

SpecWithin == Init /\ [][NextWithin]_vars
-----------------------------------------------------------------------------
\* For pieces of any length: processChunk is given whole blocks, and the number
\* of bytes is counted modulo 2^64, unless a call of sum() runs away.
TypeOK ==
    /\ pc \in {"summing", "final", "runaway"} /\ total \in 0..(Width64 - 1) /\ size \in Nat
    /\ cache \in Seq(Bytes) /\ chunks \in Seq(Bytes) /\ Len(chunks) % 64 = 0

\* Within the bounds no call runs away, and however the content is cut into calls
\* of sum(), although no call processes more blocks than its own data have: no
\* byte is lost, repeated or out of place between processChunk and cache_.
ContentKept ==
    /\ pc # "runaway"
    /\ pc = "summing" => chunks \o cache = Data(0, size) /\ total = size

\* RFC 1321, 3.1 and 3.2: a one bit, zeros up to 56 bytes modulo 64, the length.
RfcLength(bits) == SevenBytes(bits) \o <<ByteAt(bits, 72057594037927936)>>   \* 2^56
RfcMessage ==
    LET zeros == CHOOSE z \in 0..63 : (size + 1 + z) % 64 = 56
    IN  Data(0, size) \o Padding(1 + zeros) \o RfcLength(size * 8)

\* The digest is that of RFC 1321 for every content and every way to cut it
\* within the bounds, except for a length of 56 modulo 64, to which final()
\* appends no padding.
DigestAsSpecified == pc = "final" /\ size % 64 # 56 => chunks = RfcMessage

\* At such a length the digest covers the content and its length, and nothing
\* in between: md5(method:url) of Rtsp2Authenticate.cpp:109 is then no MD5.
PaddingForgotten ==
    pc = "final" /\ size % 64 = 56 => chunks = Data(0, size) \o RfcLength(size * 8)
=============================================================================
