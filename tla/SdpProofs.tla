----------------------------- MODULE SdpProofs ------------------------------
(***************************************************************************)
(* For every description of any length: what the parser keeps of a section  *)
(* is what stands in it, and the URL of every medium is made of its own     *)
(* control URL and of the one above it.                                     *)
(***************************************************************************)
EXTENDS Sdp, FiniteSetTheorems, FunctionTheorems, SequenceTheorems, TLAPS

-----------------------------------------------------------------------------
(* The n-th of a finite set of numbers.                                    *)

Rank(S, i) == Cardinality({j \in S : j <= i})

\* A larger element has a larger rank.
LEMMA RankGrows ==
    ASSUME NEW S \in SUBSET Nat, IsFiniteSet(S), NEW i \in S, NEW k \in S, i < k
    PROVE  /\ Rank(S, i) \in 1..Cardinality(S) /\ Rank(S, k) \in 1..Cardinality(S)
           /\ Rank(S, i) < Rank(S, k)
<1> DEFINE Low == {j \in S : j <= i}
           High == {j \in S : j <= k}
<1>1. /\ IsFiniteSet(Low) /\ IsFiniteSet(High)
      /\ Cardinality(Low) \in Nat /\ Cardinality(High) \in Nat /\ Cardinality(S) \in Nat
      /\ Cardinality(Low) <= Cardinality(S) /\ Cardinality(High) <= Cardinality(S)
  BY FS_Subset, FS_CardinalityType
<1>2. Low \in SUBSET High /\ k \in High /\ k \notin Low /\ i \in Low
  <2>1. i \in Nat /\ k \in Nat /\ \A j \in S : j \in Nat
    OBVIOUS
  <2>2. \A j \in S : j <= i => j <= k
    BY <2>1
  <2>3. ~(k <= i) /\ i <= i /\ k <= k
    BY <2>1
  <2> QED BY <2>2, <2>3
<1>3. Cardinality(Low) # 0 /\ Cardinality(High) # 0
  BY <1>1, <1>2, FS_EmptySet
<1>4. Cardinality(Low) <= Cardinality(High) /\ Cardinality(Low) # Cardinality(High)
  BY <1>1, <1>2, FS_Subset
<1> HIDE DEF Low, High
<1>5. Cardinality(Low) < Cardinality(High)
  BY <1>1, <1>4
<1> QED BY <1>1, <1>3, <1>5 DEF Rank, Low, High

\* Every element has a rank up to the size of the set.
LEMMA RankRange ==
    ASSUME NEW S \in SUBSET Nat, IsFiniteSet(S), NEW i \in S
    PROVE  Rank(S, i) \in 1..Cardinality(S)
<1> DEFINE Low == {j \in S : j <= i}
<1>1. /\ IsFiniteSet(Low) /\ Cardinality(Low) \in Nat /\ Cardinality(S) \in Nat
      /\ Cardinality(Low) <= Cardinality(S)
  BY FS_Subset, FS_CardinalityType
<1>2. i \in Low
  OBVIOUS
<1>3. Cardinality(Low) # 0
  BY <1>1, <1>2, FS_EmptySet
<1> QED BY <1>1, <1>3 DEF Rank

\* Ranks tell the elements apart.
LEMMA RankOne ==
    ASSUME NEW S \in SUBSET Nat, IsFiniteSet(S), NEW i \in S, NEW k \in S, Rank(S, i) = Rank(S, k)
    PROVE  i = k
<1>1. CASE i < k
  BY <1>1, RankGrows
<1>2. CASE k < i
  BY <1>2, RankGrows
<1> QED BY <1>1, <1>2

\* Every rank up to the size of the set is that of an element, the n-th.
LEMMA NthRank ==
    ASSUME NEW S \in SUBSET Nat, IsFiniteSet(S), NEW n \in 1..Cardinality(S)
    PROVE  Nth(S, n) \in S /\ Rank(S, Nth(S, n)) = n
<1> DEFINE T == 1..Cardinality(S)
           f == [i \in S |-> Rank(S, i)]
<1>1. IsFiniteSet(T) /\ Cardinality(T) = Cardinality(S)
  BY FS_CardinalityType, FS_Interval
<1>2. f \in [S -> T]
  BY RankRange
<1>3. \A a, b \in S : f[a] = f[b] => a = b
  BY RankOne
<1>4. f \in Injection(S, T)
  BY <1>2, <1>3, Fun_IsInj
<1>5. f \in Surjection(S, T)
  BY <1>1, <1>4, FS_Injection
<1>6. \E i \in S : f[i] = n
  BY <1>5 DEF Surjection
<1>7. \E i \in S : Rank(S, i) = n
  BY <1>6
<1> QED BY <1>7 DEF Nth, Rank

\* A new greatest element comes last and moves no other.
LEMMA NthAppend ==
    ASSUME NEW S \in SUBSET Nat, IsFiniteSet(S), NEW m \in Nat, \A i \in S : i < m
    PROVE  /\ IsFiniteSet(S \cup {m}) /\ Cardinality(S \cup {m}) = Cardinality(S) + 1
           /\ \A n \in 1..Cardinality(S) : Nth(S \cup {m}, n) = Nth(S, n)
           /\ Nth(S \cup {m}, Cardinality(S) + 1) = m
<1> DEFINE T == S \cup {m}
<1>1. m \notin S /\ T \in SUBSET Nat
  OBVIOUS
<1>2. Cardinality(S) \in Nat /\ IsFiniteSet(T) /\ Cardinality(T) = Cardinality(S) + 1
  BY <1>1, FS_AddElement, FS_CardinalityType
<1>3. ASSUME NEW i \in S
      PROVE  Rank(T, i) = Rank(S, i)
  <2>1. {j \in T : j <= i} = {j \in S : j <= i}
    OBVIOUS
  <2> QED BY <2>1 DEF Rank
<1>4. Rank(T, m) = Cardinality(S) + 1
  <2>1. \A j \in T : j <= m
    OBVIOUS
  <2>2. {j \in T : j <= m} = T
    BY <2>1
  <2> QED BY <1>2, <2>2 DEF Rank
<1>5. \A a, b \in T : Rank(T, a) = Rank(T, b) => a = b
  BY <1>1, <1>2, RankOne
<1>6. m \in T /\ \A i \in S : i \in T
  OBVIOUS
<1> HIDE DEF T
<1>7. ASSUME NEW n \in 1..Cardinality(S)
      PROVE  Nth(T, n) = Nth(S, n)
  <2>1. Nth(S, n) \in S /\ Rank(S, Nth(S, n)) = n
    BY NthRank
  <2>2. Nth(S, n) \in T /\ Rank(T, Nth(S, n)) = n
    BY <1>3, <1>6, <2>1
  <2>3. n \in 1..Cardinality(T)
    BY <1>2
  <2>4. Nth(T, n) \in T /\ Rank(T, Nth(T, n)) = n
    BY <1>1, <1>2, <2>3, NthRank
  <2> QED BY <1>5, <2>2, <2>4
<1>8. Nth(T, Cardinality(S) + 1) = m
  <2>1. Cardinality(S) + 1 \in 1..Cardinality(T)
    BY <1>2
  <2>2. Nth(T, Cardinality(S) + 1) \in T /\ Rank(T, Nth(T, Cardinality(S) + 1)) = Cardinality(S) + 1
    BY <1>1, <1>2, <2>1, NthRank
  <2> QED BY <1>4, <1>5, <1>6, <2>2
<1> QED BY <1>2, <1>7, <1>8 DEF T

-----------------------------------------------------------------------------
(* Sections.                                                               *)

\* Only the first lines say in which section one of them stands.
LEMMA SectionOfStable ==
    ASSUME lines \in Seq(Line), NEW l \in Line, lines' = Append(lines, l), NEW i \in 0..Len(lines)
    PROVE  SectionOf(i)' = SectionOf(i)
<1>1. \A j \in 1..i : lines'[j] = lines[j]
  OBVIOUS
<1>2. {j \in 1..i : lines'[j].type = "media"} = {j \in 1..i : lines[j].type = "media"}
  BY <1>1
<1> QED BY <1>2 DEF SectionOf

\* The next line opens a section or stands in the one before it.
LEMMA SectionOfNext ==
    ASSUME lines \in Seq(Line), NEW l \in Line, lines' = Append(lines, l)
    PROVE  SectionOf(Len(lines))' =
             IF l.type = "media" THEN SectionOf(Len(lines)) + 1 ELSE SectionOf(Len(lines))
<1> DEFINE n == Len(lines)
           Old == {j \in 1..n : lines[j].type = "media"}
           New == {j \in 1..(n + 1) : lines'[j].type = "media"}
<1>1. n \in Nat /\ lines'[n + 1] = l /\ \A j \in 1..n : lines'[j] = lines[j]
  OBVIOUS
<1>2. IsFiniteSet(Old) /\ n + 1 \notin Old
  <2>1. IsFiniteSet(1..n)
    BY <1>1, FS_Interval
  <2> QED BY <1>1, <2>1, FS_Subset
<1>3. New = IF l.type = "media" THEN Old \cup {n + 1} ELSE Old
  <2>1. 1..(n + 1) = (1..n) \cup {n + 1}
    BY <1>1
  <2> QED BY <1>1, <2>1
<1>4. Cardinality(Old \cup {n + 1}) = Cardinality(Old) + 1
  BY <1>2, FS_AddElement
<1>5. SectionOf(n) = Cardinality(Old)
  BY DEF SectionOf
<1>6. SectionOf(Len(lines))' = Cardinality(New)
  <2>1. Len(lines') = n + 1
    OBVIOUS
  <2> QED BY <2>1 DEF SectionOf
<1> QED BY <1>3, <1>4, <1>5, <1>6

\* No line stands in a section that is not yet open.
LEMMA SectionOfBound ==
    ASSUME lines \in Seq(Line), NEW i \in 0..Len(lines)
    PROVE  SectionOf(i) \in 0..SectionOf(Len(lines))
<1> DEFINE A == {j \in 1..i : lines[j].type = "media"}
           B == {j \in 1..Len(lines) : lines[j].type = "media"}
<1>1. IsFiniteSet(B)
  <2>1. IsFiniteSet(1..Len(lines))
    BY FS_Interval
  <2>2. B \in SUBSET (1..Len(lines))
    OBVIOUS
  <2> QED BY <2>1, <2>2, FS_Subset
<1>2. A \in SUBSET B
  OBVIOUS
<1>3. Cardinality(A) \in Nat /\ Cardinality(B) \in Nat /\ Cardinality(A) <= Cardinality(B)
  BY <1>1, <1>2, FS_Subset, FS_CardinalityType
<1> QED BY <1>3 DEF SectionOf

\* The section in which the next line stands.
NextSection(l) == IF l.type = "media" THEN SectionOf(Len(lines)) + 1 ELSE SectionOf(Len(lines))

\* The lines of a section are numbered lines.
LEMMA SectionLinesType ==
    ASSUME lines \in Seq(Line), NEW k, NEW type
    PROVE  /\ SectionLines(k, type) \in SUBSET Nat /\ IsFiniteSet(SectionLines(k, type))
           /\ SectionLines(k, type) \in SUBSET (1..Len(lines))
           /\ Cardinality(SectionLines(k, type)) \in Nat
<1>1. SectionLines(k, type) \in SUBSET (1..Len(lines))
  BY DEF SectionLines
<1>2. IsFiniteSet(1..Len(lines)) /\ (1..Len(lines)) \in SUBSET Nat
  BY FS_Interval
<1> QED BY <1>1, <1>2, FS_Subset, FS_CardinalityType

\* The next line joins those of its kind in its section.
LEMMA SectionLinesNext ==
    ASSUME lines \in Seq(Line), NEW l \in Line, lines' = Append(lines, l), NEW k, NEW type
    PROVE  SectionLines(k, type)' =
             IF l.type = type /\ k = NextSection(l) THEN SectionLines(k, type) \cup {Len(lines) + 1}
                                              ELSE SectionLines(k, type)
<1> DEFINE n == Len(lines)
<1>1. /\ n \in Nat /\ DOMAIN lines = 1..n /\ DOMAIN lines' = 1..(n + 1)
      /\ lines'[n + 1] = l /\ \A i \in 1..n : lines'[i] = lines[i]
  OBVIOUS
<1>2. \A i \in 1..n : SectionOf(i)' = SectionOf(i)
  BY SectionOfStable
<1>3. SectionOf(Len(lines))' = NextSection(l)
  BY SectionOfNext DEF NextSection
<1>4. ASSUME NEW i \in 1..(n + 1), i = n + 1
      PROVE  SectionOf(i)' = NextSection(l)
  <2>1. i = Len(lines')
    BY <1>1, <1>4
  <2> QED BY <1>3, <2>1 DEF SectionOf
<1>5. SectionLines(k, type)' = {i \in 1..(n + 1) : SectionOf(i)' = k /\ lines'[i].type = type}
  BY <1>1 DEF SectionLines
<1>6. SectionLines(k, type) = {i \in 1..n : SectionOf(i) = k /\ lines[i].type = type}
  BY <1>1 DEF SectionLines
<1>7. 1..(n + 1) = (1..n) \cup {n + 1}
  BY <1>1
<1> HIDE DEF n
<1> QED BY <1>1, <1>2, <1>4, <1>5, <1>6, <1>7 DEF n

\* What a section holds is a sequence of values.
LEMMA SectionType ==
    ASSUME lines \in Seq(Line), NEW k, NEW type
    PROVE  /\ Section(k, type) \in Seq({l.value : l \in Line})
           /\ Len(Section(k, type)) = Cardinality(SectionLines(k, type))
<1> DEFINE at == SectionLines(k, type)
<1>1. /\ at \in SUBSET Nat /\ IsFiniteSet(at) /\ at \in SUBSET (1..Len(lines))
      /\ Cardinality(at) \in Nat
  BY SectionLinesType
<1>2. \A n \in 1..Cardinality(at) : Nth(at, n) \in at
  BY <1>1, NthRank
<1>3. \A i \in at : lines[i].value \in {l.value : l \in Line}
  BY <1>1
<1>4. \A n \in 1..Cardinality(at) : lines[Nth(at, n)].value \in {l.value : l \in Line}
  BY <1>2, <1>3
<1> HIDE DEF at
<1> QED BY <1>1, <1>4 DEF Section, at

\* The next line's value is the last of its kind in its section, and all else
\* stays.
LEMMA SectionNext ==
    ASSUME lines \in Seq(Line), NEW l \in Line, lines' = Append(lines, l), NEW k, NEW type
    PROVE  Section(k, type)' =
             IF l.type = type /\ k = NextSection(l) THEN Append(Section(k, type), l.value)
                                              ELSE Section(k, type)
<1> DEFINE n == Len(lines)
           at == SectionLines(k, type)
           new == SectionLines(k, type)'
<1>1. /\ at \in SUBSET Nat /\ IsFiniteSet(at) /\ at \in SUBSET (1..n) /\ Cardinality(at) \in Nat
  BY SectionLinesType
<1>2. n \in Nat /\ lines'[n + 1] = l /\ \A i \in 1..n : lines'[i] = lines[i]
  OBVIOUS
<1>3. \A x \in 1..Cardinality(at) : Nth(at, x) \in at
  BY <1>1, NthRank
<1>4. \A x \in 1..Cardinality(at) : lines'[Nth(at, x)].value = lines[Nth(at, x)].value
  BY <1>1, <1>2, <1>3
<1>5. Section(k, type) = [x \in 1..Cardinality(at) |-> lines[Nth(at, x)].value]
  BY DEF Section
<1>6. Section(k, type)' = [x \in 1..Cardinality(new) |-> lines'[Nth(new, x)].value]
  BY DEF Section, Nth
<1>7. CASE l.type = type /\ k = NextSection(l)
  <2>1. new = at \cup {n + 1}
    BY <1>7, SectionLinesNext
  <2>2. \A i \in at : i < n + 1
    BY <1>1, <1>2
  <2>3. /\ Cardinality(new) = Cardinality(at) + 1
        /\ \A x \in 1..Cardinality(at) : Nth(new, x) = Nth(at, x)
        /\ Nth(new, Cardinality(at) + 1) = n + 1
    <3>1. /\ Cardinality(at \cup {n + 1}) = Cardinality(at) + 1
          /\ \A x \in 1..Cardinality(at) : Nth(at \cup {n + 1}, x) = Nth(at, x)
          /\ Nth(at \cup {n + 1}, Cardinality(at) + 1) = n + 1
      <4> HIDE DEF at, new, n
      <4>1. n + 1 \in Nat
        BY <1>2
      <4> QED BY <1>1, <2>2, <4>1, NthAppend
    <3> HIDE DEF at, new, n
    <3> QED BY <2>1, <3>1
  <2> HIDE DEF at, new, n
  <2>4. \A x \in 1..Cardinality(at) : lines'[Nth(new, x)].value = lines[Nth(at, x)].value
    BY <1>4, <2>3
  <2>5. lines'[Nth(new, Cardinality(at) + 1)].value = l.value
    BY <1>2, <2>3
  <2>6. Section(k, type) \in Seq({r.value : r \in Line}) /\ Len(Section(k, type)) = Cardinality(at)
    BY SectionType DEF at
  <2>7. Append(Section(k, type), l.value) =
          [x \in 1..(Cardinality(at) + 1) |->
              IF x = Cardinality(at) + 1 THEN l.value ELSE Section(k, type)[x]]
    BY <2>6
  <2>8. \A x \in 1..(Cardinality(at) + 1) : lines'[Nth(new, x)].value =
              IF x = Cardinality(at) + 1 THEN l.value ELSE Section(k, type)[x]
    <3>1. \A x \in 1..Cardinality(at) : Section(k, type)[x] = lines[Nth(at, x)].value
      BY <1>5
    <3>2. \A x \in 1..(Cardinality(at) + 1) : x = Cardinality(at) + 1 \/ x \in 1..Cardinality(at)
      BY <1>1
    <3>3. Cardinality(at) + 1 \notin 1..Cardinality(at)
      BY <1>1
    <3> QED BY <2>4, <2>5, <3>1, <3>2, <3>3, Zenon
  <2>9. Section(k, type)' = [x \in 1..(Cardinality(at) + 1) |-> lines'[Nth(new, x)].value]
    BY <1>6, <2>3
  <2>10. Section(k, type)' = Append(Section(k, type), l.value)
    BY <2>7, <2>8, <2>9, Zenon
  <2> QED BY <1>7, <2>10
<1>8. CASE ~(l.type = type /\ k = NextSection(l))
  <2>1. new = at
    BY <1>8, SectionLinesNext
  <2> HIDE DEF at, new, n
  <2> QED BY <1>4, <1>5, <1>6, <1>8, <2>1
<1> QED BY <1>7, <1>8

\* A section that is not yet open is empty.
LEMMA SectionEmpty ==
    ASSUME lines \in Seq(Line), NEW k \in Nat, k > SectionOf(Len(lines)), NEW type
    PROVE  Section(k, type) = <<>>
<1>1. \A i \in DOMAIN lines : SectionOf(i) \in 0..SectionOf(Len(lines))
  BY SectionOfBound
<1>2. SectionOf(Len(lines)) \in Nat
  BY SectionOfBound
<1>3. SectionLines(k, type) = {}
  BY <1>1, <1>2 DEF SectionLines
<1>4. Cardinality(SectionLines(k, type)) = 0
  BY <1>3, FS_EmptySet
<1>5. Section(k, type) \in Seq({l.value : l \in Line}) /\ Len(Section(k, type)) = 0
  BY <1>4, SectionType
<1> QED BY <1>5

-----------------------------------------------------------------------------
(* URLs.                                                                   *)

\* What the URLs are made of.
LEMMA UrlTypes ==
    /\ Bases \cup SessionControls \cup MediaControls \cup {RequestUrl} \subseteq Url
    /\ "/" \in Token /\ <<>> \in Url /\ All \in Url
<1> DEFINE given == Bases \cup SessionControls \cup MediaControls \cup {RequestUrl}
<1>1. ASSUME NEW u \in given
      PROVE  u \in Url
  <2>1. u \in Seq(Range(u))
    BY SdpAssumption
  <2>2. Range(u) \subseteq Token
    BY DEF Token
  <2> HIDE DEF given
  <2> QED BY <2>1, <2>2 DEF Url
<1>2. "/" \in Token /\ "*" \in Token
  BY DEF Token
<1> QED BY <1>1, <1>2 DEF Url, All

\* Stripping leaves an absolute URL, and one in order has no slash left.
LEMMA StrippedFacts ==
    ASSUME NEW u \in Url, IsAbsoluteUrl(u)
    PROVE  /\ Stripped(u) \in Url /\ IsAbsoluteUrl(Stripped(u))
           /\ u = Stripped(u) \/ u = Append(Stripped(u), "/")
           /\ WellFormed(u) => /\ WellFormed(Stripped(u)) /\ Len(Stripped(u)) % 2 = 1
                               /\ Stripped(Stripped(u)) = Stripped(u)
<1>1. /\ u \in Seq(Token) /\ Len(u) \in Nat /\ Len(u) >= 1 /\ u[1] = Root /\ DOMAIN u = 1..Len(u)
      /\ Root # "/"
  BY SdpAssumption DEF Url, IsAbsoluteUrl
<1>2. CASE u[Len(u)] # "/"
  <2>1. Stripped(u) = u
    BY <1>2 DEF Stripped, Last
  <2>2. WellFormed(u) => Len(u) % 2 = 1
    BY <1>1, <1>2 DEF WellFormed, NoEmptySegment
  <2> QED BY <2>1, <2>2
<1>3. CASE u[Len(u)] = "/"
  <2>1. Stripped(u) = SubSeq(u, 1, Len(u) - 1)
    BY <1>1, <1>3 DEF Stripped, Last, Front
  <2>2. Len(u) >= 2
    BY <1>1, <1>3
  <2> DEFINE v == SubSeq(u, 1, Len(u) - 1)
  <2>3. /\ v \in Seq(Token) /\ Len(v) = Len(u) - 1 /\ v # <<>> /\ \A i \in 1..(Len(u) - 1) : v[i] = u[i]
    <3>1. \A i \in 1..(Len(u) - 1) : u[i] \in Token
      BY <1>1
    <3>2. /\ v \in Seq(Token) /\ Len(v) = Len(u) - 1
          /\ \A i \in 1..(Len(u) - 1 - 1 + 1) : v[i] = u[1 + i - 1]
      BY <1>1, <2>2, <3>1, SubSeqProperties
    <3> HIDE DEF v
    <3> QED BY <1>1, <2>2, <3>2
  <2>4. u = Append(v, "/")
    BY <1>1, <1>3, <2>2, <2>3
  <2> HIDE DEF v
  <2>5. v[1] = Root
    BY <1>1, <2>2, <2>3
  <2>6. WellFormed(u) => WellFormed(v) /\ Len(v) % 2 = 1 /\ v[Len(v)] # "/"
    <3> SUFFICES ASSUME WellFormed(u)
                 PROVE  WellFormed(v) /\ Len(v) % 2 = 1 /\ v[Len(v)] # "/"
      OBVIOUS
    <3>1. \A i \in 1..Len(u) : (u[i] = "/") <=> (i % 2 = 0)
      BY <1>1 DEF WellFormed, NoEmptySegment
    <3>2. Len(u) % 2 = 0
      BY <1>1, <1>3, <3>1
    <3>3. Len(v) % 2 = 1
      BY <1>1, <2>3, <3>2
    <3>4. \A i \in 1..Len(v) : (v[i] = "/") <=> (i % 2 = 0)
      BY <1>1, <2>3, <3>1
    <3>5. v[Len(v)] # "/"
      BY <1>1, <2>2, <2>3, <3>3, <3>4
    <3> QED BY <2>3, <2>5, <3>3, <3>4, <3>5 DEF WellFormed, IsAbsoluteUrl, NoEmptySegment
  <2>7. v[Len(v)] # "/" => Stripped(v) = v
    BY DEF Stripped, Last
  <2> QED BY <2>1, <2>3, <2>4, <2>5, <2>6, <2>7 DEF v, Url, IsAbsoluteUrl
<1> QED BY <1>2, <1>3

\* A joined URL begins with the first, ends with the second, and is in order
\* when both are and no slash ends the first.
LEMMA JoinFacts ==
    ASSUME NEW u \in Url, IsAbsoluteUrl(u), NEW c \in Url
    PROVE  /\ Join(u, c) \in Url /\ IsAbsoluteUrl(Join(u, c))
           /\ WellFormed(u) /\ Len(u) % 2 = 1 /\ NoEmptySegment(c) => WellFormed(Join(u, c))
           /\ IsPrefix(u, Join(u, c)) /\ IsPrefix(Append(u, "/"), Join(u, c))
           /\ IsSuffix(c, Join(u, c))
<1> DEFINE j == Join(u, c)
           m == Len(u) + 1
<1>1. /\ u \in Seq(Token) /\ c \in Seq(Token) /\ Len(u) \in Nat /\ Len(c) \in Nat
      /\ Len(u) >= 1 /\ u[1] = Root /\ "/" \in Token
  BY UrlTypes DEF Url, IsAbsoluteUrl
<1>2. /\ j \in Seq(Token) /\ Len(j) = m + Len(c)
      /\ \A i \in 1..Len(u) : j[i] = u[i]
      /\ j[m] = "/"
      /\ \A i \in 1..Len(c) : j[m + i] = c[i]
  BY <1>1 DEF Join
<1> HIDE DEF j
<1>3. j \in Url /\ IsAbsoluteUrl(j)
  BY <1>1, <1>2 DEF Url, IsAbsoluteUrl
<1>4. WellFormed(u) /\ Len(u) % 2 = 1 /\ NoEmptySegment(c) => WellFormed(j)
  <2> SUFFICES ASSUME WellFormed(u), Len(u) % 2 = 1, NoEmptySegment(c), NEW i \in 1..Len(j)
               PROVE  (j[i] = "/") <=> (i % 2 = 0)
    BY <1>1, <1>2, <1>3 DEF WellFormed, NoEmptySegment
  <2>1. CASE i \in 1..Len(u)
    BY <1>1, <1>2, <2>1, SMTT(30) DEF WellFormed, NoEmptySegment
  <2>2. CASE i = m
    <3>1. m % 2 = 0
      BY <1>1
    <3> QED BY <1>2, <2>2, <3>1
  <2>3. CASE i > m
    <3>1. i - m \in 1..Len(c) /\ j[i] = c[i - m]
      <4>1. i \in Int /\ m \in Int /\ i <= m + Len(c) /\ i > m
        BY <1>1, <1>2, <2>3
      <4>2. i - m \in 1..Len(c) /\ m + (i - m) = i
        BY <1>1, <4>1
      <4> QED BY <1>2, <4>2
    <3>2. (c[i - m] = "/") <=> ((i - m) % 2 = 0)
      <4>1. DOMAIN c = 1..Len(c)
        BY <1>1
      <4> QED BY <3>1, <4>1 DEF NoEmptySegment
    <3>3. m % 2 = 0
      BY <1>1
    <3>4. ((i - m) % 2 = 0) <=> (i % 2 = 0)
      BY <1>1, <3>1, <3>3
    <3> QED BY <3>1, <3>2, <3>4
  <2>4. i \in 1..Len(u) \/ i = m \/ i > m
    BY <1>1, <1>2
  <2> QED BY <2>1, <2>2, <2>3, <2>4, Zenon
<1>5. IsPrefix(u, j)
  BY <1>1, <1>2 DEF IsPrefix
<1>6. IsPrefix(Append(u, "/"), j)
  <2>1. \A i \in 1..m : Append(u, "/")[i] = j[i]
    BY <1>1, <1>2
  <2>2. Append(u, "/") \in Seq(Token) /\ Len(Append(u, "/")) = m /\ m <= Len(j)
    BY <1>1, <1>2
  <2> QED BY <1>2, <2>1, <2>2 DEF IsPrefix
<1>7. IsSuffix(c, j)
  <2>1. /\ Reverse(c) = [i \in 1..Len(c) |-> c[Len(c) - i + 1]]
        /\ Reverse(j) = [i \in 1..Len(j) |-> j[Len(j) - i + 1]]
    BY DEF Reverse
  <2>2. /\ Reverse(c) \in Seq(Token) /\ Len(Reverse(c)) = Len(c)
        /\ Reverse(j) \in Seq(Token) /\ Len(Reverse(j)) = Len(j)
    BY <1>1, <1>2, <2>1
  <2>3. \A i \in 1..Len(c) : Reverse(c)[i] = Reverse(j)[i]
    <3> SUFFICES ASSUME NEW i \in 1..Len(c)
                 PROVE  Reverse(c)[i] = Reverse(j)[i]
      OBVIOUS
    <3>1. /\ Len(c) - i + 1 \in 1..Len(c) /\ m + (Len(c) - i + 1) = Len(j) - i + 1 /\ i \in 1..Len(j)
      BY <1>1, <1>2
    <3>2. Reverse(c)[i] = c[Len(c) - i + 1] /\ Reverse(j)[i] = j[Len(j) - i + 1]
      BY <2>1, <3>1
    <3>3. j[m + (Len(c) - i + 1)] = c[Len(c) - i + 1]
      BY <1>2, <3>1
    <3> QED BY <3>1, <3>2, <3>3
  <2>4. Len(c) <= Len(j)
    BY <1>1, <1>2
  <2> HIDE DEF j
  <2> QED BY <1>1, <2>2, <2>3, <2>4 DEF IsSuffix, IsPrefix
<1> QED BY <1>3, <1>4, <1>5, <1>6, <1>7 DEF j

\* Only one path makes a URL from the one above it.
LEMMA JoinOne ==
    ASSUME NEW u \in Url, NEW c \in Url, NEW d \in Url, Join(u, c) = Join(u, d)
    PROVE  c = d
<1>1. /\ Append(u, "/") \in Seq(Token) /\ c \in Seq(Token) /\ d \in Seq(Token)
  BY UrlTypes DEF Url
<1>2. Len(c) = Len(d)
  BY <1>1 DEF Join
<1>3. \A i \in 1..Len(c) : c[i] = Join(u, c)[Len(u) + 1 + i] /\ d[i] = Join(u, d)[Len(u) + 1 + i]
  BY <1>1, <1>2 DEF Join
<1> QED BY <1>1, <1>2, <1>3

\* A path is what follows the first slash of a URL.
LEMMA PathType ==
    ASSUME NEW c \in Url
    PROVE  Path(c) \in Url
  BY DEF Path, Url

\* Every control URL that counts was read.
LEMMA ControlType ==
    ASSUME lines \in Seq(Line), NEW k
    PROVE  Control(k) \in Url
<1> DEFINE at == SectionLines(k, "control")
           cs == Section(k, "control")
<1>1. /\ at \in SUBSET Nat /\ IsFiniteSet(at) /\ at \in SUBSET (1..Len(lines)) /\ Cardinality(at) \in Nat
  BY SectionLinesType
<1>2. Len(cs) = Cardinality(at) /\ cs \in Seq({l.value : l \in Line})
  BY SectionType
<1>3. CASE cs = <<>>
  BY <1>3, UrlTypes DEF Control
<1>4. CASE cs # <<>>
  <2>1. Len(cs) \in 1..Cardinality(at)
    BY <1>1, <1>2, <1>4
  <2>2. Nth(at, Len(cs)) \in at
    BY <1>1, <2>1, NthRank
  <2>3. Last(cs) = lines[Nth(at, Len(cs))].value
    BY <2>1 DEF Last, Section
  <2>4. \A i \in at : lines[i] \in Line /\ lines[i].type = "control"
    BY <1>1 DEF SectionLines
  <2>5. \A l \in Line : l.type = "control" => l.value \in SessionControls \cup MediaControls
    BY DEF Line
  <2>6. Last(cs) \in SessionControls \cup MediaControls
    BY <2>2, <2>3, <2>4, <2>5
  <2> QED BY <1>4, <2>6, UrlTypes DEF Control
<1> QED BY <1>3, <1>4

-----------------------------------------------------------------------------
(* The invariant.                                                          *)

\* As many media were read as sections were opened.
Opened == mediaProcess = SectionOf(Len(lines))

\* Names and attributes are those of the sections, for good.
Parsed ==
    /\ session.attrs = Section(0, "attribute")
    /\ \A k \in DOMAIN media : /\ media[k].name = Section(k, "media")[1]
                               /\ media[k].attrs = Section(k, "attribute")

\* So are the control URLs, until processSdp replaces them one by one.
Unresolved ==
    /\ pc \in {"lines", "threw", "looping", "session"} => session.control = Control(0) /\ resolved = 0
    /\ \A k \in DOMAIN media : k > resolved => media[k].control = Control(k)
    /\ pc = "done" => resolved = Len(media)

\* The session's is absolute then, and in order if the description's is.
SessionResolved ==
    pc \in {"media", "done"} /\ ~Stale =>
        /\ isAggregate => Control(0) # <<>>
        /\ isAggregate => /\ IsAbsoluteUrl(session.control)
                          /\ NoEmptySegment(Control(0)) => WellFormed(session.control)

\* The URL that section k's control URL stands for.
Made(k) ==
    LET c == Control(k)
    IN  IF c = <<>> THEN IF isAggregate THEN session.control ELSE RequestUrl
        ELSE IF IsAbsoluteUrl(c) THEN c ELSE Join(Stripped(Above), Path(c))

\* What is resolved does not depend on when: the base that a later medium
\* strips was stripped by the earlier one already.
Resolved == pc \in {"media", "done"} /\ ~Stale => \A k \in 1..resolved : media[k].control = Made(k)

SdpInv == TypeOK /\ base \in Url /\ Opened /\ Parsed /\ Unresolved /\ SessionResolved /\ Resolved

\* The types of the URLs that processSdp makes.
LEMMA MadeTypes ==
    /\ \A u \in Url : Stripped(u) \in Url
    /\ \A u, c \in Url : Join(u, c) \in Url
<1>1. ASSUME NEW u \in Url
      PROVE  Stripped(u) \in Url
  <2>1. CASE u # <<>>
    <3>1. u \in Seq(Token) /\ Len(u) \in Nat /\ \A i \in 1..(Len(u) - 1) : u[i] \in Token
      BY <2>1 DEF Url
    <3>2. SubSeq(u, 1, Len(u) - 1) \in Seq(Token)
      BY <3>1, SubSeqProperties
    <3> QED BY <3>2 DEF Stripped, Front, Url
  <2> QED BY <2>1 DEF Stripped
<1>2. ASSUME NEW u \in Url, NEW c \in Url
      PROVE  Join(u, c) \in Url
  BY UrlTypes DEF Url, Join
<1> QED BY <1>1, <1>2

\* A new line is the last of its section's control URLs, or changes none.
LEMMA ControlNext ==
    ASSUME lines \in Seq(Line), NEW l \in Line, lines' = Append(lines, l), NEW k
    PROVE  Control(k)' = IF l.type = "control" /\ k = NextSection(l) THEN l.value ELSE Control(k)
<1> DEFINE cs == Section(k, "control")
<1>1. cs \in Seq({r.value : r \in Line}) /\ l.value \in {r.value : r \in Line}
  BY SectionType
<1>2. Section(k, "control")' = IF l.type = "control" /\ k = NextSection(l) THEN Append(cs, l.value) ELSE cs
  BY SectionNext
<1> HIDE DEF cs
<1>3. Append(cs, l.value) # <<>> /\ Last(Append(cs, l.value)) = l.value
  BY <1>1 DEF Last
<1>4. Control(k) = IF cs = <<>> THEN <<>> ELSE Last(cs)
  BY DEF Control, cs
<1>5. Control(k)' = IF Section(k, "control")' = <<>> THEN <<>> ELSE Last(Section(k, "control")')
  BY DEF Control, Last
<1> QED BY <1>2, <1>3, <1>4, <1>5

\* Sections depend on the lines only.
LEMMA SectionsStay ==
    ASSUME UNCHANGED lines
    PROVE  /\ SectionOf(Len(lines))' = SectionOf(Len(lines))
           /\ \A k : Control(k)' = Control(k)
           /\ \A k, type : Section(k, type)' = Section(k, type)
<1>1. \A i : SectionOf(i)' = SectionOf(i)
  BY DEF SectionOf
<1>2. \A k, type : SectionLines(k, type)' = SectionLines(k, type)
  BY <1>1 DEF SectionLines
<1>3. ASSUME NEW k, NEW type
      PROVE  Section(k, type)' = Section(k, type)
  <2>1. SectionLines(k, type)' = SectionLines(k, type) /\ lines' = lines
    BY <1>2
  <2> QED BY <2>1 DEF Section
<1>4. \A k : Control(k)' = Control(k)
  BY <1>3 DEF Control, Last
<1> QED BY <1>3, <1>4 DEF SectionOf

\* Nothing is read yet.
LEMMA InitSdp == Init => SdpInv
<1> SUFFICES ASSUME Init PROVE SdpInv
  OBVIOUS
<1> USE DEF Init
<1>1. TypeOK /\ base \in Url
  BY UrlTypes, SdpAssumption, EmptySeq DEF TypeOK
<1>2. SectionOf(Len(lines)) = 0
  <2>1. {j \in 1..0 : lines[j].type = "media"} = {}
    OBVIOUS
  <2> QED BY <2>1, FS_EmptySet DEF SectionOf
<1>3. \A k, type : Section(k, type) = <<>>
  <2>1. \A k, type : SectionLines(k, type) = {}
    BY DEF SectionLines
  <2>2. lines \in Seq(Line)
    BY EmptySeq
  <2>3. \A k, type : Len(Section(k, type)) = 0 /\ Section(k, type) \in Seq({l.value : l \in Line})
    BY <2>1, <2>2, SectionType, FS_EmptySet
  <2> QED BY <2>3
<1>4. \A k : Control(k) = <<>>
  BY <1>3 DEF Control
<1> QED BY <1>1, <1>2, <1>3, <1>4 DEF SdpInv, Opened, Parsed, Unresolved, SessionResolved, Resolved

\* The parser puts a line where it stands.
LEMMA ReadInv == ASSUME SdpInv, ReadLine PROVE SdpInv'
<1> DEFINE Medium == [name : Names, control : Url, attrs : Seq(Attributes)]
           Descr == [control : Url, attrs : Seq(Attributes)]
<1>1. PICK l \in Line : \/ ReadOther(l) \/ ReadBad(l) \/ ReadPorts(l)
                        \/ ReadAttribute(l) \/ ReadControl(l) \/ ReadMedia(l)
  BY DEF ReadLine
<1>2. /\ Reads(l) /\ pc = "lines" /\ lines' = Append(lines, l)
      /\ UNCHANGED <<isAggregate, base, resolved>>
  BY <1>1 DEF ReadOther, ReadBad, ReadPorts, ReadAttribute, ReadControl, ReadMedia, Reads
<1>3. /\ lines \in Seq(Line) /\ lines' \in Seq(Line)
      /\ session \in Descr /\ media \in Seq(Medium)
      /\ isAggregate \in BOOLEAN /\ WellFormed(base) /\ base \in Url /\ resolved = 0
      /\ mediaProcess = SectionOf(Len(lines)) /\ mediaProcess = Len(media)
      /\ DOMAIN media = 1..mediaProcess /\ mediaProcess \in Nat
  <2>1. /\ lines \in Seq(Line) /\ session \in Descr /\ media \in Seq(Medium)
        /\ isAggregate \in BOOLEAN /\ WellFormed(base) /\ base \in Url /\ mediaProcess = Len(media)
    BY DEF SdpInv, TypeOK
  <2>2. lines' \in Seq(Line)
    BY <1>2, <2>1, AppendProperties
  <2>3. resolved = 0 /\ mediaProcess = SectionOf(Len(lines))
    BY <1>2 DEF SdpInv, Unresolved, Opened
  <2> HIDE DEF Descr, Medium
  <2>4. DOMAIN media = 1..mediaProcess /\ mediaProcess \in Nat
    BY <2>1
  <2> QED BY <2>1, <2>2, <2>3, <2>4
<1>4. /\ session.attrs = Section(0, "attribute") /\ session.control = Control(0)
      /\ \A k \in 1..mediaProcess : /\ media[k].name = Section(k, "media")[1]
                                    /\ media[k].attrs = Section(k, "attribute")
                                    /\ media[k].control = Control(k)
  <2>1. Parsed /\ Unresolved
    BY DEF SdpInv
  <2>2. \A k \in 1..mediaProcess : k > 0
    OBVIOUS
  <2> HIDE DEF Descr, Medium
  <2> QED BY <1>2, <1>3, <2>1, <2>2 DEF Parsed, Unresolved
<1>5. /\ SectionOf(Len(lines))' = NextSection(l)
      /\ NextSection(l) = IF l.type = "media" THEN mediaProcess + 1 ELSE mediaProcess
  BY <1>2, <1>3, SectionOfNext DEF NextSection
<1>6. \A k, type : Section(k, type)' =
             IF l.type = type /\ k = NextSection(l) THEN Append(Section(k, type), l.value) ELSE Section(k, type)
  BY <1>2, <1>3, SectionNext
<1>7. \A k : Control(k)' = IF l.type = "control" /\ k = NextSection(l) THEN l.value ELSE Control(k)
  BY <1>2, <1>3, ControlNext
<1>8. pc' \in {"lines", "threw", "looping"}
  BY <1>1, <1>2 DEF ReadOther, ReadBad, ReadPorts, ReadAttribute, ReadControl, ReadMedia
<1>9. ASSUME \/ l.type \in {"other", "bad", "ports"} /\ UNCHANGED <<mediaProcess, session, media>>
      PROVE  SdpInv'
  <2>1. TypeOK' /\ base' \in Url /\ Opened'
    BY <1>2, <1>3, <1>5, <1>8, <1>9 DEF TypeOK, Opened
  <2>2. Parsed' /\ Unresolved'
    BY <1>2, <1>3, <1>4, <1>6, <1>7, <1>8, <1>9 DEF Parsed, Unresolved
  <2> QED BY <1>8, <2>1, <2>2 DEF SdpInv, SessionResolved, Resolved
<1>10. CASE ReadAttribute(l)
  <2>1. l.type = "attribute" /\ mediaProcess' = mediaProcess /\ NextSection(l) = mediaProcess
        /\ l.value \in Attributes
    BY <1>5, <1>10 DEF ReadAttribute, Line
  <2>2. CASE mediaProcess > 0
    <3>1. /\ media' = [media EXCEPT ![mediaProcess].attrs = Append(@, l.value)]
          /\ session' = session
      BY <1>10, <2>2 DEF ReadAttribute, Current
    <3>2. media' \in Seq(Medium) /\ Len(media') = Len(media)
      <4>1. mediaProcess \in 1..Len(media)
        BY <1>3, <2>2
      <4>2. media[mediaProcess] \in Medium
        <5> HIDE DEF Medium
        <5> QED BY <1>3, <4>1, ElementOfSeq
      <4>3. [media[mediaProcess] EXCEPT !.attrs = Append(@, l.value)] \in Medium
        BY <2>1, <4>2, SMTT(30)
      <4> QED BY <1>3, <3>1, <4>1, <4>3
    <3>3. TypeOK' /\ base' \in Url /\ Opened'
      BY <1>2, <1>3, <1>5, <1>8, <2>1, <3>1, <3>2 DEF TypeOK, Opened
    <3>4. \A k \in 1..mediaProcess :
            /\ media'[k].name = media[k].name /\ media'[k].control = media[k].control
            /\ media'[k].attrs = IF k = mediaProcess THEN Append(media[k].attrs, l.value) ELSE media[k].attrs
      BY <1>3, <3>1
    <3>5. DOMAIN media' = 1..mediaProcess
      BY <1>3, <3>2
    <3>6. Parsed'
      BY <1>3, <1>4, <1>6, <2>1, <2>2, <3>1, <3>4, <3>5, SMTT(30) DEF Parsed
    <3>7. Unresolved'
      BY <1>2, <1>3, <1>4, <1>7, <1>8, <2>1, <3>1, <3>4, <3>5 DEF Unresolved
    <3> QED BY <1>8, <3>3, <3>6, <3>7 DEF SdpInv, SessionResolved, Resolved
  <2>3. CASE ~(mediaProcess > 0)
    <3>1. session' = [session EXCEPT !.attrs = Append(@, l.value)] /\ media' = media /\ mediaProcess = 0
      BY <1>3, <1>10, <2>3 DEF ReadAttribute
    <3>2. session' \in Descr
      <4>1. session.attrs \in Seq(Attributes) /\ session.control \in Url
        BY <1>3
      <4>2. Append(session.attrs, l.value) \in Seq(Attributes)
        BY <2>1, <4>1, AppendProperties
      <4> QED BY <1>3, <3>1, <4>1, <4>2
    <3>3. TypeOK' /\ base' \in Url /\ Opened'
      BY <1>2, <1>3, <1>5, <1>8, <2>1, <3>1, <3>2 DEF TypeOK, Opened
    <3>4. Parsed'
      BY <1>3, <1>4, <1>6, <2>1, <3>1 DEF Parsed
    <3>5. Unresolved'
      BY <1>2, <1>3, <1>4, <1>7, <1>8, <2>1, <3>1 DEF Unresolved
    <3> QED BY <1>8, <3>3, <3>4, <3>5 DEF SdpInv, SessionResolved, Resolved
  <2> QED BY <2>2, <2>3
<1>11. CASE ReadControl(l)
  <2>1. l.type = "control" /\ mediaProcess' = mediaProcess /\ NextSection(l) = mediaProcess
        /\ l.value \in Url
    BY <1>5, <1>11, UrlTypes DEF ReadControl
  <2>2. CASE mediaProcess > 0
    <3>1. media' = [media EXCEPT ![mediaProcess].control = l.value] /\ session' = session
      BY <1>11, <2>2 DEF ReadControl, Current
    <3>2. media' \in Seq(Medium) /\ Len(media') = Len(media)
      <4>1. mediaProcess \in 1..Len(media)
        BY <1>3, <2>2
      <4>2. media[mediaProcess] \in Medium
        <5> HIDE DEF Medium
        <5> QED BY <1>3, <4>1, ElementOfSeq
      <4>3. [media[mediaProcess] EXCEPT !.control = l.value] \in Medium
        BY <2>1, <4>2
      <4> QED BY <1>3, <3>1, <4>1, <4>3
    <3>3. TypeOK' /\ base' \in Url /\ Opened'
      BY <1>2, <1>3, <1>5, <1>8, <2>1, <3>1, <3>2 DEF TypeOK, Opened
    <3>4. \A k \in 1..mediaProcess :
            /\ media'[k].name = media[k].name /\ media'[k].attrs = media[k].attrs
            /\ media'[k].control = IF k = mediaProcess THEN l.value ELSE media[k].control
      BY <1>3, <3>1
    <3>5. DOMAIN media' = 1..mediaProcess
      BY <1>3, <3>2
    <3>6. Parsed'
      BY <1>3, <1>4, <1>6, <2>1, <3>1, <3>4, <3>5 DEF Parsed
    <3>7. Unresolved'
      BY <1>2, <1>3, <1>4, <1>7, <1>8, <2>1, <2>2, <3>1, <3>4, <3>5 DEF Unresolved
    <3> QED BY <1>8, <3>3, <3>6, <3>7 DEF SdpInv, SessionResolved, Resolved
  <2>3. CASE ~(mediaProcess > 0)
    <3>1. session' = [session EXCEPT !.control = l.value] /\ media' = media /\ mediaProcess = 0
      BY <1>3, <1>11, <2>3 DEF ReadControl
    <3>2. session' \in Descr
      BY <1>3, <2>1, <3>1
    <3>3. TypeOK' /\ base' \in Url /\ Opened'
      BY <1>2, <1>3, <1>5, <1>8, <2>1, <3>1, <3>2 DEF TypeOK, Opened
    <3>4. Parsed'
      BY <1>3, <1>4, <1>6, <2>1, <3>1 DEF Parsed
    <3>5. Unresolved'
      BY <1>2, <1>3, <1>4, <1>7, <1>8, <2>1, <3>1 DEF Unresolved
    <3> QED BY <1>8, <3>3, <3>4, <3>5 DEF SdpInv, SessionResolved, Resolved
  <2> QED BY <2>2, <2>3
<1>12. CASE ReadMedia(l)
  <2>1. /\ l.type = "media" /\ mediaProcess' = mediaProcess + 1 /\ NextSection(l) = mediaProcess + 1
        /\ l.value \in Names /\ session' = session
        /\ media' = Append(media, [name |-> l.value, control |-> <<>>, attrs |-> <<>>])
    BY <1>5, <1>12 DEF ReadMedia, Line
  <2>2. [name |-> l.value, control |-> <<>>, attrs |-> <<>>] \in Medium
    BY <2>1, UrlTypes, EmptySeq
  <2>3. /\ media' \in Seq(Medium)
        /\ Len(media') = mediaProcess + 1 /\ DOMAIN media' = 1..(mediaProcess + 1)
        /\ media'[mediaProcess + 1] = [name |-> l.value, control |-> <<>>, attrs |-> <<>>]
        /\ \A k \in 1..mediaProcess : media'[k] = media[k]
    BY <1>3, <2>1, <2>2
  <2>4. TypeOK' /\ base' \in Url /\ Opened'
    BY <1>2, <1>3, <1>5, <1>8, <2>1, <2>3 DEF TypeOK, Opened
  <2>5. ASSUME NEW type
        PROVE  Section(mediaProcess + 1, type) = <<>>
    <3>1. mediaProcess + 1 \in Nat /\ mediaProcess + 1 > SectionOf(Len(lines))
      BY <1>3
    <3> QED BY <1>3, <3>1, SectionEmpty
  <2>6. Control(mediaProcess + 1) = <<>>
    BY <2>5 DEF Control
  <2>7. Append(<<>>, l.value)[1] = l.value
    OBVIOUS
  <2>8. \A k \in 1..(mediaProcess + 1) : (k \in 1..mediaProcess /\ k # mediaProcess + 1) \/ k = mediaProcess + 1
    BY <1>3
  <2>9. 0 # mediaProcess + 1
    BY <1>3
  <2>10. Parsed'
    <3>1. session'.attrs = Section(0, "attribute")'
      BY <1>4, <1>6, <2>1
    <3>2. ASSUME NEW k \in 1..(mediaProcess + 1)
          PROVE  media'[k].name = Section(k, "media")'[1] /\ media'[k].attrs = Section(k, "attribute")'
      <4>1. CASE k \in 1..mediaProcess /\ k # mediaProcess + 1
        <5>1. Section(k, "media")' = Section(k, "media") /\ Section(k, "attribute")' = Section(k, "attribute")
          BY <1>6, <2>1, <4>1
        <5> QED BY <1>4, <2>3, <4>1, <5>1
      <4>2. CASE k = mediaProcess + 1
        <5>1. Section(k, "media")' = Append(<<>>, l.value) /\ Section(k, "attribute")' = <<>>
          BY <1>6, <2>1, <2>5, <4>2
        <5> QED BY <2>3, <2>7, <4>2, <5>1
      <4> QED BY <2>8, <4>1, <4>2
    <3> QED BY <2>3, <3>1, <3>2 DEF Parsed
  <2>11. Unresolved'
    <3>1. session'.control = Control(0)'
      BY <1>4, <1>7, <2>1
    <3>2. ASSUME NEW k \in 1..(mediaProcess + 1)
          PROVE  media'[k].control = Control(k)'
      BY <1>4, <1>7, <2>1, <2>3, <2>6, <2>8
    <3> QED BY <1>2, <1>3, <1>8, <2>3, <3>1, <3>2 DEF Unresolved
  <2> QED BY <1>8, <2>4, <2>10, <2>11 DEF SdpInv, SessionResolved, Resolved
<1> QED BY <1>1, <1>9, <1>10, <1>11, <1>12 DEF ReadOther, ReadBad, ReadPorts

\* The session's URL is resolved against the base, once.
LEMMA SessionInv == ASSUME SdpInv, ResolveSession PROVE SdpInv'
<1> DEFINE Descr == [control : Url, attrs : Seq(Attributes)]
           c == session.control
           relative == c \notin {<<>>, All} /\ ~IsAbsoluteUrl(c)
           new == IF c = All THEN base ELSE IF relative THEN Join(Stripped(base), c) ELSE c
<1>1. /\ pc = "session" /\ pc' = "media" /\ UNCHANGED <<lines, mediaProcess, media, resolved>>
      /\ isAggregate' = (isAggregate \/ c # <<>>)
      /\ base' = IF relative THEN Stripped(base) ELSE base
      /\ session' = [session EXCEPT !.control = new]
  BY DEF ResolveSession
<1>2. /\ session \in Descr /\ c \in Url /\ base \in Url /\ WellFormed(base) /\ IsAbsoluteUrl(base)
      /\ isAggregate \in BOOLEAN /\ resolved = 0 /\ c = Control(0)
      /\ lines \in Seq(Line)
  BY <1>1 DEF SdpInv, TypeOK, Unresolved, WellFormed
<1>3. /\ Stripped(base) \in Url /\ WellFormed(Stripped(base)) /\ IsAbsoluteUrl(Stripped(base))
      /\ Len(Stripped(base)) % 2 = 1
  BY <1>2, StrippedFacts
<1>4. Join(Stripped(base), c) \in Url /\ new \in Url
  BY <1>2, <1>3, MadeTypes
<1>5. /\ SectionOf(Len(lines))' = SectionOf(Len(lines))
      /\ \A k : Control(k)' = Control(k)
      /\ \A k, type : Section(k, type)' = Section(k, type)
  BY <1>1, SectionsStay
<1>6. c # <<>> => IsAbsoluteUrl(new) /\ (NoEmptySegment(c) => WellFormed(new))
  <2>1. /\ IsAbsoluteUrl(Join(Stripped(base), c))
        /\ NoEmptySegment(c) => WellFormed(Join(Stripped(base), c))
    BY <1>2, <1>3, JoinFacts
  <2> QED BY <1>2, <2>1 DEF WellFormed
<1> HIDE DEF new
<1>7. session' \in Descr /\ session'.control = new /\ session'.attrs = session.attrs
  BY <1>1, <1>2, <1>4
<1>8. TypeOK' /\ base' \in Url
  <2>1. base' \in Url /\ WellFormed(base') /\ isAggregate' \in BOOLEAN
    BY <1>1, <1>2, <1>3
  <2>2. session' \in [control : Url, attrs : Seq(Attributes)]
    BY <1>7
  <2> HIDE DEF Descr, c, relative
  <2> QED BY <1>1, <2>1, <2>2 DEF SdpInv, TypeOK
<1>9. Opened' /\ Parsed' /\ Unresolved'
  <2> HIDE DEF c, relative, Descr
  <2> QED BY <1>1, <1>5, <1>7 DEF SdpInv, Opened, Parsed, Unresolved
<1>10. SessionResolved'
  <2>1. Stale' = (isAggregate' /\ Control(0) = <<>>)
    BY <1>5 DEF Stale
  <2> HIDE DEF relative, Descr
  <2> QED BY <1>2, <1>5, <1>6, <1>7, <2>1 DEF SessionResolved
<1>11. Resolved'
  BY <1>1, <1>2 DEF Resolved
<1> QED BY <1>8, <1>9, <1>10, <1>11 DEF SdpInv

\* A medium whose URL is made has the one its control URL stands for, and no
\* other changes.
LEMMA MadeInv ==
    ASSUME SdpInv, ResolveMedium, NEW u \in Url, Resolve(u),
           base' = base \/ (base' = Stripped(base) /\ ~isAggregate),
           ~Stale => u = Made(resolved + 1)
    PROVE  SdpInv'
<1> DEFINE Medium == [name : Names, control : Url, attrs : Seq(Attributes)]
           r == resolved + 1
<1>1. /\ pc = "media" /\ resolved < Len(media) /\ pc' = pc /\ resolved' = r
      /\ UNCHANGED <<lines, mediaProcess, session, isAggregate>>
      /\ media' = [media EXCEPT ![r].control = u]
  BY DEF ResolveMedium, Resolve
<1>2. /\ media \in Seq(Medium) /\ resolved \in 0..Len(media) /\ r \in 1..Len(media) /\ Len(media) \in Nat
      /\ base \in Url /\ WellFormed(base) /\ IsAbsoluteUrl(base) /\ lines \in Seq(Line)
  BY <1>1 DEF SdpInv, TypeOK, WellFormed
<1> HIDE DEF Medium, r
<1>3. media[r] \in Medium
  BY <1>2, ElementOfSeq
<1>4. [media[r] EXCEPT !.control = u] \in Medium
  BY <1>3 DEF Medium
<1>5. /\ media' \in Seq(Medium) /\ Len(media') = Len(media) /\ DOMAIN media' = DOMAIN media
      /\ DOMAIN media = 1..Len(media)
      /\ media'[r].control = u
      /\ \A k \in DOMAIN media : k # r => media'[k] = media[k]
      /\ \A k \in DOMAIN media : media'[k].name = media[k].name /\ media'[k].attrs = media[k].attrs
  <2>1. media' = [media EXCEPT ![r] = [media[r] EXCEPT !.control = u]]
    BY <1>1
  <2>2. media' \in Seq(Medium) /\ Len(media') = Len(media) /\ DOMAIN media' = DOMAIN media
    BY <1>2, <1>4, <2>1
  <2>3. media'[r] = [media[r] EXCEPT !.control = u] /\ \A k \in DOMAIN media : k # r => media'[k] = media[k]
    BY <1>2, <2>1
  <2>4. /\ [media[r] EXCEPT !.control = u].control = u
        /\ [media[r] EXCEPT !.control = u].name = media[r].name
        /\ [media[r] EXCEPT !.control = u].attrs = media[r].attrs
    BY <1>3 DEF Medium
  <2>5. DOMAIN media = 1..Len(media) /\ media'[r].control = u
    BY <1>2, <2>3, <2>4
  <2>6. ASSUME NEW k \in DOMAIN media
        PROVE  media'[k].name = media[k].name /\ media'[k].attrs = media[k].attrs
    <3>1. CASE k = r
      BY <2>3, <2>4, <3>1
    <3>2. CASE k # r
      BY <2>3, <3>2
    <3> QED BY <3>1, <3>2
  <2> QED BY <2>2, <2>3, <2>5, <2>6
<1>6. /\ SectionOf(Len(lines))' = SectionOf(Len(lines))
      /\ \A k : Control(k)' = Control(k)
      /\ \A k, type : Section(k, type)' = Section(k, type)
  BY <1>1, SectionsStay
<1>7. /\ base' \in Url /\ WellFormed(base') /\ Stripped(base') = Stripped(base)
  BY <1>2, StrippedFacts
<1>8. TypeOK'
  BY <1>1, <1>2, <1>5, <1>7 DEF SdpInv, TypeOK, Medium, r
<1>9. Opened' /\ Parsed' /\ SessionResolved'
  BY <1>1, <1>5, <1>6 DEF SdpInv, Opened, Parsed, SessionResolved, Stale
<1>10. Unresolved'
  BY <1>1, <1>2, <1>5, <1>6 DEF SdpInv, Unresolved, r
<1>11. Resolved'
  <2> SUFFICES ASSUME ~Stale', NEW k \in 1..r
               PROVE  media'[k].control = Made(k)'
    BY <1>1 DEF Resolved
  <2>1. ~Stale
    BY <1>1, <1>6 DEF Stale
  <2>2. Stripped(Above') = Stripped(Above) /\ session' = session /\ isAggregate' = isAggregate
    BY <1>1, <1>7 DEF Above
  <2>3. Made(k)' = Made(k)
    BY <1>6, <2>2 DEF Made
  <2>4. CASE k = r
    BY <1>5, <2>1, <2>3, <2>4 DEF r
  <2>5. CASE k # r
    <3>1. k \in 1..resolved /\ k \in DOMAIN media
      BY <1>2, <1>5, <2>5 DEF r
    <3>2. media[k].control = Made(k)
      BY <1>1, <2>1, <3>1 DEF SdpInv, Resolved
    <3> QED BY <1>5, <2>3, <2>5, <3>1, <3>2
  <2> QED BY <2>4, <2>5
<1> QED BY <1>7, <1>8, <1>9, <1>10, <1>11 DEF SdpInv

\* Giving up leaves all as it was.
LEMMA FailInv ==
    ASSUME SdpInv, ResolveMedium, NEW how \in {"aborted", "undefined"}, Fail(how), UNCHANGED base
    PROVE  SdpInv'
<1>1. /\ pc' = how /\ UNCHANGED <<lines, mediaProcess, session, isAggregate, media, resolved, base>>
  BY DEF ResolveMedium, Fail
<1>2. /\ SectionOf(Len(lines))' = SectionOf(Len(lines))
      /\ \A k : Control(k)' = Control(k)
      /\ \A k, type : Section(k, type)' = Section(k, type)
  BY <1>1, SectionsStay
<1>3. TypeOK' /\ base' \in Url
  BY <1>1 DEF SdpInv, TypeOK
<1>4. Opened' /\ Parsed' /\ Unresolved' /\ SessionResolved' /\ Resolved'
  BY <1>1, <1>2 DEF SdpInv, Opened, Parsed, Unresolved, SessionResolved, Resolved
<1> QED BY <1>3, <1>4 DEF SdpInv

\* Every medium gets the URL its control URL stands for.
LEMMA MediumInv == ASSUME SdpInv, ResolveMedium PROVE SdpInv'
<1> DEFINE c == media[resolved + 1].control
<1>1. /\ pc = "media" /\ resolved + 1 \in DOMAIN media /\ resolved + 1 > resolved
      /\ c \in Url /\ session.control \in Url /\ base \in Url /\ WellFormed(base)
      /\ lines \in Seq(Line) /\ isAggregate \in BOOLEAN
  <2>1. pc = "media" /\ resolved \in 0..Len(media) /\ resolved < Len(media)
        /\ media \in Seq([name : Names, control : Url, attrs : Seq(Attributes)])
    BY DEF ResolveMedium, SdpInv, TypeOK
  <2>2. resolved + 1 \in 1..Len(media) /\ resolved + 1 > resolved
    BY <2>1
  <2>3. media[resolved + 1] \in [name : Names, control : Url, attrs : Seq(Attributes)]
    <3> DEFINE Medium == [name : Names, control : Url, attrs : Seq(Attributes)]
    <3>1. media \in Seq(Medium)
      BY <2>1
    <3> HIDE DEF Medium
    <3>2. media[resolved + 1] \in Medium
      BY <2>2, <3>1, ElementOfSeq
    <3> QED BY <3>2 DEF Medium
  <2>4. resolved + 1 \in DOMAIN media
    BY <2>1, <2>2
  <2>5. c \in Url
    BY <2>3
  <2>6. session.control \in Url /\ base \in Url /\ WellFormed(base) /\ lines \in Seq(Line)
        /\ isAggregate \in BOOLEAN
    BY DEF SdpInv, TypeOK
  <2> QED BY <2>1, <2>2, <2>4, <2>5, <2>6
<1>2. c = Control(resolved + 1)
  BY <1>1 DEF SdpInv, Unresolved
<1>3. Stripped(base) \in Url /\ Stripped(session.control) \in Url
  BY <1>1, MadeTypes
<1>4. ASSUME InheritUrl
      PROVE  SdpInv'
  <2>1. c = <<>> /\ base' = base
    BY <1>4 DEF InheritUrl
  <2>2. CASE Fail("aborted")
    BY <2>1, <2>2, FailInv
  <2>3. CASE Resolve(IF isAggregate THEN session.control ELSE RequestUrl)
    <3> DEFINE u == IF isAggregate THEN session.control ELSE RequestUrl
    <3>1. u \in Url
      BY <1>1, UrlTypes
    <3>2. u = Made(resolved + 1)
      BY <1>2, <2>1 DEF Made
    <3>3. Resolve(u)
      BY <2>3
    <3> HIDE DEF u
    <3> QED BY <2>1, <3>1, <3>2, <3>3, MadeInv
  <2> QED BY <1>4, <2>2, <2>3 DEF InheritUrl
<1>5. ASSUME KeepUrl
      PROVE  SdpInv'
  <2>1. IsAbsoluteUrl(c) /\ Resolve(c) /\ base' = base
    BY <1>5 DEF KeepUrl
  <2>2. c = Made(resolved + 1)
    BY <1>2, <2>1 DEF Made, IsAbsoluteUrl
  <2> HIDE DEF c
  <2> QED BY <1>1, <2>1, <2>2, MadeInv
<1>6. ASSUME ResolveUrl
      PROVE  SdpInv'
  <2> DEFINE path == IF c[1] = "/" THEN Tail(c) ELSE c
  <2>1. /\ c # <<>> /\ ~IsAbsoluteUrl(c)
        /\ IF ~isAggregate
              THEN base' = Stripped(base) /\ Resolve(Join(base', path))
              ELSE /\ IF session.control = <<>>
                         THEN Fail("undefined")
                         ELSE Resolve(Join(Stripped(session.control), path))
                   /\ UNCHANGED base
    BY <1>6 DEF ResolveUrl
  <2>2. path = Path(c) /\ path \in Url
    BY <1>1, <2>1, PathType DEF Path
  <2>3. Made(resolved + 1) = Join(Stripped(Above), path)
    BY <1>2, <2>1, <2>2 DEF Made
  <2> HIDE DEF path, c
  <2>4. CASE ~isAggregate
    <3> DEFINE u == Join(Stripped(base), path)
    <3>1. u \in Url /\ u = Made(resolved + 1)
      BY <1>3, <2>2, <2>3, <2>4, MadeTypes DEF Above
    <3>2. Resolve(u) /\ base' = Stripped(base)
      BY <2>1, <2>4
    <3> HIDE DEF u
    <3> QED BY <2>4, <3>1, <3>2, MadeInv
  <2>5. CASE isAggregate /\ session.control = <<>>
    BY <2>1, <2>5, FailInv
  <2>6. CASE isAggregate /\ session.control # <<>>
    <3> DEFINE u == Join(Stripped(session.control), path)
    <3>1. u \in Url /\ u = Made(resolved + 1)
      BY <1>3, <2>2, <2>3, <2>6, MadeTypes DEF Above
    <3>2. Resolve(u) /\ base' = base
      BY <2>1, <2>6
    <3> HIDE DEF u
    <3> QED BY <3>1, <3>2, MadeInv
  <2> QED BY <1>1, <2>4, <2>5, <2>6
<1> QED BY <1>4, <1>5, <1>6 DEF ResolveMedium

\* Every step keeps the invariant.
LEMMA NextSdp == SdpInv /\ [Next]_vars => SdpInv'
<1> SUFFICES ASSUME SdpInv, [Next]_vars PROVE SdpInv'
  OBVIOUS
<1>1. CASE EndOfText
  <2>1. /\ pc = "lines" /\ pc' = "session"
        /\ UNCHANGED <<lines, mediaProcess, session, media, isAggregate, base, resolved>>
    BY <1>1 DEF EndOfText
  <2>2. /\ SectionOf(Len(lines))' = SectionOf(Len(lines))
        /\ \A k : Control(k)' = Control(k)
        /\ \A k, type : Section(k, type)' = Section(k, type)
    BY <2>1, SectionsStay
  <2>3. TypeOK' /\ base' \in Url
    BY <2>1 DEF SdpInv, TypeOK
  <2> QED BY <2>1, <2>2, <2>3 DEF SdpInv, Opened, Parsed, Unresolved, SessionResolved, Resolved
<1>2. CASE EndOfMedia
  <2>1. /\ pc = "media" /\ pc' = "done" /\ resolved = Len(media)
        /\ UNCHANGED <<lines, mediaProcess, session, media, isAggregate, base, resolved>>
    BY <1>2 DEF EndOfMedia
  <2>2. /\ SectionOf(Len(lines))' = SectionOf(Len(lines))
        /\ \A k : Control(k)' = Control(k)
        /\ \A k, type : Section(k, type)' = Section(k, type)
    BY <2>1, SectionsStay
  <2>3. TypeOK' /\ base' \in Url
    BY <2>1 DEF SdpInv, TypeOK
  <2>4. \A k : Made(k)' = Made(k)
    BY <2>1, <2>2 DEF Made, Above
  <2> QED BY <2>1, <2>2, <2>3, <2>4 DEF SdpInv, Opened, Parsed, Unresolved, SessionResolved, Resolved, Stale
<1>3. CASE Stopped \/ UNCHANGED vars
  <2>1. UNCHANGED vars
    BY <1>3 DEF Stopped
  <2>2. UNCHANGED <<lines, mediaProcess, session, media, isAggregate, base, resolved, pc>>
    BY <2>1 DEF vars
  <2>3. /\ SectionOf(Len(lines))' = SectionOf(Len(lines))
        /\ \A k : Control(k)' = Control(k)
        /\ \A k, type : Section(k, type)' = Section(k, type)
    BY <2>2, SectionsStay
  <2>4. TypeOK' /\ base' \in Url
    BY <2>2 DEF SdpInv, TypeOK
  <2>5. \A k : Made(k)' = Made(k)
    BY <2>2, <2>3 DEF Made, Above
  <2> QED BY <2>2, <2>3, <2>4, <2>5 DEF SdpInv, Opened, Parsed, Unresolved, SessionResolved, Resolved, Stale
<1> QED BY <1>1, <1>2, <1>3, ReadInv, SessionInv, MediumInv DEF Next

\* The invariant holds from the first line to the last URL.
LEMMA SdpInvariant == Spec => []SdpInv
  BY InitSdp, NextSdp, PTL DEF Spec

-----------------------------------------------------------------------------
(* The theorems.                                                           *)

\* The variables of the parser and of processSdp keep their types, and the
\* base URL stays in order.
THEOREM TypeCorrect == Spec => []TypeOK
<1>1. SdpInv => TypeOK
  BY DEF SdpInv
<1> QED BY <1>1, SdpInvariant, PTL

\* Whatever the order and the number of lines: what stands in a section, and
\* nothing else, is found in its description.
THEOREM SectionsAlwaysKept == Spec => []SectionsKept
<1>1. SdpInv => SectionsKept
  <2> SUFFICES ASSUME SdpInv, pc = "session"
               PROVE  /\ session = [control |-> Control(0), attrs |-> Section(0, "attribute")]
                      /\ media = [k \in 1..mediaProcess |->
                                    [name |-> Section(k, "media")[1], control |-> Control(k),
                                     attrs |-> Section(k, "attribute")]]
    BY DEF SectionsKept
  <2> DEFINE Medium == [name : Names, control : Url, attrs : Seq(Attributes)]
             Descr == [control : Url, attrs : Seq(Attributes)]
  <2>1. /\ session \in Descr /\ media \in Seq(Medium) /\ mediaProcess = Len(media)
    BY DEF SdpInv, TypeOK
  <2>2. session.control = Control(0) /\ session.attrs = Section(0, "attribute") /\ resolved = 0
    BY DEF SdpInv, Parsed, Unresolved
  <2>3. session = [control |-> session.control, attrs |-> session.attrs]
    BY <2>1
  <2> HIDE DEF Medium, Descr
  <2>4. DOMAIN media = 1..mediaProcess /\ media = [k \in 1..mediaProcess |-> media[k]]
    BY <2>1
  <2>5. ASSUME NEW k \in 1..mediaProcess
        PROVE  media[k] = [name |-> Section(k, "media")[1], control |-> Control(k),
                           attrs |-> Section(k, "attribute")]
    <3>1. media[k] \in Medium
      BY <2>1, <2>4, ElementOfSeq
    <3>2. k > 0 /\ k \in DOMAIN media
      BY <2>4
    <3>3. /\ media[k].name = Section(k, "media")[1] /\ media[k].control = Control(k)
          /\ media[k].attrs = Section(k, "attribute")
      BY <2>2, <3>2 DEF SdpInv, Parsed, Unresolved
    <3>4. media[k] = [name |-> media[k].name, control |-> media[k].control, attrs |-> media[k].attrs]
      BY <3>1 DEF Medium
    <3> QED BY <3>3, <3>4
  <2> QED BY <2>2, <2>3, <2>4, <2>5
<1> QED BY <1>1, SdpInvariant, PTL

\* In the end every medium has the URL its control URL stands for.
LEMMA AllMade ==
    ASSUME SdpInv, pc = "done", ~Stale, NEW k \in DOMAIN media
    PROVE  /\ media[k].control = Made(k)
           /\ Control(k) \in Url /\ Above \in Url /\ IsAbsoluteUrl(Above)
           /\ NoEmptySegment(Control(0)) => WellFormed(Above)
           /\ isAggregate => Above = session.control
<1>1. /\ resolved = Len(media) /\ media \in Seq([name : Names, control : Url, attrs : Seq(Attributes)])
      /\ lines \in Seq(Line) /\ session.control \in Url /\ base \in Url /\ WellFormed(base)
      /\ isAggregate \in BOOLEAN
  BY DEF SdpInv, TypeOK, Unresolved
<1>2. k \in 1..resolved
  BY <1>1
<1>3. media[k].control = Made(k)
  BY <1>2 DEF SdpInv, Resolved
<1>4. /\ isAggregate => IsAbsoluteUrl(session.control)
      /\ isAggregate /\ NoEmptySegment(Control(0)) => WellFormed(session.control)
  BY DEF SdpInv, SessionResolved
<1> QED BY <1>1, <1>3, <1>4, ControlType DEF Above, WellFormed

\* Whatever the control URLs are: unless isAggregate_ is left over, every
\* medium gets an absolute URL, made of its own control URL and of the one
\* above it, and no slash is doubled that the description does not double.
THEOREM UrlsAlwaysResolved == Spec => []UrlsResolved
<1>1. SdpInv => UrlsResolved
  <2> SUFFICES ASSUME SdpInv, pc = "done", ~Stale, NEW k \in DOMAIN media
               PROVE  /\ IsAbsoluteUrl(media[k].control)
                      /\ NoEmptySegment(Control(0)) /\ NoEmptySegment(Path(Control(k)))
                            => WellFormed(media[k].control)
                      /\ IsAbsoluteUrl(Control(k)) => media[k].control = Control(k)
                      /\ ~IsAbsoluteUrl(Control(k)) /\ Control(k) # <<>> =>
                            IsPrefix(Above, media[k].control) /\ IsSuffix(Path(Control(k)), media[k].control)
    BY DEF UrlsResolved
  <2>1. /\ media[k].control = Made(k)
        /\ Control(k) \in Url /\ Above \in Url /\ IsAbsoluteUrl(Above)
        /\ NoEmptySegment(Control(0)) => WellFormed(Above)
        /\ isAggregate => Above = session.control
    BY AllMade
  <2> DEFINE c == Control(k)
             url == media[k].control
  <2>2. CASE c = <<>>
    <3>1. url = IF isAggregate THEN Above ELSE RequestUrl
      BY <2>1, <2>2 DEF Made
    <3>2. WellFormed(RequestUrl)
      BY SdpAssumption
    <3>3. IsAbsoluteUrl(url) /\ (NoEmptySegment(Control(0)) => WellFormed(url))
      BY <2>1, <3>1, <3>2 DEF WellFormed
    <3>4. ~IsAbsoluteUrl(c)
      BY <2>2 DEF IsAbsoluteUrl
    <3> QED BY <2>2, <3>3, <3>4
  <2>3. CASE IsAbsoluteUrl(c)
    <3>1. c # <<>> /\ url = c
      BY <2>1, <2>3 DEF Made, IsAbsoluteUrl
    <3>2. Path(c) = c
      BY <2>3, SdpAssumption DEF Path, IsAbsoluteUrl
    <3> QED BY <2>3, <3>1, <3>2 DEF WellFormed
  <2>4. CASE c # <<>> /\ ~IsAbsoluteUrl(c)
    <3> DEFINE u == Stripped(Above)
    <3>1. url = Join(u, Path(c)) /\ Path(c) \in Url
      BY <2>1, <2>4, PathType DEF Made
    <3>2. /\ u \in Url /\ IsAbsoluteUrl(u) /\ (Above = u \/ Above = Append(u, "/"))
          /\ NoEmptySegment(Control(0)) => WellFormed(u) /\ Len(u) % 2 = 1
      BY <2>1, StrippedFacts
    <3> HIDE DEF u, c, url
    <3>3. /\ IsAbsoluteUrl(url) /\ IsPrefix(u, url) /\ IsPrefix(Append(u, "/"), url) /\ IsSuffix(Path(c), url)
          /\ WellFormed(u) /\ Len(u) % 2 = 1 /\ NoEmptySegment(Path(c)) => WellFormed(url)
      BY <3>1, <3>2, JoinFacts
    <3>4. IsPrefix(Above, url)
      BY <3>2, <3>3
    <3>5. NoEmptySegment(Control(0)) /\ NoEmptySegment(Path(c)) => WellFormed(url)
      BY <3>2, <3>3
    <3> QED BY <2>4, <3>3, <3>4, <3>5 DEF c, url
  <2> QED BY <2>2, <2>3, <2>4
<1> QED BY <1>1, SdpInvariant, PTL

\* Media with different relative control URLs never get the same URL.
THEOREM MediaAlwaysToldApart == Spec => []MediaToldApart
<1>1. SdpInv => MediaToldApart
  <2> SUFFICES ASSUME SdpInv, pc = "done", ~Stale, NEW j \in DOMAIN media, NEW k \in DOMAIN media,
                      Control(j) # <<>>, ~IsAbsoluteUrl(Control(j)),
                      Control(k) # <<>>, ~IsAbsoluteUrl(Control(k)),
                      media[j].control = media[k].control
               PROVE  Path(Control(j)) = Path(Control(k))
    BY DEF MediaToldApart
  <2>1. /\ media[j].control = Made(j) /\ media[k].control = Made(k)
        /\ Control(j) \in Url /\ Control(k) \in Url /\ Above \in Url
    BY AllMade
  <2>2. Made(j) = Join(Stripped(Above), Path(Control(j))) /\ Made(k) = Join(Stripped(Above), Path(Control(k)))
    BY DEF Made
  <2>3. Path(Control(j)) \in Url /\ Path(Control(k)) \in Url /\ Stripped(Above) \in Url
    BY <2>1, PathType, MadeTypes
  <2>4. Join(Stripped(Above), Path(Control(j))) = Join(Stripped(Above), Path(Control(k)))
    BY <2>1, <2>2
  <2> HIDE DEF Made
  <2> QED BY <2>3, <2>4, JoinOne
<1> QED BY <1>1, SdpInvariant, PTL
=============================================================================
