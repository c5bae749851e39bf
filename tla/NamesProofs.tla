---------------------------- MODULE NamesProofs -----------------------------
(***************************************************************************)
(* Proofs about Names, for every file, every length of an entry and every  *)
(* peek.  The loops of the code are all the same function, Past; what it   *)
(* answers is proved once, by the least position it has not passed.        *)
(***************************************************************************)
EXTENDS Names, SequenceTheorems, WellFoundedInduction, NaturalsInduction, TLAPS

---------------------------------------------------------------------------
\* Loops.

\* Every set of natural numbers that is not empty has a least element.
LEMMA LeastNatural ==
  ASSUME NEW T \in SUBSET Nat, T # {}
  PROVE  \E x \in T : \A y \in T : x <= y
<1> DEFINE R == {ss \in Nat \X Nat : ss[1] < ss[2]}
<1>1. IsWellFoundedOn(R, Nat)
  BY NatLessThanWellFounded DEF OpToRel
<1>2. PICK x \in T : \A y \in T : ~ (<<y, x>> \in R)
  <2>. HIDE DEF R
  <2>. QED BY <1>1, WFMin
<1>3. \A y \in T : <<y, x>> \in R <=> y < x
  OBVIOUS
<1>. HIDE DEF R
<1>4. \A y \in T : ~(y < x)
  BY <1>2, <1>3
<1>. QED BY <1>4

\* r is the first position from i on that the loop does not pass.
Halts(S, i, last, r) ==
  /\ r \in i..(last + 1)
  /\ \A j \in i..(r - 1) : j \in S
  /\ r <= last => r \notin S

\* Every loop over an interval ends, wherever it starts.
LEMMA LoopHalts ==
  ASSUME NEW S, NEW last \in Int, NEW i \in Nat, i <= last + 1
  PROVE  \E r \in Nat : Halts(S, i, last, r)
<1> DEFINE T == {r \in i..(last + 1) : r <= last => r \notin S}
<1>1. T \in SUBSET Nat /\ last + 1 \in T
  OBVIOUS
<1>2. PICK r \in T : \A q \in T : r <= q
  <2>. HIDE DEF T
  <2>. QED BY <1>1, LeastNatural
<1>3. \A j \in i..(r - 1) : j \in i..(last + 1) /\ j \notin T
  BY <1>2
<1>. QED BY <1>2, <1>3 DEF Halts

\* It ends in one place only.
LEMMA HaltsOnce ==
  ASSUME NEW S, NEW last \in Int, NEW i \in Nat, i <= last + 1,
         NEW r, NEW q, Halts(S, i, last, r), Halts(S, i, last, q)
  PROVE  r = q
BY DEF Halts

\* The function Past is there: it answers where the loop halts.
LEMMA PastHalts ==
  ASSUME NEW S, NEW first \in Nat, NEW last \in Int, first <= last + 1
  PROVE  Halts(S, first, last, Past(S, first, last))
<1> DEFINE D == first..(last + 1)
           halt == [i \in D |-> CHOOSE r \in Nat : Halts(S, i, last, r)]
           Step(g) == [i \in D |-> IF i <= last /\ i \in S THEN g[i + 1] ELSE i]
           go == CHOOSE g : g = Step(g)
<1>1. \A i \in D : halt[i] \in Nat /\ Halts(S, i, last, halt[i])
  BY LoopHalts
<1>a. halt = [i \in D |-> halt[i]]
  OBVIOUS
<1>. HIDE DEF halt
<1>2. ASSUME NEW i \in D
      PROVE  halt[i] = IF i <= last /\ i \in S THEN halt[i + 1] ELSE i
  <2>1. CASE i <= last /\ i \in S
    <3>1. i + 1 \in D /\ i + 1 \in Nat
      BY <2>1
    <3>2. Halts(S, i, last, halt[i + 1])
      BY <2>1, <3>1, <1>1 DEF Halts
    <3>. QED BY <2>1, <3>2, <1>1, HaltsOnce
  <2>2. CASE ~(i <= last /\ i \in S)
    <3>1. Halts(S, i, last, i)
      BY <2>2 DEF Halts
    <3>. QED BY <2>2, <3>1, <1>1, HaltsOnce
  <2>. QED BY <2>1, <2>2
<1>3. halt = Step(halt)
  <2>1. Step(halt) = [i \in D |-> halt[i]]
    BY <1>2
  <2>. QED BY <2>1, <1>a
<1>4. go = Step(go)
  BY <1>3, Zenon
<1>5. Past(S, first, last) = go[first]
  BY Zenon DEF Past
<1>. HIDE DEF go
<1>6. \A i \in D : go[i] = IF i <= last /\ i \in S THEN go[i + 1] ELSE i
  BY <1>4
<1>7. \A i \in D : go[i] = halt[i]
  <2> DEFINE T == {k \in Nat : last + 1 - k \in D /\ go[last + 1 - k] # halt[last + 1 - k]}
  <2>1. CASE T = {}
    <3>1. \A i \in D : last + 1 - i \in Nat /\ last + 1 - (last + 1 - i) = i
      OBVIOUS
    <3>. QED BY <2>1, <3>1
  <2>2. CASE T # {}
    <3>1. PICK k \in T : \A l \in T : k <= l
      <4>1. T \in SUBSET Nat
        OBVIOUS
      <4>. HIDE DEF T
      <4>. QED BY <2>2, <4>1, LeastNatural
    <3> DEFINE i == last + 1 - k
    <3>2. i \in D /\ go[i] # halt[i] /\ k \in Nat
      OBVIOUS
    <3>3. i <= last /\ i \in S
      BY <3>2, <1>2, <1>6
    <3>4. k - 1 \in Nat /\ last + 1 - (k - 1) = i + 1 /\ i + 1 \in D
      BY <3>2, <3>3
    <3>5. k - 1 \notin T
      BY <3>1, <3>4
    <3>6. go[i + 1] = halt[i + 1]
      BY <3>4, <3>5
    <3>. QED BY <3>2, <3>3, <3>6, <1>2, <1>6
  <2>. QED BY <2>1, <2>2
<1>8. first \in D
  OBVIOUS
<1>. QED BY <1>1, <1>5, <1>7, <1>8

LEMMA PastIs ==
  ASSUME NEW S, NEW first \in Nat, NEW last \in Int, first <= last + 1,
         NEW r, Halts(S, first, last, r)
  PROVE  Past(S, first, last) = r
BY PastHalts, HaltsOnce

---------------------------------------------------------------------------
\* The header.

LEMMA SkipBomIs ==
  ASSUME NEW buf, Len(buf) \in Nat
  PROVE  SkipBom(buf) \in {1, 4} /\ SkipBom(buf) <= Len(buf) + 1
BY DEF SkipBom

LEMMA NameStartIs ==
  ASSUME NEW buf, Len(buf) \in Nat
  PROVE  /\ NameStart(buf) \in SkipBom(buf)..(Len(buf) + 1)
         /\ \A i \in SkipBom(buf)..(NameStart(buf) - 1) : IsBlank(buf[i]) \/ IsEol(buf[i])
         /\ NameStart(buf) <= Len(buf) =>
              ~IsBlank(buf[NameStart(buf)]) /\ ~IsEol(buf[NameStart(buf)])
<1> DEFINE S == {i \in 1..Len(buf) : IsBlank(buf[i]) \/ IsEol(buf[i])}
<1>1. SkipBom(buf) \in Nat \ {0} /\ SkipBom(buf) <= Len(buf) + 1
  BY SkipBomIs
<1>2. Halts(S, SkipBom(buf), Len(buf), NameStart(buf))
  <2>. HIDE DEF S
  <2>1. Halts(S, SkipBom(buf), Len(buf), Past(S, SkipBom(buf), Len(buf)))
    BY <1>1, PastHalts
  <2>. QED BY <2>1 DEF NameStart, S
<1>. QED BY <1>1, <1>2 DEF Halts

\* Neither a colon nor the end of a line from i to before c.
NameBytes(buf, i, c) == \A j \in i..(c - 1) : ~IsColon(buf[j]) /\ ~IsEol(buf[j])

LEMMA NameColonIs ==
  ASSUME NEW buf, Len(buf) \in Nat
  PROVE  /\ NameColon(buf) # 0 =>
              /\ NameColon(buf) \in NameStart(buf)..Len(buf) /\ IsColon(buf[NameColon(buf)])
              /\ NameBytes(buf, NameStart(buf), NameColon(buf))
         /\ \A c \in NameStart(buf)..Len(buf) :
              IsColon(buf[c]) /\ NameBytes(buf, NameStart(buf), c) => NameColon(buf) = c
<1> DEFINE S == {i \in 1..Len(buf) : ~IsColon(buf[i]) /\ ~IsEol(buf[i])}
           start == NameStart(buf)
           stop == Past(S, start, Len(buf))
<1>1. start \in Nat \ {0} /\ start <= Len(buf) + 1
  BY NameStartIs, SkipBomIs
<1>2. Halts(S, start, Len(buf), stop)
  <2>. HIDE DEF S, start
  <2>. QED BY <1>1, PastHalts
<1>3. NameColon(buf) = IF stop <= Len(buf) /\ IsColon(buf[stop]) THEN stop ELSE 0
  BY DEF NameColon
<1>4. stop \in start..(Len(buf) + 1) /\ NameBytes(buf, start, stop)
  <2>. HIDE DEF start, stop
  <2>. QED BY <1>1, <1>2 DEF Halts, NameBytes
<1>5. ASSUME NEW c \in start..Len(buf), IsColon(buf[c]), NameBytes(buf, start, c)
      PROVE  NameColon(buf) = c
  <2>1. Halts(S, start, Len(buf), c)
    <3>. HIDE DEF start, stop
    <3>. QED BY <1>1, <1>5 DEF Halts, NameBytes
  <2>2. stop = c
    <3>. HIDE DEF S, start
    <3>. QED BY <2>1, <1>1, PastIs
  <2>. QED BY <1>3, <1>5, <2>2
<1>. HIDE DEF stop
<1>. QED BY <1>1, <1>3, <1>4, <1>5

LEMMA NameEndIs ==
  ASSUME NEW buf, Len(buf) \in Nat, NameColon(buf) # 0
  PROVE  /\ NameEnd(buf) \in (NameStart(buf) - 1)..(NameColon(buf) - 1)
         /\ \A i \in (NameEnd(buf) + 1)..(NameColon(buf) - 1) : IsBlank(buf[i])
         /\ NameEnd(buf) >= NameStart(buf) => ~IsBlank(buf[NameEnd(buf)])
<1> DEFINE colon == NameColon(buf)
           start == NameStart(buf)
           length == colon - start
           S == {k \in 1..length : IsBlank(buf[colon - k])}
           stop == Past(S, 1, length)
<1>1. start \in Nat \ {0} /\ colon \in start..Len(buf)
  BY NameStartIs, SkipBomIs, NameColonIs
<1>2. length \in Nat
  BY <1>1
<1>3. Halts(S, 1, length, stop)
  <2>. HIDE DEF S, length
  <2>. QED BY <1>2, PastHalts
<1>4. NameEnd(buf) = colon - stop
  BY DEF NameEnd
<1>. HIDE DEF stop, colon, start
<1>5. stop \in 1..(length + 1)
  BY <1>3 DEF Halts
<1>6. ASSUME NEW i \in (colon - stop + 1)..(colon - 1) PROVE IsBlank(buf[i])
  <2>1. colon - i \in 1..(stop - 1) /\ colon - (colon - i) = i
    BY <1>1, <1>5
  <2>2. colon - i \in S
    BY <1>3, <2>1 DEF Halts
  <2>. QED BY <2>1, <2>2
<1>7. stop <= length => ~IsBlank(buf[colon - stop])
  BY <1>3, <1>5 DEF Halts
<1>. QED BY <1>1, <1>4, <1>5, <1>6, <1>7 DEF colon, start

\* What header_name answers is a header.
LEMMA FoundIsASplit ==
  ASSUME NEW buf, Len(buf) \in Nat, NameColon(buf) # 0
  PROVE  <<NameStart(buf), NameEnd(buf), NameColon(buf)>> \in Splits(buf)
<1> DEFINE first == NameStart(buf)
           last == NameEnd(buf)
           colon == NameColon(buf)
<1>1. /\ first \in SkipBom(buf)..(Len(buf) + 1) /\ SkipBom(buf) \in {1, 4}
      /\ \A i \in SkipBom(buf)..(first - 1) : IsBlank(buf[i]) \/ IsEol(buf[i])
      /\ first <= Len(buf) => ~IsBlank(buf[first])
  BY NameStartIs, SkipBomIs
<1>2. /\ colon \in first..Len(buf) /\ IsColon(buf[colon])
      /\ \A i \in first..(colon - 1) : ~IsColon(buf[i]) /\ ~IsEol(buf[i])
  BY NameColonIs DEF NameBytes
<1>3. /\ last \in (first - 1)..(colon - 1)
      /\ \A i \in (last + 1)..(colon - 1) : IsBlank(buf[i])
      /\ last >= first => ~IsBlank(buf[last])
  BY NameEndIs
<1>. HIDE DEF first, last, colon
<1>4. IsHeader(buf, first, last, colon)
  BY <1>1, <1>2, <1>3 DEF IsHeader
<1>5. first \in SkipBom(buf)..(Len(buf) + 1) /\ last \in 0..Len(buf) /\ colon \in 1..Len(buf)
  BY <1>1, <1>2, <1>3
<1>6. <<first, last, colon>> \in Splits(buf)
  BY <1>1, <1>2, <1>3, <1>4, <1>5 DEF Splits
<1>. QED BY <1>6 DEF first, last, colon

\* There is one way to read a header at most, but for an empty name, which may
\* be anywhere between the blanks.
LEMMA SplitIsFound ==
  ASSUME NEW buf, Len(buf) \in Nat, NEW s \in Splits(buf)
  PROVE  /\ NameColon(buf) = s[3]
         /\ SubSeq(buf, NameStart(buf), NameEnd(buf)) = SubSeq(buf, s[1], s[2])
<1> DEFINE f == s[1]
           l == s[2]
           c == s[3]
<1>1. /\ f \in SkipBom(buf)..(Len(buf) + 1) /\ l \in 0..Len(buf) /\ c \in 1..Len(buf)
      /\ f - 1 <= l /\ l < c /\ IsHeader(buf, f, l, c)
  BY DEF Splits
<1>2. /\ NameStart(buf) \in SkipBom(buf)..(Len(buf) + 1) /\ SkipBom(buf) \in {1, 4}
      /\ \A i \in SkipBom(buf)..(NameStart(buf) - 1) : IsBlank(buf[i]) \/ IsEol(buf[i])
      /\ NameStart(buf) <= Len(buf) =>
           ~IsBlank(buf[NameStart(buf)]) /\ ~IsEol(buf[NameStart(buf)])
  BY NameStartIs, SkipBomIs
<1>. HIDE DEF f, l, c
<1>3. ~IsBlank(buf[c]) /\ ~IsEol(buf[c])
  BY <1>1 DEF IsHeader, IsColon, IsBlank, IsEol
<1>4. CASE f <= l
  <2>1. ~IsBlank(buf[f]) /\ ~IsEol(buf[f])
    BY <1>1, <1>4 DEF IsHeader
  <2>2. NameStart(buf) = f
    <3>1. ~(NameStart(buf) < f)
      BY <1>1, <1>2 DEF IsHeader
    <3>2. ~(f < NameStart(buf))
      BY <1>1, <1>2, <2>1
    <3>. QED BY <3>1, <3>2, <1>1, <1>2
  <2>3. NameBytes(buf, f, c)
    BY <1>1 DEF NameBytes, IsHeader, IsBlank, IsColon, IsEol
  <2>4. NameColon(buf) = c
    BY <1>1, <1>4, <2>2, <2>3, NameColonIs DEF IsHeader
  <2>5. NameEnd(buf) = l
    <3>1. /\ NameEnd(buf) \in (f - 1)..(c - 1)
          /\ \A i \in (NameEnd(buf) + 1)..(c - 1) : IsBlank(buf[i])
          /\ NameEnd(buf) >= f => ~IsBlank(buf[NameEnd(buf)])
      BY <1>1, <2>2, <2>4, NameEndIs
    <3>2. ~IsBlank(buf[l]) /\ \A i \in (l + 1)..(c - 1) : IsBlank(buf[i])
      BY <1>1, <1>4 DEF IsHeader
    <3>. QED BY <1>1, <1>2, <1>4, <3>1, <3>2
  <2>. QED BY <2>2, <2>4, <2>5 DEF f, l, c
<1>5. CASE f > l
  <2>1. l = f - 1 /\ f <= c
    BY <1>1, <1>2, <1>5
  <2>2. \A i \in SkipBom(buf)..(c - 1) : IsBlank(buf[i]) \/ IsEol(buf[i])
    BY <1>1, <1>2, <2>1 DEF IsHeader
  <2>3. NameStart(buf) = c
    <3>1. ~(NameStart(buf) < c)
      BY <1>1, <1>2, <2>2
    <3>2. ~(c < NameStart(buf))
      BY <1>1, <1>2, <1>3, <2>1
    <3>. QED BY <3>1, <3>2, <1>1, <1>2
  <2>4. NameColon(buf) = c
    BY <1>1, <1>2, <2>3, NameColonIs DEF IsHeader, NameBytes
  <2>5. NameEnd(buf) = c - 1
    BY <1>1, <2>3, <2>4, NameEndIs
  <2>6. SubSeq(buf, c, c - 1) = <<>> /\ SubSeq(buf, f, l) = <<>>
    BY <1>1, <1>2, <2>1, SubSeqEmpty
  <2>. QED BY <2>3, <2>4, <2>5, <2>6 DEF f, l, c
<1>6. f <= l \/ f > l
  BY <1>1, <1>2
<1>. QED BY <1>4, <1>5, <1>6 DEF f, l, c

LEMMA HeaderNameIs ==
  ASSUME NEW buf, Len(buf) \in Nat
  PROVE  /\ HeaderName(buf).found <=> Splits(buf) # {}
         /\ \A s \in Splits(buf) : HeaderName(buf).name = SubSeq(buf, s[1], s[2])
<1>1. CASE NameColon(buf) = 0
  <2>1. Splits(buf) = {}
    <3>1. ASSUME NEW s \in Splits(buf) PROVE s[3] \in Nat \ {0}
      BY DEF Splits
    <3>. QED BY <1>1, <3>1, SplitIsFound
  <2>. QED BY <1>1, <2>1 DEF HeaderName
<1>2. CASE NameColon(buf) # 0
  BY <1>2, FoundIsASplit, SplitIsFound DEF HeaderName
<1>. QED BY <1>1, <1>2

\* A name of a header is a piece of the file.
LEMMA HeaderNameType ==
  ASSUME NEW S, NEW buf \in Seq(S)
  PROVE  HeaderName(buf) \in [found : BOOLEAN, name : Seq(S)]
<1>1. CASE NameColon(buf) = 0
  <2>1. <<>> \in Seq(S)
    OBVIOUS
  <2>. QED BY <1>1, <2>1 DEF HeaderName
<1>2. CASE NameColon(buf) # 0
  <2>1. Len(buf) \in Nat /\ DOMAIN buf = 1..Len(buf) /\ \A i \in 1..Len(buf) : buf[i] \in S
    BY LenProperties, ElementOfSeq
  <2>2. NameStart(buf) \in Nat \ {0} /\ NameEnd(buf) \in Int /\ NameEnd(buf) < Len(buf)
    BY <1>2, <2>1, NameStartIs, SkipBomIs, NameColonIs, NameEndIs
  <2>3. SubSeq(buf, NameStart(buf), NameEnd(buf)) \in Seq(S)
    BY <2>1, <2>2, SubSeqProperties
  <2>. QED BY <1>2, <2>3 DEF HeaderName
<1>. QED BY <1>1, <1>2

---------------------------------------------------------------------------
\* The cut of a name.

LEMMA BoundaryIs ==
  ASSUME NEW src, NEW cut \in Nat
  PROVE  /\ Boundary(src, cut) \in 0..cut /\ cut - Boundary(src, cut) <= 3
         /\ \A i \in (Boundary(src, cut) + 2)..(cut + 1) : IsContinuation(src[i])
         /\ Boundary(src, cut) > 0 /\ cut - Boundary(src, cut) < 3 =>
              ~IsContinuation(src[Boundary(src, cut) + 1])
<1> DEFINE S == {k \in 0..(cut - 1) : IsContinuation(src[cut - k + 1])}
           last == Smaller(Utf8ContMax, cut) - 1
           back == Past(S, 0, last)
<1>1. last \in Int /\ last <= 2 /\ last < cut /\ last >= -1 /\ (last # 2 => last = cut - 1)
  BY DEF Smaller, Utf8ContMax
<1>2. Halts(S, 0, last, back)
  <2>. HIDE DEF S, last
  <2>. QED BY <1>1, PastHalts
<1>3. Boundary(src, cut) = cut - back
  BY DEF Boundary
<1>. HIDE DEF last, back
<1>4. back \in 0..(last + 1)
  BY <1>1, <1>2 DEF Halts
<1>5. ASSUME NEW i \in (cut - back + 2)..(cut + 1) PROVE IsContinuation(src[i])
  <2>1. cut + 1 - i \in 0..(back - 1) /\ cut - (cut + 1 - i) + 1 = i
    BY <1>1, <1>4
  <2>2. cut + 1 - i \in S
    BY <1>2, <2>1 DEF Halts
  <2>. QED BY <2>1, <2>2
<1>6. ASSUME back < cut, back < 3 PROVE ~IsContinuation(src[cut - back + 1])
  <2>1. back <= last /\ back \in 0..(cut - 1)
    BY <1>1, <1>4, <1>6
  <2>. QED BY <1>2, <2>1 DEF Halts
<1>. QED BY <1>1, <1>3, <1>4, <1>5, <1>6

LEMMA WidthIs ==
  ASSUME NEW byte
  PROVE  Width(byte) \in 1..4 /\ (IsContinuation(byte) => Width(byte) = 1)
BY DEF Width, IsContinuation

\* The byte after the cut of a text begins a character, wherever the search for
\* it has stopped.
LEMMA CharacterAfterCut ==
  ASSUME NEW src, Len(src) \in Nat, IsUtf8(src), NEW cut \in Nat, cut < Len(src)
  PROVE  ~IsContinuation(src[Boundary(src, cut) + 1])
<1> DEFINE b == Boundary(src, cut)
<1>1. /\ b \in 0..cut /\ cut - b <= 3
      /\ \A i \in (b + 2)..(cut + 1) : IsContinuation(src[i])
      /\ b > 0 /\ cut - b < 3 => ~IsContinuation(src[b + 1])
  BY BoundaryIs
<1>. HIDE DEF b
<1>2. CASE b = 0
  BY <1>1, <1>2 DEF b, IsUtf8
<1>3. CASE cut - b = 3
  <2>1. cut + 1 \in 1..Len(src) /\ IsContinuation(src[cut + 1])
    BY <1>1, <1>3
  <2>2. PICK k \in 1..3 : k < cut + 1 /\ Width(src[cut + 1 - k]) > k
    BY <2>1 DEF IsUtf8
  <2>3. k = 3
    <3>1. ASSUME k \in 1..2 PROVE FALSE
      <4>1. cut + 1 - k \in (b + 2)..(cut + 1)
        BY <1>1, <1>3, <3>1
      <4>2. Width(src[cut + 1 - k]) = 1
        BY <1>1, <4>1, WidthIs
      <4>. QED BY <2>2, <4>2
    <3>. QED BY <3>1, <2>2
  <2>4. cut + 1 - k = b + 1
    BY <1>1, <1>3, <2>3
  <2>5. Width(src[b + 1]) > 1
    BY <2>2, <2>3, <2>4, WidthIs
  <2>. QED BY <2>5, WidthIs DEF b
<1>. QED BY <1>1, <1>2, <1>3 DEF b

\* What is left of a text is a text.
LEMMA CutIsUtf8 ==
  ASSUME NEW S, NEW src \in Seq(S), IsUtf8(src), NEW b \in 0..(Len(src) - 1),
         ~IsContinuation(src[b + 1])
  PROVE  IsUtf8(SubSeq(src, 1, b))
<1> DEFINE cut == SubSeq(src, 1, b)
<1>1. Len(src) \in Nat /\ \A i \in 1..Len(src) : src[i] \in S
  BY LenProperties, ElementOfSeq
<1>2. b \in Nat /\ \A i \in 1..b : src[i] \in S
  BY <1>1
<1>3. Len(cut) = b /\ \A i \in 1..b : cut[i] = src[i]
  BY <1>2, SubSeqProperties
<1>. HIDE DEF cut
<1>4. ASSUME NEW i \in 1..b, IsContinuation(cut[i])
      PROVE  \E k \in 1..3 : k < i /\ Width(cut[i - k]) > k
  <2>1. i \in 1..Len(src) /\ IsContinuation(src[i])
    BY <1>1, <1>3, <1>4
  <2>2. PICK k \in 1..3 : k < i /\ Width(src[i - k]) > k
    BY <2>1 DEF IsUtf8
  <2>3. i - k \in 1..b
    BY <2>2
  <2>. QED BY <1>3, <2>2, <2>3
<1>5. ASSUME NEW i \in 1..b, ~IsContinuation(cut[i])
      PROVE  /\ i + Width(cut[i]) - 1 <= b
             /\ \A j \in (i + 1)..(i + Width(cut[i]) - 1) : IsContinuation(cut[j])
  <2> DEFINE w == Width(cut[i])
  <2>1. i \in 1..Len(src) /\ ~IsContinuation(src[i]) /\ w = Width(src[i]) /\ w \in 1..4
    BY <1>1, <1>3, <1>5, WidthIs
  <2>. HIDE DEF w
  <2>2. \A j \in (i + 1)..(i + w - 1) : IsContinuation(src[j])
    BY <2>1 DEF IsUtf8
  <2>3. i + w - 1 <= b
    <3>1. b + 1 \notin (i + 1)..(i + w - 1)
      BY <2>2
    <3>. QED BY <3>1, <2>1, <1>1
  <2>4. \A j \in (i + 1)..(i + w - 1) : j \in 1..b
    BY <2>1, <2>3
  <2>. QED BY <1>3, <2>2, <2>3, <2>4 DEF w
<1>6. IsUtf8(cut)
  BY <1>3, <1>4, <1>5 DEF IsUtf8
<1>. QED BY <1>6 DEF cut

\* A later cut would not be one: it would be inside the character that begins
\* after b.
LEMMA LaterCutIsNot ==
  ASSUME NEW S, NEW src \in Seq(S), IsUtf8(src),
         NEW b \in Nat, NEW n \in (b + 1)..(Len(src) - 1),
         ~IsContinuation(src[b + 1]),
         \A i \in (b + 2)..(n + 1) : IsContinuation(src[i])
  PROVE  ~IsUtf8(SubSeq(src, 1, n))
<1> DEFINE cut == SubSeq(src, 1, n)
<1>1. Len(src) \in Nat /\ \A i \in 1..Len(src) : src[i] \in S
  BY LenProperties, ElementOfSeq
<1>2. n \in Nat /\ \A i \in 1..n : src[i] \in S
  BY <1>1
<1>3. Len(cut) = n /\ \A i \in 1..n : cut[i] = src[i]
  BY <1>2, SubSeqProperties
<1>. HIDE DEF cut
<1>4. PICK k \in 1..3 : k < n + 1 /\ Width(src[n + 1 - k]) > k
  <2>1. n + 1 \in 1..Len(src) /\ IsContinuation(src[n + 1])
    BY <1>1, <1>2
  <2>. QED BY <2>1 DEF IsUtf8
<1> DEFINE i == n + 1 - k
           w == Width(src[i])
<1>5. i \in 1..n /\ w \in 1..4 /\ w > k
  BY <1>2, <1>4, WidthIs
<1>6. ~IsContinuation(src[i])
  BY <1>4, <1>5, WidthIs
<1>7. i <= b + 1
  BY <1>2, <1>5, <1>6
<1>. HIDE DEF w
<1>8. CASE i = b + 1
  <2>1. ASSUME IsUtf8(cut) PROVE i + w - 1 <= n
    BY <1>3, <1>5, <1>6, <2>1 DEF IsUtf8, w
  <2>2. i + w - 1 > n
    BY <1>2, <1>5
  <2>. QED BY <2>1, <2>2, <1>2, <1>5 DEF cut
<1>9. CASE i < b + 1
  <2>1. b + 1 \in (i + 1)..(i + w - 1)
    BY <1>2, <1>5, <1>9
  <2>2. i \in 1..Len(src)
    BY <1>1, <1>2, <1>5
  <2>. QED BY <2>1, <2>2, <1>6 DEF IsUtf8, w
<1>. QED BY <1>2, <1>5, <1>7, <1>8, <1>9

\* How much of a name is copied, and that a text remains one.
LEMMA CopiedIs ==
  ASSUME NEW S, NEW src \in Seq(S), NEW size \in Nat \ {0}
  PROVE  /\ Copied(src, size) \in 0..Len(src) /\ Copied(src, size) < size
         /\ Copied(src, size) >= Smaller(Len(src), size - 1) - 3
         /\ IsUtf8(src) =>
              /\ IsUtf8(SubSeq(src, 1, Copied(src, size)))
              /\ \A n \in (Copied(src, size) + 1)..Smaller(Len(src), size - 1) :
                   ~IsUtf8(SubSeq(src, 1, n))
<1>1. Len(src) \in Nat
  BY LenProperties
<1>2. CASE Len(src) < size
  <2>1. Copied(src, size) = Len(src) /\ SubSeq(src, 1, Len(src)) = src
    BY <1>2, SubSeqFull DEF Copied
  <2>2. Smaller(Len(src), size - 1) = Len(src)
    BY <1>1, <1>2 DEF Smaller
  <2>3. Len(src) >= Len(src) - 3 /\ Len(src) \in 0..Len(src)
    BY <1>1
  <2>4. (Len(src) + 1)..Len(src) = {}
    BY <1>1
  <2>. QED BY <1>2, <2>1, <2>2, <2>3, <2>4
<1>3. CASE Len(src) >= size
  <2> DEFINE b == Boundary(src, size - 1)
  <2>1. Copied(src, size) = b /\ Smaller(Len(src), size - 1) = size - 1
    BY <1>1, <1>3 DEF Copied, Smaller
  <2>2. size - 1 \in Nat /\ size - 1 < Len(src)
    BY <1>1, <1>3
  <2>3. /\ b \in 0..(size - 1) /\ size - 1 - b <= 3
        /\ \A i \in (b + 2)..(size - 1 + 1) : IsContinuation(src[i])
    BY <2>2, BoundaryIs
  <2>. HIDE DEF b
  <2>4. ASSUME IsUtf8(src)
        PROVE  IsUtf8(SubSeq(src, 1, b)) /\ \A n \in (b + 1)..(size - 1) : ~IsUtf8(SubSeq(src, 1, n))
    <3>1. ~IsContinuation(src[b + 1])
      BY <1>1, <2>2, <2>4, CharacterAfterCut DEF b
    <3>2. b \in Nat /\ b \in 0..(Len(src) - 1)
      BY <1>1, <2>2, <2>3
    <3>3. ASSUME NEW n \in (b + 1)..(size - 1) PROVE ~IsUtf8(SubSeq(src, 1, n))
      <4>1. n \in (b + 1)..(Len(src) - 1) /\ \A i \in (b + 2)..(n + 1) : IsContinuation(src[i])
        BY <1>1, <2>2, <2>3, <3>2
      <4>. QED BY <2>4, <3>1, <3>2, <4>1, LaterCutIsNot
    <3>. QED BY <2>4, <3>1, <3>2, <3>3, CutIsUtf8
  <2>. QED BY <1>1, <2>1, <2>2, <2>3, <2>4
<1>. QED BY <1>1, <1>2, <1>3

---------------------------------------------------------------------------
\* The entry.

\* The bytes of a name with neither the terminator nor anything but a text.
LEMMA FieldIsTheName ==
  ASSUME NEW old, NEW S, NEW src \in Seq(S \ {Nul}), NEW field,
         field = NameField(old, src)
  PROVE  LET n == Copied(src, TrackNameMax)
         IN  /\ n \in Nat /\ n < TrackNameMax
             /\ Past({i \in 1..TrackNameMax : field[i] # Nul}, 1, TrackNameMax) = n + 1
             /\ SubSeq(field, 1, n) = SubSeq(src, 1, n)
             /\ Len(SubSeq(field, 1, n)) = n
             /\ field = SubSeq(field, 1, n) \o [i \in 1..(TrackNameMax - n) |-> Nul]
<1> DEFINE n == Copied(src, TrackNameMax)
           T == {i \in 1..TrackNameMax : field[i] # Nul}
<1>1. TrackNameMax \in Nat \ {0}
  BY NamesAssumption
<1>2. Len(src) \in Nat /\ \A i \in 1..Len(src) : src[i] \in S \ {Nul}
  BY LenProperties, ElementOfSeq
<1>3. n \in 0..Len(src) /\ n < TrackNameMax
  BY <1>1, CopiedIs
<1>. HIDE DEF n
<1>4. field = [i \in 1..TrackNameMax |-> field[i]]
  BY DEF NameField
<1>5. \A i \in 1..n : i \in 1..Len(src) /\ i \in 1..TrackNameMax
  BY <1>1, <1>2, <1>3
<1>6. \A i \in 1..n : field[i] = src[i]
  BY <1>5 DEF NameField, n
<1>7. \A i \in 1..n : field[i] \in S /\ field[i] # Nul
  BY <1>2, <1>5, <1>6
<1>8. \A i \in (n + 1)..TrackNameMax : field[i] = Nul
  BY <1>1, <1>2, <1>3 DEF NameField, n
<1>9. Halts(T, 1, TrackNameMax, n + 1)
  <2>1. n + 1 \in 1..(TrackNameMax + 1) /\ (n + 1 <= TrackNameMax => n + 1 \notin T)
    BY <1>1, <1>2, <1>3, <1>8
  <2>2. \A i \in 1..n : i \in T
    BY <1>5, <1>7
  <2>. HIDE DEF T
  <2>. QED BY <1>2, <1>3, <2>1, <2>2 DEF Halts
<1>10. Past(T, 1, TrackNameMax) = n + 1
  <2>. HIDE DEF T
  <2>. QED BY <1>1, <1>9, PastIs
<1>11. n \in Int
  BY <1>2, <1>3
<1>12. /\ SubSeq(field, 1, n) \in Seq(S) /\ Len(SubSeq(field, 1, n)) = n
       /\ \A i \in 1..n : SubSeq(field, 1, n)[i] = field[i]
  <2>1. \A i \in 1..n : field[i] \in S
    BY <1>7
  <2>2. n - 1 + 1 = n /\ \A i \in 1..n : 1 + i - 1 = i
    BY <1>11
  <2>. QED BY <2>1, <2>2, <1>2, <1>3, <1>11, SubSeqProperties
<1>13. /\ SubSeq(src, 1, n) \in Seq(S) /\ Len(SubSeq(src, 1, n)) = n
       /\ \A i \in 1..n : SubSeq(src, 1, n)[i] = src[i]
  <2>1. \A i \in 1..n : src[i] \in S
    BY <1>2, <1>5
  <2>2. n - 1 + 1 = n /\ \A i \in 1..n : 1 + i - 1 = i
    BY <1>11
  <2>. QED BY <2>1, <2>2, <1>2, <1>3, <1>11, SubSeqProperties
<1>14. SubSeq(field, 1, n) = SubSeq(src, 1, n)
  BY <1>6, <1>12, <1>13, SeqEqual
<1>15. field = SubSeq(field, 1, n) \o [i \in 1..(TrackNameMax - n) |-> Nul]
  <2> DEFINE name == SubSeq(field, 1, n)
             rest == [i \in 1..(TrackNameMax - n) |-> Nul]
             U == S \union {Nul}
  <2>1. name \in Seq(U) /\ Len(name) = n /\ \A i \in 1..n : name[i] = field[i]
    <3>1. Seq(S) \subseteq Seq(U)
      OBVIOUS
    <3>. QED BY <1>12, <3>1
  <2>2. rest \in Seq(U) /\ Len(rest) = TrackNameMax - n
    <3>1. TrackNameMax - n \in Nat
      BY <1>1, <1>2, <1>3
    <3>. QED BY <3>1
  <2>3. field \in Seq(U) /\ Len(field) = TrackNameMax
    <3>1. \A i \in 1..TrackNameMax : i \in 1..n \/ i \in (n + 1)..TrackNameMax
      BY <1>1, <1>2, <1>3
    <3>2. \A i \in 1..TrackNameMax : field[i] \in U
      BY <3>1, <1>7, <1>8
    <3>. QED BY <1>1, <1>4, <3>2
  <2>. HIDE DEF name, rest, U
  <2>4. /\ name \o rest \in Seq(U) /\ Len(name \o rest) = Len(name) + Len(rest)
        /\ \A i \in 1..(Len(name) + Len(rest)) :
             (name \o rest)[i] = IF i <= Len(name) THEN name[i] ELSE rest[i - Len(name)]
    BY <2>1, <2>2, ConcatProperties
  <2>5. Len(name) + Len(rest) = TrackNameMax
    BY <1>1, <1>11, <2>1, <2>2
  <2>6. \A i \in 1..TrackNameMax : (name \o rest)[i] = field[i]
    <3>1. ASSUME NEW i \in 1..TrackNameMax, i <= n PROVE (name \o rest)[i] = field[i]
      BY <1>3, <2>1, <2>4, <2>5, <3>1
    <3>2. ASSUME NEW i \in 1..TrackNameMax, i > n PROVE (name \o rest)[i] = field[i]
      <4>1. (name \o rest)[i] = rest[i - n]
        BY <1>1, <1>11, <2>1, <2>4, <2>5, <3>2
      <4>2. i - n \in 1..(TrackNameMax - n)
        BY <1>1, <1>11, <3>2
      <4>3. rest[i - n] = Nul
        BY <4>2 DEF rest
      <4>4. field[i] = Nul
        BY <1>1, <1>8, <1>11, <3>2
      <4>. QED BY <4>1, <4>3, <4>4
    <3>3. \A i \in 1..TrackNameMax : i <= n \/ i > n
      BY <1>1, <1>11
    <3>. QED BY <3>1, <3>2, <3>3
  <2>7. field = name \o rest
    BY <2>3, <2>4, <2>5, <2>6, SeqEqual
  <2>. QED BY <2>7 DEF name, rest
<1>16. n \in Nat
  BY <1>2, <1>3
<1>. QED BY <1>3, <1>10, <1>12, <1>14, <1>15, <1>16, Zenon DEF n

---------------------------------------------------------------------------
\* The program.

\* What is known at each point: the header is that of the beginning of the file,
\* and the entry has been filled with the name chosen, over what it held.
NamesInv ==
  /\ file \in Seq(Alphabet)
  /\ pc \in {"read", "describe", "done"}
  /\ pc # "read" => header = HeaderName(Peek)
  /\ pc = "done" => \E old : entry.name = NameField(old, Chosen)

LEMMA NamesInvInit == Init => NamesInv
<1> SUFFICES ASSUME Init PROVE NamesInv
  OBVIOUS
<1>1. PICK n \in 0..FileBytes : file \in [1..n -> Alphabet]
  BY DEF Init, Files
<1>2. n \in Nat
  BY NamesAssumption
<1>3. file \in Seq(Alphabet)
  BY <1>1, <1>2
<1>. QED BY <1>3 DEF Init, NamesInv

LEMMA NamesInvStep == NamesInv /\ [Next]_namesVars => NamesInv'
<1> SUFFICES ASSUME NamesInv, [Next]_namesVars PROVE NamesInv'
  OBVIOUS
<1>1. CASE ReadHeader
  BY <1>1 DEF NamesInv, ReadHeader, Peek
<1>2. CASE DescribeTrack
  <2>1. entry'.name = NameField(entry.name, Chosen) /\ Chosen' = Chosen
    BY <1>2 DEF DescribeTrack, Chosen
  <2>. QED BY <1>2, <2>1 DEF NamesInv, DescribeTrack, Peek
<1>3. CASE UNCHANGED namesVars
  BY <1>3 DEF NamesInv, namesVars, Peek, Chosen
<1>. QED BY <1>1, <1>2, <1>3 DEF Next

LEMMA PeekType ==
  NamesInv => Peek \in Seq(Alphabet) /\ Len(Peek) \in Nat
<1> SUFFICES ASSUME NamesInv PROVE Peek \in Seq(Alphabet) /\ Len(Peek) \in Nat
  OBVIOUS
<1> DEFINE n == Smaller(Len(file), HeaderPeek)
<1>1. Len(file) \in Nat /\ \A i \in 1..Len(file) : file[i] \in Alphabet
  BY LenProperties, ElementOfSeq DEF NamesInv
<1>2. n \in Nat /\ n <= Len(file)
  BY <1>1, NamesAssumption DEF Smaller
<1>. HIDE DEF n
<1>3. \A i \in 1..n : file[i] \in Alphabet
  BY <1>1, <1>2
<1>4. SubSeq(file, 1, n) \in Seq(Alphabet)
  BY <1>2, <1>3, SubSeqProperties
<1>. QED BY <1>4, LenProperties DEF Peek, n

\* header_name answers what its comment says, of every file.
THEOREM HeaderIsFound == Spec => []HeaderIsAsWritten
<1>1. NamesInv => HeaderIsAsWritten
  BY PeekType, HeaderNameIs DEF NamesInv, HeaderIsAsWritten
<1>. QED BY <1>1, NamesInvInit, NamesInvStep, PTL DEF Spec

\* A text: no byte of a file is the terminator of C.
Text == Nul \notin Alphabet

\* What the entry holds when the file has been described.
LEMMA EntryIs ==
  Text /\ NamesInv /\ pc = "done" =>
    /\ Chosen \in Seq((Alphabet \union STRING) \ {Nul})
    /\ Stored = SubSeq(Chosen, 1, Copied(Chosen, TrackNameMax))
    /\ Len(Stored) = Copied(Chosen, TrackNameMax)
    /\ Len(Stored) < TrackNameMax
    /\ entry.name = Stored \o [i \in 1..(TrackNameMax - Len(Stored)) |-> Nul]
<1> SUFFICES ASSUME Text, NamesInv, pc = "done"
             PROVE  /\ Chosen \in Seq((Alphabet \union STRING) \ {Nul})
                    /\ Stored = SubSeq(Chosen, 1, Copied(Chosen, TrackNameMax))
                    /\ Len(Stored) = Copied(Chosen, TrackNameMax)
                    /\ Len(Stored) < TrackNameMax
                    /\ entry.name = Stored \o [i \in 1..(TrackNameMax - Len(Stored)) |-> Nul]
  OBVIOUS
<1> DEFINE S == Alphabet \union STRING
           field == entry.name
           n == Copied(Chosen, TrackNameMax)
<1>1. Chosen \in Seq(S \ {Nul})
  <2>1. header.name \in Seq(Alphabet)
    BY PeekType, HeaderNameType DEF NamesInv
  <2>2. Alphabet \subseteq S \ {Nul} /\ STRING \ {Nul} \subseteq S \ {Nul}
    BY DEF Text
  <2>. HIDE DEF S
  <2>3. Seq(Alphabet) \subseteq Seq(S \ {Nul}) /\ Seq(STRING \ {Nul}) \subseteq Seq(S \ {Nul})
    BY <2>2
  <2>4. Chosen = header.name \/ Chosen = ShortName
    BY DEF Chosen
  <2>. QED BY <2>1, <2>3, <2>4, NamesAssumption
<1>2. PICK old : field = NameField(old, Chosen)
  BY DEF NamesInv
<1>. HIDE DEF S, field
<1>3. /\ n \in Nat /\ n < TrackNameMax
      /\ Past({i \in 1..TrackNameMax : field[i] # Nul}, 1, TrackNameMax) = n + 1
      /\ SubSeq(field, 1, n) = SubSeq(Chosen, 1, n)
      /\ Len(SubSeq(field, 1, n)) = n
      /\ field = SubSeq(field, 1, n) \o [i \in 1..(TrackNameMax - n) |-> Nul]
  BY <1>1, <1>2, FieldIsTheName
<1>4. Stored = SubSeq(field, 1, n)
  <2> DEFINE stop == Past({i \in 1..TrackNameMax : field[i] # Nul}, 1, TrackNameMax)
  <2>1. Stored = SubSeq(field, 1, stop - 1)
    BY DEF Stored, field
  <2>2. stop = n + 1
    BY <1>3
  <2>. HIDE DEF stop
  <2>3. stop - 1 = n
    BY <1>3, <2>2
  <2>. QED BY <2>1, <2>3
<1>. QED BY <1>1, <1>3, <1>4 DEF S, field

\* A text too long for its entry is cut between two characters, as late as it can
\* be, for every length of an entry.
THEOREM CutIsBetweenCharacters == Text => (Spec => []CutBetweenCharacters)
<1> SUFFICES ASSUME Text PROVE Spec => []CutBetweenCharacters
  OBVIOUS
<1>1. NamesInv => CutBetweenCharacters
  <2> SUFFICES ASSUME NamesInv, pc = "done", IsUtf8(Chosen) PROVE CutBetweenCharacters
    BY DEF CutBetweenCharacters
  <2> DEFINE S == (Alphabet \union STRING) \ {Nul}
             n == Copied(Chosen, TrackNameMax)
  <2>1. Chosen \in Seq(S) /\ Stored = SubSeq(Chosen, 1, n) /\ Len(Stored) = n
    BY EntryIs
  <2>2. TrackNameMax \in Nat \ {0}
    BY NamesAssumption
  <2>. HIDE DEF S
  <2>3. IsUtf8(SubSeq(Chosen, 1, n)) /\ \A m \in (n + 1)..Smaller(Len(Chosen), TrackNameMax - 1) :
          ~IsUtf8(SubSeq(Chosen, 1, m))
    BY <2>1, <2>2, CopiedIs
  <2>. QED BY <2>1, <2>3 DEF CutBetweenCharacters
<1>. QED BY <1>1, NamesInvInit, NamesInvStep, PTL DEF Spec

\* Junk loses three bytes at most.
THEOREM JunkIsKept == Text => (Spec => []JunkIsNotErased)
<1> SUFFICES ASSUME Text PROVE Spec => []JunkIsNotErased
  OBVIOUS
<1>1. NamesInv => JunkIsNotErased
  <2> SUFFICES ASSUME NamesInv, pc = "done" PROVE JunkIsNotErased
    BY DEF JunkIsNotErased
  <2>1. Chosen \in Seq((Alphabet \union STRING) \ {Nul}) /\ Len(Stored) = Copied(Chosen, TrackNameMax)
    BY EntryIs
  <2>2. TrackNameMax \in Nat \ {0}
    BY NamesAssumption
  <2>. QED BY <2>1, <2>2, CopiedIs DEF JunkIsNotErased
<1>. QED BY <1>1, NamesInvInit, NamesInvStep, PTL DEF Spec

\* Every entry is its name and terminators to the end of the array: entries of
\* one name compare equal whatever they held.
THEOREM EntryIsItsName == Text => (Spec => []EntriesCompare)
<1> SUFFICES ASSUME Text PROVE Spec => []EntriesCompare
  OBVIOUS
<1>1. NamesInv => EntriesCompare
  BY EntryIs DEF EntriesCompare
<1>. QED BY <1>1, NamesInvInit, NamesInvStep, PTL DEF Spec
=============================================================================
