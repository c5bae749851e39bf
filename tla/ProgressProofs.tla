--------------------------- MODULE ProgressProofs ---------------------------
(***************************************************************************)
(* Proofs about Progress, for every width of the integers, every scale and *)
(* every snapshot that fits.                                               *)
(***************************************************************************)
EXTENDS Progress, TLAPS

LEMMA DivBounds ==
  ASSUME NEW a \in Nat, NEW t \in Nat \ {0}
  PROVE  /\ a \div t \in Nat
         /\ t * (a \div t) <= a
         /\ a < t * (a \div t) + t
OBVIOUS

LEMMA ProductMonotone ==
  ASSUME NEW a \in Nat, NEW b \in Nat, NEW c \in Nat, a <= b
  PROVE  a * c <= b * c /\ c * a <= c * b
OBVIOUS

\* A quotient is at least q when the dividend holds q divisors.
LEMMA DivAtLeast ==
  ASSUME NEW a \in Nat, NEW t \in Nat \ {0}, NEW q \in Nat, t * q <= a
  PROVE  q <= a \div t
<1> DEFINE d == a \div t
<1>1. d \in Nat /\ a < t * d + t
  BY DivBounds
<1>2. SUFFICES ASSUME d + 1 <= q PROVE FALSE
  BY <1>1
<1>3. t * (d + 1) <= t * q
  BY <1>1, <1>2, ProductMonotone
<1>4. t * (d + 1) = t * d + t
  BY <1>1
<1>5. QED
  BY <1>1, <1>3, <1>4

\* A quotient is below q when the dividend holds fewer than q divisors.
LEMMA DivBelow ==
  ASSUME NEW a \in Nat, NEW t \in Nat \ {0}, NEW q \in Nat, a < t * q
  PROVE  a \div t < q
<1> DEFINE d == a \div t
<1>1. d \in Nat /\ t * d <= a
  BY DivBounds
<1>2. SUFFICES ASSUME q <= d PROVE FALSE
  BY <1>1
<1>3. t * q <= t * d
  BY <1>1, <1>2, ProductMonotone
<1>4. QED
  BY <1>1, <1>3

---------------------------------------------------------------------------
\* The wrapping arithmetic of the two functions never wraps.
LEMMA SmallMod ==
  ASSUME NEW m \in Nat, NEW a \in 0..(m - 1) PROVE a % m = a
OBVIOUS

LEMMA Widths == U32 \in Nat /\ U64 \in Nat /\ U32 <= U64
<1>1. U32 \in Nat /\ 1 <= U32
  BY ProgressAssumption
<1>2. 1 * U32 <= U32 * U32 /\ U32 * U32 \in Nat
  BY <1>1, ProductMonotone
<1>3. QED
  BY <1>1, <1>2 DEF U64

Clock == 0..(U64 - 1)

LEMMA SinceIs ==
  ASSUME NEW t \in Clock, NEW base \in Clock
  PROVE  Since(t, base) = IF t > base THEN t - base ELSE 0
<1>1. CASE t > base
  <2>1. t - base \in 0..(U64 - 1)
    BY <1>1, Widths DEF Clock
  <2>2. QED
    BY <1>1, <2>1, SmallMod, Widths DEF Since
<1>2. CASE ~(t > base)
  BY <1>2 DEF Since
<1>3. QED
  BY <1>1, <1>2

\* The elapsed time before it is held back at the total.
Raw(s, t) ==
  IF s.state = "PLAYING" THEN (IF t > s.base THEN t - s.base ELSE 0) ELSE s.base

LEMMA Snapshots ==
  ASSUME NEW s \in Snapshot
  PROVE  /\ s.base \in Clock /\ s.base \in Nat
         /\ s.total \in 0..(U32 - 1) /\ s.total \in Nat
<1>1. s.base \in Bases /\ s.total \in Totals
  BY DEF Snapshot
<1>2. s.base \in 0..(U64 - 1) /\ s.total \in 0..(U32 - 1)
  BY <1>1, ProgressAssumption
<1>3. QED
  BY <1>2, Widths DEF Clock

LEMMA ElapsedIs ==
  ASSUME NEW s \in Snapshot, NEW t \in Clock
  PROVE  /\ Raw(s, t) \in Nat
         /\ Elapsed(s, t) = IF Raw(s, t) > s.total THEN s.total ELSE Raw(s, t)
         /\ Elapsed(s, t) \in 0..s.total
<1>1. Raw(s, t) \in Nat
  BY Snapshots, Widths DEF Raw, Clock
<1>2. (IF s.state = "PLAYING" THEN Since(t, s.base) ELSE s.base) = Raw(s, t)
  BY Snapshots, SinceIs DEF Raw
<1>3. Elapsed(s, t) = IF Raw(s, t) > s.total THEN s.total ELSE Raw(s, t) % U32
  BY <1>2 DEF Elapsed
<1>4. Raw(s, t) <= s.total => Raw(s, t) % U32 = Raw(s, t)
  BY <1>1, Snapshots, SmallMod, Widths
<1>5. QED
  BY <1>1, <1>3, <1>4, Snapshots

LEMMA ElapsedMonotone ==
  ASSUME NEW s \in Snapshot, NEW t \in Clock, NEW u \in Clock, t <= u
  PROVE  /\ Elapsed(s, t) <= Elapsed(s, u)
         /\ s.state # "PLAYING" => Elapsed(s, t) = Elapsed(s, u)
<1>1. Raw(s, t) <= Raw(s, u) /\ (s.state # "PLAYING" => Raw(s, t) = Raw(s, u))
  BY Snapshots DEF Raw, Clock
<1>2. QED
  BY <1>1, ElapsedIs, Snapshots

\* The product fits in 64 bits, and the result in 16.
LEMMA PermilleIs ==
  ASSUME NEW s \in Snapshot, NEW t \in Clock, s.total > 0
  PROVE  /\ Permille(s, t) = (Elapsed(s, t) * Scale) \div s.total
         /\ Permille(s, t) \in 0..Scale
         /\ Permille(s, t) = Scale <=> Elapsed(s, t) = s.total
<1> DEFINE e == Elapsed(s, t)
           n == s.total
           p == (e * Scale) \div n
<1>1. /\ e \in Nat /\ e <= n /\ n \in Nat \ {0} /\ n < U32
      /\ Scale \in Nat \ {0} /\ Scale < U32 /\ Scale < U16 /\ U16 \in Nat
  BY ElapsedIs, Snapshots, Widths, ProgressAssumption
<1>2. e * Scale \in Nat /\ n * Scale \in Nat /\ e * Scale <= n * Scale
  BY <1>1, ProductMonotone
<1>3. n * Scale < U64
  <2>1. n * Scale <= n * U32
    BY <1>1, Widths, ProductMonotone
  <2>2. (n + 1) * U32 <= U32 * U32
    BY <1>1, Widths, ProductMonotone
  <2>3. (n + 1) * U32 = n * U32 + U32 /\ n * U32 \in Nat
    BY <1>1, Widths
  <2>4. 0 < U32
    BY <1>1, Widths
  <2>5. QED
    BY <1>2, <2>1, <2>2, <2>3, <2>4, Widths DEF U64
<1>4. (e * Scale) % U64 = e * Scale
  BY <1>2, <1>3, SmallMod, Widths
<1>5. p \in Nat /\ p <= Scale
  <2>1. p \in Nat /\ n * p <= e * Scale
    BY <1>1, <1>2, DivBounds
  <2>2. e * Scale < n * (Scale + 1)
    BY <1>1, <1>2
  <2>3. p < Scale + 1
    BY <1>1, <1>2, <2>2, DivBelow
  <2>4. QED
    BY <1>1, <2>1, <2>3
<1>6. p % U16 = p
  BY <1>1, <1>5, SmallMod
<1>7. Permille(s, t) = p
  BY <1>1, <1>4, <1>6 DEF Permille, PerTotal
<1>8. e = n => p = Scale
  <2>1. SUFFICES ASSUME e = n PROVE p = Scale
    OBVIOUS
  <2>2. n * Scale <= e * Scale
    BY <1>1, <2>1
  <2>3. Scale <= p
    BY <1>1, <1>2, <2>2, DivAtLeast
  <2>4. QED
    BY <1>1, <1>5, <2>3
<1>9. e # n => p < Scale
  <2> SUFFICES ASSUME e # n PROVE p < Scale
    OBVIOUS
  <2>1. e + 1 <= n
    BY <1>1
  <2>2. (e + 1) * Scale <= n * Scale
    BY <1>1, <2>1, ProductMonotone
  <2>3. (e + 1) * Scale = e * Scale + Scale
    BY <1>1
  <2>4. e * Scale < n * Scale
    BY <1>1, <1>2, <2>2, <2>3
  <2>5. QED
    BY <1>1, <1>2, <2>4, DivBelow
<1>10. QED
  BY <1>1, <1>5, <1>7, <1>8, <1>9

LEMMA PermilleMonotone ==
  ASSUME NEW s \in Snapshot, NEW t \in Clock, NEW u \in Clock, t <= u
  PROVE  Permille(s, t) <= Permille(s, u)
<1>1. CASE s.total = 0
  BY <1>1 DEF Permille
<1>2. CASE s.total > 0
  <2> DEFINE e == Elapsed(s, t)
             f == Elapsed(s, u)
             n == s.total
  <2>1. e \in Nat /\ f \in Nat /\ e <= f /\ n \in Nat \ {0} /\ Scale \in Nat
    BY <1>2, ElapsedIs, ElapsedMonotone, Snapshots, ProgressAssumption
  <2>2. e * Scale \in Nat /\ f * Scale \in Nat /\ e * Scale <= f * Scale
    BY <2>1, ProductMonotone
  <2>3. (e * Scale) \div n \in Nat /\ n * ((e * Scale) \div n) <= e * Scale
    BY <2>1, <2>2, DivBounds
  <2>4. n * ((e * Scale) \div n) <= f * Scale
    BY <2>1, <2>2, <2>3
  <2>5. (e * Scale) \div n <= (f * Scale) \div n
    BY <2>1, <2>2, <2>3, <2>4, DivAtLeast
  <2>6. QED
    BY <1>2, <2>5, PermilleIs
<1>3. QED
  BY <1>1, <1>2, Snapshots

---------------------------------------------------------------------------
LEMMA TypeInvariant == Spec => []TypeOK
<1>1. Init => TypeOK
  BY ProgressAssumption DEF Init, TypeOK
<1>2. TypeOK /\ [Next]_progressVars => TypeOK'
  BY ProgressAssumption DEF TypeOK, Next, Tick, Publish, progressVars
<1>3. QED
  BY <1>1, <1>2, PTL DEF Spec

LEMMA InClock == TypeOK => snap \in Snapshot /\ now \in Clock
BY ProgressAssumption, Widths DEF TypeOK, Clock

\* The elapsed time and the bar stay within their bounds: no product, no
\* difference and no conversion of the two functions overflows.
THEOREM BarStaysInScale == Spec => []BarWithinScale
<1>1. TypeOK => BarWithinScale
  <2> SUFFICES ASSUME TypeOK PROVE BarWithinScale
    OBVIOUS
  <2>1. snap.total = 0 => Permille(snap, now) \in 0..Scale
    BY ProgressAssumption DEF Permille
  <2>2. QED
    BY <2>1, InClock, ElapsedIs, PermilleIs, Snapshots DEF BarWithinScale
<1>2. QED
  BY <1>1, TypeInvariant, PTL

\* The bar is full exactly at the end of the track: the division never rounds
\* up to the full bar.
THEOREM FullMeansOver == Spec => []FullAtTheEnd
<1>1. TypeOK => FullAtTheEnd
  BY InClock, PermilleIs DEF FullAtTheEnd
<1>2. QED
  BY <1>1, TypeInvariant, PTL

\* The bar never goes back while the player publishes nothing.
THEOREM BarIsMonotone == Spec => BarNeverGoesBack
<1>1. TypeOK /\ TypeOK' /\ [Next]_progressVars
        => [UNCHANGED snap => BarMoves(now, now')]_progressVars
  <2> SUFFICES ASSUME TypeOK, TypeOK', Next, UNCHANGED snap
               PROVE  BarMoves(now, now')
    OBVIOUS
  <2>1. now <= now' /\ snap \in Snapshot /\ now \in Clock /\ now' \in Clock
    BY InClock, ProgressAssumption, Widths DEF Next, Tick, Publish, TypeOK, Clock
  <2>2. QED
    BY <2>1, PermilleMonotone, ElapsedMonotone DEF BarMoves
<1>2. QED
  BY <1>1, TypeInvariant, PTL DEF Spec, BarNeverGoesBack
=============================================================================
