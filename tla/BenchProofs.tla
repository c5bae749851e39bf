----------------------------- MODULE BenchProofs -----------------------------
(***************************************************************************)
(* Proofs about Bench, for every card, table, budget, cost and number of   *)
(* tracks.  FatFs and the program use the disk as SparseDiskProofs         *)
(* assumes, so it is an array of sectors under them too; the search for    *)
(* the threshold is exact whatever the model of the cost; the clock agrees *)
(* with that model; the report speaks for every load; and every step       *)
(* brings the program nearer to its end.                                   *)
(***************************************************************************)
EXTENDS Bench, SparseDiskProofs, SequenceTheorems

\* Whatever the bench does leaves the disk alone, or is a transfer of it.
LEMMA UsesTheDisk == [Next]_benchVars => [DiskNext]_diskVars
<1> SUFFICES ASSUME [Next]_benchVars PROVE [DiskNext]_diskVars
  OBVIOUS
<1>1. ASSUME NEW x \in Transfers, DiskWrite(x) \/ DiskRead(x)
      PROVE  \E op \in {"read", "write"}, start \in Nat, count \in Nat :
               Transfer(op, start, count)
  <2>1. x.start \in Nat /\ x.count \in Nat
    BY BenchAssumption
  <2>2. Transfer("write", x.start, x.count) \/ Transfer("read", x.start, x.count)
    BY <1>1 DEF DiskWrite, DiskRead
  <2>. QED BY <2>1, <2>2
<1>2. DiskWork => DiskStep
  BY DEF DiskWork
<1>3. Making => UNCHANGED diskVars
  BY DEF Making, Setup, SetupFails, Mkfs, MountToWrite, OpenTrack, WriteChunk, LastChunk,
         CloseTrack, UnmountFresh, SetupStep
<1>4. Measuring => UNCHANGED diskVars
  BY DEF Measuring, Arm, Mount, MountFails, OpenDir, OpenDirFails, ReadDir, ReadHeader,
         ScanEnds, ReadDirFails, Load, LoadFails, LoadStep, Remount, ColdLoad, GiveUp, Main
<1>5. Reporting => UNCHANGED diskVars
  BY DEF Reporting, Report, Search, SearchEnds, Main
<1>6. Exited \/ UNCHANGED benchVars => UNCHANGED diskVars
  BY DEF Exited, benchVars
<1>. QED BY <1>1, <1>2, <1>3, <1>4, <1>5, <1>6 DEF Next, Access, DiskNext

LEMMA BenchUsesTheDisk == Spec => DiskSpec
<1>1. Init => DiskInit
  BY DEF Init
<1>. QED BY <1>1, UsesTheDisk, PTL DEF Spec, DiskSpec

\* Under FatFs and the whole program the simulated card is an array of sectors.
THEOREM BenchRefinesArray == Spec => ImplementsSectorArray
BY BenchUsesTheDisk, DiskRefinesArray, PTL

---------------------------------------------------------------------------
\* The binary search.

Searching == {"search", "done"}

\* The threshold lies from lo to hi; before the search, anywhere.
SearchInv ==
  /\ pc \notin Searching => lo = 0 /\ hi = PollCap
  /\ lo \in Nat /\ hi \in 0..PollCap /\ lo <= hi
  /\ pc \in Searching /\ Simulated /\ Fits(0) =>
       /\ Fits(lo)
       /\ hi < PollCap => ~Fits(hi + 1)
       /\ At("done") => lo = hi

\* The middle of an interval of more than one is above its lower end.
LEMMA Middle ==
  ASSUME NEW a \in Nat, NEW b \in Nat, a < b
  PROVE  a + (b - a + 1) \div 2 \in (a + 1)..b
OBVIOUS

LEMMA SearchInvInit == Init => SearchInv
BY BenchAssumption DEF Init, SearchInv, Searching, At

\* Before the report nothing moves the bounds, and no step leads past it.
LEMMA BeforeTheReport ==
  ASSUME SearchInv, Access \/ Making \/ Measuring
  PROVE  SearchInv'
<1>1. CASE Access
  <2>1. UNCHANGED <<target, pc, worst, lo, hi>>
    BY <1>1 DEF Access, DiskWrite, DiskRead, DiskWork, resultVars, searchVars
  <2>. QED BY <2>1 DEF SearchInv, Simulated, Fits, At
<1>2. CASE Making
  <2>1. UNCHANGED <<lo, hi>>
    BY <1>2 DEF Making, Setup, SetupFails, Mkfs, MountToWrite, OpenTrack, WriteChunk,
           LastChunk, CloseTrack, UnmountFresh, SetupStep, searchVars
  <2>2. pc \notin Searching /\ pc' \notin Searching
    BY <1>2 DEF Making, Setup, SetupFails, Mkfs, MountToWrite, OpenTrack, WriteChunk,
           LastChunk, CloseTrack, UnmountFresh, SetupStep, At, Goto, Searching, SetupSteps
  <2>. QED BY <2>1, <2>2 DEF SearchInv, At, Searching
<1>3. CASE Measuring
  <2>1. UNCHANGED <<lo, hi>>
    BY <1>3 DEF Measuring, Arm, Mount, MountFails, OpenDir, OpenDirFails, ReadDir, ReadHeader,
           ScanEnds, ReadDirFails, Load, LoadFails, LoadStep, Remount, ColdLoad, GiveUp, searchVars
  <2>2. pc \notin Searching /\ pc' \notin Searching
    BY <1>3 DEF Measuring, Arm, Mount, MountFails, OpenDir, OpenDirFails, ReadDir, ReadHeader,
           ScanEnds, ReadDirFails, Load, LoadFails, LoadStep, Remount, ColdLoad, GiveUp, Main,
           At, Goto, Searching
  <2>. QED BY <2>1, <2>2 DEF SearchInv, At, Searching
<1>. QED BY <1>1, <1>2, <1>3

LEMMA SearchInvStep == SearchInv /\ [Next]_benchVars => SearchInv'
<1> SUFFICES ASSUME SearchInv, [Next]_benchVars PROVE SearchInv'
  OBVIOUS
<1>1. CASE Access \/ Making \/ Measuring
  BY <1>1, BeforeTheReport
<1>2. CASE Report
  <2>1. UNCHANGED <<target, worst, lo, hi>> /\ At("report") /\ pc' \in Searching
        /\ (pc' = "search" <=> Simulated /\ Fits(0))
    BY <1>2 DEF Report, Main, Goto, At, Searching, resultVars, searchVars
  <2>2. lo = 0 /\ hi = PollCap
    BY <2>1 DEF SearchInv, At, Searching
  <2>3. Simulated' = Simulated /\ \A x : Fits(x)' <=> Fits(x)
    BY <2>1 DEF Simulated, Fits
  <2>. QED BY <2>1, <2>2, <2>3, BenchAssumption DEF SearchInv, At, Searching
<1>3. CASE Search
  <2>1. UNCHANGED <<target, worst, pc>> /\ At("search") /\ lo < hi
    BY <1>3 DEF Search, resultVars
  <2>2. Simulated' = Simulated /\ \A x : Fits(x)' <=> Fits(x)
    BY <2>1 DEF Simulated, Fits
  <2>3. lo \in Nat /\ hi \in Nat /\ hi <= PollCap /\ PollCap \in Nat
    BY BenchAssumption DEF SearchInv
  <2>4. Mid \in (lo + 1)..hi
    BY <2>1, <2>3, Middle DEF Mid
  <2>5. CASE Fits(Mid)
    <3>1. lo' = Mid /\ hi' = hi
      BY <1>3, <2>5 DEF Search
    <3>. QED BY <3>1, <2>1, <2>2, <2>3, <2>4, <2>5 DEF SearchInv, At, Searching
  <2>6. CASE ~Fits(Mid)
    <3>1. hi' = Mid - 1 /\ lo' = lo
      BY <1>3, <2>6 DEF Search
    <3>2. hi' + 1 = Mid
      BY <3>1, <2>3, <2>4
    <3>. QED BY <3>1, <3>2, <2>1, <2>2, <2>3, <2>4, <2>6 DEF SearchInv, At, Searching
  <2>. QED BY <2>5, <2>6
<1>4. CASE SearchEnds
  <2>1. UNCHANGED <<target, worst, lo, hi>> /\ At("search") /\ At("done")' /\ lo >= hi
    BY <1>4 DEF SearchEnds, Main, Goto, At, resultVars, searchVars
  <2>2. Simulated' = Simulated /\ \A x : Fits(x)' <=> Fits(x)
    BY <2>1 DEF Simulated, Fits
  <2>. QED BY <2>1, <2>2, BenchAssumption DEF SearchInv, At, Searching
<1>5. CASE Exited \/ UNCHANGED benchVars
  <2>1. UNCHANGED <<target, pc, worst, lo, hi>>
    BY <1>5 DEF Exited, benchVars, resultVars, searchVars
  <2>. QED BY <2>1 DEF SearchInv, Simulated, Fits, At
<1>. QED BY <1>1, <1>2, <1>3, <1>4, <1>5 DEF Next, Reporting

\* The search ends on the slowest card that fits the budget, whatever the costs.
THEOREM SearchIsExact == Spec => []ThresholdIsExact
<1>1. SearchInv => ThresholdIsExact
  BY BenchAssumption DEF SearchInv, ThresholdIsExact, At, Searching
<1>. QED BY <1>1, SearchInvInit, SearchInvStep, PTL DEF Spec

---------------------------------------------------------------------------
\* Sums.

\* f lists the sums of the first terms of w.
Sums(f, w, n) ==
  /\ f \in [0..n -> Int]
  /\ f[0] = 0
  /\ \A i \in 1..n : f[i] = f[i - 1] + w[i]

\* There is such a list, however many terms there are.
LEMMA SumsExist ==
  ASSUME NEW n \in Nat, NEW w, \A i \in 1..n : w[i] \in Int
  PROVE  \E f : Sums(f, w, n)
<1> DEFINE T == {m \in Nat : m <= n /\ ~\E f : Sums(f, w, m)}
<1>1. CASE T # {}
  <2>1. PICK m \in T : \A k \in T : m <= k
    <3>1. T \in SUBSET Nat
      OBVIOUS
    <3>. HIDE DEF T
    <3>. QED BY <1>1, <3>1, Least
  <2>2. m # 0
    <3>1. Sums([i \in 0..0 |-> 0], w, 0)
      BY DEF Sums
    <3>. QED BY <3>1
  <2>3. m \in Nat /\ m - 1 \in Nat /\ m - 1 < m /\ m <= n
    BY <2>2
  <2>4. PICK f : Sums(f, w, m - 1)
    BY <2>1, <2>3
  <2> DEFINE g == [i \in 0..m |-> IF i = m THEN f[m - 1] + w[m] ELSE f[i]]
  <2>5. Sums(g, w, m)
    <3>1. f[m - 1] \in Int /\ w[m] \in Int
      BY <2>2, <2>3, <2>4 DEF Sums
    <3>2. g \in [0..m -> Int] /\ g[0] = 0
      BY <2>3, <2>4, <3>1 DEF Sums
    <3>3. ASSUME NEW i \in 1..m PROVE g[i] = g[i - 1] + w[i]
      <4>1. CASE i = m
        BY <2>3, <4>1
      <4>2. CASE i # m
        BY <2>3, <2>4, <4>2 DEF Sums
      <4>. QED BY <4>1, <4>2
    <3>. QED BY <3>2, <3>3 DEF Sums
  <2>. QED BY <2>1, <2>5
<1>2. CASE T = {}
  BY <1>2
<1>. QED BY <1>1, <1>2

\* Lists of the same terms agree as far as they go.
LEMMA SumsAgree ==
  ASSUME NEW m \in Nat, NEW n \in Nat, m <= n, NEW v, NEW w,
         \A i \in 1..m : v[i] = w[i],
         NEW f, NEW g, Sums(f, v, m), Sums(g, w, n)
  PROVE  \A i \in 0..m : f[i] = g[i]
<1> DEFINE T == {i \in Nat : i <= m /\ f[i] # g[i]}
<1>1. CASE T # {}
  <2>1. PICK i \in T : \A k \in T : i <= k
    <3>1. T \in SUBSET Nat
      OBVIOUS
    <3>. HIDE DEF T
    <3>. QED BY <1>1, <3>1, Least
  <2>2. i # 0
    BY DEF Sums
  <2>3. i \in 1..m /\ i \in 1..n /\ i - 1 \in Nat /\ i - 1 <= m /\ ~(i <= i - 1)
    BY <2>2
  <2>4. f[i - 1] = g[i - 1]
    BY <2>1, <2>3
  <2>5. f[i] = f[i - 1] + v[i] /\ g[i] = g[i - 1] + w[i] /\ v[i] = w[i]
    BY <2>3 DEF Sums
  <2>. QED BY <2>4, <2>5
<1>2. CASE T = {}
  BY <1>2
<1>. QED BY <1>1, <1>2

\* The list that defines SumTo is one.
LEMMA SumToIs ==
  ASSUME NEW n \in Nat, NEW w, \A i \in 1..n : w[i] \in Int,
         NEW f, Sums(f, w, n)
  PROVE  SumTo(w, n) = f[n]
<1> DEFINE Unrolled(g) == [i \in 0..n |-> IF i = 0 THEN 0 ELSE g[i - 1] + w[i]]
           sum == CHOOSE g : g = Unrolled(g)
<1>1. f = Unrolled(f)
  <2>1. f = [i \in 0..n |-> f[i]]
    BY DEF Sums
  <2>2. \A i \in 0..n : f[i] = IF i = 0 THEN 0 ELSE f[i - 1] + w[i]
    BY DEF Sums
  <2>. QED BY <2>1, <2>2
<1>2. sum = Unrolled(sum)
  <2>. HIDE DEF Unrolled
  <2>. QED BY <1>1, Zenon
<1>3. SumTo(w, n) = sum[n]
  BY Zenon DEF SumTo
<1>. HIDE DEF sum
<1>4. \A i \in 0..n : sum[i] = IF i = 0 THEN 0 ELSE sum[i - 1] + w[i]
  BY <1>2
<1>5. \A i \in 0..n : sum[i] = f[i]
  <2> DEFINE T == {i \in Nat : i <= n /\ sum[i] # f[i]}
  <2>1. CASE T # {}
    <3>1. PICK i \in T : \A k \in T : i <= k
      <4>1. T \in SUBSET Nat
        OBVIOUS
      <4>. HIDE DEF T
      <4>. QED BY <2>1, <4>1, Least
    <3>2. i # 0
      BY <1>4 DEF Sums
    <3>3. i \in 1..n /\ i \in 0..n /\ i - 1 \in Nat /\ i - 1 <= n /\ ~(i <= i - 1)
      BY <3>2
    <3>4. sum[i - 1] = f[i - 1]
      BY <3>1, <3>3
    <3>5. sum[i] = sum[i - 1] + w[i]
      BY <1>4, <3>2, <3>3
    <3>. QED BY <3>3, <3>4, <3>5 DEF Sums
  <2>2. CASE T = {}
    BY <2>2
  <2>. QED BY <2>1, <2>2
<1>. QED BY <1>3, <1>5

LEMMA SumToZero == ASSUME NEW w PROVE SumTo(w, 0) = 0
<1>1. Sums([i \in 0..0 |-> 0], w, 0)
  BY DEF Sums
<1>. QED BY <1>1, SumToIs

\* One more term, also of a longer list.
LEMMA SumToNext ==
  ASSUME NEW n \in Nat, NEW v, NEW w,
         \A i \in 1..(n + 1) : w[i] \in Int, \A i \in 1..n : v[i] = w[i]
  PROVE  /\ SumTo(v, n) \in Int
         /\ SumTo(w, n + 1) = SumTo(v, n) + w[n + 1]
<1>1. PICK f : Sums(f, w, n + 1)
  BY SumsExist
<1>2. \A i \in 1..n : v[i] \in Int
  OBVIOUS
<1>3. PICK g : Sums(g, v, n)
  BY <1>2, SumsExist
<1>4. g[n] = f[n]
  BY <1>1, <1>3, SumsAgree
<1>5. SumTo(w, n + 1) = f[n + 1] /\ SumTo(v, n) = g[n]
  BY <1>1, <1>2, <1>3, SumToIs
<1>6. f[n + 1] = f[n] + w[n + 1] /\ g[n] \in Int
  BY <1>1, <1>3 DEF Sums
<1>. QED BY <1>4, <1>5, <1>6

\* The terms of u are those of v and p times those of w.
Affine(u, v, w, p, n) ==
  \A i \in 1..n : v[i] \in Int /\ w[i] \in Int /\ u[i] = v[i] + w[i] * p

\* And so are its sums.
LEMMA SumToAffine ==
  ASSUME NEW n \in Nat, NEW v, NEW w, NEW u, NEW p \in Int, Affine(u, v, w, p, n)
  PROVE  /\ SumTo(v, n) \in Int /\ SumTo(w, n) \in Int
         /\ SumTo(u, n) = SumTo(v, n) + SumTo(w, n) * p
<1> USE DEF Affine
<1>1. PICK f : Sums(f, v, n)
  BY SumsExist
<1>2. PICK g : Sums(g, w, n)
  BY SumsExist
<1> DEFINE h == [i \in 0..n |-> f[i] + g[i] * p]
<1>3. \A i \in 0..n : f[i] \in Int /\ g[i] \in Int
  BY <1>1, <1>2 DEF Sums
<1>4. Sums(h, u, n)
  <2>1. h \in [0..n -> Int]
    BY <1>3
  <2>2. h[0] = 0
    BY <1>1, <1>2 DEF Sums
  <2>3. ASSUME NEW i \in 1..n PROVE h[i] = h[i - 1] + u[i]
    <3>1. i \in 0..n /\ i - 1 \in 0..n
      OBVIOUS
    <3>2. f[i] = f[i - 1] + v[i] /\ g[i] = g[i - 1] + w[i]
      BY <1>1, <1>2 DEF Sums
    <3>3. (g[i - 1] + w[i]) * p = g[i - 1] * p + w[i] * p
      BY <1>3, <3>1
    <3>4. g[i - 1] * p \in Int /\ w[i] * p \in Int /\ f[i - 1] \in Int
      BY <1>3, <3>1
    <3>5. h[i] = f[i] + g[i] * p /\ h[i - 1] = f[i - 1] + g[i - 1] * p
      BY <3>1
    <3>6. g[i] * p = g[i - 1] * p + w[i] * p
      BY <3>2, <3>3
    <3> DEFINE gp == g[i - 1] * p
               wp == w[i] * p
    <3>7. h[i] = f[i - 1] + v[i] + (gp + wp) /\ h[i - 1] = f[i - 1] + gp /\ u[i] = v[i] + wp
      BY <3>2, <3>5, <3>6
    <3>8. gp \in Int /\ wp \in Int /\ v[i] \in Int
      BY <3>4
    <3>. HIDE DEF gp, wp, h
    <3>. QED BY <3>4, <3>7, <3>8
  <2>. HIDE DEF h
  <2>. QED BY <2>1, <2>2, <2>3 DEF Sums
<1>5. \A i \in 1..n : u[i] \in Int
  <2>1. ASSUME NEW i \in 1..n PROVE u[i] \in Int
    <3>1. w[i] * p \in Int
      OBVIOUS
    <3>. QED BY <3>1
  <2>. QED BY <2>1
<1>6. SumTo(v, n) = f[n] /\ SumTo(w, n) = g[n]
  BY <1>1, <1>2, SumToIs
<1>7. SumTo(u, n) = h[n]
  <2>. HIDE DEF h
  <2>. QED BY <1>4, <1>5, SumToIs
<1>. QED BY <1>3, <1>6, <1>7

---------------------------------------------------------------------------
\* The model of the cost.

LEMMA ReadNsIs ==
  ASSUME NEW blocks \in Nat, NEW poll \in Nat
  PROVE  /\ ReadNs(blocks, poll) \in Nat /\ ReadNs(blocks, 0) \in Nat
         /\ ReadNs(blocks, poll) = ReadNs(blocks, 0) + blocks * poll
<1> DEFINE bus == (Bytes(blocks) * 1000) \div 3
<1>1. Bytes(blocks) \in Nat
  BY DEF Bytes
<1>2. bus \in Nat
  <2>1. ASSUME NEW a \in Nat PROVE (a * 1000) \div 3 \in Nat
    OBVIOUS
  <2>. QED BY <1>1, <2>1
<1>3. blocks * poll \in Nat /\ blocks * 0 = 0
  BY ProductIsNatural
<1>4. ReadNs(blocks, poll) = bus + blocks * poll /\ ReadNs(blocks, 0) = bus + blocks * 0
  BY DEF ReadNs
<1>. HIDE DEF bus
<1>. QED BY <1>2, <1>3, <1>4

\* A read more in the trace is its cost more in the model.
LEMMA ModelNsNext ==
  ASSUME NEW tr, tr.blocks \in Seq(Nat), NEW count \in Nat, NEW next,
         next.blocks = Append(tr.blocks, count), NEW poll \in Nat
  PROVE  /\ ModelNs(tr, poll) \in Int
         /\ ModelNs(next, poll) = ModelNs(tr, poll) + ReadNs(count, poll)
<1> DEFINE n == Len(tr.blocks)
           v == [i \in 1..n |-> ReadNs(tr.blocks[i], poll)]
           w == [i \in 1..(n + 1) |-> ReadNs(next.blocks[i], poll)]
<1>1. n \in Nat /\ \A i \in 1..n : tr.blocks[i] \in Nat
  BY LenProperties, ElementOfSeq
<1>2. /\ Len(next.blocks) = n + 1 /\ next.blocks[n + 1] = count
      /\ \A i \in 1..n : next.blocks[i] = tr.blocks[i]
  BY AppendProperties
<1>3. \A i \in 1..(n + 1) : next.blocks[i] \in Nat
  <2>1. \A i \in 1..(n + 1) : i \in 1..n \/ i = n + 1
    BY <1>1
  <2>. QED BY <1>1, <1>2, <2>1
<1>4. \A i \in 1..(n + 1) : w[i] \in Int
  <2>1. ASSUME NEW i \in 1..(n + 1) PROVE w[i] \in Int
    <3>1. w[i] = ReadNs(next.blocks[i], poll)
      OBVIOUS
    <3>2. ReadNs(next.blocks[i], poll) \in Nat
      BY <1>3, ReadNsIs
    <3>. QED BY <3>1, <3>2
  <2>. QED BY <2>1
<1>5. \A i \in 1..n : v[i] = w[i]
  BY <1>1, <1>2
<1>6. w[n + 1] = ReadNs(count, poll)
  BY <1>1, <1>2
<1>7. ModelNs(tr, poll) = SumTo(v, n) /\ ModelNs(next, poll) = SumTo(w, n + 1)
  BY <1>2 DEF ModelNs
<1>. HIDE DEF n, v, w
<1>. QED BY <1>1, <1>4, <1>5, <1>6, <1>7, SumToNext

LEMMA ModelNsEmpty ==
  ASSUME NEW tr, tr.blocks = <<>>, NEW poll PROVE ModelNs(tr, poll) = 0
BY SumToZero DEF ModelNs

\* On a slower card a trace takes as much longer as it has sectors.
LEMMA ModelNsAffine ==
  ASSUME NEW tr, tr.blocks \in Seq(Nat), NEW poll \in Nat
  PROVE  /\ ModelNs(tr, 0) \in Int /\ SumTo(tr.blocks, Len(tr.blocks)) \in Int
         /\ ModelNs(tr, poll) = ModelNs(tr, 0) + SumTo(tr.blocks, Len(tr.blocks)) * poll
<1> DEFINE n == Len(tr.blocks)
           v == [i \in 1..n |-> ReadNs(tr.blocks[i], 0)]
           u == [i \in 1..n |-> ReadNs(tr.blocks[i], poll)]
           w == tr.blocks
<1>1. n \in Nat /\ \A i \in 1..n : w[i] \in Nat
  BY LenProperties, ElementOfSeq
<1>2. ASSUME NEW i \in 1..n
      PROVE  v[i] \in Int /\ w[i] \in Int /\ u[i] = v[i] + w[i] * poll
  <2>1. w[i] \in Nat /\ v[i] = ReadNs(w[i], 0) /\ u[i] = ReadNs(w[i], poll)
    BY <1>1
  <2>. HIDE DEF v, u, w
  <2>2. /\ ReadNs(w[i], 0) \in Nat
        /\ ReadNs(w[i], poll) = ReadNs(w[i], 0) + w[i] * poll
    BY <2>1, ReadNsIs
  <2>. QED BY <2>1, <2>2
<1>3. ModelNs(tr, 0) = SumTo(v, n) /\ ModelNs(tr, poll) = SumTo(u, n)
  BY DEF ModelNs
<1>. HIDE DEF n, v, u, w
<1>4. /\ SumTo(v, n) \in Int /\ SumTo(w, n) \in Int
      /\ SumTo(u, n) = SumTo(v, n) + SumTo(w, n) * poll
  <2>1. Affine(u, v, w, poll, n)
    BY <1>2 DEF Affine
  <2>. QED BY <1>1, <2>1, SumToAffine
<1>. QED BY <1>3, <1>4 DEF n, w

---------------------------------------------------------------------------
\* Types.

\* The library is never counted past its end, nor loaded past it.
CountsInv ==
  /\ pc \notin {"load", "remount", "cold", "report"} \union Searching \union Ends => index = 0
  /\ At("header") => library_count < Tracks
  /\ At("load") => index < library_count

TypeInv == TypeOK /\ CountsInv

\* A read noted is a trace again.
LEMMA TracedIsATrace ==
  ASSUME trace \in Traces, NEW count \in 1..SectorCount
  PROVE  /\ Traced(count) \in Traces
         /\ trace.calls < TraceMax => Traced(count).blocks = Append(trace.blocks, count)
<1>1. /\ trace.calls \in Nat /\ trace.sectors \in Nat /\ trace.dropped \in Nat
      /\ trace.blocks \in Seq(1..SectorCount) /\ Len(trace.blocks) \in Nat
      /\ trace.calls = trace.dropped + Len(trace.blocks) /\ Len(trace.blocks) <= TraceMax
  BY LenProperties DEF Traces
<1>2. /\ Append(trace.blocks, count) \in Seq(1..SectorCount)
      /\ Len(Append(trace.blocks, count)) = Len(trace.blocks) + 1
  BY <1>1, AppendProperties
<1>3. count \in Nat /\ SectorCount \in Nat /\ TraceMax \in Nat
  BY DiskAssumption, BenchAssumption
<1>4. CASE trace.calls < TraceMax
  <2>1. Traced(count) = [calls |-> trace.calls + 1, sectors |-> trace.sectors + count,
                         dropped |-> trace.dropped, blocks |-> Append(trace.blocks, count)]
    BY <1>4 DEF Traced
  <2>2. /\ trace.calls + 1 \in Nat /\ trace.sectors + count \in Nat
        /\ trace.calls + 1 = trace.dropped + (Len(trace.blocks) + 1)
        /\ Len(trace.blocks) + 1 <= TraceMax
    BY <1>1, <1>3, <1>4
  <2>. QED BY <1>1, <1>2, <2>1, <2>2 DEF Traces
<1>5. CASE ~(trace.calls < TraceMax)
  <2>1. Traced(count) = [calls |-> trace.calls + 1, sectors |-> trace.sectors + count,
                         dropped |-> trace.dropped + 1, blocks |-> trace.blocks]
    BY <1>5 DEF Traced
  <2>2. /\ trace.calls + 1 \in Nat /\ trace.sectors + count \in Nat /\ trace.dropped + 1 \in Nat
        /\ trace.calls + 1 = (trace.dropped + 1) + Len(trace.blocks)
    <3> DEFINE c == trace.calls
               s == trace.sectors
               d == trace.dropped
               l == Len(trace.blocks)
    <3>1. c \in Nat /\ s \in Nat /\ d \in Nat /\ l \in Nat /\ c = d + l
      BY <1>1
    <3>. HIDE DEF c, s, d, l
    <3>2. c + 1 \in Nat /\ s + count \in Nat /\ d + 1 \in Nat /\ c + 1 = (d + 1) + l
      BY <1>3, <3>1
    <3>. QED BY <3>2 DEF c, s, d, l
  <2>. QED BY <1>1, <1>5, <2>1, <2>2 DEF Traces
<1>. QED BY <1>4, <1>5

LEMMA NoTraceIsATrace == NoTrace \in Traces /\ NoSpan \in LoadSpans
<1>1. <<>> \in Seq(1..SectorCount) /\ Len(<<>>) = 0
  OBVIOUS
<1>2. NoTrace \in Traces
  BY <1>1, BenchAssumption DEF NoTrace, Traces
<1>. QED BY <1>2 DEF NoSpan, LoadSpans

\* What a charge leaves.
LEMMA ChargeIs ==
  ASSUME debt_ns \in 0..999, clock \in Nat, NEW ns \in Nat, Charge(ns)
  PROVE  /\ debt_ns' \in 0..999 /\ clock' \in Nat
         /\ charging => clock' * 1000 + debt_ns' = clock * 1000 + debt_ns + ns
<1> DEFINE sum == debt_ns + ns
<1>1. sum \in Nat
  OBVIOUS
<1>2. sum \div 1000 \in Nat /\ sum % 1000 \in 0..999 /\ sum % 1000 = sum - (sum \div 1000) * 1000
  <2>1. ASSUME NEW a \in Nat PROVE a \div 1000 \in Nat
    OBVIOUS
  <2>2. ASSUME NEW a \in Nat PROVE a % 1000 \in 0..999
    OBVIOUS
  <2>3. ASSUME NEW a \in Nat PROVE a % 1000 = a - (a \div 1000) * 1000
    OBVIOUS
  <2>. HIDE DEF sum
  <2>. QED BY <1>1, <2>1, <2>2, <2>3
<1>3. CASE charging
  <2>1. clock' = clock + sum \div 1000 /\ debt_ns' = sum % 1000
    BY <1>3 DEF Charge
  <2>. HIDE DEF sum
  <2>2. clock' * 1000 + debt_ns' = clock * 1000 + sum /\ clock' \in Nat
    BY <1>1, <1>2, <2>1
  <2>. QED BY <1>2, <2>1, <2>2 DEF sum
<1>4. CASE ~charging
  BY <1>4 DEF Charge, clockVars
<1>. QED BY <1>3, <1>4

LEMMA TypeInit == Init => TypeInv
<1> SUFFICES ASSUME Init PROVE TypeInv
  OBVIOUS
<1>1. DiskTypeOK
  BY DiskInvInit DEF Init, DiskInv
<1>2. <<>> \in Seq(Nat) /\ <<>> \in Seq(LoadSpans)
  OBVIOUS
<1>3. /\ files \in Seq(Nat) /\ loaded \in Seq(LoadSpans)
      /\ trace \in Traces /\ worst \in LoadSpans
  BY <1>2, NoTraceIsATrace DEF Init
<1>4. /\ library_count \in 0..Tracks /\ index \in 0..Tracks /\ worst_index \in 0..Tracks
      /\ lo \in 0..PollCap /\ hi \in 0..PollCap
  BY BenchAssumption DEF Init
<1>5. /\ target \in Targets /\ pc = "setup" /\ index = 0
      /\ asked \in Nat /\ size \in Nat /\ debt_ns \in 0..999 /\ clock \in Nat
  BY DEF Init
<1>6. charging \in BOOLEAN
  BY DEF Init
<1>. QED BY <1>1, <1>3, <1>4, <1>5, <1>6 DEF TypeInv, TypeOK, CountsInv, At

\* FatFs and the disk: the trace and the clock.
LEMMA TypeAccess ==
  ASSUME TypeInv, DiskTypeOK', Access
  PROVE  TypeInv'
<1> USE DEF TypeInv, CountsInv, At
<1>1. ASSUME NEW x \in Transfers, DiskWrite(x) PROVE TypeInv'
  BY <1>1 DEF TypeOK, DiskWrite, AccessWanted, setupVars, clockVars, resultVars, searchVars
<1>2. ASSUME NEW x \in Transfers, DiskRead(x) PROVE TypeInv'
  <2>1. trace' \in Traces
    <3>1. CASE io' = Idle
      BY <1>2, <3>1 DEF DiskRead, TypeOK
    <3>2. CASE io' # Idle
      <4>1. x.start \in Nat /\ x.count \in Nat /\ x.start + x.count <= SectorCount /\ x.count > 0
        BY <1>2, <3>2, BenchAssumption DEF DiskRead, Transfer
      <4>2. x.count \in 1..SectorCount
        BY <4>1, DiskAssumption
      <4>. QED BY <1>2, <3>2, <4>2, TracedIsATrace DEF DiskRead, TypeOK
    <3>. QED BY <3>1, <3>2
  <2>. QED BY <1>2, <2>1 DEF TypeOK, DiskRead, AccessWanted, setupVars, clockVars, resultVars, searchVars
<1>3. CASE DiskWork
  <2>1. debt_ns' \in 0..999 /\ clock' \in Nat
    <3>1. CASE io.op = "read" /\ io' = Idle
      <4>1. io.end - io.start \in Nat
        BY <3>1 DEF TypeOK, DiskTypeOK
      <4>2. ReadNs(io.end - io.start, DefaultPoll) \in Nat
        BY <4>1, ReadNsIs, BenchAssumption
      <4>. QED BY <1>3, <3>1, <4>2, ChargeIs DEF DiskWork, TypeOK
    <3>2. CASE ~(io.op = "read" /\ io' = Idle)
      BY <1>3, <3>2 DEF DiskWork, TypeOK, clockVars
    <3>. QED BY <3>1, <3>2
  <2>. QED BY <1>3, <2>1 DEF TypeOK, DiskWork, setupVars, resultVars, searchVars
<1>. QED BY <1>1, <1>2, <1>3 DEF Access

\* sim_card_setup: the sizes of the tracks.
LEMMA TypeMaking ==
  ASSUME TypeInv, DiskTypeOK', Making
  PROVE  TypeInv'
<1>1. Len(files) \in Nat /\ Wanted \in Nat
  <2>1. Len(files) \in Nat
    BY LenProperties DEF TypeInv, TypeOK
  <2>. QED BY <2>1, ProductIsNatural, BenchAssumption DEF Wanted
<1>2. size' \in Nat
  <2>1. ASSUME WriteChunk PROVE size' \in Nat
    <3>1. PICK len \in Pieces : \E written \in 1..Piece(len) : size' = size + written
      BY <2>1 DEF WriteChunk
    <3>. QED BY <1>1, <3>1, BenchAssumption DEF Piece, TypeInv, TypeOK
  <2>. QED BY <2>1 DEF Making, Setup, SetupFails, Mkfs, MountToWrite, OpenTrack, LastChunk,
         CloseTrack, UnmountFresh, setupVars, TypeInv, TypeOK
<1>3. files' \in Seq(Nat)
  <2>1. ASSUME CloseTrack PROVE files' \in Seq(Nat)
    BY <2>1, AppendProperties DEF CloseTrack, TypeInv, TypeOK
  <2>. QED BY <2>1 DEF Making, Setup, SetupFails, Mkfs, MountToWrite, OpenTrack, WriteChunk,
         LastChunk, UnmountFresh, setupVars, TypeInv, TypeOK
<1>4. asked' \in Nat /\ pc' \in SetupSteps \union {"arm", "failed"}
  BY DEF Making, Setup, SetupFails, Mkfs, MountToWrite, OpenTrack, WriteChunk, LastChunk,
         CloseTrack, UnmountFresh, SetupStep, Goto, SetupSteps
<1>5. UNCHANGED <<target, charging, clockVars, trace, resultVars, searchVars>>
  BY DEF Making, Setup, SetupFails, Mkfs, MountToWrite, OpenTrack, WriteChunk, LastChunk,
         CloseTrack, UnmountFresh, SetupStep, setupVars
<1>6. TypeOK'
  BY <1>2, <1>3, <1>4, <1>5 DEF TypeInv, TypeOK, clockVars, resultVars, searchVars, Ends
<1>7. CountsInv'
  <2>1. index = 0 \/ pc' = "failed"
    BY DEF TypeInv, CountsInv, Searching, Ends, SetupSteps, Making, Setup, SetupFails, Mkfs, MountToWrite,
           OpenTrack, WriteChunk, LastChunk, CloseTrack, UnmountFresh, SetupStep, At, Fails
  <2>. QED BY <1>4, <1>5, <2>1 DEF CountsInv, At, SetupSteps, resultVars, Ends
<1>. QED BY <1>6, <1>7 DEF TypeInv

\* What a window has taken is a span.
LEMMA SpansAreSpans ==
  ASSUME TypeOK, NEW span \in Spans
  PROVE  span \in LoadSpans
<1>1. CASE Simulated
  BY <1>1 DEF Spans, LoadSpans, TypeOK
<1>2. CASE ~Simulated
  <2>1. PICK us \in BoardTimes : span = [us |-> clock + us, trace |-> trace]
    BY <1>2 DEF Spans
  <2>2. clock + us \in Nat
    BY <2>1, BenchAssumption DEF TypeOK
  <2>. QED BY <2>1, <2>2 DEF LoadSpans, TypeOK
<1>. QED BY <1>1, <1>2

\* The rest of main.
LEMMA TypeMeasuring ==
  ASSUME TypeInv, DiskTypeOK', Measuring
  PROVE  TypeInv'
<1> USE DEF At
<1>1. asked' \in Nat /\ pc' \in {"failed", "report"} \union Measured
  BY DEF Measuring, Arm, Mount, MountFails, OpenDir, OpenDirFails, ReadDir, ReadHeader, ScanEnds,
         ReadDirFails, Load, LoadFails, LoadStep, Remount, ColdLoad, GiveUp, Main, Goto, Measured
<1>2. charging' \in BOOLEAN /\ debt_ns' \in 0..999 /\ clock' \in Nat /\ trace' \in Traces
  <2>1. ASSUME SpanStart PROVE clock' \in Nat /\ debt_ns' \in 0..999 /\ trace' \in Traces
    BY <2>1, NoTraceIsATrace DEF SpanStart, TypeInv, TypeOK
  <2>2. CASE Arm
    BY <2>2, NoTraceIsATrace DEF Arm, Simulated
  <2>3. CASE Mount \/ ScanEnds \/ Remount \/ LoadStep
    BY <2>1, <2>3 DEF Mount, ScanEnds, Remount, LoadStep, Main, setupVars, TypeInv, TypeOK
  <2>4. CASE UNCHANGED <<setupVars, clockVars, trace>>
    BY <2>4 DEF setupVars, clockVars, TypeInv, TypeOK
  <2>. QED BY <2>2, <2>3, <2>4 DEF Measuring, MountFails, OpenDir, OpenDirFails, ReadDir, ReadHeader,
         ReadDirFails, Load, LoadFails, ColdLoad, GiveUp, Main
<1>3. UNCHANGED <<target, size, files, lo, hi>>
  BY DEF Measuring, Arm, Mount, MountFails, OpenDir, OpenDirFails, ReadDir, ReadHeader, ScanEnds,
         ReadDirFails, Load, LoadFails, LoadStep, Remount, ColdLoad, GiveUp, Main, setupVars, searchVars
<1>4. /\ library_count' \in 0..Tracks /\ index' \in 0..Tracks /\ worst_index' \in 0..Tracks
      /\ CountsInv'
  <2> USE BenchAssumption DEF TypeInv, TypeOK, CountsInv, Goto, Main, resultVars, Searching, Ends
  <2>1. CASE Arm \/ Mount \/ MountFails \/ OpenDir \/ OpenDirFails \/ ReadDirFails \/ Remount \/ GiveUp("readdir")
    BY <2>1 DEF Arm, Mount, MountFails, OpenDir, OpenDirFails, ReadDirFails, Remount, GiveUp
  <2>2. CASE ReadDir
    BY <2>2 DEF ReadDir
  <2>3. CASE ReadHeader
    BY <2>3 DEF ReadHeader
  <2>4. CASE ScanEnds
    BY <2>4 DEF ScanEnds
  <2>5. CASE LoadStep /\ worst_index' \in {worst_index, index}
    BY <2>5 DEF LoadStep
  <2>6. CASE ColdLoad
    BY <2>6 DEF ColdLoad
  <2>7. ASSUME Load \/ LoadFails PROVE LoadStep /\ worst_index' \in {worst_index, index}
    BY <2>7 DEF Load, LoadFails
  <2>. QED BY <2>1, <2>2, <2>3, <2>4, <2>5, <2>6, <2>7 DEF Measuring
<1>5. worst' \in LoadSpans /\ loaded' \in Seq(LoadSpans)
  <2>1. worst \in LoadSpans /\ loaded \in Seq(LoadSpans) /\ TypeOK
    BY DEF TypeInv, TypeOK
  <2>2. CASE Load
    <3>1. PICK span \in Spans : loaded' = Append(loaded, span) /\ worst' \in {span, worst}
      BY <2>2 DEF Load
    <3>. QED BY <2>1, <3>1, SpansAreSpans, AppendProperties
  <2>3. CASE ColdLoad
    <3>1. PICK span \in Spans : loaded' \in {loaded, Append(loaded, span)} /\ worst' \in {span, worst}
      BY <2>3 DEF ColdLoad, WorstWithCold
    <3>. QED BY <2>1, <3>1, SpansAreSpans, AppendProperties
  <2>4. CASE UNCHANGED <<worst, loaded>>
    BY <2>1, <2>4
  <2>. QED BY <2>2, <2>3, <2>4 DEF Measuring, Arm, Mount, MountFails, OpenDir, OpenDirFails, ReadDir,
         ReadHeader, ScanEnds, ReadDirFails, LoadFails, Remount, GiveUp, resultVars
<1>6. pc' \in {"setup", "arm", "report", "search"} \union SetupSteps \union Measured \union Ends
  BY <1>1 DEF Ends
<1>. QED BY <1>1, <1>2, <1>3, <1>4, <1>5, <1>6 DEF TypeInv, TypeOK

LEMMA TypeStep == TypeInv /\ DiskTypeOK' /\ SearchInv' /\ [Next]_benchVars => TypeInv'
<1> SUFFICES ASSUME TypeInv, DiskTypeOK', SearchInv', [Next]_benchVars PROVE TypeInv'
  OBVIOUS
<1>1. CASE Reporting
  <2>1. asked' \in Nat /\ pc' \in {"search", "done"}
    BY <1>1 DEF Reporting, Report, Search, SearchEnds, Main, Goto, At, TypeInv, TypeOK
  <2>2. UNCHANGED <<target, setupVars, clockVars, trace, resultVars>>
    BY <1>1 DEF Reporting, Report, Search, SearchEnds, Main
  <2>3. lo' \in 0..PollCap /\ hi' \in 0..PollCap
    BY BenchAssumption DEF SearchInv
  <2>. QED BY <2>1, <2>2, <2>3 DEF TypeInv, TypeOK, CountsInv, At, Ends, Searching, setupVars, clockVars, resultVars
<1>2. CASE Exited \/ UNCHANGED benchVars
  <2>1. UNCHANGED <<target, pc, asked, setupVars, clockVars, trace, resultVars, searchVars>>
    BY <1>2 DEF Exited, benchVars
  <2>. QED BY <2>1 DEF TypeInv, TypeOK, CountsInv, At, setupVars, clockVars, resultVars, searchVars
<1>. QED BY <1>1, <1>2, TypeAccess, TypeMaking, TypeMeasuring DEF Next

\* Every variable keeps its type, whatever the card, the costs and the times.
THEOREM BenchTypes == Spec => []TypeOK
<1>1. DiskInv => DiskTypeOK
  BY DEF DiskInv
<1>2. TypeInv => TypeOK
  BY DEF TypeInv
<1>. QED BY <1>1, <1>2, TypeInit, TypeStep, SearchInvInit, SearchInvStep, BenchUsesTheDisk, TableIsSound,
        PTL DEF Spec

---------------------------------------------------------------------------
\* The card that is measured.

\* Nothing but the making of the card fills it.
FatInv ==
  /\ pc \in SetupSteps => Simulated
  /\ pc \notin SetupSteps \union {"failed"} => got # NoSpace /\ io.op # "write"

LEMMA ReadGivesContents == DiskInv => \A s \in Sectors : Read(s) \in Contents
<1> SUFFICES ASSUME DiskInv, NEW s \in Sectors PROVE Read(s) \in Contents
  OBVIOUS
<1>1. SlotOf(s) \in Places
  BY SlotOfStops DEF DiskInv
<1>2. PageFind(s) \in 0..MaxPages
  BY <1>1 DEF PageFind, DiskInv, DiskTypeOK
<1>3. PageFind(s) # 0 => PageFind(s) \in 1..MaxPages
  BY <1>2, DiskAssumption
<1>. QED BY <1>3, DiskAssumption DEF Read, DiskInv, DiskTypeOK

LEMMA FatInit == Init => FatInv
BY DEF Init, DiskInit, FatInv, SetupSteps, Nothing, NoSpace, Idle

LEMMA FatStep == FatInv /\ DiskInv /\ [Next]_benchVars => FatInv'
<1> SUFFICES ASSUME FatInv, DiskInv, [Next]_benchVars PROVE FatInv'
  OBVIOUS
<1>1. CASE Access
  <2>1. UNCHANGED <<target, pc>>
    BY <1>1 DEF Access, DiskWrite, DiskRead, DiskWork
  <2>2. CASE pc \in SetupSteps \union {"failed"}
    BY <2>1, <2>2 DEF FatInv, Simulated
  <2>3. CASE pc \notin SetupSteps \union {"failed"}
    <3>1. ASSUME NEW x \in Transfers, DiskRead(x) PROVE got' = got /\ io'.op # "write"
      BY <3>1 DEF DiskRead, Transfer, Idle
    <3>2. ASSUME DiskWork PROVE got' # NoSpace /\ io'.op # "write"
      <4>1. ReadSector
        BY <2>3, <3>2 DEF FatInv, DiskWork, DiskStep, OverwriteSector, MaterialiseSector, OutOfPages
      <4>2. io.next \in Sectors
        BY <4>1, AtASector DEF ReadSector, DiskInv
      <4>3. got' \in Contents
        BY <4>1, <4>2, ReadGivesContents DEF ReadSector
      <4>4. io'.op # "write"
        <5>1. io.op = "read" /\ Advance /\ io \in [op : {"none", "read", "write"}, start : Nat, next : Nat, end : 0..SectorCount]
          BY <4>1 DEF ReadSector, DiskInv, DiskTypeOK
        <5>. QED BY <5>1 DEF Advance, Idle
      <4>. QED BY <4>3, <4>4, DiskAssumption
    <3>3. \A x \in Transfers : ~DiskWrite(x)
      BY <2>3 DEF DiskWrite
    <3>. QED BY <1>1, <2>1, <2>3, <3>1, <3>2, <3>3 DEF Access, FatInv
  <2>. QED BY <2>2, <2>3
<1>2. CASE Making
  <2>1. UNCHANGED <<target, io, got>>
    BY <1>2 DEF Making, Setup, SetupFails, Mkfs, MountToWrite, OpenTrack, WriteChunk, LastChunk,
         CloseTrack, UnmountFresh, SetupStep, diskVars
  <2>2. CASE Setup
    BY <2>1, <2>2 DEF Setup, At, Goto, FatInv, SetupSteps, Simulated
  <2>3. CASE SetupFails
    BY <2>1, <2>3 DEF SetupFails, Goto, FatInv, SetupSteps, Simulated
  <2>4. ASSUME NEW from \in SetupSteps, NEW to \in SetupSteps \union {"arm"}, SetupStep(from, to)
        PROVE  FatInv'
    <3>1. Simulated /\ io = Idle /\ got # NoSpace /\ pc' = to
      BY <2>4 DEF SetupStep, At, Goto, Works, Over, FatInv
    <3>. QED BY <2>1, <3>1 DEF FatInv, Simulated, Idle
  <2>5. CASE Mkfs \/ MountToWrite \/ OpenTrack \/ WriteChunk \/ LastChunk \/ CloseTrack \/ UnmountFresh
    <3>1. \E from \in SetupSteps, to \in SetupSteps \union {"arm"} : SetupStep(from, to)
      BY <2>5 DEF Mkfs, MountToWrite, OpenTrack, WriteChunk, LastChunk, CloseTrack, UnmountFresh, SetupSteps
    <3>. QED BY <2>4, <3>1
  <2>. QED BY <1>2, <2>2, <2>3, <2>5 DEF Making
<1>3. CASE Measuring \/ Reporting
  <2>1. UNCHANGED <<target, io, got>>
    BY <1>3 DEF Measuring, Arm, Mount, MountFails, OpenDir, OpenDirFails, ReadDir, ReadHeader, ScanEnds,
         ReadDirFails, Load, LoadFails, LoadStep, Remount, ColdLoad, GiveUp, Main,
         Reporting, Report, Search, SearchEnds, diskVars
  <2>2. pc \notin SetupSteps \union {"failed"} /\ pc' \notin SetupSteps
    BY <1>3 DEF Measuring, Arm, Mount, MountFails, OpenDir, OpenDirFails, ReadDir, ReadHeader, ScanEnds,
         ReadDirFails, Load, LoadFails, LoadStep, Remount, ColdLoad, GiveUp, Main,
         Reporting, Report, Search, SearchEnds, At, Goto, SetupSteps
  <2>. QED BY <2>1, <2>2 DEF FatInv
<1>4. CASE Exited \/ UNCHANGED benchVars
  BY <1>4 DEF Exited, benchVars, diskVars, FatInv, Simulated
<1>. QED BY <1>1, <1>2, <1>3, <1>4 DEF Next

\* The tracks made so far are as large as asked, and there are all of them when
\* the card is measured.
Made == {"unmount", "arm", "report"} \union Measured \union Searching

FilesInv ==
  Simulated =>
    /\ \A i \in DOMAIN files : files[i] = i * Step
    /\ pc \in {"setup", "mkfs", "mount"} => files = <<>>
    /\ pc \in {"open", "chunk", "close"} => Len(files) < Tracks
    /\ At("chunk") => size <= Wanted
    /\ At("close") => size = Wanted
    /\ pc \in Made => Len(files) = Tracks

LEMMA TargetKept == [Next]_benchVars => target' = target
<1>1. Access => target' = target
  BY DEF Access, DiskWrite, DiskRead, DiskWork
<1>2. Making => target' = target
  BY DEF Making, Setup, SetupFails, Mkfs, MountToWrite, OpenTrack, WriteChunk, LastChunk, CloseTrack,
         UnmountFresh, SetupStep
<1>3. Measuring => target' = target
  BY DEF Measuring, Arm, Mount, MountFails, OpenDir, OpenDirFails, ReadDir, ReadHeader, ScanEnds,
         ReadDirFails, Load, LoadFails, LoadStep, Remount, ColdLoad, GiveUp, Main
<1>4. Reporting => target' = target
  BY DEF Reporting, Report, Search, SearchEnds, Main
<1>. QED BY <1>1, <1>2, <1>3, <1>4 DEF Next, Exited, benchVars

LEMMA FilesInit == Init => FilesInv
<1> SUFFICES ASSUME Init PROVE FilesInv
  OBVIOUS
<1>1. files = <<>> /\ pc = "setup" /\ DOMAIN <<>> = {}
  BY DEF Init
<1>. QED BY <1>1 DEF FilesInv, At, Made, Measured, Searching

LEMMA FilesStep == FilesInv /\ FatInv /\ TypeInv /\ [Next]_benchVars => FilesInv'
<1> SUFFICES ASSUME FilesInv, FatInv, TypeInv, [Next]_benchVars PROVE FilesInv'
  OBVIOUS
<1>0. Simulated' = Simulated
  BY TargetKept DEF Simulated
<1> SUFFICES ASSUME Simulated PROVE FilesInv'
  BY <1>0 DEF FilesInv
<1> USE DEF FilesInv, At, Goto
<1>1. /\ files \in Seq(Nat) /\ size \in Nat /\ Len(files) \in Nat /\ Tracks \in Nat \ {0} /\ Step \in Nat
      /\ Wanted \in Nat /\ Wanted = (Len(files) + 1) * Step
  <2>1. files \in Seq(Nat) /\ size \in Nat /\ Len(files) \in Nat
    BY LenProperties DEF TypeInv, TypeOK
  <2>. QED BY <2>1, ProductIsNatural, BenchAssumption DEF Wanted
<1>2. CASE UNCHANGED <<pc, size, files>>
  <2>1. Wanted' = Wanted
    BY <1>2 DEF Wanted
  <2>. QED BY <1>2, <2>1
<1>3. CASE UNCHANGED <<size, files>> /\ pc \in Made /\ pc' \in Made \union {"failed"}
  BY <1>3 DEF Made, Measured, Searching
<1>4. CASE Access
  BY <1>2, <1>4 DEF Access, DiskWrite, DiskRead, DiskWork, setupVars
<1>5. CASE Making
  <2>1. CASE Setup \/ SetupFails
    <3>1. UNCHANGED <<size, files>> /\ ((pc = "setup" /\ pc' = "mkfs") \/ pc' = "failed")
      BY <2>1 DEF Setup, SetupFails, setupVars
    <3>. QED BY <3>1 DEF Made, Measured, Searching
  <2>2. CASE Mkfs \/ MountToWrite
    <3>1. /\ UNCHANGED <<size, files>>
          /\ (pc = "mkfs" /\ pc' = "mount") \/ (pc = "mount" /\ pc' = "open")
      BY <2>2 DEF Mkfs, MountToWrite, SetupStep
    <3>2. files = <<>> /\ Len(files) = 0 /\ 0 < Tracks
      BY <1>1, <3>1
    <3>. QED BY <3>1, <3>2 DEF Made, Measured, Searching
  <2>7. CASE OpenTrack
    <3>1. UNCHANGED files /\ size' = 0 /\ pc = "open" /\ pc' = "chunk"
      BY <2>7 DEF OpenTrack, SetupStep
    <3>2. Wanted' \in Nat /\ Wanted' >= 0
      BY <1>1, <3>1 DEF Wanted
    <3>. QED BY <3>1, <3>2 DEF Made, Measured, Searching
  <2>3. CASE WriteChunk
    <3>1. PICK len \in Pieces : \E written \in 1..Piece(len) : size' = size + written
      BY <2>3 DEF WriteChunk
    <3>2. size' <= Wanted
      BY <1>1, <3>1, BenchAssumption DEF Piece
    <3>. QED BY <2>3, <3>2 DEF WriteChunk, SetupStep, Made, Measured, Searching, Wanted
  <2>4. CASE LastChunk
    BY <1>1, <2>4 DEF LastChunk, SetupStep, Made, Measured, Searching, Wanted
  <2>5. CASE CloseTrack
    <3>1. files' = Append(files, size) /\ size = Wanted /\ Len(files) < Tracks
          /\ pc' = IF Len(files) + 1 < Tracks THEN "open" ELSE "unmount"
      BY <2>5 DEF CloseTrack, SetupStep
    <3>2. /\ Len(files') = Len(files) + 1 /\ files'[Len(files) + 1] = size
          /\ \A i \in 1..Len(files) : files'[i] = files[i]
          /\ DOMAIN files' = 1..(Len(files) + 1) /\ DOMAIN files = 1..Len(files)
      BY <1>1, <3>1, AppendProperties, LenProperties
    <3>3. \A i \in DOMAIN files' : files'[i] = i * Step
      <4>1. \A i \in 1..(Len(files) + 1) : i \in 1..Len(files) \/ i = Len(files) + 1
        BY <1>1
      <4>. QED BY <1>1, <3>1, <3>2, <4>1
    <3>4. pc' = "open" => Len(files') < Tracks
      BY <1>1, <3>1, <3>2
    <3>5. pc' = "unmount" => Len(files') = Tracks
      <4>1. pc' = "unmount" => ~(Len(files) + 1 < Tracks)
        BY <3>1
      <4>2. Tracks \in Nat /\ Len(files) \in Nat /\ Len(files) < Tracks /\ Len(files') = Len(files) + 1
        BY <1>1, <3>1, <3>2
      <4> DEFINE l == Len(files)
                 m == Len(files')
      <4>. HIDE DEF l, m
      <4>3. ~(l + 1 < Tracks) => m = Tracks
        BY <4>2 DEF l, m
      <4>. QED BY <4>1, <4>3 DEF l, m
    <3>. QED BY <3>1, <3>3, <3>4, <3>5 DEF Made, Measured, Searching
  <2>6. CASE UnmountFresh
    BY <1>3, <2>6 DEF UnmountFresh, SetupStep, Made, Measured
  <2>. QED BY <1>5, <2>1, <2>2, <2>3, <2>4, <2>5, <2>6, <2>7 DEF Making
<1>6. CASE Measuring \/ Reporting
  <2>1. UNCHANGED <<size, files>>
    BY <1>6 DEF Measuring, Arm, Mount, MountFails, OpenDir, OpenDirFails, ReadDir, ReadHeader, ScanEnds,
         ReadDirFails, Load, LoadFails, LoadStep, Remount, ColdLoad, GiveUp, Main,
         Reporting, Report, Search, SearchEnds, setupVars
  <2>2. pc \in Made /\ pc' \in Made \union {"failed"}
    BY <1>6 DEF Measuring, Arm, Mount, MountFails, OpenDir, OpenDirFails, ReadDir, ReadHeader, ScanEnds,
         ReadDirFails, Load, LoadFails, LoadStep, Remount, ColdLoad, GiveUp, Main,
         Reporting, Report, Search, SearchEnds, Made, Measured, Searching
  <2>. QED BY <1>3, <2>1, <2>2
<1>7. CASE Exited \/ UNCHANGED benchVars
  BY <1>2, <1>7 DEF Exited, benchVars, setupVars
<1>. QED BY <1>4, <1>5, <1>6, <1>7 DEF Next
---------------------------------------------------------------------------
\* The window of a load.

\* What the cheapest read costs.
Cheapest == ReadNs(1, DefaultPoll)

\* What the clock has over the model of a trace: less than a microsecond if nothing is
\* missing from the trace, and no less than the cheapest reads that may be missing.
Accounts(ns, tr) ==
  /\ tr.dropped = 0 =>
       ns - ModelNs(tr, DefaultPoll) <= 999 /\ tr.sectors = SumTo(tr.blocks, Len(tr.blocks))
  /\ ns - ModelNs(tr, DefaultPoll) >= tr.dropped * Cheapest

Modelled(span) ==
  /\ span.trace.dropped = 0 =>
       /\ span.us - ModelUs(span.trace, DefaultPoll) \in {0, 1}
       /\ span.trace.sectors = SumTo(span.trace.blocks, Len(span.trace.blocks))
  /\ span.us - ModelUs(span.trace, DefaultPoll) >= (span.trace.dropped * Cheapest) \div 1000

\* What the read under way will be charged.
Pending == IF io.op = "read" THEN ReadNs(io.end - io.start, DefaultPoll) ELSE 0

\* Every read is charged and, as far as there is room, in the trace, but for what the
\* window found owed.
WindowIsModelled == Accounts(clock * 1000 + debt_ns + Pending, trace)

WindowInv ==
  Simulated =>
    /\ pc \in Measured => charging
    /\ pc \in {"load", "cold"} => WindowIsModelled
    /\ \A i \in DOMAIN loaded : Modelled(loaded[i])

LEMMA TracesHaveBlocks ==
  ASSUME NEW tr \in Traces
  PROVE  tr.blocks \in Seq(Nat) /\ tr.calls \in Nat /\ tr.sectors \in Nat /\ tr.dropped \in Nat
<1>1. tr.blocks \in Seq(1..SectorCount) /\ 1..SectorCount \subseteq Nat
  BY DEF Traces
<1>2. \A A, B : A \subseteq B => Seq(A) \subseteq Seq(B)
  OBVIOUS
<1>. QED BY <1>1, <1>2 DEF Traces

LEMMA CheapestIs ==
  /\ Cheapest \in Nat
  /\ \A count \in Nat \ {0} : ReadNs(count, DefaultPoll) \in Nat /\ ReadNs(count, DefaultPoll) >= Cheapest
<1>1. \A count \in Nat : ReadNs(count, DefaultPoll) \in Nat
  BY ReadNsIs, BenchAssumption
<1>2. ASSUME NEW count \in Nat \ {0}
      PROVE  ReadNs(count, DefaultPoll) >= Cheapest
  <2> DEFINE a == (Bytes(count) * 1000) \div 3
             b == (Bytes(1) * 1000) \div 3
             p == count * DefaultPoll
  <2>1. Bytes(count) \in Nat /\ Bytes(1) \in Nat /\ Bytes(count) >= Bytes(1)
    BY DEF Bytes
  <2>2. a \in Nat /\ b \in Nat /\ a >= b
    <3>1. \A m, n \in Nat : m >= n =>
            (m * 1000) \div 3 \in Nat /\ (n * 1000) \div 3 \in Nat /\ (m * 1000) \div 3 >= (n * 1000) \div 3
      OBVIOUS
    <3>. QED BY <2>1, <3>1
  <2>3. p \in Nat /\ DefaultPoll \in Nat /\ p >= DefaultPoll
    <3>1. (count - 1) * DefaultPoll \in Nat /\ p = (count - 1) * DefaultPoll + DefaultPoll
      BY ProductIsNatural, BenchAssumption
    <3>. QED BY <3>1, BenchAssumption
  <2>4. ReadNs(count, DefaultPoll) = a + p /\ Cheapest = b + DefaultPoll
    BY BenchAssumption DEF ReadNs, Cheapest
  <2>. HIDE DEF a, b, p
  <2>. QED BY <2>2, <2>3, <2>4
<1>. QED BY <1>1, <1>2 DEF Cheapest

\* The clock of the window that ends.
LEMMA WindowEnds ==
  ASSUME TypeOK, WindowIsModelled, Over
  PROVE  Modelled([us |-> clock, trace |-> trace])
<1> DEFINE ns == ModelNs(trace, DefaultPoll)
           d == trace.dropped
           lost == d * Cheapest
<1>1. ns \in Int /\ clock \in Nat /\ debt_ns \in 0..999 /\ d \in Nat
  BY TracesHaveBlocks, ModelNsAffine, BenchAssumption DEF TypeOK
<1>2. lost \in Nat /\ (d = 0 => lost = 0)
  BY <1>1, CheapestIs, ProductIsNatural
<1>3. Pending = 0
  BY DEF Over, Idle, Pending
<1>4. /\ d = 0 => (clock * 1000 + debt_ns + 0) - ns <= 999 /\ trace.sectors = SumTo(trace.blocks, Len(trace.blocks))
      /\ (clock * 1000 + debt_ns + 0) - ns >= lost
  BY <1>3 DEF WindowIsModelled, Accounts
<1>5. /\ d = 0 => clock - (ns \div 1000) \in {0, 1}
      /\ clock - (ns \div 1000) >= lost \div 1000
  <2>. HIDE DEF ns, d, lost
  <2>1. \A n \in Int : /\ n \div 1000 \in Int
                      /\ (n \div 1000) * 1000 <= n /\ n < (n \div 1000) * 1000 + 1000
    OBVIOUS
  <2> DEFINE q == ns \div 1000
             l == lost \div 1000
  <2>2. /\ q \in Int /\ q * 1000 <= ns /\ ns < q * 1000 + 1000
        /\ l \in Int /\ l * 1000 <= lost
    BY <1>1, <1>2, <2>1
  <2>3. (clock * 1000 + debt_ns) - ns >= lost /\ (d = 0 => (clock * 1000 + debt_ns) - ns <= 999)
    BY <1>1, <1>4
  <2>. HIDE DEF q, l
  <2>4. clock - q >= l
    <3>1. (clock - q) * 1000 > l * 1000 - 1000
      <4>1. clock * 1000 >= (lost + ns) - 999
        BY <1>1, <1>2, <2>3
      <4>. QED BY <1>1, <1>2, <2>2, <4>1
    <3>. QED BY <1>1, <2>2, <3>1
  <2>5. d = 0 => clock - q \in {0, 1}
    BY <1>1, <1>2, <2>2, <2>3
  <2>. QED BY <2>4, <2>5 DEF q, l
<1>. QED BY <1>4, <1>5 DEF Modelled, ModelUs

\* A window that begins owes what the last one left.
LEMMA WindowBegins ==
  ASSUME TypeOK, Over, SpanStart, io' = io
  PROVE  WindowIsModelled'
<1>1. trace' = NoTrace /\ clock' = 0 /\ debt_ns' = debt_ns /\ debt_ns \in 0..999
  BY DEF SpanStart, TypeOK
<1>2. NoTrace.blocks = <<>> /\ Len(<<>>) = 0 /\ NoTrace.sectors = 0 /\ NoTrace.dropped = 0
  BY DEF NoTrace
<1>3. ModelNs(trace', DefaultPoll) = 0 /\ SumTo(trace'.blocks, Len(trace'.blocks)) = 0
  BY <1>1, <1>2, ModelNsEmpty, SumToZero
<1>4. Pending' = 0
  BY DEF Over, Idle, Pending
<1>5. 0 * Cheapest = 0
  BY CheapestIs
<1>. QED BY <1>1, <1>2, <1>3, <1>4, <1>5 DEF WindowIsModelled, Accounts

\* A read that is noted, or finds no room in the trace.
LEMMA TracedAccounts ==
  ASSUME TypeOK, NEW ns \in Int, Accounts(ns, trace), NEW count \in 1..SectorCount
  PROVE  Accounts(ns + ReadNs(count, DefaultPoll), Traced(count))
<1> DEFINE r == ReadNs(count, DefaultPoll)
           m == ModelNs(trace, DefaultPoll)
           d == trace.dropped
           c == Cheapest
           next == Traced(count)
<1>1. trace \in Traces /\ trace.calls \in Nat /\ trace.blocks \in Seq(Nat) /\ trace.sectors \in Nat /\ d \in Nat
  BY TracesHaveBlocks DEF TypeOK
<1>2. count \in Nat \ {0} /\ c \in Nat /\ r \in Nat /\ r >= c
  BY CheapestIs, DiskAssumption
<1>3. m \in Int
  BY <1>1, ModelNsAffine, BenchAssumption
<1>4. /\ d = 0 => ns - m <= 999 /\ trace.sectors = SumTo(trace.blocks, Len(trace.blocks))
      /\ ns - m >= d * c
  BY DEF Accounts
<1>5. d * c \in Nat /\ (d + 1) * c = d * c + c
  <2>. HIDE DEF d, c
  <2>. QED BY <1>1, <1>2, ProductIsNatural
<1>6. CASE trace.calls < TraceMax
  <2>1. /\ next.blocks = Append(trace.blocks, count) /\ next.dropped = d
        /\ next.sectors = trace.sectors + count
    BY <1>6 DEF Traced
  <2>2. ModelNs(next, DefaultPoll) = m + r
    BY <1>1, <1>2, <2>1, ModelNsNext, BenchAssumption
  <2>3. SumTo(next.blocks, Len(next.blocks)) = SumTo(trace.blocks, Len(trace.blocks)) + count
    <3> DEFINE n == Len(trace.blocks)
               w == trace.blocks
               w2 == Append(trace.blocks, count)
    <3>1. n \in Nat /\ Len(w2) = n + 1 /\ w2[n + 1] = count
          /\ \A i \in 1..n : w[i] \in Nat /\ w2[i] = w[i]
      BY <1>1, <1>2, LenProperties, ElementOfSeq, AppendProperties
    <3>2. \A i \in 1..(n + 1) : w2[i] \in Int
      <4>1. \A i \in 1..(n + 1) : i \in 1..n \/ i = n + 1
        BY <3>1
      <4>. QED BY <1>2, <3>1, <4>1
    <3>. HIDE DEF n, w, w2
    <3>3. n \in Nat /\ \A i \in 1..n : w[i] = w2[i]
      BY <3>1
    <3>4. SumTo(w2, n + 1) = SumTo(w, n) + w2[n + 1]
      BY <3>2, <3>3, SumToNext
    <3>. QED BY <2>1, <3>1, <3>4 DEF n, w, w2
  <2> DEFINE m2 == ModelNs(next, DefaultPoll)
             e == d * c
  <2>4. /\ d = 0 => (ns + r) - m2 <= 999
        /\ (ns + r) - m2 >= e
    <3>1. m2 = m + r /\ (d = 0 => ns - m <= 999) /\ ns - m >= e /\ e \in Nat
      BY <1>4, <1>5, <2>2
    <3>. HIDE DEF m2, m, r, e, d
    <3>. QED BY <1>2, <1>3, <3>1
  <2>5. d = 0 => next.sectors = SumTo(next.blocks, Len(next.blocks))
    BY <1>4, <2>1, <2>3
  <2>. QED BY <2>1, <2>4, <2>5 DEF Accounts
<1>7. CASE ~(trace.calls < TraceMax)
  <2>1. next.blocks = trace.blocks /\ next.dropped = d + 1
    BY <1>7 DEF Traced
  <2>2. ModelNs(next, DefaultPoll) = m
    BY <2>1 DEF ModelNs
  <2>3. (ns + r) - m >= (d + 1) * c
    <3> DEFINE e == d * c
    <3>1. ns - m >= e /\ e \in Nat /\ (d + 1) * c = e + c
      BY <1>4, <1>5
    <3>. HIDE DEF m, r, e, d, c
    <3>2. (ns + r) - m >= e + c
      BY <1>2, <1>3, <3>1
    <3>. QED BY <3>1, <3>2
  <2>4. d + 1 # 0
    BY <1>1
  <2>. QED BY <2>1, <2>2, <2>3, <2>4 DEF Accounts
<1>. QED BY <1>6, <1>7

\* A read that begins is noted and will be charged.
LEMMA ReadBegins ==
  ASSUME TypeOK, WindowIsModelled, NEW x \in Transfers, DiskRead(x)
  PROVE  WindowIsModelled'
<1>1. UNCHANGED <<clock, debt_ns>> /\ io = Idle /\ Pending = 0 /\ clock \in Nat /\ debt_ns \in 0..999
  BY DEF DiskRead, Transfer, Pending, Idle, clockVars, TypeOK
<1>2. CASE io' = Idle
  <2>1. trace' = trace /\ Pending' = 0
    BY <1>2 DEF DiskRead, Pending, Idle
  <2>. QED BY <1>1, <2>1 DEF WindowIsModelled, Accounts
<1>3. CASE io' # Idle
  <2>1. /\ x.start \in Nat /\ x.count \in Nat /\ x.count > 0 /\ x.start + x.count <= SectorCount
        /\ io' = [op |-> "read", start |-> x.start, next |-> x.start, end |-> x.start + x.count]
        /\ trace' = Traced(x.count)
    BY <1>3, BenchAssumption DEF DiskRead, Transfer
  <2>2. x.count \in 1..SectorCount
    BY <2>1, DiskAssumption
  <2>3. Pending' = ReadNs(x.count, DefaultPoll)
    BY <2>1 DEF Pending
  <2> DEFINE ns == clock * 1000 + debt_ns + 0
  <2>4. ns \in Int /\ Accounts(ns, trace)
    BY <1>1 DEF WindowIsModelled
  <2>5. Accounts(ns + ReadNs(x.count, DefaultPoll), Traced(x.count))
    <3>. HIDE DEF ns
    <3>. QED BY <2>2, <2>4, TracedAccounts
  <2>6. ReadNs(x.count, DefaultPoll) \in Nat
    BY <2>1, CheapestIs
  <2>7. clock' * 1000 + debt_ns' + Pending' = ns + ReadNs(x.count, DefaultPoll)
    BY <1>1, <2>3, <2>6
  <2>. HIDE DEF ns
  <2>. QED BY <2>1, <2>5, <2>7 DEF WindowIsModelled
<1>. QED BY <1>2, <1>3

\* What a read that ends is charged was pending.
LEMMA ReadGoesOn ==
  ASSUME TypeOK, WindowIsModelled, charging, io.op # "write", DiskWork
  PROVE  WindowIsModelled'
<1>1. UNCHANGED <<pc, asked, trace>>
  BY DEF DiskWork
<1>2. io.op = "read" /\ Advance
  BY DEF DiskWork, DiskStep, ReadSector, OverwriteSector, MaterialiseSector, OutOfPages
<1>7. clock \in Nat /\ debt_ns \in 0..999
  BY DEF TypeOK
<1>3. /\ io.end - io.start \in Nat
      /\ io \in [op : {"none", "read", "write"}, start : Nat, next : Nat, end : 0..SectorCount]
  BY <1>2 DEF TypeOK, DiskTypeOK
<1> DEFINE r == ReadNs(io.end - io.start, DefaultPoll)
<1>5. r \in Nat /\ Pending = r
  BY <1>2, <1>3, ReadNsIs, BenchAssumption DEF Pending
<1>6. clock' * 1000 + debt_ns' + Pending' = clock * 1000 + debt_ns + Pending
  <2>2. CASE io' = Idle
    <3>1. Charge(r) /\ Pending' = 0
      BY <1>2, <2>2 DEF DiskWork, Pending, Idle
    <3>. HIDE DEF r
    <3>2. clock' * 1000 + debt_ns' = clock * 1000 + debt_ns + r /\ clock' \in Nat /\ debt_ns' \in 0..999
      BY <1>5, <1>7, <3>1, ChargeIs
    <3>. QED BY <1>5, <3>1, <3>2
  <2>3. CASE io' # Idle
    <3>1. io' = [io EXCEPT !.next = @ + 1] /\ clock' = clock /\ debt_ns' = debt_ns
      BY <1>2, <2>3 DEF Advance, DiskWork, clockVars
    <3>2. io'.op = "read" /\ io'.end = io.end /\ io'.start = io.start
      BY <1>2, <1>3, <3>1
    <3>3. Pending' = r
      BY <3>2 DEF Pending
    <3>. QED BY <1>5, <3>1, <3>3
  <2>. QED BY <2>2, <2>3
<1> DEFINE ns == clock * 1000 + debt_ns + Pending
<1>8. Accounts(ns, trace) /\ clock' * 1000 + debt_ns' + Pending' = ns
  BY <1>6 DEF WindowIsModelled
<1>. HIDE DEF ns
<1>. QED BY <1>1, <1>8 DEF WindowIsModelled

LEMMA WindowInit == Init => WindowInv
<1>1. DOMAIN <<>> = {}
  OBVIOUS
<1>. QED BY <1>1 DEF Init, WindowInv, Measured

\* In the simulator a span is the clock and the trace.
LEMMA LoadIsModelled ==
  ASSUME TypeOK, Simulated, WindowIsModelled, Over, NEW span \in Spans,
         \A i \in DOMAIN loaded : Modelled(loaded[i]),
         loaded' \in {loaded, Append(loaded, span)}
  PROVE  \A i \in DOMAIN loaded' : Modelled(loaded'[i])
<1>1. Modelled(span)
  BY WindowEnds DEF Spans
<1>2. loaded \in Seq(LoadSpans) /\ span \in LoadSpans
  BY SpansAreSpans DEF TypeOK
<1>3. CASE loaded' = Append(loaded, span)
  <2>1. /\ DOMAIN loaded = 1..Len(loaded) /\ DOMAIN loaded' = 1..(Len(loaded) + 1) /\ Len(loaded) \in Nat
        /\ loaded'[Len(loaded) + 1] = span /\ \A i \in 1..Len(loaded) : loaded'[i] = loaded[i]
    BY <1>2, <1>3, AppendProperties, LenProperties
  <2>2. \A i \in 1..(Len(loaded) + 1) : i \in 1..Len(loaded) \/ i = Len(loaded) + 1
    BY <2>1
  <2>. QED BY <1>1, <2>1, <2>2
<1>. QED BY <1>3

LEMMA WindowAccess ==
  ASSUME TypeOK, FatInv, WindowInv, Simulated, Access
  PROVE  WindowInv'
<1>1. UNCHANGED <<target, pc, charging, loaded>>
  BY DEF Access, DiskWrite, DiskRead, DiskWork, setupVars, resultVars
<1>2. ASSUME pc \in {"load", "cold"} PROVE WindowIsModelled'
  <2>1. WindowIsModelled /\ charging /\ io.op # "write"
    BY <1>2 DEF WindowInv, FatInv, SetupSteps, Measured
  <2>2. \A x \in Transfers : ~DiskWrite(x)
    BY <1>2 DEF DiskWrite, SetupSteps
  <2>. QED BY <1>2, <2>1, <2>2, ReadBegins, ReadGoesOn DEF Access
<1>. QED BY <1>1, <1>2 DEF WindowInv, Modelled

LEMMA WindowMeasuring ==
  ASSUME TypeOK, WindowInv, Simulated, Measuring
  PROVE  WindowInv'
<1>1. target' = target
  BY DEF Measuring, Arm, Mount, MountFails, OpenDir, OpenDirFails, ReadDir, ReadHeader, ScanEnds,
         ReadDirFails, Load, LoadFails, LoadStep, Remount, ColdLoad, GiveUp, Main
<1>2. pc' \in Measured => charging'
  <2>1. CASE Arm
    BY <2>1 DEF Arm
  <2>2. CASE ~Arm
    <3>1. pc \in Measured /\ charging' = charging
      BY <2>2 DEF Measuring, Mount, MountFails, OpenDir, OpenDirFails, ReadDir, ReadHeader, ScanEnds,
         ReadDirFails, Load, LoadFails, LoadStep, Remount, ColdLoad, GiveUp, Main, At, Measured, setupVars
    <3>. QED BY <3>1 DEF WindowInv
  <2>. QED BY <2>1, <2>2
<1>3. pc' \in {"load", "cold"} => WindowIsModelled'
  <2>1. ASSUME pc' \in {"load", "cold"}
        PROVE  SpanStart /\ Over /\ io' = io
    <3>1. CASE ScanEnds \/ Remount
      BY <3>1 DEF ScanEnds, Remount, Main, Goto, Works, Over, diskVars
    <3>2. CASE LoadStep /\ Over
      BY <3>2 DEF LoadStep, Main, Goto, Over, diskVars
    <3>3. Load \/ LoadFails => LoadStep /\ Over
      BY DEF Load, LoadFails, Works, Fails, Over
    <3>4. Arm \/ Mount \/ MountFails \/ OpenDir \/ OpenDirFails \/ ReadDir \/ ReadHeader \/ ReadDirFails \/ ColdLoad
          => pc' \notin {"load", "cold"}
      BY DEF Arm, Mount, MountFails, OpenDir, OpenDirFails, ReadDir, ReadHeader, ReadDirFails, ColdLoad,
             GiveUp, Main, Goto
    <3>. QED BY <2>1, <3>1, <3>2, <3>3, <3>4 DEF Measuring
  <2>. QED BY <2>1, WindowBegins
<1>4. \A i \in DOMAIN loaded' : Modelled(loaded'[i])
  <2>1. CASE Load \/ ColdLoad
    <3>1. pc \in {"load", "cold"} /\ Over
      BY <2>1 DEF Load, LoadStep, ColdLoad, Main, At, Works, Over
    <3>2. WindowIsModelled /\ \A i \in DOMAIN loaded : Modelled(loaded[i])
      BY <3>1 DEF WindowInv
    <3>3. PICK span \in Spans : loaded' \in {loaded, Append(loaded, span)}
      BY <2>1 DEF Load, ColdLoad
    <3>. QED BY <3>1, <3>2, <3>3, LoadIsModelled
  <2>2. CASE ~(Load \/ ColdLoad)
    <3>1. loaded' = loaded
      BY <2>2 DEF Measuring, Arm, Mount, MountFails, OpenDir, OpenDirFails, ReadDir, ReadHeader, ScanEnds,
         ReadDirFails, LoadFails, Remount, GiveUp, resultVars
    <3>. QED BY <3>1 DEF WindowInv, Modelled
  <2>. QED BY <2>1, <2>2
<1>. QED BY <1>1, <1>2, <1>3, <1>4 DEF WindowInv

LEMMA WindowStep == WindowInv /\ TypeInv /\ FatInv /\ [Next]_benchVars => WindowInv'
<1> SUFFICES ASSUME WindowInv, TypeInv, FatInv, [Next]_benchVars PROVE WindowInv'
  OBVIOUS
<1>0. Simulated' = Simulated
  BY TargetKept DEF Simulated
<1> SUFFICES ASSUME Simulated PROVE WindowInv'
  BY <1>0 DEF WindowInv
<1>1. CASE Access \/ Measuring
  BY <1>1, WindowAccess, WindowMeasuring DEF TypeInv
<1>2. CASE Making \/ Reporting
  <2>1. pc' \notin Measured /\ loaded' = loaded
    BY <1>2 DEF Making, Setup, SetupFails, Mkfs, MountToWrite, OpenTrack, WriteChunk, LastChunk,
         CloseTrack, UnmountFresh, SetupStep, Reporting, Report, Search, SearchEnds, Main, At, Goto,
         Measured, resultVars
  <2>. QED BY <2>1 DEF WindowInv, Modelled, Measured
<1>3. CASE Exited \/ UNCHANGED benchVars
  <2>1. UNCHANGED <<target, pc, asked, charging, clock, debt_ns, trace, io, loaded>>
    BY <1>3 DEF Exited, benchVars, diskVars, setupVars, clockVars, resultVars
  <2>. QED BY <2>1 DEF WindowInv, WindowIsModelled, Accounts, Modelled, Pending, Simulated
<1>. QED BY <1>1, <1>2, <1>3 DEF Next

\* The clock says of a load what the cost model says of its trace, whatever the
\* costs, the tracks and what FatFs reads; of what the trace had no room for, the
\* clock has charged at least the cheapest read there is.
THEOREM ClockIsTheModel == Spec => []MeasuredIsModelled
<1>1. WindowInv => MeasuredIsModelled
  BY DEF WindowInv, MeasuredIsModelled, Modelled, Cheapest
<1>2. DiskInv => DiskTypeOK
  BY DEF DiskInv
<1>3. WindowInv /\ TypeInv /\ FatInv /\ [Next]_benchVars => WindowInv'
  BY WindowStep
<1>. QED BY <1>1, <1>2, <1>3, WindowInit, TypeInit, TypeStep, FatInit, FatStep, SearchInvInit, SearchInvStep,
        BenchUsesTheDisk, TableIsSound, PTL DEF Spec
---------------------------------------------------------------------------
\* What the report speaks for.

Loading == {"load", "remount", "cold", "report"} \union Searching

\* No load is longer than the worst.
WorstInv == \A i \in DOMAIN loaded : loaded[i].us <= worst.us

\* In the simulator, where every load works, the worst is one of them, and in the
\* end there is one for every track and the cold one.
LoadsInv ==
  /\ pc \notin Loading \union {"failed"} => loaded = <<>>
  /\ Simulated =>
       /\ loaded = <<>> => worst = NoSpan
       /\ loaded # <<>> => \E i \in DOMAIN loaded : worst = loaded[i]
       /\ pc \in Loading => library_count = Tracks
       /\ At("load") => Len(loaded) = index
       /\ pc \in {"remount", "cold"} => Len(loaded) = Tracks
       /\ pc \in {"report"} \union Searching => Len(loaded) = Tracks + 1

LEMMA LoadsInit == Init => WorstInv /\ LoadsInv
<1>1. DOMAIN <<>> = {}
  OBVIOUS
<1>. QED BY <1>1 DEF Init, WorstInv, LoadsInv, Loading, Searching, At

\* One load more.
LEMMA OneMore ==
  ASSUME TypeOK, WorstInv, NEW span \in LoadSpans, loaded' = Append(loaded, span),
         worst' \in {span, worst}, worst'.us >= worst.us, worst'.us >= span.us
  PROVE  /\ WorstInv'
         /\ Len(loaded') = Len(loaded) + 1 /\ loaded' # <<>>
         /\ worst' = span \/ (\E i \in DOMAIN loaded : worst = loaded[i])
              => \E i \in DOMAIN loaded' : worst' = loaded'[i]
<1>1. loaded \in Seq(LoadSpans) /\ Len(loaded) \in Nat /\ worst \in LoadSpans
  BY LenProperties DEF TypeOK
<1>2. /\ DOMAIN loaded = 1..Len(loaded) /\ DOMAIN loaded' = 1..(Len(loaded) + 1)
      /\ Len(loaded') = Len(loaded) + 1 /\ loaded'[Len(loaded) + 1] = span
      /\ \A i \in 1..Len(loaded) : loaded'[i] = loaded[i]
  BY <1>1, AppendProperties, LenProperties
<1>3. /\ Len(loaded) + 1 \in 1..(Len(loaded) + 1) /\ 1..Len(loaded) \subseteq 1..(Len(loaded) + 1)
      /\ \A i \in 1..(Len(loaded) + 1) : i \in 1..Len(loaded) \/ i = Len(loaded) + 1
  BY <1>1
<1>4. WorstInv'
  <2>1. ASSUME NEW i \in DOMAIN loaded' PROVE loaded'[i].us <= worst'.us
    <3>1. CASE i = Len(loaded) + 1
      BY <1>2, <3>1
    <3>2. CASE i \in 1..Len(loaded)
      <4>1. loaded'[i] = loaded[i] /\ loaded[i].us <= worst.us
        BY <1>2, <3>2 DEF WorstInv
      <4>2. loaded[i] \in LoadSpans /\ worst' \in LoadSpans
        BY <1>1, <3>2, ElementOfSeq
      <4>3. loaded[i].us \in Nat /\ worst.us \in Nat /\ worst'.us \in Nat
        BY <1>1, <4>2 DEF LoadSpans
      <4>. QED BY <4>1, <4>3
    <3>. QED BY <1>2, <1>3, <3>1, <3>2
  <2>. QED BY <2>1 DEF WorstInv
<1>5. loaded' # <<>>
  <2>1. Len(<<>>) = 0 /\ Len(loaded) + 1 # 0
    BY <1>1
  <2>. QED BY <1>2, <2>1
<1>6. CASE worst' = span
  BY <1>2, <1>3, <1>4, <1>5, <1>6
<1>7. CASE worst' = worst
  BY <1>2, <1>3, <1>4, <1>5, <1>7
<1>. QED BY <1>6, <1>7

LEMMA LoadsMeasuring ==
  ASSUME TypeInv, FatInv, FilesInv, WorstInv, LoadsInv, Measuring
  PROVE  WorstInv' /\ LoadsInv'
<1>0. Simulated' = Simulated
  BY DEF Simulated, Measuring, Arm, Mount, MountFails, OpenDir, OpenDirFails, ReadDir, ReadHeader, ScanEnds,
         ReadDirFails, Load, LoadFails, LoadStep, Remount, ColdLoad, GiveUp, Main
<1>1. TypeOK /\ worst \in LoadSpans /\ Tracks \in Nat \ {0} /\ index \in Nat /\ library_count \in Nat
  BY BenchAssumption DEF TypeInv, TypeOK
<1>2. ASSUME NEW span \in Spans PROVE span \in LoadSpans /\ span.us \in Nat /\ worst.us \in Nat
  BY <1>1, <1>2, SpansAreSpans DEF LoadSpans
<1>3. CASE Arm \/ Mount \/ MountFails \/ OpenDir \/ OpenDirFails \/ ReadDir \/ ReadHeader \/ ReadDirFails
  <2>1. UNCHANGED <<worst, loaded>> /\ pc \notin Loading \union {"failed"} /\ pc' \notin Loading
    BY <1>3 DEF Arm, Mount, MountFails, OpenDir, OpenDirFails, ReadDir, ReadHeader, ReadDirFails, GiveUp, Main,
         At, Goto, resultVars, Loading, Searching
  <2>. QED BY <1>0, <2>1 DEF WorstInv, LoadsInv, Loading, At
<1>4. CASE ScanEnds
  <2>1. /\ UNCHANGED <<worst, loaded, library_count, index>> /\ pc = "readdir"
        /\ pc' = (IF library_count = 0 THEN "failed" ELSE "load")
        /\ Simulated => library_count = Len(files)
    BY <1>4 DEF ScanEnds, Main, At, Goto, resultVars
  <2>2. loaded = <<>> /\ index = 0
    BY <2>1 DEF LoadsInv, Loading, Searching, TypeInv, CountsInv, Ends
  <2>3. Simulated => library_count = Tracks
    BY <2>1 DEF FilesInv, Made, Measured
  <2>4. Len(<<>>) = 0
    OBVIOUS
  <2>. QED BY <1>0, <2>1, <2>2, <2>3, <2>4 DEF WorstInv, LoadsInv, Loading, At, Searching
<1>5. CASE Load \/ LoadFails
  <2>1. /\ pc = "load" /\ index' = index + 1 /\ library_count' = library_count
        /\ pc' = IF index + 1 < library_count THEN "load" ELSE "remount"
    BY <1>5 DEF Load, LoadFails, LoadStep, Main, At, Goto
  <2>2. index < library_count /\ (Simulated => library_count = Tracks /\ Len(loaded) = index)
    BY <2>1 DEF LoadsInv, Loading, TypeInv, CountsInv, At
  <2>3. CASE Load
    <3>1. PICK span \in Spans :
            loaded' = Append(loaded, span) /\ worst' = IF Replaces(span.us) THEN span ELSE worst
      BY <2>3 DEF Load
    <3>2. span \in LoadSpans /\ span.us \in Nat /\ worst.us \in Nat
      BY <1>2
    <3>3. worst' \in {span, worst} /\ worst'.us >= worst.us /\ worst'.us >= span.us
          /\ (worst = NoSpan => worst' = span)
      BY <3>1, <3>2 DEF Replaces, NoSpan
    <3>4. /\ WorstInv' /\ Len(loaded') = Len(loaded) + 1 /\ loaded' # <<>>
          /\ worst' = span \/ (\E i \in DOMAIN loaded : worst = loaded[i])
              => \E i \in DOMAIN loaded' : worst' = loaded'[i]
      BY <1>1, <3>1, <3>2, <3>3, OneMore
    <3>5. Simulated => \E i \in DOMAIN loaded' : worst' = loaded'[i]
      BY <3>3, <3>4 DEF LoadsInv
    <3>6. Simulated => /\ At("load")' => Len(loaded') = index'
                       /\ pc' = "remount" => Len(loaded') = Tracks
      BY <1>1, <2>1, <2>2, <3>4 DEF At
    <3>. QED BY <1>0, <2>1, <2>2, <3>4, <3>5, <3>6 DEF LoadsInv, Loading, Searching, At
  <2>4. CASE LoadFails
    <3>1. ~Simulated /\ UNCHANGED <<worst, loaded>>
      BY <2>1, <2>4 DEF LoadFails, Fails, FatInv, SetupSteps
    <3>. QED BY <1>0, <2>1, <3>1 DEF WorstInv, LoadsInv, Loading
  <2>. QED BY <1>5, <2>3, <2>4
<1>6. CASE Remount
  <2>1. UNCHANGED <<worst, loaded, library_count, index>> /\ pc = "remount" /\ pc' = "cold"
    BY <1>6 DEF Remount, Main, At, Goto, resultVars
  <2>. QED BY <1>0, <2>1 DEF WorstInv, LoadsInv, Loading, Searching, At
<1>7. CASE ColdLoad
  <2>1. pc = "cold" /\ pc' = "report" /\ library_count' = library_count
    BY <1>7 DEF ColdLoad, Main, At, Goto
  <2>2. PICK span \in Spans :
          /\ worst' = WorstWithCold(span)
          /\ \/ Works /\ loaded' = Append(loaded, span)
             \/ Fails /\ loaded' = loaded
    BY <1>7 DEF ColdLoad
  <2>3. span \in LoadSpans /\ span.us \in Nat /\ worst.us \in Nat
    BY <1>2
  <2>4. worst' \in {span, worst} /\ worst'.us >= worst.us /\ worst'.us >= span.us
    BY <2>2, <2>3 DEF WorstWithCold
  <2>5. CASE loaded' = Append(loaded, span)
    <3>1. /\ WorstInv' /\ Len(loaded') = Len(loaded) + 1 /\ loaded' # <<>>
          /\ worst' = span \/ (\E i \in DOMAIN loaded : worst = loaded[i])
              => \E i \in DOMAIN loaded' : worst' = loaded'[i]
      BY <1>1, <2>3, <2>4, <2>5, OneMore
    <3>2. Simulated => library_count = Tracks /\ Len(loaded) = Tracks /\ loaded # <<>>
      <4>1. Simulated => library_count = Tracks /\ Len(loaded) = Tracks
        BY <2>1 DEF LoadsInv, Loading
      <4>2. Len(<<>>) # Tracks
        BY <1>1
      <4>. QED BY <4>1, <4>2
    <3>3. Simulated => \E i \in DOMAIN loaded' : worst' = loaded'[i]
      BY <3>1, <3>2 DEF LoadsInv
    <3>. QED BY <1>0, <2>1, <3>1, <3>2, <3>3 DEF LoadsInv, Loading, Searching, At
  <2>6. CASE Fails /\ loaded' = loaded
    <3>1. ~Simulated
      BY <2>1, <2>6 DEF Fails, FatInv, SetupSteps
    <3>2. WorstInv'
      <4>1. ASSUME NEW i \in DOMAIN loaded PROVE loaded[i].us <= worst'.us
        <5>1. loaded \in Seq(LoadSpans) /\ i \in 1..Len(loaded)
          BY <1>1 DEF TypeOK
        <5>2. loaded[i] \in LoadSpans
          BY <5>1, ElementOfSeq
        <5>3. worst' \in LoadSpans
          BY <1>1, <2>3, <2>4
        <5>4. loaded[i].us \in Nat /\ worst'.us \in Nat
          BY <5>2, <5>3 DEF LoadSpans
        <5>5. loaded[i].us <= worst.us
          BY DEF WorstInv
        <5>. QED BY <2>3, <2>4, <5>4, <5>5
      <4>. QED BY <2>6, <4>1 DEF WorstInv
    <3>. QED BY <1>0, <2>1, <3>1, <3>2 DEF LoadsInv, Loading
  <2>. QED BY <2>2, <2>5, <2>6
<1>. QED BY <1>3, <1>4, <1>5, <1>6, <1>7 DEF Measuring

LEMMA LoadsStep ==
  WorstInv /\ LoadsInv /\ TypeInv /\ FatInv /\ FilesInv /\ [Next]_benchVars => WorstInv' /\ LoadsInv'
<1> SUFFICES ASSUME WorstInv, LoadsInv, TypeInv, FatInv, FilesInv, [Next]_benchVars PROVE WorstInv' /\ LoadsInv'
  OBVIOUS
<1>0. Simulated' = Simulated
  BY TargetKept DEF Simulated
<1>1. CASE UNCHANGED <<worst, loaded, library_count, index>> /\ (pc' = pc \/ pc' \notin Loading)
           /\ (pc \in Loading \union {"failed"} => pc' \in Loading \union {"failed"})
  BY <1>0, <1>1 DEF WorstInv, LoadsInv, Loading, At
<1>2. CASE Access \/ Exited \/ UNCHANGED benchVars
  <2>1. UNCHANGED <<worst, loaded, library_count, index>> /\ pc' = pc
    BY <1>2 DEF Access, DiskWrite, DiskRead, DiskWork, Exited, benchVars, resultVars
  <2>. QED BY <1>1, <2>1
<1>3. CASE Making
  <2>1. UNCHANGED <<worst, loaded, library_count, index>> /\ pc \notin Loading \union {"failed"} /\ pc' \notin Loading
    BY <1>3 DEF Making, Setup, SetupFails, Mkfs, MountToWrite, OpenTrack, WriteChunk, LastChunk,
         CloseTrack, UnmountFresh, SetupStep, At, Goto, SetupSteps, Loading, Searching, resultVars
  <2>. QED BY <1>1, <2>1
<1>4. CASE Reporting
  <2>1. /\ UNCHANGED <<worst, loaded, library_count, index>>
        /\ pc \in {"report"} \union Searching /\ pc' \in Searching
    BY <1>4 DEF Reporting, Report, Search, SearchEnds, Main, At, Goto, Searching, resultVars
  <2>. QED BY <1>0, <2>1 DEF WorstInv, LoadsInv, Loading, Searching, At
<1>. QED BY <1>2, <1>3, <1>4, LoadsMeasuring DEF Next
\* Of two loads the one with no more sectors gains no more on a slower card, and
\* the one with no fewer gains no less on a faster one.
LEMMA LessSensitive ==
  ASSUME NEW a \in Int, NEW b \in Int, NEW p \in Int, NEW q \in Int,
         (p <= q /\ a <= b) \/ (q <= p /\ b <= a)
  PROVE  a * q - a * p <= b * q - b * p
<1> DEFINE m == b - a
           k == q - p
<1>1. m \in Int /\ k \in Int
  OBVIOUS
<1>2. m * k >= 0
  <2>1. \A x, y \in Nat : x * y >= 0
    OBVIOUS
  <2>2. (m \in Nat /\ k \in Nat) \/ (-m \in Nat /\ -k \in Nat)
    OBVIOUS
  <2>3. (-m) * (-k) = m * k
    BY <1>1
  <2>. HIDE DEF m, k
  <2>. QED BY <2>1, <2>2, <2>3
<1>3. m * k = (b * q - b * p) - (a * q - a * p)
  OBVIOUS
<1> DEFINE x == a * q - a * p
           y == b * q - b * p
<1>4. x \in Int /\ y \in Int
  OBVIOUS
<1>5. y - x >= 0
  BY <1>2, <1>3
<1>6. x <= y
  <2>. HIDE DEF x, y
  <2>. QED BY <1>4, <1>5
<1>. QED BY <1>6

\* A load no longer than the worst, and no more sensitive, keeps the budget on the
\* card on which the worst keeps it.
LEMMA KeepsTheBudget ==
  ASSUME NEW x \in LoadSpans, NEW w \in LoadSpans, Modelled(x), Modelled(w), x.us <= w.us,
         x.trace.dropped = 0, w.trace.dropped = 0,
         NEW poll \in Nat,
         \/ DefaultPoll <= poll /\ x.trace.sectors <= w.trace.sectors
         \/ poll <= DefaultPoll /\ w.trace.sectors <= x.trace.sectors,
         ModelUs(w.trace, poll) <= Budget
  PROVE  ModelUs(x.trace, poll) <= Budget + 2
<1> DEFINE xs == x.trace.sectors
           ws == w.trace.sectors
           xb == ModelNs(x.trace, 0)
           wb == ModelNs(w.trace, 0)
           xd == ModelNs(x.trace, DefaultPoll)
           wd == ModelNs(w.trace, DefaultPoll)
           xp == ModelNs(x.trace, poll)
           wp == ModelNs(w.trace, poll)
           xu == x.us
           wu == w.us
<1>1. /\ x.trace \in Traces /\ w.trace \in Traces /\ xu \in Nat /\ wu \in Nat /\ xu <= wu
      /\ DefaultPoll \in Nat /\ Budget \in Nat
  BY BenchAssumption DEF LoadSpans
<1>2. /\ x.trace.blocks \in Seq(Nat) /\ w.trace.blocks \in Seq(Nat) /\ xs \in Nat /\ ws \in Nat
  BY <1>1, TracesHaveBlocks
<1>3. xs = SumTo(x.trace.blocks, Len(x.trace.blocks)) /\ ws = SumTo(w.trace.blocks, Len(w.trace.blocks))
  BY DEF Modelled
<1>4. xb \in Int /\ xd = xb + xs * DefaultPoll /\ xp = xb + xs * poll
  BY <1>1, <1>2, <1>3, ModelNsAffine
<1>5. wb \in Int /\ wd = wb + ws * DefaultPoll /\ wp = wb + ws * poll
  BY <1>1, <1>2, <1>3, ModelNsAffine
<1>6. xu - (xd \div 1000) \in {0, 1} /\ wu - (wd \div 1000) \in {0, 1} /\ wp \div 1000 <= Budget
  BY DEF Modelled, ModelUs
<1>7. xs * poll - xs * DefaultPoll <= ws * poll - ws * DefaultPoll
  <2>1. xs \in Int /\ ws \in Int /\ poll \in Int /\ DefaultPoll \in Int
    BY <1>1, <1>2
  <2>2. (DefaultPoll <= poll /\ xs <= ws) \/ (poll <= DefaultPoll /\ ws <= xs)
    OBVIOUS
  <2>. HIDE DEF xs, ws
  <2>. QED BY <2>1, <2>2, LessSensitive
<1> DEFINE xsp == xs * poll
           xsd == xs * DefaultPoll
           wsp == ws * poll
           wsd == ws * DefaultPoll
<1>8. xsp \in Int /\ xsd \in Int /\ wsp \in Int /\ wsd \in Int
  BY <1>1, <1>2
<1>9. /\ xd \in Int /\ wd \in Int /\ xp \in Int /\ wp \in Int
      /\ xp - xd <= wp - wd
  <2>1. xd = xb + xsd /\ xp = xb + xsp /\ wd = wb + wsd /\ wp = wb + wsp /\ xsp - xsd <= wsp - wsd
    BY <1>4, <1>5, <1>7
  <2>2. xb \in Int /\ wb \in Int
    BY <1>4, <1>5
  <2>. HIDE DEF xsp, xsd, wsp, wsd, xb, wb, xd, wd, xp, wp
  <2>. QED BY <1>8, <2>1, <2>2
<1>10. xp \div 1000 <= Budget + 2
  <2>. HIDE DEF xd, wd, xp, wp, xu, wu
  <2>1. xd \div 1000 <= wd \div 1000 + 1 /\ xd \div 1000 \in Int /\ wd \div 1000 \in Int
    BY <1>1, <1>6, <1>9
  <2>2. xd - wd < 2000
    BY <1>9, <2>1
  <2>3. xp < wp + 2000
    BY <1>9, <2>2
  <2>. QED BY <1>1, <1>6, <1>9, <2>3
<1>. QED BY <1>10 DEF ModelUs

\* What report_verdict and report_sensitivity say of the load they kept is true of
\* every load.
THEOREM ReportSpeaksForAll == Spec => []ReportIsOfTheWorst
<1>1. TypeInv /\ SearchInv /\ FilesInv /\ WindowInv /\ WorstInv /\ LoadsInv => ReportIsOfTheWorst
  <2> SUFFICES ASSUME TypeInv, SearchInv, FilesInv, WindowInv, WorstInv, LoadsInv, pc = "done"
               PROVE  ReportIsOfTheWorst
    BY DEF ReportIsOfTheWorst, At
  <2>1. loaded \in Seq(LoadSpans) /\ worst \in LoadSpans /\ DOMAIN loaded = 1..Len(loaded) /\ files \in Seq(Nat)
        /\ \A i \in DOMAIN loaded : loaded[i] \in LoadSpans
    BY LenProperties, ElementOfSeq DEF TypeInv, TypeOK
  <2>2. \A i \in DOMAIN loaded : loaded[i].us \in Nat /\ loaded[i].us <= worst.us
    BY <2>1 DEF WorstInv, LoadSpans
  <2>3. worst.us \in Nat /\ Budget \in Nat /\ Tracks \in Nat \ {0}
    BY <2>1, BenchAssumption DEF LoadSpans
  <2>4. Verdict => \A i \in DOMAIN loaded : loaded[i].us <= Budget
    BY <2>2, <2>3 DEF Verdict
  <2>5. ASSUME Simulated
        PROVE  /\ (\A i \in DOMAIN loaded : loaded[i].us <= Budget) => Verdict
               /\ Len(loaded) = Tracks + 1 /\ \A i \in 1..Tracks : files[i] = i * Step
    <3>1. Len(loaded) = Tracks + 1 /\ (loaded # <<>> => \E i \in DOMAIN loaded : worst = loaded[i])
      BY <2>5 DEF LoadsInv, Searching
    <3>2. loaded # <<>>
      BY <2>3, <3>1
    <3>3. Len(files) = Tracks /\ \A i \in DOMAIN files : files[i] = i * Step
      BY <2>5 DEF FilesInv, Made, Searching
    <3>4. DOMAIN files = 1..Tracks
      BY <2>1, <2>3, <3>3, LenProperties
    <3>. QED BY <3>1, <3>2, <3>3, <3>4 DEF Verdict
  <2>6. ASSUME Simulated, Fits(0), NEW i \in DOMAIN loaded, NoMoreSensitive(loaded[i].trace)
        PROVE  ModelUs(loaded[i].trace, lo * 1000) <= Budget + 2
    <3>1. Fits(lo) /\ lo \in Nat
      BY <2>6 DEF SearchInv, Searching
    <3>2. PICK j \in DOMAIN loaded : worst = loaded[j]
      BY <2>6 DEF LoadsInv
    <3>3. Modelled(loaded[i]) /\ Modelled(worst)
      BY <2>6, <3>2 DEF WindowInv
    <3>4. lo * 1000 \in Nat /\ DefaultPoll \in Nat
      BY <3>1, BenchAssumption
    <3>7. loaded[i].trace.dropped = 0 /\ worst.trace.dropped = 0
      BY <2>6 DEF NoMoreSensitive
    <3>5. \/ DefaultPoll <= lo * 1000 /\ loaded[i].trace.sectors <= worst.trace.sectors
          \/ lo * 1000 <= DefaultPoll /\ worst.trace.sectors <= loaded[i].trace.sectors
      <4>1. loaded[i].trace \in Traces /\ worst.trace \in Traces
        BY <2>1 DEF LoadSpans
      <4>2. loaded[i].trace.sectors \in Nat /\ worst.trace.sectors \in Nat
        BY <4>1, TracesHaveBlocks
      <4>. QED BY <2>6, <3>4, <4>2 DEF NoMoreSensitive
    <3>6. ModelUs(worst.trace, lo * 1000) <= Budget
      BY <3>1 DEF Fits
    <3>. QED BY <2>1, <2>2, <3>3, <3>4, <3>5, <3>6, <3>7, KeepsTheBudget
  <2>. QED BY <2>4, <2>5, <2>6 DEF ReportIsOfTheWorst
<1>2. DiskInv => DiskTypeOK
  BY DEF DiskInv
<1>3. WindowInv /\ TypeInv /\ FatInv /\ [Next]_benchVars => WindowInv'
  BY WindowStep
<1>. QED BY <1>1, <1>2, <1>3, WindowInit, TypeInit, TypeStep, FatInit, FatStep, FilesInit, FilesStep,
        LoadsInit, LoadsStep, SearchInvInit, SearchInvStep, BenchUsesTheDisk, TableIsSound, PTL DEF Spec

---------------------------------------------------------------------------
\* The end of the program.

\* FatFs makes an end of its accesses in every operation.
AccessesEnd == \A p \in SetupSteps \union Measured : Accesses[p] \in Nat

\* How far the program is from its end, in the order in which it counts: the parts
\* of main still to come, the rounds left in the loop of a part, the steps left of a
\* round, the bytes left of the track being made, what FatFs may still ask of the
\* disk in this operation, and the sectors left of what it has asked.
Phase ==
  CASE pc = "setup" -> 14
    [] pc = "mkfs" -> 13
    [] pc = "mount" -> 12
    [] pc \in {"open", "chunk", "close"} -> 11
    [] pc = "unmount" -> 10
    [] pc = "arm" -> 9
    [] pc = "fs_mount" -> 8
    [] pc = "opendir" -> 7
    [] pc \in {"readdir", "header"} -> 6
    [] pc = "load" -> 5
    [] pc = "remount" -> 4
    [] pc = "cold" -> 3
    [] pc = "report" -> 2
    [] pc = "search" -> 1
    [] OTHER -> 0

Rounds ==
  CASE pc \in {"open", "chunk", "close"} -> Tracks - Len(files)
    [] pc \in {"readdir", "header"} -> Tracks - library_count
    [] pc = "load" -> Tracks - index
    [] pc = "search" -> hi - lo
    [] OTHER -> 0

Stage ==
  CASE pc \in {"open", "readdir"} -> 2
    [] pc = "chunk" -> 1
    [] OTHER -> 0

BytesLeft == IF pc = "chunk" THEN Wanted - size ELSE 0

AccessesLeft == IF pc \in SetupSteps \union Measured THEN Accesses[pc] - asked ELSE 0

SectorsLeft == IF io.op = "none" THEN 0 ELSE io.end - io.next

\* Nearer in the first of these that changes.
Nearer ==
  \/ Phase' < Phase
  \/ UNCHANGED Phase /\ Rounds' < Rounds
  \/ UNCHANGED <<Phase, Rounds>> /\ Stage' < Stage
  \/ UNCHANGED <<Phase, Rounds, Stage>> /\ BytesLeft' < BytesLeft
  \/ UNCHANGED <<Phase, Rounds, Stage, BytesLeft>> /\ AccessesLeft' < AccessesLeft
  \/ UNCHANGED <<Phase, Rounds, Stage, BytesLeft, AccessesLeft>> /\ SectorsLeft' < SectorsLeft

DistancesAreNatural ==
  /\ Phase \in Nat /\ Rounds \in Nat /\ Stage \in Nat
  /\ BytesLeft \in Nat /\ AccessesLeft \in Nat /\ SectorsLeft \in Nat

AskedInv == pc \in SetupSteps \union Measured => asked <= Accesses[pc]

LEMMA AskedInit == Init => AskedInv
BY DEF Init, AskedInv, SetupSteps, Measured

LEMMA AskedStep == AskedInv /\ TypeInv /\ AccessesEnd /\ [Next]_benchVars => AskedInv'
<1> SUFFICES ASSUME AskedInv, TypeInv, AccessesEnd, [Next]_benchVars PROVE AskedInv'
  OBVIOUS
<1>1. asked \in Nat /\ \A p \in SetupSteps \union Measured : Accesses[p] \in Nat /\ 0 <= Accesses[p]
  BY DEF TypeInv, TypeOK, AccessesEnd
<1>2. CASE asked' = 0
  BY <1>1, <1>2 DEF AskedInv
<1>3. CASE pc' = pc /\ asked' = asked
  BY <1>3 DEF AskedInv
<1>4. ASSUME NEW x \in Transfers, DiskWrite(x) \/ DiskRead(x) PROVE AskedInv'
  <2>1. pc' = pc /\ asked' = asked + 1 /\ asked < Accesses[pc]
    BY <1>4 DEF DiskWrite, DiskRead, AccessWanted
  <2>. QED BY <1>1, <2>1 DEF AskedInv
<1>5. CASE Making
  BY <1>2, <1>5 DEF Making, Setup, SetupFails, Mkfs, MountToWrite, OpenTrack, WriteChunk, LastChunk,
         CloseTrack, UnmountFresh, SetupStep, Goto
<1>6. CASE Measuring
  BY <1>2, <1>6 DEF Measuring, Arm, Mount, MountFails, OpenDir, OpenDirFails, ReadDir, ReadHeader, ScanEnds,
         ReadDirFails, Load, LoadFails, LoadStep, Remount, ColdLoad, GiveUp, Main, Goto
<1>7. CASE Reporting
  BY <1>2, <1>3, <1>7 DEF Reporting, Report, Search, SearchEnds, Main, Goto
<1>8. CASE DiskWork \/ Exited \/ UNCHANGED benchVars
  BY <1>3, <1>8 DEF DiskWork, Exited, benchVars
<1>. QED BY <1>4, <1>5, <1>6, <1>7, <1>8 DEF Next, Access

LEMMA Distances ==
  TypeInv /\ SearchInv /\ FatInv /\ FilesInv /\ AskedInv /\ AccessesEnd => DistancesAreNatural
<1> SUFFICES ASSUME TypeInv, SearchInv, FatInv, FilesInv, AskedInv, AccessesEnd PROVE DistancesAreNatural
  OBVIOUS
<1>1. Phase \in Nat /\ Stage \in Nat
  BY DEF Phase, Stage
<1>2. Rounds \in Nat
  <2>1. CASE pc \in {"open", "chunk", "close"}
    <3>1. Len(files) < Tracks
      BY <2>1 DEF FilesInv, FatInv, SetupSteps
    <3>2. Len(files) \in Nat /\ Tracks \in Nat
      BY LenProperties, BenchAssumption DEF TypeInv, TypeOK
    <3>3. Tracks - Len(files) \in Nat
      BY <3>1, <3>2
    <3>. QED BY <2>1, <3>3 DEF Rounds
  <2>2. Tracks - library_count \in Nat /\ Tracks - index \in Nat
    BY BenchAssumption DEF TypeInv, TypeOK
  <2>3. hi - lo \in Nat
    BY BenchAssumption DEF SearchInv
  <2>. QED BY <2>1, <2>2, <2>3 DEF Rounds
<1>3. BytesLeft \in Nat
  <2>1. CASE pc = "chunk"
    <3>1. size <= Wanted /\ size \in Nat
      BY <2>1 DEF FilesInv, FatInv, SetupSteps, TypeInv, TypeOK, At
    <3>2. Wanted \in Nat
      BY LenProperties, ProductIsNatural, BenchAssumption DEF TypeInv, TypeOK, Wanted
    <3>. QED BY <2>1, <3>1, <3>2 DEF BytesLeft
  <2>. QED BY <2>1 DEF BytesLeft
<1>4. AccessesLeft \in Nat
  <2>1. CASE pc \in SetupSteps \union Measured
    <3>1. asked <= Accesses[pc] /\ asked \in Nat /\ Accesses[pc] \in Nat
      BY <2>1 DEF AskedInv, TypeInv, TypeOK, AccessesEnd
    <3>. QED BY <2>1, <3>1 DEF AccessesLeft
  <2>. QED BY <2>1 DEF AccessesLeft
<1>5. SectorsLeft \in Nat
  <2>1. CASE io.op # "none"
    <3>1. io.next < io.end /\ io.next \in Nat /\ io.end \in 0..SectorCount /\ SectorCount \in Nat
      BY <2>1, DiskAssumption DEF TypeInv, TypeOK, DiskTypeOK
    <3>. QED BY <2>1, <3>1 DEF SectorsLeft
  <2>. QED BY <2>1 DEF SectorsLeft
<1>. QED BY <1>1, <1>2, <1>3, <1>4, <1>5 DEF DistancesAreNatural

\* An access is one fewer to come, and a sector one fewer of it.
LEMMA NearerAccess ==
  ASSUME TypeInv, AccessesEnd, DistancesAreNatural, Access
  PROVE  Nearer
<1>1. /\ UNCHANGED <<pc, files, library_count, index, lo, hi, size>>
      /\ UNCHANGED <<Phase, Rounds, Stage, BytesLeft>>
  <2>1. UNCHANGED <<pc, files, library_count, index, lo, hi, size>>
    BY DEF Access, DiskWrite, DiskRead, DiskWork, setupVars, resultVars, searchVars
  <2>. QED BY <2>1 DEF Phase, Rounds, Stage, BytesLeft, Wanted
<1>2. ASSUME NEW x \in Transfers, DiskWrite(x) \/ DiskRead(x) PROVE AccessesLeft' < AccessesLeft
  <2>1. pc \in SetupSteps \union Measured /\ asked' = asked + 1
    BY <1>2 DEF DiskWrite, DiskRead, AccessWanted
  <2>2. asked \in Nat /\ Accesses[pc] \in Nat
    BY <2>1 DEF TypeInv, TypeOK, AccessesEnd
  <2>. QED BY <1>1, <2>1, <2>2 DEF AccessesLeft
<1>3. ASSUME DiskWork PROVE SectorsLeft' < SectorsLeft /\ UNCHANGED AccessesLeft
  <2>1. UNCHANGED AccessesLeft
    BY <1>1, <1>3 DEF DiskWork, AccessesLeft
  <2>2. io.op # "none" /\ (Advance \/ io' = Idle)
    BY <1>3 DEF DiskWork, DiskStep, ReadSector, OverwriteSector, MaterialiseSector, OutOfPages
  <2>3. /\ io \in [op : {"none", "read", "write"}, start : Nat, next : Nat, end : 0..SectorCount]
        /\ io.next \in Nat /\ io.end \in Nat /\ io.next < io.end
    BY <2>2, DiskAssumption DEF TypeInv, TypeOK, DiskTypeOK
  <2> DEFINE n == io.next
             e == io.end
  <2>6. n \in Nat /\ e \in Nat /\ n < e /\ SectorsLeft = e - n
    BY <2>2, <2>3 DEF SectorsLeft
  <2>4. CASE io' = Idle
    <3>1. SectorsLeft' = 0
      BY <2>4 DEF SectorsLeft, Idle
    <3>. HIDE DEF n, e
    <3>. QED BY <2>1, <2>6, <3>1
  <2>5. CASE io' = [io EXCEPT !.next = @ + 1]
    <3>1. io'.op = io.op /\ io'.end = e /\ io'.next = n + 1
      BY <2>3, <2>5
    <3>2. SectorsLeft' = e - (n + 1)
      BY <2>2, <3>1 DEF SectorsLeft
    <3>. HIDE DEF n, e
    <3>. QED BY <2>1, <2>6, <3>2
  <2>. QED BY <2>1, <2>2, <2>4, <2>5 DEF Advance
<1>. QED BY <1>1, <1>2, <1>3 DEF Access, Nearer

LEMMA NearerMaking ==
  ASSUME TypeInv, FatInv, FilesInv, Making
  PROVE  Nearer
<1>1. CASE Setup \/ SetupFails \/ Mkfs \/ MountToWrite \/ UnmountFresh
  <2>1. Phase' < Phase
    BY <1>1 DEF Setup, SetupFails, Mkfs, MountToWrite, UnmountFresh, SetupStep, At, Goto, Phase, SetupSteps
  <2>. QED BY <2>1 DEF Nearer
<1>2. CASE OpenTrack \/ LastChunk
  <2>1. (pc = "open" /\ pc' = "chunk") \/ (pc = "chunk" /\ pc' = "close")
    BY <1>2 DEF OpenTrack, LastChunk, SetupStep, At, Goto
  <2>2. UNCHANGED files
    BY <1>2 DEF OpenTrack, LastChunk
  <2>3. UNCHANGED <<Phase, Rounds>> /\ Stage' < Stage
    BY <2>1, <2>2 DEF Phase, Rounds, Stage
  <2>. QED BY <2>3 DEF Nearer
<1>3. CASE WriteChunk
  <2>1. UNCHANGED <<pc, files>> /\ pc = "chunk" /\ size < Wanted
    BY <1>3 DEF WriteChunk, SetupStep, At, Goto
  <2>2. PICK len \in Pieces : \E written \in 1..Piece(len) : size' = size + written
    BY <1>3 DEF WriteChunk
  <2>3. size \in Nat /\ Wanted \in Nat /\ Wanted' = Wanted
    BY <2>1, LenProperties, ProductIsNatural, BenchAssumption DEF TypeInv, TypeOK, Wanted
  <2>4. size' \in Nat /\ size < size'
    BY <2>1, <2>2, <2>3, BenchAssumption DEF Piece
  <2>5. BytesLeft' < BytesLeft
    <3>1. BytesLeft' = Wanted - size' /\ BytesLeft = Wanted - size
      BY <2>1, <2>3 DEF BytesLeft
    <3>2. \A w, a, b \in Nat : a < b => w - b < w - a
      OBVIOUS
    <3>3. Wanted - size' < Wanted - size
      BY <2>3, <2>4, <3>2
    <3>. QED BY <3>1, <3>3
  <2>6. UNCHANGED <<Phase, Rounds, Stage>>
    BY <2>1 DEF Phase, Rounds, Stage
  <2>. QED BY <2>5, <2>6 DEF Nearer
<1>4. CASE CloseTrack
  <2>1. pc = "close" /\ pc' \in {"open", "unmount"} /\ files' = Append(files, size)
    BY <1>4 DEF CloseTrack, SetupStep, At, Goto
  <2>2. Len(files) \in Nat /\ Len(files') = Len(files) + 1 /\ Tracks \in Nat
    BY <2>1, LenProperties, AppendProperties, BenchAssumption DEF TypeInv, TypeOK
  <2>3. CASE pc' = "open"
    <3>1. Phase' = Phase
      BY <2>1, <2>3 DEF Phase
    <3>2. Rounds' = Tracks - Len(files') /\ Rounds = Tracks - Len(files)
      BY <2>1, <2>3 DEF Rounds
    <3>3. Rounds' < Rounds
      BY <2>2, <3>2
    <3>. QED BY <3>1, <3>3 DEF Nearer
  <2>4. CASE pc' = "unmount"
    BY <2>1, <2>4 DEF Phase, Nearer
  <2>. QED BY <2>1, <2>3, <2>4
<1>. QED BY <1>1, <1>2, <1>3, <1>4 DEF Making

LEMMA NearerMeasuring ==
  ASSUME TypeInv, Measuring
  PROVE  Nearer
<1>1. CASE Arm \/ Mount \/ MountFails \/ OpenDir \/ OpenDirFails \/ ScanEnds \/ ReadDirFails \/ Remount \/ ColdLoad
  <2>1. Phase' < Phase
    BY <1>1 DEF Arm, Mount, MountFails, OpenDir, OpenDirFails, ScanEnds, ReadDirFails, Remount, ColdLoad,
           GiveUp, Main, At, Goto, Phase
  <2>. QED BY <2>1 DEF Nearer
<1>2. library_count \in 0..Tracks /\ index \in 0..Tracks /\ Tracks \in Nat
  BY BenchAssumption DEF TypeInv, TypeOK
<1>3. CASE ReadDir
  <2>1. pc = "readdir" /\ pc' = "header" /\ UNCHANGED library_count
    BY <1>3 DEF ReadDir, Main, At, Goto, resultVars
  <2>2. UNCHANGED <<Phase, Rounds>> /\ Stage' < Stage
    BY <2>1 DEF Phase, Rounds, Stage
  <2>. QED BY <2>2 DEF Nearer
<1>4. CASE ReadHeader
  <2>1. pc = "header" /\ pc' = "readdir" /\ library_count' = library_count + 1
    BY <1>4 DEF ReadHeader, Main, At, Goto
  <2>2. UNCHANGED Phase /\ Rounds' = Tracks - library_count' /\ Rounds = Tracks - library_count
    BY <2>1 DEF Phase, Rounds
  <2>. QED BY <1>2, <2>1, <2>2 DEF Nearer
<1>5. CASE Load \/ LoadFails
  <2>1. pc = "load" /\ pc' \in {"load", "remount"} /\ index' = index + 1
    BY <1>5 DEF Load, LoadFails, LoadStep, Main, At, Goto
  <2>2. CASE pc' = "load"
    <3>1. UNCHANGED Phase /\ Rounds' = Tracks - index' /\ Rounds = Tracks - index
      BY <2>1, <2>2 DEF Phase, Rounds
    <3>. QED BY <1>2, <2>1, <3>1 DEF Nearer
  <2>3. CASE pc' = "remount"
    BY <2>1, <2>3 DEF Phase, Nearer
  <2>. QED BY <2>1, <2>2, <2>3
<1>. QED BY <1>1, <1>3, <1>4, <1>5 DEF Measuring

LEMMA NearerReporting ==
  ASSUME SearchInv, Reporting
  PROVE  Nearer
<1>1. CASE Report \/ SearchEnds
  <2>1. Phase' < Phase
    BY <1>1 DEF Report, SearchEnds, Main, At, Goto, Phase
  <2>. QED BY <2>1 DEF Nearer
<1>2. CASE Search
  <2>1. (lo' = Mid /\ hi' = hi) \/ (hi' = Mid - 1 /\ lo' = lo)
    BY <1>2 DEF Search
  <2>5. UNCHANGED pc /\ pc = "search" /\ lo < hi
    BY <1>2 DEF Search, At
  <2>2. lo \in Nat /\ hi \in Nat
    BY BenchAssumption DEF SearchInv
  <2>3. Mid \in (lo + 1)..hi
    BY <2>2, <2>5, Middle DEF Mid
  <2>4. UNCHANGED Phase /\ Rounds' = hi' - lo' /\ Rounds = hi - lo
    BY <2>5 DEF Phase, Rounds
  <2>6. hi' - lo' < hi - lo
    BY <2>1, <2>2, <2>3, <2>5
  <2>. QED BY <2>4, <2>6 DEF Nearer
<1>. QED BY <1>1, <1>2 DEF Reporting

\* Every step brings the program nearer to its end, in an order without infinite
\* descent: with a card, a library or a search of any size it makes finitely many
\* steps.  That it makes the next one is left to the runs.
THEOREM BenchComesNearer == AccessesEnd => (Spec => []DistancesAreNatural /\ [][Nearer]_benchVars)
<1> SUFFICES ASSUME AccessesEnd PROVE Spec => []DistancesAreNatural /\ [][Nearer]_benchVars
  OBVIOUS
<1>1. TypeInv /\ SearchInv /\ FatInv /\ FilesInv /\ AskedInv => DistancesAreNatural
  BY Distances
<1>2. TypeInv /\ SearchInv /\ FatInv /\ FilesInv /\ AskedInv /\ [Next]_benchVars => [Nearer]_benchVars
  <2> SUFFICES ASSUME TypeInv, SearchInv, FatInv, FilesInv, AskedInv, [Next]_benchVars
               PROVE  [Nearer]_benchVars
    OBVIOUS
  <2>1. DistancesAreNatural
    BY <1>1
  <2>. QED BY <2>1, NearerAccess, NearerMaking, NearerMeasuring, NearerReporting DEF Next, Exited
<1>3. DiskInv => DiskTypeOK
  BY DEF DiskInv
<1>4. AskedInv /\ TypeInv /\ [Next]_benchVars => AskedInv'
  BY AskedStep
<1>. QED BY <1>1, <1>2, <1>3, <1>4, AskedInit, TypeInit, TypeStep, FatInit, FatStep, FilesInit, FilesStep,
        SearchInvInit, SearchInvStep, BenchUsesTheDisk, TableIsSound, PTL DEF Spec
=============================================================================
