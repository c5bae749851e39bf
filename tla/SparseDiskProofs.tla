-------------------------- MODULE SparseDiskProofs --------------------------
(***************************************************************************)
(* Proofs about SparseDisk, for every size of the table, every multiplier  *)
(* and every sequence of transfers: probing ends, a sector that has a page *)
(* is found, and the disk is an array of sectors.                          *)
(***************************************************************************)
EXTENDS SparseDisk, FiniteSetTheorems, WellFoundedInduction, TLAPS

\* Whoever uses the disk asks for any transfer when the one before is over.
DiskNext ==
  \/ \E op \in {"read", "write"}, start \in Nat, count \in Nat : Transfer(op, start, count)
  \/ DiskStep

DiskSpec == DiskInit /\ [][DiskNext]_diskVars

\* Probing for s gets as far as place i.
Reaches(s, i) ==
  \E d \in Places : Place(s, d) = i /\ \A e \in 0..(d - 1) : ~Stops(s, Place(s, e))

\* No page is in two places, and a sector that has one is where probing gets to.
TableInv ==
  /\ \A i, j \in Places : slots[i] # 0 /\ slots[i] = slots[j] => i = j
  /\ \A i \in Places : slots[i] <= pages_used
  /\ \A i \in Places : slots[i] # 0 => Reaches(slot_sector[i], i)

CountInv == IsFiniteSet(Written) /\ Cardinality(Written) = pages_used

DiskInv == DiskTypeOK /\ TableInv /\ CountInv

---------------------------------------------------------------------------
\* Every set of natural numbers that is not empty has a least element.
LEMMA Least ==
  ASSUME NEW T \in SUBSET Nat, T # {}
  PROVE  \E x \in T : \A y \in T : x <= y
<1> DEFINE R == {ss \in Nat \X Nat : ss[1] < ss[2]}
<1>1. IsWellFoundedOn(R, Nat)
  BY NatLessThanWellFounded DEF OpToRel
<1>2. PICK x \in T : \A y \in T : ~ (<<y, x>> \in R)
  <2>. HIDE DEF R
  <2>. QED BY <1>1, WFMin
<1>3. \A y \in T : <<y, x>> \in R <=> y < x
  OBVIOUS
<1>. HIDE DEF R
<1>4. \A y \in T : ~(y < x)
  BY <1>2, <1>3
<1>5. \A y \in T : x <= y
  BY <1>4
<1>. QED BY <1>5

LEMMA Remainder ==
  ASSUME NEW a \in Nat, NEW n \in Nat \ {0} PROVE a % n \in 0..(n - 1)
OBVIOUS

LEMMA ProductIsNatural ==
  ASSUME NEW a \in Nat, NEW b \in Nat PROVE a * b \in Nat
OBVIOUS

LEMMA HomeIsAPlace == ASSUME NEW s \in Sectors PROVE Home(s) \in Places
<1>1. s \in Nat /\ Multiplier \in Nat /\ SlotCount \in Nat \ {0}
  BY DiskAssumption DEF Sectors
<1>2. s * Multiplier \in Nat
  BY <1>1, ProductIsNatural
<1>. QED BY <1>1, <1>2, Remainder DEF Home, Places

\* The probing visits every place, and none of them twice.
LEMMA PlaceIsAPlace ==
  ASSUME NEW s \in Sectors, NEW d \in Places
  PROVE  /\ Place(s, d) \in Places
         /\ \A e \in Places : Place(s, d) = Place(s, e) => d = e
BY HomeIsAPlace, DiskAssumption DEF Place, Places

---------------------------------------------------------------------------
\* A table with more places than pages has a free place on every path.
LEMMA FreePlace ==
  DiskTypeOK /\ TableInv => \A s \in Sectors : \E d \in Places : slots[Place(s, d)] = 0
<1> SUFFICES ASSUME DiskTypeOK, TableInv, NEW s \in Sectors,
                    \A d \in Places : slots[Place(s, d)] # 0
             PROVE  FALSE
  OBVIOUS
<1> DEFINE f == [d \in Places |-> slots[Place(s, d)]]
<1>1. f \in [Places -> 1..MaxPages]
  BY PlaceIsAPlace, DiskAssumption DEF DiskTypeOK
<1>2. \A d, e \in Places : f[d] = f[e] => d = e
  BY PlaceIsAPlace DEF TableInv
<1>3. IsFiniteSet(Places) /\ Cardinality(Places) = SlotCount
  BY FS_Interval, DiskAssumption DEF Places
<1>4. IsFiniteSet(1..MaxPages) /\ Cardinality(1..MaxPages) = MaxPages
  BY FS_Interval, DiskAssumption
<1>. HIDE DEF f
<1>5. \E x, y \in Places : x # y /\ f[x] = f[y]
  BY <1>1, <1>3, <1>4, FS_PigeonHole, DiskAssumption
<1>. QED BY <1>2, <1>5

\* The loop of slot_of ends, at the first place where it may.
LEMMA ProbingEnds ==
  DiskTypeOK /\ TableInv =>
    \A s \in Sectors :
      /\ Steps(s) \in Places
      /\ Stops(s, Place(s, Steps(s)))
      /\ \A e \in 0..(Steps(s) - 1) : ~Stops(s, Place(s, e))
<1> SUFFICES ASSUME DiskTypeOK, TableInv, NEW s \in Sectors
             PROVE  \E d \in Places :
                      Stops(s, Place(s, d)) /\ \A e \in 0..(d - 1) : ~Stops(s, Place(s, e))
  BY DEF Steps
<1> DEFINE T == {d \in Places : Stops(s, Place(s, d))}
<1>1. T \in SUBSET Nat /\ T # {}
  BY FreePlace DEF Stops, Places
<1>2. PICK d \in T : \A e \in T : d <= e
  <2>. HIDE DEF T
  <2>. QED BY <1>1, Least
<1>3. d \in Places /\ Stops(s, Place(s, d))
  OBVIOUS
<1>4. \A e \in 0..(d - 1) : e \in Places /\ ~(d <= e)
  BY <1>3, DiskAssumption DEF Places
<1>5. \A e \in 0..(d - 1) : ~Stops(s, Place(s, e))
  BY <1>2, <1>4
<1>. QED BY <1>3, <1>5

\* Where the probing for a sector ends.
LEMMA SlotOfStops ==
  DiskTypeOK /\ TableInv =>
    \A s \in Sectors :
      SlotOf(s) \in Places /\ (slots[SlotOf(s)] = 0 \/ slot_sector[SlotOf(s)] = s)
BY ProbingEnds, PlaceIsAPlace DEF SlotOf, Stops

\* A sector that has a page is found.
LEMMA Found ==
  DiskTypeOK /\ TableInv =>
    \A i \in Places : slots[i] # 0 => SlotOf(slot_sector[i]) = i
<1> SUFFICES ASSUME DiskTypeOK, TableInv, NEW i \in Places, slots[i] # 0
             PROVE  SlotOf(slot_sector[i]) = i
  OBVIOUS
<1> DEFINE s == slot_sector[i]
           n == Steps(s)
<1>1. s \in Sectors
  BY DEF DiskTypeOK
<1>2. PICK d \in Places : Place(s, d) = i /\ \A e \in 0..(d - 1) : ~Stops(s, Place(s, e))
  BY DEF TableInv, Reaches
<1>3. /\ n \in Places /\ Stops(s, Place(s, n))
      /\ \A e \in 0..(n - 1) : ~Stops(s, Place(s, e))
  BY <1>1, ProbingEnds
<1>4. Stops(s, Place(s, d))
  BY <1>2 DEF Stops
<1>. HIDE DEF s, n
<1>5. n = d
  BY <1>2, <1>3, <1>4, DiskAssumption DEF Places
<1>. QED BY <1>2, <1>5 DEF SlotOf, s, n

\* No two sectors share a place or a page, and none has two.
LEMMA OnePlace ==
  DiskTypeOK /\ TableInv =>
    \A i, j \in Places :
      slots[i] # 0 /\ slots[j] # 0 /\ slot_sector[i] = slot_sector[j] => i = j
BY Found

LEMMA HasPage ==
  DiskTypeOK /\ TableInv => \A s \in Sectors : PageFind(s) # 0 <=> s \in Written
BY SlotOfStops, Found DEF PageFind, Written

\* What a sector reads as, without the probing.
LEMMA ReadByPlace ==
  DiskTypeOK /\ TableInv =>
    \A s \in Sectors :
      /\ \A i \in Places : slots[i] # 0 /\ slot_sector[i] = s => Read(s) = pages[slots[i]]
      /\ s \notin Written => Read(s) = Zero
BY Found, HasPage DEF Read, PageFind

---------------------------------------------------------------------------
\* The sector a transfer is at is one of the card.
LEMMA AtASector == DiskTypeOK /\ io.op # "none" => io.next \in Sectors
BY DiskAssumption DEF DiskTypeOK, Sectors

LEMMA AdvanceType ==
  ASSUME DiskTypeOK, io.op # "none", Advance
  PROVE  /\ io' \in [op : {"none", "read", "write"}, start : Nat, next : Nat, end : 0..SectorCount]
         /\ io'.op # "none" => io'.start <= io'.next /\ io'.next < io'.end
<1>1. CASE io.next + 1 < io.end
  BY <1>1 DEF DiskTypeOK, Advance
<1>2. CASE ~(io.next + 1 < io.end)
  BY <1>2, DiskAssumption DEF DiskTypeOK, Advance, Idle
<1>. QED BY <1>1, <1>2

\* What a table that does not change keeps.
LEMMA TableKept ==
  ASSUME DiskInv, UNCHANGED <<slots, slot_sector, pages_used>>
  PROVE  TableInv' /\ CountInv' /\ Written' = Written
<1>1. \A i \in Places : slots[i] # 0 => Reaches(slot_sector[i], i)'
  BY DEF DiskInv, TableInv, Reaches, Stops
<1>. QED BY <1>1 DEF DiskInv, TableInv, CountInv, Written

\* page_get, of a sector without a page.
LEMMA Materialised ==
  ASSUME DiskInv, NEW c \in Contents, MaterialiseSector(c)
  PROVE  DiskInv' /\ Written' = Written \union {io.next}
<1> DEFINE s == io.next
           p == SlotOf(s)
           n == pages_used + 1
<1>1. s \in Sectors /\ s \in Nat
  BY AtASector DEF DiskInv, MaterialiseSector, Sectors
<1>2. p \in Places /\ slots[p] = 0 /\ s \notin Written
  BY <1>1, SlotOfStops, HasPage DEF DiskInv, MaterialiseSector, PageFind
<1>3. /\ n \in 1..MaxPages /\ pages_used' = n
      /\ slots' = [slots EXCEPT ![p] = n]
      /\ slot_sector' = [slot_sector EXCEPT ![p] = s]
      /\ pages' = [pages EXCEPT ![n] = c]
  BY DiskAssumption DEF MaterialiseSector, DiskInv, DiskTypeOK
<1>4. DiskTypeOK'
  <2>1. io.op # "none" /\ Advance
    BY DEF MaterialiseSector
  <2>2. /\ slots' \in [Places -> 0..MaxPages] /\ slot_sector' \in [Places -> Sectors]
        /\ pages' \in [1..MaxPages -> Contents] /\ pages_used' \in 0..MaxPages
    BY <1>1, <1>2, <1>3 DEF DiskInv, DiskTypeOK
  <2>. QED BY <2>1, <2>2, AdvanceType DEF DiskTypeOK, DiskInv
<1>5. \A i \in Places \ {p} : slots'[i] = slots[i] /\ slot_sector'[i] = slot_sector[i]
  BY <1>3 DEF DiskInv, DiskTypeOK
<1>6. slots'[p] = n /\ slot_sector'[p] = s
  BY <1>2, <1>3 DEF DiskInv, DiskTypeOK
<1>. HIDE DEF s, p, n
<1>7. \A i \in Places : slots[i] <= pages_used /\ slots[i] # n
  BY <1>3 DEF DiskInv, TableInv, DiskTypeOK, n
<1>8. \A t \in Sectors, d \in Places :
        ~Stops(t, Place(t, d)) => ~Stops(t, Place(t, d))'
  BY <1>2, <1>5, PlaceIsAPlace DEF Stops
<1>9. \A i \in Places : slots'[i] # 0 => Reaches(slot_sector[i], i)'
  <2> SUFFICES ASSUME NEW i \in Places, slots'[i] # 0
               PROVE  Reaches(slot_sector[i], i)'
    OBVIOUS
  <2>1. PICK d \in Places :
          Place(slot_sector'[i], d) = i
          /\ \A e \in 0..(d - 1) : ~Stops(slot_sector'[i], Place(slot_sector'[i], e))
    <3>1. CASE i = p
      BY <3>1, <1>1, <1>6, ProbingEnds DEF DiskInv, SlotOf, p
    <3>2. CASE i # p
      BY <3>2, <1>5 DEF DiskInv, TableInv, Reaches
    <3>. QED BY <3>1, <3>2
  <2>2. slot_sector'[i] \in Sectors
    BY <1>4 DEF DiskTypeOK
  <2>3. \A e \in 0..(d - 1) : e \in Places
    BY DiskAssumption DEF Places
  <2>. QED BY <2>1, <2>2, <2>3, <1>8 DEF Reaches, Stops
<1>10. TableInv'
  BY <1>2, <1>3, <1>5, <1>6, <1>7, <1>9 DEF TableInv, DiskInv, n, DiskTypeOK
<1>11. Written' = Written \union {s}
  BY <1>2, <1>3, <1>5, <1>6 DEF Written
<1>12. CountInv'
  BY <1>2, <1>3, <1>11, FS_AddElement DEF CountInv, DiskInv, n
<1>. QED BY <1>4, <1>10, <1>11, <1>12 DEF DiskInv, s

---------------------------------------------------------------------------
LEMMA DiskInvInit == DiskInit => DiskInv
<1> SUFFICES ASSUME DiskInit PROVE DiskInv
  OBVIOUS
<1>1. 0 \in Sectors
  BY DiskAssumption DEF Sectors
<1>2. DiskTypeOK
  BY <1>1, DiskAssumption DEF DiskInit, DiskTypeOK, Idle
<1>3. Written = {}
  BY DEF DiskInit, Written
<1>4. CountInv
  BY <1>3, FS_EmptySet DEF CountInv, DiskInit
<1>5. TableInv
  BY DEF DiskInit, TableInv
<1>. QED BY <1>2, <1>4, <1>5 DEF DiskInv

LEMMA DiskInvStep == DiskInv /\ [DiskNext]_diskVars => DiskInv'
<1> SUFFICES ASSUME DiskInv, [DiskNext]_diskVars PROVE DiskInv'
  OBVIOUS
<1>1. ASSUME NEW op \in {"read", "write"}, NEW start \in Nat, NEW count \in Nat,
             Transfer(op, start, count)
      PROVE  DiskInv'
  <2>1. /\ io' \in [op : {"none", "read", "write"}, start : Nat, next : Nat, end : 0..SectorCount]
        /\ io'.op # "none" => io'.start <= io'.next /\ io'.next < io'.end
    BY <1>1, DiskAssumption DEF Transfer, Idle
  <2>2. DiskTypeOK'
    BY <1>1, <2>1 DEF Transfer, tableVars, DiskInv, DiskTypeOK
  <2>. QED BY <1>1, <2>2, TableKept DEF Transfer, tableVars, DiskInv
<1>2. CASE ReadSector
  <2>1. DiskTypeOK'
    BY <1>2, AdvanceType DEF ReadSector, tableVars, DiskInv, DiskTypeOK
  <2>. QED BY <1>2, <2>1, TableKept DEF ReadSector, tableVars, DiskInv
<1>3. ASSUME NEW c \in Contents, OverwriteSector(c) PROVE DiskInv'
  <2>1. pages' \in [1..MaxPages -> Contents]
    BY <1>3 DEF OverwriteSector, DiskInv, DiskTypeOK
  <2>2. DiskTypeOK'
    BY <1>3, <2>1, AdvanceType DEF OverwriteSector, DiskInv, DiskTypeOK
  <2>. QED BY <1>3, <2>2, TableKept DEF OverwriteSector, DiskInv
<1>4. ASSUME NEW c \in Contents, MaterialiseSector(c) PROVE DiskInv'
  BY <1>4, Materialised
<1>5. CASE OutOfPages
  <2>1. DiskTypeOK'
    BY <1>5, DiskAssumption DEF OutOfPages, tableVars, Idle, DiskInv, DiskTypeOK
  <2>. QED BY <1>5, <2>1, TableKept DEF OutOfPages, tableVars, DiskInv
<1>6. CASE UNCHANGED diskVars
  <2>1. DiskTypeOK'
    BY <1>6 DEF diskVars, tableVars, DiskInv, DiskTypeOK
  <2>. QED BY <1>6, <2>1, TableKept DEF diskVars, tableVars, DiskInv
<1>. QED BY <1>1, <1>2, <1>3, <1>4, <1>5, <1>6 DEF DiskNext, DiskStep

\* The invariant of the table: no page is lost, given twice or out of reach.
THEOREM TableIsSound == DiskSpec => []DiskInv
BY DiskInvInit, DiskInvStep, PTL DEF DiskSpec

---------------------------------------------------------------------------
\* The refinement: every step of the disk is one of the array's or none.
LEMMA ReadNext ==
  DiskInv' =>
    \A s \in Sectors :
      /\ \A i \in Places : slots'[i] # 0 /\ slot_sector'[i] = s => Read(s)' = pages'[slots'[i]]
      /\ s \notin Written' => Read(s)' = Zero
<1>1. (DiskTypeOK /\ TableInv =>
        \A s \in Sectors :
          /\ \A i \in Places : slots[i] # 0 /\ slot_sector[i] = s => Read(s) = pages[slots[i]]
          /\ s \notin Written => Read(s) = Zero)'
  BY ReadByPlace, PTL
<1>. QED BY <1>1 DEF DiskInv

\* A table that does not change reads as before.
LEMMA ReadKept ==
  ASSUME DiskInv, DiskInv', UNCHANGED tableVars
  PROVE  Written' = Written /\ [s \in Sectors |-> Read(s)]' = [s \in Sectors |-> Read(s)]
<1>1. Written' = Written
  BY DEF tableVars, Written
<1>2. \A s \in Sectors : Read(s)' = Read(s)
  <2> SUFFICES ASSUME NEW s \in Sectors PROVE Read(s)' = Read(s)
    OBVIOUS
  <2>1. CASE s \notin Written
    BY <2>1, <1>1, ReadNext, ReadByPlace DEF DiskInv
  <2>2. CASE s \in Written
    <3>1. PICK i \in Places : slots[i] # 0 /\ slot_sector[i] = s
      BY <2>2 DEF Written
    <3>. QED BY <3>1, ReadNext, ReadByPlace DEF DiskInv, tableVars
  <2>. QED BY <2>1, <2>2
<1>. QED BY <1>1, <1>2

\* A write changes what the sector reads as, and nothing else.
LEMMA Overwritten ==
  ASSUME DiskInv, DiskInv', NEW c \in Contents, OverwriteSector(c)
  PROVE  /\ io.next \in Sectors
         /\ Written' = Written \union {io.next}
         /\ \A s \in Sectors : Read(s)' = IF s = io.next THEN c ELSE Read(s)
<1>1. io.next \in Sectors /\ io.next \in Written
  BY AtASector, HasPage DEF OverwriteSector, DiskInv
<1>2. Written' = Written
  BY TableKept DEF OverwriteSector
<1> DEFINE p == SlotOf(io.next)
<1>3. p \in Places /\ slots[p] # 0 /\ slot_sector[p] = io.next
  BY <1>1, SlotOfStops DEF DiskInv, OverwriteSector, PageFind
<1>4. pages' = [pages EXCEPT ![slots[p]] = c]
  BY DEF OverwriteSector, PageFind
<1>. HIDE DEF p
<1>5. \A s \in Sectors : Read(s)' = IF s = io.next THEN c ELSE Read(s)
  <2> SUFFICES ASSUME NEW s \in Sectors
               PROVE  Read(s)' = IF s = io.next THEN c ELSE Read(s)
    OBVIOUS
  <2>1. CASE s \notin Written
    BY <2>1, <1>1, <1>2, ReadNext, ReadByPlace DEF DiskInv
  <2>2. CASE s \in Written
    <3>1. PICK i \in Places : slots[i] # 0 /\ slot_sector[i] = s
      BY <2>2 DEF Written
    <3>2. Read(s)' = pages'[slots[i]] /\ Read(s) = pages[slots[i]]
      BY <3>1, ReadNext, ReadByPlace DEF DiskInv, OverwriteSector
    <3>3. slots[i] \in 1..MaxPages /\ slots[p] \in 1..MaxPages
      BY <3>1, <1>3, DiskAssumption DEF DiskInv, DiskTypeOK
    <3>4. s = io.next <=> slots[i] = slots[p]
      BY <3>1, <1>3, OnePlace DEF DiskInv, TableInv
    <3>. QED BY <3>2, <3>3, <3>4, <1>4 DEF DiskInv, DiskTypeOK
  <2>. QED BY <2>1, <2>2
<1>. QED BY <1>1, <1>2, <1>5

LEMMA FirstWritten ==
  ASSUME DiskInv, DiskInv', NEW c \in Contents, MaterialiseSector(c)
  PROVE  /\ io.next \in Sectors
         /\ Written' = Written \union {io.next}
         /\ \A s \in Sectors : Read(s)' = IF s = io.next THEN c ELSE Read(s)
<1> DEFINE p == SlotOf(io.next)
           n == pages_used + 1
<1>1. io.next \in Sectors /\ io.next \notin Written
  BY AtASector, HasPage DEF MaterialiseSector, DiskInv
<1>2. Written' = Written \union {io.next}
  BY Materialised
<1>3. p \in Places /\ slots[p] = 0
  BY <1>1, SlotOfStops DEF DiskInv, MaterialiseSector, PageFind
<1>4. /\ n \in 1..MaxPages
      /\ slots' = [slots EXCEPT ![p] = n]
      /\ slot_sector' = [slot_sector EXCEPT ![p] = io.next]
      /\ pages' = [pages EXCEPT ![n] = c]
  BY DiskAssumption DEF MaterialiseSector, DiskInv, DiskTypeOK
<1>5. \A i \in Places : slots[i] <= pages_used /\ slots[i] # n /\ slots[i] \in Nat
  BY DEF DiskInv, TableInv, DiskTypeOK
<1>. HIDE DEF p, n
<1>6. \A s \in Sectors : Read(s)' = IF s = io.next THEN c ELSE Read(s)
  <2> SUFFICES ASSUME NEW s \in Sectors
               PROVE  Read(s)' = IF s = io.next THEN c ELSE Read(s)
    OBVIOUS
  <2>1. CASE s = io.next
    <3>1. slots'[p] = n /\ slot_sector'[p] = s /\ n # 0 /\ pages'[n] = c
      BY <2>1, <1>3, <1>4 DEF DiskInv, DiskTypeOK
    <3>. QED BY <2>1, <3>1, <1>3, ReadNext
  <2>2. CASE s # io.next /\ s \notin Written
    BY <2>2, <1>2, ReadNext, ReadByPlace DEF DiskInv
  <2>3. CASE s # io.next /\ s \in Written
    <3>1. PICK i \in Places : slots[i] # 0 /\ slot_sector[i] = s
      BY <2>3 DEF Written
    <3>2. slots'[i] = slots[i] /\ slot_sector'[i] = s
      BY <3>1, <1>3, <1>4 DEF DiskInv, DiskTypeOK
    <3>3. pages'[slots[i]] = pages[slots[i]]
      BY <3>1, <1>4, <1>5, DiskAssumption DEF DiskInv, DiskTypeOK
    <3>. QED BY <2>3, <3>1, <3>2, <3>3, ReadNext, ReadByPlace DEF DiskInv
  <2>. QED BY <2>1, <2>2, <2>3
<1>. QED BY <1>1, <1>2, <1>6

LEMMA DiskInitRefines == DiskInit => Promised!ArrayInit
<1> SUFFICES ASSUME DiskInit PROVE Promised!ArrayInit
  OBVIOUS
<1>1. DiskInv
  BY DiskInvInit
<1>2. Written = {}
  BY DEF DiskInit, Written
<1>3. \A s \in Sectors : Read(s) = Zero
  BY <1>1, <1>2, ReadByPlace DEF DiskInv
<1>. QED BY <1>2, <1>3 DEF Promised!ArrayInit, Promised!Sectors, Sectors, DiskInit,
           Promised!Nothing, Nothing

LEMMA DiskStepRefines ==
  DiskInv /\ DiskInv' /\ [DiskNext]_diskVars
    => [Promised!ArrayNext]_<<[s \in Sectors |-> Read(s)], Written, got>>
<1> SUFFICES ASSUME DiskInv, DiskInv', [DiskNext]_diskVars
             PROVE  \/ Promised!ArrayNext
                    \/ UNCHANGED <<[s \in Sectors |-> Read(s)], Written, got>>
  OBVIOUS
<1>1. CASE \E op \in {"read", "write"}, start \in Nat, count \in Nat : Transfer(op, start, count)
  BY <1>1, ReadKept DEF Transfer
<1>2. CASE ReadSector
  <2>1. io.next \in Sectors
    BY <1>2, AtASector DEF ReadSector, DiskInv
  <2>2. Promised!Get(io.next)
    BY <1>2, <2>1, ReadKept DEF ReadSector, Promised!Get
  <2>. QED BY <2>1, <2>2 DEF Promised!ArrayNext, Promised!Sectors, Sectors
<1>3. ASSUME NEW c \in Contents, OverwriteSector(c) \/ MaterialiseSector(c)
      PROVE  Promised!ArrayNext
  <2>1. /\ io.next \in Sectors
        /\ Written' = Written \union {io.next}
        /\ \A s \in Sectors : Read(s)' = IF s = io.next THEN c ELSE Read(s)
    BY <1>3, Overwritten, FirstWritten
  <2>2. got' = Nothing
    BY <1>3 DEF OverwriteSector, MaterialiseSector
  <2>3. [s \in Sectors |-> Read(s)]' = [[s \in Sectors |-> Read(s)] EXCEPT ![io.next] = c]
    BY <2>1
  <2>4. Promised!Put(io.next, c)
    BY <2>1, <2>2, <2>3 DEF Promised!Put, Promised!Nothing, Nothing
  <2>. QED BY <2>1, <2>4 DEF Promised!ArrayNext, Promised!Sectors, Sectors
<1>4. CASE OutOfPages
  <2>1. io.next \in Sectors /\ io.next \notin Written
    BY <1>4, AtASector, HasPage DEF OutOfPages, DiskInv
  <2>2. Cardinality(Written) = MaxPages
    BY <1>4, DiskAssumption DEF OutOfPages, DiskInv, CountInv, DiskTypeOK
  <2>3. Promised!Cardinality(Written) = Cardinality(Written)
    BY DEF Promised!Cardinality, Cardinality
  <2>4. Promised!Refuse(io.next)
    BY <1>4, <2>1, <2>2, <2>3, ReadKept DEF OutOfPages, Promised!Refuse, Promised!NoSpace, NoSpace
  <2>. QED BY <2>1, <2>4 DEF Promised!ArrayNext, Promised!Sectors, Sectors
<1>5. CASE UNCHANGED diskVars
  BY <1>5, ReadKept DEF diskVars
<1>. QED BY <1>1, <1>2, <1>3, <1>4, <1>5 DEF DiskNext, DiskStep

\* The disk is an array of sectors, however they collide in the table.
THEOREM DiskRefinesArray == DiskSpec => ImplementsSectorArray
BY DiskInitRefines, DiskStepRefines, TableIsSound, PTL
   DEF DiskSpec, ImplementsSectorArray, Promised!ArraySpec
=============================================================================
