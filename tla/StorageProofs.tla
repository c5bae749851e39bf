--------------------------- MODULE StorageProofs ----------------------------
(***************************************************************************)
(* Proofs about Storage and about the main thread over it: for any callers *)
(* and cards, any directories, ceiling and room.                           *)
(***************************************************************************)
EXTENDS Boot, FiniteSetTheorems, SequenceTheorems, TLAPS

---------------------------------------------------------------------------
\* The places of the tracks in a directory, and their indices.

\* The tracks among the first n entries.
Seen(c, n) == {i \in TrackPlaces(c) : i <= n}

LEMMA PlacesFinite ==
  ASSUME NEW c \in Cards
  PROVE  /\ IsFiniteSet(TrackPlaces(c)) /\ Cardinality(TrackPlaces(c)) \in Nat
         /\ \A S \in SUBSET TrackPlaces(c) : IsFiniteSet(S) /\ Cardinality(S) \in Nat
<1>1. Len(Root[c]) \in Nat /\ DOMAIN Root[c] = 1..Len(Root[c])
  BY StorageAssumption
<1>2. IsFiniteSet(1..Len(Root[c]))
  BY <1>1, FS_Interval
<1>3. TrackPlaces(c) \subseteq 1..Len(Root[c])
  BY <1>1 DEF TrackPlaces
<1>4. \A S \in SUBSET TrackPlaces(c) : IsFiniteSet(S)
  BY <1>2, <1>3, FS_Subset
<1>5. QED
  BY <1>4, FS_CardinalityType

\* One more entry is one more track, or none.
LEMMA SeenMore ==
  ASSUME NEW c \in Cards, NEW n \in Nat
  PROVE  /\ Cardinality(Seen(c, n)) \in Nat
         /\ n + 1 \in TrackPlaces(c) =>
              /\ Cardinality(Seen(c, n + 1)) = Cardinality(Seen(c, n)) + 1
              /\ IndexOf(c, n + 1) = Cardinality(Seen(c, n))
         /\ n + 1 \notin TrackPlaces(c) => Seen(c, n + 1) = Seen(c, n)
<1>1. TrackPlaces(c) \subseteq Nat
  BY StorageAssumption DEF TrackPlaces
<1>2. IsFiniteSet(Seen(c, n)) /\ Cardinality(Seen(c, n)) \in Nat
  BY PlacesFinite DEF Seen
<1>3. ASSUME n + 1 \in TrackPlaces(c)
      PROVE  /\ Cardinality(Seen(c, n + 1)) = Cardinality(Seen(c, n)) + 1
             /\ IndexOf(c, n + 1) = Cardinality(Seen(c, n))
  <2>1. Seen(c, n + 1) = Seen(c, n) \union {n + 1} /\ n + 1 \notin Seen(c, n)
    BY <1>1, <1>3 DEF Seen
  <2>2. {i \in TrackPlaces(c) : i < n + 1} = Seen(c, n)
    BY <1>1 DEF Seen
  <2>3. QED
    BY <1>2, <2>1, <2>2, FS_AddElement DEF IndexOf
<1>4. n + 1 \notin TrackPlaces(c) => Seen(c, n + 1) = Seen(c, n)
  BY <1>1 DEF Seen
<1>5. QED
  BY <1>2, <1>3, <1>4

\* Before the first entry nothing has been seen, after the last one everything.
LEMMA SeenAll ==
  ASSUME NEW c \in Cards
  PROVE  Cardinality(Seen(c, 0)) = 0 /\ Seen(c, Len(Root[c])) = TrackPlaces(c)
<1>1. Seen(c, 0) = {} /\ Seen(c, Len(Root[c])) = TrackPlaces(c)
  BY StorageAssumption DEF Seen, TrackPlaces
<1>2. QED
  BY <1>1, FS_EmptySet

\* Of two tracks the later one has the larger index.
LEMMA IndexGrows ==
  ASSUME NEW c \in Cards, NEW i \in TrackPlaces(c), NEW j \in TrackPlaces(c), i < j
  PROVE  IndexOf(c, i) < IndexOf(c, j)
<1> DEFINE S == {k \in TrackPlaces(c) : k < i}
           T == {k \in TrackPlaces(c) : k < j}
<1>1. TrackPlaces(c) \subseteq Nat
  BY StorageAssumption DEF TrackPlaces
<1>2. S \union {i} \subseteq T /\ i \notin S
  BY <1>1
<1>3. IsFiniteSet(S) /\ IsFiniteSet(T) /\ Cardinality(S) \in Nat /\ Cardinality(T) \in Nat
  BY PlacesFinite
<1> HIDE DEF S, T
<1>4. Cardinality(S \union {i}) = Cardinality(S) + 1
  BY <1>2, <1>3, FS_AddElement
<1>5. Cardinality(S \union {i}) <= Cardinality(T)
  BY <1>2, <1>3, FS_Subset
<1>6. Cardinality(S) < Cardinality(T)
  BY <1>3, <1>4, <1>5
<1>7. QED
  BY <1>6 DEF IndexOf, S, T

\* So an index names one place.
LEMMA PlaceOfIndex ==
  ASSUME NEW c \in Cards, NEW i \in TrackPlaces(c)
  PROVE  PlaceOf(c, IndexOf(c, i)) = i
<1>1. \A j \in TrackPlaces(c) : IndexOf(c, j) \in Nat
  BY PlacesFinite DEF IndexOf
<1>2. ASSUME NEW j \in TrackPlaces(c), IndexOf(c, j) = IndexOf(c, i) PROVE j = i
  <2>1. ~(i < j) /\ ~(j < i)
    BY <1>1, <1>2, IndexGrows
  <2>2. i \in Nat /\ j \in Nat
    BY StorageAssumption DEF TrackPlaces
  <2>3. QED
    BY <2>1, <2>2
<1>3. QED
  BY <1>2 DEF PlaceOf

---------------------------------------------------------------------------
\* The inductive invariant.

\* The volume is on loan to who is between card_acquire and card_release, one
\* thread at a time.
LoanInv ==
  /\ \A t \in Threads : loans[t] = IF pc[t] \in Borrowing THEN 1 ELSE 0
  /\ TableIsBorrowed
  /\ \A t \in Threads : pc[t] \in Borrowing => state = "READY"
  /\ state = "READY" => vol \in Cards

\* The vector and the table hold the tracks among the first n entries, up to the
\* room there is, and `ignored` counts the others.
Partial(t, n) ==
  /\ n <= Len(Root[vol])
  /\ \A i \in 1..Len(out[t]) :
       /\ out[t][i] = Describe(Root[vol][PlaceOf(vol, i - 1)], i - 1)
       /\ lib_files[i] = Root[vol][PlaceOf(vol, i - 1)].name
  /\ Len(out[t]) + ignored[t] = Cardinality(Seen(vol, n))
  /\ Len(out[t]) <= Room(t)
  /\ ignored[t] > 0 => Len(out[t]) = Room(t)

\* A scan that got to the end of the directory, or did not.
Complete(t) ==
  result[t] = EIO \/ (result[t] = Len(out[t]) /\ Partial(t, Len(Root[vol])))

\* What a thread knows of its call.
CallInv(t) ==
  /\ pc[t] \in Scanning \union {"scan", "scanned"} => arg[t] \in Capacities \ {0}
  /\ pc[t] # "back" => skipped[t] \in {0, Unset}
  /\ pc[t] \in {"idle", "scan", "load", "lookup", "looked", "opendir"} =>
       pos[t] = 0 /\ ignored[t] = 0 /\ out[t] = <<>>
  /\ pc[t] = "readdir" => Partial(t, pos[t])
  /\ pc[t] = "describe" =>
       pos[t] \in TrackPlaces(vol) /\ Partial(t, pos[t] - 1) /\ Len(out[t]) < Room(t)
  /\ pc[t] \in {"settle", "scanned"} => Complete(t)
  /\ pc[t] = "scanned" => lib_count = IF result[t] > 0 THEN result[t] ELSE 0
  /\ pc[t] = "looked" => result[t] \in {ENOTSUP, ENOENT}
  /\ pc[t] = "back" =>
       IF result[t] >= 0 THEN AnswersOneCard(t) ELSE skipped[t] \in {0, Unset}

StorageInv == TypeOK /\ LoanInv /\ \A t \in Threads : CallInv(t)

\* Errors are negative and not Unset.
Errors == {EINVAL, ENODEV, EIO, ENOENT, ENOTSUP}

LEMMA ErrorsNegative == \A e \in Errors : e \in Int /\ e < 0
BY DEF Errors, EINVAL, ENODEV, EIO, ENOENT, ENOTSUP

LEMMA RoomBounded ==
  ASSUME TypeOK, NEW t \in Threads, arg[t] \in Capacities \ {0}
  PROVE  Room(t) \in 1..LibraryMax
<1>1. arg[t] \in Nat /\ arg[t] # 0 /\ LibraryMax \in Nat /\ LibraryMax # 0
  BY StorageAssumption
<1>2. Room(t) = IF arg[t] < LibraryMax THEN arg[t] ELSE LibraryMax
  BY DEF Room, Ceiling, Smaller
<1>3. QED
  BY <1>1, <1>2

LEMMA StorageInit == Init => StorageInv
<1> SUFFICES ASSUME Init PROVE StorageInv
  OBVIOUS
<1> USE StorageAssumption DEF Init, ContractInit
<1>1. TypeOK
  BY DEF TypeOK, Places, Borrowing, Scanning, Unset
<1>2. LoanInv
  BY DEF LoanInv, TableIsBorrowed, Borrowing, Scanning
<1>3. \A t \in Threads : CallInv(t)
  BY DEF CallInv, Scanning, Unset
<1>4. QED
  BY <1>1, <1>2, <1>3 DEF StorageInv

---------------------------------------------------------------------------
\* The loan.

LEMMA PollLoan ==
  ASSUME TypeOK, LoanInv, Poll PROVE LoanInv'
BY DEF TypeOK, LoanInv, TableIsBorrowed, Poll, Evaluate, NoLoans, Borrowing, Scanning,
       contractVars

\* A step between two places where the volume is on loan, or between two where
\* it is not.
LEMMA LoanFrame ==
  ASSUME TypeOK, LoanInv, NEW t \in Threads, NEW p, Goto(t, p),
         p \in Borrowing <=> pc[t] \in Borrowing,
         UNCHANGED <<contractVars, vol>>
  PROVE  LoanInv'
BY DEF TypeOK, LoanInv, TableIsBorrowed, Goto, contractVars

LEMMA AcquireLoan ==
  ASSUME TypeOK, LoanInv, NEW t \in Threads, NEW p \in Borrowing,
         pc[t] \notin Borrowing, Acquire(t, p)
  PROVE  LoanInv'
<1>1. CASE Lend(t) /\ Goto(t, p)
  <2>1. \A u \in Threads \ {t} : pc[u] \notin Borrowing
    BY <1>1 DEF Lend, LoanInv
  <2>2. loans[t] = 0
    BY DEF LoanInv
  <2>3. loans' = [loans EXCEPT ![t] = 1] /\ state = "READY" /\ state' = state
    BY <1>1, <2>2 DEF Lend, TypeOK
  <2>4. QED
    BY <1>1, <2>1, <2>3 DEF Acquire, LoanInv, TableIsBorrowed, TypeOK, Goto
<1>2. CASE Goto(t, "back") /\ UNCHANGED contractVars
  BY <1>2, LoanFrame DEF Acquire, Borrowing, Scanning
<1>3. QED
  BY <1>1, <1>2 DEF Acquire

LEMMA ReleaseLoan ==
  ASSUME TypeOK, LoanInv, NEW t \in Threads, pc[t] \in Borrowing,
         GiveBack(t), Goto(t, "back"), UNCHANGED vol
  PROVE  LoanInv'
<1>1. loans' = [loans EXCEPT ![t] = 0] /\ UNCHANGED state
  <2>1. loans[t] = 1
    BY DEF LoanInv
  <2>2. QED
    BY <2>1 DEF GiveBack
<1>2. \A u \in Threads : pc'[u] = IF u = t THEN "back" ELSE pc[u]
  BY DEF Goto, TypeOK
<1>3. QED
  BY <1>1, <1>2 DEF LoanInv, TableIsBorrowed, TypeOK, Borrowing, Scanning

LEMMA LoanStep ==
  ASSUME TypeOK, LoanInv, [Next]_storageVars PROVE LoanInv'
<1> USE DEF At
<1>1. ASSUME NEW t \in Threads, Inside(t) PROVE LoanInv'
  <2>1. CASE ScanAcquire(t) \/ LoadAcquire(t)
    BY <2>1, AcquireLoan DEF ScanAcquire, LoadAcquire, Borrowing, Scanning
  <2>2. CASE ScanRelease(t) \/ LoadRelease(t)
    BY <2>2, ReleaseLoan DEF ScanRelease, LoadRelease, Borrowing, Scanning
  <2>3. CASE ReadEntry(t)
    <3>1. PICK p \in {"readdir", "describe"} : Goto(t, p)
      BY <2>3 DEF ReadEntry, Goto, TypeOK
    <3>2. QED
      BY <2>3, <3>1, LoanFrame DEF ReadEntry, Borrowing, Scanning
  <2>4. CASE OpenDir(t) \/ ReadDirFails(t) \/ ReadDirEnds(t)
    BY <2>4, LoanFrame DEF OpenDir, ReadDirFails, ReadDirEnds, GiveUp, Borrowing, Scanning
  <2>5. CASE DescribeTrack(t) \/ Settle(t) \/ Lookup(t)
    BY <2>5, LoanFrame DEF DescribeTrack, Settle, Lookup, GiveUp, Borrowing, Scanning
  <2>6. QED
    BY <1>1, <2>1, <2>2, <2>3, <2>4, <2>5 DEF Inside
<1>2. ASSUME NEW t \in Threads, Return(t) \/ Call(t) PROVE LoanInv'
  <2>1. CASE \E max \in Capacities : ScanCall(t, max)
    BY <2>1, LoanFrame DEF ScanCall, Borrowing, Scanning
  <2>2. CASE Return(t) \/ LoadRefused(t) \/ \E track \in Tracks : LoadCall(t, track)
    BY <2>2, LoanFrame DEF Return, LoadRefused, LoadCall, Borrowing, Scanning
  <2>3. QED
    BY <1>2, <2>1, <2>2 DEF Call
<1>3. CASE UNCHANGED storageVars
  BY <1>3 DEF storageVars, contractVars, LoanInv, TableIsBorrowed
<1>4. QED
  BY <1>1, <1>2, <1>3, PollLoan DEF Next, InCall

---------------------------------------------------------------------------
\* Types.

LEMMA GotoType ==
  ASSUME TypeOK, NEW t \in Threads, NEW p \in Places, Goto(t, p)
  PROVE  pc' \in [Threads -> Places]
BY DEF TypeOK, Goto

LEMMA AnswerType ==
  ASSUME TypeOK, NEW t \in Threads, NEW r \in Errors \union 0..LibraryMax, Answer(t, r)
  PROVE  result' \in [Threads -> {EINVAL, ENODEV, EIO, ENOENT, ENOTSUP} \union 0..LibraryMax]
BY DEF TypeOK, Answer, Errors

\* The entry a scan is about to describe becomes a track of the vector and of the
\* table, within the room of both.
LEMMA DescribeType ==
  ASSUME StorageInv, NEW t \in Threads, pc[t] = "describe"
  PROVE  /\ Root[vol][pos[t]].name \in Files
         /\ Len(out[t]) \in 0..(LibraryMax - 1)
         /\ Describe(Root[vol][pos[t]], Len(out[t])) \in Meta
<1>1. vol \in Cards /\ pos[t] \in DOMAIN Root[vol] /\ Len(out[t]) < Room(t)
  BY DEF StorageInv, LoanInv, CallInv, TrackPlaces, Borrowing, Scanning
<1>2. Room(t) \in 1..LibraryMax
  BY RoomBounded DEF StorageInv, CallInv, Scanning
<1>3. Len(out[t]) \in Nat
  BY DEF StorageInv, TypeOK
<1>4. Root[vol][pos[t]].name \in Files
  BY <1>1 DEF Files
<1>5. Len(out[t]) \in 0..(LibraryMax - 1)
  BY <1>1, <1>2, <1>3, StorageAssumption
<1>6. QED
  BY <1>4, <1>5 DEF Describe, Meta

LEMMA InsideType ==
  ASSUME StorageInv, NEW t \in Threads, Inside(t) PROVE TypeOK'
<1> USE StorageAssumption DEF StorageInv, At, tableVars, scanVars
<1>1. TypeOK /\ loans \in [Threads -> {0, 1}]
  BY DEF TypeOK
<1>2. loans' \in [Threads -> {0, 1}] /\ state' = state /\ vol' = vol
  <2>1. CASE Lend(t)
    <3>1. loans' = [loans EXCEPT ![t] = @ + 1] /\ state' = state
      BY <2>1 DEF Lend
    <3>2. pc[t] \notin Borrowing => loans[t] = 0
      BY DEF LoanInv
    <3>3. QED
      BY <1>1, <2>1, <3>1, <3>2
      DEF Inside, ScanAcquire, LoadAcquire, Acquire, OpenDir, ReadDirFails, ReadDirEnds,
          ReadEntry, DescribeTrack, Settle, ScanRelease, Lookup, LoadRelease, Borrowing,
          Scanning, contractVars, GiveBack
  <2>2. CASE GiveBack(t)
    <3>1. loans' = [loans EXCEPT ![t] = @ - 1] /\ state' = state /\ loans[t] > 0
      BY <2>2 DEF GiveBack
    <3>2. QED
      BY <1>1, <3>1
      DEF Inside, ScanAcquire, LoadAcquire, Acquire, OpenDir, ReadDirFails, ReadDirEnds,
          ReadEntry, DescribeTrack, Settle, ScanRelease, Lookup, LoadRelease
  <2>3. CASE UNCHANGED contractVars
    BY <1>1, <2>3
    DEF Inside, ScanAcquire, LoadAcquire, Acquire, OpenDir, ReadDirFails, ReadDirEnds,
        ReadEntry, DescribeTrack, Settle, ScanRelease, Lookup, LoadRelease, contractVars
  <2>4. QED
    BY <2>1, <2>2, <2>3
    DEF Inside, ScanAcquire, LoadAcquire, Acquire, OpenDir, ReadDirFails, ReadDirEnds,
        ReadEntry, DescribeTrack, Settle, ScanRelease, Lookup, LoadRelease
<1>3. CASE ScanAcquire(t) \/ LoadAcquire(t)
  <2>1. PICK p \in Places : Goto(t, p)
    BY <1>3 DEF ScanAcquire, LoadAcquire, Acquire, Places, Borrowing, Scanning
  <2>2. UNCHANGED result \/ \E r \in Errors : Answer(t, r)
    BY <1>3 DEF ScanAcquire, LoadAcquire, Acquire, Errors
  <2>3. QED
    BY <1>1, <1>2, <1>3, <2>1, <2>2, GotoType, AnswerType
    DEF ScanAcquire, LoadAcquire, Acquire, TypeOK
<1>4. CASE OpenDir(t) \/ ReadDirFails(t) \/ ReadDirEnds(t) \/ Lookup(t)
  <2>1. PICK p \in Places : Goto(t, p)
    BY <1>4
    DEF OpenDir, ReadDirFails, ReadDirEnds, Lookup, GiveUp, Places, Borrowing, Scanning
  <2>2. UNCHANGED result \/ \E r \in Errors \union 0..LibraryMax : Answer(t, r)
    BY <1>1, <1>4
    DEF OpenDir, ReadDirFails, ReadDirEnds, Lookup, GiveUp, Errors, TypeOK
  <2>3. QED
    BY <1>1, <1>2, <1>4, <2>1, <2>2, GotoType, AnswerType
    DEF OpenDir, ReadDirFails, ReadDirEnds, Lookup, TypeOK
<1>5. CASE ReadEntry(t)
  <2>1. pc' \in [Threads -> Places]
    BY <1>5 DEF ReadEntry, Goto, TypeOK, Places, Borrowing, Scanning
  <2>2. pos' \in [Threads -> Nat] /\ ignored' \in [Threads -> Nat]
    BY <1>5 DEF ReadEntry, TypeOK
  <2>3. QED
    BY <1>1, <1>2, <1>5, <2>1, <2>2 DEF ReadEntry, TypeOK
<1>6. CASE DescribeTrack(t) /\ GiveUp(t) /\ UNCHANGED <<out, lib_files>>
  BY <1>1, <1>2, <1>6, GotoType, AnswerType
  DEF DescribeTrack, GiveUp, TypeOK, Errors, Places, Borrowing, Scanning
<1>7. CASE DescribeTrack(t) /\ Goto(t, "readdir") /\ UNCHANGED result
  <2>1. pc' \in [Threads -> Places]
    BY <1>7, GotoType DEF Places, Borrowing, Scanning
  <2>2. PICK f \in Files, m \in Meta :
          /\ out' = [out EXCEPT ![t] = Append(out[t], m)]
          /\ lib_files' = [lib_files EXCEPT ![Len(out[t]) + 1] = f]
    BY <1>7, DescribeType DEF DescribeTrack, GiveUp, Goto, TypeOK
  <2>3. Len(out[t]) \in 0..(LibraryMax - 1) /\ out[t] \in Seq(Meta)
    BY <1>7, DescribeType DEF DescribeTrack, TypeOK
  <2>4. out' \in [Threads -> Seq(Meta)] /\ \A u \in Threads : Len(out'[u]) <= LibraryMax
    BY <2>2, <2>3 DEF TypeOK
  <2>5. lib_files' \in [1..LibraryMax -> Files \union {Unused}]
    BY <2>2, <2>3 DEF TypeOK
  <2>6. QED
    BY <1>1, <1>2, <1>7, <2>1, <2>4, <2>5 DEF DescribeTrack, TypeOK
<1>8. CASE Settle(t)
  BY <1>1, <1>2, <1>8, GotoType, ErrorsNegative
  DEF Settle, TypeOK, Places, Borrowing, Errors
<1>9. CASE ScanRelease(t) \/ LoadRelease(t)
  <2>1. skipped' \in [Threads -> Nat]
    BY <1>9 DEF ScanRelease, LoadRelease, TypeOK
  <2>2. QED
    BY <1>1, <1>2, <1>9, <2>1, GotoType DEF ScanRelease, LoadRelease, TypeOK, Places
<1>10. QED
  BY <1>3, <1>4, <1>5, <1>6, <1>7, <1>8, <1>9 DEF Inside, DescribeTrack

LEMMA TypeStep ==
  ASSUME StorageInv, [Next]_storageVars PROVE TypeOK'
<1> USE StorageAssumption DEF StorageInv, tableVars, scanVars
<1>1. ASSUME NEW t \in Threads, Return(t) PROVE TypeOK'
  <2>1. pc' \in [Threads -> Places]
    BY <1>1, GotoType DEF Return, Places
  <2>2. result' \in [Threads -> {EINVAL, ENODEV, EIO, ENOENT, ENOTSUP} \union 0..LibraryMax]
    <3>1. 0 \in 0..LibraryMax
      OBVIOUS
    <3>2. QED
      BY <1>1, <3>1, AnswerType DEF Return
  <2>3. /\ pos' \in [Threads -> Nat] /\ ignored' \in [Threads -> Nat]
        /\ skipped' \in [Threads -> Nat]
        /\ arg' \in [Threads -> Capacities \union Tracks \union {0}]
    BY <1>1 DEF Return, TypeOK, Unset
  <2>4. out' \in [Threads -> Seq(Meta)] /\ \A u \in Threads : Len(out'[u]) <= LibraryMax
    BY <1>1 DEF Return, TypeOK
  <2>5. QED
    BY <1>1, <2>1, <2>2, <2>3, <2>4 DEF Return, TypeOK, contractVars
<1>2. ASSUME NEW t \in Threads, Call(t) PROVE TypeOK'
  <2>1. ASSUME NEW max \in Capacities, ScanCall(t, max) PROVE TypeOK'
    <3>1. PICK p \in Places : Goto(t, p)
      BY <2>1 DEF ScanCall, Places
    <3>2. UNCHANGED result \/ Answer(t, EINVAL)
      BY <2>1 DEF ScanCall
    <3>3. QED
      BY <2>1, <3>1, <3>2, GotoType, AnswerType DEF ScanCall, TypeOK, contractVars, Errors
  <2>2. ASSUME NEW track \in Tracks, LoadCall(t, track) PROVE TypeOK'
    BY <2>2, GotoType DEF LoadCall, TypeOK, contractVars, Places
  <2>3. CASE LoadRefused(t)
    BY <2>3, GotoType, AnswerType DEF LoadRefused, TypeOK, contractVars, Errors, Places
  <2>4. QED
    BY <1>2, <2>1, <2>2, <2>3 DEF Call
<1>3. CASE Poll
  <2>1. state' \in {"ABSENT", "READY", "UNREADABLE"}
    BY <1>3 DEF Poll, Evaluate, Successors, TypeOK
  <2>2. QED
    BY <1>3, <2>1 DEF Poll, Evaluate, TypeOK
<1>4. CASE UNCHANGED storageVars
  BY <1>4 DEF storageVars, contractVars, TypeOK
<1>5. QED
  BY <1>1, <1>2, <1>3, <1>4, InsideType DEF Next, InCall

---------------------------------------------------------------------------
\* What each thread knows of its call.

\* The locals of a thread.
SameCall(u) ==
  /\ pc'[u] = pc[u] /\ arg'[u] = arg[u] /\ pos'[u] = pos[u] /\ ignored'[u] = ignored[u]
  /\ result'[u] = result[u] /\ out'[u] = out[u] /\ skipped'[u] = skipped[u]

\* A thread that does not move keeps what it knows, if what it has on loan, and
\* the table while it has, do not change.
LEMMA CallKept ==
  ASSUME NEW u \in Threads, CallInv(u), SameCall(u),
         pc[u] \in Borrowing => UNCHANGED <<vol, tableVars>>
  PROVE  CallInv(u)'
<1>1. Room(u)' = Room(u)
  BY DEF SameCall, Room
<1>2. AnswersOneCard(u)' <=> AnswersOneCard(u)
  BY <1>1 DEF SameCall, AnswersOneCard
<1>3. ASSUME NEW n, UNCHANGED <<vol, tableVars>> PROVE Partial(u, n)' <=> Partial(u, n)
  BY <1>1, <1>3 DEF SameCall, Partial, tableVars, Seen
<1>4. CASE pc[u] \in Borrowing
  <2>1. UNCHANGED <<vol, tableVars>>
    BY <1>4
  <2>2. Complete(u)' <=> Complete(u)
    BY <1>3, <2>1 DEF SameCall, Complete
  <2>3. /\ pc[u] = "readdir" => Partial(u, pos[u])'
        /\ pc[u] = "describe" => Partial(u, pos[u] - 1)'
    BY <1>3, <2>1 DEF CallInv, SameCall
  <2>4. QED
    BY <1>1, <1>2, <1>4, <2>1, <2>2, <2>3
    DEF CallInv, SameCall, tableVars, Borrowing, Scanning
<1>5. CASE pc[u] \notin Borrowing
  BY <1>2, <1>5 DEF CallInv, SameCall, Borrowing, Scanning
<1>6. QED
  BY <1>4, <1>5

\* What a step of t leaves alone.
LEMMA OthersSame ==
  ASSUME StorageInv, NEW t \in Threads, InCall(t) \/ Call(t),
         NEW u \in Threads \ {t}
  PROVE  SameCall(u) /\ vol' = vol
<1> USE DEF StorageInv, At, scanVars, Goto, Answer, TypeOK
<1>1. pc'[u] = pc[u] /\ result'[u] = result[u]
  BY DEF InCall, Inside, Call, ScanAcquire, LoadAcquire, Acquire, OpenDir, ReadDirFails,
         ReadDirEnds, ReadEntry, DescribeTrack, Settle, ScanRelease, Lookup, LoadRelease,
         Return, ScanCall, LoadCall, LoadRefused, GiveUp
<1>2. arg'[u] = arg[u] /\ pos'[u] = pos[u] /\ ignored'[u] = ignored[u]
  BY DEF InCall, Inside, Call, ScanAcquire, LoadAcquire, Acquire, OpenDir, ReadDirFails,
         ReadDirEnds, ReadEntry, DescribeTrack, Settle, ScanRelease, Lookup, LoadRelease,
         Return, ScanCall, LoadCall, LoadRefused
<1>3. out'[u] = out[u] /\ skipped'[u] = skipped[u]
  BY DEF InCall, Inside, Call, ScanAcquire, LoadAcquire, Acquire, OpenDir, ReadDirFails,
         ReadDirEnds, ReadEntry, DescribeTrack, Settle, ScanRelease, Lookup, LoadRelease,
         Return, ScanCall, LoadCall, LoadRefused
<1>4. vol' = vol
  BY DEF InCall, Inside, Call, ScanAcquire, LoadAcquire, Acquire, OpenDir, ReadDirFails,
         ReadDirEnds, ReadEntry, DescribeTrack, Settle, ScanRelease, Lookup, LoadRelease,
         Return, ScanCall, LoadCall, LoadRefused
<1>5. QED
  BY <1>1, <1>2, <1>3, <1>4 DEF SameCall

LEMMA OthersKept ==
  ASSUME StorageInv, NEW t \in Threads, InCall(t) \/ Call(t),
         NEW u \in Threads \ {t}
  PROVE  CallInv(u)'
<1> USE DEF StorageInv, At, scanVars, Goto, Answer, TypeOK
<1>1. SameCall(u) /\ vol' = vol
  BY OthersSame
<1>2. UNCHANGED tableVars \/ pc[t] \in {"describe", "settle"}
  BY DEF InCall, Inside, Call, ScanAcquire, LoadAcquire, Acquire, OpenDir, ReadDirFails,
         ReadDirEnds, ReadEntry, DescribeTrack, Settle, ScanRelease, Lookup, LoadRelease,
         Return, ScanCall, LoadCall, LoadRefused, tableVars
<1>3. pc[u] \in Borrowing => UNCHANGED <<vol, tableVars>>
  BY <1>1, <1>2 DEF LoanInv, TableIsBorrowed, Borrowing, Scanning
<1>4. QED
  BY <1>1, <1>3, CallKept

\* Between the calls, and on the way to the loan.
LEMMA CallOutside ==
  ASSUME StorageInv, NEW t \in Threads, NEW p \in {"idle", "scan", "load", "opendir", "lookup"},
         pc'[t] = p, pos'[t] = 0, ignored'[t] = 0, out'[t] = <<>>,
         skipped'[t] \in {0, Unset},
         p \in {"scan", "opendir"} => arg'[t] \in Capacities \ {0}
  PROVE  CallInv(t)'
BY DEF CallInv, Scanning

\* A call that answers an error, and has not been given anything.
LEMMA CallRefused ==
  ASSUME NEW t \in Threads, pc'[t] = "back", result'[t] \in Errors,
         skipped'[t] \in {0, Unset}
  PROVE  CallInv(t)'
BY ErrorsNegative DEF CallInv, Scanning

LEMMA CallBegins ==
  ASSUME StorageInv, NEW t \in Threads, Call(t) PROVE CallInv(t)'
<1> USE DEF StorageInv, At, scanVars, Goto, Answer, TypeOK
<1>1. ASSUME NEW max \in Capacities, ScanCall(t, max) PROVE CallInv(t)'
  <2>1. skipped'[t] = 0
    BY <1>1 DEF ScanCall
  <2>2. CASE max = 0
    BY <1>1, <2>1, <2>2, CallRefused DEF ScanCall, Errors
  <2>3. CASE max # 0
    BY <1>1, <2>1, <2>3, CallOutside DEF ScanCall, CallInv
  <2>4. QED
    BY <2>2, <2>3
<1>2. ASSUME NEW track \in Tracks, LoadCall(t, track) PROVE CallInv(t)'
  BY <1>2, CallOutside DEF LoadCall, CallInv
<1>3. CASE LoadRefused(t)
  BY <1>3, CallRefused DEF LoadRefused, Errors, CallInv
<1>4. QED
  BY <1>1, <1>2, <1>3 DEF Call

\* An evaluation of the socket finds nobody with the volume.
LEMMA PollKeeps ==
  ASSUME StorageInv, NEW u \in Threads, Poll PROVE CallInv(u)'
<1>1. pc[u] \notin Borrowing
  BY DEF StorageInv, LoanInv, Poll, Evaluate, NoLoans
<1>2. SameCall(u)
  BY DEF Poll, SameCall, scanVars
<1>3. QED
  BY <1>1, <1>2, CallKept DEF StorageInv

---------------------------------------------------------------------------
\* A scan, entry by entry.

LEMMA OpenDirStep ==
  ASSUME StorageInv, NEW t \in Threads, OpenDir(t) PROVE CallInv(t)'
<1> USE DEF StorageInv, At, scanVars, tableVars, Goto, Answer, TypeOK
<1>1. /\ pos[t] = 0 /\ ignored[t] = 0 /\ out[t] = <<>> /\ vol \in Cards
      /\ skipped[t] \in {0, Unset} /\ arg[t] \in Capacities \ {0}
  BY DEF OpenDir, CallInv, LoanInv, Borrowing, Scanning
<1>2. /\ UNCHANGED <<vol, lib_files, lib_count>> /\ Room(t)' = Room(t)
      /\ pos'[t] = 0 /\ ignored'[t] = 0 /\ out'[t] = <<>> /\ skipped'[t] = skipped[t]
      /\ arg'[t] = arg[t]
  BY <1>1 DEF OpenDir, Room
<1>3. CASE Goto(t, "readdir")
  <2>1. Room(t) \in Nat
    BY <1>1, RoomBounded, StorageAssumption
  <2>2. Partial(t, pos[t])'
    <3>1. Len(out'[t]) = 0 /\ 1..Len(out'[t]) = {}
      BY <1>2
    <3>2. Cardinality(Seen(vol, 0))' = 0 /\ 0 <= Len(Root[vol])
      <4>1. vol' = vol /\ Len(Root[vol]) \in Nat
        BY <1>1, <1>2, StorageAssumption
      <4>2. QED
        BY <1>1, <4>1, SeenAll
    <3>3. QED
      BY <1>2, <2>1, <3>1, <3>2 DEF Partial
  <2>3. pc'[t] = "readdir"
    BY <1>3
  <2>4. QED
    BY <1>1, <1>2, <2>2, <2>3 DEF CallInv, Scanning
<1>4. CASE GiveUp(t)
  <2>1. pc'[t] = "settle" /\ result'[t] = EIO
    BY <1>4 DEF GiveUp
  <2>2. QED
    BY <1>1, <1>2, <2>1 DEF CallInv, Complete, Scanning
<1>5. QED
  BY <1>3, <1>4 DEF OpenDir

\* The disk stops answering in the middle of the directory.
LEMMA GiveUpStep ==
  ASSUME StorageInv, NEW t \in Threads, GiveUp(t), pc[t] \in {"readdir", "describe"},
         arg'[t] = arg[t], skipped'[t] = skipped[t]
  PROVE  CallInv(t)'
<1>1. pc'[t] = "settle" /\ result'[t] = EIO
  BY DEF GiveUp, Goto, Answer, StorageInv, TypeOK
<1>2. QED
  BY <1>1 DEF StorageInv, CallInv, Complete, Scanning

\* The end of the directory: everything has been seen.
LEMMA ReadDirEndsStep ==
  ASSUME StorageInv, NEW t \in Threads, ReadDirEnds(t) PROVE CallInv(t)'
<1> USE DEF StorageInv, At, scanVars, tableVars, Goto, Answer, TypeOK
<1>1. /\ Partial(t, Len(Root[vol])) /\ skipped[t] \in {0, Unset}
      /\ arg[t] \in Capacities \ {0}
  BY DEF ReadDirEnds, CallInv, Scanning
<1>2. pc'[t] = "settle" /\ result'[t] = Len(out[t])
  BY DEF ReadDirEnds
<1>3. UNCHANGED <<vol, lib_files, lib_count, out, ignored, arg, skipped>>
  BY DEF ReadDirEnds
<1>4. Partial(t, Len(Root[vol]))'
  BY <1>1, <1>3 DEF Partial, Room, Seen
<1>5. QED
  BY <1>1, <1>2, <1>3, <1>4 DEF CallInv, Complete, Scanning

LEMMA ReadEntryStep ==
  ASSUME StorageInv, NEW t \in Threads, ReadEntry(t) PROVE CallInv(t)'
<1> USE DEF StorageInv, At, scanVars, tableVars, Goto, TypeOK
<1> DEFINE n == pos[t]
<1>1. /\ Partial(t, n) /\ n \in Nat /\ n < Len(Root[vol]) /\ vol \in Cards
      /\ skipped[t] \in {0, Unset} /\ arg[t] \in Capacities \ {0}
      /\ Len(out[t]) \in Nat /\ ignored[t] \in Nat
  BY DEF ReadEntry, CallInv, LoanInv, Borrowing, Scanning
<1>2. /\ UNCHANGED <<vol, lib_files, lib_count, out, arg, skipped>>
      /\ pos'[t] = n + 1 /\ Room(t)' = Room(t)
  BY DEF ReadEntry, Room
<1>3. Room(t) \in Nat
  BY <1>1, RoomBounded, StorageAssumption
<1>4. n + 1 \in DOMAIN Root[vol] /\ n + 1 <= Len(Root[vol])
  BY <1>1, StorageAssumption
<1>5. CASE n + 1 \notin TrackPlaces(vol)
  <2>1. pc'[t] = "readdir" /\ ignored'[t] = ignored[t]
    BY <1>2, <1>4, <1>5 DEF ReadEntry, TrackPlaces
  <2>2. Seen(vol, n + 1) = Seen(vol, n)
    BY <1>1, <1>5, SeenMore
  <2>3. Partial(t, pos[t])'
    BY <1>1, <1>2, <1>4, <2>1, <2>2 DEF Partial, Seen
  <2>4. QED
    BY <1>1, <1>2, <2>1, <2>3 DEF CallInv, Scanning
<1>6. CASE n + 1 \in TrackPlaces(vol) /\ Len(out[t]) = Room(t)
  <2>1. pc'[t] = "readdir" /\ ignored'[t] = ignored[t] + 1
    BY <1>2, <1>6 DEF ReadEntry, TrackPlaces
  <2>2. Cardinality(Seen(vol, n + 1)) = Cardinality(Seen(vol, n)) + 1
    BY <1>1, <1>6, SeenMore
  <2>3. Len(out[t]) + ignored[t] + 1 = Cardinality(Seen(vol, n + 1))
    BY <1>1, <2>2 DEF Partial
  <2>4. Partial(t, pos[t])'
    BY <1>1, <1>2, <1>3, <1>4, <1>6, <2>1, <2>3 DEF Partial, Seen
  <2>5. QED
    BY <1>1, <1>2, <2>1, <2>4 DEF CallInv, Scanning
<1>7. CASE n + 1 \in TrackPlaces(vol) /\ Len(out[t]) # Room(t)
  <2>1. pc'[t] = "describe" /\ ignored'[t] = ignored[t]
    BY <1>2, <1>7 DEF ReadEntry, TrackPlaces
  <2>2. Len(out[t]) < Room(t)
    BY <1>1, <1>3, <1>7 DEF Partial
  <2>3. pos'[t] - 1 = n
    BY <1>1, <1>2
  <2>4. Partial(t, pos[t] - 1)'
    BY <1>1, <1>2, <2>1, <2>3 DEF Partial, Seen
  <2>5. pos'[t] \in TrackPlaces(vol)'
    BY <1>2, <1>7 DEF TrackPlaces
  <2>6. QED
    BY <1>1, <1>2, <2>1, <2>2, <2>4, <2>5 DEF CallInv, Scanning
<1>8. QED
  BY <1>5, <1>6, <1>7

\* The track that is described gets the index that many tracks come before.
LEMMA DescribeStep ==
  ASSUME StorageInv, NEW t \in Threads, DescribeTrack(t) PROVE CallInv(t)'
<1> USE DEF StorageInv, At, scanVars, tableVars, Goto, TypeOK
<1> DEFINE n == pos[t]
           k == Len(out[t])
<1>1. /\ n \in TrackPlaces(vol) /\ Partial(t, n - 1) /\ k < Room(t) /\ vol \in Cards
      /\ skipped[t] \in {0, Unset} /\ arg[t] \in Capacities \ {0}
      /\ k \in Nat /\ ignored[t] \in Nat /\ out[t] \in Seq(Meta)
  BY DEF DescribeTrack, CallInv, LoanInv, Borrowing, Scanning
<1>2. CASE GiveUp(t)
  BY <1>2, GiveUpStep DEF DescribeTrack
<1>3. CASE ~GiveUp(t)
  <2>1. /\ out' = [out EXCEPT ![t] = Append(out[t], Describe(Root[vol][n], k))]
        /\ lib_files' = [lib_files EXCEPT ![k + 1] = Root[vol][n].name]
        /\ pc'[t] = "readdir"
        /\ UNCHANGED <<vol, lib_count, arg, pos, ignored, skipped>>
    BY <1>3 DEF DescribeTrack
  <2>2. k \in 0..(LibraryMax - 1)
    BY DescribeType DEF DescribeTrack
  <2>3. Room(t) \in Nat /\ Room(t)' = Room(t)
    BY <1>1, <2>1, RoomBounded, StorageAssumption DEF Room
  <2>4. ignored[t] = 0 /\ Cardinality(Seen(vol, n - 1)) = k
    BY <1>1, <2>3 DEF Partial
  <2>5. n - 1 \in Nat /\ (n - 1) + 1 = n /\ n <= Len(Root[vol])
    BY <1>1, StorageAssumption DEF TrackPlaces
  <2>6. Cardinality(Seen(vol, n)) = k + 1 /\ IndexOf(vol, n) = k
    BY <1>1, <2>4, <2>5, SeenMore
  <2>7. PlaceOf(vol, k) = n
    BY <1>1, <2>6, PlaceOfIndex
  <2>8. /\ Len(out'[t]) = k + 1
        /\ out'[t][k + 1] = Describe(Root[vol][n], k)
        /\ \A i \in 1..k : out'[t][i] = out[t][i]
    BY <1>1, <2>1, AppendProperties
  <2>9. /\ lib_files'[k + 1] = Root[vol][n].name
        /\ \A i \in 1..k : lib_files'[i] = lib_files[i]
    <3>1. k + 1 \in 1..LibraryMax /\ \A i \in 1..k : i \in 1..LibraryMax /\ i # k + 1
      BY <2>2, StorageAssumption
    <3>2. QED
      BY <2>1, <3>1
  <2>10. ASSUME NEW i \in 1..(k + 1)
         PROVE  /\ out'[t][i] = Describe(Root[vol][PlaceOf(vol, i - 1)], i - 1)
                /\ lib_files'[i] = Root[vol][PlaceOf(vol, i - 1)].name
    <3>1. CASE i = k + 1
      <4>1. i - 1 = k
        BY <1>1, <3>1
      <4>2. QED
        BY <2>7, <2>8, <2>9, <3>1, <4>1
    <3>2. CASE i # k + 1
      <4>1. i \in 1..k
        BY <1>1, <3>2
      <4>2. QED
        BY <1>1, <2>8, <2>9, <4>1 DEF Partial
    <3>3. QED
      BY <3>1, <3>2
  <2>11. Partial(t, pos[t])'
    <3>1. /\ n <= Len(Root[vol'])
          /\ Len(out'[t]) + ignored'[t] = Cardinality(Seen(vol, n))'
          /\ Len(out'[t]) <= Room(t)'
          /\ ~(ignored'[t] > 0)
      BY <1>1, <2>1, <2>3, <2>4, <2>5, <2>6, <2>8 DEF Seen
    <3>2. \A i \in 1..Len(out'[t]) :
            /\ out'[t][i] = Describe(Root[vol'][PlaceOf(vol, i - 1)'], i - 1)
            /\ lib_files'[i] = Root[vol'][PlaceOf(vol, i - 1)'].name
      BY <2>1, <2>8, <2>10
    <3>3. n' = n
      BY <2>1
    <3>4. QED
      BY <3>1, <3>2, <3>3 DEF Partial
  <2>12. QED
    BY <1>1, <2>1, <2>11 DEF CallInv, Scanning
<1>4. QED
  BY <1>2, <1>3

LEMMA SettleStep ==
  ASSUME StorageInv, NEW t \in Threads, Settle(t) PROVE CallInv(t)'
<1> USE DEF StorageInv, At, scanVars, Goto, TypeOK
<1>1. /\ Complete(t) /\ skipped[t] \in {0, Unset} /\ arg[t] \in Capacities \ {0}
      /\ pc'[t] = "scanned" /\ UNCHANGED <<vol, lib_files, result, out, ignored, arg, skipped>>
      /\ lib_count' = IF result[t] > 0 THEN result[t] ELSE 0
  BY DEF Settle, CallInv, Scanning
<1>2. Complete(t)'
  BY <1>1 DEF Complete, Partial, Room, Seen
<1>3. QED
  BY <1>1, <1>2 DEF CallInv, Scanning

\* A vector filled to the end of the directory is what the directory has for it.
LEMMA CompleteAnswers ==
  ASSUME StorageInv, NEW t \in Threads, vol \in Cards, arg[t] \in Capacities \ {0},
         result[t] = Len(out[t]), Partial(t, Len(Root[vol]))
  PROVE  /\ Cardinality(TrackPlaces(vol)) = Len(out[t]) + ignored[t]
         /\ Len(Fitting(vol, Room(t))) = Len(out[t])
         /\ DOMAIN Fitting(vol, Room(t)) = 1..Len(out[t])
         /\ out[t] = [i \in 1..Len(out[t]) |-> Describe(Fitting(vol, Room(t))[i], i - 1)]
         /\ \A i \in 1..Len(out[t]) : lib_files[i] = Fitting(vol, Room(t))[i].name
<1> USE DEF StorageInv, TypeOK
<1>1. out[t] \in Seq(Meta) /\ Len(out[t]) \in Nat /\ ignored[t] \in Nat
  OBVIOUS
<1>2. Cardinality(TrackPlaces(vol)) = Len(out[t]) + ignored[t]
  BY SeenAll DEF Partial
<1>3. Room(t) \in Nat
  BY RoomBounded, StorageAssumption
<1>4. Smaller(Cardinality(TrackPlaces(vol)), Room(t)) = Len(out[t])
  BY <1>1, <1>2, <1>3 DEF Smaller, Partial
<1>5. Fitting(vol, Room(t)) = [i \in 1..Len(out[t]) |-> Root[vol][PlaceOf(vol, i - 1)]]
  BY <1>4 DEF Fitting
<1>6. Len(Fitting(vol, Room(t))) = Len(out[t]) /\ DOMAIN Fitting(vol, Room(t)) = 1..Len(out[t])
  BY <1>1, <1>5
<1>7. \A i \in 1..Len(out[t]) :
        /\ out[t][i] = Describe(Fitting(vol, Room(t))[i], i - 1)
        /\ lib_files[i] = Fitting(vol, Room(t))[i].name
  BY <1>5 DEF Partial
<1>8. DOMAIN out[t] = 1..Len(out[t]) /\ out[t] = [i \in DOMAIN out[t] |-> out[t][i]]
  BY <1>1, LenProperties
<1>9. QED
  BY <1>2, <1>6, <1>7, <1>8

LEMMA ScanReleaseStep ==
  ASSUME StorageInv, NEW t \in Threads, ScanRelease(t) PROVE CallInv(t)'
<1> USE DEF StorageInv, At, scanVars, Goto, TypeOK
<1>1. /\ Complete(t) /\ skipped[t] \in {0, Unset} /\ arg[t] \in Capacities \ {0}
      /\ pc'[t] = "back" /\ UNCHANGED <<result, out, arg>> /\ vol \in Cards
      /\ skipped'[t] = IF result[t] >= 0 THEN ignored[t] ELSE skipped[t]
  BY DEF ScanRelease, CallInv, LoanInv, Scanning, Borrowing
<1>2. CASE result[t] = EIO
  BY <1>1, <1>2, ErrorsNegative, CallRefused DEF Errors, EIO
<1>3. CASE result[t] = Len(out[t]) /\ Partial(t, Len(Root[vol]))
  <2>1. Len(out[t]) \in Nat /\ ignored[t] \in Nat
    OBVIOUS
  <2>2. skipped'[t] = ignored[t] /\ result[t] >= 0
    BY <1>1, <1>3, <2>1
  <2>3. Room(t)' = Room(t)
    BY <1>1 DEF Room
  <2>4. ignored[t] = Cardinality(TrackPlaces(vol)) - Len(Fitting(vol, Room(t)))
    BY <1>1, <1>3, <2>1, CompleteAnswers
  <2>5. AnswersOneCard(t)'
    BY <1>1, <1>3, <2>2, <2>3, <2>4, CompleteAnswers DEF AnswersOneCard
  <2>6. QED
    BY <1>1, <2>2, <2>5 DEF CallInv, Scanning
<1>4. QED
  BY <1>1, <1>2, <1>3 DEF Complete

---------------------------------------------------------------------------
\* The rest of the calls.

LEMMA AcquireStep ==
  ASSUME StorageInv, NEW t \in Threads, ScanAcquire(t) \/ LoadAcquire(t)
  PROVE  CallInv(t)'
<1> USE DEF StorageInv, At, scanVars, Goto, Answer, TypeOK
<1>1. /\ pos'[t] = 0 /\ ignored'[t] = 0 /\ out'[t] = <<>> /\ skipped'[t] \in {0, Unset}
      /\ arg'[t] = arg[t] /\ (At(t, "scan") => arg[t] \in Capacities \ {0})
  BY DEF ScanAcquire, LoadAcquire, Acquire, CallInv
<1>2. CASE pc'[t] = "back" /\ result'[t] \in {ENODEV, EIO}
  BY <1>1, <1>2, CallRefused DEF Errors
<1>3. CASE pc'[t] = IF At(t, "scan") THEN "opendir" ELSE "lookup"
  BY <1>1, <1>3, CallOutside
<1>4. QED
  BY <1>2, <1>3 DEF ScanAcquire, LoadAcquire, Acquire

LEMMA LoadStep ==
  ASSUME StorageInv, NEW t \in Threads, Lookup(t) \/ LoadRelease(t) PROVE CallInv(t)'
<1> USE DEF StorageInv, At, scanVars, Goto, Answer, TypeOK
<1>1. CASE Lookup(t)
  BY <1>1 DEF Lookup, CallInv, Scanning
<1>2. CASE LoadRelease(t)
  BY <1>2, CallRefused DEF LoadRelease, CallInv, Errors
<1>3. QED
  BY <1>1, <1>2

LEMMA ReturnStep ==
  ASSUME StorageInv, NEW t \in Threads, Return(t) PROVE CallInv(t)'
BY CallOutside DEF StorageInv, Return, Goto, TypeOK

LEMMA CallStep ==
  ASSUME StorageInv, [Next]_storageVars, NEW u \in Threads PROVE CallInv(u)'
<1>1. ASSUME NEW t \in Threads, InCall(t) PROVE CallInv(u)'
  <2>1. CASE t # u
    BY <1>1, <2>1, OthersKept
  <2>2. CASE t = u
    <3>1. CASE ReadDirFails(u)
      BY <3>1, GiveUpStep DEF ReadDirFails, At, scanVars
    <3>2. QED
      BY <1>1, <2>2, <3>1, AcquireStep, OpenDirStep, ReadDirEndsStep, ReadEntryStep,
         DescribeStep, SettleStep, ScanReleaseStep, LoadStep, ReturnStep
      DEF InCall, Inside
  <2>3. QED
    BY <2>1, <2>2
<1>2. ASSUME NEW t \in Threads, Call(t) PROVE CallInv(u)'
  BY <1>2, CallBegins, OthersKept
<1>3. CASE UNCHANGED storageVars
  BY <1>3, CallKept DEF storageVars, scanVars, tableVars, SameCall, StorageInv
<1>4. QED
  BY <1>1, <1>2, <1>3, PollKeeps DEF Next

LEMMA StorageStep == StorageInv /\ [Next]_storageVars => StorageInv'
BY TypeStep, LoanStep, CallStep DEF StorageInv

---------------------------------------------------------------------------
\* Theorems.

\* The inductive invariant: what is on loan to whom, and what has been made of
\* the entries read so far.
THEOREM StorageInvariant == Spec => []StorageInv
BY StorageInit, StorageStep, PTL DEF Spec

\* No vector and no table is written out of its bounds, whatever callers pass as
\* max and whatever is in the directory.
THEOREM TypeCorrect == Spec => []TypeOK
<1>1. StorageInv => TypeOK
  BY DEF StorageInv
<1>2. QED
  BY <1>1, StorageInvariant, PTL

\* Nobody touches the table, nor the buffer of the headers, beside another.
THEOREM TableHasOneUser == Spec => []TableIsBorrowed
<1>1. StorageInv => TableIsBorrowed
  BY DEF StorageInv, LoanInv
<1>2. QED
  BY <1>1, StorageInvariant, PTL

\* A scan that works answers the directory of one card, in order, as much of it
\* as there is room for, and counts the rest; and the table agrees with it.
THEOREM ScanIsExact == Spec => []ScanAnswersTheDirectory
<1>1. ASSUME StorageInv, NEW t \in Threads, At(t, "scanned"), result[t] >= 0
      PROVE  SubSeq(lib_files, 1, lib_count) = [i \in 1..Len(out[t]) |-> out[t][i].file]
  <2>1. /\ result[t] = Len(out[t]) /\ Partial(t, Len(Root[vol])) /\ vol \in Cards
        /\ arg[t] \in Capacities \ {0} /\ lib_count = IF result[t] > 0 THEN result[t] ELSE 0
    BY <1>1, ErrorsNegative
    DEF StorageInv, CallInv, Complete, At, LoanInv, Borrowing, Scanning, Errors
  <2>2. lib_count = Len(out[t]) /\ Len(out[t]) \in 0..LibraryMax
    BY <1>1, <2>1 DEF StorageInv, TypeOK
  <2>3. \A i \in 1..Len(out[t]) : lib_files[i] = out[t][i].file
    <3>1. \A e, k : Describe(e, k).file = e.name
      BY DEF Describe
    <3>2. QED
      BY <2>1, <3>1 DEF Partial
  <2>4. SubSeq(lib_files, 1, lib_count) = [i \in 1..lib_count |-> lib_files[i]]
    BY <1>1, <2>2 DEF StorageInv, TypeOK
  <2>5. QED
    BY <2>2, <2>3, <2>4
<1>2. StorageInv => ScanAnswersTheDirectory
  BY <1>1 DEF StorageInv, CallInv, ScanAnswersTheDirectory, At
<1>3. QED
  BY <1>2, StorageInvariant, PTL

---------------------------------------------------------------------------
\* The refinement of the library.

\* What storage_load finds, as Library has it.
Visible == IF \E t \in Threads : pc[t] \in Scanning THEN <<>> ELSE SubSeq(lib_files, 1, lib_count)

\* A scan fills the library at the end, with what the directory has for it.
LEMMA SettleFills ==
  ASSUME StorageInv, NEW t \in Threads, Settle(t), result[t] > 0
  PROVE  Visible' \in {FilesOf(Fitting(c, Ceiling(max))) : c \in Cards, max \in Capacities \ {0}}
<1> USE DEF StorageInv, At, Goto, TypeOK
<1>1. /\ result[t] = Len(out[t]) /\ Partial(t, Len(Root[vol])) /\ vol \in Cards
      /\ arg[t] \in Capacities \ {0}
  BY ErrorsNegative DEF Settle, CallInv, Complete, LoanInv, Borrowing, Scanning, Errors
<1>2. /\ lib_count' = Len(out[t]) /\ lib_files' = lib_files
      /\ \A u \in Threads : pc'[u] \notin Scanning
  BY <1>1 DEF Settle, LoanInv, TableIsBorrowed, Borrowing, Scanning
<1>3. Len(out[t]) \in 0..LibraryMax
  BY <1>1
<1>4. SubSeq(lib_files, 1, Len(out[t])) = [i \in 1..Len(out[t]) |-> lib_files[i]]
  BY <1>3
<1>5. FilesOf(Fitting(vol, Room(t))) = [i \in 1..Len(out[t]) |-> lib_files[i]]
  BY <1>1, CompleteAnswers DEF FilesOf
<1>6. Visible' = FilesOf(Fitting(vol, Ceiling(arg[t])))
  BY <1>2, <1>4, <1>5 DEF Visible, Room
<1>7. QED
  BY <1>1, <1>6

\* Every step of Storage is one of Library or leaves the library alone.
LEMMA LibraryStep ==
  ASSUME StorageInv, [Next]_storageVars
  PROVE  \/ Visible' = Visible \/ Visible' = <<>>
         \/ /\ Visible = <<>>
            /\ Visible' \in {FilesOf(Fitting(c, Ceiling(max)))
                               : c \in Cards, max \in Capacities \ {0}}
<1> USE DEF StorageInv, At, Goto, TypeOK, tableVars
<1>1. ASSUME UNCHANGED <<pc, lib_files, lib_count>> PROVE Visible' = Visible
  BY <1>1 DEF Visible
<1>2. ASSUME NEW t \in Threads, pc[t] \in Scanning, pc'[t] \in Scanning
      PROVE  Visible' = Visible
  BY <1>2 DEF Visible
<1>3. ASSUME NEW t \in Threads, UNCHANGED tableVars, NEW p,
             pc' = [pc EXCEPT ![t] = p], pc[t] \notin Scanning
      PROVE  Visible' = Visible \/ Visible' = <<>>
  <2>1. CASE p \in Scanning
    BY <1>3, <2>1 DEF Visible
  <2>2. CASE p \notin Scanning
    BY <1>3, <2>2 DEF Visible
  <2>3. QED
    BY <2>1, <2>2
<1>4. ASSUME NEW t \in Threads, Inside(t)
      PROVE  \/ Visible' = Visible \/ Visible' = <<>>
             \/ /\ Visible = <<>>
                /\ Visible' \in {FilesOf(Fitting(c, Ceiling(max)))
                                   : c \in Cards, max \in Capacities \ {0}}
  <2>1. CASE Settle(t)
    <3>1. Visible = <<>>
      BY <2>1 DEF Settle, Visible, Scanning
    <3>2. CASE result[t] > 0
      BY <2>1, <3>1, <3>2, SettleFills
    <3>3. CASE ~(result[t] > 0)
      <4>1. lib_count' = 0 /\ lib_files' = lib_files
        BY <2>1, <3>3 DEF Settle
      <4>2. SubSeq(lib_files, 1, 0) = <<>>
        OBVIOUS
      <4>3. QED
        BY <4>1, <4>2 DEF Visible
    <3>4. QED
      BY <3>2, <3>3
  <2>2. CASE OpenDir(t) \/ ReadDirFails(t) \/ ReadDirEnds(t)
    BY <1>2, <2>2 DEF OpenDir, ReadDirFails, ReadDirEnds, GiveUp, Scanning
  <2>3. CASE ReadEntry(t) \/ DescribeTrack(t)
    BY <1>2, <2>3 DEF ReadEntry, DescribeTrack, GiveUp, Scanning
  <2>4. CASE ScanAcquire(t) \/ LoadAcquire(t)
    <3>1. UNCHANGED tableVars /\ pc[t] \notin Scanning /\ \E p : pc' = [pc EXCEPT ![t] = p]
      BY <2>4 DEF ScanAcquire, LoadAcquire, Acquire, Scanning
    <3>2. Visible' = Visible \/ Visible' = <<>>
      BY <1>3, <3>1
    <3>3. QED
      BY <3>2
  <2>5. CASE ScanRelease(t) \/ Lookup(t) \/ LoadRelease(t)
    <3>1. UNCHANGED tableVars /\ pc[t] \notin Scanning /\ \E p : pc' = [pc EXCEPT ![t] = p]
      BY <2>5 DEF ScanRelease, Lookup, LoadRelease, Scanning
    <3>2. Visible' = Visible \/ Visible' = <<>>
      BY <1>3, <3>1
    <3>3. QED
      BY <3>2
  <2>6. QED
    BY <1>4, <2>1, <2>2, <2>3, <2>4, <2>5 DEF Inside
<1>5. ASSUME NEW t \in Threads, Return(t) \/ Call(t)
      PROVE  Visible' = Visible \/ Visible' = <<>>
  <2>1. UNCHANGED tableVars /\ pc[t] \notin Scanning /\ \E p : pc' = [pc EXCEPT ![t] = p]
    BY <1>5 DEF Return, Call, ScanCall, LoadCall, LoadRefused, Scanning
  <2>2. QED
    BY <1>3, <2>1
<1>6. CASE Poll \/ UNCHANGED storageVars
  BY <1>1, <1>6 DEF Poll, storageVars
<1>7. QED
  BY <1>4, <1>5, <1>6 DEF Next, InCall

\* The table of files, written entry by entry over the one before, implements the
\* library: nothing, or the whole outcome of one scan of one card.
THEOREM StorageRefinesLibrary == Spec => ImplementsLibrary
<1>1. Init => Whole!LibraryInit
  BY DEF Init, Whole!LibraryInit, Scanning
<1>2. StorageInv /\ [Next]_storageVars
        => [Whole!LibraryNext]_(IF \E t \in Threads : pc[t] \in Scanning
                                  THEN <<>> ELSE SubSeq(lib_files, 1, lib_count))
  BY LibraryStep DEF Visible, Whole!LibraryNext, Whole!Forget, Whole!Fill
<1>3. QED
  BY <1>1, <1>2, StorageInvariant, PTL DEF Spec, ImplementsLibrary, Whole!LibrarySpec

---------------------------------------------------------------------------
\* The end of a loan.

\* How far who has the volume is from giving it back, in the order in which it
\* counts: the parts of the call still to come, the entries of the directory left,
\* and whether the last one read is still to be described.
LoanPhase(t) ==
  CASE pc[t] = "opendir" -> 4
    [] pc[t] \in {"readdir", "describe"} -> 3
    [] pc[t] \in {"settle", "lookup"} -> 2
    [] pc[t] \in {"scanned", "looked"} -> 1
    [] OTHER -> 0

EntriesLeft(t) == IF pc[t] \in {"readdir", "describe"} THEN Len(Root[vol]) - pos[t] ELSE 0

ToDescribe(t) == IF pc[t] = "describe" THEN 1 ELSE 0

LoanDistances == \A t \in Threads : EntriesLeft(t) \in Nat

Shortens(t) ==
  \/ LoanPhase(t)' < LoanPhase(t)
  \/ UNCHANGED LoanPhase(t) /\ EntriesLeft(t)' < EntriesLeft(t)
  \/ UNCHANGED <<LoanPhase(t), EntriesLeft(t)>> /\ ToDescribe(t)' < ToDescribe(t)

\* Each step of who has a loan brings it nearer to its end, and no step of another,
\* nor of the card, takes it back.
LoansShorten ==
  \A t \in Threads :
    loans[t] > 0 =>
      \/ Shortens(t)
      \/ SameCall(t) /\ UNCHANGED <<LoanPhase(t), EntriesLeft(t), ToDescribe(t)>>

LEMMA LoanDistance == StorageInv => LoanDistances
<1> SUFFICES ASSUME StorageInv, NEW t \in Threads PROVE EntriesLeft(t) \in Nat
  BY DEF LoanDistances
<1>1. CASE pc[t] \in {"readdir", "describe"}
  <2>1. vol \in Cards
    BY <1>1 DEF StorageInv, LoanInv, Borrowing, Scanning
  <2>2. Len(Root[vol]) \in Nat /\ DOMAIN Root[vol] = 1..Len(Root[vol]) /\ pos[t] \in Nat
    BY <2>1, StorageAssumption DEF StorageInv, TypeOK
  <2>3. pos[t] <= Len(Root[vol])
    <3>1. pc[t] = "readdir" => pos[t] <= Len(Root[vol])
      BY DEF StorageInv, CallInv, Partial
    <3>2. pc[t] = "describe" => pos[t] \in DOMAIN Root[vol]
      BY DEF StorageInv, CallInv, TrackPlaces
    <3>. QED BY <1>1, <2>2, <3>1, <3>2
  <2>4. Len(Root[vol]) - pos[t] \in Nat
    BY <2>2, <2>3
  <2>. QED BY <1>1, <2>4 DEF EntriesLeft
<1>2. CASE pc[t] \notin {"readdir", "describe"}
  BY <1>2 DEF EntriesLeft
<1>. QED BY <1>1, <1>2

\* One step of who has it.
LEMMA OwnStepShortens ==
  ASSUME StorageInv, NEW t \in Threads, pc[t] \in Borrowing, InCall(t) \/ Call(t)
  PROVE  Shortens(t)
<1> USE DEF At, Goto
<1>1. pc \in [Threads -> Places]
  BY DEF StorageInv, TypeOK
<1>2. CASE OpenDir(t) \/ ReadDirFails(t) \/ ReadDirEnds(t) \/ Settle(t) \/ ScanRelease(t) \/ Lookup(t) \/ LoadRelease(t)
  <2>1. LoanPhase(t)' < LoanPhase(t)
    BY <1>1, <1>2 DEF OpenDir, ReadDirFails, ReadDirEnds, GiveUp, Settle, ScanRelease, Lookup, LoadRelease, LoanPhase
  <2>. QED BY <2>1 DEF Shortens
<1>3. CASE ReadEntry(t)
  <2>1. pc[t] = "readdir" /\ pc'[t] \in {"readdir", "describe"} /\ vol' = vol
    BY <1>1, <1>3 DEF ReadEntry
  <2>2. pos'[t] = pos[t] + 1 /\ pos[t] \in Nat
    BY <1>3 DEF ReadEntry, StorageInv, TypeOK
  <2>3. Len(Root[vol]) \in Nat
    <3>1. vol \in Cards
      BY <2>1 DEF StorageInv, LoanInv, Borrowing, Scanning
    <3>. QED BY <3>1, StorageAssumption
  <2>4. EntriesLeft(t) = Len(Root[vol]) - pos[t] /\ EntriesLeft(t)' = Len(Root[vol]) - pos'[t]
    BY <2>1 DEF EntriesLeft
  <2>5. Len(Root[vol]) - (pos[t] + 1) < Len(Root[vol]) - pos[t]
    BY <2>2, <2>3
  <2>6. EntriesLeft(t)' < EntriesLeft(t)
    BY <2>2, <2>4, <2>5
  <2>7. UNCHANGED LoanPhase(t)
    BY <2>1 DEF LoanPhase
  <2>. QED BY <2>6, <2>7 DEF Shortens
<1>4. CASE DescribeTrack(t)
  <2>1. pc[t] = "describe" /\ pc'[t] \in {"readdir", "settle"} /\ UNCHANGED <<vol, pos>>
    BY <1>1, <1>4 DEF DescribeTrack, GiveUp
  <2>2. CASE pc'[t] = "readdir"
    <3>1. UNCHANGED <<LoanPhase(t), EntriesLeft(t)>> /\ ToDescribe(t)' < ToDescribe(t)
      BY <2>1, <2>2 DEF LoanPhase, EntriesLeft, ToDescribe
    <3>. QED BY <3>1 DEF Shortens
  <2>3. CASE pc'[t] = "settle"
    <3>1. LoanPhase(t)' < LoanPhase(t)
      BY <2>1, <2>3 DEF LoanPhase
    <3>. QED BY <3>1 DEF Shortens
  <2>. QED BY <2>1, <2>2, <2>3
<1>5. ~(ScanAcquire(t) \/ LoadAcquire(t) \/ Return(t) \/ Call(t))
  BY DEF ScanAcquire, LoadAcquire, Return, Call, ScanCall, LoadCall, LoadRefused, Borrowing, Scanning
<1>. QED BY <1>2, <1>3, <1>4, <1>5 DEF InCall, Inside

\* A loan of the volume takes finitely many steps of who has it, however many of
\* them fail and whatever the others and the card do meanwhile.
THEOREM LoansRunOut == Spec => []LoanDistances /\ [][LoansShorten]_storageVars
<1>1. StorageInv /\ [Next]_storageVars => [LoansShorten]_storageVars
  <2> SUFFICES ASSUME StorageInv, Next, NEW t \in Threads, loans[t] > 0
               PROVE  \/ Shortens(t)
                      \/ SameCall(t) /\ UNCHANGED <<LoanPhase(t), EntriesLeft(t), ToDescribe(t)>>
    BY DEF LoansShorten
  <2>1. pc[t] \in Borrowing
    BY DEF StorageInv, LoanInv
  <2>2. ~Poll
    BY <2>1 DEF Poll, Evaluate, NoLoans, StorageInv, LoanInv
  <2>3. PICK u \in Threads : InCall(u) \/ Call(u)
    BY <2>2 DEF Next
  <2>4. CASE u = t
    BY <2>1, <2>3, <2>4, OwnStepShortens
  <2>5. CASE u # t
    <3>1. SameCall(t) /\ vol' = vol
      BY <2>3, <2>5, OthersSame
    <3>. QED BY <3>1 DEF SameCall, LoanPhase, EntriesLeft, ToDescribe
  <2>. QED BY <2>4, <2>5
<1>. QED BY <1>1, LoanDistance, StorageInvariant, PTL DEF Spec
---------------------------------------------------------------------------
\* The main thread.

\* What may become of a track the report lists.
Fates == Nat \union {ENOTSUP, ENODEV, EIO}

ReportInv ==
  /\ count \in Int /\ count <= LibraryMax
  /\ answers \in Seq(Fates) /\ Len(answers) <= LibraryMax
  /\ boot = "loading" => Len(answers) < count

\* A vector has n tracks, each under the index of its file in the table.
Listed(vector, n) ==
  Len(vector) = n /\ \A i \in 1..n : vector[i].index = i - 1 /\ vector[i].file = lib_files[i]

\* On the board the table is what the last scan of main made it: nobody else scans.
BoardInv ==
  /\ boot # "scanned"
  /\ boot \in {"scanning", "loading"} \/ pc[Main] = "idle"
  /\ boot = "scanning" => pc[Main] \in Scanning \union {"scan", "scanned", "back"}
  /\ boot = "scanning" /\ pc[Main] \in {"scanned", "back"} /\ result[Main] >= 0 =>
       lib_count = result[Main]
  /\ boot = "scanning" /\ pc[Main] = "back" /\ result[Main] >= 0 => Listed(out[Main], result[Main])
  /\ boot \in {"load", "loading"} => lib_count = count /\ Listed(library, count)
  /\ boot = "loading" =>
       /\ pc[Main] \in {"load", "lookup", "looked", "back"}
       /\ arg[Main] = Len(answers)
       /\ pc[Main] = "looked" => result[Main] = ENOTSUP
       /\ pc[Main] = "back" => result[Main] \in {ENOTSUP, ENODEV, EIO}

\* In the simulator every track of the binary can be loaded, scanned or not.
SimInv ==
  /\ boot # "scanning"
  /\ boot = "scanned" =>
       fake_result \in Int /\ fake_result <= LibraryMax /\ fake_result <= Len(FakeTracks)
  /\ boot \in {"load", "loading"} => count <= Len(FakeTracks)
  /\ boot = "loading" => fake_result \in Fates

MainInv == ReportInv /\ IF OnBoard THEN BoardInv ELSE SimInv

BootInv == StorageInv /\ MainInv

LEMMA BootStart == FirmwareInit => BootInv
<1> SUFFICES ASSUME FirmwareInit PROVE BootInv
  OBVIOUS
<1>1. StorageInv
  BY StorageInit DEF FirmwareInit
<1>2. ReportInv
  BY StorageAssumption DEF FirmwareInit, ReportInv
<1>3. BoardInv /\ SimInv
  BY BootAssumption DEF FirmwareInit, Init, BoardInv, SimInv
<1>4. QED
  BY <1>1, <1>2, <1>3 DEF BootInv, MainInv

\* What the firmware does to the storage is what any caller may do.
LEMMA FirmwareCalls ==
  ASSUME BootInv, [FirmwareNext]_firmwareVars PROVE [Next]_storageVars
<1> USE BootAssumption
<1>1. CASE HeartbeatInit \/ CardReport \/ MonitorStep \/ KnobStep \/ Returned
  BY <1>1 DEF HeartbeatInit, CardReport, MonitorStep, KnobStep, Returned, Next, firmwareVars
<1>2. CASE ScanLibrary
  BY <1>2 DEF ScanLibrary, Next, Call
<1>3. CASE ScanReturns \/ LoadReturns
  BY <1>3 DEF ScanReturns, LoadReturns, Back, Next, InCall
<1>4. CASE LoadTrack
  <2>1. Len(answers) \in Tracks
    <3>1. Len(answers) \in Nat
      BY LenProperties DEF BootInv, MainInv, ReportInv
    <3>2. Len(answers) \in 0..(LibraryMax - 1)
      BY <1>4, <3>1, StorageAssumption DEF LoadTrack, BootInv, MainInv, ReportInv
    <3>3. QED
      BY <3>2
  <2>2. QED
    BY <1>4, <2>1 DEF LoadTrack, Next, Call
<1>5. CASE LibraryReported \/ SnapshotReport \/ CmdReport \/ Blink
  BY <1>5 DEF LibraryReported, SnapshotReport, CmdReport, CmdFlush, CmdPost, CmdGet, Blink
<1>6. CASE Inside(Main)
  BY <1>6 DEF Next, InCall
<1>7. CASE UNCHANGED firmwareVars
  BY <1>7 DEF firmwareVars
<1>8. QED
  BY <1>1, <1>2, <1>3, <1>4, <1>5, <1>6, <1>7 DEF FirmwareNext, MainStep

\* The part of the storage main sees.
MainTyped ==
  /\ Main \in Threads
  /\ pc \in [Threads -> Places] /\ DOMAIN arg = Threads /\ DOMAIN result = Threads
  /\ result[Main] \in Int /\ result[Main] <= LibraryMax

LEMMA MainIsTyped == StorageInv => MainTyped
<1> SUFFICES ASSUME TypeOK PROVE MainTyped
  BY DEF StorageInv
<1>1. result[Main] \in Errors \union 0..LibraryMax /\ LibraryMax \in Nat
  BY BootAssumption, StorageAssumption DEF TypeOK, Errors
<1>2. result[Main] \in Int /\ result[Main] <= LibraryMax
  <2>1. CASE result[Main] \in Errors
    BY <1>1, <2>1, ErrorsNegative
  <2>2. CASE result[Main] \in 0..LibraryMax
    BY <1>1, <2>2
  <2>3. QED
    BY <1>1, <2>1, <2>2
<1>3. QED
  BY <1>2, BootAssumption DEF MainTyped, TypeOK

\* What the call answered, once it returns.
LEMMA AnswerOfTheCall ==
  ASSUME BootInv
  PROVE  /\ boot \in {"scanning", "scanned"} /\ Back(boot) =>
              /\ Answered \in Int /\ Answered <= LibraryMax
              /\ ~OnBoard => Answered <= Len(FakeTracks)
              /\ OnBoard /\ Answered >= 0 => lib_count = Answered
         /\ Back("loading") => Answered \in Fates
<1>1. MainTyped
  BY MainIsTyped DEF BootInv
<1>2. CASE OnBoard
  BY <1>1, <1>2 DEF BootInv, MainInv, MainTyped, BoardInv, Back, Answered, At, Fates
<1>3. CASE ~OnBoard
  BY <1>3 DEF BootInv, MainInv, SimInv, Back, Answered, Fates
<1>4. QED
  BY <1>2, <1>3

\* Where a scan that worked gives the volume back, the vector agrees with the table.
LEMMA ScannedIsListed ==
  ASSUME StorageInv, NEW t \in Threads, pc[t] = "scanned", result[t] >= 0
  PROVE  Listed(out[t], result[t])
<1>1. result[t] = Len(out[t]) /\ Partial(t, Len(Root[vol]))
  BY ErrorsNegative DEF StorageInv, CallInv, Complete, Errors
<1>2. \A e, k : Describe(e, k).file = e.name /\ Describe(e, k).index = k
  BY DEF Describe
<1>. QED BY <1>1, <1>2 DEF Partial, Listed

\* A step of storage.c under main.
LEMMA InsideMain ==
  ASSUME BootInv, OnBoard, Inside(Main), UNCHANGED bootVars PROVE BoardInv'
<1>1. MainTyped /\ BoardInv /\ ReportInv
  BY MainIsTyped DEF BootInv, MainInv
<1>2. UNCHANGED <<boot, library, count, answers>>
  BY DEF bootVars, listVars
<1> USE <1>1, <1>2 DEF MainTyped, BoardInv, Listed, At, Goto, Answer, tableVars, scanVars, Scanning
<1>3. CASE ScanAcquire(Main)
  <2>1. UNCHANGED <<lib_count, lib_files, arg>> /\ pc[Main] = "scan" /\ boot = "scanning"
    BY <1>3 DEF ScanAcquire, Acquire
  <2>2. pc'[Main] = "opendir" \/ (pc'[Main] = "back" /\ result'[Main] \in {ENODEV, EIO})
    BY <1>3 DEF ScanAcquire, Acquire
  <2>3. QED
    BY <2>1, <2>2 DEF ENODEV, EIO
<1>4. CASE LoadAcquire(Main)
  <2>1. UNCHANGED <<lib_count, lib_files, arg>> /\ pc[Main] = "load" /\ boot = "loading"
    BY <1>4 DEF LoadAcquire, Acquire
  <2>2. pc'[Main] = "lookup" \/ (pc'[Main] = "back" /\ result'[Main] \in {ENODEV, EIO})
    BY <1>4 DEF LoadAcquire, Acquire
  <2>3. QED
    BY <2>1, <2>2
<1>5. CASE OpenDir(Main) \/ ReadDirFails(Main) \/ ReadDirEnds(Main) \/ ReadEntry(Main)
             \/ DescribeTrack(Main)
  <2>1. /\ pc[Main] \in Scanning /\ pc'[Main] \in Scanning
        /\ UNCHANGED <<lib_count, arg>> /\ boot = "scanning"
    BY <1>5 DEF OpenDir, ReadDirFails, ReadDirEnds, ReadEntry, DescribeTrack, GiveUp
  <2>2. QED
    BY <2>1
<1>6. CASE Settle(Main)
  <2>1. /\ pc[Main] = "settle" /\ pc'[Main] = "scanned" /\ boot = "scanning"
        /\ lib_count' = IF result[Main] > 0 THEN result[Main] ELSE 0
        /\ result' = result
    BY <1>6 DEF Settle
  <2>2. QED
    BY <2>1
<1>7. CASE ScanRelease(Main)
  <2>1. pc[Main] = "scanned" /\ boot = "scanning" /\ UNCHANGED <<lib_count, lib_files, out, result>>
    BY <1>7 DEF ScanRelease
  <2>2. result[Main] >= 0 => Listed(out[Main], result[Main])
    BY <2>1, ScannedIsListed DEF BootInv
  <2>3. pc'[Main] = "back"
    BY <1>7 DEF ScanRelease
  <2>4. QED
    BY <2>1, <2>2, <2>3
<1>8. CASE Lookup(Main)
  <2>1. boot = "loading" => InLibrary(arg[Main])
    BY LenProperties DEF InLibrary, ReportInv
  <2>2. QED
    BY <1>8, <2>1 DEF Lookup
<1>9. CASE LoadRelease(Main)
  BY <1>9 DEF LoadRelease
<1>10. QED
  BY <1>3, <1>4, <1>5, <1>6, <1>7, <1>8, <1>9 DEF Inside

LEMMA ReportStep ==
  ASSUME BootInv, [FirmwareNext]_firmwareVars PROVE ReportInv'
<1> USE DEF BootInv, MainInv, ReportInv, Reached
<1>1. CASE ScanReturns
  <2>1. boot \in {"scanning", "scanned"} /\ Back(boot)
    BY <1>1 DEF ScanReturns, Back
  <2>2. Answered \in Int /\ Answered <= LibraryMax
    BY <2>1, AnswerOfTheCall
  <2>3. count' = Answered /\ answers' = answers /\ boot' # "loading"
    BY <1>1 DEF ScanReturns
  <2>4. QED
    BY <2>2, <2>3
<1>2. CASE LoadReturns
  <2>1. Answered \in Fates /\ Len(answers) < count
    BY <1>2, AnswerOfTheCall DEF LoadReturns, Back
  <2>2. answers' \in Seq(Fates) /\ Len(answers') = Len(answers) + 1 /\ Len(answers) \in Nat
    BY <1>2, <2>1, AppendProperties, LenProperties DEF LoadReturns
  <2>3. QED
    BY <1>2, <2>1, <2>2, StorageAssumption DEF LoadReturns
<1>3. CASE LoadTrack
  BY <1>3 DEF LoadTrack, listVars
<1>4. CASE UNCHANGED firmwareVars \/ UNCHANGED bootVars \/ MonitorStep \/ KnobStep \/ Returned
  BY <1>4 DEF firmwareVars, bootVars, listVars, MonitorStep, KnobStep, Returned
<1>5. CASE HeartbeatInit \/ CardReport \/ ScanLibrary \/ LibraryReported \/ SnapshotReport
             \/ CmdReport \/ Blink
  BY <1>5 DEF HeartbeatInit, CardReport, ScanLibrary, LibraryReported, SnapshotReport,
              CmdReport, CmdFlush, CmdPost, CmdGet, Blink, listVars
<1>6. QED
  BY <1>1, <1>2, <1>3, <1>4, <1>5 DEF FirmwareNext, MainStep

\* The board: the monitor leaves alone what main's call knows.
LEMMA BoardStep ==
  ASSUME BootInv, OnBoard, [FirmwareNext]_firmwareVars PROVE BoardInv'
<1>1. MainTyped /\ BoardInv /\ ReportInv
  BY MainIsTyped DEF BootInv, MainInv
<1> USE <1>1 DEF MainTyped, BoardInv, Listed, Reached
<1>2. CASE UNCHANGED firmwareVars \/ Returned
  BY <1>2 DEF firmwareVars, bootVars, listVars, storageVars, tableVars, scanVars, Returned
<1>3. CASE MonitorStep \/ CardReport
  <2>1. UNCHANGED <<pc, arg, result, tableVars, out, library, count, answers>>
    BY <1>3 DEF MonitorStep, CardReport, Poll, bootVars, listVars, storageVars, scanVars
  <2>2. boot' = boot \/ (boot = "card" /\ boot' = "scan")
    BY <1>3 DEF MonitorStep, CardReport, bootVars
  <2>3. QED
    BY <2>1, <2>2 DEF tableVars
<1>4. CASE HeartbeatInit \/ LibraryReported \/ SnapshotReport \/ CmdReport \/ Blink
  <2>1. UNCHANGED <<pc, arg, result, lib_count, lib_files, out, library, count, answers>>
    BY <1>4 DEF HeartbeatInit, LibraryReported, SnapshotReport, CmdReport, CmdFlush, CmdPost,
                CmdGet, Blink, listVars, storageVars, tableVars, scanVars
  <2>2. /\ boot' \in {"card", "returned", "snapshot", "cmd", "post", "get", "blink"}
        /\ boot \notin {"scanning", "loading"}
    BY <1>4 DEF HeartbeatInit, LibraryReported, SnapshotReport, CmdReport, CmdFlush, CmdPost,
                CmdGet, Blink
  <2>3. QED
    BY <2>1, <2>2
<1>5. CASE ScanLibrary
  <2>1. boot' = "scanning" /\ pc'[Main] \in {"scan", "back"} /\ ScanCall(Main, LibraryMax)
    BY <1>5 DEF ScanLibrary, ScanCall, Goto
  <2>2. pc'[Main] = "scan"
    BY <2>1, StorageAssumption DEF ScanCall, Goto
  <2>3. QED
    BY <2>1, <2>2
<1>6. CASE ScanReturns
  <2>1. boot = "scanning" /\ Back(boot) /\ boot' \in {"snapshot", "load"}
    BY <1>6 DEF ScanReturns, Back
  <2>2. Answered \in Int /\ (Answered >= 0 => lib_count = Answered)
    BY <2>1, AnswerOfTheCall
  <2>3. Answered >= 0 => Listed(out[Main], Answered)
    BY <2>1 DEF Back, At, Answered
  <2>4. count' = Answered /\ library' = out[Main] /\ (boot' = "load" => ~(Answered < 0))
    BY <1>6 DEF ScanReturns
  <2>5. pc'[Main] = "idle" /\ UNCHANGED <<lib_count, lib_files>>
    BY <2>1 DEF Back, Return, Goto, tableVars
  <2>6. QED
    BY <2>1, <2>2, <2>3, <2>4, <2>5
<1>7. CASE LoadTrack
  <2>1. /\ boot = "load" /\ boot' = "loading" /\ UNCHANGED <<library, count, answers, lib_count, lib_files>>
        /\ pc'[Main] = "load" /\ arg'[Main] = Len(answers)
    BY <1>7 DEF LoadTrack, LoadCall, Goto, listVars, tableVars
  <2>2. QED
    BY <2>1
<1>8. CASE LoadReturns
  <2>1. /\ boot = "loading" /\ boot' = "load" /\ pc'[Main] = "idle"
        /\ UNCHANGED <<library, count, lib_count, lib_files>>
    BY <1>8 DEF LoadReturns, Back, Return, Goto, tableVars
  <2>2. QED
    BY <2>1
<1>9. CASE Inside(Main) /\ UNCHANGED <<fakeVars, bootVars>>
  BY <1>9, InsideMain
<1>10. QED
  BY <1>2, <1>3, <1>4, <1>5, <1>6, <1>7, <1>8, <1>9 DEF FirmwareNext, MainStep, KnobStep

\* The simulator: the flags decide whether a track is loaded, never which there are.
LEMMA SimStep ==
  ASSUME BootInv, ~OnBoard, [FirmwareNext]_firmwareVars PROVE SimInv'
<1>1. SimInv /\ ReportInv
  BY DEF BootInv, MainInv
<1> USE <1>1 DEF SimInv, Reached
<1>2. Len(FakeTracks) \in Nat
  BY BootAssumption, LenProperties
<1>3. CASE UNCHANGED firmwareVars \/ Returned \/ UNCHANGED <<fakeVars, bootVars>>
  BY <1>3 DEF firmwareVars, fakeVars, bootVars, listVars, Returned
<1>4. CASE KnobStep
  BY <1>4 DEF KnobStep, FakeKnobs, bootVars, listVars
<1>5. CASE HeartbeatInit \/ LibraryReported \/ SnapshotReport \/ CmdReport \/ Blink
             \/ CardReport
  <2>1. boot' \in {"card", "returned", "scan", "snapshot", "cmd", "post", "get", "blink"}
    BY <1>5 DEF HeartbeatInit, LibraryReported, SnapshotReport, CmdReport, CmdFlush, CmdPost,
                CmdGet, Blink, CardReport
  <2>2. QED
    BY <2>1
<1>6. CASE ScanLibrary
  <2>1. boot' = "scanned" /\ FakeScan(LibraryMax)
    BY <1>6 DEF ScanLibrary
  <2>2. Count(LibraryMax) \in Int /\ Count(LibraryMax) <= LibraryMax
        /\ Count(LibraryMax) <= Len(FakeTracks)
    BY <1>2, StorageAssumption DEF Count, Ceiling, Smaller
  <2>3. fake_result' \in {EINVAL, ENODEV, EIO, Count(LibraryMax)}
    BY <2>1, StorageAssumption DEF FakeScan, Status, ENODEV, EIO
  <2>4. QED
    BY <1>2, <2>1, <2>2, <2>3, StorageAssumption DEF EINVAL, ENODEV, EIO
<1>7. CASE ScanReturns
  <2>1. boot = "scanned" /\ Back(boot) /\ boot' \in {"snapshot", "load"} /\ count' = Answered
    BY <1>7 DEF ScanReturns, Back
  <2>2. QED
    BY <2>1, AnswerOfTheCall
<1>8. CASE LoadTrack
  <2>1. /\ boot = "load" /\ boot' = "loading" /\ count' = count
        /\ FakeLoad(Len(answers), FileMax) /\ Len(answers) < count
    BY <1>8 DEF LoadTrack, listVars
  <2>2. Len(answers) \in 0..(Len(FakeTracks) - 1)
    BY <1>2, <2>1, LenProperties DEF ReportInv
  <2>3. FakeTracks[Len(answers) + 1] \in 0..FileMax
    BY <1>2, <2>2, ElementOfSeq, BootAssumption
  <2>4. fake_result' \in {ENODEV, EIO, FakeTracks[Len(answers) + 1]}
    BY <2>1, <2>2, <2>3, BootAssumption DEF FakeLoad, Status
  <2>5. QED
    BY <2>1, <2>3, <2>4, BootAssumption DEF Fates
<1>9. CASE LoadReturns
  BY <1>9 DEF LoadReturns, Back
<1>10. QED
  BY <1>3, <1>4, <1>5, <1>6, <1>7, <1>8, <1>9 DEF FirmwareNext, MainStep, MonitorStep

LEMMA BootStep == BootInv /\ [FirmwareNext]_firmwareVars => BootInv'
<1> SUFFICES ASSUME BootInv, [FirmwareNext]_firmwareVars PROVE BootInv'
  OBVIOUS
<1>1. StorageInv'
  BY FirmwareCalls, StorageStep DEF BootInv
<1>2. target' = target
  BY DEF FirmwareNext, MainStep, HeartbeatInit, CardReport, ScanLibrary, ScanReturns, LoadTrack,
         LoadReturns, LibraryReported, SnapshotReport, CmdReport, CmdFlush, CmdPost, CmdGet, Blink, MonitorStep, KnobStep,
         Returned, firmwareVars, bootVars
<1>3. OnBoard' <=> OnBoard
  BY <1>2 DEF OnBoard
<1>4. QED
  BY <1>1, <1>3, ReportStep, BoardStep, SimStep DEF BootInv, MainInv

\* The firmware is a caller of storage.c like any other: what is proved of the
\* storage holds under main and the monitor.
THEOREM FirmwareIsACaller == FirmwareSpec => Spec
<1>1. FirmwareInit => Init
  BY DEF FirmwareInit
<1>2. (BootInv /\ [FirmwareNext]_firmwareVars) => [Next]_storageVars
  BY FirmwareCalls
<1>3. QED
  BY <1>1, <1>2, BootStart, BootStep, PTL DEF FirmwareSpec, Spec

\* A track the report lists is one storage_load knows, under the index and with the
\* file it was listed with, whatever becomes of the card between the scan and the load.
THEOREM ListedIsKnown == FirmwareSpec => []ListedIsLoadable
<1>1. BootInv => ListedIsLoadable
  <2> SUFFICES ASSUME ReportInv, OnBoard => BoardInv PROVE ListedIsLoadable
    BY DEF BootInv, MainInv
  <2>1. \A i \in DOMAIN answers : answers[i] \in Fates
    BY ElementOfSeq, LenProperties DEF ReportInv
  <2>2. \A r \in Fates : r >= 0 \/ r \in {ENOTSUP, ENODEV, EIO}
    BY DEF Fates
  <2>3. ListIsTheTable
    BY DEF ListIsTheTable, BoardInv, Listed
  <2>4. QED
    BY <2>1, <2>2, <2>3 DEF ListedIsLoadable, ReportInv
<1>2. QED
  BY <1>1, BootStart, BootStep, PTL DEF FirmwareSpec
=============================================================================
