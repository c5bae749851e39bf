--------------------------- MODULE SnapshotProofs ---------------------------
(***************************************************************************)
(* Proofs about Snapshot, for any number of words, writers and readers,    *)
(* any even modulus of the counter and any bound on the publications       *)
(* during one attempt to copy that the modulus allows.                     *)
(***************************************************************************)
EXTENDS Snapshot, TLAPS

\* The counter wraps at an even value, so that an increment flips its parity.
LEMMA Parity ==
  ASSUME seq \in 0..(SeqModulus - 1), Increment
  PROVE  /\ seq' \in 0..(SeqModulus - 1)
         /\ seq' % 2 = 1 - (seq % 2)
         /\ seq' \in {seq + 1, seq + 1 - SeqModulus}
<1>1. CASE seq = SeqModulus - 1
  <2>1. seq' = 0
    BY <1>1 DEF Increment
  <2>2. seq % 2 = 1
    BY <1>1, SnapshotAssumption
  <2>3. QED
    BY <1>1, <2>1, <2>2, SnapshotAssumption
<1>2. CASE seq # SeqModulus - 1
  BY <1>2, SnapshotAssumption DEF Increment
<1>3. QED
  BY <1>1, <1>2

LEMMA WholeIsStructure ==
  ASSUME NEW s \in Snapshots PROVE Whole(s) \in Structures
BY DEF Whole, Structures

---------------------------------------------------------------------------
\* Every step keeps every variable in its type.
LEMMA TypeStep ==
  ASSUME TypeOK, [Next]_snapshotVars PROVE TypeOK'
<1> USE SnapshotAssumption
<1>1. ASSUME NEW w \in Writers, WriteLock(w) PROVE TypeOK'
  BY <1>1, Parity DEF TypeOK, WriteLock, readerVars, Copying
<1>2. ASSUME NEW w \in Writers, WriteWord(w) PROVE TypeOK'
  BY <1>2 DEF TypeOK, WriteWord, readerVars, Structures
<1>3. ASSUME NEW w \in Writers, WriteUnlock(w) PROVE TypeOK'
  BY <1>3, Parity DEF TypeOK, WriteUnlock, readerVars
<1>4. ASSUME NEW r \in Readers, ReadCall(r) PROVE TypeOK'
  BY <1>4 DEF TypeOK, ReadCall, writerVars
<1>5. ASSUME NEW r \in Readers, ReadBegin(r) PROVE TypeOK'
  BY <1>5 DEF TypeOK, ReadBegin, writerVars
<1>6. ASSUME NEW r \in Readers, CopyWord(r) PROVE TypeOK'
  <2> USE <1>6 DEF TypeOK, CopyWord, writerVars
  <2>1. PICK x \in toCopy[r] :
          /\ copy' = [copy EXCEPT ![r][x] = shared[x]]
          /\ toCopy' = [toCopy EXCEPT ![r] = @ \ {x}]
          /\ pc' = [pc EXCEPT ![r] = IF toCopy[r] = {x} THEN "retry" ELSE "copy"]
    OBVIOUS
  <2>2. x \in Words
    OBVIOUS
  <2>3. copy' \in [Readers -> Structures]
    BY <2>1, <2>2 DEF Structures
  <2>4. QED
    BY <2>1, <2>3
<1>7. ASSUME NEW r \in Readers, ReadRetry(r) PROVE TypeOK'
  BY <1>7 DEF TypeOK, ReadRetry, writerVars
<1>8. CASE UNCHANGED snapshotVars
  BY <1>8 DEF TypeOK, snapshotVars, writerVars, readerVars
<1>9. QED
  BY <1>1, <1>2, <1>3, <1>4, <1>5, <1>6, <1>7, <1>8 DEF Next, Publishing, Reading

---------------------------------------------------------------------------
\* The counter against what the readers sampled.
LEMMA SeqStep ==
  ASSUME TypeOK, TypeOK', SeqInv, [Next]_snapshotVars PROVE SeqInv'
<1> USE SnapshotAssumption
<1>1. ASSUME NEW w \in Writers, WriteLock(w) PROVE SeqInv'
  <2>1. irqOff = NoWriter /\ irqOff' # NoWriter /\ seq' % 2 = 1
    <3>1. irqOff = NoWriter /\ irqOff' # NoWriter
      BY <1>1 DEF WriteLock
    <3>2. seq % 2 = 0
      BY <3>1 DEF SeqInv
    <3>3. seq' % 2 = 1 - (seq % 2)
      BY <1>1, Parity DEF WriteLock, TypeOK
    <3>4. QED
      BY <3>1, <3>2, <3>3
  <2>2. ASSUME NEW r \in Readers, Copying(r)'
        PROVE  /\ begin[r]' % 2 = 0
               /\ during[r]' > 0
               /\ seq' \in {begin[r]' + Ahead(r)', begin[r]' + Ahead(r)' - SeqModulus}
    <3>1. Copying(r) /\ begin[r]' = begin[r] /\ during[r]' = during[r] + 1
      BY <1>1, <2>2 DEF WriteLock, readerVars, Copying, TypeOK
    <3>2. Ahead(r) = 2 * during[r] /\ Ahead(r)' = 2 * during[r] + 1
      BY <2>1, <3>1 DEF Ahead, TypeOK
    <3>3. seq \in {begin[r] + Ahead(r), begin[r] + Ahead(r) - SeqModulus}
      BY <3>1 DEF SeqInv
    <3>4. /\ seq \in 0..(SeqModulus - 1) /\ seq' \in 0..(SeqModulus - 1)
          /\ begin[r] \in 0..(SeqModulus - 1)
          /\ during[r] \in 0..MaxDuring /\ during[r]' \in 0..MaxDuring
      BY DEF TypeOK
    <3>5. seq' \in {seq + 1, seq + 1 - SeqModulus}
      BY <1>1, Parity DEF WriteLock, TypeOK
    <3>6. QED
      BY <3>1, <3>2, <3>3, <3>4, <3>5 DEF SeqInv
  <2>3. QED
    BY <2>1, <2>2 DEF SeqInv
<1>2. ASSUME NEW w \in Writers, WriteWord(w) PROVE SeqInv'
  BY <1>2 DEF SeqInv, WriteWord, readerVars, Copying, Ahead
<1>3. ASSUME NEW w \in Writers, WriteUnlock(w) PROVE SeqInv'
  <2>1. irqOff # NoWriter /\ irqOff' = NoWriter /\ seq' % 2 = 0
    <3>1. irqOff # NoWriter /\ irqOff' = NoWriter
      BY <1>3 DEF WriteUnlock
    <3>2. seq % 2 = 1
      BY <3>1 DEF SeqInv
    <3>3. seq' % 2 = 1 - (seq % 2)
      BY <1>3, Parity DEF WriteUnlock, TypeOK
    <3>4. QED
      BY <3>1, <3>2, <3>3
  <2>2. ASSUME NEW r \in Readers, Copying(r)'
        PROVE  /\ begin[r]' % 2 = 0
               /\ seq' \in {begin[r]' + Ahead(r)', begin[r]' + Ahead(r)' - SeqModulus}
    <3>1. Copying(r) /\ begin[r]' = begin[r] /\ during[r]' = during[r]
      BY <1>3, <2>2 DEF WriteUnlock, readerVars, Copying, TypeOK
    <3>2. Ahead(r) = 2 * during[r] - 1 /\ Ahead(r)' = 2 * during[r]
      BY <2>1, <3>1 DEF Ahead, TypeOK
    <3>3. seq \in {begin[r] + Ahead(r), begin[r] + Ahead(r) - SeqModulus}
      BY <3>1 DEF SeqInv
    <3>4. /\ seq \in 0..(SeqModulus - 1) /\ seq' \in 0..(SeqModulus - 1)
          /\ begin[r] \in 0..(SeqModulus - 1)
          /\ during[r] \in 0..MaxDuring
      BY DEF TypeOK
    <3>5. seq' \in {seq + 1, seq + 1 - SeqModulus}
      BY <1>3, Parity DEF WriteUnlock, TypeOK
    <3>6. QED
      BY <3>1, <3>2, <3>3, <3>4, <3>5 DEF SeqInv
  <2>3. QED
    BY <2>1, <2>2 DEF SeqInv
<1>4. ASSUME NEW r \in Readers, ReadCall(r) PROVE SeqInv'
  BY <1>4 DEF SeqInv, ReadCall, writerVars, Copying, Ahead, TypeOK
<1>5. ASSUME NEW r \in Readers, ReadBegin(r) PROVE SeqInv'
  <2>1. irqOff = NoWriter
    BY <1>5 DEF ReadBegin, CanRun, TypeOK
  <2>2. /\ seq % 2 = 0 /\ seq' = seq /\ irqOff' = irqOff
        /\ begin' = [begin EXCEPT ![r] = seq]
        /\ during' = [during EXCEPT ![r] = 0]
        /\ pc' = [pc EXCEPT ![r] = "copy"]
    BY <1>5, <2>1 DEF ReadBegin, SeqInv, writerVars
  <2>3. ASSUME NEW q \in Readers, Copying(q)'
        PROVE  /\ begin[q]' % 2 = 0
               /\ seq' \in {begin[q]' + Ahead(q)', begin[q]' + Ahead(q)' - SeqModulus}
    <3>1. CASE q = r
      BY <2>1, <2>2, <3>1 DEF Ahead, TypeOK
    <3>2. CASE q # r
      BY <2>1, <2>2, <2>3, <3>2 DEF SeqInv, Ahead, Copying, TypeOK
    <3>3. QED
      BY <3>1, <3>2
  <2>4. QED
    BY <2>1, <2>2, <2>3 DEF SeqInv
<1>6. ASSUME NEW r \in Readers, CopyWord(r) PROVE SeqInv'
  BY <1>6 DEF SeqInv, CopyWord, writerVars, Copying, Ahead, TypeOK
<1>7. ASSUME NEW r \in Readers, ReadRetry(r) PROVE SeqInv'
  BY <1>7 DEF SeqInv, ReadRetry, writerVars, Copying, Ahead, TypeOK
<1>8. CASE UNCHANGED snapshotVars
  BY <1>8 DEF SeqInv, snapshotVars, writerVars, readerVars, Copying, Ahead
<1>9. QED
  BY <1>1, <1>2, <1>3, <1>4, <1>5, <1>6, <1>7, <1>8 DEF Next, Publishing, Reading

---------------------------------------------------------------------------
\* A reader whose counter has not moved has met no publication.
LEMMA SameCounter ==
  ASSUME TypeOK, SeqInv, NEW r \in Readers, Copying(r), irqOff = NoWriter,
         begin[r] = seq
  PROVE  during[r] = 0
<1>1. seq \in {begin[r] + 2 * during[r], begin[r] + 2 * during[r] - SeqModulus}
  BY DEF SeqInv, Ahead, TypeOK
<1>2. /\ during[r] \in 0..MaxDuring /\ begin[r] \in 0..(SeqModulus - 1)
      /\ SeqModulus \in Nat /\ MaxDuring \in Nat /\ 2 * MaxDuring < SeqModulus
  BY SnapshotAssumption DEF TypeOK
<1>3. QED
  BY <1>1, <1>2

\* A reader runs only while nobody writes.
LEMMA ReaderRuns ==
  ASSUME TypeOK, NEW r \in Readers, CanRun(r) PROVE irqOff = NoWriter
BY SnapshotAssumption DEF TypeOK, CanRun

\* What a read returns is the shared structure, and that is whole.
LEMMA ReadReturnsShared ==
  ASSUME TypeOK, SeqInv, CopyInv, NEW r \in Readers, ReadRetry(r), ~Retry(r)
  PROVE  copy[r] = shared /\ \E s \in Snapshots : shared = Whole(s)
<1>1. irqOff = NoWriter /\ Copying(r) /\ toCopy[r] = {}
  BY ReaderRuns DEF ReadRetry, Copying, CopyInv
<1>2. during[r] = 0
  BY <1>1, SameCounter DEF Retry
<1>3. \A x \in Words : copy[r][x] = shared[x]
  BY <1>1, <1>2 DEF CopyInv
<1>4. copy[r] \in Structures /\ shared \in Structures
  BY DEF TypeOK
<1>5. QED
  BY <1>1, <1>3, <1>4 DEF CopyInv, Structures

\* The words of the shared structure and of the copies.
LEMMA CopyStep ==
  ASSUME TypeOK, TypeOK', SeqInv, CopyInv, [Next]_snapshotVars PROVE CopyInv'
<1> USE SnapshotAssumption
<1>1. ASSUME NEW w \in Writers, WriteLock(w) PROVE CopyInv'
  <2>1. \A r \in Readers : Copying(r)' => during[r]' # 0 /\ Copying(r)
    BY <1>1 DEF WriteLock, readerVars, Copying, TypeOK
  <2>2. QED
    BY <1>1, <2>1 DEF WriteLock, readerVars, CopyInv
<1>2. ASSUME NEW w \in Writers, WriteWord(w) PROVE CopyInv'
  <2>1. irqOff # NoWriter /\ UNCHANGED <<irqOff, input, readerVars, during>>
    BY <1>2 DEF WriteWord
  <2>2. PICK x \in toWrite :
          shared' = [shared EXCEPT ![x] = input] /\ toWrite' = toWrite \ {x}
    BY <1>2 DEF WriteWord
  <2>3. \A y \in Words \ toWrite' : shared'[y] = input
    BY <2>1, <2>2 DEF CopyInv, TypeOK, Structures
  <2>4. \A r \in Readers : Copying(r) => during[r] # 0
    BY <2>1 DEF SeqInv, TypeOK
  <2>5. QED
    BY <2>1, <2>3, <2>4 DEF CopyInv, Copying, readerVars
<1>3. ASSUME NEW w \in Writers, WriteUnlock(w) PROVE CopyInv'
  <2>1. /\ irqOff # NoWriter /\ irqOff' = NoWriter /\ toWrite = {}
        /\ UNCHANGED <<shared, input, toWrite, readerVars, during>>
    BY <1>3 DEF WriteUnlock
  <2>2. shared = Whole(input)
    BY <2>1 DEF CopyInv, TypeOK, Structures, Whole
  <2>3. \A r \in Readers : Copying(r) => during[r] # 0
    BY <2>1 DEF SeqInv, TypeOK
  <2>4. QED
    BY <2>1, <2>2, <2>3 DEF CopyInv, Copying, readerVars, TypeOK
<1>4. ASSUME NEW r \in Readers, ReadCall(r) PROVE CopyInv'
  BY <1>4 DEF CopyInv, ReadCall, writerVars, Copying, TypeOK
<1>5. ASSUME NEW r \in Readers, ReadBegin(r) PROVE CopyInv'
  BY <1>5 DEF CopyInv, ReadBegin, writerVars, Copying, TypeOK
<1>6. ASSUME NEW r \in Readers, CopyWord(r) PROVE CopyInv'
  <2>1. PICK x \in toCopy[r] :
          /\ copy' = [copy EXCEPT ![r][x] = shared[x]]
          /\ toCopy' = [toCopy EXCEPT ![r] = @ \ {x}]
          /\ pc' = [pc EXCEPT ![r] = IF toCopy[r] = {x} THEN "retry" ELSE "copy"]
    BY <1>6 DEF CopyWord
  <2>2. pc[r] = "copy" /\ UNCHANGED <<shared, irqOff, input, toWrite, during>>
    BY <1>6 DEF CopyWord, writerVars
  <2>3. ASSUME NEW q \in Readers
        PROVE  /\ Copying(q)' /\ during'[q] = 0
                    => \A y \in Words \ toCopy'[q] : copy'[q][y] = shared'[y]
               /\ pc'[q] = "retry" => toCopy'[q] = {}
    <3>1. CASE q # r
      BY <2>1, <2>2, <3>1 DEF CopyInv, Copying, TypeOK
    <3>2. CASE q = r
      <4>1. Copying(r) /\ x \in Words /\ toCopy'[r] = toCopy[r] \ {x}
        BY <2>1, <2>2 DEF Copying, TypeOK
      <4>2. copy'[r] = [copy[r] EXCEPT ![x] = shared[x]]
        BY <2>1 DEF TypeOK
      <4>3. pc'[r] = "retry" => toCopy'[r] = {}
        BY <2>1, <4>1 DEF TypeOK
      <4>4. ASSUME during[r] = 0, NEW y \in Words \ toCopy'[r]
            PROVE  copy'[r][y] = shared[y]
        BY <4>1, <4>2, <4>4 DEF CopyInv, TypeOK, Structures
      <4>5. QED
        BY <2>2, <3>2, <4>3, <4>4
    <3>3. QED
      BY <3>1, <3>2
  <2>4. QED
    BY <2>2, <2>3 DEF CopyInv
<1>7. ASSUME NEW r \in Readers, ReadRetry(r) PROVE CopyInv'
  BY <1>7 DEF CopyInv, ReadRetry, writerVars, Copying, TypeOK
<1>8. CASE UNCHANGED snapshotVars
  BY <1>8 DEF CopyInv, snapshotVars, writerVars, readerVars, Copying
<1>9. QED
  BY <1>1, <1>2, <1>3, <1>4, <1>5, <1>6, <1>7, <1>8 DEF Next, Publishing, Reading

\* What the reads returned.
LEMMA GotStep ==
  ASSUME TypeOK, SeqInv, CopyInv, ReadIsWhole, [Next]_snapshotVars
  PROVE  ReadIsWhole'
<1>1. ASSUME NEW r \in Readers, ReadRetry(r), ~Retry(r) PROVE ReadIsWhole'
  <2>1. \E s \in Snapshots : copy[r] = Whole(s)
    BY <1>1, ReadReturnsShared
  <2>2. got' = got \/ got' = [got EXCEPT ![r] = copy[r]]
    BY <1>1 DEF ReadRetry
  <2>3. \A q \in Readers : got'[q] \in {got[q], copy[r]}
    BY <2>2 DEF TypeOK
  <2>4. \A q \in Readers : \E s \in Snapshots : got'[q] = Whole(s)
    BY <2>1, <2>3 DEF ReadIsWhole
  <2>5. QED
    BY <2>4 DEF ReadIsWhole, Whole
<1>2. CASE UNCHANGED got
  BY <1>2 DEF ReadIsWhole, Whole
<1>3. ASSUME NEW r \in Readers, ReadRetry(r), Retry(r) PROVE UNCHANGED got
  BY <1>3 DEF ReadRetry
<1>4. QED
  BY <1>1, <1>2, <1>3 DEF Next, Publishing, Reading, WriteLock, WriteWord,
    WriteUnlock, ReadCall, ReadBegin, CopyWord, readerVars, snapshotVars

---------------------------------------------------------------------------
LEMMA InitInv == Init => IInv
<1> SUFFICES ASSUME Init PROVE IInv
  OBVIOUS
<1> USE SnapshotAssumption DEF Init
<1>1. TypeOK
  BY DEF TypeOK, Whole, Structures
<1>2. SeqInv
  BY DEF SeqInv, Copying
<1>3. CopyInv /\ ReadIsWhole
  BY DEF CopyInv, Copying, ReadIsWhole, Whole
<1>4. QED
  BY <1>1, <1>2, <1>3 DEF IInv

LEMMA StepInv == IInv /\ [Next]_snapshotVars => IInv'
BY TypeStep, SeqStep, CopyStep, GotStep DEF IInv

\* The inductive invariant holds in every reachable state.
THEOREM SnapshotInvariant == Spec => []IInv
BY InitInv, StepInv, PTL DEF Spec

\* snapshot_read never returns a mixture of two publications.
THEOREM ReadsAreWhole == Spec => []ReadIsWhole
BY SnapshotInvariant, PTL DEF IInv

\* A copy is repeated only because a publication came in between.
THEOREM RetriesAreDue == Spec => RetryMeansPublished
<1> DEFINE Due ==
      \A r \in Readers : pc[r] = "retry" /\ pc'[r] = "begin" => during[r] > 0
<1>1. IInv /\ [Next]_snapshotVars => [Due]_snapshotVars
  <2> SUFFICES ASSUME IInv, Next, NEW r \in Readers,
                      pc[r] = "retry", pc'[r] = "begin"
               PROVE  during[r] > 0
    BY DEF snapshotVars, readerVars
  <2>1. ReadRetry(r)
    BY DEF Next, Publishing, Reading, WriteLock, WriteWord, WriteUnlock,
      ReadCall, ReadBegin, CopyWord, ReadRetry, readerVars, IInv, TypeOK
  <2>2. Retry(r) /\ irqOff = NoWriter /\ Copying(r)
    BY <2>1, ReaderRuns DEF ReadRetry, IInv, TypeOK, Copying
  <2>3. begin[r] # seq
    BY <2>2 DEF Retry, IInv, SeqInv
  <2>4. during[r] # 0
    <3>1. seq \in {begin[r] + 2 * during[r], begin[r] + 2 * during[r] - SeqModulus}
      BY <2>2 DEF IInv, SeqInv, Ahead, TypeOK
    <3>2. QED
      BY <2>3, <3>1, SnapshotAssumption DEF IInv, TypeOK
  <2>5. QED
    BY <2>4 DEF IInv, TypeOK
<1>2. QED
  BY <1>1, SnapshotInvariant, PTL DEF Spec, RetryMeansPublished

\* Publications and reads act as if each were one step on a register.
THEOREM SnapshotRefinesRegister == Spec => ImplementsRegister
<1> DEFINE reg == IF irqOff = NoWriter THEN shared ELSE Whole(input)
<1> DEFINE Step == Register!Write \/ \E r \in Readers : Register!Read(r)
<1>1. Init => Register!RegisterInit
  BY DEF Init, Register!RegisterInit
<1>2. IInv /\ [Next]_snapshotVars => [Step]_(Register!registerVars)
  <2> SUFFICES ASSUME IInv, [Next]_snapshotVars
               PROVE  Step \/ UNCHANGED <<reg, got>>
    BY DEF Register!registerVars
  <2>1. ASSUME NEW w \in Writers, WriteLock(w) PROVE Register!Write
    <3>1. irqOff' # NoWriter /\ input' \in Snapshots /\ got' = got
      BY <2>1, SnapshotAssumption DEF WriteLock, readerVars
    <3>2. QED
      BY <3>1 DEF Register!Write
  <2>2. ASSUME NEW w \in Writers, WriteWord(w) PROVE UNCHANGED <<reg, got>>
    BY <2>2, SnapshotAssumption DEF WriteWord, readerVars, Whole
  <2>3. ASSUME NEW w \in Writers, WriteUnlock(w) PROVE UNCHANGED <<reg, got>>
    <3>1. irqOff # NoWriter /\ irqOff' = NoWriter /\ shared' = shared /\ got' = got
      BY <2>3, SnapshotAssumption DEF WriteUnlock, readerVars
    <3>2. shared = Whole(input)
      BY <2>3, <3>1 DEF WriteUnlock, IInv, CopyInv, TypeOK, Structures, Whole
    <3>3. QED
      BY <3>1, <3>2
  <2>4. ASSUME NEW r \in Readers, ReadRetry(r), ~Retry(r) PROVE Step
    <3>1. irqOff = NoWriter /\ copy[r] = shared
      BY <2>4, ReaderRuns, ReadReturnsShared DEF ReadRetry, IInv
    <3>2. got' = [got EXCEPT ![r] = copy[r]] /\ UNCHANGED reg
      BY <2>4 DEF ReadRetry, writerVars, Whole
    <3>3. Register!Read(r)
      BY <3>1, <3>2 DEF Register!Read
    <3>4. QED
      BY <3>3
  <2>5. ASSUME NEW r \in Readers,
               ReadCall(r) \/ ReadBegin(r) \/ CopyWord(r) \/ (ReadRetry(r) /\ Retry(r))
        PROVE  UNCHANGED <<reg, got>>
    BY <2>5 DEF ReadCall, ReadBegin, CopyWord, ReadRetry, writerVars, Whole
  <2>6. CASE UNCHANGED snapshotVars
    BY <2>6 DEF snapshotVars, writerVars, readerVars, Whole
  <2>7. QED
    BY <2>1, <2>2, <2>3, <2>4, <2>5, <2>6 DEF Next, Publishing, Reading
<1>3. QED
  BY <1>1, <1>2, SnapshotInvariant, PTL
    DEF Spec, ImplementsRegister, Register!RegisterSpec
=============================================================================
