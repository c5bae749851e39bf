------------------------------ MODULE Snapshot ------------------------------
(***************************************************************************)
(* src/snapshot.c over src/seqlock.c: the player publishes a structure of  *)
(* several words, the user interface copies it without a lock and repeats  *)
(* the copy when the version counter says that a publication came between. *)
(*                                                                         *)
(* One core.  Between irq_lock and irq_unlock only the writer runs; apart  *)
(* from that, threads and the timer's interrupt interleave at every word.  *)
(* A structure assignment copies its words in whatever order the compiler  *)
(* chose.  Word w of snapshot s is s itself: two snapshots differ in every *)
(* word, which is the case in which a mixture shows.                       *)
(*                                                                         *)
(* A definition marked "Defect" is not part of the model: it is what the   *)
(* definition below it would be with a plausible mistake in the code.      *)
(***************************************************************************)
EXTENDS Integers

CONSTANTS
  Snapshots,    \* the values a player publishes
  Idle,         \* SNAPSHOT_IDLE_INITIALIZER
  Words,        \* the words of struct player_snapshot
  Writers,      \* the player thread and the timer's callback
  NoWriter,     \* interrupts are enabled
  Readers,      \* threads that call snapshot_read
  SeqModulus,   \* 2^32 in the code
  MaxDuring     \* bound on the publications during one attempt to copy

ASSUME SnapshotAssumption ==
  /\ Idle \in Snapshots
  /\ Words # {}
  /\ NoWriter \notin Writers \union Readers
  /\ Readers \intersect Writers = {}
  /\ SeqModulus \in Nat /\ SeqModulus % 2 = 0
  /\ MaxDuring \in Nat /\ 2 * MaxDuring < SeqModulus

VARIABLES
  shared,       \* shared[w]: the word of the shared structure
  seq,          \* shared_lock.seq
  irqOff,       \* who has disabled the interrupts, or NoWriter
  input,        \* the snapshot that writer is publishing
  toWrite,      \* the words it has not written yet
  pc,           \* pc[r]: where reader r is in snapshot_read
  copy,         \* copy[r]: *out
  toCopy,       \* toCopy[r]: the words r has not copied yet
  begin,        \* begin[r]: the local `begin`
  during,       \* history: publications begun since r sampled the counter
  got           \* history: *out when snapshot_read last returned

writerVars == <<shared, seq, irqOff, input, toWrite>>
readerVars == <<pc, copy, toCopy, begin, got>>
snapshotVars == <<writerVars, readerVars, during>>

Structures == [Words -> Snapshots]

TypeOK ==
  /\ shared \in Structures
  /\ seq \in 0..(SeqModulus - 1)
  /\ irqOff \in Writers \union {NoWriter}
  /\ input \in Snapshots
  /\ toWrite \subseteq Words
  /\ pc \in [Readers -> {"idle", "begin", "copy", "retry"}]
  /\ copy \in [Readers -> Structures]
  /\ toCopy \in [Readers -> SUBSET Words]
  /\ begin \in [Readers -> 0..(SeqModulus - 1)]
  /\ during \in [Readers -> 0..MaxDuring]
  /\ got \in [Readers -> Structures]

Whole(s) == [w \in Words |-> s]

Init ==
  /\ shared = Whole(Idle)
  /\ seq = 0
  /\ irqOff = NoWriter
  /\ input = Idle
  /\ toWrite = {}
  /\ pc = [r \in Readers |-> "idle"]
  /\ copy = [r \in Readers |-> Whole(Idle)]
  /\ toCopy = [r \in Readers |-> {}]
  /\ begin = [r \in Readers |-> 0]
  /\ during = [r \in Readers |-> 0]
  /\ got = [r \in Readers |-> Whole(Idle)]

\* atomic_inc on an atomic_t read back as uint32_t.
Increment == seq' = IF seq = SeqModulus - 1 THEN 0 ELSE seq + 1

Copying(r) == pc[r] \in {"copy", "retry"}

---------------------------------------------------------------------------
\* snapshot_publish.

\* Defect: the write section leaves interrupts enabled.
CanRunAlways(c) == TRUE

\* On one core, whoever disabled the interrupts is the only one to run.
CanRun(c) == irqOff \in {NoWriter, c}

\* seqlock_write_lock.  Every attempt to copy in progress meets the new
\* publication: `during` counts it, up to the bound MaxDuring.
WriteLock(w) ==
  /\ irqOff = NoWriter
  /\ \A r \in Readers : Copying(r) => during[r] < MaxDuring
  /\ irqOff' = w
  /\ Increment
  /\ input' \in Snapshots
  /\ toWrite' = Words
  /\ during' = [r \in Readers |-> IF Copying(r) THEN during[r] + 1 ELSE 0]
  /\ UNCHANGED <<shared, readerVars>>

\* shared = *in, one word of it.
WriteWord(w) ==
  /\ irqOff = w
  /\ \E x \in toWrite :
       /\ shared' = [shared EXCEPT ![x] = input]
       /\ toWrite' = toWrite \ {x}
  /\ UNCHANGED <<seq, irqOff, input, readerVars, during>>

\* Defect: irq_unlock without the second increment.
WriteUnlockQuietly(w) ==
  /\ irqOff = w
  /\ toWrite = {}
  /\ irqOff' = NoWriter
  /\ UNCHANGED <<shared, seq, input, toWrite, readerVars, during>>

\* seqlock_write_unlock.
WriteUnlock(w) ==
  /\ irqOff = w
  /\ toWrite = {}
  /\ Increment
  /\ irqOff' = NoWriter
  /\ UNCHANGED <<shared, input, toWrite, readerVars, during>>

---------------------------------------------------------------------------
\* snapshot_read.

ReadCall(r) ==
  /\ CanRun(r)
  /\ pc[r] = "idle"
  /\ pc' = [pc EXCEPT ![r] = "begin"]
  /\ UNCHANGED <<writerVars, copy, toCopy, begin, got, during>>

\* seqlock_read_begin.
ReadBegin(r) ==
  /\ CanRun(r)
  /\ pc[r] = "begin"
  /\ pc' = [pc EXCEPT ![r] = "copy"]
  /\ begin' = [begin EXCEPT ![r] = seq]
  /\ toCopy' = [toCopy EXCEPT ![r] = Words]
  /\ during' = [during EXCEPT ![r] = 0]
  /\ UNCHANGED <<writerVars, copy, got>>

\* *out = shared, one word of it.
CopyWord(r) ==
  /\ CanRun(r)
  /\ pc[r] = "copy"
  /\ \E x \in toCopy[r] :
       /\ copy' = [copy EXCEPT ![r][x] = shared[x]]
       /\ toCopy' = [toCopy EXCEPT ![r] = @ \ {x}]
       /\ pc' = [pc EXCEPT ![r] = IF toCopy[r] = {x} THEN "retry" ELSE "copy"]
  /\ UNCHANGED <<writerVars, begin, got, during>>

\* Defect: only a write in progress makes the copy worthless.
RetryIfOdd(r) == begin[r] % 2 # 0

\* Defect: any write at all, also one before the copy began.
RetryIfWritten(r) == begin[r] # 0 \/ begin[r] # seq

\* The condition of seqlock_read_retry.
Retry(r) == begin[r] % 2 # 0 \/ begin[r] # seq

ReadRetry(r) ==
  /\ CanRun(r)
  /\ pc[r] = "retry"
  /\ \/ /\ Retry(r)
        /\ pc' = [pc EXCEPT ![r] = "begin"]
        /\ UNCHANGED got
     \/ /\ ~Retry(r)
        /\ pc' = [pc EXCEPT ![r] = "idle"]
        /\ got' = [got EXCEPT ![r] = copy[r]]
  /\ UNCHANGED <<writerVars, copy, toCopy, begin, during>>

---------------------------------------------------------------------------

Publishing(w) == WriteWord(w) \/ WriteUnlock(w)
Reading(r) == ReadBegin(r) \/ CopyWord(r) \/ ReadRetry(r)

Next ==
  \/ \E w \in Writers : WriteLock(w) \/ Publishing(w)
  \/ \E r \in Readers : ReadCall(r) \/ Reading(r)

Spec == Init /\ [][Next]_snapshotVars

\* A publication that began ends, and a reader that is not kept from running
\* runs.  Nothing makes anybody publish or read.
Fairness ==
  /\ \A w \in Writers : WF_snapshotVars(Publishing(w))
  /\ \A r \in Readers : WF_snapshotVars(Reading(r))

FairSpec == Spec /\ Fairness

---------------------------------------------------------------------------
\* Properties.

\* A reader never returns a mixture of two publications: what it has at the
\* end is, word for word, what one call of snapshot_publish published.
ReadIsWhole == \A r \in Readers : \E s \in Snapshots : got[r] = Whole(s)

\* snapshot_publish and snapshot_read act as if each were one step: a read
\* that returns has the snapshot published last, not an earlier one.
Register ==
  INSTANCE SnapshotRegister
    WITH Snapshots <- {Whole(s) : s \in Snapshots},
         Idle <- Whole(Idle),
         register <- IF irqOff = NoWriter THEN shared ELSE Whole(input)

ImplementsRegister == Register!RegisterSpec

\* A copy is thrown away only because a publication came in between: on one
\* core the reader never samples the counter in the middle of a write.
RetryMeansPublished ==
  [][\A r \in Readers :
       pc[r] = "retry" /\ pc'[r] = "begin" => during[r] > 0]_snapshotVars

\* Once the player stops publishing, every read returns.
ReadReturns ==
  <>[][\A w \in Writers : ~WriteLock(w)]_snapshotVars
    => \A r \in Readers : []<>(pc[r] = "idle")

---------------------------------------------------------------------------
\* The inductive invariant behind the safety properties.

\* How far the counter is ahead of what r sampled, without the wrap.
Ahead(r) == 2 * during[r] - (IF irqOff = NoWriter THEN 0 ELSE 1)

\* The counter is odd exactly during a write, and it is ahead of a reader by
\* two for every publication that the reader has met.
SeqInv ==
  /\ seq % 2 = IF irqOff = NoWriter THEN 0 ELSE 1
  /\ \A r \in Readers :
       Copying(r) =>
         /\ begin[r] % 2 = 0
         /\ irqOff # NoWriter => during[r] > 0
         /\ seq \in {begin[r] + Ahead(r), begin[r] + Ahead(r) - SeqModulus}

\* The shared structure is whole but for the words still to be written, and a
\* reader that has met no publication has copied what is there.
CopyInv ==
  /\ \/ irqOff # NoWriter /\ \A x \in Words \ toWrite : shared[x] = input
     \/ irqOff = NoWriter /\ \E s \in Snapshots : shared = Whole(s)
  /\ \A r \in Readers :
       /\ Copying(r) /\ during[r] = 0
            => \A x \in Words \ toCopy[r] : copy[r][x] = shared[x]
       /\ pc[r] = "retry" => toCopy[r] = {}

IInv == TypeOK /\ SeqInv /\ CopyInv /\ ReadIsWhole
=============================================================================
