---------------------------- MODULE StorageFake -----------------------------
(***************************************************************************)
(* src/storage_fake.c: the library of the simulator, some tracks in the    *)
(* binary behind two flags that stand for the card.  There is no table of  *)
(* what was scanned: every track can be loaded at any time.                *)
(***************************************************************************)
EXTENDS StorageApi, Sequences

CONSTANT FakeTracks   \* the lengths of fake_tracks, in order

VARIABLES
  fake_present,   \* is there a card?
  fake_failing,   \* does it not answer?
  fake_result,    \* what the last call returned
  fake_skipped    \* the caller's *skipped of the last scan

fakeVars == <<fake_present, fake_failing, fake_result, fake_skipped>>

FakeReset == fake_present' = TRUE /\ fake_failing' = FALSE

FakeInit ==
  /\ fake_present = TRUE /\ fake_failing = FALSE
  /\ fake_result = 0 /\ fake_skipped = 0

\* storage_fake_set_present, storage_fake_set_failing and storage_fake_reset.
FakeKnobs ==
  /\ \/ fake_present' \in BOOLEAN /\ UNCHANGED fake_failing
     \/ fake_failing' \in BOOLEAN /\ UNCHANGED fake_present
     \/ FakeReset
  /\ UNCHANGED <<fake_result, fake_skipped>>

\* fake_card_status: "no card" before "a card that does not answer".
Status ==
  IF ~fake_present THEN ENODEV ELSE IF fake_failing THEN EIO ELSE 0

\* What a scan lists.
Count(max) == Smaller(Ceiling(max), Len(FakeTracks))

FakeScan(max) ==
  /\ LET works == max > 0 /\ Status = 0
     IN  /\ fake_result' = IF max = 0 THEN EINVAL ELSE IF works THEN Count(max) ELSE Status
         /\ fake_skipped' = IF works THEN Len(FakeTracks) - Count(max) ELSE 0
  /\ UNCHANGED <<fake_present, fake_failing>>

\* A track larger than the room for it is refused, not cut.
FakeLoad(track, len) ==
  /\ fake_result' =
       IF len = 0 THEN EINVAL
       ELSE IF Status # 0 THEN Status
       ELSE IF track \notin 0..(Len(FakeTracks) - 1) THEN ENOENT
       ELSE IF FakeTracks[track + 1] > len THEN EFBIG
       ELSE FakeTracks[track + 1]
  /\ UNCHANGED <<fake_present, fake_failing, fake_skipped>>
=============================================================================
