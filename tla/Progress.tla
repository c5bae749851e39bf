------------------------------ MODULE Progress ------------------------------
(***************************************************************************)
(* src/snapshot.c: what the interface computes from its copy of the        *)
(* player's snapshot, frame by frame, while the clock runs and the player  *)
(* publishes.  The player is not written yet, so it may publish any        *)
(* snapshot at any time.                                                   *)
(*                                                                         *)
(* Integers keep their width: uint32_t is 0..(U32 - 1), uint64_t is        *)
(* 0..(U64 - 1) and uint16_t is 0..(U16 - 1), with U32 = 2^32 and          *)
(* U16 = 2^16 in the code; the bar has Scale units, 1000 in the code.      *)
(*                                                                         *)
(* A definition marked "Defect" is not part of the model: it is what the   *)
(* definition below it would be with a plausible mistake in the code.      *)
(***************************************************************************)
EXTENDS Integers

CONSTANTS
  U32,          \* 2^32: one more than the largest uint32_t
  U16,          \* 2^16, likewise
  Scale,        \* the units of the bar
  Bases,        \* the values of base_us the player publishes
  Totals,       \* the values of total_us the player publishes
  ClockMax      \* bound on the clock

U64 == U32 * U32

ASSUME ProgressAssumption ==
  /\ Scale \in Nat \ {0}
  /\ U16 \in Nat /\ Scale < U16
  /\ U32 \in Nat /\ U16 <= U32
  /\ Bases \subseteq 0..(U64 - 1)
  /\ Totals \subseteq 0..(U32 - 1)
  /\ ClockMax \in 0..(U64 - 1)

PlayerStates == {"STOPPED", "PLAYING", "PAUSED"}

Snapshot == [state : PlayerStates, base : Bases, total : Totals]

VARIABLES
  snap,         \* the interface's copy
  now           \* k_uptime, in microseconds

progressVars == <<snap, now>>

TypeOK == snap \in Snapshot /\ now \in 0..ClockMax

---------------------------------------------------------------------------
\* Defect: a base in the immediate future makes the subtraction wrap.
SinceWrapping(t, base) == (t - base) % U64

\* The subtraction on uint64_t, saturated at zero.
Since(t, base) == IF t > base THEN (t - base) % U64 ELSE 0

\* Defect: the elapsed time is not held back at the total.
ElapsedUnbounded(s, t) ==
  (IF s.state = "PLAYING" THEN Since(t, s.base) ELSE s.base) % U32

\* snapshot_elapsed_us.  Only in PLAYING is base an instant; in the other
\* states it is the elapsed time itself.
Elapsed(s, t) ==
  LET elapsed == IF s.state = "PLAYING" THEN Since(t, s.base) ELSE s.base
  IN  IF elapsed > s.total THEN s.total ELSE elapsed % U32

\* Defect: the product is computed in 32 bits.
PerTotal32(elapsed, total) == ((elapsed * Scale) % U32) \div total

\* The product in 64 bits, and the division.
PerTotal(elapsed, total) == ((elapsed * Scale) % U64) \div total

\* snapshot_progress_permille.
Permille(s, t) ==
  IF s.total = 0 THEN 0 ELSE PerTotal(Elapsed(s, t), s.total) % U16

---------------------------------------------------------------------------
Init ==
  /\ snap \in {s \in Snapshot : s.state = "STOPPED"}
  /\ now = 0

Tick ==
  /\ now < ClockMax
  /\ now' = now + 1
  /\ UNCHANGED snap

Publish ==
  /\ snap' \in Snapshot
  /\ UNCHANGED now

Next == Tick \/ Publish

Spec == Init /\ [][Next]_progressVars

---------------------------------------------------------------------------
\* Properties.

\* The bar never leaves its scale, and the elapsed time never passes the total,
\* whatever was published and whenever it is read.
BarWithinScale ==
  /\ Elapsed(snap, now) \in 0..snap.total
  /\ Permille(snap, now) \in 0..Scale

\* The bar is full exactly when the track is over.
FullAtTheEnd ==
  snap.total > 0 => (Permille(snap, now) = Scale <=> Elapsed(snap, now) = snap.total)

\* Until the player publishes again, the bar does not go back as the clock
\* runs, and stands still unless a track is playing.
BarMoves(t, u) ==
  /\ Permille(snap, t) <= Permille(snap, u)
  /\ snap.state # "PLAYING" => Elapsed(snap, t) = Elapsed(snap, u)

BarNeverGoesBack == [][UNCHANGED snap => BarMoves(now, now')]_progressVars
=============================================================================
