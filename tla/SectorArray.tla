---------------------------- MODULE SectorArray -----------------------------
(***************************************************************************)
(* What a disk promises FatFs, whatever it keeps its sectors in: a sector  *)
(* reads as it was last written, and as zero if it never was.  The card of *)
(* the bench has memory for a few sectors only; it may refuse one, but not *)
(* before that many others have been written, and what it refuses it       *)
(* leaves as it was.                                                       *)
(***************************************************************************)
EXTENDS Integers, FiniteSets

CONSTANTS
  SectorCount,  \* SECTOR_COUNT
  MaxPages,     \* MAX_PAGES
  Contents,     \* what a sector may hold
  Zero          \* what a sector holds that was never written

VARIABLES
  card,         \* what each sector holds
  written,      \* the sectors that were ever written
  got           \* what the last access to a sector gave back

Sectors == 0..(SectorCount - 1)

\* Neither of these is a content.
Nothing == <<"nothing">>
NoSpace == <<"ENOSPC">>

ArrayInit ==
  /\ card = [s \in Sectors |-> Zero]
  /\ written = {}
  /\ got = Nothing

Get(s) ==
  /\ got' = card[s]
  /\ UNCHANGED <<card, written>>

Put(s, c) ==
  /\ card' = [card EXCEPT ![s] = c]
  /\ written' = written \union {s}
  /\ got' = Nothing

Refuse(s) ==
  /\ s \notin written
  /\ Cardinality(written) = MaxPages
  /\ got' = NoSpace
  /\ UNCHANGED <<card, written>>

ArrayNext ==
  \E s \in Sectors : Get(s) \/ Refuse(s) \/ \E c \in Contents : Put(s, c)

ArraySpec == ArrayInit /\ [][ArrayNext]_<<card, written, got>>
=============================================================================
