------------------------------- MODULE MCBoot -------------------------------
(***************************************************************************)
(* The firmware of the board with two cards that come and go, and that of  *)
(* the simulator with its two tracks.                                       *)
(***************************************************************************)
EXTENDS Boot

CONSTANTS left, right

File(n, kind) ==
  [name |-> n, kind |-> kind, hidden |-> FALSE, ext |-> "TXT",
   header |-> "named", big |-> FALSE]

MCRoot ==
  [c \in {left, right} |->
     IF c = left
       THEN <<File("A", "file"), File("DIR", "dir"), File("B", "file"), File("C", "file")>>
       ELSE <<File("P", "file")>>]

MCFakeTracks == <<3, 4>>
=============================================================================
