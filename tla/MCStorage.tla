----------------------------- MODULE MCStorage ------------------------------
(***************************************************************************)
(* Two cards: one with more tracks than there is room for, among what is   *)
(* not a track, and one with a single track.                               *)
(***************************************************************************)
EXTENDS Storage

CONSTANTS left, right

Track(n) ==
  [name |-> n, kind |-> "file", hidden |-> FALSE, ext |-> "TXT",
   header |-> "named", big |-> FALSE]

MCRoot ==
  [c \in {left, right} |->
     IF c = left
       THEN <<Track("A"), [Track("_A") EXCEPT !.hidden = TRUE, !.header = "none"],
              [Track("B") EXCEPT !.header = "none"], [Track("DIR") EXCEPT !.kind = "dir"],
              [Track("C") EXCEPT !.header = "blank", !.ext = "RTX"],
              [Track("E") EXCEPT !.ext = "CSV"]>>
       ELSE <<[Track("P") EXCEPT !.big = TRUE, !.ext = "RTT"], Track("Q")>>]

MCTracks == -1..2
=============================================================================
