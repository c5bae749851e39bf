------------------------------ MODULE MCBench -------------------------------
(***************************************************************************)
(* A card of six sectors on a table of three places, of which sectors 2 and *)
(* 5 share the last place as their home, so that one of them goes round the *)
(* end, and two pages, so that a write of 4 and 5 may stop between them;    *)
(* two tracks, written in pieces of up to two bytes; a trace of two reads,  *)
(* which a cold load of three does not fit; and a budget that a single read *)
(* of two sectors keeps and two of them miss on the bus alone.              *)
(***************************************************************************)
EXTENDS Bench

MCTransfers ==
  {[start |-> 2, count |-> 1], [start |-> 5, count |-> 1], [start |-> 4, count |-> 2]}

MCAccesses ==
  [p \in SetupSteps \union Measured |->
     IF p = "cold" THEN 3
     ELSE IF p = "load" THEN 2
     ELSE IF p \in {"mkfs", "open", "header"} THEN 1
     ELSE 0]
=============================================================================
