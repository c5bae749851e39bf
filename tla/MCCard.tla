------------------------------- MODULE MCCard -------------------------------
(***************************************************************************)
(* Values for the constants of Card.                                       *)
(***************************************************************************)
EXTENDS Card

CONSTANTS main, other, mon

\* The priorities of prj.conf and CARD_MONITOR_PRIORITY: main above the monitor.
MCPrio == [t \in Threads |-> IF t = mon THEN 12 ELSE 0]
=============================================================================
