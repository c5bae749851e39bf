----------------------------- MODULE MCSnapshot -----------------------------
(***************************************************************************)
(* Values for the constants of Snapshot.                                   *)
(***************************************************************************)
EXTENDS Snapshot

CONSTANTS idle, playing, player, timer, ui, log
=============================================================================
