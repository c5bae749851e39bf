------------------------------- MODULE MCCmd -------------------------------
(***************************************************************************)
(* Values for the constants of Cmd: the two kinds that cmd.c tells apart,  *)
(* and tracks at the edges of the library.                                 *)
(***************************************************************************)
EXTENDS Cmd

CONSTANTS skip, select, unknown, input, isr

MCTracks == {-1, 0, LibraryMax - 1, LibraryMax}
=============================================================================
