----------------------------- MODULE MCProgress -----------------------------
(***************************************************************************)
(* Values for the constants of Progress: uint32_t of six bits, a bar of    *)
(* ten units, bases and totals at the edges of their types.                *)
(***************************************************************************)
EXTENDS Progress

MCBases == {0, 1, 5, 30, 62, 63, 64, 100, 4094, 4095}
MCTotals == {0, 1, 2, 7, 11, 40, 62, 63}
=============================================================================
