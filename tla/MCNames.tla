------------------------------ MODULE MCNames -------------------------------
(***************************************************************************)
(* A short name of one letter.                                             *)
(***************************************************************************)
EXTENDS Names

MCShortName == <<"S">>
=============================================================================
