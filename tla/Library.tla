------------------------------ MODULE Library -------------------------------
(***************************************************************************)
(* What include/vitrolinha/storage.h promises of the library: whoever      *)
(* looks finds either nothing or the whole of what one scan of one card    *)
(* found, in the order of its directory.  Never the half of a scan that    *)
(* failed, and never the files of two cards.                               *)
(***************************************************************************)
CONSTANT Libraries    \* what a scan that reaches the end may find

VARIABLE library      \* the file names, in order; the empty one is <<>>

LibraryInit == library = <<>>

\* A scan begins, or failed: the indices of the library before are gone.
Forget == library' = <<>>

\* A scan reached the end of the directory.
Fill ==
  /\ library = <<>>
  /\ library' \in Libraries

LibraryNext == Forget \/ Fill

LibrarySpec == LibraryInit /\ [][LibraryNext]_library
=============================================================================
