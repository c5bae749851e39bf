----------------------------- MODULE StorageApi -----------------------------
(***************************************************************************)
(* What include/vitrolinha/storage.h fixes for storage.c and for           *)
(* storage_fake.c alike.                                                   *)
(***************************************************************************)
EXTENDS Integers

CONSTANT LibraryMax   \* LIBRARY_MAX

\* Errors are negative and distinct.
EINVAL == -22
ENODEV == -19
EIO == -5
ENOENT == -2
EFBIG == -27
ENOTSUP == -134

Smaller(m, n) == IF m < n THEN m ELSE n

\* Values above LIBRARY_MAX are treated as LIBRARY_MAX.
Ceiling(max) == Smaller(max, LibraryMax)
=============================================================================
