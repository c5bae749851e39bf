-------------------------- MODULE SnapshotRegister --------------------------
(***************************************************************************)
(* What include/vitrolinha/snapshot.h promises: a register that is written *)
(* and read as a whole, in one step.                                       *)
(***************************************************************************)

CONSTANTS
  Snapshots,  \* the values of struct player_snapshot
  Idle,       \* SNAPSHOT_IDLE_INITIALIZER
  Readers

VARIABLES
  register,   \* the snapshot published last
  got         \* got[r]: what the last snapshot_read of r left in *out

registerVars == <<register, got>>

RegisterInit ==
  /\ register = Idle
  /\ got = [r \in Readers |-> Idle]

\* snapshot_publish.
Write ==
  /\ register' \in Snapshots
  /\ UNCHANGED got

\* snapshot_read: the snapshot is the one published last.
Read(r) ==
  /\ got' = [got EXCEPT ![r] = register]
  /\ UNCHANGED register

RegisterSpec ==
  RegisterInit /\ [][Write \/ \E r \in Readers : Read(r)]_registerVars
=============================================================================
