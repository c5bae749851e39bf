------------------------------ MODULE SdStack ------------------------------
(***************************************************************************)
(* What card.c stands on: the socket, the SD stack under disk_access, and  *)
(* Zephyr's mount list with the FatFs work object behind fs_mount and      *)
(* fs_unmount.  The socket and the disk follow tests/common/fake_disk.c,   *)
(* the double the repository's tests use; the mount list is external and   *)
(* is modelled from what card.c and its comments rely on.                  *)
(***************************************************************************)

CONSTANTS
  Cards,      \* the cards a person may put into the socket
  Legible,    \* those whose volume can be mounted
  NoCard      \* the empty socket, and "none" for sd and vol

ASSUME CardsAssumption ==
  /\ NoCard \notin Cards
  /\ Legible \subseteq Cards

VARIABLES
  slot,       \* the card in the socket
  sd,         \* the card the SD stack has initialised and believes ready
  mnt,        \* is card_mount linked in the mount list?
  vol,        \* the card whose volume the FatFs work object describes
  fresh       \* history: nobody has tried to mount this insertion yet

sdVars == <<slot, sd, mnt, vol, fresh>>

SdTypeOK ==
  /\ slot \in Cards \union {NoCard}
  /\ sd \in Cards \union {NoCard}
  /\ mnt \in BOOLEAN
  /\ vol \in Cards \union {NoCard}
  /\ fresh \in BOOLEAN

SdInit ==
  /\ slot \in Cards \union {NoCard}
  /\ sd = NoCard
  /\ mnt = FALSE
  /\ vol = NoCard
  /\ fresh = (slot # NoCard)

---------------------------------------------------------------------------
\* A person at the socket.

Insert(c) ==
  /\ slot = NoCard
  /\ slot' = c
  /\ fresh' = TRUE
  /\ UNCHANGED <<sd, mnt, vol>>

Remove ==
  /\ slot # NoCard
  /\ slot' = NoCard
  /\ fresh' = FALSE
  /\ UNCHANGED <<sd, mnt, vol>>

---------------------------------------------------------------------------
\* The calls of card.c, each with the result the caller sees.

\* disk_access_status without DISK_STATUS_NOMEDIA (and without an error).
Occupied == slot # NoCard

\* fs_mount refuses a mount point that is still in the list.
FsMountBusy ==
  /\ mnt
  /\ UNCHANGED sdVars

\* fs_mount that succeeds.  It initialises the card only when the stack does
\* not already believe one ready, and then reads the volume of the card that
\* is in the socket: that card must be the one the stack initialised.
FsMountOk ==
  /\ ~mnt
  /\ slot \in Legible
  /\ sd \in {NoCard, slot}
  /\ sd' = slot
  /\ mnt' = TRUE
  /\ vol' = slot
  /\ fresh' = FALSE
  /\ UNCHANGED slot

\* fs_mount that fails, which a legible card may also do.  An initialisation
\* that went through before the failure is not undone.
FsMountFail ==
  /\ ~mnt
  /\ sd' = sd \/ (sd = NoCard /\ sd' = slot)
  /\ fresh' = FALSE
  /\ UNCHANGED <<slot, mnt, vol>>

\* fs_unmount that completes: the volume is gone, the disk deinitialised and
\* the mount point out of the list.
FsUnmountOk ==
  /\ mnt
  /\ mnt' = FALSE
  /\ vol' = NoCard
  /\ sd' = NoCard
  /\ UNCHANGED <<slot, fresh>>

\* fs_unmount that fails: not mounted at all, or the layer below did not
\* complete, and then the mount point stays in the list.  The work object may
\* be cleared and the disk deinitialised all the same.
FsUnmountFail ==
  /\ \/ UNCHANGED <<sd, vol>>
     \/ mnt /\ sd' \in {sd, NoCard} /\ vol' = NoCard
  /\ UNCHANGED <<slot, mnt, fresh>>

\* DISK_IOCTL_CTRL_DEINIT, forced: the disk forgets the card whatever happens.
DeinitForced ==
  /\ sd' = NoCard
  /\ UNCHANGED <<slot, mnt, vol, fresh>>
=============================================================================
