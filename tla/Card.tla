-------------------------------- MODULE Card --------------------------------
(***************************************************************************)
(* src/card.c: the volume of the SD card, the monitor thread that watches  *)
(* the socket, and the loan of the volume to whoever reads it.             *)
(*                                                                         *)
(* Every thread runs the calls of card.h step by step; a step is a call    *)
(* that may block or be preempted, or a read or write of shared state.     *)
(* pc[t] names the call thread t is about to make.  Threads interleave     *)
(* freely, which covers every priority and every blocking I/O.             *)
(*                                                                         *)
(* A definition marked "Defect" is not part of the model: it is what the   *)
(* definition below it would be with a plausible mistake in the code, and  *)
(* is there to see that the properties can fail.                           *)
(***************************************************************************)
EXTENDS KMutex, SdStack

CONSTANTS
  Monitor,      \* the thread card_init creates
  Refreshers,   \* application threads that call card_refresh
  Borrowers,    \* application threads that call card_acquire
  Initialisers, \* application threads that call card_init
  ObserverArgs, \* what card_observe may be called with: TRUE is a function
  MaxLoans,     \* bound on the loans one thread nests
  HandSwap      \* may a card be swapped before the removal has been seen?

Apps == Refreshers \union Borrowers \union Initialisers

ASSUME CardAssumption ==
  /\ Monitor \notin Apps
  /\ Threads = Apps \union {Monitor}
  /\ ObserverArgs \subseteq BOOLEAN
  /\ MaxLoans \in Nat \ {0}
  /\ HandSwap \in BOOLEAN

VARIABLES
  state,      \* card_state_now
  mounted,    \* card_mounted
  started,    \* card_started
  observer,   \* card_observer: TRUE when it is not NULL
  pc,         \* where each thread is
  back,       \* where each thread goes after card_refresh returns
  next,       \* the local `next` of card_refresh
  changed,    \* the local `changed` of card_refresh
  told        \* history: what the observer believes the state to be

moduleVars == <<state, mounted, started, observer>>
localVars == <<pc, back, next, changed>>
history == <<told>>
cardVars == <<mutexVars, sdVars, moduleVars, localVars, history>>

States == {"ABSENT", "READY", "UNREADABLE"}

\* Inside card_refresh with the mutex held.
Evaluating == {"status", "force_unmount", "release_disk", "mount",
               "unmount_stale", "remount", "publish", "unlock"}

\* Every place where the mutex is held: evaluating, or in card_acquire past
\* the lock, or with the volume on loan.
Holding == Evaluating \union {"check", "lent"}

\* About to use the FatFs work object or the mount point, or using them.
UsingVolume == {"force_unmount", "mount", "unmount_stale", "remount", "lent"}

Resting == {"idle", "sleep", "none"}

Places == Holding \union Resting
            \union {"lock", "observe", "notify", "acquire", "mark", "spawn"}

TypeOK ==
  /\ MutexTypeOK
  /\ SdTypeOK
  /\ state \in States
  /\ mounted \in BOOLEAN
  /\ started \in BOOLEAN
  /\ observer \in BOOLEAN
  /\ pc \in [Threads -> Places]
  /\ back \in [Threads -> {"idle", "sleep", "spawn"}]
  /\ next \in [Threads -> States]
  /\ changed \in [Threads -> BOOLEAN]
  /\ told \in States

Init ==
  /\ MutexInit
  /\ SdInit
  /\ state = "ABSENT"
  /\ mounted = FALSE
  /\ started = FALSE
  /\ observer = FALSE
  /\ pc = [t \in Threads |-> IF t = Monitor THEN "none" ELSE "idle"]
  /\ back = [t \in Threads |-> IF t = Monitor THEN "sleep" ELSE "idle"]
  /\ next = [t \in Threads |-> "ABSENT"]
  /\ changed = [t \in Threads |-> FALSE]
  /\ told = "ABSENT"

At(t, p) == pc[t] = p
Goto(t, p) == pc' = [pc EXCEPT ![t] = p]

---------------------------------------------------------------------------
\* The socket.  Without HandSwap a new card arrives only after the removal
\* of the previous one has been seen, which is what a socket that stays empty
\* for longer than CARD_POLL_INTERVAL_MS amounts to.

Settled == HandSwap \/ (state = "ABSENT" /\ owner = NoThread)

Hand ==
  /\ \/ Settled /\ \E c \in Cards : Insert(c)
     \/ Remove
  /\ UNCHANGED <<mutexVars, moduleVars, localVars, history>>

---------------------------------------------------------------------------
\* card_refresh.

RefreshCall(t) ==
  /\ t \in Refreshers
  /\ At(t, "idle")
  /\ Goto(t, "lock")
  /\ UNCHANGED <<mutexVars, sdVars, moduleVars, back, next, changed, history>>

\* k_mutex_lock(&card_lock, K_FOREVER), on the way into card_refresh or into
\* card_acquire.
Lock(t) ==
  /\ \/ /\ At(t, "lock")
        /\ MutexTake(t)
        /\ Goto(t, "status")
     \/ /\ At(t, "acquire")
        /\ MutexTake(t)
        /\ Goto(t, "check")
     \/ /\ pc[t] \in {"lock", "acquire"}
        /\ MutexPend(t)
        /\ UNCHANGED pc
  /\ UNCHANGED <<sdVars, moduleVars, back, next, changed, history>>

\* The state card_refresh is going to publish, and where it goes.
Conclude(t, s) ==
  /\ next' = [next EXCEPT ![t] = s]
  /\ Goto(t, "publish")

\* Defect: a volume that did not mount is tried again at every poll.
GaveUpNever == FALSE

\* A card that did not mount is not tried again before it leaves.
GaveUp == state = "UNREADABLE"

\* card_slot_occupied and the branch it selects.
ReadSlot(t) ==
  /\ At(t, "status")
  /\ \/ /\ ~Occupied /\ mounted
        /\ Goto(t, "force_unmount")
        /\ UNCHANGED next
     \/ /\ ~Occupied /\ ~mounted /\ state # "ABSENT"
        /\ Goto(t, "release_disk")
        /\ UNCHANGED next
     \/ /\ ~Occupied /\ ~mounted /\ state = "ABSENT"
        /\ Conclude(t, "ABSENT")
     \/ /\ Occupied /\ mounted
        /\ Conclude(t, "READY")
     \/ /\ Occupied /\ ~mounted /\ GaveUp
        /\ Conclude(t, "UNREADABLE")
     \/ /\ Occupied /\ ~mounted /\ ~GaveUp
        /\ Goto(t, "mount")
        /\ UNCHANGED next
  /\ UNCHANGED <<mutexVars, sdVars, moduleVars, back, changed, history>>

\* Defect: card_mounted is cleared only when fs_unmount succeeds.
ForceUnmountIfOk(t) ==
  /\ At(t, "force_unmount")
  /\ \/ FsUnmountOk /\ mounted' = FALSE
     \/ FsUnmountFail /\ UNCHANGED mounted
  /\ Conclude(t, "ABSENT")
  /\ UNCHANGED <<mutexVars, state, started, observer, back, changed, history>>

\* card_force_unmount: counted as done even when it fails.
ForceUnmount(t) ==
  /\ At(t, "force_unmount")
  /\ FsUnmountOk \/ FsUnmountFail
  /\ mounted' = FALSE
  /\ Conclude(t, "ABSENT")
  /\ UNCHANGED <<mutexVars, state, started, observer, back, changed, history>>

\* Defect: the disk of a card that did not mount is left initialised.
ReleaseNothing(t) ==
  /\ At(t, "release_disk")
  /\ UNCHANGED sdVars
  /\ Conclude(t, "ABSENT")
  /\ UNCHANGED <<mutexVars, moduleVars, back, changed, history>>

\* card_release_disk.
ReleaseDisk(t) ==
  /\ At(t, "release_disk")
  /\ DeinitForced
  /\ Conclude(t, "ABSENT")
  /\ UNCHANGED <<mutexVars, moduleVars, back, changed, history>>

\* The outcome of an fs_mount that was not refused with -EBUSY.
Mounted(t) ==
  /\ FsMountOk
  /\ mounted' = TRUE
  /\ Conclude(t, "READY")

NotMounted(t) ==
  /\ FsMountFail
  /\ UNCHANGED mounted
  /\ Conclude(t, "UNREADABLE")

\* card_try_mount, the first fs_mount: -EBUSY is a leftover to undo.
FindStale(t) ==
  /\ FsMountBusy
  /\ Goto(t, "unmount_stale")
  /\ UNCHANGED <<mounted, next>>

TryMount(t) ==
  /\ At(t, "mount")
  /\ Mounted(t) \/ NotMounted(t) \/ FindStale(t)
  /\ UNCHANGED <<mutexVars, state, started, observer, back, changed, history>>

\* card_try_mount after -EBUSY: the unmount whose result is ignored...
UnmountStale(t) ==
  /\ At(t, "unmount_stale")
  /\ FsUnmountOk \/ FsUnmountFail
  /\ Goto(t, "remount")
  /\ UNCHANGED <<mutexVars, moduleVars, back, next, changed, history>>

\* ... and the second fs_mount, whose -EBUSY is an error like any other.
StillStale(t) ==
  /\ FsMountBusy
  /\ UNCHANGED mounted
  /\ Conclude(t, "UNREADABLE")

Remount(t) ==
  /\ At(t, "remount")
  /\ Mounted(t) \/ NotMounted(t) \/ StillStale(t)
  /\ UNCHANGED <<mutexVars, state, started, observer, back, changed, history>>

\* Defect: a removal does not count as a change.
PublishSilently(t) ==
  /\ At(t, "publish")
  /\ state' = next[t]
  /\ changed' = [changed EXCEPT ![t] = next[t] \notin {state, "ABSENT"}]
  /\ Goto(t, "unlock")
  /\ UNCHANGED <<mutexVars, sdVars, mounted, started, observer, back, next, history>>

\* publish: exchange the state and remember whether it changed.
Publish(t) ==
  /\ At(t, "publish")
  /\ state' = next[t]
  /\ changed' = [changed EXCEPT ![t] = state # next[t]]
  /\ Goto(t, "unlock")
  /\ UNCHANGED <<mutexVars, sdVars, mounted, started, observer, back, next, history>>

Unlock(t) ==
  /\ At(t, "unlock")
  /\ MutexRelease(t)
  /\ Goto(t, "observe")
  /\ UNCHANGED <<sdVars, moduleVars, back, next, changed, history>>

\* card_refresh returns; its locals die with it.
Return(t) ==
  /\ Goto(t, back[t])
  /\ next' = [next EXCEPT ![t] = "ABSENT"]
  /\ changed' = [changed EXCEPT ![t] = FALSE]

\* The observer is read after the unlock, and called later still.
ReadObserver(t) ==
  /\ At(t, "observe")
  /\ IF changed[t] /\ observer
       THEN Goto(t, "notify") /\ UNCHANGED <<next, changed>>
       ELSE Return(t)
  /\ UNCHANGED <<mutexVars, sdVars, moduleVars, back, history>>

Notify(t) ==
  /\ At(t, "notify")
  /\ told' = next[t]
  /\ Return(t)
  /\ UNCHANGED <<mutexVars, sdVars, moduleVars, back>>

---------------------------------------------------------------------------
\* card_observe.  Whoever registers reads card_get_state too: `told` starts
\* from there.

Observe(o) ==
  /\ observer' = o
  /\ told' = IF o THEN state ELSE told
  /\ UNCHANGED <<mutexVars, sdVars, state, mounted, started, localVars>>

---------------------------------------------------------------------------
\* card_init: the test and the set of card_started are two steps.

InitCall(t) ==
  /\ t \in Initialisers
  /\ At(t, "idle")
  /\ Goto(t, IF started THEN "idle" ELSE "mark")
  /\ UNCHANGED <<mutexVars, sdVars, moduleVars, back, next, changed, history>>

MarkStarted(t) ==
  /\ At(t, "mark")
  /\ started' = TRUE
  /\ back' = [back EXCEPT ![t] = "spawn"]
  /\ Goto(t, "lock")
  /\ UNCHANGED <<mutexVars, sdVars, state, mounted, observer, next, changed, history>>

Spawn(t) ==
  /\ At(t, "spawn")
  /\ back' = [back EXCEPT ![t] = "idle"]
  /\ pc' = [pc EXCEPT ![t] = "idle", ![Monitor] = "sleep"]
  /\ UNCHANGED <<mutexVars, sdVars, moduleVars, next, changed, history>>

\* Defect: the monitor stops polling once there is a volume.
WakeUntilReady ==
  /\ At(Monitor, "sleep")
  /\ ~mounted
  /\ Goto(Monitor, "lock")
  /\ UNCHANGED <<mutexVars, sdVars, moduleVars, back, next, changed, history>>

\* card_monitor: k_sleep elapses and the next evaluation begins.
Wake ==
  /\ At(Monitor, "sleep")
  /\ Goto(Monitor, "lock")
  /\ UNCHANGED <<mutexVars, sdVars, moduleVars, back, next, changed, history>>

---------------------------------------------------------------------------
\* card_acquire and card_release.

AcquireCall(t) ==
  /\ t \in Borrowers
  /\ At(t, "idle")
  /\ Goto(t, "acquire")
  /\ UNCHANGED <<mutexVars, sdVars, moduleVars, back, next, changed, history>>

\* Defect: the mutex is given back before the volume is used.
CheckUnlocks(t) ==
  /\ At(t, "check")
  /\ MutexRelease(t)
  /\ Goto(t, IF state = "READY" THEN "lent" ELSE "idle")
  /\ UNCHANGED <<sdVars, moduleVars, back, next, changed, history>>

\* Defect: an unreadable card is lent too.
CheckPresence(t) ==
  /\ At(t, "check")
  /\ \/ state # "ABSENT" /\ Goto(t, "lent") /\ UNCHANGED mutexVars
     \/ state = "ABSENT" /\ Goto(t, "idle") /\ MutexRelease(t)
  /\ UNCHANGED <<sdVars, moduleVars, back, next, changed, history>>

\* Defect: the error paths return with the mutex taken.
CheckKeepsMutex(t) ==
  /\ At(t, "check")
  /\ Goto(t, IF state = "READY" THEN "lent" ELSE "idle")
  /\ UNCHANGED <<mutexVars, sdVars, moduleVars, back, next, changed, history>>

\* The state is read under the mutex: READY lends the volume and keeps the
\* mutex, the other states are -ENODEV and -EIO and give it back.
Check(t) ==
  /\ At(t, "check")
  /\ \/ state = "READY" /\ Goto(t, "lent") /\ UNCHANGED mutexVars
     \/ state # "READY" /\ Goto(t, "idle") /\ MutexRelease(t)
  /\ UNCHANGED <<sdVars, moduleVars, back, next, changed, history>>

\* card_acquire by a thread that already has the volume: the mutex is
\* recursive and the state is still READY.
AcquireAgain(t) ==
  /\ At(t, "lent")
  /\ depth < MaxLoans
  /\ state = "READY"
  /\ MutexRelock(t)
  /\ UNCHANGED <<sdVars, moduleVars, localVars, history>>

Release(t) ==
  /\ At(t, "lent")
  /\ \/ MutexUnnest(t) /\ UNCHANGED pc
     \/ MutexRelease(t) /\ Goto(t, "idle")
  /\ UNCHANGED <<sdVars, moduleVars, back, next, changed, history>>

---------------------------------------------------------------------------

\* What a thread does once a call has begun.
InCall(t) ==
  \/ Lock(t) \/ ReadSlot(t) \/ ForceUnmount(t) \/ ReleaseDisk(t)
  \/ TryMount(t) \/ UnmountStale(t) \/ Remount(t)
  \/ Publish(t) \/ Unlock(t) \/ ReadObserver(t) \/ Notify(t)
  \/ MarkStarted(t) \/ Spawn(t)
  \/ Check(t)

\* What the application chooses to do.
Call(t) == RefreshCall(t) \/ InitCall(t) \/ AcquireCall(t) \/ AcquireAgain(t)

Next ==
  \/ Hand
  \/ \E t \in Threads : InCall(t) \/ Call(t) \/ Release(t)
  \/ Wake
  \/ \E o \in ObserverArgs : Observe(o)

Spec == Init /\ [][Next]_cardVars

\* A thread inside a call keeps running, k_sleep elapses, and who borrowed the
\* volume gives it back.  Nothing makes anybody call, and nothing moves the
\* card.
Fairness ==
  /\ \A t \in Threads : WF_cardVars(InCall(t)) /\ WF_cardVars(Release(t))
  /\ WF_cardVars(Wake)

FairSpec == Spec /\ Fairness

---------------------------------------------------------------------------
\* Properties.

\* card_init is called from one thread, as main.c does.
OneInitialiser == \A i, j \in Initialisers : i = j

\* FatFs runs without reentrance (ADR 0009): never are two threads at once
\* between fs_mount, fs_unmount and the use of a borrowed volume.
VolumeExclusive ==
  \A t, u \in Threads :
    pc[t] \in UsingVolume /\ pc[u] \in UsingVolume => t = u

\* As long as a thread has the volume borrowed, nobody unmounts it, whatever
\* happens in the socket (card_acquire and the lock of card_refresh).
LoanKeepsVolume ==
  [][\A t \in Threads : At(t, "lent") /\ pc'[t] = "lent"
        => UNCHANGED <<state, mounted, mnt, vol>>]_cardVars

\* Outside an evaluation the published state tells the truth about the volume:
\* READY exactly when card_mounted, and then the mount point is in the list and
\* the work object describes a card, although card_force_unmount ignores the
\* errors of fs_unmount.
StateMatchesVolume ==
  (\A t \in Threads : pc[t] \notin Evaluating)
    => /\ state = "READY" <=> mounted
       /\ mounted => mnt /\ vol # NoCard

\* No card left initialised by an earlier attempt is there when fs_mount
\* reaches the disk: FatFs would skip the initialisation of the new card
\* (card_release_disk).
DiskResetBeforeMount ==
  \A t \in Threads : pc[t] \in {"mount", "remount"} /\ ~mnt => sd = NoCard

\* A card is tried once per insertion (ADR 0007): when fs_mount is about to
\* reach the disk, nobody has tried the card that is in the socket.
OneAttemptPerInsertion ==
  \A t \in Threads :
    pc[t] \in {"mount", "remount"} /\ ~mnt /\ Occupied => fresh

\* card_init never creates the monitor over a monitor that exists.
OneMonitor == \A t \in Threads : At(t, "spawn") => At(Monitor, "none")

\* With the observer registered and no transition on its way to it, the last
\* state it was told is the state (publish, then the call after the unlock).
ObserverInStep ==
  observer /\ (\A t \in Threads : pc[t] \notin {"unlock", "observe", "notify"})
    => told = state

\* What is on loan is the volume of the card in the socket, or of a card that
\* has just left it: never of a card that another one has replaced.
LoanIsOfTheCard == \A t \in Threads : At(t, "lent") => slot \in {vol, NoCard}

\* Everything card.h promises: see CardContract.
Contract ==
  INSTANCE CardContract
    WITH loans <- [t \in Threads |-> IF At(t, "lent") THEN depth ELSE 0]

ImplementsContract == Contract!ContractSpec

\* A card that leaves the socket for good is seen, also by a monitor that had
\* to wait for a loan to end.
RemovalIsSeen ==
  <>(pc[Monitor] # "none") /\ <>[](slot = NoCard) => <>[](state = "ABSENT")

\* A card that is put in is tried, once the monitor runs, unless it leaves or
\* the mount point of the card before it refuses to leave the list.
NewCardIsTried ==
  fresh /\ pc[Monitor] # "none" ~> ~fresh \/ (mnt /\ ~mounted)

\* Every call comes back: nobody waits for ever for card_lock.
CallsReturn == \A t \in Threads : pc[t] \notin Resting ~> pc[t] \in Resting

---------------------------------------------------------------------------
\* The inductive invariant behind the safety properties.

\* Who holds the mutex is where the code holds it, and nobody waits for a free
\* mutex.
LockInv ==
  /\ \A t \in Threads : pc[t] \in Holding => owner = t
  /\ \A t \in Threads : owner = t => pc[t] \in Holding \union {"lock", "acquire"}
  /\ owner = NoThread => depth = 0 /\ waiters = {}
  /\ owner # NoThread => depth > 0
  /\ \A t \in Threads : owner = t /\ pc[t] # "lent" => depth = 1
  /\ \A t \in waiters : owner # t /\ pc[t] \in {"lock", "acquire"}

\* The monitor is created once, and only it sleeps.
MonitorInv ==
  /\ ~started => At(Monitor, "none")
  /\ pc[Monitor] \notin {"idle", "mark", "spawn", "acquire", "check", "lent"}
  /\ back[Monitor] = "sleep"
  /\ \A t \in Apps :
       /\ pc[t] \notin {"sleep", "none"}
       /\ back[t] # "sleep"
       /\ At(t, "mark") => t \in Initialisers /\ ~started
       /\ At(t, "spawn") => back[t] = "spawn"
       /\ back[t] = "spawn" => t \in Initialisers /\ started /\ At(Monitor, "none")

\* What a published state s says of the volume, of the disk and of the card.
Coherent(s) ==
  /\ s = "READY" <=> mounted
  /\ s = "ABSENT" /\ ~mnt => sd = NoCard
  /\ s = "ABSENT" /\ Occupied => fresh

VolumeInv ==
  /\ mounted => mnt /\ vol # NoCard
  /\ (\A t \in Threads : ~At(t, "publish")) => Coherent(state)
  /\ \A t \in Threads :
       /\ At(t, "force_unmount") => mounted /\ (Occupied => fresh)
       /\ At(t, "release_disk") => state = "UNREADABLE" /\ (Occupied => fresh)
       /\ pc[t] \in {"mount", "unmount_stale", "remount"} => state = "ABSENT"
       /\ At(t, "publish") =>
            /\ Coherent(next[t])
            /\ state \in {next[t], "ABSENT"} \/ next[t] = "ABSENT"

\* The conjunction that every step preserves.
IInv == TypeOK /\ LockInv /\ MonitorInv /\ VolumeInv
=============================================================================
