----------------------------- MODULE CardProofs -----------------------------
(***************************************************************************)
(* Proofs about Card: its inductive invariant, the safety properties that  *)
(* follow from it, and that the threads, the mutex and the mount list keep *)
(* what card.h promises (CardContract), for any set of threads, cards and  *)
(* priorities.                                                             *)
(***************************************************************************)
EXTENDS Card, TLAPS

\* The most urgent waiters are waiters.
LEMMA MostUrgentWaits ==
  ASSUME NEW S, NEW w \in MostUrgent(S) PROVE w \in S
  BY DEF MostUrgent

\* Every step of card.c keeps every variable in its type.
LEMMA TypeStep ==
  ASSUME TypeOK, [Next]_cardVars PROVE TypeOK'
<1> USE MutexAssumption, CardsAssumption, CardAssumption
<1> USE DEF TypeOK, MutexTypeOK, SdTypeOK, Places, Holding, Evaluating, Resting,
            States, At, Goto, mutexVars, sdVars, moduleVars, localVars, history
<1>1. CASE Hand
  BY <1>1 DEF Hand, Insert, Remove
<1>2. ASSUME NEW t \in Threads, InCall(t) PROVE TypeOK'
  <2>1. CASE Lock(t)
    BY <2>1 DEF Lock, MutexTake, MutexPend
  <2>2. CASE ReadSlot(t)
    BY <2>2 DEF ReadSlot, GaveUp, Conclude
  <2>3. CASE ForceUnmount(t)
    BY <2>3 DEF ForceUnmount, Conclude, FsUnmountOk, FsUnmountFail
  <2>4. CASE ReleaseDisk(t)
    BY <2>4 DEF ReleaseDisk, Conclude, DeinitForced
  <2>5. CASE TryMount(t)
    <3> USE <2>5 DEF TryMount
    <3>1. CASE Mounted(t)
      BY <3>1 DEF Mounted, Conclude, FsMountOk
    <3>2. CASE NotMounted(t)
      BY <3>2 DEF NotMounted, Conclude, FsMountFail
    <3>3. CASE FindStale(t)
      BY <3>3 DEF FindStale, FsMountBusy
    <3>4. QED
      BY <3>1, <3>2, <3>3
  <2>6. CASE UnmountStale(t)
    <3>1. sd' \in {sd, NoCard} /\ vol' \in {vol, NoCard} /\ mnt' \in BOOLEAN
      BY <2>6 DEF UnmountStale, FsUnmountOk, FsUnmountFail
    <3>2. UNCHANGED <<slot, fresh>>
      BY <2>6 DEF UnmountStale, FsUnmountOk, FsUnmountFail
    <3>3. QED
      BY <2>6, <3>1, <3>2 DEF UnmountStale
  <2>7. CASE Remount(t)
    <3> USE <2>7 DEF Remount
    <3>1. CASE Mounted(t)
      BY <3>1 DEF Mounted, Conclude, FsMountOk
    <3>2. CASE NotMounted(t)
      BY <3>2 DEF NotMounted, Conclude, FsMountFail
    <3>3. CASE StillStale(t)
      BY <3>3 DEF StillStale, FsMountBusy, Conclude
    <3>4. QED
      BY <3>1, <3>2, <3>3
  <2>8. CASE Publish(t)
    BY <2>8 DEF Publish
  <2>9. CASE Unlock(t)
    BY <2>9, MostUrgentWaits DEF Unlock, MutexRelease
  <2>10. CASE ReadObserver(t)
    <3>1. CASE changed[t] /\ observer
      BY <2>10, <3>1 DEF ReadObserver
    <3>2. CASE ~(changed[t] /\ observer)
      <4>1. Return(t)
        BY <2>10, <3>2 DEF ReadObserver
      <4>2. QED
        BY <2>10, <4>1 DEF ReadObserver, Return
    <3>3. QED
      BY <3>1, <3>2
  <2>11. CASE Notify(t)
    BY <2>11 DEF Notify, Return
  <2>12. CASE MarkStarted(t)
    BY <2>12 DEF MarkStarted
  <2>13. CASE Spawn(t)
    BY <2>13 DEF Spawn
  <2>14. CASE Check(t)
    BY <2>14, MostUrgentWaits DEF Check, MutexRelease
  <2>15. QED
    BY <1>2, <2>1, <2>2, <2>3, <2>4, <2>5, <2>6, <2>7, <2>8, <2>9, <2>10,
       <2>11, <2>12, <2>13, <2>14 DEF InCall
<1>3. ASSUME NEW t \in Threads, Call(t) PROVE TypeOK'
  BY <1>3 DEF Call, RefreshCall, InitCall, AcquireCall, AcquireAgain, MutexRelock
<1>4. ASSUME NEW t \in Threads, Release(t) PROVE TypeOK'
  BY <1>4, MostUrgentWaits DEF Release, MutexRelease, MutexUnnest
<1>5. CASE Wake
  BY <1>5 DEF Wake
<1>6. ASSUME NEW o \in ObserverArgs, Observe(o) PROVE TypeOK'
  BY <1>6 DEF Observe
<1>7. CASE UNCHANGED cardVars
  BY <1>7 DEF cardVars
<1>8. QED
  BY <1>1, <1>2, <1>3, <1>4, <1>5, <1>6, <1>7 DEF Next

---------------------------------------------------------------------------
\* The mutex.

\* A step of the owner inside card_refresh that does not touch the mutex.
LEMMA LockInside ==
  ASSUME TypeOK, LockInv, NEW t \in Threads, NEW p \in Evaluating,
         pc[t] \in Evaluating, Goto(t, p), UNCHANGED mutexVars
  PROVE  LockInv'
BY DEF TypeOK, MutexTypeOK, LockInv, Goto, mutexVars, Holding, Evaluating

\* A step of a thread that neither holds the mutex nor asks for it.
LEMMA LockOutside ==
  ASSUME TypeOK, LockInv, NEW t \in Threads, NEW p \in Places \ Holding,
         pc[t] \notin Holding \union {"lock", "acquire"},
         Goto(t, p), UNCHANGED mutexVars
  PROVE  LockInv'
BY DEF TypeOK, MutexTypeOK, LockInv, Goto, mutexVars, Holding

\* The outermost k_mutex_unlock, whether or not somebody is waiting.
LEMMA LockReleased ==
  ASSUME TypeOK, LockInv, NEW t \in Threads, NEW p \in Places \ Holding,
         p \notin {"lock", "acquire"}, pc[t] \in Holding,
         MutexRelease(t), Goto(t, p)
  PROVE  LockInv'
<1> USE MutexAssumption
<1>1. owner = t /\ depth = 1
  BY DEF MutexRelease
<1>2. CASE waiters = {} /\ owner' = NoThread /\ depth' = 0 /\ UNCHANGED waiters
  BY <1>1, <1>2 DEF TypeOK, MutexTypeOK, LockInv, Goto, Holding
<1>3. ASSUME NEW w \in waiters, owner' = w, waiters' = waiters \ {w}, depth' = depth
      PROVE  LockInv'
  <2>1. w \in Threads /\ w # t /\ pc[w] \in {"lock", "acquire"}
    BY <1>1, <1>3 DEF TypeOK, MutexTypeOK, LockInv
  <2>2. QED
    BY <1>1, <1>3, <2>1 DEF TypeOK, MutexTypeOK, LockInv, Goto, Holding
<1>4. QED
  BY <1>2, <1>3, MostUrgentWaits DEF MutexRelease

\* Who holds card_lock is where the code holds it, after every step.
LEMMA LockStep ==
  ASSUME TypeOK, LockInv, MonitorInv, [Next]_cardVars PROVE LockInv'
<1> USE DEF At
<1>1. CASE Hand
  BY <1>1 DEF Hand, LockInv, mutexVars, localVars
<1>2. ASSUME NEW t \in Threads, InCall(t) PROVE LockInv'
  <2>1. CASE Lock(t)
    <3>1. CASE MutexTake(t)
      <4>1. pc[t] \in {"lock", "acquire"} /\ t \notin waiters
        BY <2>1, <3>1, MutexAssumption
        DEF Lock, MutexPend, MutexTake, Takeable, LockInv, TypeOK, MutexTypeOK
      <4>2. PICK p \in {"status", "check"} : Goto(t, p)
        BY <2>1, <3>1 DEF Lock, MutexPend, MutexTake
      <4>3. QED
        BY <3>1, <4>1, <4>2, MutexAssumption
        DEF MutexTake, Takeable, LockInv, TypeOK, MutexTypeOK, Goto, Holding, Evaluating
    <3>2. CASE MutexPend(t)
      BY <2>1, <3>2, MutexAssumption
      DEF Lock, MutexPend, MutexTake, Takeable, LockInv, TypeOK, MutexTypeOK, Holding
    <3>3. QED
      BY <2>1, <3>1, <3>2 DEF Lock
  <2>2. CASE ReadSlot(t)
    BY <2>2, LockInside DEF ReadSlot, GaveUp, Conclude, Evaluating
  <2>3. CASE ForceUnmount(t)
    BY <2>3, LockInside DEF ForceUnmount, Conclude, Evaluating
  <2>4. CASE ReleaseDisk(t)
    BY <2>4, LockInside DEF ReleaseDisk, Conclude, Evaluating
  <2>5. CASE TryMount(t)
    BY <2>5, LockInside DEF TryMount, Mounted, NotMounted, FindStale, Conclude, Evaluating
  <2>6. CASE UnmountStale(t)
    BY <2>6, LockInside DEF UnmountStale, Evaluating
  <2>7. CASE Remount(t)
    BY <2>7, LockInside DEF Remount, Mounted, NotMounted, StillStale, Conclude, Evaluating
  <2>8. CASE Publish(t)
    BY <2>8, LockInside DEF Publish, Evaluating
  <2>9. CASE Unlock(t)
    BY <2>9, LockReleased DEF Unlock, Places, Holding, Evaluating, Resting
  <2>10. CASE ReadObserver(t)
    BY <2>10, LockOutside
    DEF ReadObserver, Return, TypeOK, Places, Holding, Evaluating, Resting
  <2>11. CASE Notify(t)
    BY <2>11, LockOutside
    DEF Notify, Return, TypeOK, Places, Holding, Evaluating, Resting
  <2>12. CASE MarkStarted(t)
    BY <2>12, LockOutside DEF MarkStarted, Places, Holding, Evaluating, Resting
  <2>13. CASE Spawn(t)
    <3>1. t \in Apps /\ back[t] = "spawn" /\ pc[Monitor] = "none" /\ Monitor \in Threads
      BY <2>13, CardAssumption DEF Spawn, MonitorInv
    <3>2. QED
      BY <2>13, <3>1
      DEF Spawn, LockInv, TypeOK, MutexTypeOK, mutexVars, Holding, Evaluating
  <2>14. CASE Check(t)
    <3>1. CASE state = "READY"
      BY <2>14, <3>1
      DEF Check, LockInv, TypeOK, MutexTypeOK, mutexVars, Goto, Holding, Evaluating
    <3>2. CASE state # "READY"
      BY <2>14, <3>2, LockReleased DEF Check, Places, Holding, Evaluating, Resting
    <3>3. QED
      BY <3>1, <3>2
  <2>15. QED
    BY <1>2, <2>1, <2>2, <2>3, <2>4, <2>5, <2>6, <2>7, <2>8, <2>9, <2>10,
       <2>11, <2>12, <2>13, <2>14 DEF InCall
<1>3. ASSUME NEW t \in Threads, Call(t) PROVE LockInv'
  <2>1. CASE RefreshCall(t)
    BY <2>1, LockOutside DEF RefreshCall, Places, Holding, Evaluating, Resting
  <2>2. CASE InitCall(t)
    BY <2>2, LockOutside DEF InitCall, Places, Holding, Evaluating, Resting
  <2>3. CASE AcquireCall(t)
    BY <2>3, LockOutside DEF AcquireCall, Places, Holding, Evaluating, Resting
  <2>4. CASE AcquireAgain(t)
    <3>1. owner = t /\ pc[t] = "lent" /\ depth \in Nat /\ depth' = depth + 1
      BY <2>4 DEF AcquireAgain, MutexRelock, TypeOK, MutexTypeOK
    <3>2. UNCHANGED <<owner, waiters, pc>>
      BY <2>4 DEF AcquireAgain, MutexRelock, localVars
    <3>3. depth' > 0
      BY <3>1
    <3>4. QED
      BY <3>1, <3>2, <3>3, MutexAssumption DEF LockInv
  <2>5. QED
    BY <1>3, <2>1, <2>2, <2>3, <2>4 DEF Call
<1>4. ASSUME NEW t \in Threads, Release(t) PROVE LockInv'
  <2>1. CASE MutexUnnest(t)
    BY <1>4, <2>1 DEF Release, MutexUnnest, MutexRelease, LockInv, TypeOK, MutexTypeOK
  <2>2. CASE MutexRelease(t)
    BY <1>4, <2>2, LockReleased
    DEF Release, MutexUnnest, MutexRelease, Places, Holding, Evaluating, Resting
  <2>3. QED
    BY <1>4, <2>1, <2>2 DEF Release
<1>5. CASE Wake
  BY <1>5, LockOutside, CardAssumption DEF Wake, Places, Holding, Evaluating, Resting
<1>6. ASSUME NEW o \in ObserverArgs, Observe(o) PROVE LockInv'
  BY <1>6 DEF Observe, LockInv, mutexVars, localVars
<1>7. CASE UNCHANGED cardVars
  BY <1>7 DEF cardVars, LockInv, mutexVars, localVars
<1>8. QED
  BY <1>1, <1>2, <1>3, <1>4, <1>5, <1>6, <1>7 DEF Next

---------------------------------------------------------------------------
\* The monitor thread.

\* A step that is none of card_init's own and does not end a sleep or a call.
LEMMA MonitorFrame ==
  ASSUME TypeOK, MonitorInv, NEW t \in Threads, NEW p,
         p \notin {"mark", "spawn", "sleep", "none"},
         t = Monitor => p \notin {"idle", "acquire", "check", "lent"},
         pc[t] # "none", Goto(t, p), UNCHANGED <<started, back>>
  PROVE  MonitorInv'
BY CardAssumption DEF TypeOK, MonitorInv, Goto, At

\* The return of card_refresh, to whoever called it.
LEMMA MonitorReturn ==
  ASSUME TypeOK, MonitorInv, NEW t \in Threads,
         pc[t] \in {"observe", "notify"}, Goto(t, back[t]), UNCHANGED <<started, back>>
  PROVE  MonitorInv'
BY CardAssumption DEF TypeOK, MonitorInv, Goto, At

\* With a single initialiser, card_init creates the monitor once.
LEMMA MonitorStep ==
  ASSUME OneInitialiser, TypeOK, MonitorInv, [Next]_cardVars PROVE MonitorInv'
<1> USE CardAssumption DEF moduleVars
<1>1. CASE Hand
  BY <1>1 DEF Hand, MonitorInv, localVars, At
<1>2. ASSUME NEW t \in Threads, InCall(t) PROVE MonitorInv'
  <2>1. CASE Lock(t)
    <3>1. CASE UNCHANGED pc
      BY <2>1, <3>1 DEF Lock, MonitorInv, At
    <3>2. CASE At(t, "lock") /\ Goto(t, "status")
      BY <2>1, <3>2, MonitorFrame DEF Lock, At
    <3>3. CASE At(t, "acquire") /\ Goto(t, "check")
      BY <2>1, <3>3, MonitorFrame DEF Lock, At, MonitorInv
    <3>4. QED
      BY <2>1, <3>1, <3>2, <3>3 DEF Lock
  <2>2. CASE ReadSlot(t)
    BY <2>2, MonitorFrame DEF ReadSlot, GaveUp, Conclude, At
  <2>3. CASE ForceUnmount(t)
    BY <2>3, MonitorFrame DEF ForceUnmount, Conclude, At
  <2>4. CASE ReleaseDisk(t)
    BY <2>4, MonitorFrame DEF ReleaseDisk, Conclude, At
  <2>5. CASE TryMount(t)
    BY <2>5, MonitorFrame DEF TryMount, Mounted, NotMounted, FindStale, Conclude, At
  <2>6. CASE UnmountStale(t)
    BY <2>6, MonitorFrame DEF UnmountStale, At
  <2>7. CASE Remount(t)
    BY <2>7, MonitorFrame DEF Remount, Mounted, NotMounted, StillStale, Conclude, At
  <2>8. CASE Publish(t)
    BY <2>8, MonitorFrame DEF Publish, At
  <2>9. CASE Unlock(t)
    BY <2>9, MonitorFrame DEF Unlock, At
  <2>10. CASE ReadObserver(t)
    <3>1. CASE Goto(t, "notify")
      BY <2>10, <3>1, MonitorFrame DEF ReadObserver, At
    <3>2. CASE Return(t)
      BY <2>10, <3>2, MonitorReturn DEF ReadObserver, Return, At
    <3>3. QED
      BY <2>10, <3>1, <3>2 DEF ReadObserver
  <2>11. CASE Notify(t)
    BY <2>11, MonitorReturn DEF Notify, Return, At
  <2>12. CASE MarkStarted(t)
    <3>1. t \in Apps /\ t \in Initialisers /\ ~started /\ At(Monitor, "none")
      BY <2>12 DEF MarkStarted, MonitorInv, At
    <3>2. \A u \in Apps \ {t} : ~At(u, "mark")
      BY <3>1 DEF OneInitialiser, MonitorInv, At
    <3>3. QED
      BY <2>12, <3>1, <3>2 DEF MarkStarted, TypeOK, MonitorInv, Goto, At
  <2>13. CASE Spawn(t)
    <3>1. t \in Apps /\ t \in Initialisers /\ started /\ back[t] = "spawn"
      BY <2>13 DEF Spawn, MonitorInv, At
    <3>2. \A u \in Apps \ {t} : back[u] # "spawn" /\ ~At(u, "spawn")
      BY <3>1 DEF OneInitialiser, MonitorInv, At
    <3>3. QED
      BY <2>13, <3>1, <3>2 DEF Spawn, TypeOK, MonitorInv, At
  <2>14. CASE Check(t)
    BY <2>14, MonitorFrame DEF Check, At, MonitorInv
  <2>15. QED
    BY <1>2, <2>1, <2>2, <2>3, <2>4, <2>5, <2>6, <2>7, <2>8, <2>9, <2>10,
       <2>11, <2>12, <2>13, <2>14 DEF InCall
<1>3. ASSUME NEW t \in Threads, Call(t) PROVE MonitorInv'
  <2>1. CASE RefreshCall(t)
    BY <2>1, MonitorFrame DEF RefreshCall, At
  <2>2. CASE InitCall(t)
    BY <2>2 DEF InitCall, TypeOK, MonitorInv, Goto, At
  <2>3. CASE AcquireCall(t)
    BY <2>3, MonitorFrame DEF AcquireCall, At, Apps
  <2>4. CASE AcquireAgain(t)
    BY <2>4 DEF AcquireAgain, MonitorInv, localVars, At
  <2>5. QED
    BY <1>3, <2>1, <2>2, <2>3, <2>4 DEF Call
<1>4. ASSUME NEW t \in Threads, Release(t) PROVE MonitorInv'
  <2>1. CASE UNCHANGED pc
    BY <1>4, <2>1 DEF Release, MonitorInv, At
  <2>2. CASE Goto(t, "idle")
    BY <1>4, <2>2, MonitorFrame DEF Release, At, MonitorInv
  <2>3. QED
    BY <1>4, <2>1, <2>2 DEF Release
<1>5. CASE Wake
  BY <1>5, MonitorFrame DEF Wake, At
<1>6. ASSUME NEW o \in ObserverArgs, Observe(o) PROVE MonitorInv'
  BY <1>6 DEF Observe, MonitorInv, localVars, At
<1>7. CASE UNCHANGED cardVars
  BY <1>7 DEF cardVars, MonitorInv, localVars, At
<1>8. QED
  BY <1>1, <1>2, <1>3, <1>4, <1>5, <1>6, <1>7 DEF Next

---------------------------------------------------------------------------
\* The volume.

\* The places VolumeInv speaks of.
Tracked == {"force_unmount", "release_disk", "mount", "unmount_stale",
            "remount", "publish"}

\* The holder of the mutex is alone in everything the mutex protects.
LEMMA HolderAlone ==
  ASSUME LockInv, NEW t \in Threads, pc[t] \in Holding
  PROVE  \A u \in Threads \ {t} : pc[u] \notin Holding
BY DEF LockInv

\* A step outside the evaluation: nothing VolumeInv speaks of moves.
LEMMA VolumeFrame ==
  ASSUME TypeOK, VolumeInv, NEW t \in Threads, NEW p,
         pc[t] \notin Tracked, p \notin Tracked, Goto(t, p),
         UNCHANGED <<state, mounted, sdVars>>,
         \A u \in Threads \ {t} : next'[u] = next[u]
  PROVE  VolumeInv'
BY DEF TypeOK, VolumeInv, Coherent, Occupied, Tracked, Goto, At, sdVars

\* The end of an evaluation's decision: the holder is about to publish s.
LEMMA VolumeConclude ==
  ASSUME TypeOK, LockInv, NEW t \in Threads, pc[t] \in Evaluating,
         NEW s \in States, Conclude(t, s), UNCHANGED state,
         Coherent(s)', mounted' => mnt' /\ vol' # NoCard,
         state \in {s, "ABSENT"} \/ s = "ABSENT"
  PROVE  VolumeInv'
<1>1. \A u \in Threads \ {t} : pc'[u] \notin Tracked
  BY HolderAlone DEF TypeOK, Conclude, Goto, Holding, Evaluating, Tracked
<1>2. pc'[t] = "publish" /\ next'[t] = s
  BY DEF TypeOK, Conclude, Goto
<1>3. QED
  BY <1>1, <1>2 DEF VolumeInv, At, Tracked

\* Which branch card_refresh takes, and what holds on it.
LEMMA VolumeReadSlot ==
  ASSUME TypeOK, LockInv, VolumeInv, NEW t \in Threads, ReadSlot(t) PROVE VolumeInv'
<1>1. pc[t] = "status" /\ pc[t] \in Evaluating /\ UNCHANGED <<state, mounted, sdVars>>
  BY DEF ReadSlot, GaveUp, At, Evaluating, moduleVars
<1>2. \A u \in Threads : pc[u] \notin Tracked
  BY <1>1, HolderAlone DEF Holding, Evaluating, Tracked
<1>3. Coherent(state) /\ (mounted => mnt /\ vol # NoCard)
  BY <1>2 DEF VolumeInv, Tracked, At
<1>4. \A s : Coherent(s)' <=> Coherent(s)
  BY <1>1 DEF Coherent, Occupied, sdVars
<1>5. ASSUME NEW s \in States, Conclude(t, s), s = state \/ (s = "READY" /\ mounted)
      PROVE  VolumeInv'
  BY <1>1, <1>3, <1>4, <1>5, VolumeConclude DEF Coherent, sdVars
<1>6. ASSUME NEW p \in {"force_unmount", "release_disk", "mount"}, Goto(t, p),
             p = "force_unmount" => mounted /\ ~Occupied,
             p = "release_disk" => ~mounted /\ state # "ABSENT" /\ ~Occupied,
             p = "mount" => ~mounted /\ state # "UNREADABLE"
      PROVE  VolumeInv'
  <2>1. \A u \in Threads \ {t} : pc'[u] \notin Tracked
    BY <1>2, <1>6 DEF TypeOK, Goto
  <2>2. pc'[t] = p
    BY <1>6 DEF TypeOK, Goto
  <2>3. p = "release_disk" => state = "UNREADABLE"
    BY <1>3, <1>6 DEF TypeOK, States, Coherent
  <2>4. p = "mount" => state = "ABSENT"
    BY <1>3, <1>6 DEF TypeOK, States, Coherent
  <2>5. Coherent(state)'
    BY <1>1, <1>3 DEF Coherent, Occupied, sdVars
  <2>6. QED
    BY <1>1, <1>3, <1>6, <2>1, <2>2, <2>3, <2>4, <2>5
    DEF VolumeInv, At, Tracked, Occupied, sdVars
<1>7. QED
  BY <1>3, <1>5, <1>6 DEF ReadSlot, GaveUp, TypeOK, States, Coherent

\* card_try_mount, both calls of fs_mount.
LEMMA VolumeMount ==
  ASSUME TypeOK, LockInv, VolumeInv, NEW t \in Threads,
         pc[t] \in {"mount", "remount"}, UNCHANGED state,
         Mounted(t) \/ NotMounted(t) \/ StillStale(t)
  PROVE  VolumeInv'
<1>1. pc[t] \in Evaluating /\ state = "ABSENT"
  BY DEF VolumeInv, Evaluating
<1>2. \A u \in Threads : ~At(u, "publish")
  BY <1>1, HolderAlone DEF At, Holding, Evaluating
<1>3. ~mounted
  BY <1>1, <1>2 DEF VolumeInv, Coherent
<1>4. CASE Mounted(t)
  <2>1. Coherent("READY")' /\ mnt' /\ vol' # NoCard
    BY <1>4, CardsAssumption DEF Mounted, FsMountOk, Coherent
  <2>2. QED
    BY <1>1, <1>4, <2>1, VolumeConclude DEF Mounted, States
<1>5. CASE NotMounted(t)
  BY <1>1, <1>3, <1>5, VolumeConclude DEF NotMounted, Coherent, States
<1>6. CASE StillStale(t)
  BY <1>1, <1>3, <1>6, VolumeConclude DEF StillStale, Coherent, States
<1>7. QED
  BY <1>4, <1>5, <1>6

\* The published state stays coherent with the volume, the disk and the card.
LEMMA VolumeStep ==
  ASSUME TypeOK, LockInv, MonitorInv, VolumeInv, [Next]_cardVars PROVE VolumeInv'
<1> USE DEF moduleVars
<1>1. CASE Hand
  BY <1>1 DEF Hand, Insert, Remove, localVars, VolumeInv, Coherent, Occupied, At
<1>2. ASSUME NEW t \in Threads, InCall(t) PROVE VolumeInv'
  <2>1. CASE Lock(t)
    <3>1. CASE UNCHANGED pc
      BY <2>1, <3>1 DEF Lock, VolumeInv, Coherent, Occupied, At, sdVars
    <3>2. CASE At(t, "lock") /\ Goto(t, "status")
      BY <2>1, <3>2, VolumeFrame DEF Lock, At, Tracked
    <3>3. CASE At(t, "acquire") /\ Goto(t, "check")
      BY <2>1, <3>3, VolumeFrame DEF Lock, At, Tracked
    <3>4. QED
      BY <2>1, <3>1, <3>2, <3>3 DEF Lock
  <2>2. CASE ReadSlot(t)
    BY <2>2, VolumeReadSlot
  <2>3. CASE ForceUnmount(t)
    <3>1. pc[t] \in Evaluating /\ (Occupied => fresh)
      BY <2>3 DEF ForceUnmount, VolumeInv, At, Evaluating
    <3>2. Coherent("ABSENT")' /\ ~mounted'
      BY <2>3, <3>1
      DEF ForceUnmount, FsUnmountOk, FsUnmountFail, Coherent, Occupied, VolumeInv, At
    <3>3. QED
      BY <2>3, <3>1, <3>2, VolumeConclude DEF ForceUnmount, States
  <2>4. CASE ReleaseDisk(t)
    <3>1. pc[t] \in Evaluating /\ state = "UNREADABLE" /\ (Occupied => fresh)
      BY <2>4 DEF ReleaseDisk, VolumeInv, At, Evaluating
    <3>2. \A u \in Threads : ~At(u, "publish")
      BY <2>4, <3>1, HolderAlone DEF ReleaseDisk, At, Holding, Evaluating
    <3>3. ~mounted /\ Coherent("ABSENT")'
      BY <2>4, <3>1, <3>2
      DEF ReleaseDisk, DeinitForced, Coherent, Occupied, VolumeInv
    <3>4. QED
      BY <2>4, <3>1, <3>3, VolumeConclude DEF ReleaseDisk, States
  <2>5. CASE TryMount(t)
    <3>1. CASE Mounted(t) \/ NotMounted(t)
      BY <2>5, <3>1, VolumeMount DEF TryMount, At
    <3>2. CASE FindStale(t)
      BY <2>5, <3>2
      DEF TryMount, FindStale, FsMountBusy, Goto, At, TypeOK, VolumeInv, Coherent,
          Occupied, sdVars
    <3>3. QED
      BY <2>5, <3>1, <3>2 DEF TryMount
  <2>6. CASE UnmountStale(t)
    <3>1. \A u \in Threads : ~At(u, "publish")
      BY <2>6, HolderAlone DEF UnmountStale, At, Holding, Evaluating
    <3>2. state = "ABSENT" /\ Coherent(state) /\ ~mounted
      BY <2>6, <3>1 DEF UnmountStale, VolumeInv, At, Coherent
    <3>3. Coherent(state)' /\ ~mounted' /\ state' = state
      BY <2>6, <3>2
      DEF UnmountStale, FsUnmountOk, FsUnmountFail, Coherent, Occupied
    <3>4. \A u \in Threads \ {t} : pc'[u] \notin Tracked
      BY <2>6, HolderAlone
      DEF UnmountStale, TypeOK, Goto, At, Holding, Evaluating, Tracked
    <3>5. pc'[t] = "remount"
      BY <2>6 DEF UnmountStale, TypeOK, Goto
    <3>6. QED
      BY <3>2, <3>3, <3>4, <3>5 DEF VolumeInv, At, Tracked
  <2>7. CASE Remount(t)
    BY <2>7, VolumeMount DEF Remount, At
  <2>8. CASE Publish(t)
    <3>1. \A u \in Threads \ {t} : pc'[u] \notin Tracked
      BY <2>8, HolderAlone
      DEF Publish, TypeOK, Goto, At, Holding, Evaluating, Tracked
    <3>2. pc'[t] = "unlock" /\ Coherent(state')
      BY <2>8 DEF Publish, TypeOK, Goto, VolumeInv, At
    <3>3. Coherent(state)' /\ (mounted' => mnt' /\ vol' # NoCard)
      BY <2>8, <3>2 DEF Publish, Coherent, Occupied, sdVars, VolumeInv
    <3>4. QED
      BY <3>1, <3>2, <3>3 DEF VolumeInv, At, Tracked
  <2>9. CASE Unlock(t)
    BY <2>9, VolumeFrame DEF Unlock, At, Tracked
  <2>10. CASE ReadObserver(t)
    <3>1. CASE Goto(t, "notify") /\ UNCHANGED next
      BY <2>10, <3>1, VolumeFrame DEF ReadObserver, At, Tracked
    <3>2. CASE Return(t)
      BY <2>10, <3>2, VolumeFrame DEF ReadObserver, Return, At, Tracked, TypeOK
    <3>3. QED
      BY <2>10, <3>1, <3>2 DEF ReadObserver
  <2>11. CASE Notify(t)
    BY <2>11, VolumeFrame DEF Notify, Return, At, Tracked, TypeOK
  <2>12. CASE MarkStarted(t)
    BY <2>12, VolumeFrame DEF MarkStarted, At, Tracked
  <2>13. CASE Spawn(t)
    <3>1. pc[Monitor] = "none" /\ Monitor \in Threads
      BY <2>13, CardAssumption DEF Spawn, MonitorInv, TypeOK, At
    <3>2. QED
      BY <2>13, <3>1
      DEF Spawn, TypeOK, VolumeInv, Coherent, Occupied, At, sdVars
  <2>14. CASE Check(t)
    BY <2>14, VolumeFrame DEF Check, At, Tracked
  <2>15. QED
    BY <1>2, <2>1, <2>2, <2>3, <2>4, <2>5, <2>6, <2>7, <2>8, <2>9, <2>10,
       <2>11, <2>12, <2>13, <2>14 DEF InCall
<1>3. ASSUME NEW t \in Threads, Call(t) PROVE VolumeInv'
  <2>1. CASE RefreshCall(t)
    BY <2>1, VolumeFrame DEF RefreshCall, At, Tracked
  <2>2. CASE InitCall(t)
    BY <2>2, VolumeFrame DEF InitCall, At, Tracked
  <2>3. CASE AcquireCall(t)
    BY <2>3, VolumeFrame DEF AcquireCall, At, Tracked
  <2>4. CASE AcquireAgain(t)
    BY <2>4 DEF AcquireAgain, VolumeInv, Coherent, Occupied, At, localVars, sdVars
  <2>5. QED
    BY <1>3, <2>1, <2>2, <2>3, <2>4 DEF Call
<1>4. ASSUME NEW t \in Threads, Release(t) PROVE VolumeInv'
  <2>1. CASE UNCHANGED pc
    BY <1>4, <2>1 DEF Release, VolumeInv, Coherent, Occupied, At, sdVars
  <2>2. CASE Goto(t, "idle")
    BY <1>4, <2>2, VolumeFrame DEF Release, At, Tracked
  <2>3. QED
    BY <1>4, <2>1, <2>2 DEF Release
<1>5. CASE Wake
  BY <1>5, VolumeFrame, CardAssumption DEF Wake, At, Tracked
<1>6. ASSUME NEW o \in ObserverArgs, Observe(o) PROVE VolumeInv'
  BY <1>6 DEF Observe, VolumeInv, Coherent, Occupied, At, localVars, sdVars
<1>7. CASE UNCHANGED cardVars
  BY <1>7 DEF cardVars, VolumeInv, Coherent, Occupied, At, localVars, sdVars
<1>8. QED
  BY <1>1, <1>2, <1>3, <1>4, <1>5, <1>6, <1>7 DEF Next

---------------------------------------------------------------------------
\* The inductive invariant, and what follows from it.

LEMMA InitInv == Init => IInv
<1> SUFFICES ASSUME Init PROVE IInv
  OBVIOUS
<1> USE MutexAssumption, CardsAssumption, CardAssumption
<1> USE DEF Init, MutexInit, SdInit
<1>1. TypeOK
  BY DEF TypeOK, MutexTypeOK, SdTypeOK, States, Places, Holding, Evaluating, Resting
<1>2. LockInv
  BY DEF LockInv, Holding, Evaluating
<1>3. MonitorInv
  BY DEF MonitorInv, At
<1>4. VolumeInv
  BY DEF VolumeInv, Coherent, Occupied, At
<1>5. QED
  BY <1>1, <1>2, <1>3, <1>4 DEF IInv

\* IInv holds in every reachable state: the types, who holds card_lock, that
\* there is one monitor, and that the published state is coherent with the
\* volume, the disk and the card.
THEOREM CardInvariant == OneInitialiser => (Spec => []IInv)
<1> SUFFICES ASSUME OneInitialiser PROVE Spec => []IInv
  OBVIOUS
<1>1. IInv /\ [Next]_cardVars => IInv'
  BY TypeStep, LockStep, MonitorStep, VolumeStep DEF IInv
<1>2. QED
  BY <1>1, InitInv, PTL DEF Spec

\* Every variable of the card module keeps its type.
THEOREM TypeCorrect == OneInitialiser => (Spec => []TypeOK)
BY CardInvariant, PTL DEF IInv

\* No two threads are ever inside FatFs at once, although FatFs has no lock.
THEOREM Exclusion == OneInitialiser => (Spec => []VolumeExclusive)
<1>1. IInv => VolumeExclusive
  BY DEF IInv, LockInv, VolumeExclusive, UsingVolume, Holding, Evaluating
<1>2. QED
  BY <1>1, CardInvariant, PTL

\* Whenever nobody is evaluating, READY means mounted and mounted means that
\* the mount list and the work object agree.
THEOREM StateIsTrue == OneInitialiser => (Spec => []StateMatchesVolume)
<1>1. IInv => StateMatchesVolume
  BY DEF IInv, VolumeInv, Coherent, StateMatchesVolume, At, Evaluating
<1>2. QED
  BY <1>1, CardInvariant, PTL

\* Who is about to mount has the published state to itself.
LEMMA MountWithAbsent ==
  ASSUME IInv, NEW t \in Threads, pc[t] \in {"mount", "remount"}
  PROVE  state = "ABSENT" /\ Coherent(state)
<1>1. \A u \in Threads : ~At(u, "publish")
  BY HolderAlone DEF IInv, At, Holding, Evaluating
<1>2. QED
  BY <1>1 DEF IInv, VolumeInv

\* fs_mount never reaches a disk that an earlier card left initialised.
THEOREM MountIsClean == OneInitialiser => (Spec => []DiskResetBeforeMount)
<1>1. IInv => DiskResetBeforeMount
  BY MountWithAbsent DEF Coherent, DiskResetBeforeMount
<1>2. QED
  BY <1>1, CardInvariant, PTL

\* No insertion is tried twice, whoever refreshes and however fast cards are
\* swapped.
THEOREM MountIsTriedOnce == OneInitialiser => (Spec => []OneAttemptPerInsertion)
<1>1. IInv => OneAttemptPerInsertion
  BY MountWithAbsent DEF Coherent, OneAttemptPerInsertion
<1>2. QED
  BY <1>1, CardInvariant, PTL

\* card_init creates the monitor once, when one thread initialises.
THEOREM MonitorIsOne == OneInitialiser => (Spec => []OneMonitor)
<1>1. IInv => OneMonitor
  BY CardAssumption DEF IInv, MonitorInv, OneMonitor, At
<1>2. QED
  BY <1>1, CardInvariant, PTL

---------------------------------------------------------------------------
\* The loan and the card in the socket.

\* The volume that is mounted is that of the card in the socket, unless the
\* socket is empty, and what is on loan is mounted.
SocketInv ==
  /\ mounted => slot \in {vol, NoCard}
  /\ \A t \in Threads : At(t, "lent") => mounted

\* A step that touches neither the disk nor the mount, and lends nothing.
LEMMA SocketFrame ==
  ASSUME SocketInv, TypeOK, NEW t \in Threads, NEW p, p # "lent",
         Goto(t, p), UNCHANGED <<mounted, sdVars>>
  PROVE  SocketInv'
BY DEF SocketInv, TypeOK, Goto, At, sdVars

\* A step of who evaluates: nothing is on loan, before or after it.
LEMMA SocketInside ==
  ASSUME TypeOK, LockInv, NEW t \in Threads, pc[t] \in Evaluating,
         NEW p, p # "lent", Goto(t, p), mounted' => slot' \in {vol', NoCard}
  PROVE  SocketInv'
<1>1. \A u \in Threads \ {t} : pc[u] # "lent"
  BY HolderAlone DEF Holding, Evaluating
<1>2. QED
  BY <1>1 DEF SocketInv, TypeOK, Goto, At

\* Before the removal has been seen no card is put in, and so none replaces the
\* one whose volume is mounted.
LEMMA SocketStep ==
  ASSUME ~HandSwap, IInv, SocketInv, [Next]_cardVars PROVE SocketInv'
<1> USE DEF IInv, moduleVars
<1>1. CASE Hand
  <2>1. CASE Remove
    BY <1>1, <2>1 DEF Hand, Remove, SocketInv, localVars, At
  <2>2. CASE Settled /\ \E c \in Cards : Insert(c)
    <3>1. \A t \in Threads : pc[t] \notin Holding
      BY <2>2, MutexAssumption DEF Settled, LockInv
    <3>2. ~mounted
      BY <2>2, <3>1 DEF Settled, VolumeInv, Coherent, At, Holding, Evaluating
    <3>3. QED
      BY <1>1, <3>1, <3>2 DEF Hand, SocketInv, localVars, At, Holding
  <2>3. QED
    BY <1>1, <2>1, <2>2 DEF Hand
<1>2. ASSUME NEW t \in Threads, InCall(t) PROVE SocketInv'
  <2>1. CASE Lock(t)
    <3>1. CASE UNCHANGED pc
      BY <2>1, <3>1 DEF Lock, SocketInv, At, sdVars
    <3>2. CASE Goto(t, "status") \/ Goto(t, "check")
      BY <2>1, <3>2, SocketFrame DEF Lock
    <3>3. QED
      BY <2>1, <3>1, <3>2 DEF Lock
  <2>2. CASE ReadSlot(t)
    BY <2>2, SocketFrame DEF ReadSlot, GaveUp, Conclude
  <2>3. CASE ForceUnmount(t)
    BY <2>3, SocketInside DEF ForceUnmount, Conclude, At, Evaluating
  <2>4. CASE ReleaseDisk(t)
    BY <2>4, SocketInside DEF ReleaseDisk, DeinitForced, Conclude, At, Evaluating, SocketInv
  <2>5. CASE pc[t] \in {"mount", "remount"} /\ Mounted(t)
    BY <2>5, SocketInside DEF Mounted, FsMountOk, Conclude, Evaluating
  <2>6. CASE pc[t] \in {"mount", "remount"} /\ NotMounted(t)
    BY <2>6, SocketInside DEF NotMounted, FsMountFail, Conclude, Evaluating, SocketInv
  <2>7. CASE TryMount(t) /\ FindStale(t)
    BY <2>7, SocketFrame DEF TryMount, FindStale, FsMountBusy
  <2>8. CASE UnmountStale(t)
    <3>1. pc[t] \in Evaluating /\ state = "ABSENT"
      BY <2>8 DEF UnmountStale, VolumeInv, At, Evaluating
    <3>2. ~mounted
      BY <3>1, <2>8, HolderAlone DEF UnmountStale, VolumeInv, Coherent, At, Holding, Evaluating
    <3>3. QED
      BY <2>8, <3>1, <3>2, SocketInside DEF UnmountStale
  <2>9. CASE Remount(t) /\ StillStale(t)
    BY <2>9, SocketFrame DEF Remount, StillStale, FsMountBusy, Conclude
  <2>10. CASE Publish(t)
    BY <2>10, SocketFrame DEF Publish
  <2>11. CASE Unlock(t)
    BY <2>11, SocketFrame DEF Unlock
  <2>12. CASE ReadObserver(t) \/ Notify(t)
    BY <2>12, SocketFrame DEF ReadObserver, Notify, Return, TypeOK
  <2>13. CASE MarkStarted(t)
    BY <2>13, SocketFrame DEF MarkStarted
  <2>14. CASE Spawn(t)
    BY <2>14 DEF Spawn, SocketInv, TypeOK, At, sdVars
  <2>15. CASE Check(t)
    <3>1. CASE Goto(t, "idle")
      BY <2>15, <3>1, SocketFrame DEF Check
    <3>2. CASE state = "READY" /\ Goto(t, "lent")
      <4>1. \A u \in Threads : ~At(u, "publish")
        BY <2>15, HolderAlone DEF Check, At, Holding, Evaluating
      <4>2. mounted
        BY <3>2, <4>1 DEF VolumeInv, Coherent
      <4>3. QED
        BY <2>15, <4>2 DEF Check, SocketInv, At, sdVars
    <3>3. QED
      BY <2>15, <3>1, <3>2 DEF Check
  <2>16. QED
    BY <1>2, <2>1, <2>2, <2>3, <2>4, <2>5, <2>6, <2>7, <2>8, <2>9, <2>10,
       <2>11, <2>12, <2>13, <2>14, <2>15 DEF InCall, TryMount, Remount, At
<1>3. ASSUME NEW t \in Threads, Call(t) PROVE SocketInv'
  <2>1. CASE RefreshCall(t) \/ InitCall(t) \/ AcquireCall(t)
    BY <2>1, SocketFrame DEF RefreshCall, InitCall, AcquireCall
  <2>2. CASE AcquireAgain(t)
    BY <2>2 DEF AcquireAgain, SocketInv, localVars, sdVars, At
  <2>3. QED
    BY <1>3, <2>1, <2>2 DEF Call
<1>4. ASSUME NEW t \in Threads, Release(t) PROVE SocketInv'
  <2>1. CASE UNCHANGED pc
    BY <1>4, <2>1 DEF Release, SocketInv, sdVars, At
  <2>2. CASE Goto(t, "idle")
    BY <1>4, <2>2, SocketFrame DEF Release
  <2>3. QED
    BY <1>4, <2>1, <2>2 DEF Release
<1>5. CASE Wake
  BY <1>5, SocketFrame, CardAssumption DEF Wake
<1>6. ASSUME NEW o \in ObserverArgs, Observe(o) PROVE SocketInv'
  BY <1>6 DEF Observe, SocketInv, localVars, sdVars, At
<1>7. CASE UNCHANGED cardVars
  BY <1>7 DEF cardVars, SocketInv, localVars, sdVars, At
<1>8. QED
  BY <1>1, <1>2, <1>3, <1>4, <1>5, <1>6, <1>7 DEF Next

\* If no card is put in before the removal of the previous one has been seen,
\* nobody ever reads one card through the volume of another.
THEOREM LoanIsGenuine ==
  OneInitialiser /\ ~HandSwap => (Spec => []LoanIsOfTheCard)
<1> SUFFICES ASSUME OneInitialiser, ~HandSwap PROVE Spec => []LoanIsOfTheCard
  OBVIOUS
<1>1. Init => SocketInv
  BY DEF Init, SocketInv, At
<1>2. IInv /\ SocketInv /\ [Next]_cardVars => SocketInv'
  BY SocketStep
<1>3. SocketInv => LoanIsOfTheCard
  BY DEF SocketInv, LoanIsOfTheCard
<1>4. Spec => []IInv
  BY CardInvariant
<1>5. QED
  BY <1>1, <1>2, <1>3, <1>4, PTL DEF Spec

---------------------------------------------------------------------------
\* The observer, when card_refresh is only called by card_init and the monitor.

Refreshing == Evaluating \union {"lock", "observe", "notify"}

\* Between publishing a state and having told it to the observer.
Telling == {"unlock", "observe", "notify"}

Informed == observer => told = state

\* An application thread refreshes only inside card_init, which is before there
\* is a monitor.
RefreshersInv ==
  \A t \in Apps : pc[t] \in Refreshing => back[t] = "spawn"

\* Who is telling tells the state as it is, and the observer misses nothing but
\* what it is about to be told.
ObserverInv ==
  /\ \A t \in Threads : pc[t] \in Telling => next[t] = state
  /\ \A t \in Threads : pc[t] \in {"unlock", "observe"} /\ ~changed[t] => Informed
  /\ (\A t \in Threads : pc[t] \notin Telling) => Informed

\* There is one evaluation at a time, from the lock to the call of the observer.
LEMMA RefreshAlone ==
  ASSUME OneInitialiser, IInv, RefreshersInv, NEW t \in Threads, pc[t] \in Refreshing
  PROVE  \A u \in Threads \ {t} : pc[u] \notin Refreshing
BY CardAssumption
DEF OneInitialiser, IInv, MonitorInv, RefreshersInv, Refreshing, Evaluating, At

\* A step of a thread that stays inside card_refresh, or outside.
LEMMA RefreshersFrame ==
  ASSUME TypeOK, RefreshersInv, NEW t \in Threads, NEW p, Goto(t, p),
         UNCHANGED back, p \in Refreshing => pc[t] \in Refreshing \/ t = Monitor
  PROVE  RefreshersInv'
BY CardAssumption DEF TypeOK, RefreshersInv, Goto

\* Where InCall leads to.
LEMMA RefreshersInside ==
  ASSUME IInv, RefreshersInv, NEW t \in Threads, InCall(t)
  PROVE  RefreshersInv'
<1> USE CardAssumption DEF IInv, moduleVars
<1>1. CASE Lock(t)
  <2>1. CASE UNCHANGED pc
    BY <1>1, <2>1 DEF Lock, RefreshersInv
  <2>2. CASE At(t, "lock") /\ Goto(t, "status")
    BY <1>1, <2>2, RefreshersFrame DEF Lock, Refreshing, At
  <2>3. CASE Goto(t, "check")
    BY <1>1, <2>3, RefreshersFrame DEF Lock, Refreshing, Evaluating
  <2>4. QED
    BY <1>1, <2>1, <2>2, <2>3 DEF Lock
<1>2. CASE ReadSlot(t) \/ ForceUnmount(t) \/ ReleaseDisk(t) \/ Publish(t) \/ Unlock(t)
  <2>1. pc[t] \in Refreshing /\ UNCHANGED back
    BY <1>2
    DEF ReadSlot, ForceUnmount, ReleaseDisk, Publish, Unlock, Refreshing, Evaluating, At
  <2>2. \E p : Goto(t, p)
    BY <1>2 DEF ReadSlot, ForceUnmount, ReleaseDisk, Publish, Unlock, Conclude
  <2>3. QED
    BY <2>1, <2>2, RefreshersFrame
<1>3. CASE TryMount(t) \/ UnmountStale(t) \/ Remount(t)
  <2>1. pc[t] \in Refreshing /\ UNCHANGED back
    BY <1>3 DEF TryMount, UnmountStale, Remount, Refreshing, Evaluating, At
  <2>2. \E p : Goto(t, p)
    BY <1>3
    DEF TryMount, UnmountStale, Remount, Mounted, NotMounted, FindStale, StillStale,
        Conclude
  <2>3. QED
    BY <2>1, <2>2, RefreshersFrame
<1>4. CASE ReadObserver(t) \/ Notify(t)
  <2>1. CASE Goto(t, "notify")
    BY <1>4, <2>1, RefreshersFrame DEF ReadObserver, Notify, Refreshing, At
  <2>2. CASE Goto(t, back[t])
    <3>1. back[t] \notin Refreshing
      BY DEF TypeOK, Refreshing, Evaluating
    <3>2. QED
      BY <1>4, <2>2, <3>1, RefreshersFrame DEF ReadObserver, Notify
  <2>3. QED
    BY <1>4, <2>1, <2>2 DEF ReadObserver, Notify, Return
<1>5. CASE MarkStarted(t)
  BY <1>5 DEF MarkStarted, RefreshersInv, TypeOK, Goto
<1>6. CASE Spawn(t)
  BY <1>6 DEF Spawn, RefreshersInv, TypeOK, Refreshing, Evaluating
<1>7. CASE Check(t)
  BY <1>7, RefreshersFrame DEF Check, Refreshing, Evaluating
<1>8. QED
  BY <1>1, <1>2, <1>3, <1>4, <1>5, <1>6, <1>7 DEF InCall

LEMMA RefreshersStep ==
  ASSUME Refreshers = {}, IInv, RefreshersInv, [Next]_cardVars PROVE RefreshersInv'
<1> USE CardAssumption DEF IInv, moduleVars
<1>1. CASE Hand \/ UNCHANGED cardVars \/ \E o \in ObserverArgs : Observe(o)
  BY <1>1 DEF Hand, Observe, cardVars, localVars, RefreshersInv
<1>2. ASSUME NEW t \in Threads, InCall(t) PROVE RefreshersInv'
  BY <1>2, RefreshersInside
<1>3. ASSUME NEW t \in Threads, Call(t) PROVE RefreshersInv'
  <2>1. CASE InitCall(t) \/ AcquireCall(t)
    BY <1>3, <2>1, RefreshersFrame DEF InitCall, AcquireCall, Refreshing, Evaluating
  <2>2. CASE AcquireAgain(t)
    BY <2>2 DEF AcquireAgain, localVars, RefreshersInv
  <2>3. QED
    BY <1>3, <2>1, <2>2 DEF Call, RefreshCall
<1>4. ASSUME NEW t \in Threads, Release(t) PROVE RefreshersInv'
  <2>1. CASE UNCHANGED pc
    BY <1>4, <2>1 DEF Release, RefreshersInv
  <2>2. CASE Goto(t, "idle")
    BY <1>4, <2>2, RefreshersFrame DEF Release, Refreshing, Evaluating
  <2>3. QED
    BY <1>4, <2>1, <2>2 DEF Release
<1>5. CASE Wake
  BY <1>5, RefreshersFrame DEF Wake
<1>6. QED
  BY <1>1, <1>2, <1>3, <1>4, <1>5 DEF Next

\* A step between places where nobody is telling.
LEMMA ObserverFrame ==
  ASSUME TypeOK, ObserverInv, NEW t \in Threads, NEW p,
         pc[t] \notin Telling, p \notin Telling, Goto(t, p),
         UNCHANGED <<state, observer, told, changed>>,
         \A u \in Threads \ {t} : next'[u] = next[u]
  PROVE  ObserverInv'
BY DEF TypeOK, ObserverInv, Informed, Telling, Goto

\* The end of a telling: whoever told was the only one telling.
LEMMA ObserverTold ==
  ASSUME OneInitialiser, IInv, RefreshersInv, ObserverInv,
         NEW t \in Threads, pc[t] \in {"observe", "notify"}, Return(t),
         Informed', UNCHANGED <<state, back>>
  PROVE  ObserverInv'
<1>1. \A u \in Threads \ {t} : pc[u] \notin Telling
  BY RefreshAlone DEF Refreshing, Evaluating, Telling
<1>2. \A u \in Threads : pc'[u] \notin Telling
  BY <1>1 DEF Return, Goto, IInv, TypeOK, Telling
<1>3. QED
  BY <1>2 DEF ObserverInv, Telling

\* The observer is told every transition, in the order of the transitions.
LEMMA ObserverStep ==
  ASSUME OneInitialiser, IInv, RefreshersInv, ObserverInv, [Next]_cardVars
  PROVE  ObserverInv'
<1> USE CardAssumption DEF IInv, moduleVars, history
<1>1. CASE Hand \/ UNCHANGED cardVars
  BY <1>1 DEF Hand, cardVars, localVars, ObserverInv, Informed
<1>2. ASSUME NEW t \in Threads, InCall(t) PROVE ObserverInv'
  <2>1. CASE Lock(t)
    <3>1. CASE UNCHANGED pc
      BY <2>1, <3>1 DEF Lock, ObserverInv, Informed
    <3>2. CASE At(t, "lock") /\ Goto(t, "status")
      BY <2>1, <3>2, ObserverFrame DEF Lock, At, Telling
    <3>3. CASE At(t, "acquire") /\ Goto(t, "check")
      BY <2>1, <3>3, ObserverFrame DEF Lock, At, Telling
    <3>4. QED
      BY <2>1, <3>1, <3>2, <3>3 DEF Lock
  <2>2. CASE ReadSlot(t)
    BY <2>2, ObserverFrame DEF ReadSlot, GaveUp, Conclude, At, Telling, TypeOK
  <2>3. CASE ForceUnmount(t) \/ ReleaseDisk(t)
    BY <2>3, ObserverFrame DEF ForceUnmount, ReleaseDisk, Conclude, At, Telling, TypeOK
  <2>4. CASE TryMount(t)
    BY <2>4, ObserverFrame
    DEF TryMount, Mounted, NotMounted, FindStale, Conclude, At, Telling, TypeOK
  <2>5. CASE UnmountStale(t)
    BY <2>5, ObserverFrame DEF UnmountStale, At, Telling
  <2>6. CASE Remount(t)
    BY <2>6, ObserverFrame
    DEF Remount, Mounted, NotMounted, StillStale, Conclude, At, Telling, TypeOK
  <2>7. CASE Publish(t)
    <3>1. \A u \in Threads \ {t} : pc[u] \notin Telling
      BY <2>7, RefreshAlone DEF Publish, At, Refreshing, Evaluating, Telling
    <3>2. Informed
      BY <2>7, <3>1 DEF Publish, At, ObserverInv, Telling
    <3>3. pc'[t] = "unlock" /\ \A u \in Threads \ {t} : pc'[u] \notin Telling
      BY <2>7, <3>1 DEF Publish, TypeOK, Goto
    <3>4. next'[t] = state' /\ (~changed'[t] => Informed')
      BY <2>7, <3>2 DEF Publish, TypeOK, Informed
    <3>5. QED
      BY <3>3, <3>4 DEF ObserverInv, Telling
  <2>8. CASE Unlock(t)
    BY <2>8 DEF Unlock, TypeOK, Goto, At, ObserverInv, Informed, Telling
  <2>9. CASE ReadObserver(t) /\ Goto(t, "notify") /\ UNCHANGED <<next, changed>>
    BY <2>9 DEF ReadObserver, TypeOK, Goto, At, ObserverInv, Informed, Telling
  <2>10. CASE ReadObserver(t) /\ ~(changed[t] /\ observer)
    <3>1. Informed'
      BY <2>10 DEF ReadObserver, At, ObserverInv, Informed
    <3>2. QED
      BY <2>10, <3>1, ObserverTold DEF ReadObserver, At
  <2>11. CASE Notify(t)
    <3>1. Informed'
      BY <2>11 DEF Notify, At, ObserverInv, Informed, Telling
    <3>2. QED
      BY <2>11, <3>1, ObserverTold DEF Notify, At
  <2>12. CASE MarkStarted(t)
    BY <2>12, ObserverFrame DEF MarkStarted, At, Telling
  <2>13. CASE Spawn(t)
    <3>1. pc[Monitor] = "none" /\ Monitor \in Threads
      BY <2>13 DEF Spawn, MonitorInv, TypeOK, At
    <3>2. QED
      BY <2>13, <3>1 DEF Spawn, TypeOK, At, ObserverInv, Informed, Telling
  <2>14. CASE Check(t)
    BY <2>14, ObserverFrame DEF Check, At, Telling
  <2>15. QED
    BY <1>2, <2>1, <2>2, <2>3, <2>4, <2>5, <2>6, <2>7, <2>8, <2>9, <2>10,
       <2>11, <2>12, <2>13, <2>14 DEF InCall, ReadObserver
<1>3. ASSUME NEW t \in Threads, Call(t) PROVE ObserverInv'
  <2>1. CASE RefreshCall(t) \/ InitCall(t) \/ AcquireCall(t)
    BY <2>1, ObserverFrame DEF RefreshCall, InitCall, AcquireCall, At, Telling
  <2>2. CASE AcquireAgain(t)
    BY <2>2 DEF AcquireAgain, ObserverInv, Informed, localVars
  <2>3. QED
    BY <1>3, <2>1, <2>2 DEF Call
<1>4. ASSUME NEW t \in Threads, Release(t) PROVE ObserverInv'
  <2>1. CASE UNCHANGED pc
    BY <1>4, <2>1 DEF Release, ObserverInv, Informed
  <2>2. CASE Goto(t, "idle")
    BY <1>4, <2>2, ObserverFrame DEF Release, At, Telling
  <2>3. QED
    BY <1>4, <2>1, <2>2 DEF Release
<1>5. CASE Wake
  BY <1>5, ObserverFrame DEF Wake, At, Telling
<1>6. ASSUME NEW o \in ObserverArgs, Observe(o) PROVE ObserverInv'
  BY <1>6 DEF Observe, ObserverInv, Informed, localVars
<1>7. QED
  BY <1>1, <1>2, <1>3, <1>4, <1>5, <1>6 DEF Next

\* As the firmware calls it, with the evaluations of card_init over before the
\* monitor begins, the observer is never left with an old state: see the README
\* for what a second caller of card_refresh does to that.
THEOREM ObserverIsTold ==
  OneInitialiser /\ Refreshers = {} => (Spec => []ObserverInStep)
<1> SUFFICES ASSUME OneInitialiser, Refreshers = {} PROVE Spec => []ObserverInStep
  OBVIOUS
<1>1. Init => RefreshersInv /\ ObserverInv
  BY CardAssumption
  DEF Init, RefreshersInv, ObserverInv, Informed, Refreshing, Evaluating, Telling
<1>2. IInv /\ RefreshersInv /\ ObserverInv /\ [Next]_cardVars
        => RefreshersInv' /\ ObserverInv'
  BY RefreshersStep, ObserverStep
<1>3. ObserverInv => ObserverInStep
  BY DEF ObserverInv, Informed, Telling, ObserverInStep
<1>4. Spec => []IInv
  BY CardInvariant
<1>5. QED
  BY <1>1, <1>2, <1>3, <1>4, PTL DEF Spec

---------------------------------------------------------------------------
\* A loan freezes the volume.

\* Whoever owns the mutex keeps every other thread out of a loan and out of an
\* evaluation.
LEMMA OwnerAlone ==
  ASSUME LockInv, NEW t \in Threads, owner = t
  PROVE  \A u \in Threads \ {t} : pc[u] \notin Holding
BY DEF LockInv

---------------------------------------------------------------------------
\* Steps that change neither state, card_mounted nor the volume.
LEMMA Frozen ==
  ASSUME NEW t \in Threads, pc[t] \notin {"force_unmount", "mount",
           "unmount_stale", "remount", "publish"},
         InCall(t) \/ Call(t) \/ Release(t)
  PROVE  UNCHANGED <<state, mounted, mnt, vol>>
<1> USE DEF sdVars, moduleVars, At
<1>1. CASE InCall(t)
  BY <1>1 DEF InCall, Lock, ReadSlot, ForceUnmount, ReleaseDisk, DeinitForced,
    TryMount, UnmountStale, Remount, Publish, Unlock, ReadObserver, Notify,
    MarkStarted, Spawn, Check
<1>2. CASE Call(t)
  BY <1>2 DEF Call, RefreshCall, InitCall, AcquireCall, AcquireAgain
<1>3. CASE Release(t)
  BY <1>3 DEF Release
<1>4. QED
  BY <1>1, <1>2, <1>3

\* A volume on loan stays mounted, and the state does not move, until the
\* borrower gives it back, whatever the other threads and the socket do.
THEOREM LoanIsSafe == OneInitialiser => (Spec => LoanKeepsVolume)
<1> SUFFICES ASSUME OneInitialiser PROVE Spec => LoanKeepsVolume
  OBVIOUS
<1> DEFINE Keeps ==
      \A t \in Threads : At(t, "lent") /\ pc'[t] = "lent"
        => UNCHANGED <<state, mounted, mnt, vol>>
<1>1. IInv /\ [Next]_cardVars => [Keeps]_cardVars
  <2> SUFFICES ASSUME IInv, [Next]_cardVars,
                      NEW t \in Threads, At(t, "lent")
               PROVE  UNCHANGED <<state, mounted, mnt, vol>>
    OBVIOUS
  <2>1. CASE Hand
    BY <2>1 DEF Hand, Insert, Remove, moduleVars
  <2>2. ASSUME NEW u \in Threads, InCall(u) \/ Call(u) \/ Release(u)
        PROVE  UNCHANGED <<state, mounted, mnt, vol>>
    <3>1. pc[u] \notin Evaluating
      BY HolderAlone DEF IInv, At, Holding, Evaluating
    <3>2. QED
      BY <2>2, <3>1, Frozen DEF Evaluating
  <2>3. CASE Wake
    BY <2>3 DEF Wake, moduleVars, sdVars
  <2>4. ASSUME NEW o \in ObserverArgs, Observe(o)
        PROVE  UNCHANGED <<state, mounted, mnt, vol>>
    BY <2>4 DEF Observe, sdVars
  <2>5. CASE UNCHANGED cardVars
    BY <2>5 DEF cardVars, moduleVars, sdVars
  <2>6. QED
    BY <2>1, <2>2, <2>3, <2>4, <2>5 DEF Next
<1>2. QED
  BY <1>1, CardInvariant, PTL DEF Spec, LoanKeepsVolume

---------------------------------------------------------------------------
\* The refinement of CardContract.

\* The abstract value of `loans`.
Loans == [t \in Threads |-> IF At(t, "lent") THEN depth ELSE 0]

Quiet == UNCHANGED <<state, Loans>>

\* Nobody has the volume, before or after the step: nothing is on loan.
LEMMA NobodyBorrows ==
  ASSUME \A t \in Threads : ~At(t, "lent"),
         \A t \in Threads : pc'[t] # "lent"
  PROVE  /\ UNCHANGED Loans
         /\ \A t \in Threads : Loans[t] = 0
BY DEF Loans, At

\* A thread outside the mutex moves to another place outside it.
LEMMA OutsiderQuiet ==
  ASSUME TypeOK, NEW t \in Threads, NEW p, Goto(t, p),
         p # "lent", ~At(t, "lent"), UNCHANGED <<state, depth>>
  PROVE  Quiet
BY DEF TypeOK, Goto, Quiet, Loans, At

\* Steps of the holder that stay clear of a loan.
LEMMA HolderQuiet ==
  ASSUME TypeOK, LockInv, NEW t \in Threads, NEW p, Goto(t, p),
         p # "lent", ~At(t, "lent"), owner \in {NoThread, t}, state' = state
  PROVE  Quiet
<1>1. \A u \in Threads : ~At(u, "lent") /\ pc'[u] # "lent"
  BY MutexAssumption DEF TypeOK, LockInv, Goto, At, Holding
<1>2. QED
  BY <1>1, NobodyBorrows DEF Quiet

\* The step of the contract that a step of Card is, or none.
Kept == Quiet \/ Contract!ContractNext

\* One thread holds the volume before and after, at depths d and e.
LEMMA LoansOfOne ==
  ASSUME TypeOK, LockInv, NEW t \in Threads, owner = t,
         NEW e \in Nat, \A u \in Threads \ {t} : pc'[u] # "lent",
         IF pc'[t] = "lent" THEN depth' = e ELSE e = 0
  PROVE  /\ Loans' = [Loans EXCEPT ![t] = e]
         /\ \A u \in Threads \ {t} : Loans[u] = 0
         /\ Loans[t] = IF At(t, "lent") THEN depth ELSE 0
<1>1. \A u \in Threads \ {t} : ~At(u, "lent")
  BY OwnerAlone DEF At, Holding
<1>2. QED
  BY <1>1 DEF Loans, At

\* publish moves the state along one row of the table of card_refresh.
LEMMA PublishKept ==
  ASSUME IInv, NEW t \in Threads, Publish(t)
  PROVE  Kept
<1>1. \A u \in Threads : ~At(u, "lent") /\ pc'[u] # "lent"
  BY HolderAlone DEF IInv, TypeOK, Publish, Goto, At, Holding, Evaluating
<1>2. UNCHANGED Loans /\ \A u \in Threads : Loans[u] = 0
  BY <1>1, NobodyBorrows
<1>3. CASE state' = state
  BY <1>2, <1>3 DEF Kept, Quiet
<1>4. CASE state' # state
  <2>1. state' = next[t] /\ state \in States /\ next[t] \in States
    BY DEF Publish, IInv, TypeOK
  <2>2. state = "ABSENT" \/ next[t] = "ABSENT"
    BY <1>4, <2>1 DEF Publish, IInv, VolumeInv
  <2>3. state' \in Contract!Successors(state)
    BY <1>4, <2>1, <2>2 DEF States, Contract!Successors
  <2>4. Contract!Evaluate
    BY <1>2, <2>3 DEF Contract!Evaluate, Contract!NoLoans, Loans
  <2>5. QED
    BY <2>4 DEF Kept, Contract!ContractNext
<1>5. QED
  BY <1>3, <1>4

\* card_acquire with the mutex taken lends the volume or gives the mutex back.
LEMMA CheckKept ==
  ASSUME IInv, NEW t \in Threads, Check(t)
  PROVE  Kept
<1>1. owner = t /\ depth = 1 /\ At(t, "check") /\ state' = state
  BY DEF IInv, LockInv, Check, At, Holding, moduleVars
<1>2. CASE state = "READY" /\ Goto(t, "lent") /\ UNCHANGED mutexVars
  <2>1. \A u \in Threads \ {t} : pc'[u] # "lent"
    BY <1>1, <1>2, OwnerAlone DEF IInv, TypeOK, Goto, Holding
  <2>2. pc'[t] = "lent" /\ depth' = 1
    BY <1>1, <1>2 DEF IInv, TypeOK, Goto, mutexVars
  <2>3. /\ Loans' = [Loans EXCEPT ![t] = 1]
        /\ \A u \in Threads \ {t} : Loans[u] = 0
        /\ Loans[t] = 0
    BY <1>1, <2>1, <2>2, LoansOfOne DEF IInv, At
  <2>4. Loans' = [Loans EXCEPT ![t] = Loans[t] + 1]
    BY <2>3
  <2>5. Contract!Lend(t)
    BY <1>1, <1>2, <2>3, <2>4 DEF Contract!Lend, Loans
  <2>6. QED
    BY <2>5 DEF Kept, Contract!ContractNext
<1>3. CASE Goto(t, "idle")
  BY <1>1, <1>3, HolderQuiet DEF IInv, At, Kept
<1>4. QED
  BY <1>2, <1>3 DEF Check

LEMMA AcquireAgainKept ==
  ASSUME IInv, NEW t \in Threads, AcquireAgain(t)
  PROVE  Kept
<1>1. /\ owner = t /\ depth \in Nat /\ depth' = depth + 1
      /\ At(t, "lent") /\ pc' = pc /\ state = "READY" /\ state' = state
  BY DEF IInv, TypeOK, MutexTypeOK, AcquireAgain, MutexRelock, localVars, moduleVars
<1>2. \A u \in Threads \ {t} : pc'[u] # "lent"
  BY <1>1, OwnerAlone DEF IInv, Holding
<1>3. /\ Loans' = [Loans EXCEPT ![t] = depth + 1]
      /\ \A u \in Threads \ {t} : Loans[u] = 0
      /\ Loans[t] = depth
  BY <1>1, <1>2, LoansOfOne DEF IInv, At
<1>4. Contract!Lend(t)
  BY <1>1, <1>3 DEF Contract!Lend, Loans
<1>5. QED
  BY <1>4 DEF Kept, Contract!ContractNext

LEMMA ReleaseKept ==
  ASSUME IInv, NEW t \in Threads, Release(t)
  PROVE  Kept
<1>1. owner = t /\ depth \in Nat /\ At(t, "lent") /\ state' = state
  BY DEF IInv, LockInv, TypeOK, MutexTypeOK, Release, At, Holding, moduleVars
<1>2. depth > 0 /\ IF pc'[t] = "lent" THEN depth' = depth - 1 ELSE depth - 1 = 0
  <2>1. CASE MutexUnnest(t) /\ UNCHANGED pc
    BY <2>1, <1>1 DEF MutexUnnest, At
  <2>2. CASE MutexRelease(t) /\ Goto(t, "idle")
    BY <2>2, <1>1 DEF MutexRelease, Goto, IInv, TypeOK
  <2>3. QED
    BY <2>1, <2>2 DEF Release
<1>3. \A u \in Threads \ {t} : pc'[u] # "lent"
  BY <1>1, OwnerAlone DEF IInv, TypeOK, Release, Goto, Holding
<1>4. Loans' = [Loans EXCEPT ![t] = depth - 1] /\ Loans[t] = depth
  BY <1>1, <1>2, <1>3, LoansOfOne DEF IInv
<1>5. Contract!GiveBack(t)
  BY <1>1, <1>2, <1>4 DEF Contract!GiveBack, Loans
<1>6. QED
  BY <1>5 DEF Kept, Contract!ContractNext

\* The other steps of a thread in a call change neither the state nor a loan.
LEMMA OtherKept ==
  ASSUME IInv, NEW t \in Threads,
         \/ Lock(t) \/ ReadSlot(t) \/ ForceUnmount(t) \/ ReleaseDisk(t)
         \/ TryMount(t) \/ UnmountStale(t) \/ Remount(t)
         \/ Unlock(t) \/ ReadObserver(t) \/ Notify(t)
         \/ MarkStarted(t) \/ Spawn(t)
         \/ RefreshCall(t) \/ InitCall(t) \/ AcquireCall(t)
  PROVE  Quiet
<1> USE DEF IInv, moduleVars, mutexVars
<1>1. CASE Lock(t)
  <2>1. CASE MutexTake(t) /\ \E p \in {"status", "check"} : Goto(t, p)
    BY <1>1, <2>1, HolderQuiet DEF Lock, MutexTake, Takeable, At
  <2>2. CASE MutexPend(t) /\ UNCHANGED pc
    BY <1>1, <2>2 DEF Lock, MutexPend, Quiet, Loans, At
  <2>3. QED
    BY <1>1, <2>1, <2>2 DEF Lock
<1>2. CASE pc[t] \in Evaluating /\ state' = state
           /\ \E p \in Places \ {"lent"} : Goto(t, p)
  BY <1>2, HolderQuiet DEF LockInv, Evaluating, Holding, At
<1>3. CASE ReadSlot(t) \/ ForceUnmount(t) \/ ReleaseDisk(t) \/ TryMount(t)
           \/ UnmountStale(t) \/ Remount(t) \/ Unlock(t)
  BY <1>2, <1>3 DEF ReadSlot, GaveUp, ForceUnmount, ReleaseDisk, TryMount, Mounted,
    NotMounted, FindStale, UnmountStale, Remount, StillStale, Conclude, Unlock,
    Evaluating, Holding, Places, At
<1>4. CASE ~At(t, "lent") /\ UNCHANGED <<state, depth>>
           /\ \E p \in Places \ {"lent"} : Goto(t, p)
  BY <1>4, OutsiderQuiet
<1>5. CASE ReadObserver(t) \/ Notify(t)
  BY <1>4, <1>5 DEF ReadObserver, Notify, Return, TypeOK, Places, Resting, At
<1>6. CASE MarkStarted(t) \/ RefreshCall(t) \/ InitCall(t) \/ AcquireCall(t)
  BY <1>4, <1>6 DEF MarkStarted, RefreshCall, InitCall, AcquireCall, Places,
    Resting, At
<1>7. CASE Spawn(t)
  BY <1>7 DEF Spawn, Quiet, Loans, At, MonitorInv, TypeOK
<1>8. QED
  BY <1>1, <1>3, <1>5, <1>6, <1>7

\* Every step of Card keeps the contract.
LEMMA StepKept ==
  ASSUME IInv, [Next]_cardVars PROVE Kept
<1>1. CASE Hand
  BY <1>1 DEF Hand, Kept, Quiet, Loans, At, moduleVars, mutexVars, localVars
<1>2. ASSUME NEW t \in Threads, InCall(t) PROVE Kept
  BY <1>2, OtherKept, PublishKept, CheckKept DEF InCall, Kept
<1>3. ASSUME NEW t \in Threads, Call(t) PROVE Kept
  BY <1>3, OtherKept, AcquireAgainKept DEF Call, Kept
<1>4. ASSUME NEW t \in Threads, Release(t) PROVE Kept
  BY <1>4, ReleaseKept
<1>5. CASE Wake
  BY <1>5, OutsiderQuiet, CardAssumption DEF Wake, Kept, IInv, At, moduleVars, mutexVars
<1>6. ASSUME NEW o \in ObserverArgs, Observe(o) PROVE Kept
  BY <1>6 DEF Observe, Kept, Quiet, Loans, At, mutexVars, localVars
<1>7. CASE UNCHANGED cardVars
  BY <1>7 DEF cardVars, Kept, Quiet, Loans, At, moduleVars, mutexVars, localVars
<1>8. QED
  BY <1>1, <1>2, <1>3, <1>4, <1>5, <1>6, <1>7 DEF Next

\* The card module, with its threads, its mutex, the disk and the mount list,
\* implements what card.h promises, for any number of threads and cards.
THEOREM CardRefinesContract == OneInitialiser => (Spec => ImplementsContract)
<1> SUFFICES ASSUME OneInitialiser PROVE Spec => ImplementsContract
  OBVIOUS
<1>1. Init => Contract!ContractInit
  BY CardAssumption DEF Init, Contract!ContractInit, At
<1>2. IInv /\ [Next]_cardVars => [Contract!ContractNext]_(Contract!contractVars)
  BY StepKept DEF Kept, Quiet, Loans, Contract!contractVars
<1>3. QED
  BY <1>1, <1>2, CardInvariant, PTL DEF Spec, ImplementsContract, Contract!ContractSpec
=============================================================================
