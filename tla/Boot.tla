-------------------------------- MODULE Boot --------------------------------
(***************************************************************************)
(* src/main.c: what the main thread does from reset to the heartbeat, on   *)
(* the board over storage.c and the card, in the simulator over            *)
(* storage_fake.c.  On the board the monitor evaluates the socket beside   *)
(* it from card_init on, and cards come and go under the report.           *)
(*                                                                         *)
(* A definition marked "Defect" is not part of the model: it is what the   *)
(* definition below it would be with a plausible mistake in the code.      *)
(***************************************************************************)
EXTENDS Storage, StorageFake

CONSTANTS
  Main,         \* the main thread
  FileMax,      \* STORAGE_FILE_MAX, the room for a track
  QueueDepth,   \* CMD_QUEUE_DEPTH
  BuiltFor      \* "board" and "sim"

ASSUME BootAssumption ==
  /\ Main \in Threads
  /\ LibraryMax \in Capacities /\ 0..(LibraryMax - 1) \subseteq Tracks
  /\ FileMax \in Nat \ {0} /\ QueueDepth \in Nat \ {0} /\ FakeTracks \in Seq(0..FileMax)

VARIABLES
  target,       \* the target the program was built for
  boot,         \* where main is
  led,          \* the LED of the heartbeat
  library,      \* main's vector, as storage.c filled it
  count,        \* what storage_scan answered
  answers,      \* what storage_load answered, track by track
  published,    \* the state in the snapshot
  copy,         \* the copy the report reads of it
  cmd_queue,    \* the queue of commands
  received      \* the command the report took out of it

listVars == <<library, count, answers>>
selfTestVars == <<published, copy, cmd_queue, received>>
bootVars == <<target, boot, led, listVars, selfTestVars>>
firmwareVars == <<storageVars, fakeVars, bootVars>>

OnBoard == target = "board"

FirmwareInit ==
  /\ Init /\ FakeInit
  /\ target \in BuiltFor
  /\ boot = "reset"
  /\ led = FALSE
  /\ library = <<>> /\ count = 0 /\ answers = <<>>
  /\ published = "STOPPED" /\ copy = "unset"
  /\ cmd_queue = <<>> /\ received = Unset

Reached(from, to) == boot = from /\ boot' = to

---------------------------------------------------------------------------
\* heartbeat_init; without its LED main returns, and nothing else is started.
HeartbeatInit ==
  /\ boot = "reset" /\ boot' \in {"card", "returned"}
  /\ UNCHANGED <<storageVars, fakeVars, target, led, listVars, selfTestVars>>

\* card_report: the first evaluation of the socket is before the monitor.
CardReport ==
  /\ Reached("card", "scan")
  /\ (OnBoard /\ Poll) \/ UNCHANGED storageVars
  /\ UNCHANGED <<fakeVars, target, led, listVars, selfTestVars>>

\* library_report.  storage_present is only logged.
ScanLibrary ==
  /\ IF OnBoard
       THEN Reached("scan", "scanning") /\ ScanCall(Main, LibraryMax) /\ UNCHANGED fakeVars
       ELSE Reached("scan", "scanned") /\ FakeScan(LibraryMax) /\ UNCHANGED storageVars
  /\ UNCHANGED <<target, led, listVars, selfTestVars>>

\* The call returns, on the board after what storage.c does in it.
Back(from) ==
  /\ boot = from
  /\ UNCHANGED fakeVars
  /\ IF OnBoard THEN At(Main, "back") /\ Return(Main) ELSE UNCHANGED storageVars

Answered == IF OnBoard THEN result[Main] ELSE fake_result

ScanReturns ==
  /\ \E from \in {"scanning", "scanned"} : Back(from) /\ (OnBoard <=> from = "scanning")
  /\ count' = Answered
  /\ library' = IF OnBoard THEN out[Main] ELSE library
  /\ boot' = IF Answered < 0 THEN "snapshot" ELSE "load"
  /\ UNCHANGED <<target, led, answers, selfTestVars>>

LoadTrack ==
  /\ Len(answers) < count
  /\ IF OnBoard
       THEN Reached("load", "loading") /\ LoadCall(Main, Len(answers)) /\ UNCHANGED fakeVars
       ELSE Reached("load", "loading") /\ FakeLoad(Len(answers), FileMax) /\ UNCHANGED storageVars
  /\ UNCHANGED <<target, led, listVars, selfTestVars>>

\* Defect: the `continue` of a track that was not loaded skips the index.
LoadReturnsUncounted ==
  /\ Back("loading")
  /\ answers' = IF Answered < 0 THEN answers ELSE Append(answers, Answered)
  /\ boot' = "load"
  /\ UNCHANGED <<target, led, library, count, selfTestVars>>

LoadReturns ==
  /\ Back("loading")
  /\ answers' = Append(answers, Answered)
  /\ boot' = "load"
  /\ UNCHANGED <<target, led, library, count, selfTestVars>>

LibraryReported ==
  /\ Reached("load", "snapshot")
  /\ Len(answers) = count
  /\ UNCHANGED <<storageVars, fakeVars, target, led, listVars, selfTestVars>>

\* snapshot_publish and snapshot_read; what was published stays so.
SnapshotReport ==
  /\ Reached("snapshot", "cmd")
  /\ published' = "PLAYING"
  /\ copy' = published'
  /\ UNCHANGED <<storageVars, fakeVars, target, led, listVars, cmd_queue, received>>

\* cmd_flush.
CmdFlush ==
  /\ Reached("cmd", "post")
  /\ cmd_queue' = <<>>
  /\ UNCHANGED <<storageVars, fakeVars, target, led, listVars, published, copy, received>>

\* The index of the track that cmd_report selects.
Selected == 1

\* cmd_post of CMD_SELECT: refused outside the library and when there is no room.
CmdPost ==
  /\ IF Selected < LibraryMax /\ Len(cmd_queue) < QueueDepth
       THEN Reached("post", "get") /\ cmd_queue' = Append(cmd_queue, Selected)
       ELSE Reached("post", "blink") /\ UNCHANGED cmd_queue
  /\ UNCHANGED <<storageVars, fakeVars, target, led, listVars, published, copy, received>>

\* cmd_get with K_NO_WAIT.
CmdGet ==
  /\ Reached("get", "blink")
  /\ IF cmd_queue = <<>>
       THEN UNCHANGED <<cmd_queue, received>>
       ELSE cmd_queue' = Tail(cmd_queue) /\ received' = Head(cmd_queue)
  /\ UNCHANGED <<storageVars, fakeVars, target, led, listVars, published, copy>>

CmdReport == CmdFlush \/ CmdPost \/ CmdGet

Blink ==
  /\ boot = "blink"
  /\ led' = ~led
  /\ UNCHANGED <<storageVars, fakeVars, target, boot, listVars, selfTestVars>>

MainStep ==
  \/ HeartbeatInit \/ CardReport \/ ScanLibrary \/ ScanReturns \/ LoadTrack
  \/ LoadReturns \/ LibraryReported \/ SnapshotReport \/ CmdReport \/ Blink
  \/ (Inside(Main) /\ UNCHANGED <<fakeVars, bootVars>>)

\* The monitor exists once card_init has returned.
MonitorStep ==
  /\ OnBoard /\ boot \notin {"reset", "returned", "card"}
  /\ Poll
  /\ UNCHANGED <<fakeVars, bootVars>>

\* What stands for the card in the simulator.
KnobStep ==
  /\ ~OnBoard
  /\ FakeKnobs
  /\ UNCHANGED <<storageVars, bootVars>>

Returned == boot = "returned" /\ UNCHANGED firmwareVars

FirmwareNext == MainStep \/ MonitorStep \/ KnobStep \/ Returned

FirmwareSpec == FirmwareInit /\ [][FirmwareNext]_firmwareVars

\* The main thread runs.  What keeps it from the volume is the evaluation of the
\* monitor, which Poll makes a single step.
FirmwareFair == FirmwareSpec /\ WF_firmwareVars(MainStep)

---------------------------------------------------------------------------
\* Properties.

\* As long as the report goes through its list, the table of storage.c has each
\* track under the index main was given for it, although the card may have been
\* taken out, or changed, since.
ListIsTheTable ==
  OnBoard /\ boot \in {"load", "loading"} =>
    /\ lib_count = count /\ Len(library) = count
    /\ \A i \in 1..count : library[i].index = i - 1 /\ library[i].file = lib_files[i]

\* So every track the report lists is known to storage_load under that index: what it
\* answers is what becomes of a track of the library, never that there is none, and
\* the file it is to open is the one that was listed.
ListedIsLoadable ==
  /\ ListIsTheTable
  /\ Len(answers) <= LibraryMax
  /\ \A i \in DOMAIN answers :
       answers[i] >= 0 \/ answers[i] \in {ENOTSUP, ENODEV, EIO}

\* Whatever the card does, main gets past its reports and the LED blinks on: every
\* call of the storage returns, with a card, without one and with one that fails.
MainBlinks ==
  boot = "card" ~> [](<>led /\ <>~led)
=============================================================================
