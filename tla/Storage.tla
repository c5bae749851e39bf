------------------------------ MODULE Storage -------------------------------
(***************************************************************************)
(* src/storage.c over the contract of the card: the scan of the root of    *)
(* the volume into the table of files, and the lookup of a track in it.    *)
(*                                                                         *)
(* Any thread may be in storage_scan or in storage_load; each step is an   *)
(* access to the card, to the table or to the loan.  The monitor evaluates *)
(* the socket in between (Evaluate of CardContract, which Card implements) *)
(* and cards come and go; what is on loan does not change while it is.     *)
(* Every access to the disk may fail, also with the card in its place, and *)
(* may work with the card gone, out of the FatFs window.                   *)
(*                                                                         *)
(* A definition marked "Defect" is not part of the model: it is what the   *)
(* definition below it would be with a plausible mistake in the code.      *)
(***************************************************************************)
EXTENDS CardContract, StorageApi, Sequences, FiniteSets

CONSTANTS
  Cards,        \* the cards of the world
  NoCard,       \* no volume mounted
  Root,         \* Root[c]: the entries of the root directory of c, in order
  Capacities,   \* what callers pass as max, zero for a call without room
  Tracks        \* what callers pass as track

ASSUME StorageAssumption ==
  /\ NoCard \notin Cards
  /\ LibraryMax \in Nat \ {0}
  /\ Capacities \subseteq Nat
  /\ Tracks \subseteq Int
  /\ \A c \in Cards : Len(Root[c]) \in Nat /\ DOMAIN Root[c] = 1..Len(Root[c])

VARIABLES
  vol,          \* the card whose volume is mounted
  lib_files,    \* lib_files[i]: the file of track i - 1
  lib_count,    \* how many entries of lib_files are the library
  pc,           \* where each thread is
  arg,          \* max of a scan, track of a load, zero between calls
  pos,          \* entries of the directory already read
  ignored,      \* the local `ignored` of storage_scan
  result,       \* what the call is going to return
  out,          \* the caller's vector, as far as it has been written
  skipped       \* the caller's *skipped

tableVars == <<lib_files, lib_count>>
scanVars == <<pos, ignored, out, skipped>>
storageVars == <<contractVars, vol, tableVars, pc, arg, result, scanVars>>

Unused == "unused"

\* What *skipped holds before the call.
Unset == 99

Scanning == {"opendir", "readdir", "describe", "settle"}
Borrowing == Scanning \union {"scanned", "lookup", "looked"}
Places == Borrowing \union {"idle", "scan", "load", "back"}

---------------------------------------------------------------------------
\* Directory entries and what is made of them.

\* is_track_file.  `hidden` is a name that starts with an underscore.
IsTrackFile(entry) ==
  entry.kind = "file" /\ ~entry.hidden /\ entry.ext \in {"TXT", "RTX", "RTT"}

\* describe_track, once the beginning of the file has been read: the name comes
\* from the header unless there is none there, or it is blank, and a file that
\* will not fit the track buffer is as invalid as one without a header.
Describe(entry, index) ==
  [index |-> index,
   file |-> entry.name,
   named |-> IF entry.header = "named" THEN "header" ELSE "file",
   valid |-> entry.header # "none" /\ ~entry.big]

\* Defect: the room is what the caller offers, without the ceiling.
RoomOffered(t) == arg[t]

\* The ceiling that storage_scan puts on max.
Room(t) == Ceiling(arg[t])

\* What a scan is to find: the tracks of a card in the order of the directory,
\* as many as there is room for.  The index of a track is how many come before it.
TrackPlaces(c) == {i \in DOMAIN Root[c] : IsTrackFile(Root[c][i])}
IndexOf(c, place) == Cardinality({i \in TrackPlaces(c) : i < place})
PlaceOf(c, index) == CHOOSE i \in TrackPlaces(c) : IndexOf(c, i) = index
Fitting(c, room) ==
  [i \in 1..Smaller(Cardinality(TrackPlaces(c)), room) |-> Root[c][PlaceOf(c, i - 1)]]
FilesOf(entries) == [i \in 1..Len(entries) |-> entries[i].name]

---------------------------------------------------------------------------
Files == UNION {{Root[c][i].name : i \in DOMAIN Root[c]} : c \in Cards}

\* struct track_meta; `file` is what the table has of it.
Meta ==
  [index : 0..(LibraryMax - 1), file : Files, named : {"header", "file"}, valid : BOOLEAN]

TypeOK ==
  /\ state \in {"ABSENT", "READY", "UNREADABLE"}
  /\ loans \in [Threads -> {0, 1}]
  /\ vol \in Cards \union {NoCard}
  /\ lib_files \in [1..LibraryMax -> Files \union {Unused}]
  /\ lib_count \in 0..LibraryMax
  /\ pc \in [Threads -> Places]
  /\ arg \in [Threads -> Capacities \union Tracks \union {0}]
  /\ pos \in [Threads -> Nat]
  /\ ignored \in [Threads -> Nat] /\ skipped \in [Threads -> Nat]
  /\ result \in [Threads -> {EINVAL, ENODEV, EIO, ENOENT, ENOTSUP} \union 0..LibraryMax]
  /\ out \in [Threads -> Seq(Meta)] /\ \A t \in Threads : Len(out[t]) <= LibraryMax

Init ==
  /\ ContractInit
  /\ vol = NoCard
  /\ lib_files = [i \in 1..LibraryMax |-> Unused]
  /\ lib_count = 0
  /\ pc = [t \in Threads |-> "idle"]
  /\ arg = [t \in Threads |-> 0]
  /\ pos = [t \in Threads |-> 0]
  /\ ignored = [t \in Threads |-> 0]
  /\ result = [t \in Threads |-> 0]
  /\ out = [t \in Threads |-> <<>>]
  /\ skipped = [t \in Threads |-> Unset]

At(t, p) == pc[t] = p
Goto(t, p) == pc' = [pc EXCEPT ![t] = p]
Answer(t, r) == result' = [result EXCEPT ![t] = r]

---------------------------------------------------------------------------
\* card_refresh, in the monitor.
Poll ==
  /\ Evaluate
  /\ IF state' = "READY" THEN vol' \in Cards ELSE vol' = NoCard
  /\ UNCHANGED <<tableVars, pc, arg, result, scanVars>>

\* card_acquire: it waits until nobody else has the volume, and lends it or
\* answers why there is none.
Acquire(t, borrowed) ==
  /\ \A u \in Threads \ {t} : loans[u] = 0
  /\ \/ Lend(t) /\ Goto(t, borrowed) /\ UNCHANGED result
     \/ /\ state # "READY"
        /\ Answer(t, IF state = "ABSENT" THEN ENODEV ELSE EIO)
        /\ Goto(t, "back")
        /\ UNCHANGED contractVars
  /\ UNCHANGED <<vol, tableVars, arg, scanVars>>

---------------------------------------------------------------------------
\* storage_scan.

\* A call without `out` is a call without room: neither gets past the check.
ScanCall(t, max) ==
  /\ At(t, "idle")
  /\ arg' = [arg EXCEPT ![t] = max]
  /\ skipped' = [skipped EXCEPT ![t] = 0]
  /\ IF max = 0
       THEN Answer(t, EINVAL) /\ Goto(t, "back")
       ELSE Goto(t, "scan") /\ UNCHANGED result
  /\ UNCHANGED <<contractVars, vol, tableVars, pos, ignored, out>>

ScanAcquire(t) == At(t, "scan") /\ Acquire(t, "opendir")

\* A read that did not work ends the scan.
GiveUp(t) == Answer(t, EIO) /\ Goto(t, "settle")

OpenDir(t) ==
  /\ At(t, "opendir")
  /\ \/ Goto(t, "readdir") /\ UNCHANGED result
     \/ GiveUp(t)
  /\ UNCHANGED <<contractVars, vol, tableVars, arg, scanVars>>

ReadDirFails(t) ==
  /\ At(t, "readdir")
  /\ GiveUp(t)
  /\ UNCHANGED <<contractVars, vol, tableVars, arg, scanVars>>

\* The empty name that ends the directory.
ReadDirEnds(t) ==
  /\ At(t, "readdir")
  /\ pos[t] = Len(Root[vol])
  /\ Answer(t, Len(out[t]))
  /\ Goto(t, "settle")
  /\ UNCHANGED <<contractVars, vol, tableVars, arg, scanVars>>

\* Defect: what is not a track is counted too, once the library is full.
ReadEntryCountsAll(t) ==
  /\ At(t, "readdir")
  /\ pos[t] < Len(Root[vol])
  /\ pos' = [pos EXCEPT ![t] = @ + 1]
  /\ IF Len(out[t]) = Room(t)
       THEN ignored' = [ignored EXCEPT ![t] = @ + 1] /\ UNCHANGED pc
       ELSE /\ IF IsTrackFile(Root[vol][pos'[t]]) THEN Goto(t, "describe") ELSE UNCHANGED pc
            /\ UNCHANGED ignored
  /\ UNCHANGED <<contractVars, vol, tableVars, arg, result, out, skipped>>

\* One entry: not a track, one too many, or one to describe.
ReadEntry(t) ==
  /\ At(t, "readdir")
  /\ pos[t] < Len(Root[vol])
  /\ pos' = [pos EXCEPT ![t] = @ + 1]
  /\ LET track == IsTrackFile(Root[vol][pos'[t]])
         full == Len(out[t]) = Room(t)
     IN  /\ IF track /\ ~full THEN Goto(t, "describe") ELSE UNCHANGED pc
         /\ ignored' = [ignored EXCEPT ![t] = IF track /\ full THEN @ + 1 ELSE @]
  /\ UNCHANGED <<contractVars, vol, tableVars, arg, result, out, skipped>>

\* describe_track and the copy of the name into the table.  `count` is the
\* length of `out`.
DescribeTrack(t) ==
  /\ At(t, "describe")
  /\ \/ /\ LET entry == Root[vol][pos[t]]
               count == Len(out[t])
           IN  /\ out' = [out EXCEPT ![t] = Append(@, Describe(entry, count))]
               /\ lib_files' = [lib_files EXCEPT ![count + 1] = entry.name]
        /\ Goto(t, "readdir")
        /\ UNCHANGED result
     \/ GiveUp(t) /\ UNCHANGED <<out, lib_files>>
  /\ UNCHANGED <<contractVars, vol, lib_count, arg, pos, ignored, skipped>>

\* Defect: a scan that failed leaves the count of the library before.
SettleIfOk(t) ==
  /\ At(t, "settle")
  /\ lib_count' = IF result[t] > 0 THEN result[t] ELSE lib_count
  /\ Goto(t, "scanned")
  /\ UNCHANGED <<contractVars, vol, lib_files, arg, result, scanVars>>

\* The count of the library, while the volume is still on loan.
Settle(t) ==
  /\ At(t, "settle")
  /\ lib_count' = IF result[t] > 0 THEN result[t] ELSE 0
  /\ Goto(t, "scanned")
  /\ UNCHANGED <<contractVars, vol, lib_files, arg, result, scanVars>>

\* Defect: a failed scan returns without card_release.
ScanReleaseIfOk(t) ==
  /\ At(t, "scanned")
  /\ IF result[t] >= 0 THEN GiveBack(t) ELSE UNCHANGED contractVars
  /\ skipped' = [skipped EXCEPT ![t] = IF result[t] >= 0 THEN ignored[t] ELSE @]
  /\ Goto(t, "back")
  /\ UNCHANGED <<vol, tableVars, arg, result, pos, ignored, out>>

\* card_release, and *skipped of a scan that worked.
ScanRelease(t) ==
  /\ At(t, "scanned")
  /\ GiveBack(t)
  /\ skipped' = [skipped EXCEPT ![t] = IF result[t] >= 0 THEN ignored[t] ELSE @]
  /\ Goto(t, "back")
  /\ UNCHANGED <<vol, tableVars, arg, result, pos, ignored, out>>

---------------------------------------------------------------------------
\* storage_load.

LoadCall(t, track) ==
  /\ At(t, "idle")
  /\ arg' = [arg EXCEPT ![t] = track]
  /\ Goto(t, "load")
  /\ UNCHANGED <<contractVars, vol, tableVars, result, scanVars>>

\* A call without `buf`, or with no room in it.
LoadRefused(t) ==
  /\ At(t, "idle")
  /\ Answer(t, EINVAL)
  /\ Goto(t, "back")
  /\ UNCHANGED <<contractVars, vol, tableVars, arg, scanVars>>

LoadAcquire(t) == At(t, "load") /\ Acquire(t, "lookup")

\* Defect: indices counted from one.
InLibraryFromOne(track) == track > 0 /\ track <= lib_count

InLibrary(track) == track >= 0 /\ track < lib_count

\* The load itself is not written yet: a track of the library is -ENOTSUP.
Lookup(t) ==
  /\ At(t, "lookup")
  /\ Answer(t, IF InLibrary(arg[t]) THEN ENOTSUP ELSE ENOENT)
  /\ Goto(t, "looked")
  /\ UNCHANGED <<contractVars, vol, tableVars, arg, scanVars>>

LoadRelease(t) ==
  /\ At(t, "looked")
  /\ GiveBack(t)
  /\ Goto(t, "back")
  /\ UNCHANGED <<vol, tableVars, arg, result, scanVars>>

\* The call returns; its locals die with it.
Return(t) ==
  /\ At(t, "back")
  /\ Goto(t, "idle")
  /\ pos' = [pos EXCEPT ![t] = 0]
  /\ ignored' = [ignored EXCEPT ![t] = 0]
  /\ out' = [out EXCEPT ![t] = <<>>]
  /\ skipped' = [skipped EXCEPT ![t] = Unset]
  /\ arg' = [arg EXCEPT ![t] = 0]
  /\ Answer(t, 0)
  /\ UNCHANGED <<contractVars, vol, tableVars>>

---------------------------------------------------------------------------
Inside(t) ==
  \/ ScanAcquire(t) \/ OpenDir(t) \/ ReadDirFails(t) \/ ReadDirEnds(t)
  \/ ReadEntry(t) \/ DescribeTrack(t) \/ Settle(t) \/ ScanRelease(t)
  \/ LoadAcquire(t) \/ Lookup(t) \/ LoadRelease(t)

InCall(t) == Inside(t) \/ Return(t)

Call(t) ==
  \/ \E max \in Capacities : ScanCall(t, max)
  \/ \E track \in Tracks : LoadCall(t, track)
  \/ LoadRefused(t)

Next == Poll \/ \E t \in Threads : InCall(t) \/ Call(t)

Spec == Init /\ [][Next]_storageVars

\* A thread inside a call keeps running.  Nothing makes anybody call, and who
\* waits for the volume is not promised it.
Fairness == \A t \in Threads : WF_storageVars(InCall(t))

FairSpec == Spec /\ Fairness

---------------------------------------------------------------------------
\* Properties.

\* Nobody touches the table, nor the buffer the headers are read into, beside
\* another: "só é tocada com o volume emprestado" (lib_files and peek).
TableIsBorrowed ==
  \A t, u \in Threads : pc[t] \in Borrowing /\ pc[u] \in Borrowing => t = u

\* What storage_load finds is nothing or the whole outcome of one scan of one
\* card, although the table is written entry by entry over the one before, the
\* card may leave at any of them and another thread may scan next.
Whole ==
  INSTANCE Library
    WITH Libraries <- {FilesOf(Fitting(c, Ceiling(max)))
                          : c \in Cards, max \in Capacities \ {0}},
         library <- IF \E t \in Threads : pc[t] \in Scanning
                      THEN <<>>
                      ELSE SubSeq(lib_files, 1, lib_count)

ImplementsLibrary == Whole!LibrarySpec

\* A scan that worked answers the directory of one card: the tracks that fit,
\* in order, each under the index the table has it at, and in `skipped` how
\* many more there are, although a scan that fails may have counted some.
AnswersOneCard(t) ==
  \E c \in Cards :
    LET found == Fitting(c, Room(t))
    IN  /\ result[t] = Len(found)
        /\ out[t] = [i \in 1..Len(found) |-> Describe(found[i], i - 1)]
        /\ skipped[t] = Cardinality(TrackPlaces(c)) - Len(found)

ScanAnswersTheDirectory ==
  \A t \in Threads :
    /\ At(t, "scanned") /\ result[t] >= 0 =>
         SubSeq(lib_files, 1, lib_count) = [i \in 1..Len(out[t]) |-> out[t][i].file]
    /\ At(t, "back") =>
         IF result[t] >= 0 THEN AnswersOneCard(t) ELSE skipped[t] \in {0, Unset}

\* Every loan ends, on every path out of the two calls: it is what the monitor
\* waits for to see a removal, and what Card assumes of who borrows.
LoansEnd == \A t \in Threads : loans[t] > 0 ~> loans[t] = 0

\* "Uma varredura que falha deixa a biblioteca vazia" (storage.h): a scan that
\* returns -ENODEV or -EIO leaves no library behind.
FailedScanLeavesNothing ==
  [][\A t \in Threads :
       pc[t] \in {"scan", "scanned"} /\ pc'[t] = "back" /\ result'[t] < 0
         => lib_count' = 0]_storageVars
=============================================================================
