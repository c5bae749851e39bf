------------------------------- MODULE Bench --------------------------------
(***************************************************************************)
(* bench/rnf03: the program that measures how long a track takes to open   *)
(* and read, and says whether the neighbours have to be loaded ahead.      *)
(*                                                                         *)
(* In the simulator the disk is SparseDisk, every read of it is noted in   *)
(* the trace of the window and charged to the clock by the model of        *)
(* sd_cost.h, and the report adds how slow the card may get before the     *)
(* budget breaks.  On the board nothing is instrumented: time passes, and  *)
(* the card may fail or leave.  FatFs is external: an operation of it      *)
(* accesses the disk as it likes and answers.                              *)
(*                                                                         *)
(* A definition marked "Defect" is not part of the model: it is what the   *)
(* definition below it would be with a plausible mistake in the code.      *)
(***************************************************************************)
EXTENDS SparseDisk, Sequences

CONSTANTS
  TraceMax,     \* SIM_CARD_TRACE_MAX
  DefaultPoll,  \* SD_COST_DEFAULT_POLL_NS
  PollCap,      \* where the search for the threshold begins, 100000U
  Budget,       \* BENCH_STORAGE_BUDGET_US
  Tracks,       \* BENCH_TRACKS
  Step,         \* BENCH_TRACK_STEP
  Pieces,       \* what snprintf may make of a piece of a melody, in bytes
  Targets,      \* "sim" and "board"
  Transfers,    \* the [start, count] FatFs may ask of the disk
  Accesses,     \* bound: how often it does in each operation
  BoardTimes    \* what an operation may take on the board, in microseconds

ASSUME BenchAssumption ==
  /\ TraceMax \in Nat /\ DefaultPoll \in Nat /\ PollCap \in Nat /\ Budget \in Nat
  /\ Tracks \in Nat \ {0} /\ Step \in Nat \ {0} /\ Pieces \subseteq Nat \ {0}
  /\ Transfers \subseteq [start : Nat, count : Nat \ {0}]
  /\ BoardTimes \subseteq Nat

VARIABLES
  target,       \* the target the program was built for
  pc,           \* where main is
  asked,        \* how often FatFs has accessed the disk in this operation
  size,         \* the bytes written to the track being made
  files,        \* the sizes of the tracks made
  charging,     \* is the time of a read charged to the clock?
  debt_ns,      \* what has not been charged yet
  clock,        \* microseconds since span_start: k_cycle_get_64 - span_start_cycles
  trace,        \* the reads of the window
  library_count, \* the tracks the scan found
  index,        \* the track being loaded
  worst, worst_index, \* the longest load so far
  lo, hi,       \* where the threshold may be
  loaded        \* the windows of the loads that worked

setupVars == <<size, files, charging>>
clockVars == <<debt_ns, clock>>
resultVars == <<library_count, index, worst, worst_index, loaded>>
searchVars == <<lo, hi>>
benchVars == <<diskVars, target, pc, asked, setupVars, clockVars, trace,
               resultVars, searchVars>>

---------------------------------------------------------------------------
\* sd_cost.h.

\* sd_cost_bytes: CMD17 or CMD18, the blocks with their CRC, the poll for busy
\* and CMD13, and the CMD12 that ends a CMD18.
Bytes(blocks) ==
  IF blocks = 0
    THEN 0
    ELSE 9 + blocks * (512 + 3) + 1 + 21 + (IF blocks > 1 THEN 21 ELSE 0)

\* sd_cost_read_ns: eight bits a byte at 24 MHz, and the access time of the card.
ReadNs(blocks, poll) == (Bytes(blocks) * 1000) \div 3 + blocks * poll

\* The sum of the first n terms of w.
SumTo(w, n) ==
  LET sum[i \in 0..n] == IF i = 0 THEN 0 ELSE sum[i - 1] + w[i]
  IN  sum[n]

\* span_model_us: by the shape of the reads in the trace, not by their sum.
ModelNs(tr, poll) ==
  SumTo([i \in 1..Len(tr.blocks) |-> ReadNs(tr.blocks[i], poll)], Len(tr.blocks))

ModelUs(tr, poll) == ModelNs(tr, poll) \div 1000

---------------------------------------------------------------------------
\* The trace and the clock of sim_card.c.

NoTrace == [calls |-> 0, sectors |-> 0, dropped |-> 0, blocks |-> <<>>]
NoSpan == [us |-> 0, trace |-> NoTrace]

\* trace_read.
Traced(count) ==
  LET room == trace.calls < TraceMax
  IN  [calls |-> trace.calls + 1,
       sectors |-> trace.sectors + count,
       dropped |-> IF room THEN trace.dropped ELSE trace.dropped + 1,
       blocks |-> IF room THEN Append(trace.blocks, count) ELSE trace.blocks]

\* Defect: what is less than a microsecond is forgotten, read by read.
ChargeRounded(ns) ==
  /\ clock' = clock + (IF charging THEN ns \div 1000 ELSE 0)
  /\ UNCHANGED debt_ns

\* Defect: what has been charged is not taken off the debt.
ChargeAgain(ns) ==
  IF charging
    THEN /\ clock' = clock + (debt_ns + ns) \div 1000
         /\ debt_ns' = debt_ns + ns
    ELSE UNCHANGED clockVars

\* charge: whole microseconds go to the clock, the rest is kept.
Charge(ns) ==
  IF charging
    THEN /\ clock' = clock + (debt_ns + ns) \div 1000
         /\ debt_ns' = (debt_ns + ns) % 1000
    ELSE UNCHANGED clockVars

---------------------------------------------------------------------------
SetupSteps == {"mkfs", "mount", "open", "chunk", "close", "unmount"}
Measured == {"fs_mount", "opendir", "readdir", "header", "load", "remount", "cold"}
Ends == {"done", "failed"}

Init ==
  /\ DiskInit
  /\ target \in Targets
  /\ pc = "setup"
  /\ asked = 0
  /\ size = 0 /\ files = <<>>
  /\ charging = FALSE
  /\ debt_ns = 0 /\ clock = 0
  /\ trace = NoTrace
  /\ library_count = 0 /\ index = 0
  /\ worst = NoSpan /\ worst_index = 0
  /\ lo = 0 /\ hi = PollCap
  /\ loaded = <<>>

At(p) == pc = p
Goto(p) == pc' = p /\ asked' = 0

---------------------------------------------------------------------------
\* FatFs and the disk of the simulator.

Simulated == target = "sim"

AccessWanted ==
  /\ Simulated /\ got # NoSpace
  /\ pc \in SetupSteps \union Measured
  /\ asked < Accesses[pc]
  /\ asked' = asked + 1

\* sim_disk_write, by FatFs: the application does not write.
DiskWrite(x) ==
  /\ AccessWanted /\ pc \in SetupSteps
  /\ Transfer("write", x.start, x.count)
  /\ UNCHANGED <<target, pc, setupVars, clockVars, trace, resultVars, searchVars>>

\* sim_disk_read, by FatFs: the call is noted, then the sectors are copied.
DiskRead(x) ==
  /\ AccessWanted
  /\ Transfer("read", x.start, x.count)
  /\ trace' = IF io' = Idle THEN trace ELSE Traced(x.count)
  /\ UNCHANGED <<target, pc, setupVars, clockVars, resultVars, searchVars>>

\* A sector; the last of a read charges it.
DiskWork ==
  /\ DiskStep
  /\ IF io.op = "read" /\ io' = Idle
       THEN Charge(ReadNs(io.end - io.start, DefaultPoll))
       ELSE UNCHANGED clockVars
  /\ UNCHANGED <<target, pc, asked, setupVars, trace, resultVars, searchVars>>

\* What an operation of FatFs comes to, once its accesses are over.  In the
\* simulator it fails exactly if a write did.
Over == io = Idle
Works == Over /\ (Simulated => got # NoSpace)
Fails == Over /\ (Simulated => got = NoSpace)

---------------------------------------------------------------------------
\* sim_card_setup; on the board it does nothing.

Setup ==
  /\ At("setup")
  /\ Goto(IF Simulated THEN "mkfs" ELSE "arm")
  /\ UNCHANGED <<diskVars, target, setupVars, clockVars, trace, resultVars, searchVars>>

SetupFails ==
  /\ pc \in SetupSteps /\ Fails
  /\ Goto("failed")
  /\ UNCHANGED <<diskVars, target, setupVars, clockVars, trace, resultVars, searchVars>>

SetupStep(from, to) ==
  /\ At(from) /\ Works
  /\ Goto(to)
  /\ UNCHANGED <<diskVars, target, charging, clockVars, trace, resultVars, searchVars>>

Mkfs == SetupStep("mkfs", "mount") /\ UNCHANGED <<size, files>>
MountToWrite == SetupStep("mount", "open") /\ UNCHANGED <<size, files>>

\* write_track, of track i the size (i + 1) * Step.
Wanted == (Len(files) + 1) * Step

OpenTrack == SetupStep("open", "chunk") /\ size' = 0 /\ UNCHANGED files

\* Defect: the last piece is written as it comes.
PieceUntrimmed(len) == len

\* The last piece is trimmed to the size asked for.
Piece(len) == IF size + len > Wanted THEN Wanted - size ELSE len

\* fs_write may write less than it is given; nothing at all only on a volume that
\* is full, which this one, of many more clusters than pages, never is.
WriteChunk ==
  /\ SetupStep("chunk", "chunk")
  /\ size < Wanted
  /\ \E len \in Pieces : \E written \in 1..Piece(len) : size' = size + written
  /\ UNCHANGED files

LastChunk == SetupStep("chunk", "close") /\ size >= Wanted /\ UNCHANGED <<size, files>>

CloseTrack ==
  /\ SetupStep("close", IF Len(files) + 1 < Tracks THEN "open" ELSE "unmount")
  /\ files' = Append(files, size)
  /\ UNCHANGED size

UnmountFresh == SetupStep("unmount", "arm") /\ UNCHANGED <<size, files>>

\* sim_card_arm and the first window.
Arm ==
  /\ At("arm")
  /\ Goto("fs_mount")
  /\ charging' = Simulated
  /\ debt_ns' = 0
  /\ clock' = 0 /\ trace' = NoTrace
  /\ UNCHANGED <<diskVars, target, size, files, resultVars, searchVars>>

---------------------------------------------------------------------------
\* The rest of main: what it measures between span_start and span_stop.

SpanStart == clock' = 0 /\ trace' = NoTrace /\ UNCHANGED debt_ns

\* What a window has taken when its last operation answers.  On the board that
\* operation takes a time of its own.
Spans ==
  IF Simulated
    THEN {[us |-> clock, trace |-> trace]}
    ELSE {[us |-> clock + us, trace |-> trace] : us \in BoardTimes}

\* A step of main between two windows, or at the end of one.
Main(from, to) ==
  /\ At(from)
  /\ Goto(to)
  /\ UNCHANGED <<diskVars, target, setupVars>>

GiveUp(from) == Main(from, "failed") /\ UNCHANGED <<clockVars, trace, resultVars, searchVars>>

Mount == Main("fs_mount", "opendir") /\ Works /\ SpanStart /\ UNCHANGED <<resultVars, searchVars>>

MountFails == GiveUp("fs_mount") /\ Fails

\* scan_library.  A header that cannot be read leaves the track in the list, and
\* what is not a file is passed over.
OpenDir == Main("opendir", "readdir") /\ Works /\ UNCHANGED <<clockVars, trace, resultVars, searchVars>>

OpenDirFails == GiveUp("opendir") /\ Fails

ReadDir ==
  /\ Main("readdir", "header") /\ Works
  /\ library_count < Tracks
  /\ Simulated => library_count < Len(files)
  /\ UNCHANGED <<clockVars, trace, resultVars, searchVars>>

ReadDirFails == GiveUp("readdir") /\ Fails /\ library_count < Tracks

ReadHeader ==
  /\ Main("header", "readdir") /\ Over
  /\ library_count' = library_count + 1
  /\ UNCHANGED <<clockVars, trace, index, worst, worst_index, loaded, searchVars>>

\* The end of the directory, or of the room for it; the first load begins.
ScanEnds ==
  /\ Main("readdir", IF library_count = 0 THEN "failed" ELSE "load") /\ Works
  /\ Simulated => library_count = Len(files)
  /\ SpanStart
  /\ UNCHANGED <<resultVars, searchVars>>

---------------------------------------------------------------------------
\* load_track in the loop of main, and once more with the window of FatFs cold.

Replaces(us) == us >= worst.us

\* load_track answers, and main goes on to the next one.
LoadStep ==
  /\ Main("load", IF index + 1 < library_count THEN "load" ELSE "remount")
  /\ index' = index + 1
  /\ SpanStart
  /\ UNCHANGED <<library_count, searchVars>>

Load ==
  /\ LoadStep /\ Works
  /\ \E span \in Spans :
       /\ loaded' = Append(loaded, span)
       /\ worst' = IF Replaces(span.us) THEN span ELSE worst
       /\ worst_index' = IF Replaces(span.us) THEN index ELSE worst_index

\* A load that failed is reported and left out.
LoadFails == LoadStep /\ Fails /\ UNCHANGED <<worst, worst_index, loaded>>

\* What unmounting and mounting again answer is not looked at.
Remount == Main("remount", "cold") /\ Over /\ SpanStart /\ UNCHANGED <<resultVars, searchVars>>

\* Defect: the cold load is printed, and does not count.
WorstWithoutCold(span) == worst

WorstWithCold(span) == IF span.us > worst.us THEN span ELSE worst

\* Nor is what the cold load answers.
ColdLoad ==
  /\ Main("cold", "report") /\ Over
  /\ \E span \in Spans :
       /\ worst' = WorstWithCold(span)
       /\ \/ Works /\ loaded' = Append(loaded, span)
          \/ Fails /\ UNCHANGED loaded
  /\ UNCHANGED <<clockVars, trace, library_count, index, worst_index, searchVars>>

---------------------------------------------------------------------------
\* report_sensitivity.

Fits(poll_us) == ModelUs(worst.trace, poll_us * 1000) <= Budget

\* Not on the board, and not if the bus alone is over the budget.
Report ==
  /\ Main("report", IF Simulated /\ Fits(0) THEN "search" ELSE "done")
  /\ UNCHANGED <<clockVars, trace, resultVars, searchVars>>

\* Defect: rounded down, the middle of two neighbours is the lower one.
MidLow == lo + (hi - lo) \div 2

Mid == lo + (hi - lo + 1) \div 2

\* Defect: the bound moves past what fits.
SearchPast ==
  /\ At("search") /\ lo < hi
  /\ IF Fits(Mid)
       THEN lo' = Mid + 1 /\ hi' = hi
       ELSE hi' = Mid - 1 /\ lo' = lo
  /\ UNCHANGED <<diskVars, target, pc, asked, setupVars, clockVars, trace, resultVars>>

Search ==
  /\ At("search") /\ lo < hi
  /\ IF Fits(Mid)
       THEN lo' = Mid /\ hi' = hi
       ELSE hi' = Mid - 1 /\ lo' = lo
  /\ UNCHANGED <<diskVars, target, pc, asked, setupVars, clockVars, trace, resultVars>>

\* report_verdict follows.
SearchEnds ==
  /\ Main("search", "done") /\ lo >= hi
  /\ UNCHANGED <<clockVars, trace, resultVars, searchVars>>

\* The verdict: FALSE is "E PRECISO" load the neighbours ahead.
Verdict == worst.us <= Budget

---------------------------------------------------------------------------
Access ==
  \/ \E x \in Transfers : DiskWrite(x) \/ DiskRead(x)
  \/ DiskWork

Making ==
  \/ Setup \/ SetupFails \/ Mkfs \/ MountToWrite \/ OpenTrack \/ WriteChunk
  \/ LastChunk \/ CloseTrack \/ UnmountFresh

Measuring ==
  \/ Arm \/ Mount \/ MountFails \/ OpenDir \/ OpenDirFails \/ ReadDir
  \/ ReadHeader \/ ScanEnds \/ ReadDirFails \/ Load \/ LoadFails
  \/ Remount \/ ColdLoad

Reporting == Report \/ Search \/ SearchEnds

\* The process has exited.
Exited == pc \in Ends /\ UNCHANGED benchVars

Next == Access \/ Making \/ Measuring \/ Reporting \/ Exited

Spec == Init /\ [][Next]_benchVars

\* One thread that nothing stops.
FairSpec == Spec /\ WF_benchVars(Next)

---------------------------------------------------------------------------
\* Properties.

Traces ==
  {tr \in [calls : Nat, sectors : Nat, dropped : Nat, blocks : Seq(1..SectorCount)] :
     tr.calls = tr.dropped + Len(tr.blocks) /\ Len(tr.blocks) <= TraceMax}

LoadSpans == [us : Nat, trace : Traces]

TypeOK ==
  /\ DiskTypeOK
  /\ target \in Targets
  /\ pc \in {"setup", "arm", "report", "search"} \union SetupSteps \union Measured \union Ends
  /\ asked \in Nat /\ size \in Nat /\ files \in Seq(Nat)
  /\ charging \in BOOLEAN
  /\ debt_ns \in 0..999 /\ clock \in Nat
  /\ trace \in Traces
  /\ library_count \in 0..Tracks /\ index \in 0..Tracks /\ worst_index \in 0..Tracks
  /\ loaded \in Seq(LoadSpans)
  /\ worst \in LoadSpans
  /\ lo \in 0..PollCap /\ hi \in 0..PollCap

\* What the clock says a load took is what the cost model says of its trace, to
\* the microsecond that another load may have left owing: no read of the window
\* is missing from either, and no error adds up over the charges.  If the trace had
\* no room for some of them, the clock has charged at least one sector for each.
MeasuredIsModelled ==
  Simulated =>
    \A i \in DOMAIN loaded :
      LET dropped == loaded[i].trace.dropped
          over == loaded[i].us - ModelUs(loaded[i].trace, DefaultPoll)
      IN  /\ dropped = 0 => over \in {0, 1}
          /\ over >= (dropped * ReadNs(1, DefaultPoll)) \div 1000

\* "Busca binária do maior acesso por bloco que ainda cabe": the search ends on
\* the slowest card that fits the budget, up to where it began.
ThresholdIsExact ==
  At("done") /\ Simulated /\ Fits(0) =>
    Fits(lo) /\ (lo < PollCap => ~Fits(lo + 1))

\* Both traces are complete, and from the default card to one as slow as the
\* threshold this load loses no more time than the worst one, or wins no less: the
\* worst one remains the worst.
NoMoreSensitive(tr) ==
  /\ tr.dropped = 0 /\ worst.trace.dropped = 0
  /\ IF lo * 1000 >= DefaultPoll
       THEN tr.sectors <= worst.trace.sectors
       ELSE tr.sectors >= worst.trace.sectors

\* The report speaks for every load and not for the one it happened to keep:
\* "NAO" needs that all of them fit, also the cold one, and in the simulator
\* it is "NAO" if they do, every track was loaded, each as large as asked to the byte,
\* and none of them breaks the budget on a card as slow as the threshold, but for
\* the microseconds the clock rounds, unless it is more sensitive than the worst.
ReportIsOfTheWorst ==
  At("done") =>
    LET allFit == \A i \in DOMAIN loaded : loaded[i].us <= Budget
    IN  /\ Verdict => allFit
        /\ Simulated =>
             /\ allFit => Verdict
             /\ Len(loaded) = Tracks + 1 /\ \A i \in 1..Tracks : files[i] = i * Step
             /\ Fits(0) =>
                  \A i \in DOMAIN loaded :
                    NoMoreSensitive(loaded[i].trace) =>
                      ModelUs(loaded[i].trace, lo * 1000) <= Budget + 2

\* The loops of the program end, that of the search and that of the pieces of a
\* track among them, and it exits, whatever the card does.
BenchEnds == <>(pc \in Ends)

\* "existe um número medido e a decisão de pré-carregar está tomada com base
\* nele" (report_verdict): the decision rests on a load that worked.
DecisionIsOnALoad ==
  At("done") => \E i \in DOMAIN loaded : loaded[i].us = worst.us
=============================================================================
