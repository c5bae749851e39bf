# Vitrolinha: models and proofs

TLA+ models of the firmware in this repository, model-checked with TLC and, for
the parts that matter most, proved with TLAPS. Paths are those of the repository.

- [What the system is](#what-the-system-is)
- [Modules](#modules) and what they leave out
- [Runs](#runs): what TLC checks, on which instances, and why they are enough
- [Fairness](#fairness)
- [Proofs](#proofs)
- [Where the code and its docs disagree](#where-the-code-and-its-docs-disagree)
- [Not modelled](#not-modelled) and [plan](#plan)

## What the system is

Vitrolinha is a music player for one microcontroller core under Zephyr: tracks are
RTTTL files on a FAT card. Written so far are the card, the library, and the two
channels through which the user interface and the player will talk; the player
itself, the synthesiser, the parser and the screens are specified in
`docs/especificacao-vitrolinha.md` (section 6) and do not exist in the source.

| Component | State | Operations | Talks to | What is hard | What makes it correct |
|---|---|---|---|---|---|
| **card** `src/card.c` | `card_state_now`, `card_mounted`, `card_started`, `card_observer`, the recursive mutex `card_lock`; below it the disk, FatFs and the mount list | `card_init`, `card_refresh`, `card_observe`, `card_get_state`, `card_acquire`, `card_release`, the monitor thread | polled socket below; `storage` borrows the volume; the observer is called | threads interleave in a FatFs without reentrance; `fs_mount` and `fs_unmount` fail; cards come and go between any two steps; the observer is called after the unlock | one thread in FatFs at once; a borrowed volume stays mounted; the state tells the truth; a card is tried once per insertion, on a clean disk; removals are seen |
| **storage** `src/storage.c` | `lib_files`, `lib_count`, `peek` | `storage_scan`, `storage_load`, `storage_present` | borrows from `card`; names by `track` | any read of a scan fails after part of the table has been overwritten; the card is swapped between scans; two callers | the library is whole or nothing; every path gives the loan back |
| **track** `src/track.c` | none (fills the caller's entry) | `track_name_copy`, `track_meta_init` | called by `storage` | cuts inside UTF-8 characters, stale bytes of the entry before | names are whole characters, entries compare byte by byte |
| **snapshot**, **seqlock** `src/snapshot.c`, `src/seqlock.c` | `shared`, the version counter | `snapshot_publish`, `snapshot_read` | player and timer interrupt publish; `ui` reads | a publication in the middle of a copy; the counter wraps | reads and publications act as single steps; readers are not held up for nothing |
| **progress bar** `src/snapshot.c` | none | `snapshot_elapsed_us`, `snapshot_progress_permille` | reads the snapshot against the clock | base in the future, products over 32 bits | in scale, full exactly at the end, never back |
| **cmd** `src/cmd.c` | `cmd_queue` | `cmd_post`, `cmd_get`, `cmd_flush` | input thread or interrupt posts; player gets | full queue, a flush between validation and queueing, timeouts | order, nothing lost without an answer, nothing malformed |
| **main** `src/main.c` | heartbeat LED; the locals of its reports | start-up, the reports, the heartbeat | starts all the others, scans and loads | the card leaves or is changed between the scan and the loads; order of registration and initialisation | what it lists can be loaded; it always gets to the heartbeat |
| **storage_fake** `src/storage_fake.c` | two flags | the calls of `storage.h`, and knobs for tests | takes the place of `storage` in the simulator | answers must not drift from the real one | what was listed stays known |
| **rnf03** `bench/rnf03` | hash table and pages of a simulated card, its trace and clock; window, worst load and threshold of the program | `sim_disk_read`, `sim_disk_write`, set-up, scan, loads, search, verdict | FatFs above the disk; the clock below the program | colliding sectors, pages that run out within a write, rounding that adds up, a search off by one, a report on the wrong load | the card is an array of sectors; the clock says what the model says; the threshold is exact; the verdict speaks for every load |
| **sim_encoder** `src/sim_encoder.c` | none | a key handler | Zephyr's input | the queue of Zephyr full | (loss of a step is by design) |

Calls go down (`main` → `storage` → `card` → FatFs → disk); the only call up is the
observer of the card. Shared state crosses threads at three places: `card_lock`, the
seqlock and the command queue. The hazards at each line are listed in
`PROJECT.json`, with the properties that would catch them.

## Modules

Each model is a module of its own whose name is the source's. Threads take steps
that are as large as what cannot be interleaved: a call that may block or be
preempted, or one access to shared state. `pc[t]` is the place of thread `t`.
Priorities matter only where the code depends on them, in the hand-over of a mutex.

| Module | Models | EXTENDS or composes |
|---|---|---|
| `KMutex` | Zephyr's `k_mutex`: recursive, handed at unlock to the most urgent waiter, who cannot be overtaken | |
| `SdStack` | the socket, the disk driver, FatFs and the mount list, as `card.c` uses them: `fs_mount` works, fails, or answers `-EBUSY`; `fs_unmount` fails or not | |
| `Card` | all of `card.c` | `KMutex`, `SdStack` |
| `CardContract` | what `card.h` promises: a state that moves along the table of `card_refresh`, and a loan | |
| `Storage` | `storage_scan` and `storage_load`, read by read, over the contract of the card | `CardContract`, `StorageApi` |
| `Library` | what `storage.h` promises of the library | |
| `Names` | `header_name`, `describe_track`, `utf8_boundary`, `track_name_copy`, `track_meta_init` | |
| `Snapshot` | publishing and reading through the seqlock, word by word | |
| `SnapshotRegister` | an atomic register, which is what `snapshot.h` promises | |
| `Progress` | the two functions of the bar, against a clock, with the width of each integer | |
| `Cmd` | the queue of commands, with the player's side of it | |
| `StorageApi` | the error values and the ceiling that `storage.h` fixes for both targets | |
| `StorageFake` | `storage_fake.c` and its knobs | `StorageApi` |
| `Boot` | `main.c`, on the board and in the simulator | `Storage`, `StorageFake` |
| `SparseDisk` | the card of the bench: sectors in a hash table over a few pages | |
| `SectorArray` | an array of sectors of which only so many can be written: what a disk promises | |
| `Bench` | the rest of `bench/rnf03`: trace, clock, cost model, and the program | `SparseDisk` |
| `MC...` | values of constants for TLC | one each |
| `...Proofs` | theorems and their proofs; those of `Boot` are in `StorageProofs` | one each |

`Card` implements `CardContract` (`ImplementsContract`), and `Storage` uses only
`CardContract`, so the two can be checked apart. The one thing `Storage` adds is
`vol`, the card whose volume is mounted, chosen when the state becomes READY; that
it is the card in the socket is `LoanIsOfTheCard` of `Card`. `Storage` implements
`Library`, `Snapshot` implements `SnapshotRegister`, and `SparseDisk`, also under
`Bench`, implements `SectorArray`.

How they correspond to the code:

- **Card.** One action per call or access: `ReadSlot` is the read of the socket and
  the branch it selects, `ForceUnmount`, `ReleaseDisk`, `TryMount`, `UnmountStale`
  and `Remount` are the calls into FatFs and the disk, `Publish` is `publish`,
  `Unlock`, `ReadObserver` and `Notify` come after it in that order. `next` and
  `changed` are the locals of `card_refresh`; `back` says who called it. `told` is a
  history variable: what the observer has been told last.
- **SdStack** keeps four facts: which card is in the socket and whether anybody has
  tried it (`slot`, `fresh`), which card the disk layer has initialised (`sd`),
  whether the mount point is in Zephyr's list (`mnt`), and which card the FatFs work
  object describes (`vol`).
- **Storage.** `pos`, `ignored`, `result` are the locals of the scan, `out` and
  `skipped` what belongs to the caller; `count` is the length of `out`. Every
  access to the disk may fail at any time and may work with the card gone (from the
  window of FatFs), so the socket itself need not appear.
- **Names.** Files are sequences over a small alphabet, the bytes told apart by what
  the code tests of them. `Past` is a `while` over the bytes: where it stops that goes on
  while it is in a set. `Storage` uses the three outcomes of the header only.
- **Snapshot.** One core: while a writer has the interrupts disabled nobody else
  runs (`CanRun`). A word of a snapshot is the snapshot itself, so that any mixture
  shows. `during` counts the publications an attempt to copy has met.
- **Progress.** `U32`, `U16` and `Scale` are 2^32, 2^16 and 1000 in the code.
- **Boot.** `boot` is where `main` is; `CardReport`, `ScanLibrary` to `LibraryReported`,
  `SnapshotReport`, `CmdReport` and `Blink` are the functions of `main.c` in their
  order. `library` is the vector `main` lends to the scan. `SnapshotReport` publishes and
  reads back, and `CmdReport` is `CmdFlush`, then a `CmdPost` for each command and a
  `CmdGet` for each, where the first error ends the report: nobody else uses the two
  channels yet, so each call is one step here, and `Snapshot` and `Cmd` have them in
  detail. On the board its calls are those of `Storage`, step by step, with the monitor
  (`MonitorStep`) in between; in the simulator those of `StorageFake`, which take one
  step. `KnobStep` is what stands for the card there: the knobs, which only tests call.
- **SparseDisk.** `slots`, `slot_sector`, `pages`, `pages_used` are the arrays of
  `sim_card.c`; `SlotOf` is its loop of probing, as the first place where it may stop.
  A transfer is `io` and takes one step per sector, so that running out of pages in the
  middle is seen. A place keeps the number of its page, not a pointer.
- **Bench.** What FatFs asks of the disk in an operation is free, up to `Accesses`; the
  operation then answers, and fails in the simulator exactly if a write was refused. A
  piece of a track may be written short, and the loop asks for the rest; a write of
  nothing at all, which FatFs answers only on a full volume, is not modelled. On
  the board nothing is instrumented: an operation fails or not, and the last of a window
  takes any of `BoardTimes`. `clock` counts from `span_start`; `debt_ns`, `trace`,
  `worst`, `lo` and `hi` are the variables of the code. `loaded` is a history variable:
  the windows of the loads that worked. `SumTo` is the loop of `span_model_us`, as a
  recursive function so that it can be proved about.
- **Cmd.** The press number in a command, and all of `history`, are there for the
  properties: `answer` is what `cmd_post` has told each press. `player`
  stands for the thread that will call `cmd_get`.

A definition whose comment starts with **Defect** is no part of a model. It is a
plausible mistake in the code, in the form of the definition that follows it;
put in its place, it must make a property fail (`mutants` in `PROJECT.json`).

### What the models leave out

Log messages, names of states and the wording of paths; null arguments, which the
code refuses or ignores in its first line, except where a scan or a load of no room
is part of what is answered; directories and clusters of FAT, and sectors except in
the card of the bench; the values of timeouts, since a timeout may expire at any time.
Of the bench, `report_clock` and the tables of the report print only, the `ioctl` of
the disk answers constants, and `sim_card_set_poll_ns` is never called. The 32-bit and
64-bit counters of the bench are far from their ends (a clock in microseconds, a
product of at most 8 GiB of sectors) and are naturals here, except the product of the
hash, whose wrapping leaves the remainder as it is (`Home`).

## Runs

| Run | Instance | What it shows |
|---|---|---|
| `card` | two application threads that refresh and borrow (nesting up to two loans), the monitor, a good and a bad card, any swap at any speed | exclusion in FatFs, loans kept, truth of the state, clean disk before a mount, one attempt per insertion, the contract |
| `card_boot` | the firmware as `main.c` sets it up (one thread initialises and borrows) with three cards, and a socket that stays empty until the removal has been seen; fairness | the observer ends in step, the volume on loan is that of the card in the socket, removals are seen, a new card is tried, calls return |
| `snapshot` | two writers, two readers, two words, a counter of six, two publications per copy | an atomic register, so no torn read; retries only when due, reads return |
| `progress` | 6-bit `uint32_t`, ten units, every snapshot at every instant | the bar |
| `cmd` | two pressers, queue of two, four presses | order, no press lost without its answer, wake-ups |
| `storage` | two callers, a card with more tracks than there is room for among other files, another card, every read failing or not | whole libraries, what a scan answers, loans end |
| `names` | every file of up to 6 bytes over 8 (the BOM's three, a lead of four bytes, blank, newline, colon, letter), name field of 5 | the header is what its comment says; UTF-8 cuts; stale bytes |
| `boot` | `main` and the monitor over two cards that come and go, one with more tracks than the library holds; and `main` over the two tracks of the simulator with its knobs | the table keeps what was listed under its index, and it can be loaded; the heartbeat is reached and goes on |
| `bench` | a card of six sectors in a table of three places with two pages, two tracks written in pieces that may be cut short, a trace of two reads that a cold load of three overflows, a budget that one read of two sectors keeps and two miss; the board with two possible times per window | the card is an array, the clock agrees with the model, the threshold is exact, the verdict is of the worst, the program ends |

The other three (`cmd_flush`, `storage_stale`, `bench_no_number`) end in a
counterexample each: see [below](#where-the-code-and-its-docs-disagree).

Why the bounds are enough. *card*: two threads beside the monitor give every pair and
one bystander; two cards of either kind give every "the one before against the one
now"; a third thread adds waiters but no new holder. *snapshot*: two words are the
least that can tear, a copy that meets two publications is the least that meets a
whole one in the middle, and the counter of six wraps within it. *progress*: products
overflow `U32` and bases lie on both sides of the clock; the theorems cover the real
widths. *cmd*: four presses fill a queue of two, overflow it, and leave one in hand.
*storage*: the ceiling cuts the capacity of three to two and leaves one file over; a
capacity of one cuts inside the ceiling. *names*: the longest character is four bytes
and the retreat three, so the cut at four meets every alignment; the header needs a
BOM, a blank, a letter and a colon; a file longer than the peek is, to `header_name`,
its first bytes, and those are all there. *card_boot*: a card that is swapped faster
than the socket is polled is taken for the one before, so what is said of the card in
the socket is said of slower hands; every other safety property is checked with fast
ones in `card`. *boot*: the ceiling of two leaves a file of one card over, the other card has fewer
tracks than were listed of the first, and the two tracks of the simulator fill the
library. *bench*: the sectors 2 and 5 share the last place of the table as their home, so the second of them meets a
foreign sector and goes round the end; two pages run out within a write of the sectors
4 and 5. A track of three bytes is not made of pieces of two, so its last piece must be
trimmed, also after a short one. A load of up to two reads fits the trace, the cold load
of three does not; the search begins at 600 microseconds and has both its ends and every
middle; one of the two times of the board is over the budget.

The bounds on counters: `MaxLoans` (nested loans of one thread), `MaxPresses`,
`ClockMax`, `FileBytes`, `Accesses` (of FatFs to the disk in one operation), and `MaxDuring`,
the one with a meaning: `2 * MaxDuring < SeqModulus` excludes 2^31 publications during one copy of a few words, after which
the counter would look untouched. The firmware publishes once per note.

## Fairness

Only what the scheduling justifies, weak fairness everywhere.

- A thread inside a call keeps running (`InCall`, `Put`, `Reading`, `Publishing`): the
  threads of the firmware block only on what the models show, and no thread spins.
- `k_sleep` of the monitor elapses (`Wake`).
- A borrower gives the volume back (`Release` in `Card`); that `storage.c` does so on
  every path is `LoansEnd` of `Storage`.
- The player keeps asking for commands and finishes each (`Take \/ Wait`, `Done` in
  `Cmd`): an assumption on code that does not exist yet.
- The bench is one thread that nothing stops (`WF(Next)`), and so is `main`
  (`WF(MainStep)`): an evaluation by the monitor is a single step of `Poll` and cannot
  hold the volume for ever.
- Nobody is made to call, to press, to publish, to register an observer or to move a
  card, and no `fs_mount` is made to work.

`card_boot` has a single borrower. With two threads more urgent than the monitor that
borrow over and over, the mutex could pass between them for ever and the monitor
would wait; no fairness of the code forbids it, so `RemovalIsSeen` and `CallsReturn`
are stated for the firmware as it is set up. The liveness of `Storage` asks only that
loans end, not that a waiting caller is served.

## Proofs

Eight modules hold theorems for all values of the constants. The assumptions
are the named `ASSUME`s of the modules (types of constants and disjointness of
threads); the runs evaluate them.

**Card** (`CardProofs`). `IInv` is the conjunction of four parts:

- `LockInv`: a thread is at a place that holds the mutex exactly when it owns it, or
  is about to be let in by a hand-over; nesting is deeper than one only on loan.
- `MonitorInv`: the monitor is created once, and `back` says who is in `card_init`.
- `VolumeInv`: what a published state says of the volume, the disk and the card
  (`Coherent`), also of the state a thread is about to publish, and in which state a
  thread inside an evaluation can be.
- `TypeOK`.

None of the safety properties is inductive alone: `VolumeExclusive` needs to know who
owns the mutex, `StateMatchesVolume` and `DiskResetBeforeMount` what held when the
branch of `card_refresh` was chosen, several steps earlier. `CardInvariant` proves
`Spec => []IInv`, one step per action; `TypeCorrect`, `Exclusion`, `StateIsTrue`,
`MountIsClean`, `MountIsTriedOnce` and `MonitorIsOne` follow, and from the same invariant
that a volume on loan does not change (`LoanIsSafe`) and that `Card` implements
`CardContract` (`CardRefinesContract`): inside the mutex an evaluation can
move the state only when nobody has a loan, and only along the table.

All of these assume `OneInitialiser`: one thread calls `card_init`, as in `main.c`.
Without it `OneMonitor` is false: two threads can both find
`card_started` clear. They assume nothing of priorities
or of how cards are swapped, and no fs call is assumed to work.

Two theorems assume more, because without it they do not hold. `LoanIsGenuine` (a
volume on loan is that of the card in the socket, or of one that has just left it)
assumes that no card is swapped before its removal was seen (`~HandSwap`); the
strengthening is `SocketInv`, that a mounted volume is never another card's.
`ObserverIsTold` (the observer was last told the state there is) assumes that nobody
but the monitor and the start-up calls `card_refresh` (`Refreshers = {}`), which is so
in `main.c`: `RefreshersInv` has the two never evaluate side by side, so `ObserverInv`
can say what whoever is about to call the observer will tell it. A second caller of
`card_refresh` breaks it: the observer is called after the unlock, and of two
transitions the older one can be told last.

**Snapshot** (`SnapshotProofs`). `IInv` says that the counter is odd exactly during a
write and ahead of a reader's sample by two for every publication the reader has met
(`SeqInv`), and that a reader that has met none has copied words of the structure
that is there (`CopyInv`). With `2 * MaxDuring < SeqModulus`, a counter that did not
move means that no publication was met, so the copy is whole (`ReadIsWhole`, the last
part of `IInv`). `RetriesAreDue` and the refinement of the register,
`SnapshotRefinesRegister`, follow. A copy that meets half the counter's range is assumed
away by that inequality, not shown to be harmless.

**Progress** (`ProgressProofs`). Division and remainders by cases: `BarStaysInScale`,
`FullMeansOver`, `BarIsMonotone`, for every width with `Scale < U16 <= U32`.

**Cmd** (`CmdProofs`). `IInv` adds to the type of the queue what every press has come to
(`PutInv`, `AcceptedInv`, and `AnswerInv`: who was told `ok` is who was accepted, and
only who is still inside `cmd_post` has not been told anything). From it `OrderIsKept`: what has
been acted on, followed by what the player has in hand and what waits, is what was accepted less what was flushed,
in the same order; `LossIsTold`, that what `cmd_post` answered agrees with what became of
the press, then and ever after, and that a press is refused for want of room only when
the player owes `CMD_QUEUE_DEPTH` commands; and `SleepIsEmpty`, that the player does not
sleep beside a command.

**Storage** (`StorageProofs`). `StorageInv` relates, for each thread in a scan, the
vector, the table and `ignored` to the entries read so far (`Partial`): the tracks among
the first `n` entries are as many as are listed and ignored together, and the `i`-th
listed is the one that has `i - 1` tracks before it. Counting by place rather than by a
filtered sequence keeps recursion out: `SeenMore` says what one more entry changes, and
`IndexGrows` that an index names one place. `LoanInv` (one thread at a time has the
volume, and the card on loan stays) makes the rest survive the other threads and the
monitor. `ScanIsExact`, `TableHasOneUser` and `TypeCorrect` follow, and
`StorageRefinesLibrary`: the library is empty to the outside during a scan and becomes
the whole of what fits of one card in the step that settles the count. They assume that
the root directories are finite (`StorageAssumption`) and nothing of which reads fail.
`LoansRunOut` is what `LoansEnd` rests on: each step of who has the volume lowers a
lexicographic distance (`Shortens`: the parts of the call still to come, the entries of
the directory left, whether the last one read is still to be described), and nobody
else's step raises it. That the holder goes on is fairness, and left to TLC.

**Boot** (`StorageProofs`, last part). `FirmwareIsACaller` shows that the firmware makes
only steps of `Storage` there, so that the theorems above hold of it. `ListedIsKnown`
proves `ListedIsLoadable`; its `MainInv` says that on the board the count of the library
is that of main's scan while it loads, and the table entry by entry what `main` was given
(`Listed`, from `ScannedIsListed`), as nobody else scans, and that in the simulator a
listed index is within the binary whatever the flags are. Whether the name so kept is
still that of the same file is not claimed: `storage_load` looks at `lib_count` and at
whether there is a card (`storage.c:361`), and the card may be another by then.

**SparseDisk** (`SparseDiskProofs`). `DiskInv` says that no page is in two places and
none in the table that was not handed out, that as many sectors are in the table as
pages were handed out, and that probing for a sector that is there gets to its place.
As there are fewer pages than places (the `BUILD_ASSERT` of the code), a free place is
left and probing ends (`FreePlace`, a pigeonhole argument), so `SlotOf` is defined.
`TableIsSound` proves the invariant for every multiplier and size, `DiskRefinesArray`
that the table implements the array of sectors.

**Names** (`NamesProofs`). The loops of `header_name` and `utf8_boundary` are all
`Past(S, first, last)`: where one stops that goes on while it is in `S`. `PastHalts` says
it once for all of them, that it stops at the first place outside `S` or past the end,
and the theorems need nothing else of the recursion. Where the proofs need induction
over a length they take the least number for which the claim fails (`LeastNatural`),
as the library's induction theorems cannot be instantiated. `HeaderIsFound` needs no
hypothesis. `CutIsBetweenCharacters`, `JunkIsKept` and `EntryIsItsName` assume `Text`, that
no byte of a file is NUL, and they need it: a NUL inside the name of a header is
copied like any byte (`track.c:73`), the C string then ends before it, and two entries
that print alike could differ behind it. No file of text has one.

**Bench** (`BenchProofs`). `BenchRefinesArray` carries the array over to the whole program,
and `SearchIsExact` proves the bisection from its invariant (`SearchInv`: `lo` fits
and `hi + 1` does not), without assuming anything of the cost model. `BenchTypes` needs
`CountsInv`, that nothing is counted or loaded past the library.

`ClockIsTheModel` rests on `WindowInv`: in the window of a load, what the clock shows, what
it still owes and what the read under way will be charged are the cost of the trace
plus what the last window left owing, less than a microsecond (`Accounts`). One read more
adds its cost to both sides (`ModelNsNext`), a charge moves it from what is pending to the
clock (`ChargeIs`), and a new window keeps only what is owed. A read for which the trace
has no room (`SIM_CARD_TRACE_MAX`, 256) is only counted, and the clock is charged all
the same: of such a window `Accounts` says that the clock is ahead of the model by
`Cheapest`, a read of one sector, for each at least (`TracedAccounts`, `CheapestIs`).

`ReportSpeaksForAll` adds
`FilesInv` (the tracks made are as large as asked and as many), `FatInv` (once the card is
made nothing writes to it, so nothing fails in the simulator), `LoadsInv` and `WorstInv` (there
is a load for every track and the cold one, and the worst is the longest of them). The
cost of a trace is affine in the access time, with its sectors as the slope
(`ModelNsAffine`), so a load that is no longer than the worst and no more sensitive stays
within the budget on the card on which the worst does, but for two microseconds of
rounding (`KeepsTheBudget`).

Neither assumes that the trace has room. Nothing in the program looks at `dropped`
(`sim_card.c:180-188`): `span_model_us` cuts `calls` to the room (`main.c:127`) and goes on,
so the threshold of a load that overflows would be too kind. What the two theorems say of
the threshold is therefore said of complete traces; the verdict, the number of loads and
the sizes of the tracks are said of all. The worst load measured makes four reads
(`docs/medicoes/rnf03-abertura-de-faixa.md:14`).

`ReportIsOfTheWorst` does not say that *every* load keeps the budget up to the threshold,
as the line printed at `main.c:346-347` suggests. The worst load is chosen at the
default access time; one that is shorter there but reads more sectors can overtake it on
a slower card (and the other way round on a faster one), so the property speaks of
loads that are no more sensitive than the worst (`NoMoreSensitive`). In the measurement
kept in `docs/medicoes/rnf03-abertura-de-faixa.md:126-127` no load reads more than the worst.

`BenchEnds` itself is checked by TLC only, but what it rests on is proved: by
`BenchComesNearer` every step lowers a lexicographic distance to the end (`Nearer`: the
parts of `main` still to come, the rounds left in the loop of a part, the steps left of
a round, the bytes left of a track, the accesses FatFs may still make, the sectors left
of one) whose components are natural numbers (`DistancesAreNatural`), provided FatFs makes
an end of its accesses in an operation (`AccessesEnd`). What is left to TLC is that a next
step is always possible.

Only model-checked: the liveness properties (`RemovalIsSeen`, `NewCardIsTried`,
`CallsReturn`, `ReadReturns`, `AcceptedIsActedOn`, `LoansEnd`, `MainBlinks`, `BenchEnds`),
which are out of the prover's reach. Every safety property a passing run checks, and
every refinement, is also a theorem.

## Where the code and its docs disagree

| Run | The text | The code |
|---|---|---|
| `cmd_flush` | `cmd.h:108-109`: buttons pressed before the change of track do not act on the new one | a command between validation and queue survives the flush |
| `storage_stale` | `storage.h:54-55`, `storage.c:66`: a scan that fails leaves the library empty | a scan that cannot borrow the volume returns before it clears `lib_count` |
| `bench_no_number` | `bench/rnf03/main.c:352-353`: a number was measured and the decision rests on it | with every load failing the worst load is still zero and a decision is printed all the same |

Others were met that have no run of their own. `card.h:73` has the observer called in
the monitor's thread, but `card_init` evaluates once in its caller, and so does anyone
who calls `card_refresh`; with a second thread in `card_refresh` the older of two
transitions can be told last, against `card.h:70-78` and `main.c:82-87`.
`docs/adr/0007`, lines 83-85, has a new attempt come from removal and reinsertion: if both fall
between two polls, the new card is never tried. `card.h:92` offers NULL to switch the
observer off, but the copy read at `card.c:289` may still be called after that.
`card.h:106-107` says that a second `card_init` creates no second monitor, which is
true of calls in one thread: test and set (`card.c:324`, `card.c:328`) are separate
steps, and two threads can both get past the test. `storage_load` answers `-ENOTSUP` for every
track until issue #11, which the list of results in `storage.h` does not name; and
`storage_fake.c:170` answers `storage_present` with TRUE while its reads fail, where
`storage.h:100` asks for a readable card. `storage_fake.c:152` loads any of its tracks, also
those that no scan listed or after a scan that failed, where `storage.h:53-55` has the
indices come from the last scan.

## Not modelled

- player, synth, parser, ui, input, loader, volume: no code yet. What they will do
  with the modelled parts is left as free as the headers leave it.
- `sim_encoder.c`: a filter without state, from key events to at most one encoder step
  each. What can go wrong is that Zephyr's input queue is full and a step is lost, and
  that queue belongs to the kernel.
- The null arguments and the names of states, and what only prints, as above.
- `scripts`, CMake, Kconfig, docker, CI: not part of the running program.
- `tests/common/fake_disk.c`: what `card.c` sees of it is in `SdStack`; formatting and
  sectors are not.
- FatFs, the SD driver, the kernel: modelled only as used (`SdStack`, `KMutex`, and
  the queue inside `Cmd`).

## Plan

Done, in this order: `KMutex`, `SdStack`, `Card`, `CardContract` with their proofs;
`SnapshotRegister`, `Snapshot`, `Progress` with theirs; `Cmd`; `Library`, `Storage`;
`Names`; `SectorArray`, `SparseDisk`, `Bench` with their proofs; `StorageApi`,
`StorageFake`, `Boot`; the proofs of `Cmd`, `Storage` and `Boot`; those of `Names` and the
rest of `Bench`.

Next:

1. `Boot` over `Card` itself instead of its contract, with the observer registered
   before `card_init`.
2. `storage_load` once it opens files (issue #11): an index of a library whose card has
   been swapped.
3. The player, when it exists, as the other end of `Cmd` and the writer of `Snapshot`.
