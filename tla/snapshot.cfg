\* The player thread and the timer's callback publish; the counter wraps after
\* three publications, and one attempt to copy meets at most two.
CONSTANTS
  idle = idle
  playing = playing
  player = player
  timer = timer
  ui = ui
  log = log
  Snapshots = {idle, playing}
  Idle = idle
  Words = {1, 2}
  Writers = {player, timer}
  NoWriter = NoWriter
  Readers = {ui, log}
  SeqModulus = 6
  MaxDuring = 2
SPECIFICATION FairSpec
INVARIANTS
  IInv
PROPERTIES
  ImplementsRegister
  RetryMeansPublished
  ReadReturns
