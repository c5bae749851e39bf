\* Two application threads that refresh and borrow beside the monitor, cards
\* swapped at any speed.
CONSTANTS
  main = main
  other = other
  mon = mon
  Threads = {main, other, mon}
  NoThread = NoThread
  Prio <- MCPrio
  Monitor = mon
  Refreshers = {other}
  Borrowers = {main, other}
  Initialisers = {main}
  ObserverArgs = {TRUE}
  MaxLoans = 2
  HandSwap = TRUE
  Cards = {good, bad}
  Legible = {good}
  NoCard = NoCard
SPECIFICATION Spec
INVARIANTS
  TypeOK
  VolumeExclusive
  StateMatchesVolume
  DiskResetBeforeMount
  OneAttemptPerInsertion
PROPERTIES
  LoanKeepsVolume
  ImplementsContract
