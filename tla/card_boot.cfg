\* The firmware as main.c sets it up: one application thread that initialises and
\* borrows, and the monitor.  Cards are swapped only after the removal of the
\* previous one was seen.
CONSTANTS
  main = main
  other = other
  mon = mon
  Threads = {main, mon}
  NoThread = NoThread
  Prio <- MCPrio
  Monitor = mon
  Refreshers = {}
  Borrowers = {main}
  Initialisers = {main}
  ObserverArgs = {TRUE}
  MaxLoans = 1
  HandSwap = FALSE
  Cards = {good, better, bad}
  Legible = {good, better}
  NoCard = NoCard
SPECIFICATION FairSpec
INVARIANTS
  ObserverInStep
  LoanIsOfTheCard
PROPERTIES
  RemovalIsSeen
  CallsReturn
  NewCardIsTried
