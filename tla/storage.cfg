\* Two callers, a ceiling of two tracks, and every read of the disk failing or not.
CONSTANTS
  Threads = {t1, t2}
  left = left
  right = right
  Cards = {left, right}
  NoCard = NoCard
  Root <- MCRoot
  LibraryMax = 2
  Capacities = {0, 1, 3}
  Tracks <- MCTracks
SPECIFICATION FairSpec
INVARIANTS
  TypeOK
  ScanAnswersTheDirectory
PROPERTIES
  ImplementsLibrary
  LoansEnd
