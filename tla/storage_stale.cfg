\* A scan that cannot borrow the volume, after one that worked.
CONSTANTS
  Threads = {t1}
  left = left
  right = right
  Cards = {left, right}
  NoCard = NoCard
  Root <- MCRoot
  LibraryMax = 2
  Capacities = {3}
  Tracks <- MCTracks
SPECIFICATION Spec
PROPERTIES
  FailedScanLeavesNothing
