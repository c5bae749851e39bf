\* main and the monitor, on the board and in the simulator.
CONSTANTS
  Threads = {main}
  Main = main
  left = left
  right = right
  Cards = {left, right}
  NoCard = NoCard
  Root <- MCRoot
  LibraryMax = 2
  Capacities = {2}
  Tracks = {0, 1}
  FakeTracks <- MCFakeTracks
  FileMax = 4
  QueueDepth = 2
  BuiltFor = {"board", "sim"}
SPECIFICATION FirmwareFair
INVARIANT ListedIsLoadable
PROPERTY MainBlinks
