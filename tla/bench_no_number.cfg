\* The decision when no track could be loaded.
CONSTANTS
  SectorCount = 6
  SlotCount = 3
  Multiplier = 1
  MaxPages = 2
  Contents = {zero, a}
  Zero = zero
  TraceMax = 2
  DefaultPoll = 200000
  PollCap = 600
  Budget = 720
  Tracks = 2
  Step = 3
  Pieces = {2}
  Targets = {"sim", "board"}
  Transfers <- MCTransfers
  Accesses <- MCAccesses
  BoardTimes = {300, 900}
SPECIFICATION Spec
INVARIANT DecisionIsOnALoad
