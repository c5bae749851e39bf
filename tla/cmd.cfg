\* Two pressers, one of them an interrupt, and a queue of two commands.
CONSTANTS
  skip = skip
  select = select
  unknown = unknown
  input = input
  isr = isr
  Pressers = {input, isr}
  Kinds = {skip, select}
  Select = select
  BadKind = unknown
  Tracks <- MCTracks
  LibraryMax = 2
  Depth = 2
  MaxPresses = 4
SPECIFICATION FairSpec
INVARIANTS
  TypeOK
  AcceptedInOrder
PROPERTIES
  NothingLostInSilence
  AcceptedIsActedOn
