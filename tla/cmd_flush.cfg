\* The track changes while a command is between its validation and the queue.
CONSTANTS
  skip = skip
  select = select
  unknown = unknown
  input = input
  isr = isr
  Pressers = {input, isr}
  Kinds = {skip, select}
  Select = select
  BadKind = unknown
  Tracks <- MCTracks
  LibraryMax = 2
  Depth = 2
  MaxPresses = 4
SPECIFICATION Spec
PROPERTIES
  FlushedIsGone
