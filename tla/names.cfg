\* Every content of the peek, and of an array of five bytes.  A program that has
\* described its file is done.
SPECIFICATION Spec
CONSTANTS
  Alphabet = {"EF", "BB", "BF", "F0", "space", "newline", "colon", "letter"}
  FileBytes = 6
  HeaderPeek = 6
  FileMax = 5
  TrackNameMax = 5
  ShortName <- MCShortName
INVARIANTS
  HeaderIsAsWritten
  CutBetweenCharacters
  JunkIsNotErased
  EntriesCompare
CHECK_DEADLOCK FALSE
