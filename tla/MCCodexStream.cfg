\* Two runs, two messages told of in turns, one edit of the repository.
CONSTANTS
  i1 = i1
  i2 = i2
  Items <- MCItems
  MaxParts = 1
  MaxRuns = 2
  MaxEdits = 1
  MaxWire = 2
  MaxPipe = 1
SPECIFICATION FairSpec
INVARIANTS
  TypeOK
  OnlyPublicTextIsShown
PROPERTIES
  EndingsAreTrue
  EveryRunEnds
