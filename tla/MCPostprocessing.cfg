CONSTANTS
  Bags <- MCBags
  Dir <- MCDir
  BagDir <- MCBagDir
  Newest <- MCNewest
  Handlers <- MCHandlers
  Rosout = "rosout"
  BagDirOf <- MCBagDirOf
  Other = "command"
  Lossy <- MCLossy
  Commands <- MCCommands
  Growing <- MCGrowing
  Skips <- MCSkips
  Workers = 2
  MaxVersion = 2
  MaxCommands = 3
  MaxFaults = 1
SPECIFICATION PostSpec
INVARIANTS  CachedIsCurrent MadeIsRecorded
PROPERTY CallEnds
CHECK_DEADLOCK FALSE
