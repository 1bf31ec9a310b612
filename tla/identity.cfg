CONSTANTS
  this = this
  other = other
  Releases = {this, other}
  Nothing = nothing
  MergedInto <- NoMerge
  Parts <- TwoParts
  Files = {1, 2}
  PartOf <- TwoParts2
  TrackOf <- Tracks
  Paths <- ThreePaths
  Beginnings <- ThreeStarts
  Acts = {"confirm", "pencil", "undo pencil", "picard", "undo", "appear"}
  MaxActs = 2
  MaxFaults = 1
SPECIFICATION FairSpec
INVARIANTS AddressesDiffer 
PROPERTIES NeverStuck
CHECK_DEADLOCK FALSE
