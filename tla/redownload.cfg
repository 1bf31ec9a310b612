SPECIFICATION Spec
CONSTANTS
  None = None
  Files <- McFiles
  Home = "1"
  Beginnings <- McBeginnings
  Downloads <- McDownloads
  Releases = {"r", "s"}
  Match = "r"
  Length <- McLength
  LinkedFrom = {"s"}
  MaxPresses = 2
  MaxEdits = 1
  MaxFaults = 1
INVARIANT NothingLost
PROPERTY TaggedAsItWas
