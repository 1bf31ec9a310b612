SPECIFICATION Spec
CONSTANTS
  None = None
  Tolerance = 4
  Ids = {"r", "s"}
  Worlds <- McWorlds
  Folders <- McFolders
  Starts <- McStarts
  Linked = {"r", "s"}
  Elsewhere <- McElsewhere
  MaxEdits = 1
  MaxMoves = 1
  MaxWrites = 2
INVARIANT OneFilePerTrack
INVARIANT Settled
INVARIANT PregapCredited
PROPERTY AsReviewed
PROPERTY IdsKept
CHECK_DEADLOCK FALSE
