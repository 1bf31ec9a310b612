CONSTANTS
  Last = 3
  Bought = 2
  Preorders = {}
  RootOnly = {}
  OtherPage = {1}
  CrossListed = {}
  Lookalikes = {3}
  FolderOf <- OwnFolders
  Occupied = {}
  Adopted = {}
  Copies <- LibraryCopies
  HasStray = TRUE
  Cap = 1
  Modes = {"auto"}
  Deeds = {"confirm", "match", "approve", "skip"}
  MaxFaults = 0
SPECIFICATION Spec
PROPERTIES NoCopyRefetched SurrenderConclusive
