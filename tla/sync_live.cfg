CONSTANTS
  Last = 3
  Bought = 2
  Preorders = {2}
  RootOnly = {}
  OtherPage = {}
  CrossListed = {}
  Lookalikes = {}
  FolderOf <- OwnFolders
  Occupied = {3}
  Adopted = {1}
  Copies <- WaitingCopies
  HasStray = FALSE
  Cap = 1
  Modes = {"auto", "full"}
  Deeds = {"restart", "clear", "badscan"}
  MaxFaults = 1
SPECIFICATION LiveSpec
INVARIANTS NothingBuried
PROPERTIES EveryPurchaseSettles
