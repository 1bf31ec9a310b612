CONSTANTS
  Last = 2
  Bought = 2
  Preorders = {}
  RootOnly = {1}
  OtherPage = {}
  CrossListed = {2}
  Lookalikes = {}
  FolderOf <- OneFolder
  Occupied = {}
  Adopted = {}
  Copies <- OrphanCopies
  HasStray = FALSE
  Cap = 1
  Modes = {"auto", "link"}
  Deeds = {"approve", "restore", "match", "confirm", "reconcile", "erase", "redownload", "restart", "badscan", "clear"}
  MaxFaults = 2
SPECIFICATION Spec
INVARIANTS SyncTypeOK NeverMixed
