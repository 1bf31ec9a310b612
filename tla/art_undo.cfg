CONSTANTS
  Images = {i1, i2, i3, i4, i5}
  NoImage = none
  Archived = {i2, i3, i4, i5}
  Targets = {1, 2}
  AlbumOf <- OneAlbum
  Workers = {w1}
  Cap = 4
  KeepPerAlbum = 1
  MaxActions = 3
  MaxFaults = 1
SPECIFICATION Spec
INVARIANTS ArtTypeOK PromiseKept
PROPERTIES NoBackupNoReplacement
SYMMETRY Symmetry
CHECK_DEADLOCK FALSE
