SPECIFICATION Spec
CONSTANTS
  None = None
  Columns <- McColumns
  Pinned = {"title"}
  MediumDerived = {"media", "track_total"}
  Listed = {"works"}
  Identifiers = {"isrcs", "mb_work_ids"}
  SubsumedBy <- McSubsumedBy
  Counterpart <- McCounterpart
  Panel = {"album_artist", "country", "compilation"}
  Flags = {"compilation"}
  Yes = "Yes"
  MaxEarned = 1
  Tracks <- McTracks
  Image <- McImage
  PlayerMax = 5
  Albums <- McAlbums
INVARIANT NothingHidden
INVARIANT RejectedStaysOut
 
INVARIANT ArtSettles
INVARIANT NothingWorthFetching
PROPERTY AsPreviewed
PROPERTY UnattendedOnlyAdds
CHECK_DEADLOCK FALSE
