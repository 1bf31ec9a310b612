CONSTANTS
  Releases = {r1}
  Albums = {a1}
  ReleaseOf <- OneRelease
  Payloads = {1, 2, 3}
  Reach <- Near
  Edits <- Course
  Published = {1}
  TaggedFrom = {1}
  Nothing = nothing
  RecheckAfter = 1
  Window = 2
  Fits = 1
  GiveUpAfter = 1
  Readers = {"page", "search"}
  Routings <- Trusting
  MaxDeeds = 1
SPECIFICATION FairSpec
INVARIANTS FlagHonest
PROPERTIES    TrustedSettle
