CONSTANTS
  Dirs = {d1}
  Threads = {t1}
  Loop = loop
  NoDir = nodir
  ArtistNfo = nfo
  Ops = {}
  Watched = TRUE
  MaxVersion = 2
  MaxNfo = 1
  MaxFaults = 1
  MaxResets = 1
SPECIFICATION FairSpec
INVARIANTS CacheHonest InboxLock NothingForgotten
PROPERTIES Converges
