CONSTANTS
  Dirs = {d1}
  Threads = {t1}
  Loop = loop
  NoDir = nodir
  ArtistNfo = nfo
  Ops = {"album", "notify", "now", "kick"}
  Watched = TRUE
  MaxVersion = 2
  MaxNfo = 0
  MaxFaults = 0
  MaxResets = 0
SPECIFICATION FairSpec
INVARIANTS TypeOK SeqCaughtUp
PROPERTIES ScanKeepsNewer ImplementsSnapshot
