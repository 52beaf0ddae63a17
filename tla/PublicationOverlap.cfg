\* Two invocations that name the same OUTPUT run at the same time.
CONSTANTS
  r1 = r1
  r2 = r2
  Runs = {r1, r2}
  Prior = Prior
  NoFile = NoFile
  Overlap = TRUE
SPECIFICATION FairSpec
INVARIANTS
  OneWriterPerFile
  NoPartialLeftBehind
PROPERTIES
  EveryRunEnds
