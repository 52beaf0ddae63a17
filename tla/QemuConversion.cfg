\* Three disks, each with any of 24 sources.
CONSTANTS
  NumDisks = 3
  Sources <- MCSources
  Names <- MCNames
  Missing = Missing
SPECIFICATION FairSpec
INVARIANTS
  FinishedDisksOnly
PROPERTIES
  ImplementsDirectory
  BackendEnds
