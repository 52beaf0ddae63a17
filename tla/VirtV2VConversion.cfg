\* Any domain of up to three elements, for an OVF of two disks.
CONSTANTS
  NumAttached = 2
  MaxDisks = 3
  Extra = Extra
  NoFile = NoFile
  Missing = Missing
  Domains <- MCDomains
SPECIFICATION FairSpec
INVARIANTS
  SoundDisksOnly
  SourceReported
PROPERTIES
  ImplementsDirectory
  BackendEnds
