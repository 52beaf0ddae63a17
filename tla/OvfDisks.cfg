\* Three items of any kind, three disks: order, controllers, duplicates; or files and
\* disks that are missing, redefined or lead out.
CONSTANTS
  DiskIDs <- MCDiskIDs
  Name <- MCNames
  Instances <- MCInstances
  Number <- MCNumber
  FileElements <- MCFiles
  DiskElements <- MCDisks
  Items <- MCItems
  MaxFiles = 2
  MaxDisks = 3
  MaxItems = 3
  Runs <- MCRuns
  MaxRuns = 3
SPECIFICATION Spec
CONSTRAINT MCBound
INVARIANTS
  ExactlyTheDisks
  InControllerOrder
  BusOfItsController
  UsableOrRefused
  StrictWeakOrder
