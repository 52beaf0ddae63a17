\* Three disks, any backend, policy and engine, any buses; suffixes of up to three
\* letters.
CONSTANTS
  NumDisks = 3
  Controllers <- MCControllers
  XMLBuses <- MCXMLBuses
  MaxIndex = 750
SPECIFICATION Spec
INVARIANTS
  NothingLost
  WhereReported
  NamedInOrder
  RuntimeContract
  CountsInLetters
