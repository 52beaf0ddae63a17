\* Any OVA of up to four of fourteen members, any of 288 directories; every
\* reference of up to five tokens.
CONSTANTS
  Paths <- MCPaths
  Descriptors <- MCDescriptors
  Manifests <- MCManifests
  OtherMetadata <- MCNVRAM
  Contents <- MCContents
  Lines <- MCLines
  Hrefs <- MCHrefs
  Resolve <- MCResolve
  Members <- MCMembers
  MaxMembers = 4
  Trees <- MCTrees
  References <- MCReferences
  MaxTokens = 5
SPECIFICATION Spec
INVARIANTS
  SourceFaithful
  ParsedIfConsistent
  InsideExactly
