\* The targets and sources of the run of Migration.cfg: is the engine chosen by
\* default ever refused after the conversion?
SPECIFICATION Spec
CONSTANTS
  Configs <- MCConfigs
  NVRAMFiles <- MCNVRAMFiles
  BaseName <- MCBaseName
  NoFile = NoFile
INVARIANT
  AutoFallsBack
CHECK_DEADLOCK FALSE
