\* Every target and every source asked of every backend, on any host, with up to
\* three .nvram files, two of which have the same name.
SPECIFICATION Spec
CONSTANTS
  Configs <- MCConfigs
  NVRAMFiles <- MCNVRAMFiles
  BaseName <- MCBaseName
  NoFile = NoFile
INVARIANTS
  ContractKept
  TemplateUsable
  LateRefusalForArmOnly
  BadApplianceNeverBundled
  CheckedWhenPossible
  NVRAMKeptByName
CHECK_DEADLOCK FALSE
