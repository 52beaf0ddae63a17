\* Any host of four tools, two of which can be named; documents of up to three
\* virtual systems; up to four settings and three adapters; up to three quantities.
CONSTANTS
  Tools <- MCTools
  NamedTools <- MCNamedTools
  V2VPlaces <- MCV2VPlaces
  QemuPlaces <- MCQemuPlaces
  NoTool = NoTool
  Blank = Blank
  Texts <- MCTexts
  None = None
  Default = Default
  MaxSystems = 3
  Keys <- MCKeys
  FirmwareKeys <- MCFirmwareKeys
  SecureKeys <- MCSecureKeys
  TPMKeys <- MCTPMKeys
  Values <- MCValues
  SaysEFI <- MCSaysEFI
  SaysTrue <- MCSaysTrue
  Configs <- MCConfigs
  GuestItems <- MCGuestItems
  MaxConfigs = 4
  MaxGuestItems = 3
  MiB = 4
  MaxInt = 9000
  Multiplier <- MCMultiplier
  Quantities <- MCQuantities
  SizeItems <- MCSizeItems
  MaxSizeItems = 3
SPECIFICATION Spec
CONSTRAINT MCBound
INVARIANTS
  TypeOK
  ToolsFound
  MachineMeant
  SettingsOfTheDocument
  QuantitiesOfTheDocument
