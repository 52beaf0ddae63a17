\* Two virtual systems are enough for the wrong one to be converted.
CONSTANTS
  Tools <- MCTools
  NamedTools <- MCNamedTools
  V2VPlaces <- MCV2VPlaces
  QemuPlaces <- MCQemuPlaces
  NoTool = NoTool
  Blank = Blank
  Texts <- MCTexts
  None = None
  Default = Default
  MaxSystems = 2
  Keys <- MCKeys
  FirmwareKeys <- MCFirmwareKeys
  SecureKeys <- MCSecureKeys
  TPMKeys <- MCTPMKeys
  Values <- MCValues
  SaysEFI <- MCSaysEFI
  SaysTrue <- MCSaysTrue
  Configs <- MCConfigs
  GuestItems <- MCGuestItems
  MaxConfigs = 0
  MaxGuestItems = 0
  MiB = 4
  MaxInt = 9000
  Multiplier <- MCMultiplier
  Quantities <- MCQuantities
  SizeItems <- MCSizeItems
  MaxSizeItems = 0
SPECIFICATION Spec
CONSTRAINT MCBound
INVARIANTS
  SelectedConverted
