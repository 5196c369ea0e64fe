SPECIFICATION Spec
CONSTANTS
  OsOrder <- MCOsOrder
  Modes = {0, 1}
  DeviceLens = {18}
  ConfigLens = {255}
INVARIANTS
  TypeOK
  ViaSound
  PerOsRestored
  KeymapKept
