SPECIFICATION FairSpec
CONSTANTS
  Keys = {"2", "[", "]"}
  Mods = {"shift", "ctrl"}
  Modes = {"us", "jp"}
  Table <- MCTable
  RepeatDelay = 2
  None = None
INVARIANTS
  TypeOK
  OnlyHeld
  ModsRestored
PROPERTIES
  HeldIsShown
