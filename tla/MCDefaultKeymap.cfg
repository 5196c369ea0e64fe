SPECIFICATION Spec
CONSTANTS
  Modifiers = {"ctl", "alt"}
  Keys = {"ctl", "meh", "btn1", "btn2"}
  Wheels = {"up", "down"}
  Buttons = {"btn1", "btn2"}
  Ordinary = {"btn1", "btn2", "up"}
  TapButton = "btn1"
  Code <- MCCode
  Mods <- MCMods
  Timeout = 1
  MaxDelay = 2
  MaxWaiting = 3
INVARIANTS
  TypeOK
  ModsAccounted
  ButtonsFollow
PROPERTIES
  EncoderReleased
