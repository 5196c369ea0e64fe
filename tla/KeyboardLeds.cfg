SPECIFICATION LedSpec
CONSTANTS
  Keyboard = kbd
  Others = {mouse}
  Removable = {kbd, mouse}
  Leds = {0, 1, 2}
INVARIANT LedTypeOK
PROPERTY LedsFollow
CHECK_DEADLOCK FALSE
