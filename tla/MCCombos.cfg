SPECIFICATION FairSpec
CONSTANTS
  Keys = {"a", "d", "e", "f"}
  NoKey = none
  Chords <- MCChords
  Control = {"CMB_TOG"}
  COMBO_TERM = 1
  COMBO_KEY_BUFFER_LENGTH = 8
  COMBO_BUFFER_LENGTH = 4
ACTION_CONSTRAINT FewAfterOverrun
INVARIANTS
  TypeOK
  Accounted
  FiredIsActive
PROPERTIES
  Drains
