SPECIFICATION FairSpec
CONSTANTS
  Keys <- MCKeys
  Layers = {0, 1}
  Keymap <- TwoLayers
  Term = 2
  TimerMod = 5
  BufferSize = 3
  MaxTaps = 2
  Gaps = {0, 1, 2}
  None = None
INVARIANTS
  TypeOK
  NothingStuck
PROPERTIES InOrder
  Settles
