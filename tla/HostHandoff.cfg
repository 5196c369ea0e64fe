CONSTANTS
    Keyboards = {k}
    Mice = {m}
    Values = {0, 1}
SPECIFICATION Spec
INVARIANTS
    TypeOK
    FlashExclusive
    BufferExclusive
    NothingStuck
