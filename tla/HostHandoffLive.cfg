CONSTANTS
    Keyboards = {}
    Mice = {m}
    Values = {0, 1}
SPECIFICATION FairSpec
PROPERTIES
    FlashCompletes
    HeldReachesMatrix
