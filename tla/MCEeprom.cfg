CONSTANTS
    NumWords = 2
    ByteWords = 1
    LogLen = 5
    MaxByte = 1
    CompactedPageLen = 1
    LogPageLen = 3
SPECIFICATION FairSpec
INVARIANTS
    TypeOK
    IntactSurvivesReboot
PROPERTIES
    ImplementsStore
    ReturnsToCaller
