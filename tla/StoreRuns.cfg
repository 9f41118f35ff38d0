CONSTANTS
    exact = exact
    spare = spare
    small = small
    Processes <- AllThree
    Limit <- MCLimit
    Old = Old
    NoFile = NoFile
    PayloadBytes = 1
SPECIFICATION Spec
INVARIANTS StoreOK OnlyMeddlingCorrupts ReadsBackOwn
PROPERTIES GoodEntryKept Rebuilt
