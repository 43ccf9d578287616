SPECIFICATION FairSpec
CONSTANTS
    Inputs <- Texts
    Limit = 2
    MaxFragments = 6
INVARIANTS TypeOK VerdictRight IInv
PROPERTY ScanEnds
CHECK_DEADLOCK FALSE
