SPECIFICATION FairSpec
CONSTANTS
    Daemons = {d1, d2}
    NoDaemon = NoDaemon
    Ids = {1, 2, 3, 4}
    Mimes <- MimesUsed
    Data = {"old", "file", "stdin"}
    OthersData = {"old", "file"}
    NoData = NoData
    Asked <- Given
    Stores <- Beginnings
    Now = 4
    Width = 5
    MaxDate = 8
    MaxChanges = 2
INVARIANTS TypeOK OneServes ReadsTruthful ListComplete ExitCodesRight
PROPERTIES StartServes CommandEnds
CHECK_DEADLOCK FALSE
