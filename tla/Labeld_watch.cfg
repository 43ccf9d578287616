SPECIFICATION FairSpec
CONSTANTS
    labeld = labeld
    watcher = watcher
    Clients <- TwoClients
    Labeller = labeld
    Items = {1, 2}
    Mimes <- MimesUsed
    Filter <- Filters
    Versions = 2
    ByUser = ByUser
    Overwrite = FALSE
    Ring = 1
    Room = 1
    MaxEvents = 4
INVARIANTS TypeOK OneCallPerItem LabelsTrue
PROPERTIES ImplementsStream DepartedDropped EveryItemHandled Reconnects
CHECK_DEADLOCK FALSE
