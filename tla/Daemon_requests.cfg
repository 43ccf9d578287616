SPECIFICATION FairSpec
CONSTANTS
    i1 = i1  text = text  png = png
    Ids = {i1}
    Mimes = {text, png}
    ImageMimes = {png}
    Lists <- AddLists
    Updates <- OneUpdate
    Handlers = {h1, h2}
    Consumer = consumer
    Pruner = pruner
    Commands = {"prune", "thumbnail"}
    None = None
    MaxRequests = 3
    MaxFaults = 1
INVARIANTS TypeOK UpdateWhole DeletionIsFinal OkMeansDone ThumbnailsAccounted
PROPERTIES ImplementsFeed
