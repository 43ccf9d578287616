SPECIFICATION Spec
CONSTANTS
    i1 = i1  text = text  png = png
    Ids = {i1}
    Mimes = {text, png}
    ImageMimes = {png}
    Lists <- TextLists
    Updates <- OneUpdate
    Handlers = {h1}
    Consumer = consumer
    Pruner = pruner
    Commands = {}
    None = None
    MaxRequests = 1
    MaxFaults = 0
INVARIANTS EveryRemovalAnnounced
