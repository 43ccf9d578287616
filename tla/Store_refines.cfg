SPECIFICATION FairSpec
CONSTANTS
    i1 = i1  i2 = i2  text = text  html = html  a = a  b = b
    Ids = {i1, i2}
    Mimes = {text}
    Contents = {a, b}
    Lists <- LastLists
    Tasks = {t1, t2}
    Clis = {}
    TaskKinds = {"add", "set", "remove", "delete", "prune"}
    CliKinds = {}
    None = None
    MaxTime = 1
    MaxFaults = 0
PROPERTIES ImplementsHistory EveryCallReturns
