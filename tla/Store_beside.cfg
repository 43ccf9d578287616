SPECIFICATION Spec
CONSTANTS
    i1 = i1  i2 = i2  text = text  html = html  a = a  b = b
    Ids = {i1, i2}
    Mimes = {text}
    Contents = {a, b}
    Lists <- OneFormatLists
    Tasks = {t1}
    Clis = {c1}
    TaskKinds = {"add"}
    CliKinds = {"prune"}
    None = None
    MaxTime = 1
    MaxFaults = 0
PROPERTY RemovesOnlyUnreferenced
