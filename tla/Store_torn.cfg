SPECIFICATION Spec
CONSTANTS
    i1 = i1  i2 = i2  text = text  html = html  a = a  b = b
    Ids = {i1, i2}
    Mimes = {text}
    Contents = {a, b}
    Lists <- OneFormatLists
    Tasks = {t1}
    Clis = {}
    TaskKinds = {"add", "delete"}
    CliKinds = {}
    None = None
    MaxTime = 0
    MaxFaults = 1
INVARIANT WorstCaseIsAnOrphan
