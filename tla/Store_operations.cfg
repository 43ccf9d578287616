SPECIFICATION Spec
CONSTANTS
    i1 = i1  i2 = i2  text = text  html = html  a = a  b = b
    Ids = {i1, i2}
    Mimes = {text, html}
    Contents = {a, b}
    Lists <- MixedLists
    Tasks = {t1, t2}
    Clis = {}
    TaskKinds = {"add", "set", "remove", "delete", "prune"}
    CliKinds = {}
    None = None
    MaxTime = 1
    MaxFaults = 1
SYMMETRY TaskSymmetry
INVARIANTS TypeOK IInv NoDanglingRow RowsReadBack OrphansAccounted
PROPERTIES UpdatedAtMonotone RemovesOnlyUnreferenced
