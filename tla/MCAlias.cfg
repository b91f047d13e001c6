SPECIFICATION Spec
CONSTANTS
    p1 = p1
    p2 = p2
    n1 = n1
    n2 = n2
    None = None
    Contexts = {n1, n2}
    Procs <- Two
    Aliases = {1, 2, 3}
    Scenarios <- TwoCommands
    Kills = TRUE
SYMMETRY Symmetric
INVARIANT TypeOK
INVARIANT LoadsSucceed
INVARIANT RemovalIsEffective
PROPERTY NothingElseIsLost
