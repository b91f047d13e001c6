SPECIFICATION ReturnSpec
CONSTANTS
    c1 = c1
    c2 = c2
    a1 = a1
    p1 = p1
    p2 = p2
    None = None
    SearchError = SearchError
    NumStores = 2
    Optional = {2}
    EnvAndFlag = {}
    Contexts = {c1, c2}
    Aliases = {a1}
    Paths = {p1, p2}
    Offers <- TwoPaths
    ErrorsAllowed = {2}
    Commands <- MCCommands
INVARIANTS
    TypeOK
    EndsCleanly
PROPERTIES
    IndexesAreSound
    ImplementsStream
    CommandReturns
