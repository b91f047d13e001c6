SPECIFICATION Spec
CONSTANTS
    t1 = t1
    t2 = t2
    Terminal = {t1, t2}
    Name <- MCName
    Server <- MCServer
    Secret <- MCSecret
    Stores <- MCStores
    Alias <- MCAlias
    DefaultFile = Missing
    CustomFile <- MCCustom
    Missing = Missing
    Torn = Torn
    Namespaces <- MCNamespaces
    Environments <- MCEnvironments
    Commands <- AllCommands
    MaxCommands = 3
SYMMETRY Symmetry
INVARIANTS
    TypeOK
    SelectionTakesEffect
    FilesAreSound
    HistoryIsRestored
