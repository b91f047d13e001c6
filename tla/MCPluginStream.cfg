SPECIFICATION StreamSpec
CONSTANTS
    NumResults = 1
    Failing = {}
    PluginDies = TRUE
INVARIANT ClosedOnce
