SPECIFICATION Spec
CONSTANTS
    a = a
    b = b
    c = c
    d = d
    e = e
    NoPath = NoPath
    Batches <- OneBatch
    Clusters <- NestedClusters
    Matching = {}
    Best = {}
    MaxAtWork = 1
    Heights = {4}
INVARIANT NeverHangs
