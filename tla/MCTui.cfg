SPECIFICATION Spec
CONSTANTS
    a = a
    b = b
    c = c
    d = d
    e = e
    NoPath = NoPath
    Batches <- TwoBatches
    Clusters <- FlatClusters
    Matching = {a, c}
    Best = {c}
    MaxAtWork = 2
    Heights = {1, 2}
INVARIANT TypeOK
INVARIANT ListIsCoherent
INVARIANT PreviewBelongsToSelection
INVARIANT ExpansionsSettle
