CONSTANTS
    i1 = i1
    i2 = i2
    t1 = t1
    t2 = t2
    None = None
    Miss = Miss
    Ids <- MCIds
    Tasks <- MCTasks2
    MaxOps = 3
SYMMETRY Symmetry
SPECIFICATION Spec
INVARIANT CacheMatchesStore
