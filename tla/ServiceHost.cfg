SPECIFICATION MCSpec
CONSTANTS
    Threads = {t1, t2}
    Generations = {g1, g2, g3}
    NoGeneration = NoGeneration
    Scopes = {s1, s2}
    Plugins = {p1, p2}
    p1 = p1
    p2 = p2
    Sources <- MCSources
    ModuleCapacity = 2
    MaxId = 3
    MaxFaults = 2
SYMMETRY Symmetric
INVARIANTS ScopePinsGeneration CodePinned Handover BooksBalance
