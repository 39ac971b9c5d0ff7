CONSTANTS
    Threads = {t1, t2, t3}
    Null = Null
    MaxDepth = 2
    CaslockBase = TRUE
SPECIFICATION Spec
INVARIANT MutualExclusion
