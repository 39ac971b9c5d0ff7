CONSTANTS
    Threads = {t1, t2, t3}
    N = 2
SPECIFICATION Spec
INVARIANT ByReadersExact
