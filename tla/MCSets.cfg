CONSTANTS
    t1 = t1
    t2 = t2
    t3 = t3
    Threads = {t1, t2, t3}
    None = None
    HeadNode = HeadNode
    TailNode = TailNode
    Setups <- AllSetups
SPECIFICATION FairSpec
INVARIANT RetiredOnce
PROPERTIES IsKeySet CallsEnd
