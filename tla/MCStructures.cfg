CONSTANTS
    a1 = a1
    a2 = a2
    b1 = b1
    b2 = b2
    n1 = n1
    n2 = n2
    n3 = n3
    Sentinel = Sentinel
    None = None
SPECIFICATION FairSpec
INVARIANTS  AssertsHold InOnePlace 
PROPERTIES IsContainer CallsEnd
