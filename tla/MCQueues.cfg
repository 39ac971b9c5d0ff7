CONSTANTS
    w1 = w1
    r1 = r1
    Writers = {w1, w2}
    Readers = {r1, r2}
    t1 = t1
    t2 = t2
    Threads = {t1, t2, t3}
    Consumers = {r1}
    Size = 2
    Points = 6
    SpscModulus = 4
    Values = 2
    Modulus = 8
    Orig = TRUE
    Calls = 2
    Batches = {1, 2}
    Null = Null
SPECIFICATION FairSpec
INVARIANTS DequeuedInOrder TestAsserts
PROPERTIES IsBoundedFifo Termination
