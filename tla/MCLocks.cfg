CONSTANTS
    t0 = t0
    t1 = t1
    t2 = t2
    lock1 = lock1
    lock2 = lock2
    lock0 = lock0
    lock3 = lock3
    lock4 = lock4
    Null = Null
    Initial = Initial
    One = One
    Unset = Unset
    Threads = {t0, t1, t2}
    Many = {t0, t1, t2, t3}
    Modulus = 4
    MaxLag = 1
    FlagsLen = 4
    ArrayModulus = 8
    TwaLen = 2
    TwaModulus = 4
    MaxDepth = 3
    INITIAL_VAL = 3
    Threshold = 2
    Calls = 4
SPECIFICATION FairSpec
INVARIANTS MutualExclusion HasWaitersRight LockInv QueueInv HandOverInv
PROPERTIES IsMutex IsFifoMutex EventuallyGranted SomeoneGetsIn
