CONSTANTS
    t1 = t1
    t2 = t2
    t3 = t3
    t4 = t4
    Threads = {t1, t2, t3}
    Many = {t1, t2, t3, t4}
    Null = Null
    N = 4
    Writers = {w1, w2}
    Readers = {r1}
    Modulus = 6
    MaxLag = 1
    Versions = 3
    One = One
    Unset = Unset
    INITIAL_VAL = 2
    NTHREADS = 3
SPECIFICATION FairSpec
INVARIANTS Conserved WriterExcludes OddWhileWriting ReadIsCurrent WaitersKept CalledOnce CheckHolds
PROPERTIES UsesSemaphore WriterGetsIn IsMutex SomeoneGetsIn ProgramsEnd
