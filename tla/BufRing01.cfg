CONSTANTS
    Threads = {t1, t2, t3}
    Loops = 2
    Size = 2
    Modulus = 8
    BugFix1 = FALSE
    BugFix2 = FALSE
    Junk = Junk
SPECIFICATION Spec
INVARIANT ConsumedAtMostOnce
