CONSTANTS
    Threads = {t1, t2, t3, t4}
    Null = Null
    Modulus = 6
    MaxLag = 2
SPECIFICATION Spec
INVARIANTS TicketInv MutualExclusion HasWaitersExact
