CONSTANTS
    None = None
    ThreadNum = 3
    EntryNum = 3
    Callers = {0}
    Calls = 12
SPECIFICATION Spec
INVARIANT SlotAllocated
