SPECIFICATION FairSpec
CONSTANTS
    t1 = t1
    t2 = t2
    t3 = t3
    x1 = x1
    x2 = x2
    NoThread = NoThread
    None = None
    Threads <- TwoThreads
    Exceptions <- TwoExceptions
INVARIANTS TypeOK CountExact NoFatal
PROPERTIES Delivered ImplementsSlots EventuallyThrown
