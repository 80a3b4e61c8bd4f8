SPECIFICATION Spec
CONSTANTS
    t1 = t1
    t2 = t2
    p1 = p1
    p2 = p2
    p3 = p3
    o1 = o1
    o2 = o2
    Finalizer = Finalizer
    NoThread = NoThread
    NoProxy = NoProxy
    Null = Null
    Threads <- MCThreads
    Proxies <- MCProxies
    Objects <- MCObjects
    Calls <- Kinds
    Careful = TRUE
SYMMETRY Symmetry
INVARIANTS TypeOK NoFault
PROPERTIES ImplementsLives
