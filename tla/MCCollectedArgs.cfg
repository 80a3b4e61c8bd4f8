SPECIFICATION Spec
CONSTANTS
    t1 = t1
    t2 = t2
    p1 = p1
    p2 = p2
    p3 = p3
    o1 = o1
    o2 = o2
    Finalizer = Finalizer
    NoThread = NoThread
    NoProxy = NoProxy
    Null = Null
    Threads <- MCThreads
    Proxies <- TwoProxies
    Objects <- OneObject
    Calls <- PathCalls
    Careful = FALSE
PROPERTIES KeptArgsNotCollected
CHECK_DEADLOCK FALSE
