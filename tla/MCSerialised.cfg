SPECIFICATION Spec
CONSTANTS
    t1 = t1
    t2 = t2
    t3 = t3
    h1 = h1
    h2 = h2
    defaultLib = defaultLib
    customLib = customLib
    noLib = noLib
    a1 = a1
    a2 = a2
    noArgs = noArgs
    Threads <- ThreeThreads
    Handles <- MCHandles
    Libs <- MCLibs
    NoLib <- noLib
    DefaultLib <- defaultLib
    RuntimeArgs <- MCArgs
    NoArgs <- noArgs
    PathOf <- MCPathOf
    Exports <- PartialExports
    PassNull = FALSE
    Serialised = TRUE
    FreeAfterFailedInit = FALSE
    MaxLoads = 2
SYMMETRY Symmetry
INVARIANTS TypeOK SessionServed NoFault LoadsBalanced PathIsOfLoaded StoredArgsLive
PROPERTIES ForwardServed SuccessGivesHandle CloseResets  ImplementsService
