SPECIFICATION FairSpec
CONSTANTS
    Outs <- NativeOuts
INVARIANTS TypeOK
PROPERTIES EveryEntryPointReached
