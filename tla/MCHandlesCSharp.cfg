SPECIFICATION FairSpec
CONSTANTS
    Outs <- CSharpOuts
PROPERTIES EveryHelperReached
CHECK_DEADLOCK FALSE
