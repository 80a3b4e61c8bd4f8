SPECIFICATION FairSpec
CONSTANTS
    Absent = Absent
    SwigHiccups = FALSE
    OutDenied = TRUE
INVARIANTS TypeOK SdkCheckSuffices InstalledOnSuccess RenameTargetFree
PROPERTIES NeverLost Converges
