SPECIFICATION FairSpec
CONSTANTS
    Process = {p1, p2, p3}
    Inode = {1, 2, 3}
    Environment <- Environments
    None = None
    Special = {"my data"}
    MaxStarts = 3
INVARIANTS
    ClientFindsRouter
    EstablishedIsSafe
PROPERTIES
    OthersAreKept
    StaleIsReclaimed
CHECK_DEADLOCK FALSE
