SPECIFICATION FairSpec
CONSTANTS
    c1 = c1
    c2 = c2
    Calls = {c1, c2}
    f1 = f1
    f2 = f2
    Files = {f1, f2}
    Absent = Absent
    MaxActive = 1
    InitialFiles <- MCInitialFiles
    Blocks <- MCBlocks
    Workloads <- MCWorkloads
INVARIANTS PatchIsPrefix ReadsAreWhole SlotsAreCounted TrailIsOrdered
PROPERTIES CallsReturn
CHECK_DEADLOCK FALSE
