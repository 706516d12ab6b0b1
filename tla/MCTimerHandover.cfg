SPECIFICATION Spec
CONSTANTS
    p1 = p1
    p2 = p2
    nobody = nobody
    Proc = {p1, p2}
    Channels = {"c1"}
    Drives = {"d1"}
    Channel <- OneDrive
    Device <- OneDevice
    blocks = 1
    Keys = {}
    SectorSpan = 4
    Sectors = {0, 1}
    BLOCK_SIZE = 2
    PartStart = {0}
    CountValues = 3
    Counts = {1, 2}
    Offsets = {0, 2}
    Data = {"a"}
    MaxFaults = 1
    Foci = {"timer"}
INVARIANTS
    SleepSurvivesHandover
CHECK_DEADLOCK FALSE
