SPECIFICATION Spec
CONSTANTS
    Foci = {"fat32"}
INVARIANTS
    FreeClusterIsFree
CHECK_DEADLOCK FALSE
