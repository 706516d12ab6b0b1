SPECIFICATION Spec
CONSTANTS
    MAX_PROCESS = 6
    Terminals = 1
    rr_quantum = 1
    SleepTicks = {1}
    Calls <- Background
INVARIANTS
    KilledNeverRuns
