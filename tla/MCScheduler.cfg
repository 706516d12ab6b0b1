SPECIFICATION Spec
CONSTANTS
    MAX_PROCESS = 5
    Terminals = 1
    rr_quantum = 0
    SleepTicks = {1}
    Calls <- AnyProgram
INVARIANTS
    SelectAlwaysFinds
    IInv
    
    AwaitNeverMissesKill
    RunQueuesExact

    
