SPECIFICATION Spec
CONSTANTS
    p1 = p1
    p2 = p2
    p3 = p3
    idle = idle
    irq = irq
    nullptr = nullptr
    Proc <- Three
    Primitives = {"rw_lock"}
    Initial = 1
    Released = {0, 2}
    MaxPermits = 3
    Notified = {1, 2}
    MaxNotified = 5
    SizeValues = 8
    ConditionCalls = {"wait", "wait_for", "notify_one", "notify_all"}
    TailTimeouts = TRUE
INVARIANT WriterLockExcludes
