SPECIFICATION FairSpec
CONSTANTS
    Foci = {"scheduler", "condition_variable", "deferred"}
PROPERTIES
    RoundRobinProgress
    TimedWaitEnds
    PermitIsTaken
