SPECIFICATION FairSpec
CONSTANTS
    ReclaimBudget = 1
    MaxRedrives = 0
    FailStreakLimit = 2
    MaxTaskRetries = 1
    MaxDeferrals = 1
    MaxReminders = 1
    WriterStopMaxTries = 1
    Sessions = {s1, s2}
    QueueAttempts <- OneAttempt
    DirectIds = {}
    ModalKeys = {}
    EndSignals = {}
    LiveStates = {}
    ProbeResults = {}
    Outcomes = {}
    StopFails = TRUE
    Unreachable = TRUE
    Requeues = TRUE
INVARIANT ExclusiveWriter
 
CHECK_DEADLOCK FALSE
