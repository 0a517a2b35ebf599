SPECIFICATION Spec
CONSTANTS
    ReclaimBudget = 1
    MaxRedrives = 1
    FailStreakLimit = 1
    MaxTaskRetries = 0
    MaxDeferrals = 1
    MaxReminders = 0
    WriterStopMaxTries = 1
    Sessions = {s1, s2}
    QueueAttempts <- OneAttempt
    DirectIds = {"d1"}
    ModalKeys = {"m1"}
    EndSignals = {"genuine", "hollow"}
    LiveStates = {"clear"}
    ProbeResults = {"alive"}
    Outcomes = {"blocked"}
    Scenarios <- SessionScenarios
SYMMETRY SessionSymmetry
INVARIANTS AlwaysBounded OneOpenPerSession
PROPERTIES ReclaimAfterStop
CHECK_DEADLOCK FALSE
