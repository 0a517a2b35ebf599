SPECIFICATION Spec
CONSTANTS
    ReclaimBudget = 0
    MaxRedrives = 0
    FailStreakLimit = 1
    MaxTaskRetries = 0
    MaxDeferrals = 1
    MaxReminders = 1
    WriterStopMaxTries = 2
    Sessions = {"s1"}
    QueueAttempts <- TwoAttempts
    DirectIds = {}
    ModalKeys = {"m1", "m2"}
    EndSignals = {"genuine", "genuine_report_expected", "weak", "native_marker"}
    LiveStates = {"clear", "pending"}
    ProbeResults = {"alive", "unknown"}
    Outcomes = {"blocked"}
    Scenarios <- EvidenceScenarios
INVARIANTS AtMostOneRule WaitsAreTimed EndHoldsMatchState SuspensionMatchesModal RowFollowsAttempt CancelStandsInTime
PROPERTIES ReportDecides TerminalIsFinal
CHECK_DEADLOCK FALSE
