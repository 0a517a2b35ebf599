SPECIFICATION FairSpec
CHECK_DEADLOCK FALSE
CONSTANTS
    s1 = s1
    NoFact = NoFact  AnySession = AnySession
    MaxExtras = 5
    N = 2  Sessions = {s1}  Passes = {"tick"}  Mobile = {1}  Ages = {2}
    Kind <- InfoFirst  Fact <- NoFacts  Target <- AllToAny
    MaxCrashes = 0  MaxLost = 1  Refusals = FALSE  McpReads = FALSE
    Views = {"idle"}
INVARIANT MessageOnce
PROPERTIES EveryNoticeSettles DecisionTaken
