SPECIFICATION Spec
CHECK_DEADLOCK FALSE
CONSTANTS
    s1 = s1
    NoFact = NoFact  AnySession = AnySession
    MaxExtras = 5
    N = 2  Sessions = {s1}  Passes = {"tick"}  Mobile = {}  Ages = {1}
    Kind <- Decisions  Fact <- LastShareFact  Target <- AllToAny
    MaxCrashes = 1  MaxLost = 0  Refusals = TRUE  McpReads = TRUE
    Views = {"idle", "busy"}
INVARIANTS MessageOnce 
VIEW HandlersView
