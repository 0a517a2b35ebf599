SPECIFICATION MCSpec
CONSTANTS
    Ends <- TwoEnds
    Calls = {"c1", "c2"}
    From <- FromM
    KindsOf <- SomeKinds
    Links = {"ofH", "ofM"}
    Dialler <- CrossLinks
    Sockets = {s1, s2, s3}
    NoLink = NoLink
    NoSocket = NoSocket
    MaxQueue = 1
    MaxTimeouts = 2
    MaxFaults = 1
INVARIANT AckTimeoutUnrun
CHECK_DEADLOCK FALSE
