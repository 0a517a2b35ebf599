CONSTANTS
    a = a
    b = b
    c = c
    h1 = h1
    h2 = h2
    Daemons = {a, b, c}
    FirstHost = a
    Handoffs = {h1, h2}
    Src <- ChainSrc
    Dst <- ChainDst
    Probers = {}
    NoHandoff = NoHandoff
    MaxCrashes = 0
SPECIFICATION Spec
INVARIANTS
    SingleCoordinator
    MembersFollowActive
PROPERTIES
    EpochNeverFalls
