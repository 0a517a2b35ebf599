CONSTANTS
    a = a
    b = b
    c = c
    h1 = h1
    h2 = h2
    Daemons = {a, b}
    FirstHost = a
    Handoffs = {h1}
    Src <- OneWaySrc
    Dst <- OneWayDst
    Probers = {1}
    NoHandoff = NoHandoff
    MaxCrashes = 1
SPECIFICATION FairSpec
INVARIANTS
    Agreement
    AgreementInv
    SingleAuthority
    StopBeforeActivate
PROPERTIES
    TargetOutcomeFinal
    OneOutcome
    SourceConcludes
