CONSTANTS
    Dialers = {d1, d2}
    Tabs = {t1}
    Clicks = {k1}
    MaxInvites = 2
    MaxVerbs = 2
    MaxFaults = 1
SPECIFICATION FairSpec
INVARIANTS
    TypeOK
    AnsweredStays
    RingingIsOwned
    RegisteredIsLive
PROPERTIES
    NeverRingsAgain
    RingingResolves
CHECK_DEADLOCK FALSE
