SPECIFICATION FairSpec
CONSTANTS
    t1 = t1
    t2 = t2
    Tokens = {t1, t2}
    ShCalls = {}
    LibCalls = {l1}
    AuthLists <- SharedAuths
    Absent = Absent
    TTL = 2
    PipeCap = 1
    MaxNow = 3
PROPERTIES
    LibOrdersPass
