SPECIFICATION FairSpec
CONSTANTS
    t1 = t1
    t2 = t2
    Tokens = {t1, t2}
    ShCalls = {s1, s2}
    LibCalls = {l1}
    AuthLists <- PairAuths
    Absent = Absent
    TTL = 1
    PipeCap = 1
    MaxNow = 1
INVARIANTS
    TypeOK
    AskedIsServed
    ReaderDrained
PROPERTIES
    CleanupInvisible
    CallReturns
