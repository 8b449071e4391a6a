SPECIFICATION FairSpec
CONSTANTS
    glob = glob
    a = a
    certA = certA
    certB = certB
    key = key
    inside = inside
    outside = outside
    NotSet = NotSet
    Exact = 1000000
    Bonus = 10000
    None = None
    Startup = Startup
    Cron = Cron
    Patterns <- MCPatterns
    Hosts <- MCHosts
    Globs <- MCGlobs
    Length <- MCLength
    Literals <- MCLiterals
    Sources <- MCSources
    Rank <- MCRank
    Configs <- MCConfigs
    Requests <- MCRequests
    Handlers = {h1, h2}
    Connections = {c1, c2, c3}
    Workers = 2
INVARIANTS
    TypeOK
    Accounted
    NothingKept
    OneSecond
    CrowdNeeded
    SameHostSameCert
    NoStandstill
PROPERTIES
    CallsEnd
    WorkersComeBack
