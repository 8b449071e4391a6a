SPECIFICATION FairSpec
CONSTANTS
    named = named
    ondemand = ondemand
    p1 = p1
    p2 = p2
    n1 = n1
    n2 = n2
    Sources = {named}
    Hosts = {host}
    NameLists = {n1, n2}
    Providers = {p1, p2}
    NoHost = NoHost
    NoNames = NoNames
    NoRow = NoRow
    Unset = Unset
    Week = 2
    TwoDays = 1
    SixtyDays = 1
    Startup = Startup
    Cron = Cron
    Handlers = {r1}
    NoTask = NoTask
    NoJob = NoJob
    Deployments <- ProviderReplaced
    Lifetimes = {2}
    DbFaults = FALSE
    PoolFaults = FALSE
    MaxNow = 2
PROPERTIES
    RequestsAnswered
    DueRowsRenewed
    ForeignRowsRemoved
