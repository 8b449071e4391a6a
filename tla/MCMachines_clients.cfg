SPECIFICATION FairSpec
CONSTANTS
    Services = {s1, s2}
    Absent = Absent
    Torn = Torn
    NoCert = NoCert
    Nothing = Nothing
    NoCa = {8}
    Day = 2
    TwoDays = 4
    Week = 5
    Lifetime = 6
    MaxNow = 4
    MaxFaults = 3
INVARIANTS
    TypeOK
    KeyNeverOlder
    Announced
    LastsUntilTomorrow
    SkipsOnlyComplete
    KeyLeftOnlyInDoubt
    OneCertificate
PROPERTIES
    ClientRecovers
    GivenUpOnlyForNew
    RouterRecovers
CHECK_DEADLOCK FALSE
