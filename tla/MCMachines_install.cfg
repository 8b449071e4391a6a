SPECIFICATION Spec
CONSTANTS
    Services = {s1, s2}
    Absent = Absent
    Torn = Torn
    NoCert = NoCert
    Nothing = Nothing
    NoCa = {8}
    Day = 2
    TwoDays = 4
    Week = 5
    Lifetime = 6
    MaxNow = 5
    MaxFaults = 2
INVARIANT
    InstalledComplete
CHECK_DEADLOCK FALSE
