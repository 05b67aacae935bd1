SPECIFICATION Spec
CONSTANTS
    Callers = {job}
    NoCaller = NoCaller
    Day = 3
    Cap = 2
    MaxTime = 4
    MaxJumps = 0
    MaxCrashes = 0
PROPERTIES
    RefusedOnlyWhenDayFull
