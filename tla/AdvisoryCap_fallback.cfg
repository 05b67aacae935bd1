SPECIFICATION Spec
CONSTANTS
    Callers = {job}
    NoCaller = NoCaller
    Day = 2
    Cap = 2
    MaxTime = 3
    MaxJumps = 0
    MaxCrashes = 0
INVARIANTS
    CallsCapped
