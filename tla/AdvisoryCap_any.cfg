SPECIFICATION FairSpec
CONSTANTS
    Callers = {job, click}
    NoCaller = NoCaller
    Day = 2
    Cap = 1
    MaxTime = 3
    MaxJumps = 1
    MaxCrashes = 1
INVARIANTS
    IndInv
    WindowCapped
PROPERTIES
    CallersFinish
