SPECIFICATION FairSpec
CONSTANTS
    Operators = {c1}
    Loop = loop
    Liquidators = {}
    Events = {"halt", "resume", "start", "stop", "switch"}
INVARIANTS
    HaltStopsTrading
    JobFollowsHalt
PROPERTIES
    HaltFreezesStage
    StartedLoopRuns
