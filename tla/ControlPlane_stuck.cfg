SPECIFICATION FairSpec
CONSTANTS
    Operators = {c1, c2}
    Loop = loop
    Liquidators = {}
    Events = {"halt", "resume", "start"}
PROPERTIES
    StartedLoopRuns
