SPECIFICATION Spec
CONSTANTS
    Operators = {c1, c2}
    Loop = loop
    Liquidators = {}
    Events = {"halt", "switch"}
PROPERTIES
    HaltFreezesStage
