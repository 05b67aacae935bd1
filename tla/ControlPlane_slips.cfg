SPECIFICATION Spec
CONSTANTS
    Operators = {c1}
    Loop = loop
    Liquidators = {}
    Events = {"halt", "start"}
INVARIANTS
    HaltIsImmediate
