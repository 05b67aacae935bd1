SPECIFICATION Spec
CONSTANTS
    Operators = {c1}
    Loop = loop
    Liquidators = {sale}
    Events = {"halt", "resume", "start", "stop", "switch", "enable", "schedule", "restart"}
INVARIANTS
    AtMostOneSlips
    AtMostOneStrays
    IndInv
