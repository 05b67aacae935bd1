SPECIFICATION Spec
CONSTANTS
    Orders = {o1, o2}
    NoOrder = NoOrder
    Submitters = {trade_loop}
    Boot = boot
    Reconcilers = {boot, job}
    Stages = {"paper", "live"}
    Qty = 2
    MaxAttempts = 2
    MaxFailures = 1
    Faults = {}
SYMMETRY Symmetry
INVARIANTS
    FailedTookNoPosition
    FilledInFull
PROPERTIES
    ImplementsLedger
