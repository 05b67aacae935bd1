SPECIFICATION Spec
CONSTANTS
    Orders = {o1, o2}
    NoOrder = NoOrder
    Submitters = {trade_loop, liquidation}
    Boot = boot
    Reconcilers = {boot, job}
    Stages = {"paper"}
    Qty = 2
    MaxAttempts = 2
    MaxFailures = 0
    Faults = {"overlap"}
PROPERTIES
    ForcedPassTakesAll
