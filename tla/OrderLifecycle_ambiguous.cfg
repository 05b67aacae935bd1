SPECIFICATION Spec
CONSTANTS
    Orders = {o1}
    NoOrder = NoOrder
    Submitters = {trade_loop}
    Boot = boot
    Reconcilers = {boot, job}
    Stages = {"paper"}
    Qty = 2
    MaxAttempts = 2
    MaxFailures = 0
    Faults = {"ambiguous"}
INVARIANTS
    FailedTookNoPosition
