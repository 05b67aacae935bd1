SPECIFICATION FairSpec
CONSTANTS
    Orders = {o1}
    NoOrder = NoOrder
    Submitters = {trade_loop}
    Boot = boot
    Reconcilers = {boot, job}
    Stages = {"paper", "live"}
    Qty = 2
    MaxAttempts = 2
    MaxFailures = 0
    Faults = {}
PROPERTIES
    EveryOrderSettles
