SPECIFICATION FairSpec
CONSTANTS
    Orders = {o1}
    NoOrder = NoOrder
    Submitters = {trade_loop}
    Boot = boot
    Reconcilers = {boot, job}
    Stages = {"paper"}
    Qty = 2
    MaxAttempts = 2
    MaxFailures = 1
    Faults = {"ambiguous", "earlyLookup", "partialExpiry", "overlap"}
INVARIANTS
    WriteAhead
    NoInventedPosition
    FilledIsFilled
    EscalatedAtLimit
    IndInv
PROPERTIES
    EveryOrderSettles
    EscalationSurfaces
