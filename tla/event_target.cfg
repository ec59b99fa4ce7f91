SPECIFICATION Spec
CONSTANTS
    c1 = c1
    c2 = c2
    Targets = {t1}
    Readers = {t1}
    Callbacks = {c1, c2}
    Types <- AbortTypes
    Offered <- TwoFunctions
    Assigned <- OnAbort
    Made <- Aborts
    Events = {e1, e2}
    Spare = 1
    MaxDepth = 2
    MaxDispatches = 2
    MaxReports = 0
    None = None
INVARIANTS CallsWhatWasThere ReportedOnce EndsHonestly
CHECK_DEADLOCK FALSE
SYMMETRY Perms
