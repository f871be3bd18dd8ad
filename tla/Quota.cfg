CONSTANTS
    Names = {n1, n2}
    Teams = {t1, t2}
    Requests = {r1, r2}
    Workers = {w1}
    LBs = {l1}
    Hosts = {h1}
    Nothing = Nothing
    DefaultQuota = 1
    QuotaValues = {1, 2}
    Quantities = {}
    Client = "any"
    Rollback = FALSE
    RetainLB = FALSE
    MaxOps = 3
    MaxRequestFaults = 1
    MaxFaults = 0
    MaxCrashes = 0
SPECIFICATION Spec
SYMMETRY Symmetry
INVARIANTS TypeOK QuotaNeverExceeded
PROPERTY LedgerSpec
CHECK_DEADLOCK FALSE
