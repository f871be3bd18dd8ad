CONSTANTS
    Names = {n1}
    Teams = {t1}
    Requests = {r1}
    Workers = {w1, w2}
    LBs = {l1, l2, l3}
    Hosts = {h1, h2, h3}
    Nothing = Nothing
    DefaultQuota = 2
    QuotaValues = {2}
    Quantities = {}
    Client = "polling"
    Rollback = TRUE
    RetainLB = FALSE
    MaxOps = 3
    MaxRequestFaults = 0
    MaxFaults = 1
    MaxCrashes = 0
SPECIFICATION Spec
SYMMETRY Symmetry
INVARIANT AtMostOneLB
CHECK_DEADLOCK FALSE
