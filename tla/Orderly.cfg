CONSTANTS
    Names = {n1}
    Teams = {t1}
    Requests = {r1}
    Workers = {w1}
    LBs = {l1, l2}
    Hosts = {h1, h2, h3, h4}
    Nothing = Nothing
    DefaultQuota = 2
    QuotaValues = {}
    Quantities = {0, 1, 2}
    Client = "orderly"
    Rollback = TRUE
    RetainLB = FALSE
    MaxOps = 4
    MaxRequestFaults = 0
    MaxFaults = 1
    MaxCrashes = 1
SPECIFICATION FairSpec
INVARIANTS AtMostOneLB ScaleReachesQuantity StoresAgree NoOrphanMachine
PROPERTIES TaskDocFreed RemovalCompletes
CHECK_DEADLOCK FALSE
