SPECIFICATION Spec
CHECK_DEADLOCK FALSE
CONSTANTS
    Instances = {i1}
    Certified = {i1}
    Procs = {p1, p2}
    None = None  Earlier = Earlier
    MaxOps = 2  MaxFaults = 1
INVARIANTS TypeOK PairMatches NothingLeft
PROPERTIES RenewalComes
