SPECIFICATION Spec
CHECK_DEADLOCK FALSE
CONSTANTS
    i1 = i1
    Instances = {i1}
    Machines = {a1, a2}
    Home <- MCHome
    Spare = {a2}
    Restores = {r1, r2}
    Rotations = {t1, t2}
    None = None
    MaxFaults = 1  MaxScales = 2
SYMMETRY MachineSymmetry
INVARIANTS TypeOK  NewestTicket DocumentReleased
