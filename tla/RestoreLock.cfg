SPECIFICATION Spec
CONSTANTS
    w1 = w1  w2 = w2  w3 = w3
    Workers = {w1, w2, w3}
    Free = Free
    PerSecond = 2
    Timeout = 7
    MaxRestore = 4
    MaxMachines = 3
SYMMETRY WorkerSymmetry
INVARIANTS TypeOK OneRestorer
