SPECIFICATION FairSpec
CONSTANTS
    m1 = m1  m2 = m2  i1 = i1  i2 = i2  r1 = r1  r2 = r2
    Machines = {m1, m2}
    Instances = {i1, i2}
    InstanceOf <- TwoInstances
    Broken = {m1}
    Checkers = {c1}
    Restorers = {r1}
    None = None
    MaxFailures = 2  MaxDisruptions = 1
PROPERTIES MachineHeals
