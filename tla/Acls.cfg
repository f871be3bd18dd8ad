SPECIFICATION Spec
CHECK_DEADLOCK FALSE
CONSTANTS
    h1 = h1  h2 = h2  h3 = h3
    Hosts = {h1, h2, h3}
    First = h1
    Destinations = {d1, d2}
    Procs = {p1, p2}
    None = None
    Gone = Gone
    MaxWork = 4
SYMMETRY AclSymmetry
INVARIANTS TypeOK StoredIsPermitted NoRuleForgotten ServersReachable
PROPERTIES KeepsAccessList
