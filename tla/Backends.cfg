SPECIFICATION RouterSpec
CHECK_DEADLOCK FALSE
CONSTANTS
    backend = backend  other = other  third = third  duke = duke  dune = dune  default = default
    Paths = {root}
    Root = root
    Addresses <- AllAddresses
    Default <- DefaultUpstream
    Upstream <- BackendUpstream
    AppHosts <- BackendApp
    Destinations <- Servers
    Contents = {}
    Requests = {r1, r2}
    Nothing = Nothing
    MaxFaults = 1  MaxOverlaps = 4
    Instances = {backend, other, third}
    Jobs = {j1, j2}
    None = None
    MaxJobs = 3  MaxAtOnce = 3  MaxDeaths = 1
SYMMETRY WorkSymmetry
INVARIANTS RouterTypeOK BackendAgrees UnbindStaysPossible SwapPaired
