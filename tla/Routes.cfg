SPECIFICATION Spec
CONSTANTS
    duke = duke  dune = dune  default = default
    Paths = {root, p1}
    Root = root
    Addresses <- AllAddresses
    Default <- DefaultUpstream
    AppHosts <- Apps
    Destinations <- RouteDestinations
    Contents = {text}
    Requests = {r1, r2}
    Nothing = Nothing
    MaxFaults = 1  MaxOverlaps = 1
SYMMETRY RequestSymmetry
INVARIANTS TypeOK RoutesAgree ProxyHasServer BoundToOneApp
