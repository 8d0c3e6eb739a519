\* A finished workload (MaxArrivals requests, all answered) stops: no deadlock check.
SPECIFICATION Spec
CONSTANTS
    None = None
    r1 = r1
    r2 = r2
    s1 = s1
    s2 = s2
    Requests = {r1}
    Tunnels = {t1}
    Names = {n1, n2}
    Confs = {c1}
    Psks = {p1}
    Servers = {s1}
    Ssm = {}
    InitEngine <- OneStroke
    Kinds = {"create", "update", "delete"}
    FleetOps = {}
    Faults = {}
    MaxLate = 0
    MaxArrivals = 3
PROPERTIES NoOrphanAfterDelete
CHECK_DEADLOCK FALSE
