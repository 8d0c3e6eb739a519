\* A finished workload (MaxArrivals requests, all answered) stops: no deadlock check.
SPECIFICATION Spec
CONSTANTS
    None = None
    r1 = r1
    r2 = r2
    s1 = s1
    s2 = s2
    Requests = {r1}
    Tunnels = {t1}
    Names = {n1, n2}
    Confs = {c1, c2}
    Psks = {p1}
    Servers = {s1, s2}
    Ssm = {}
    InitEngine <- TwoEngines
    Kinds = {"create", "update", "retry", "engine"}
    FleetOps = {"retire"}
    Faults = {"kms", "infra"}
    MaxLate = 0
    MaxArrivals = 4
SYMMETRY Alike
INVARIANTS DbMatchesFleet
CHECK_DEADLOCK FALSE
