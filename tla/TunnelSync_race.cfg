\* A finished workload (MaxArrivals requests, all answered) stops: no deadlock check.
SPECIFICATION Spec
CONSTANTS
    None = None
    r1 = r1
    r2 = r2
    s1 = s1
    s2 = s2
    Requests = {r1, r2}
    Tunnels = {t1, t2}
    Names = {n1, n2}
    Confs = {c1}
    Psks = {p1}
    Servers = {s1, s2}
    Ssm = {}
    InitEngine <- OneAbsent
    Kinds = {"create", "update", "delete", "retry", "engine"}
    FleetOps = {"add"}
    Faults = {"infra"}
    MaxLate = 0
    MaxArrivals = 3
SYMMETRY Alike
INVARIANTS TypeOK OneWriter OkMeansDone UniqueLiveNames
PROPERTIES DeleteConfirmed KeepsContract
CHECK_DEADLOCK FALSE
