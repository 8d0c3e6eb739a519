\* A finished workload (MaxArrivals requests, all answered) stops: no deadlock check.
SPECIFICATION FairSpec
CONSTANTS
    None = None
    r1 = r1
    r2 = r2
    s1 = s1
    s2 = s2
    Requests = {r1, r2}
    Tunnels = {t1}
    Names = {n1}
    Confs = {c1}
    Psks = {p1}
    Servers = {s1, s2}
    Ssm = {s1}
    InitEngine <- TwoEngines
    Kinds = {"create", "update", "delete", "retry", "engine", "rule"}
    FleetOps = {"toggle"}
    Faults = {"kms", "infra", "abort", "cut"}
    MaxLate = 1
    MaxArrivals = 2
INVARIANTS OneWriter
PROPERTIES Answered
CHECK_DEADLOCK FALSE
