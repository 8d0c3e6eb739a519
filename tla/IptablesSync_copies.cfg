\* The requests of a bounded workload run out: no deadlock check.
SPECIFICATION Spec
CONSTANTS
    None = None
    Reqs = {q1, q2}
    Rules = {x1, x2}
    Tunnels = {t1}
    Specs = {s1, s2}
    Full = {s1}
    Kinds = {"create", "update", "retry", "delete", "cascade"}
    Faults = {"refused"}
    MaxBusy = 1
    MaxRequests = 3
    MaxCopies = 2
    MaxReboots = 1
    MaxSeen = 2
    MaxLate = 1
PROPERTY DeletedRemoved
CHECK_DEADLOCK FALSE
