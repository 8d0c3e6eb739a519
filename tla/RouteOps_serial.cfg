\* Every operation of a bounded workload ends: no deadlock check.
SPECIFICATION Spec
CONSTANTS
    None = None
    ra = ra
    rb = rb
    rc = rc
    t1 = t1
    t2 = t2
    n1 = n1
    n2 = n2
    Ops = {o1, o2, o3}
    Routes = {ra, rc}
    Tunnels = {t1, t2}
    TunnelOf <- MCTunnelOf
    CidrOf <- MCCidrOf
    MaxBusy = 1
    Faults = {"infra", "db", "unrecorded"}
    Kinds = {"create", "delete", "retry", "tunnel"}
    MaxCrashes = 1
SYMMETRY Alike
INVARIANTS RoutesApplied
PROPERTIES NoResurrection
CHECK_DEADLOCK FALSE
