\* Every operation of a bounded workload ends: no deadlock check.
SPECIFICATION FairSpec
CONSTANTS
    None = None
    ra = ra
    rb = rb
    rc = rc
    t1 = t1
    t2 = t2
    n1 = n1
    n2 = n2
    Ops = {o1, o2}
    Routes = {ra, rb}
    Tunnels = {t1}
    TunnelOf <- MCTunnelOf
    CidrOf <- MCCidrOf
    MaxBusy = 2
    Faults = {"infra", "db"}
    Kinds = {"create", "delete", "retry"}
    MaxCrashes = 1
INVARIANTS NoOrphanOps
PROPERTIES OpsEnd KeepsContract
CHECK_DEADLOCK FALSE
