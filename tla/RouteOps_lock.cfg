\* Every operation of a bounded workload ends: no deadlock check.
SPECIFICATION Spec
CONSTANTS
    None = None
    ra = ra
    rb = rb
    rc = rc
    t1 = t1
    t2 = t2
    n1 = n1
    n2 = n2
    Ops = {o1, o2}
    Routes = {ra, rc}
    Tunnels = {t1, t2}
    TunnelOf <- MCTunnelOf
    CidrOf <- MCCidrOf
    MaxBusy = 2
    Faults = {}
    Kinds = {"create"}
    MaxCrashes = 0
INVARIANTS TerragruntExclusive
CHECK_DEADLOCK FALSE
