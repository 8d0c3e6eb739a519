\* The requests of a bounded workload run out: no deadlock check.
SPECIFICATION Spec
CONSTANTS
    None = None
    Reqs = {q1, q2}
    Rules = {x1, x2}
    Tunnels = {t1}
    Specs = {s1, s2}
    Full = {s1}
    Kinds = {"create", "update", "retry", "delete", "cascade"}
    Faults = {"overlap", "sweep", "shared", "refused", "lost", "late", "crash", "cut", "index", "fanout", "reboot"}
    MaxBusy = 2
    MaxRequests = 3
    MaxCopies = 2
    MaxReboots = 1
    MaxSeen = 2
    MaxLate = 1
SYMMETRY Alike
INVARIANTS TypeOK OneRuleWriter AppliedUnderLock SyncedApplied KernelSaved KernelMatchesRows
CHECK_DEADLOCK FALSE
