\* A behaviour ends with the bounded clock: no deadlock check.
SPECIFICATION ProcessSpec
CONSTANTS
    Focuses = {"session"}
    MaxTime = 5
    Fetches = {f1, f2}
    MaxKeys = 3
    KeyTTL = 2
    Services = {ssm, kms}
    Threads = {t1, t2}
    Callers = {k1, k2}
    Servers = {v1}
    Roles = {ra}
    Regions = {"east"}
    NoRole = NoRole
    Life = 4
    Buffer = 2
    Poll = 1
    People = {p1, p2, p3}
    Sessions = {n1, n2}
    Nobody = Nobody
    c1 = c1
    c2 = c2
    Conns = {c1, c2}
    Hosts = {h1, h2}
    Checks = {d1}
    Within <- MCWithin
    NoConn = NoConn
CHECK_DEADLOCK FALSE
INVARIANT ClientUsable
