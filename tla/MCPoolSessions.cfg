CONSTANTS
    c1 = c1
    c2 = c2
    i1 = i1
    lo = lo
    w1 = w1
    Nobody = Nobody
    Conns = {c1, c2}
    Ips = {i1, lo}
    Loopback = {lo}
    SubnetOf <- MCSubnetOf
    Wallets = {w1}
    MaxPerIp = 1
    MaxPerSubnet = 2
    MaxDelayed = 1
    WorkerMax = 1
    ProxyWorkerMax = 1
    ExtraNonces = 1
    Agents = {"plain", "proxy"}
    AuditBatchSize = 1
    MaxEvents = 1
SPECIFICATION Spec
SYMMETRY ConnSymmetry
INVARIANTS ResourcesMatchSockets WorkerCountsDoNotDriftUp AuditMissesNobody EveryoneIsOnAClock
CHECK_DEADLOCK FALSE
