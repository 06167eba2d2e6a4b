SPECIFICATION Spec
CONSTANTS
    w1 = w1  w2 = w2  e1 = e1  e2 = e2  e3 = e3
    d1 = d1  d2 = d2  a1 = a1  a2 = a2
    NoKey = NoKey  NoAddr = NoAddr
    Workers = {w1, w2}
    Clicks = {e1, e2, e3}
    Keys = {d1, d2}
    Addrs = {a1, a2}
    KeyOf <- OneBlank
    AddrOf <- FromBoth
    BatchSize = 2
    MaxStream = 3
    Faults = {"group", "read", "insert", "member", "add", "upsert", "ack", "expire", "crash"}
INVARIANTS
    TypeOK PvCountsStored AckedIsStored
PROPERTIES
    CountsAsPromised
CHECK_DEADLOCK FALSE
