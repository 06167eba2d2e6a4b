SPECIFICATION SummarySpec
CONSTANTS
    w1 = w1  e1 = e1  e2 = e2  e3 = e3  d1 = d1  d2 = d2
    a1 = a1  a2 = a2  f1 = f1  f2 = f2  q1 = q1
    NoKey = NoKey  NoAddr = NoAddr
    Workers = {w1}
    Clicks = {e1, e2, e3}
    Keys = {d1, d2}
    Addrs = {a1, a2}
    KeyOf <- TwoDays
    AddrOf <- OneAddr
    BatchSize = 2
    MaxStream = 3
    Faults = {"group", "read", "insert", "member", "upsert", "ack", "crash"}
    Requests = {q1}
    Referers = {f1, f2}
    RefererOf <- TwoSites
    Top = 1
INVARIANTS
    SummaryTypeOK SummaryAddsUp UvAtMostAddresses
PROPERTIES
    CountsSettle
CHECK_DEADLOCK FALSE
