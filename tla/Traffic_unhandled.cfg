SPECIFICATION LiveSpec
CONSTANTS
    w1 = w1  w2 = w2  e1 = e1  e2 = e2  e3 = e3
    d1 = d1  d2 = d2  a1 = a1  a2 = a2
    NoKey = NoKey  NoAddr = NoAddr
    Workers = {w1}
    Clicks = {e1}
    Keys = {d1, d2}
    Addrs = {a1, a2}
    KeyOf <- OneBlank
    AddrOf <- FromBoth
    BatchSize = 2
    MaxStream = 2
    Faults = {"insert"}
PROPERTIES
    EveryEntryHandled
CHECK_DEADLOCK FALSE
