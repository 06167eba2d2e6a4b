SPECIFICATION Spec
CONSTANTS
    k1 = k1  k2 = k2  p1 = p1  p2 = p2  s1 = s1  s2 = s2
    u1 = u1  u2 = u2  u3 = u3
    NoRow = NoRow  Never = Never  None = None  Miss = Miss  Hole = Hole
    Converters = {k1}
    Updaters = {}
    Showers = {}
    Urls = {u1, u2}
    AskCodes = {1}
    Ids = {1, 2}
    MaxSeq = 3
    InitSeq = 1
    MaxTime = 0
    BlackList = {}
    Fold <- CaseSensitive
    Hash <- FourBits
    InitTable <- OneLink
INVARIANTS
    StoredPassFilter
CHECK_DEADLOCK FALSE
