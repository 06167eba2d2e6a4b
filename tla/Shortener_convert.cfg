SPECIFICATION CoherenceSpec
CONSTANTS
    k1 = k1  k2 = k2  p1 = p1  p2 = p2  s1 = s1  s2 = s2
    u1 = u1  u2 = u2  u3 = u3
    NoRow = NoRow  Never = Never  None = None  Miss = Miss  Hole = Hole
    Converters = {k1, k2}
    Updaters = {p1}
    Showers = {}
    Urls = {u1, u2}
    AskCodes = {2}
    Ids = {1, 2}
    MaxSeq = 4
    InitSeq = 0
    MaxTime = 0
    BlackList = {1}
    Fold <- LastTwoFold
    Hash <- FourBits
    InitTable <- NoLinks
INVARIANTS
    TypeOK ExistingWasTrue CreatedIsReachable ReservedCodesUnused
    StaleRowsHaveACause HolesHaveACause
CHECK_DEADLOCK FALSE
