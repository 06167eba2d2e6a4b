SPECIFICATION Spec
CONSTANTS
    k1 = k1  k2 = k2  p1 = p1  p2 = p2  s1 = s1  s2 = s2
    u1 = u1  u2 = u2  u3 = u3
    NoRow = NoRow  Never = Never  None = None  Miss = Miss  Hole = Hole
    Converters = {}
    Updaters = {p1, p2}
    Showers = {s1}
    Urls = {u1, u2}
    AskCodes = {2}
    Ids = {1}
    MaxSeq = 2
    InitSeq = 1
    MaxTime = 1
    BlackList = {}
    Fold <- LastTwoFold
    Hash <- Full
    InitTable <- OneLink
INVARIANTS
    CopiesCommitted VersionsOfOneLink FieldsWereSent
PROPERTIES
    RowsKeepTheirCode RedirectsServeAVersion
SYMMETRY UpdatersAlike
CHECK_DEADLOCK FALSE
