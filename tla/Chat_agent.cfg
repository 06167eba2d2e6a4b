SPECIFICATION Spec
CONSTANTS
    t1 = t1  t2 = t2  x1 = x1  x2 = x2  r1 = r1  r2 = r2  c1 = c1  c2 = c2  u1 = u1  u2 = u2  d1 = d1
    Blank = Blank  NoLink = NoLink  NoTask = NoTask  NoSession = NoSession
    Turns = {t1, t2}
    Sessions = {x1, x2}
    RequestIds = {r1, r2}
    OwnSession <- SomeOwn
    Codes = {c1, c2}
    Urls = {u1, u2}
    Dates = {d1}
    MaxCalls = 1
    Requests <- Some
    Texts <- SomeTexts
    Reads <- SomeReads
    Keywords = {}
    Args <- SomeArgs
    Configs <- SomeConfigs
    InitLinks <- FirstLink
INVARIANTS
    AgentTypeOK FallbackRepeatsNothing SucceededIsDone SessionsApart
PROPERTIES
    UpdatesNeedPermission
CHECK_DEADLOCK FALSE
