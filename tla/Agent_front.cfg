SPECIFICATION LiveSpec
CONSTANTS
    t1 = t1  t2 = t2  r1 = r1  x0 = x0  x1 = x1  c1 = c1  c2 = c2  u1 = u1  u2 = u2
    Blank = Blank  NoLink = NoLink  NoTask = NoTask  NoSession = NoSession  NoTurn = NoTurn
    Turns = {t1, t2}
    Sessions = {x0, x1}
    RequestIds = {r1}
    OwnSession <- SomeOwn
    Codes = {c1, c2}
    Urls = {u1, u2}
    Dates <- FewDays
    Today = 400
    Numbers <- FewNumbers
    Words <- Spelled
    Texts <- AllTexts
    Reads <- Extracted
    Keywords <- ToolTexts
    Requests <- SomeAsk
    Lines <- SomeLines
    Args <- NoArgs
    Configs <- SomeConfigs
    InitLinks <- FirstLink
    MaxCalls = 1
    Options <- SomeOptions
    Clock = {x1}
    Lengths = {3}
    Size = 2
    MaxRestarts = 1
    Modes = {"cli", "server"}
INVARIANTS
    HistoryIsTheTalk FollowUpStaysWithLink DaysAsTold ToldTaskIsFound StreamIsTheReply ReplyIsTrue
PROPERTIES
    EveryTurnEnds
CHECK_DEADLOCK FALSE
