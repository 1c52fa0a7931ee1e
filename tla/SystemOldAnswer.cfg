\* As SystemPackets with one message, and the save is loaded once.
CONSTANTS
    w1 = w1
    World = {w1}
    Addr = {a1}
    TurnId = {t1, t2}
    Session = {s1, s2}
    Home <- MCHome
    MaxMessages = 1
    ClientId <- MCClientId
    Body = {b1, b2}
    Text = {x1}
    MaxWorkers = 1
    MaxCached = 1
    StoreMayFail = FALSE
    SendMayFail = FALSE
    ThreadMayFail = FALSE
    MaxStarts = 1
    MaxDeltas = 0
    MaxControl = 2
    MaxSeq = 2
    MaxHistory = 4
    MaxLoads = 1
    Patience = 1
    HelloInterval = 1
    ErrorChecks = 0
    MayRepeat = TRUE
    MayLose = FALSE
    Root = Root
    NoWorld = NoWorld
    NoPeer = NoPeer
    NoSession = NoSession
    NoRequest = NoRequest
    NoExchange = NoExchange
    NoStream = NoStream
    Latest = Latest
    Blank = Blank
    NoRow = NoRow
    NoAlias = NoAlias
    MaxTurns = 2
SYMMETRY MCSymmetry
VIEW MCView
SPECIFICATION SystemSpec
CHECK_DEADLOCK FALSE
PROPERTIES AnswerFitsQuestion
