\* As SystemLiveness: what follows when a question starts the connection.
CONSTANTS
    w1 = w1
    World = {w1}
    Addr = {a1}
    TurnId = {t1}
    Session = {s1}
    Home <- MCHome
    MaxMessages = 1
    ClientId <- MCClientId
    Body = {b1}
    Text = {x1}
    MaxWorkers = 1
    MaxCached = 1
    StoreMayFail = FALSE
    SendMayFail = FALSE
    ThreadMayFail = FALSE
    MaxStarts = 2
    MaxDeltas = 0
    MaxControl = 2
    MaxSeq = 2
    MaxHistory = 4
    MaxLoads = 0
    Patience = 1
    HelloInterval = 1
    ErrorChecks = 0
    MayRepeat = FALSE
    MayLose = FALSE
    Root = Root
    NoWorld = NoWorld
    NoPeer = NoPeer
    NoSession = NoSession
    NoRequest = NoRequest
    NoExchange = NoExchange
    NoStream = NoStream
    Latest = Latest
    Blank = Blank
    NoRow = NoRow
    NoAlias = NoAlias
    MaxTurns = 2
SPECIFICATION SystemLiveSpec
CHECK_DEADLOCK FALSE
PROPERTIES BootstrapIsSuperseded
