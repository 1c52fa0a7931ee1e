\* The clock is fair; packets, players and one load come as they like.
CONSTANTS
    w1 = w1
    w2 = w2
    sOther = sOther
    World = {w1, w2}
    TurnId = {t1}
    Session = {s1}
    Home <- MCHome
    MaxEpoch = 2
    MaxControl = 1
    MaxMessages = 1
    MaxSeq = 2
    MaxHistory = 1
    MaxLoads = 1
    Patience = 2
    HelloInterval = 2
    ErrorChecks = 0
    SendMayFail = FALSE
    Root = Root
    NoWorld = NoWorld
    NoSession = NoSession
    NoExchange = NoExchange
    NoStream = NoStream
SPECIFICATION ModLiveSpec
PROPERTIES SilenceIsNoticed OfflineReconnects
