\* Packets of two daemons in any order and number; a save is made at any moment and loaded once.
CONSTANTS
    w1 = w1
    w2 = w2
    sOther = sOther
    World = {w1, w2}
    TurnId = {t1, t2}
    Session = {s1, sOther}
    Home <- MCHome
    MaxEpoch = 2
    MaxControl = 1
    MaxMessages = 2
    MaxSeq = 3
    MaxHistory = 2
    MaxLoads = 1
    Patience = 1
    HelloInterval = 1
    ErrorChecks = 0
    SendMayFail = TRUE
    Root = Root
    NoWorld = NoWorld
    NoSession = NoSession
    NoExchange = NoExchange
    NoStream = NoStream
SYMMETRY MCSymmetry
SPECIFICATION ModSpec
INVARIANTS ModTypeOK BusyHasExchange ExchangeIsCurrent PreviewInOrder HistoryMatchesHead
PROPERTIES HeadMovesByAnswer
