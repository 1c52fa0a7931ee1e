\* A duplicate that arrives after its first delivery failed.
CONSTANTS
    World = {w1, w2}
    Addr = {a1}
    TurnId = {t1, t2}
    Session = {s1, s2}
    MaxMessages = 1
    ClientId <- MCClientId
    Body = {b1}
    Text = {x1}
    MaxWorkers = 1
    MaxCached = 1
    StoreMayFail = FALSE
    SendMayFail = FALSE
    ThreadMayFail = FALSE
    MaxStarts = 1
    MaxDeltas = 0
    Root = Root
    NoWorld = NoWorld
    NoPeer = NoPeer
    NoSession = NoSession
    NoRequest = NoRequest
    Latest = Latest
    Blank = Blank
    NoRow = NoRow
    NoAlias = NoAlias
    MaxTurns = 2
SYMMETRY MCSymmetry
VIEW MCView
SPECIFICATION DaemonSpec
CHECK_DEADLOCK FALSE
INVARIANTS OneModelCall
