\* Two games, two source ports, two processes: reconnects, moves between worlds and ports, restarts.
CONSTANTS
    World = {w1, w2}
    Addr = {a1, a2}
    TurnId = {t1, t2}
    Session = {s1, s2, s3}
    MaxMessages = 2
    ClientId <- MCClientId
    Body = {b1}
    Text = {x1}
    MaxWorkers = 2
    MaxCached = 1
    StoreMayFail = FALSE
    SendMayFail = FALSE
    ThreadMayFail = TRUE
    MaxStarts = 2
    MaxDeltas = 0
    Root = Root
    NoWorld = NoWorld
    NoPeer = NoPeer
    NoSession = NoSession
    NoRequest = NoRequest
    Latest = Latest
    Blank = Blank
    NoRow = NoRow
    NoAlias = NoAlias
    MaxTurns = 2
SYMMETRY MCSymmetry
VIEW MCView
SPECIFICATION DaemonSpec
CHECK_DEADLOCK FALSE
INVARIANTS PeerMapsAgree PeersHoldTheirSession ActiveIsCurrent OneGenerationPerWorld PendingIsOwned
