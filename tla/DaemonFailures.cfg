\* SQLite and sendto may fail, the daemon crashes, stops and starts; messages repeat and conflict.
CONSTANTS
    World = {w1, w2}
    Addr = {a1}
    TurnId = {t1, t2}
    Session = {s1, s2}
    MaxMessages = 1
    ClientId <- MCClientId
    Body = {b1, b2}
    Text = {x1}
    MaxWorkers = 1
    MaxCached = 1
    StoreMayFail = TRUE
    SendMayFail = TRUE
    ThreadMayFail = TRUE
    MaxStarts = 2
    MaxDeltas = 1
    Root = Root
    NoWorld = NoWorld
    NoPeer = NoPeer
    NoSession = NoSession
    NoRequest = NoRequest
    Latest = Latest
    Blank = Blank
    NoRow = NoRow
    NoAlias = NoAlias
    MaxTurns = 2
SYMMETRY MCSymmetry
VIEW MCView
SPECIFICATION DaemonSpec
CHECK_DEADLOCK FALSE
INVARIANTS DaemonTypeOK PeerHeadIsFinished CacheIsDurable
PROPERTIES SupersededNeverCommits ImplementsTimeline PeerHeadAdvances EndIsDurable
