\* Two worlds, four turns, one provisional name that every turn may reuse, prompts of two turns.
CONSTANTS
    World = {w1, w2}
    TurnId = {t1, t2, t3, t4}
    ClientId = {c1}
    Text = {x1}
    Root = Root
    NoWorld = NoWorld
    Latest = Latest
    Blank = Blank
    NoRow = NoRow
    NoAlias = NoAlias
    MaxTurns = 2
SYMMETRY MCSymmetry
SPECIFICATION StoreSpec
INVARIANTS StoreTypeOK HeadIsFinished LineageIsBranch
PROPERTIES HistoryIsStable AbortIsFinal ImplementsTimeline
