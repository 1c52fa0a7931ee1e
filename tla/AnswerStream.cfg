\* Answers of up to four characters, narrow and wide, in chunks smaller and larger than a batch.
CONSTANTS
    Chunks = {0, 1, 3}
    Widths = {1, 3, 5}
    MaxChars = 2
    DeltaBudget = 4
    EndBudget = 9
    SendMayFail = TRUE
    StoreMayFail = TRUE
    LoneMayCome = TRUE
    MaxText = 4
    MaxLines = 3
SPECIFICATION StreamSpec
CHECK_DEADLOCK FALSE
INVARIANTS StreamTypeOK BisectionIsExact PreviewIsCut PreviewIsWhole OnlyWholeAnswers
PROPERTIES SupersededIsSilent WorkerEnds
