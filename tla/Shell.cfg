SPECIFICATION FairSpec
CONSTANTS
    Words <- MCWords
    Drive = "C:"
    Lines <- MCLines
    Programs = {"cat", "big", "echo"}
    Readers = {"cat"}
    Openers = {"cat"}
    Floods = {"big"}
    Tree <- MCTree
    LineRoom = 9
    BufferDepth = 2
    MaxLines = 2
INVARIANTS RunningKeepsHandles NothingLeft NeighboursShareAPipe PopsNeedGap PromptIsTrue
PROPERTIES CdWalks ShellReturns
CHECK_DEADLOCK FALSE
