SPECIFICATION Spec
CONSTANTS
    Dot = "."
    NameMax = 1
    ExtMax = 1
    N = 8
    K = 2
    R = 3
    W = 64
    Root = 19
    EntrySize = 14
    Characters = {"a", "b", "c", "s", "t", "."}
    Handles = {h1, h2}
    Paths <- MCPaths
    Folders <- MCFolders
    RootSector = 6
    Sizes = {1, 3, 5}
    Offsets = {1, 3}
    Values = {u, v}
    Boots <- MCBoots
    MaxCalls = 4
INVARIANTS TablesAgree TreeSound ReadBack WildHasCause
PROPERTIES LostOnlyByLongWrite OthersUntouched
SYMMETRY Symmetry
CHECK_DEADLOCK FALSE
