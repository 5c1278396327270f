SPECIFICATION HandlesSpec
CONSTANTS
    Callers = {c1, c2}
    Ids = {i1, i2, i3}
    NoId = NoId
    Width = 8
    Steps = {1, 2}
    MaxClones = 3
INVARIANTS LiveHandles FindsItself
CHECK_DEADLOCK FALSE
