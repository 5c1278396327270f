SPECIFICATION Spec
CONSTANTS
    NUL = NUL
    ETX = ETX
    EOT = EOT
    BS = BS
    LF = LF
    CR = CR
    LineCounts = 4
    CharCounts = 2
    Keys = {x, EOT, BS, CR, LF}
    Size = 2
    Max_Keyboard_Buffer_Size = 1
    MaxKeys = 4
    MaxPresses = 2
INVARIANTS InputKept EndsAreCaused CutsDoNotShow
PROPERTIES CtrlCWakes
CHECK_DEADLOCK FALSE
