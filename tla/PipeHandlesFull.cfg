SPECIFICATION HFairSpec
CONSTANTS
    EOT = EOT
    Chars = {a, EOT}
    pipeSize = 2
    MaxWrite = 2
    MaxRead = 2
    MaxSent = 2

PROPERTY CloseEndsTransmission
CHECK_DEADLOCK FALSE
