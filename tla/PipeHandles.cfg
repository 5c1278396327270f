SPECIFICATION HFairSpec
CONSTANTS
    EOT = EOT
    Chars = {a, EOT}
    pipeSize = 4
    MaxWrite = 2
    MaxRead = 2
    MaxSent = 2
PROPERTIES CloseEndsTransmission LockReleased
CHECK_DEADLOCK FALSE
