SPECIFICATION FairSpec
CONSTANTS
    EOT = EOT
    Chars = {a, EOT}
    pipeSize = 2
    MaxWrite = 2
    MaxRead = 2
    MaxSent = 3
INVARIANTS TypeOK Fifo UnreadIntact PermitsBalance GivesUpOnlyWhenClosed
PROPERTIES ChannelSpec EndsReleased
CHECK_DEADLOCK FALSE
