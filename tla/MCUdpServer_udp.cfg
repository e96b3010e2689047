SPECIFICATION FairSpec
CONSTANTS
    PACKET_BUFFER_SIZE = 2
    Lengths = {1, 3}
    MaxSends = 3
    MaxWaiting = 2
INVARIANTS
    TypeOK
    Accounted
    NotDeaf
    BufferFits
    Intact
    EndgameSafe
PROPERTIES
    CloseOnce
    DatagramsRead
CHECK_DEADLOCK FALSE
