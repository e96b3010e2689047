SPECIFICATION Spec
CONSTANTS
    INT = 2
    BodySizes <- MCBodySizes
    MaxPackets = 3
    PACKET_BUFFER_SIZE = 16
INVARIANT WholePackets
CHECK_DEADLOCK FALSE
