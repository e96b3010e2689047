SPECIFICATION Spec
CONSTANTS
    INT = 2
    BodySizes <- MCBodySizes
    MaxPackets = 3
    PACKET_BUFFER_SIZE = 16
INVARIANTS TypeOK AlignedIsRight
PROPERTY DeliveredInOrder
CHECK_DEADLOCK FALSE
