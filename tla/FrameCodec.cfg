SPECIFICATION FairSpec
CHECK_DEADLOCK FALSE
CONSTANTS
    ByteBase = 4
    WordBytes = 2
    LastType = 2
    MAX_FRAME_PAYLOAD = 2
    Ids <- MCIds
    Payloads <- MCPayloads
    MaxFrames = 2
    SocketBuffer = 5
INVARIANT DeliveredIntact
INVARIANT OnFrameBoundary
INVARIANT LimitIsExact
INVARIANT DeserializeInverts
PROPERTY AllDelivered
