SPECIFICATION FrameSpec
CONSTANTS
    c1 = c1
    c2 = c2
    Channels = {c1, c2}
    CTAPHID_BROADCAST_CID = CTAPHID_BROADCAST_CID
    NoChannel = NoChannel
    Bytes <- SmallBytes
    MAX_INIT_PAYLOAD_SIZE = 2
    MAX_CONT_PAYLOAD_SIZE = 1
    CTAPHID_MAX_PAYLOAD_SIZE = 4
    INIT_NONCE_SIZE = 1
    MaxMessages = 3
SYMMETRY ChannelSymmetry
INVARIANTS
    RoundTrip
    NoSilentLoss
    ActiveExcludesIncoming
CHECK_DEADLOCK FALSE
