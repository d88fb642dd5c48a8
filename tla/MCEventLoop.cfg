SPECIFICATION Spec
CONSTANTS
    c1 = c1
    c2 = c2
    Channels = {c1, c2}
    CTAPHID_BROADCAST_CID = broadcast
    NoChannel = NoChannel
    NoCid = NoCid
    Bytes = {1, 2, 3, 4, 8}
    MAX_INIT_PAYLOAD_SIZE = 1
    MAX_CONT_PAYLOAD_SIZE = 1
    CTAPHID_MAX_PAYLOAD_SIZE = 2
    INIT_NONCE_SIZE = 1
    CredentialIds = {1, 2}
    Owners = {"u"}
    RpIds = {"rp"}
    UserIds = {"alice", "bob"}
    NoCredential = NoCredential
    MaxGeneration = 5
    MaxSignCount = 2
    MAX_CREDENTIALS = 2
    Contexts <- TwoAgents
    LoadedStores <- EmptyOrTwoAccounts
    NoContext = NoContext
    MaxFrames = 5
    MaxRequests = 3
    Int64Bits = 8
    IntBits = 5
    MaxResponse = 7609
INVARIANTS
    AnsweredOnce
    ContinuationFollowsAssertion
    CounterIsCommitted
    SameContext
    RequestReadAlone
    AcceptedIsServed
PROPERTIES
    HandlerOwned
    CountersIncrease
    RequestEnds
CHECK_DEADLOCK FALSE
