SPECIFICATION Spec
CONSTANTS
    MaxMessages = 3
    MAX_SESSION_ID_SIZE = 2
    MAX_VERIFICATION_TEXT_SIZE = 4
    MAX_SECRET_SIZE = 3
    Messages <- SmallMessages
    Packets <- SmallPackets
    Secrets <- Passwords
INVARIANTS OnlyPamDecides SessionStillActive NoConversationError CodecExact SecretUnchanged
PROPERTIES WorkerEnds BrokerFollowsClient VerificationEnds
CHECK_DEADLOCK FALSE
