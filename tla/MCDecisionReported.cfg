SPECIFICATION Spec
CONSTANTS
    MaxMessages = 1
    MAX_SESSION_ID_SIZE = 2
    MAX_VERIFICATION_TEXT_SIZE = 4
    MAX_SECRET_SIZE = 3
    Messages <- SmallMessages
    Packets <- SmallPackets
    Secrets <- Passwords
INVARIANT DecisionReported
CHECK_DEADLOCK FALSE
