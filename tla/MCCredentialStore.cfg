SPECIFICATION Spec
CONSTANTS
    c1 = c1
    c2 = c2
    c3 = c3
    alice = alice
    rp1 = rp1
    user1 = user1
    user2 = user2
    daemon = daemon
    ctl = ctl
    CredentialIds = {c1, c2, c3}
    Owners = {alice}
    RpIds = {rp1}
    UserIds = {user1, user2}
    NoCredential = NoCredential
    NoProcess = NoProcess
    Daemon = daemon
    Admins = {ctl}
    MaxGeneration = 4
    MaxSignCount = 1
    MAX_CREDENTIALS = 2
    SettledBeforeRecovery = TRUE
INVARIANTS
    Recoverable
    MemoryIsCommitted
    CredentialsDistinct
PROPERTY
    ImplementsDurableStore
