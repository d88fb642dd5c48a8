SPECIFICATION DaemonSpec
CONSTANTS
    Admins = {a1, a2}
    Authorizations = {s1, s2, s3, s4}
    Others = {o1, o2}
    Credentials = {c1, c2}
    MaxKeys = 2
    Slots = 2
    None = None
SYMMETRY Symmetric
INVARIANTS InstalledOpensObjects SavedOpensObjects AllOrNothing 
PROPERTY InUseKept
