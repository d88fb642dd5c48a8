SPECIFICATION Spec
CONSTANTS
    Agents = {a1}
    a1 = a1
    MaxRegistrations = 2
    MaxInteractions = 1
    MaxPrompts = 2
    MaxQueued = 0
INVARIANTS
    ApprovedByUser
    NeverInvalidTransition
    SecretForPrompt
    NothingPending
PROPERTIES
    ImplementsFlow
    CeremonyEnds
CHECK_DEADLOCK FALSE
