SPECIFICATION Spec
CONSTANTS
    a1 = a1
    Agents = {a1}
    MaxRegistrations = 2
    MaxInteractions = 1
    MaxPrompts = 1
    MaxQueued = 1
PROPERTIES
    RegistrationKept
CHECK_DEADLOCK FALSE
