SPECIFICATION UiSpec
CONSTANTS
    Ui = Ui
    Agents = {Ui}
    MaxRegistrations = 1
    MaxInteractions = 2
    MaxPrompts = 1
    MaxQueued = 1
    MaxStartup = 1
    MaxBacklog = 2
INVARIANT
    NoDuplicateReply
CHECK_DEADLOCK FALSE
