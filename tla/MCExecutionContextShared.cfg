SPECIFICATION Spec
CONSTANTS
    Received <- EveryFailure
    Generates = TRUE
    HooksFail = TRUE
INVARIANTS
    CommitComplete
PROPERTIES
    ContextReleased
