SPECIFICATION Spec
CONSTANTS
    MaxCalls = 2
    MaxConns = 2
    MaxMail = 2
    MaxFaults = 1
INVARIANTS
    InStep
    LagIsTimeouts
    MailKept
PROPERTY
    ReadsEnd
CHECK_DEADLOCK FALSE
