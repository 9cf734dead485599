CONSTANTS
    Callers = {c1, c2}
    MaxSends = 2
    MaxStops = 2
    ExternalCapacity = 2
    InternalCapacity = 1
    CompletionCapacity = 1
    MicrostepLimit = 2
    Hosts = {FALSE}
    GuardsRaise = TRUE
SPECIFICATION Spec
INVARIANT ExitHonoured
CHECK_DEADLOCK FALSE
