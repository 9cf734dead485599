SPECIFICATION Spec
CONSTANTS
    Capacity = 3
    Interfaces <- MCInterfaces
    Inputs <- MCInputs
    NoInput = NoInput
    MaxInits = 2
    Repeats <- MCRepeats
INVARIANTS PlanExact AllOrNothing SettledOnce ServiceBacked
PROPERTIES Layered
CHECK_DEADLOCK FALSE
