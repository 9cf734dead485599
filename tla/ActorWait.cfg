CONSTANTS
    Stoppers = {s1, s2}
    Senders = {p1}
    MaxSends = 1
SPECIFICATION Spec
INVARIANT WaitQuiesces
CHECK_DEADLOCK FALSE
