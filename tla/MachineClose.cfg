CONSTANTS
    s1 = s1
    k1 = k1
    u1 = u1
    u2 = u2
    c1 = c1
    c2 = c2
SPECIFICATION Spec
INVARIANT CloseCommits
CHECK_DEADLOCK FALSE
