SPECIFICATION Spec
CONSTANTS
    c1 = c1
    d1 = d1
    d2 = d2
    l1 = l1
    l2 = l2
    s1 = s1
    s2 = s2
    h1 = h1
    f1 = f1
    p1 = p1
    p2 = p2
SYMMETRY Symmetry
INVARIANTS RequestsExact  ClosedQuiet 
CHECK_DEADLOCK FALSE
