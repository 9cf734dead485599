SPECIFICATION Spec
CONSTANTS
    f1 = f1
    f2 = f2
    d1 = d1
    Owner = Owner
    NoTask = NoTask
    c1 = c1
    c2 = c2
    w1 = w1
    w2 = w2
    wk = wk
    p1 = p1
    p2 = p2
    s1 = s1
    s2 = s2
    None = None
SYMMETRY Symmetry
INVARIANTS SettledOnce  InOrder NotStranded SubscriberProtocol 
CHECK_DEADLOCK FALSE
