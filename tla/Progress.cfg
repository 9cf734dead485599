SPECIFICATION Spec
CONSTANTS
    t1 = t1
    t2 = t2
    managed = managed
    NoPlugin = NoPlugin
    g1 = g1
    g2 = g2
    NoGeneration = NoGeneration
    s1 = s1
    p1 = p1
    f1 = f1
    d1 = d1
    Owner = Owner
    NoTask = NoTask
PROPERTIES Drains TasksSettle EventsTaken StopLeadsToUnload
CHECK_DEADLOCK FALSE
