INIT Init
NEXT Next
INVARIANTS ContentsAgree ShapeSound WalkExact PlanExact ValuesOwned
CHECK_DEADLOCK FALSE
