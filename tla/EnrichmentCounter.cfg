SPECIFICATION Spec
CONSTANTS
    Slots = {s1, s2, s3}
INVARIANTS CounterIsExact CompletedOwesNothing SomebodyPromotes
CHECK_DEADLOCK FALSE
