SPECIFICATION Spec
CONSTANT MaxNumber = 120
INVARIANTS RoundTrip
CHECK_DEADLOCK FALSE
