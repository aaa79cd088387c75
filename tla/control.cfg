CONSTANTS
  Callers = {p1, p2}
  Args = {a1, a2}
  MaxCalls = 2
SPECIFICATION Spec
INVARIANTS TypeOK OwnResult PublishedIsValue
PROPERTIES ImplementsCalls
CHECK_DEADLOCK FALSE
