SPECIFICATION CallsSpec
CONSTANT MaxChanges = 3
INVARIANT UnavailableIsUnreachable
CHECK_DEADLOCK FALSE
