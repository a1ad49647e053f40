SPECIFICATION Spec
CONSTANTS
    Sessions = {s1}
    Subscribers = {c1, c2}
    Publishers = {p1}
    Capacity = 1
    MaxMessages = 2
    None = None
INVARIANTS NeverPanics
CHECK_DEADLOCK FALSE
