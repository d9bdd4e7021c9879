SPECIFICATION Spec
CONSTANTS
    Shared = TRUE
    MaxFaults = 0
    MaxInputs = 1
    Room = 1
INVARIANT ClosedStaysClosed
