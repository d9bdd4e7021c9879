SPECIFICATION Spec
CONSTANTS
    Shared = FALSE
    MaxFaults = 1
    MaxInputs = 2
    Room = 0
INVARIANTS
    TypeOK
    ArmedWhileConnected
    ReconnectOwed
PROPERTIES
    RestIsFinal
    ReconnectCompletes
