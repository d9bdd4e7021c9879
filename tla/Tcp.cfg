SPECIFICATION Spec
CONSTANTS
    Shared = FALSE
    MaxFaults = 1
    MaxInputs = 1
    Room = 0
INVARIANTS
    TypeOK
    ArmedWhileConnected
    ReconnectOwed
    DataAfterConnect
PROPERTIES
    RestIsFinal
    DropReported
    LinkReturns
