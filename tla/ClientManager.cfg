SPECIFICATION Spec
CONSTANTS
    Users = {u1, u2}
    NoOne = NoOne
    Ids = {1, 2}
    Logics = 2
    MaxCalls = 3
    MaxTasks = 1
INVARIANTS
    TypeOK
    NoSerialThrowOnLogicThread
    PortReleased
PROPERTIES
    IdsNotReused
    CallsReturn
    FailureReported
