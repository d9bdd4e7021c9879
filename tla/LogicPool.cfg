SPECIFICATION Spec
CONSTANTS
    LogicCount = 2
    MaxMsgs = 2
    Conns <- MC_Conns
INVARIANTS
    TypeOK
    InOrder
    NoLostWakeup
    DropOnlyAfterCloseLogic
PROPERTIES
    AcceptedIsRun
    CloseReturns
    IsTaskChannel
