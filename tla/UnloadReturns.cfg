SPECIFICATION Spec
CONSTANTS
    Users = {u1, u2}
    NoOne = NoOne
    Ids = {1, 2}
    Logics = 2
    MaxCalls = 1
    MaxTasks = 1
PROPERTY UnloadReturns
