SPECIFICATION Spec
CONSTANTS
    Once <- MC_Once
    Loop <- MC_Loop
    Last <- MC_Last
    Delay <- MC_NoDelay
    DefaultWait = 3
    Late = 1
    Spurious = FALSE
INVARIANT NotEarly
