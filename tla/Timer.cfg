SPECIFICATION Spec
CONSTANTS
    Once <- MC_Once
    Loop <- MC_Loop
    Last <- MC_Last
    Delay <- MC_Delay
    DefaultWait = 3
    Late = 1
    Spurious = TRUE
INVARIANTS
    TypeOK
    OnceAtMostOnce
    CloseCutsWait
PROPERTIES
    CloseIsQuiet
    TimerFires
    CloseEnds
