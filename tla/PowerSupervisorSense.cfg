\* Is the sense input distrusted for the whole settle time after a pulse?
CONSTANTS
    PwrSenseWired      = TRUE
    VbusSenseWired     = FALSE
    ButtonWired        = TRUE
    PowerButtonWake    = TRUE
    StandbyHidKeyboard = FALSE
    DebugConsole       = FALSE
    DebounceTicks      = 1
    ArmDelayTicks      = 4
    PulseTicks         = 1
    SettleTicks        = 4
    BootTicks          = 5
    ShutdownTicks      = 2
    MaxLoopGap         = 2

SPECIFICATION TSpec
PROPERTIES
    SenseNotTrustedWhileSettling
