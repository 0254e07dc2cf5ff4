\* Does every key press belong to the wake of the present standby?
CONSTANTS
    PwrSenseWired      = TRUE
    VbusSenseWired     = FALSE
    ButtonWired        = TRUE
    PowerButtonWake    = TRUE
    StandbyHidKeyboard = TRUE
    DebugConsole       = FALSE
    DebounceTicks      = 1
    ArmDelayTicks      = 1
    PulseTicks         = 1
    SettleTicks        = 1
    BootTicks          = 1
    ShutdownTicks      = 1
    KeyTicks           = 1

SPECIFICATION FSpec
PROPERTIES
    WakeKeyIsFresh
