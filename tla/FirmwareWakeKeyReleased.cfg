\* Is the wake key always released?
CONSTANTS
    PwrSenseWired      = TRUE
    VbusSenseWired     = FALSE
    ButtonWired        = TRUE
    PowerButtonWake    = TRUE
    StandbyHidKeyboard = TRUE
    DebugConsole       = FALSE
    DebounceTicks      = 1
    ArmDelayTicks      = 1
    PulseTicks         = 1
    SettleTicks        = 1
    BootTicks          = 1
    ShutdownTicks      = 1
    KeyTicks           = 1

SPECIFICATION FFairSpec
PROPERTIES
    WakeKeyReleased
