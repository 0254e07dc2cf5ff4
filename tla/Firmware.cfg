\* The composed firmware with the standby keyboard and the button both built in.
CONSTANTS
    PwrSenseWired      = TRUE
    VbusSenseWired     = FALSE
    ButtonWired        = TRUE
    PowerButtonWake    = TRUE
    StandbyHidKeyboard = TRUE
    DebugConsole       = TRUE
    DebounceTicks      = 1
    ArmDelayTicks      = 2
    PulseTicks         = 1
    SettleTicks        = 2
    BootTicks          = 2
    ShutdownTicks      = 1
    KeyTicks           = 1

SPECIFICATION FFairSpec
INVARIANTS
    FTypeOK
    OneControllerOwner
PROPERTIES
    WakeDelivered
    StandbyConfigurationRetried
    WakeKeyReleasedInStandby
