\* Every pin wired, debug console built in, the loop gap as long as the debounce.
CONSTANTS
    PwrSenseWired      = TRUE
    VbusSenseWired     = TRUE
    ButtonWired        = TRUE
    PowerButtonWake    = TRUE
    StandbyHidKeyboard = FALSE
    DebugConsole       = TRUE
    DebounceTicks      = 2
    ArmDelayTicks      = 2
    PulseTicks         = 1
    SettleTicks        = 3
    BootTicks          = 4
    ShutdownTicks      = 1
    MaxLoopGap         = 2

SPECIFICATION TFairSpec
INVARIANTS
    TypeOK
    NoWakeInCooldown
    ArmDelayHonoured
PROPERTIES
    PulsesSpaced
    NoPressOnRunningHost
    BridgeFollowsHost
    StandbyFollowsOff
