\* Answers come in batches of two and are up to four commands late.
CONSTANTS
    Backends     = {"cyw43", "esp32 with reset pin", "esp32"}
    MaxRxPackets = 2
    MaxOwed      = 4

SPECIFICATION FairSpec
CHECK_DEADLOCK FALSE
INVARIANTS
    TypeOK
    ResetFlushes
    ConfiguredScans
    ScannerOffWhenConfigured
PROPERTIES
    ConfigurationSucceeds
