SPECIFICATION Spec
CONSTANTS
    N = 1
    Devices = {uart}
    uart = uart
    NumSources = 2
    UsedSources = {1}
    Priorities = {0, 1}
    Thresholds = {0}
    EnableWords <- OnOff
    CsrHarts = {0}
    CsrOps <- MipSsip
    BeyondContexts = FALSE
INVARIANTS SeipMatchesPlic
