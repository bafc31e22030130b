SPECIFICATION Spec
CONSTANTS
    N = 2
    Devices = {uart}
    uart = uart
    NumSources = 2
    UsedSources = {0, 1}
    Priorities = {0, 1}
    Thresholds = {0, 1}
    EnableWords <- OnOff
    CsrHarts = {0}
    CsrOps <- SipWrites
    BeyondContexts = FALSE
INVARIANTS MeipMatchesPlic
PROPERTIES LinesFollow
