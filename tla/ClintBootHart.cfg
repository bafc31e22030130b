SPECIFICATION Spec
CONSTANTS
    N = 2
    NsPerTick = 2
    Modulus = 64
    BootNs = 3
    MaxNow = 5
    TickValues = {0, 1, 2}
    TimerTargets <- FromHart0
    MsipTargets <- Nobody
    MtimeWriters = {0}
INVARIANTS DeadlinesAgree MtimeReadsBack
