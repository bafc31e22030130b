SPECIFICATION Spec
CONSTANTS
    N = 2
    NsPerTick = 2
    Modulus = 64
    BootNs = 3
    MaxNow = 8
    TickValues = {0, 1, 2}
    TimerTargets <- Hart0ToHart1
    MsipTargets <- Nobody
    MtimeWriters = {}
INVARIANTS TimerNotLost
