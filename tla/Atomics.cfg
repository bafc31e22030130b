\* Two harts, LR/SC/AMOs on both widths of a pair of words, with every exit, plain stores
\* beside it.
SPECIFICATION FairSpec
CONSTANTS
    Harts = {0, 1}
    NumWords = 3
    Base = 2
    AtomicAccesses <- Pair
    StoreAccesses <- Elsewhere
    Operands = {3}
PROPERTIES Indivisible LockReleased
