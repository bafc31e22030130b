SPECIFICATION Spec
CONSTANTS
    FRegs = {0, 1}
    WordLen = 2
    LongLen = 4
    Insns <- FewInsns
    Starts <- FewStarts
    HostNans <- FewNans
PROPERTIES RoundsAsAsked FlagsAreExact ConversionsSaturate NansAreCanonical MinMaxOrders
CHECK_DEADLOCK FALSE
