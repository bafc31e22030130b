SPECIFICATION Spec
CONSTANTS
    XLEN = 8
    BitAnd <- BitwiseAnd
    BitOr <- BitwiseOr
    BitXor <- BitwiseXor
    UpperShift = 2
    Cases <- Samples
    Handler = 64
    Ram <- Near
    RamByte <- Striped
INVARIANTS ExpandsAsManual PreciseTraps
PROPERTIES DivisionLaw ProductLaw CallsReturn
