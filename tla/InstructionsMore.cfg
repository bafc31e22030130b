SPECIFICATION Spec
CONSTANTS
    XLEN = 8
    BitAnd <- BitwiseAnd
    BitOr <- BitwiseOr
    BitXor <- BitwiseXor
    UpperShift = 2
    Cases <- Samples
    Handler = 64
    Ram <- Near
    RamByte <- Striped
INVARIANTS TypeOK ExpansionsAreLegal
PROPERTIES WordsAreNarrow BranchesOrder StoredIsLoaded
