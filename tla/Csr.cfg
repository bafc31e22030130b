SPECIFICATION Spec
CONSTANTS
    Insns <- FewInsns
    MaxInsns = 3
    Lines <- MeipAndSeip
INVARIANTS SavedRestores
PROPERTIES NoEscalation OnlyNamedBits
