CONSTANTS
    a = a
    b = b
    k1 = k1
    k2 = k2
    Names <- MCNames
    Kinds <- MCKinds
    MaxTxns = 2
    MaxSavepoints = 2
    MaxMutations = 3
SPECIFICATION Spec
SYMMETRY SavepointSymmetry
INVARIANTS
    RolledBackIsUndone
PROPERTIES
    SuccessIsComplete
    OnlyDiscardStrandsUndo
CHECK_DEADLOCK FALSE
