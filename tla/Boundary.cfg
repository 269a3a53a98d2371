\* Projects of three functions; bodies of five statements, of four over lists.
SPECIFICATION MCSpec
CONSTANTS
    N = 3
    Shapes <- MCShapes
    Calls <- MCCalls
    Modes = {"in process", "delegate"}
    f1 = f1
    f2 = f2
    n1 = n1
    a1 = a1
    a2 = a2
    a3 = a3
    Flat <- MCFlat
    Nested <- MCNested
    Array <- MCArray
    Params <- MCParams
    Forms <- MCForms
    Blocks <- MCBlocks
    Lines = 5
SYMMETRY MCSymmetry
INVARIANTS
    LoweredCallsHold
    VerdictIsLargest
    CrateExactly
    SameResult
    AliasNeverEscapes
CHECK_DEADLOCK FALSE
