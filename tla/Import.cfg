\* Imports, retries and reloads of the wrapper of a method, a shim and a plain function;
\* user modules of four statements.
SPECIFICATION MCSpec
CONSTANTS
    plain = plain
    shim = shim
    method = method
    TopLevel = TopLevel
    Functions <- MCFunctions
    Methods = {method}
    Shims <- MCShims
    HasTopLevel = TRUE
    Artifacts = {"absent", "broken", "built"}
    Modes = {"auto", "native", "fallback"}
    DebugValues = {TRUE, FALSE}
    MissingExports = {TRUE, FALSE}
    MayReload = TRUE
    f = f
    h = h
    NoName = NoName
    Names <- MCNames
    Bodies <- MCBodies
    Rebindings <- MCRebindings
    Lines = 4
    RebindInLoops = FALSE
SYMMETRY MCSymmetry
INVARIANTS
    InitializedOnSelectedLeg
    FaultSurfaced
    FallbackIsOriginal
    TableTrue
