\* Calls whose summary misses what they rebind.
SPECIFICATION BindingsSpec
CONSTANTS
    f = f
    h = h
    NoName = NoName
    Names <- MCNames
    Bodies <- MCBodies
    Rebindings <- MCRebindings
    Lines = 4
    RebindInLoops = TRUE
INVARIANTS
    FinalIsExact
