\* Two activations; the mode and the counting switch change under them.
SPECIFICATION DispatchSpec
CONSTANTS
    Calls = {c1, c2}
    plain = plain
    routed = routed
    Functions <- MCFunctions
    PluginRouted <- MCPluginRouted
    BoundaryCalls <- MCBoundaryCalls
    RawModes <- MCRawModes
    Embedded = 1
    EmbeddedThresholds = {1}
    EnvThresholds <- MCUnset
    DisableValues = {TRUE, FALSE}
    DEFAULT_BOUNDARY_FALLBACK_THRESHOLD = 1
    NoValue = NoValue
    NoFunction = NoFunction
SYMMETRY MCSymmetry
INVARIANTS
    LegJustified
    DemotedStaysOnFallback
