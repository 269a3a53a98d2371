\* Two activations of two functions, with resets and a changing threshold.
SPECIFICATION FairSpec
CONSTANTS
    Calls = {c1, c2}
    Functions = {f1, f2}
    EmbeddedThresholds <- MCEmbeddedThresholds
    EnvThresholds <- MCEnvThresholds
    DisableValues <- MCNeverDisabled
    DEFAULT_BOUNDARY_FALLBACK_THRESHOLD = 1
    NoValue = NoValue
    NoCall = NoCall
    NoFunction = NoFunction
PROPERTIES
    ImplementsDemotion
    CallsReturn
