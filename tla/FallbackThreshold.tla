-------------------------- MODULE FallbackThreshold --------------------------
(***************************************************************************)
(* How a boundary-fallback threshold comes about: the default embedded in  *)
(* the generated code, and the environment variable that overrides it.     *)
(* Parsing is abstracted to its outcomes: a number, or no usable value.    *)
(***************************************************************************)
EXTENDS Integers

CONSTANTS
    EmbeddedThresholds, \* the default_threshold arguments callers pass
    EnvThresholds,      \* what REXTIO_BOUNDARY_FALLBACK_THRESHOLD may parse to
    DisableValues,      \* what REXTIO_DISABLE_BOUNDARY_FALLBACK may be
    DEFAULT_BOUNDARY_FALLBACK_THRESHOLD,
    NoValue             \* the variable is unset, empty or not a number

ASSUME ThresholdAssumption ==
    /\ EmbeddedThresholds \subseteq Int
    /\ EnvThresholds \subseteq Int \cup {NoValue}
    /\ NoValue \notin Int
    /\ DEFAULT_BOUNDARY_FALLBACK_THRESHOLD \in Nat
    /\ DisableValues \subseteq BOOLEAN

\* _valid_default_threshold
ValidDefault(default) ==
    IF default < 0 THEN DEFAULT_BOUNDARY_FALLBACK_THRESHOLD ELSE default

\* boundary_fallback_threshold: a usable environment value wins over the default
EffectiveThreshold(raw, default) ==
    IF raw = NoValue THEN ValidDefault(default)
    ELSE IF raw < 0 THEN ValidDefault(default)
    ELSE raw

\* Every threshold a call can end up comparing against
Thresholds == {EffectiveThreshold(raw, default) :
                   raw \in EnvThresholds, default \in EmbeddedThresholds}
=============================================================================
