------------------------- MODULE MCBoundaryFallback -------------------------
(***************************************************************************)
(* Instances of BoundaryFallback for TLC.                                  *)
(***************************************************************************)
EXTENDS BoundaryFallback

\* A default that is not valid and a disabled one
MCEmbeddedThresholds == {-1, 0}
MCEnvThresholds == {NoValue, 2}
MCNeverDisabled == {FALSE}
=============================================================================
