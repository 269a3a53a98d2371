----------------------------- MODULE MCDispatch -----------------------------
(***************************************************************************)
(* Instances of Dispatch for TLC: one ordinary and one plugin-routed       *)
(* function, each making at most one boundary call.                        *)
(***************************************************************************)
EXTENDS Dispatch, TLC

CONSTANTS plain, routed

MCFunctions == {plain, routed}
MCBoundaryCalls == [f \in MCFunctions |-> 1]
MCPluginRouted == {routed}
MCRawModes == {NoValue, "native", "fallback", "typo"}
MCUnset == {NoValue}
MCSymmetry == Permutations(Calls)
=============================================================================
