------------------------- MODULE MCSubprocessBridge -------------------------
(***************************************************************************)
(* The bounds are numbers and sets of strings, all given in the configs.   *)
(***************************************************************************)
EXTENDS SubprocessBridge

All == {"returns", "raises", "exits", "exits_huge", "dies", "reads"}
=============================================================================
