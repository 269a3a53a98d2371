-------------------------- MODULE MCNativeLowering --------------------------
(***************************************************************************)
(* Bodies with every way of giving a list a second name or holder, those   *)
(* that the analysis does not look at included.                            *)
(***************************************************************************)
EXTENDS NativeLowering

CONSTANTS f1, f2, n1

MCFlat == {f1, f2}
MCNested == {n1}
MCParams == {f1}
=============================================================================
