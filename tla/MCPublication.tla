---------------------------- MODULE MCPublication ----------------------------
(***************************************************************************)
(* Two or three invocations of the publisher on one bundle name.           *)
(***************************************************************************)
EXTENDS Publication, TLC

Symmetry == Permutations(Call) \cup Permutations(Payload)

=============================================================================
