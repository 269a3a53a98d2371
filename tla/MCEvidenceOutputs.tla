------------------------- MODULE MCEvidenceOutputs -------------------------
(* Two of the three outputs exist, one path is free.                       *)
EXTENDS EvidenceOutputs

MCExisting == {1, 2}
=============================================================================
