------------------------------ MODULE MCHexEdit -----------------------------
(* TLC's instance of the hex editors: one of them is started. *)
EXTENDS HexEditStages

Bits == {0, 1}
Numbers == {-1, 0, 1, 2, 5, 17, 31}
UnitSizes == {1, 2, 4, -2}
=============================================================================
