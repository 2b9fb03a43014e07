---------------------------- MODULE MCOldShells -----------------------------
(* TLC's instance of the earlier shells of lab-5. *)
EXTENDS OldShells, TLC

CONSTANTS p1, p2

TwoPids == {p1, p2}
FirstStubborn == {1}
EitherMode == BOOLEAN
PidSymmetry == Permutations(TwoPids)
=============================================================================
