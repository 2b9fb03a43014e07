---------------------------- MODULE MCJobControl ----------------------------
(* TLC's instances of JobControl. *)
EXTENDS JobControl, TLC

CONSTANTS p1, p2

OnePid == {p1}
TwoPids == {p1, p2}
NoneStubborn == {}
FirstStubborn == {1}
Off == {FALSE}
On == {TRUE}
EitherMode == BOOLEAN

(* Pids are interchangeable; used in runs without liveness only. *)
PidSymmetry == Permutations({p1, p2})
=============================================================================
