--------------------------- MODULE MCVirusDetector --------------------------
(* TLC's instance of the virus detectors. *)
EXTENDS VirusDetectorStages

Bits == {0, 1}
SomeSigs == {<<>>, <<1>>, <<0, 1>>}
SmallNumbers == -1 .. 2
=============================================================================
