------------------------- MODULE VirusDetectorStages ------------------------
(***************************************************************************)
(* The virus detectors of VirusDetector and VirusDetectorWarmup: one of    *)
(* the four is started.                                                    *)
(***************************************************************************)
EXTENDS VirusDetectorWarmup

VARIABLE version    (* the program that runs *)

Versions == {"actual", "warmup2", "warmup", "task1"}

stagesVars == <<version, vars>>

StagesInit == Init /\ version \in Versions

StagesNext ==
  /\ UNCHANGED version
  /\ \/ version = "actual" /\ Next
     \/ version = "warmup2" /\ Warmup2Next
     \/ version = "warmup" /\ WarmupNext
     \/ version = "task1" /\ Task1Next

StagesSpec == StagesInit /\ [][StagesNext]_stagesVars

-----------------------------------------------------------------------------
(* Properties.                                                             *)

(* The earlier versions leave a file open. *)
ResourcesOfVersion == IF version = "actual" THEN ResourcesExact ELSE MemoryExact

Sigs(list) == [i \in DOMAIN list |-> list[i].sig]

(* A load replaces the list by all records of the file or by none, never   *)
(* by those before a failure; the first versions keep those.               *)
LoadsOfVersion ==
  [][pc = "load" /\ pc' = "menu" =>
       Sigs(vl') \in CASE version = "actual" -> {<<>>, Reverse(source.records)}
                       [] version = "warmup2" -> {<<>>, source.records}
                       [] version \in {"warmup", "task1"} ->
                              {SubSeq(source.records, 1, count)}]_stagesVars
=============================================================================
