---------------------------- MODULE HexEditStages ----------------------------
(***************************************************************************)
(* The stages of lab-7 that led to the editors of HexEdit and              *)
(* HexEditWarmup, over their state:                                        *)
(*   task0    lab-7/warmup/task-0/hexeditplus.c, which only takes a file   *)
(*            name and a unit size;                                        *)
(*   task1c   lab-7/task-1c/task1.c, which loads and displays.             *)
(***************************************************************************)
EXTENDS HexEditWarmup

VARIABLE version    (* the program that runs *)

Versions == {"task0", "task1c", "actual", "warmup"}

Task0Settings ==
  \/ \E name \in FileName : SetFileName(name)
  \/ \E n \in UnitSize : SetUnitSize(n)

Task0Next == Task0Settings \/ Quit

Task1cSettings ==
  \/ \E name \in FileName : SetFileName(name)
  \/ \E n \in UnitSize : SetUnitSize(n)

Task1cLoad ==
  \/ \E r \in Request : r.action = "load" /\ Ask(r)
  \/ LoadFails \/ Load

Task1cDisplay ==
  \/ \E r \in Request : r.action = "display" /\ Ask(r)
  \/ Overflow
  \/ Display

Task1cNext == Task1cSettings \/ Task1cLoad \/ Task1cDisplay \/ Quit

stagesVars == <<version, vars>>

StagesInit == Init /\ version \in Versions

StagesNext ==
  /\ UNCHANGED version
  /\ \/ version = "task0" /\ Task0Next
     \/ version = "task1c" /\ Task1cNext
     \/ version = "actual" /\ Next
     \/ version = "warmup" /\ WarmupNext

StagesSpec == StagesInit /\ [][StagesNext]_stagesVars

(* The two editors differ in the size of a load that fits the buffer; the  *)
(* stages load as the later one.                                           *)
InRangeOfVersion ==
  IF version = "warmup" THEN WarmupDefinedInRange ELSE DefinedInRange

(* What displays and saves rely on, that no more is counted than the       *)
(* buffer holds, is broken by one kind of step only: a load whose size and *)
(* length multiply beyond a size_t, of which fread reads the few bytes     *)
(* that are left of the product and returns the whole length.  In the      *)
(* warmup nothing breaks it, since there the zero byte is then written far *)
(* outside the buffer.                                                     *)
CountOutgrowsOnlyByWrap ==
  [][mem_count' # mem_count /\ mem_count' > BufLen =>
       /\ version # "warmup"
       /\ req.action = "load" /\ SizeT(unit_size) * SizeT(req.count) >= Wrap]_stagesVars
=============================================================================
