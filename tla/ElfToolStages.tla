---------------------------- MODULE ElfToolStages ----------------------------
(***************************************************************************)
(* The earlier stages of the ELF reader: lab-8/actual/task-1 and task-2,   *)
(* lab-8/warmup/task-3 and, without any tables, lab-8/warmup/task-0.  Each *)
(* is a menu of its own over the actions of ElfTool; stage says which      *)
(* program it is that was started.                                         *)
(***************************************************************************)
EXTENDS ElfTool

VARIABLE stage

Stages == {"task1", "task2", "task3", "warmup0", "warmup3"}

StagesInit == Init /\ stage \in Stages

Task1Examine == (\E f \in File : Name(f)) \/ OpenFails \/ Open \/ MapFails \/ Stat \/ Map \/ Check
Task1Print == PrintSectionNames
Task1Menu == Task1Examine \/ Task1Print \/ Quit

Task2Examine == (\E f \in File : Name(f)) \/ OpenFails \/ Open \/ MapFails \/ Stat \/ Map \/ Check
Task2Print == PrintSectionNames \/ PrintSymbols
Task2Menu == Task2Examine \/ Task2Print \/ Quit

-----------------------------------------------------------------------------
(* lab-8/warmup/task-3/myELF.c. *)

Warmup3Examine == (\E f \in File : Name(f)) \/ OpenFails \/ Open \/ MapFails \/ Stat \/ Map \/ Check
Warmup3Print == PrintSectionNames \/ PrintSymbols

(* Relocations of a symbol table without names are not skipped here: their *)
(* names are looked for from section 0.                                    *)
relocation_table ==
  PrintWith(\E s \in Relocations : InTable(s.link) /\ s.entsize = 0,
        \E s \in Relocations : ~InTable(s.link)
                                 \/ ~InTable(elf_get_section_header(s.link).link))

Warmup3Menu == Warmup3Examine \/ Warmup3Print \/ relocation_table \/ Quit

-----------------------------------------------------------------------------
(* lab-8/warmup/task-0/myELF.c: the header is printed and nothing kept.    *)

Warmup0Check ==
  /\ pc = "check"
  /\ pc' = "menu"
  /\ UNCHANGED <<file, toolVars, open, mapped>>

Warmup0Examine == (\E f \in File : Name(f)) \/ OpenFails \/ Open \/ MapFails \/ Stat \/ Map
Warmup0Menu == Warmup0Examine \/ Warmup0Check \/ Quit

StagesNext ==
  /\ UNCHANGED stage
  /\ \/ stage = "task3" /\ Next
     \/ stage = "task2" /\ Task2Menu
     \/ stage = "task1" /\ Task1Menu
     \/ stage = "warmup3" /\ Warmup3Menu
     \/ stage = "warmup0" /\ Warmup0Menu

StagesSpec == StagesInit /\ [][StagesNext]_<<vars, stage>>
=============================================================================
