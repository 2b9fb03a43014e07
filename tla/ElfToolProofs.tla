---------------------------- MODULE ElfToolProofs ---------------------------
(***************************************************************************)
(* Proofs about every stage of the ELF reader, for every set of files and  *)
(* every number of sections.                                               *)
(***************************************************************************)
EXTENDS ElfToolStages, TLAPS

(* Nothing is known of a file before it is mapped, and in the menu a file  *)
(* that has a descriptor was mapped and, if it is one of 32 bits, examined *)
(* by every stage that has tables.  Of a file that is refused no table is  *)
(* ever known.                                                             *)
Forgotten ==
  /\ map_start = NULL
  /\ elf_header = NULL
  /\ section_headers_table = NULL
  /\ section_names_string_table = NULL
  /\ sections_count = 0

Examined ==
  file.format = "elf32" =>
    /\ section_headers_table = <<map_start[1], HEADERS>>
    /\ sections_count = file.e_shnum

Control ==
  /\ pc = "open" => Currentfd = 0
  /\ pc \in {"open", "fstat", "mmap"} => Forgotten
  /\ pc = "check" => map_start # NULL /\ sections_count = 0
  /\ pc = "menu" /\ Currentfd # 0 => map_start # NULL
  /\ file.format # "elf32" =>
       section_headers_table = NULL /\ section_names_string_table = NULL

IInv == TypeOK /\ ResourcesExact /\ TablesAreCurrent /\ Control

Seen == pc = "menu" /\ Currentfd # 0 => Examined

StagesIInv == IInv /\ (stage # "warmup0" => Seen)

-----------------------------------------------------------------------------
(* A pointer is NULL or at an address, and its parts are what it is. *)
LEMMA PointerParts ==
  /\ NULL[1] = 0
  /\ \A p \in Pointer : p # NULL => p[1] \in Addr
  /\ \A a \in Addr, i \in 0 .. HEADERS :
       /\ <<a, i>> \in Pointer /\ <<a, i>>[1] = a /\ <<a, i>>[2] = i
       /\ <<a, i>> # NULL
  BY DEF Pointer, NULL, Addr

(* The section numbers and the two tables are places of a mapping. *)
LEMMA Places == START \in 0 .. HEADERS /\ HEADERS \in 0 .. HEADERS /\ Index \subseteq 0 .. HEADERS
  BY ElfToolAssumption DEF START, HEADERS, Index

(* Giving up the file leaves nothing allocated and nothing remembered. *)
LEMMA CleanupClears ==
  ASSUME TypeOK, ResourcesExact, cleanup
  PROVE  /\ Forgotten' /\ Currentfd' = 0 /\ open' = {} /\ mapped' = {}
         /\ ResourcesExact'
  BY PointerParts
     DEF TypeOK, ResourcesExact, cleanup, free_map_resources, reset_map_values, Forgotten, Fd

(* What an action that gives up the file leaves of the invariant. *)
LEMMA CleanupPreserves ==
  ASSUME TypeOK, ResourcesExact, cleanup, file' \in File,
         pc' \in {"open", "menu", "quit"}
  PROVE  IInv'
  <1>1. Forgotten' /\ Currentfd' = 0 /\ open' = {} /\ mapped' = {} /\ ResourcesExact'
    BY CleanupClears
  <1>2. TypeOK'
    BY <1>1, ElfToolAssumption DEF TypeOK, Forgotten, Pointer
  <1>3. TablesAreCurrent'
    BY <1>1 DEF TablesAreCurrent, Forgotten
  <1>4. Control'
    BY <1>1 DEF Control, Forgotten
  <1>5. QED
    BY <1>1, <1>2, <1>3, <1>4 DEF IInv

(* The descriptor that is opened is the least one that is not in use. *)
LEMMA OpenChooses ==
  ASSUME open = {}
  PROVE  (CHOOSE d \in Fd \ open : \A e \in Fd \ open : d <= e) \in Fd
  <1>1. 3 \in Fd \ open /\ \A e \in Fd \ open : 3 <= e
    BY DEF Fd
  <1>2. QED
    BY <1>1

(* A file that is refused has no table, and what looks for one goes        *)
(* through NULL.                                                           *)
LEMMA RefusedReads ==
  ASSUME IInv, file.format # "elf32"
  PROVE  section_headers_table = NULL /\ section_names_string_table = NULL
         /\ ~CanRead(section_headers_table)
  BY PointerParts DEF IInv, Control, TypeOK, CanRead, Addr

(* A printing action changes what is remembered of the names only, to the  *)
(* table that the header names.                                            *)
LEMMA PrintPreserves ==
  ASSUME IInv, pc = "menu", is_mapped, pc' \in {"menu", "crash"},
         section_names_string_table' =
           IF section_names_string_table # NULL \/ ~CanRead(section_headers_table)
           THEN section_names_string_table
           ELSE <<map_start[1], file.e_shstrndx>>,
         UNCHANGED <<file, Currentfd, map_start, elf_header, section_headers_table,
                     sections_count, open, mapped>>
  PROVE  IInv'
  <1>1. file.e_shstrndx \in 0 .. HEADERS
    BY Places, ElfToolAssumption DEF IInv, TypeOK, FileType
  <1>2. map_start # NULL /\ map_start[1] \in Addr
    BY PointerParts DEF IInv, TypeOK, Control, is_mapped
  <1>3. TypeOK'
    BY <1>1, <1>2, PointerParts DEF IInv, TypeOK
  <1>4. ResourcesExact' /\ TablesAreCurrent'
    BY DEF IInv, ResourcesExact, TablesAreCurrent
  <1>5. Control'
    <2>1. file.format # "elf32" =>
            section_headers_table' = NULL /\ section_names_string_table' = NULL
      BY RefusedReads
    <2>2. QED
      BY <2>1 DEF IInv, Control
  <1>6. QED
    BY <1>3, <1>4, <1>5 DEF IInv

-----------------------------------------------------------------------------
LEMMA InitIInv == Init => IInv /\ Seen
  BY ElfToolAssumption, PointerParts
     DEF Init, IInv, TypeOK, ResourcesExact, TablesAreCurrent, Control, Pointer, Seen

(* The steps of the stages that have tables, and of all the stages. *)
TableStep == Next \/ relocation_table \/ UNCHANGED vars
AnyStep == TableStep \/ Warmup0Check

LEMMA StepIInv == IInv /\ AnyStep => IInv'
  <1> SUFFICES ASSUME IInv, AnyStep PROVE IInv'
    OBVIOUS
  <1>1. CASE \E f \in File : Name(f)
    BY <1>1, CleanupPreserves DEF Name, IInv
  <1>2. CASE OpenFails \/ MapFails \/ Quit
    BY <1>2, CleanupPreserves DEF OpenFails, MapFails, Quit, IInv, TypeOK
  <1>3. CASE Open
    <2>1. open = {} /\ mapped = {} /\ Forgotten /\ Currentfd' \in Fd
      BY <1>3, OpenChooses, PointerParts DEF Open, IInv, Control, Forgotten, ResourcesExact
    <2>2. TypeOK'
      BY <1>3, <2>1 DEF Open, IInv, TypeOK
    <2>3. ResourcesExact'
      BY <1>3, <2>1, PointerParts DEF Open, IInv, ResourcesExact, Fd, Forgotten
    <2>4. TablesAreCurrent' /\ Control'
      BY <1>3, <2>1 DEF Open, IInv, TablesAreCurrent, Control, Forgotten
    <2>5. QED
      BY <2>2, <2>3, <2>4 DEF IInv
  <1>4. CASE Stat
    BY <1>4 DEF Stat, toolVars, IInv, TypeOK, ResourcesExact, TablesAreCurrent, Control, Forgotten
  <1>5. CASE Map
    <2>1. PICK a \in Addr \ mapped : map_start' = <<a, START>> /\ mapped' = mapped \cup {a}
      BY <1>5 DEF Map
    <2>2. map_start' \in Pointer /\ map_start' # NULL /\ map_start'[1] = a
      BY <2>1, Places, PointerParts
    <2>3. mapped = {} /\ Forgotten
      BY <1>5, PointerParts DEF Map, IInv, Control, Forgotten, ResourcesExact
    <2>4. TypeOK' /\ ResourcesExact'
      BY <1>5, <2>1, <2>2, <2>3 DEF Map, IInv, TypeOK, ResourcesExact, Addr
    <2>5. TablesAreCurrent' /\ Control'
      BY <1>5, <2>2, <2>3 DEF Map, IInv, TablesAreCurrent, Control, Forgotten
    <2>6. QED
      BY <2>4, <2>5 DEF IInv
  <1>6. CASE Check
    <2>1. map_start # NULL /\ map_start[1] \in Addr
      BY <1>6, PointerParts DEF Check, IInv, Control, TypeOK
    <2>2. file.e_shnum \in 0 .. MaxSection + 1 /\ <<map_start[1], HEADERS>> \in Pointer
      BY <2>1, Places, PointerParts, ElfToolAssumption DEF IInv, TypeOK, FileType
    <2>3. TypeOK' /\ ResourcesExact'
      BY <1>6, <2>2 DEF Check, IInv, TypeOK, ResourcesExact
    <2>4. TablesAreCurrent' /\ Control'
      BY <1>6, <2>1 DEF Check, IInv, TablesAreCurrent, Control
    <2>5. QED
      BY <2>3, <2>4 DEF IInv
  <1>7. CASE PrintSectionNames
    BY <1>7, PrintPreserves DEF PrintSectionNames, PrintWith
  <1>8. CASE PrintSymbols
    BY <1>8, PrintPreserves DEF PrintSymbols, PrintWith
  <1>9. CASE RelocationTables
    BY <1>9, PrintPreserves DEF RelocationTables, PrintWith
  <1>10. CASE relocation_table
    BY <1>10, PrintPreserves DEF relocation_table, PrintWith
  <1>11. CASE Warmup0Check
    BY <1>11 DEF Warmup0Check, toolVars, IInv, TypeOK, ResourcesExact, TablesAreCurrent, Control, Forgotten
  <1>12. CASE UNCHANGED vars
    BY <1>12 DEF vars, toolVars, IInv, TypeOK, ResourcesExact, TablesAreCurrent, Control, Forgotten
  <1>13. QED
    BY <1>1, <1>2, <1>3, <1>4, <1>5, <1>6, <1>7, <1>8, <1>9, <1>10, <1>11, <1>12 DEF AnyStep, TableStep, Next

(* Where Warmup0Check is not an action, a 32 bit file is examined before   *)
(* the menu is reached with it.                                            *)
LEMMA StepSeen == IInv /\ Seen /\ TableStep => Seen'
  <1> SUFFICES ASSUME IInv, Seen, TableStep PROVE Seen'
    OBVIOUS
  <1>1. CASE (\E f \in File : Name(f)) \/ OpenFails \/ MapFails \/ Quit
    BY <1>1, CleanupClears DEF Name, OpenFails, MapFails, Quit, IInv, Seen
  <1>2. CASE Open \/ Stat \/ Map
    BY <1>2 DEF Open, Stat, Map, Seen
  <1>3. CASE Check
    BY <1>3 DEF Check, Seen, Examined
  <1>4. CASE PrintSectionNames \/ PrintSymbols \/ RelocationTables \/ relocation_table
    BY <1>4 DEF PrintSectionNames, PrintSymbols, RelocationTables, relocation_table, PrintWith, Seen, Examined
  <1>5. CASE UNCHANGED vars
    BY <1>5 DEF vars, toolVars, Seen, Examined
  <1>6. QED
    BY <1>1, <1>2, <1>3, <1>4, <1>5 DEF TableStep, Next

(* A stage's step is one of the actions: the stage without tables prints   *)
(* none and is the only one that does not look at them.                    *)
LEMMA StageSteps ==
  ASSUME [StagesNext]_<<vars, stage>>
  PROVE  /\ UNCHANGED stage
         /\ stage # "warmup0" => TableStep
         /\ stage = "warmup0" => Warmup0Menu \/ UNCHANGED vars
         /\ AnyStep
  <1>1. CASE UNCHANGED <<vars, stage>>
    BY <1>1 DEF TableStep, AnyStep
  <1>2. CASE stage = "task3" /\ Next /\ UNCHANGED stage
    BY <1>2 DEF TableStep, AnyStep
  <1>3. CASE stage = "task2" /\ Task2Menu /\ UNCHANGED stage
    BY <1>3 DEF TableStep, AnyStep, Next, Task2Menu, Task2Examine, Task2Print
  <1>4. CASE stage = "task1" /\ Task1Menu /\ UNCHANGED stage
    BY <1>4 DEF TableStep, AnyStep, Next, Task1Menu, Task1Examine, Task1Print
  <1>5. CASE stage = "warmup3" /\ Warmup3Menu /\ UNCHANGED stage
    BY <1>5 DEF TableStep, AnyStep, Next, Warmup3Menu, Warmup3Examine, Warmup3Print
  <1>6. CASE stage = "warmup0" /\ Warmup0Menu /\ UNCHANGED stage
    BY <1>6 DEF TableStep, AnyStep, Next, Warmup0Menu, Warmup0Examine
  <1>7. QED
    BY <1>1, <1>2, <1>3, <1>4, <1>5, <1>6 DEF StagesNext

THEOREM Invariance == StagesSpec => []StagesIInv
  <1>1. StagesInit => StagesIInv
    BY InitIInv DEF StagesInit, StagesIInv
  <1>2. ASSUME StagesIInv, [StagesNext]_<<vars, stage>> PROVE StagesIInv'
    <2>1. UNCHANGED stage /\ AnyStep /\ (stage # "warmup0" => TableStep)
      BY <1>2, StageSteps
    <2>2. IInv'
      BY <1>2, <2>1, StepIInv DEF StagesIInv
    <2>3. stage # "warmup0" => Seen'
      BY <1>2, <2>1, StepSeen DEF StagesIInv
    <2>4. QED
      BY <2>1, <2>2, <2>3 DEF StagesIInv
  <1>3. QED
    BY <1>1, <1>2, PTL DEF StagesSpec

(* Type correctness of the ELF reader and of what the kernel holds for it. *)
THEOREM ElfTypeCorrect == StagesSpec => []TypeOK
  <1>1. StagesIInv => TypeOK
    BY DEF StagesIInv, IInv
  <1>2. QED
    BY <1>1, Invariance, PTL

(* After any failure the kernel holds exactly the descriptor and the       *)
(* mapping that cleanup would give back.                                   *)
THEOREM NothingLeaks == StagesSpec => []ResourcesExact
  <1>1. StagesIInv => ResourcesExact
    BY DEF StagesIInv, IInv
  <1>2. QED
    BY <1>1, Invariance, PTL

(* No table of an earlier file is ever used for the file that is mapped,   *)
(* though it may be mapped at the same address.                            *)
THEOREM TablesStayCurrent == StagesSpec => []TablesAreCurrent
  <1>1. StagesIInv => TablesAreCurrent
    BY DEF StagesIInv, IInv
  <1>2. QED
    BY <1>1, Invariance, PTL
-----------------------------------------------------------------------------
(* What an examined file whose sections are right lets the printing        *)
(* actions meet: its headers can be read, its names are one of its         *)
(* sections, and the tables of symbols and relocations lead to sections.   *)
LEMMA RightSectionsReads ==
  ASSUME IInv, Seen, pc = "menu", is_mapped, file.format = "elf32",
         SectionsRight(file),
         section_names_string_table' =
           IF section_names_string_table # NULL \/ ~CanRead(section_headers_table)
           THEN section_names_string_table
           ELSE <<map_start[1], file.e_shstrndx>>,
         UNCHANGED mapped
  PROVE  /\ CanRead(section_headers_table)
         /\ CanRead(section_names_string_table')
         /\ InTable(section_names_string_table'[2])
  <1>1. map_start # NULL /\ map_start[1] \in Addr /\ map_start[1] \in mapped
    BY PointerParts DEF IInv, TypeOK, Control, is_mapped, ResourcesExact, Addr
  <1>2. file.e_shstrndx \in 0 .. HEADERS /\ HEADERS \in 0 .. HEADERS
    BY Places, ElfToolAssumption DEF IInv, TypeOK, FileType
  <1>3. section_headers_table = <<map_start[1], HEADERS>>
    BY DEF Seen, IInv, Examined, is_mapped, TypeOK, Fd
  <1>4. CanRead(section_headers_table)
    BY <1>1, <1>2, <1>3, PointerParts DEF CanRead
  <1>5. section_names_string_table' = <<map_start[1], file.e_shstrndx>>
    BY <1>4 DEF IInv, TablesAreCurrent
  <1>6. QED
    BY <1>1, <1>2, <1>4, <1>5, PointerParts DEF CanRead, InTable, SectionsRight

LEMMA RightSectionsTables ==
  ASSUME IInv, Seen, pc = "menu", is_mapped, file.format = "elf32",
         SectionsRight(file)
  PROVE  /\ \A s \in SymbolTables :
              /\ s.entsize # 0 /\ InTable(s.link)
              /\ \A i \in s.symbols \ {UNDEF, ABS} : InTable(i)
         /\ \A s \in Relocations :
              LET t == elf_get_section_header(s.link)
              IN s.entsize # 0 /\ InTable(s.link) /\ InTable(t.link)
  <1>1. sections_count = file.e_shnum
    BY DEF Seen, IInv, Examined, is_mapped, TypeOK, Fd
  <1>2. file.e_shnum \in 0 .. MaxSection + 1
        /\ file.section \in [0 .. MaxSection -> Section]
    BY ElfToolAssumption DEF IInv, TypeOK, FileType
  <1>3. ASSUME NEW s \in Visited, s.type \in {"symtab", "rel"}, s.link # UNDEF
        PROVE  /\ s.entsize # 0 /\ s.link < file.e_shnum
               /\ s.type = "rel" => file.section[s.link].type = "symtab"
               /\ \A i \in s.symbols : i = ABS \/ i < file.e_shnum
    BY <1>1, <1>3 DEF Visited, SectionsRight
  <1>4. ASSUME NEW s \in SymbolTables
        PROVE  /\ s.entsize # 0 /\ InTable(s.link)
               /\ \A i \in s.symbols \ {UNDEF, ABS} : InTable(i)
    BY <1>3, <1>4 DEF SymbolTables, InTable
  <1>5. ASSUME NEW s \in Relocations
        PROVE  /\ s.entsize # 0 /\ InTable(s.link)
               /\ InTable(elf_get_section_header(s.link).link)
    <2>1. s \in Visited /\ s.type = "rel" /\ s.link # UNDEF
      BY <1>5 DEF Relocations
    <2>2. s \in Section
      BY <2>1, <1>2 DEF Visited
    <2>3. s.link \in 0 .. MaxSection /\ s.link < file.e_shnum /\ s.entsize # 0
          /\ file.section[s.link].type = "symtab"
      BY <2>1, <2>2, <1>2, <1>3, ElfToolAssumption DEF Section, Index
    <2>4. file.section[s.link] \in Visited
      BY <2>3, <1>1 DEF Visited
    <2>5. file.section[s.link].link # UNDEF => file.section[s.link].link < file.e_shnum
      BY <2>3, <2>4, <1>3
    <2>6. UNDEF < file.e_shnum
      BY <2>3, <1>2, ElfToolAssumption DEF UNDEF
    <2>7. QED
      BY <2>3, <2>5, <2>6 DEF InTable, elf_get_section_header
  <1>6. QED
    BY <1>4, <1>5

(* Whatever is examined and printed, and whichever calls of open, fstat    *)
(* and mmap fail: a file that is accepted crashes the tool only if its     *)
(* section numbers are not right, and one that is refused only through the *)
(* table it does not have.                                                 *)
THEOREM CrashesHaveCauses == StagesSpec => []CrashHasCause
  <1>1. StagesInit => CrashHasCause
    BY DEF StagesInit, Init, CrashHasCause
  <1>2. ASSUME StagesIInv, CrashHasCause, [StagesNext]_<<vars, stage>>
        PROVE  CrashHasCause'
    <2> DEFINE Printing == PrintSectionNames \/ PrintSymbols \/ RelocationTables \/ relocation_table
    <2>1. CASE pc = "crash"
      <3>1. UNCHANGED <<pc, file, Currentfd, section_headers_table>>
        BY <1>2, <2>1, StageSteps DEF AnyStep, TableStep, Next, Name, OpenFails, Open, MapFails, Stat,
           Map, Check, PrintSectionNames, PrintSymbols, RelocationTables, relocation_table, PrintWith,
           Quit, vars, toolVars, Warmup0Check
      <3>2. QED
        BY <1>2, <3>1 DEF CrashHasCause, SectionsRight, is_mapped
    <2>2. CASE pc # "crash" /\ pc' = "crash"
      <3>1. Printing /\ stage # "warmup0"
        BY <1>2, <2>2, StageSteps DEF TableStep, Next, Name, OpenFails, Open, MapFails, Stat, Map,
           Check, Quit, vars, Warmup0Check, Warmup0Menu, Warmup0Examine
      <3>2. /\ pc = "menu" /\ is_mapped
            /\ section_names_string_table # NULL \/ file.e_shstrndx # UNDEF
            /\ UNCHANGED <<file, Currentfd, section_headers_table, mapped>>
            /\ section_names_string_table' =
                 IF section_names_string_table # NULL \/ ~CanRead(section_headers_table)
                 THEN section_names_string_table
                 ELSE <<map_start[1], file.e_shstrndx>>
        BY <3>1 DEF PrintSectionNames, PrintSymbols, RelocationTables, relocation_table, PrintWith
      <3>3. IInv /\ Seen
        BY <1>2, <3>1 DEF StagesIInv
      <3>4. CASE file.format # "elf32"
        <4>1. section_headers_table = NULL /\ section_names_string_table = NULL
          BY <3>3, <3>4, RefusedReads
        <4>2. QED
          BY <3>2, <3>4, <4>1 DEF CrashHasCause, is_mapped
      <3>5. CASE file.format = "elf32" /\ ~SectionsRight(file)
        BY <3>2, <3>5 DEF CrashHasCause, SectionsRight
      <3>6. CASE file.format = "elf32" /\ SectionsRight(file)
        <4>1. /\ CanRead(section_headers_table)
              /\ CanRead(section_names_string_table')
              /\ InTable(section_names_string_table'[2])
          BY <3>2, <3>3, <3>6, RightSectionsReads
        <4>2. CASE PrintSectionNames
          BY <2>2, <4>1, <4>2 DEF PrintSectionNames, PrintWith
        <4>3. CASE PrintSymbols
          BY <2>2, <3>2, <3>3, <3>6, <4>1, <4>3, RightSectionsTables DEF PrintSymbols, PrintWith
        <4>4. CASE RelocationTables
          BY <2>2, <3>2, <3>3, <3>6, <4>1, <4>4, RightSectionsTables DEF RelocationTables, PrintWith
        <4>5. CASE relocation_table
          BY <2>2, <3>2, <3>3, <3>6, <4>1, <4>5, RightSectionsTables DEF relocation_table, PrintWith
        <4>6. QED
          BY <3>1, <4>2, <4>3, <4>4, <4>5
      <3>7. QED
        BY <3>4, <3>5, <3>6
    <2>3. QED
      BY <2>1, <2>2 DEF CrashHasCause
  <1>3. QED
    BY <1>1, <1>2, Invariance, PTL DEF StagesSpec
=============================================================================
