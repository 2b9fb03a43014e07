------------------------------- MODULE ElfTool -------------------------------
(***************************************************************************)
(* The ELF reader of lab-8/actual/task-3/task3.c: a file is opened, mapped *)
(* and its header examined; the section names, symbols and relocations of  *)
(* the mapped file are printed on request.                                 *)
(*                                                                         *)
(* A pointer is <<address of a mapping, what it points to there>>: a       *)
(* section's contents by its number, START or HEADERS.  The kernel gives   *)
(* addresses and descriptors out again once they are free.  The text that  *)
(* is printed is left out, what is read to find it is not; offsets in the  *)
(* file are taken to be right, section numbers and entry sizes are not.    *)
(***************************************************************************)
EXTENDS Naturals, FiniteSets

CONSTANTS
  File,       (* the files that can be named, see FileType                 *)
  MaxSection  (* bound: sections of a file                                 *)

Index == 0 .. MaxSection + 1        (* a section number found in a file    *)
UNDEF == 0
ABS == MaxSection + 1               (* not a section of any file           *)

Section == [type : {"symtab", "rel", "other"}, link : Index,
            entsize : {0, 1}, symbols : SUBSET Index]

(* Sections are numbered from 0; format "short" is fewer bytes than a      *)
(* header has.                                                             *)
FileType == [format : {"empty", "short", "other", "elf64", "elf32"},
             e_shstrndx : Index,
             e_shnum : 0 .. MaxSection + 1,
             section : [0 .. MaxSection -> Section]]

ASSUME ElfToolAssumption ==
  /\ MaxSection \in Nat
  /\ File \subseteq FileType
  /\ \A f \in File : f.format \in {"empty", "short"} => f.e_shstrndx = UNDEF

Fd == {3, 4}                        (* 0, 1 and 2 are the terminal         *)
Addr == {1, 2}
NULL == <<0, 0>>
START == MaxSection + 2             (* the header, at offset 0             *)
HEADERS == MaxSection + 3           (* the table at e_shoff                *)

VARIABLES
  pc,                     (* the menu, a step of examine_elf_file, or over *)
  file,                   (* the file named last                           *)
  Currentfd,              (* INVALID_FILE is 0 here                        *)
  map_start, elf_header, section_headers_table, section_names_string_table,
  sections_count,         (* INVALID_LEN is 0 here: no section is visited  *)
  open, mapped            (* the kernel: open descriptors, mapped addresses*)

toolVars == <<Currentfd, map_start, elf_header, section_headers_table,
              section_names_string_table, sections_count>>
vars == <<pc, file, toolVars, open, mapped>>

Pointer == (Addr \X (0 .. HEADERS)) \cup {NULL}

TypeOK ==
  /\ pc \in {"menu", "open", "fstat", "mmap", "check", "quit", "crash"}
  /\ file \in File
  /\ Currentfd \in Fd \cup {0}
  /\ {map_start, elf_header, section_headers_table, section_names_string_table}
       \subseteq Pointer
  /\ sections_count \in 0 .. MaxSection + 1
  /\ open \subseteq Fd
  /\ mapped \subseteq Addr

Init ==
  /\ pc = "menu"
  /\ file \in File
  /\ Currentfd = 0
  /\ map_start = NULL
  /\ elf_header = NULL
  /\ section_headers_table = NULL
  /\ section_names_string_table = NULL
  /\ sections_count = 0
  /\ open = {}
  /\ mapped = {}

is_mapped == Currentfd > 0

(* Mutant: what the last file's names were found at is kept. *)
reset_map_values_keeps_names ==
  /\ map_start' = NULL
  /\ Currentfd' = 0
  /\ elf_header' = NULL
  /\ section_headers_table' = NULL
  /\ sections_count' = 0
  /\ UNCHANGED section_names_string_table

reset_map_values ==
  /\ map_start' = NULL
  /\ Currentfd' = 0
  /\ elf_header' = NULL
  /\ section_headers_table' = NULL
  /\ sections_count' = 0
  /\ section_names_string_table' = NULL

(* Mutant: the descriptor is closed only together with a mapping. *)
free_map_resources_together ==
  /\ mapped' = mapped \ {map_start[1]}
  /\ open' = IF map_start = NULL THEN open ELSE open \ {Currentfd}

free_map_resources ==
  /\ mapped' = mapped \ {map_start[1]}
  /\ open' = open \ {Currentfd}

cleanup == free_map_resources /\ reset_map_values

-----------------------------------------------------------------------------
(* examine_elf_file. *)

Name(f) ==
  /\ pc = "menu"
  /\ file' = f
  /\ cleanup
  /\ pc' = "open"

OpenFails ==
  /\ pc = "open"
  /\ cleanup
  /\ pc' = "menu"
  /\ UNCHANGED file

Open ==
  /\ pc = "open"
  /\ Currentfd' = CHOOSE d \in Fd \ open : \A e \in Fd \ open : d <= e
  /\ open' = open \cup {Currentfd'}
  /\ pc' = "fstat"
  /\ UNCHANGED <<file, map_start, elf_header, section_headers_table,
                 section_names_string_table, sections_count, mapped>>

(* fstat or mmap fails, as mmap does for an empty file. *)
MapFails ==
  /\ pc \in {"fstat", "mmap"}
  /\ cleanup
  /\ pc' = "menu"
  /\ UNCHANGED file

Stat ==
  /\ pc = "fstat"
  /\ pc' = "mmap"
  /\ UNCHANGED <<file, toolVars, open, mapped>>

Map ==
  /\ pc = "mmap"
  /\ file.format # "empty"
  /\ \E a \in Addr \ mapped :
       /\ map_start' = <<a, START>>
       /\ mapped' = mapped \cup {a}
  /\ elf_header' = map_start'
  /\ pc' = "check"
  /\ UNCHANGED <<file, Currentfd, section_headers_table,
                 section_names_string_table, sections_count, open>>

(* elf_check_header; a file it refuses stays mapped. *)
Check ==
  /\ pc = "check"
  /\ IF file.format = "elf32"
     THEN /\ section_headers_table' = <<map_start[1], HEADERS>>
          /\ sections_count' = file.e_shnum
     ELSE UNCHANGED <<section_headers_table, sections_count>>
  /\ pc' = "menu"
  /\ UNCHANGED <<file, Currentfd, map_start, elf_header,
                 section_names_string_table, open, mapped>>

-----------------------------------------------------------------------------
(* The printing actions.  A read through NULL or an unmapped address and a *)
(* division by an entry size of 0 end the program (Faults); what the read  *)
(* of a header that the file does not have gives is anything, and may end  *)
(* it too (Strays).                                                        *)

CanRead(pointer) == pointer[1] \in mapped
InTable(i) == i < file.e_shnum

Visited == {file.section[i] : i \in {j \in 0 .. MaxSection : j < sections_count}}

elf_get_section_header(i) == file.section[i]

(* elf_find_section_names_string_table, then the printing itself. *)
PrintWith(Faults, Strays) ==
  /\ pc = "menu"
  /\ is_mapped
  /\ section_names_string_table # NULL \/ file.e_shstrndx # UNDEF
  /\ section_names_string_table' =
       IF section_names_string_table # NULL \/ ~CanRead(section_headers_table)
       THEN section_names_string_table
       ELSE <<map_start[1], file.e_shstrndx>>
  /\ pc' \in CASE ~CanRead(section_names_string_table') -> {"crash"}
              [] Faults -> {"crash"}
              [] Strays \/ ~InTable(section_names_string_table'[2]) -> {"crash", "menu"}
              [] OTHER -> {"menu"}
  /\ UNCHANGED <<file, Currentfd, map_start, elf_header, section_headers_table,
                 sections_count, open, mapped>>

(* Every section's name is printed. *)
PrintSectionNames == PrintWith(sections_count > 0 /\ ~CanRead(section_headers_table), FALSE)

(* Mutant: symbol tables without names are not skipped. *)
SymbolTablesAll == {s \in Visited : s.type = "symtab"}

SymbolTables == {s \in Visited : s.type = "symtab" /\ s.link # UNDEF}

PrintSymbols ==
  PrintWith(\E s \in SymbolTables : s.entsize = 0,
        \E s \in SymbolTables :
          ~InTable(s.link) \/ \E i \in s.symbols \ {UNDEF, ABS} : ~InTable(i))

Relocations == {s \in Visited : s.type = "rel" /\ s.link # UNDEF}

(* Relocations whose symbol table is without names are skipped. *)
RelocationTables ==
  LET named == {s \in Relocations :
                  InTable(s.link) => elf_get_section_header(s.link).link # UNDEF}
  IN PrintWith(\E s \in named : InTable(s.link) /\ s.entsize = 0,
           \E s \in named : ~InTable(s.link)
                               \/ ~InTable(elf_get_section_header(s.link).link))

Quit ==
  /\ pc = "menu"
  /\ cleanup
  /\ pc' = "quit"
  /\ UNCHANGED file

-----------------------------------------------------------------------------
Next ==
  \/ \E f \in File : Name(f)
  \/ OpenFails \/ Open \/ MapFails \/ Stat \/ Map \/ Check
  \/ PrintSectionNames \/ PrintSymbols \/ RelocationTables
  \/ Quit

Spec == Init /\ [][Next]_vars

-----------------------------------------------------------------------------
(* Properties.                                                             *)

(* The kernel holds exactly what the tool still knows of, after failures   *)
(* too, and nothing once it is over.                                       *)
ResourcesExact ==
  /\ open = {Currentfd} \ {0}
  /\ mapped = {map_start[1]} \ {0}
  /\ pc = "quit" => open = {} /\ mapped = {}

(* Every table the tool remembers is of the file that is mapped now, also  *)
(* when its address is that of an earlier file.                            *)
TablesAreCurrent ==
  /\ elf_header \in {NULL, map_start}
  /\ section_headers_table \in {NULL, <<map_start[1], HEADERS>>}
  /\ section_names_string_table \in {NULL, <<map_start[1], file.e_shstrndx>>}
  /\ sections_count \in {0, file.e_shnum}

(* A file every section number of which is one of its sections, whose      *)
(* tables have entries of some size and whose relocations are of a symbol  *)
(* table.  Nothing is said of its class: an ELF64 file can be one.         *)
SectionsRight(f) ==
  LET sections == {f.section[i] : i \in {j \in 0 .. MaxSection : j < f.e_shnum}}
      names(s) == s.type \in {"symtab", "rel"} /\ s.link # UNDEF
  IN /\ f.e_shstrndx < f.e_shnum
     /\ \A s \in sections : names(s) =>
          /\ s.entsize # 0
          /\ s.link < f.e_shnum
          /\ s.type = "rel" => f.section[s.link].type = "symtab"
          /\ \A i \in s.symbols : i = ABS \/ i < f.e_shnum

(* A crash has one of two causes.  The file is one that elf_check_header   *)
(* accepts, and its sections are not right.  Or it was refused, however    *)
(* right it is (an ELF64 file), and yet stays mapped, so that is_mapped    *)
(* lets it be printed: the read goes through the table that was never set. *)
CrashHasCause ==
  pc = "crash" =>
    IF file.format = "elf32" THEN ~SectionsRight(file)
    ELSE is_mapped /\ section_headers_table = NULL /\ file.e_shstrndx # UNDEF
=============================================================================
