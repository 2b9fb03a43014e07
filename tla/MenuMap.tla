------------------------------- MODULE MenuMap -------------------------------
(***************************************************************************)
(* lab-2/actual/task3/menu_map.c and its warmup: the user picks a function *)
(* from a menu and the program maps it over an array of characters, into a *)
(* new one.  One of the functions reads the characters from the input that *)
(* the menu reads its options from; one of them may end the program.       *)
(*                                                                         *)
(* The input is chosen as it is read: a line for the menu, a character for *)
(* the map.                                                                *)
(***************************************************************************)
EXTENDS Integers, Sequences

CONSTANTS
  BaseLen,    (* length of the array (the code: 5)                         *)
  Typed,      (* characters the user types                                 *)
  Garbage,    (* what memory of malloc may hold                            *)
  Number      (* numbers the user types                                    *)

VARIABLES
  menu_map,   (* which of the two programs runs                            *)
  doing,      (* where it is                                               *)
  carray,     (* the array                                                 *)
  mapped,     (* the part of the new array that is written                 *)
  option,     (* what the user chose last                                  *)
  line,       (* what fgets and sscanf made of the last line               *)
  ended       (* the input has ended                                       *)

menuVars == <<menu_map, doing, carray, mapped, option, line, ended>>

Items == <<"Censor", "Encrypt", "Decrypt", "Print dec", "Print string", "Get string", "Quit">>
NullItem == Len(Items)    (* the entry that ends the array of the menu *)

(* What becomes of a line: nothing to read, no word, another word, a number. *)
Line == {"eof", "blank", "word", "number"}

MenuTypeOK ==
  /\ menu_map \in {"actual", "warmup"}
  /\ doing \in {"menu", "map", "left", "quit", "crashed"}
  /\ carray \in [1 .. BaseLen -> 0 .. 255]
  /\ mapped \in Seq(0 .. 255) /\ Len(mapped) < BaseLen
  /\ option \in Number \cup 0 .. NullItem
  /\ line \in Line
  /\ ended \in BOOLEAN

(* calloc in the warmup; malloc, and one character set, in the other. *)
MenuInit ==
  /\ menu_map \in {"actual", "warmup"}
  /\ doing = "menu"
  /\ carray \in {a \in [1 .. BaseLen -> Garbage \cup {0}] :
                   /\ a[1] = 0
                   /\ menu_map = "warmup" => \A i \in 1 .. BaseLen : a[i] = 0}
  /\ mapped = <<>>
  /\ option \in Number
  /\ line = "blank"
  /\ ended = FALSE

-----------------------------------------------------------------------------
(* The functions of the menu.                                              *)

Special == 32 .. 126
encdec(c, modifier) == IF c \in Special THEN c + modifier * 3 ELSE c
censor(c) == IF c = 33 THEN 46 ELSE c

(* dprt and cprt print the character and give it back, and so does quit   *)
(* unless it ends the program.                                             *)
Applied(c) ==
  CASE Items[option + 1] = "Censor" -> censor(c)
    [] Items[option + 1] = "Encrypt" -> encdec(c, 1)
    [] Items[option + 1] = "Decrypt" -> encdec(c, -1)
    [] OTHER -> c

Q == 113
EndOfFile == 255    (* EOF as a char *)

-----------------------------------------------------------------------------
(* The menu.                                                               *)

(* fgets: once the input has ended it stays so. *)
Reads(l) ==
  /\ doing = "menu"
  /\ ended => l = "eof"
  /\ line' = l /\ ended' = (l = "eof")

Choose(n, last) ==
  /\ option' = n
  /\ doing' = IF n \in 0 .. last THEN "map" ELSE "left"

(* Mutant: the bound of the warmup. *)
GetNumOffByOne ==
  /\ menu_map = "actual"
  /\ \/ \E l \in {"eof", "blank", "word"} : Reads(l) /\ UNCHANGED <<option, doing>>
     \/ Reads("number") /\ \E n \in Number : Choose(n, NullItem)
  /\ UNCHANGED <<menu_map, carray, mapped>>

(* get_num gives 0 for all but a number, and the menu is shown again. *)
GetNum ==
  /\ menu_map = "actual"
  /\ \/ \E l \in {"eof", "blank", "word"} : Reads(l) /\ UNCHANGED <<option, doing>>
     \/ Reads("number") /\ \E n \in Number : Choose(n, NullItem - 1)
  /\ UNCHANGED <<menu_map, carray, mapped>>

(* The warmup forgets that sscanf may find no number in a line: it uses    *)
(* the option as the stack has it, of the line before or anything.  And    *)
(* the entry that ends the menu counts as one of it.                       *)
ReadOption ==
  /\ menu_map = "warmup"
  /\ \/ \E l \in {"eof", "blank"} : Reads(l) /\ UNCHANGED <<option, doing>>
     \/ \E l \in {"word", "number"} : Reads(l) /\ \E n \in Number : Choose(n, NullItem)
  /\ UNCHANGED <<menu_map, carray, mapped>>

-----------------------------------------------------------------------------
(* map, one character at a time.                                           *)

Write(c) ==
  IF Len(mapped) + 1 = BaseLen
  THEN carray' = Append(mapped, c) /\ mapped' = <<>> /\ doing' = "menu"
  ELSE mapped' = Append(mapped, c) /\ UNCHANGED <<carray, doing>>

Current == carray[Len(mapped) + 1]

CallNull ==
  /\ option = NullItem
  /\ doing' = "crashed"
  /\ UNCHANGED <<carray, mapped, ended>>

(* fgetc, of the input that the menu reads. *)
GetChar ==
  /\ option # NullItem /\ Items[option + 1] = "Get string"
  /\ \/ ended' = TRUE /\ Write(EndOfFile)
     \/ ~ended /\ UNCHANGED ended /\ \E c \in Typed : Write(c)

Quits ==
  /\ option # NullItem /\ Items[option + 1] = "Quit" /\ Current = Q
  /\ doing' = "quit"
  /\ UNCHANGED <<carray, mapped, ended>>

Apply ==
  /\ option # NullItem /\ Items[option + 1] # "Get string"
  /\ Items[option + 1] = "Quit" => Current # Q
  /\ Write(Applied(Current))
  /\ UNCHANGED ended

map ==
  /\ doing = "map"
  /\ CallNull \/ GetChar \/ Quits \/ Apply
  /\ UNCHANGED <<menu_map, option, line>>

MenuNext == GetNum \/ ReadOption \/ map

MenuSpec == MenuInit /\ [][MenuNext]_menuVars

-----------------------------------------------------------------------------
(* Properties.                                                             *)

(* The program calls nothing but the functions of its menu; the warmup     *)
(* does unless it was given the number after the last one, or a line that  *)
(* is no number, of which it makes any.                                    *)
CallsOnlyTheMenu ==
  doing \in {"map", "crashed"} /\ option = NullItem =>
    menu_map = "warmup" /\ line \in {"number", "word"}

(* Decrypt undoes Encrypt on all characters but the last three printable   *)
(* ones, which Encrypt moves out of the range that Decrypt changes.        *)
DecryptUndoesEncrypt ==
  \A c \in 0 .. 255 : encdec(encdec(c, 1), -1) = c <=> c \notin 124 .. 126
=============================================================================
