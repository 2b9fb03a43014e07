----------------------------- MODULE MCPrograms ------------------------------
(* TLC's instance of the small programs: the looper of lab-5, the filters  *)
(* of labs 1 and 4, or the menu of lab-2 is run.                           *)
EXTENDS Looper, TextFilters, MenuMap

VARIABLE program

(* Lines of letters; the last printable character; a tab, a byte that is    *)
(* EOF as a char.                                                           *)
SomeTexts == {<<97, 10, 126>>, <<126, 97, 32>>, <<9, 255, 97>>}

(* No key; keys of one and two digits; one that is no digit. *)
SomeKeys == {<<>>, <<49>>, <<49, 51>>, <<65>>}

TwoNames == {"a", "b"}

(* q, the character that Censor changes, two at the ends of those that are  *)
(* encrypted.                                                               *)
SomeTyped == {113, 33, 32, 126}
SomeGarbage == {33, 126}
SomeNumbers == -1 .. 8

programVars == <<program, vars, filterVars, menuVars>>

(* Of the programs that are not run, one initial state. *)
ProgramsInit ==
  /\ program \in {"looper", "filter", "menu"}
  /\ Init
  /\ FilterInit
  /\ program # "filter" => dir["a"] = Absent /\ dir["b"] = Absent /\ dir[Stdin] = <<126, 97, 32>>
  /\ MenuInit
  /\ program # "menu" => menu_map = "warmup" /\ option = 0

ProgramsNext ==
  /\ UNCHANGED program
  /\ \/ program = "looper" /\ Next /\ UNCHANGED <<filterVars, menuVars>>
     \/ program = "filter" /\ FilterNext /\ UNCHANGED <<vars, menuVars>>
     \/ program = "menu" /\ MenuNext /\ UNCHANGED <<vars, filterVars>>

ProgramsSpec ==
  /\ ProgramsInit /\ [][ProgramsNext]_programVars
  /\ WF_vars(program = "looper" /\ ((\E s \in Sig : Deliver(s)) \/ Install \/ signal_printer))
=============================================================================
