------------------------------ MODULE Variables -----------------------------
(***************************************************************************)
(* The front end of lab-6/actual/t4/task4.c: a line is parsed, its builtin *)
(* is looked up, the variables in it are replaced, the builtin or the      *)
(* program gets the words, and the parsed line is freed.                   *)
(***************************************************************************)
EXTENDS LineParser

CONSTANTS
  Typed,      (* the lines that may be typed                               *)
  Word,       (* the words that occur                                      *)
  MaxVars     (* bound: variables in the list                              *)

VARIABLES
  pc,         (* what the loop does next                                   *)
  typed,      (* the line being handled                                    *)
  chain,      (* pCmdLine                                                  *)
  predef_cmd, (* the builtin found                                         *)
  var_list,   (* the list of variables, newest first                       *)
  heap,       (* the blocks allocated for the list                         *)
  home,       (* the environment variable HOME, NoPath if there is none    *)
  done        (* the words handed over for this line                       *)

frontVars == <<pc, typed, chain, predef_cmd, var_list, heap, home, done>>

Builtin == {"quit", "cd", "set", "vars"}
Block == 1 .. 3 * (MaxVars + 1)
Node == [name : Word, value : Word, at : [name : Block, value : Block, link : Block]]

TypeOK ==
  /\ pc \in {"prompt", "expand", "handle", "free", "exited", "crashed"}
  /\ typed \in Typed \cup {<<>>}
  /\ \A k \in DOMAIN chain : \A i \in DOMAIN chain[k].arguments :
       chain[k].arguments[i] \in Word
  /\ predef_cmd \in Builtin \cup {"none"}
  /\ var_list \in Seq(Node)
  /\ heap \subseteq Block
  /\ home \in Word \cup {NoPath}

Init ==
  /\ pc = "prompt"
  /\ typed = <<>>
  /\ chain = <<>>
  /\ predef_cmd = "none"
  /\ var_list = <<>>
  /\ heap = {}
  /\ home \in {NoPath, Plain("h")}
  /\ done = <<>>

(* malloc; a mutant of freeing shows in the blocks that stay. *)
Fresh(h) == CHOOSE b \in Block \ h : \A c \in Block \ h : b <= c

-----------------------------------------------------------------------------
find_predefined_cmd(word) ==
  IF \E b \in Builtin : word = Plain(b)
  THEN CHOOSE b \in Builtin : word = Plain(b) ELSE "none"

(* A line that cannot be parsed is reported and changes nothing.  One with *)
(* redirections and no word has no command to look up: strcmp(NULL).       *)
ReadLine(line) ==
  /\ pc = "prompt"
  /\ parseCmdLines(line) # <<>>
  /\ typed' = line
  /\ chain' = parseCmdLines(line)
  /\ IF chain'[1].arguments = <<>>
     THEN pc' = "crashed" /\ UNCHANGED predef_cmd
     ELSE pc' = "expand" /\ predef_cmd' = find_predefined_cmd(chain'[1].arguments[1])
  /\ UNCHANGED <<var_list, heap, home, done>>

EndOfInput ==
  /\ pc = "prompt"
  /\ pc' = "exited"
  /\ var_list' = <<>>
  /\ heap' = heap \ UNION {{v.at.name, v.at.value, v.at.link} : v \in ToSet(var_list)}
  /\ UNCHANGED <<typed, chain, predef_cmd, home, done>>

find_var_by_name(name) == SelectInSeq(var_list, LAMBDA v : v.name = name)

expand_cmd_arg(arg) ==
  IF arg = Plain("~")
  THEN IF home = NoPath THEN arg ELSE home
  ELSE LET i == IF IsUserVar(arg) THEN find_var_by_name(Undollar(arg)) ELSE 0
       IN IF i = 0 THEN arg ELSE var_list[i].value

ExpandedWords ==
  [k \in DOMAIN chain |->
     [i \in DOMAIN chain[k].arguments |-> expand_cmd_arg(chain[k].arguments[i])]]

(* Mutant: the builtin is looked up in the expanded line. *)
ExpandBeforeLookup ==
  /\ pc = "expand"
  /\ chain' = Replaced(chain, ExpandedWords)
  /\ predef_cmd' = find_predefined_cmd(chain'[1].arguments[1])
  /\ pc' = "handle"
  /\ UNCHANGED <<typed, var_list, heap, home, done>>

(* Every argument of every command, once. *)
Expand ==
  /\ pc = "expand"
  /\ chain' = Replaced(chain, ExpandedWords)
  /\ pc' = "handle"
  /\ UNCHANGED <<typed, predef_cmd, var_list, heap, home, done>>

-----------------------------------------------------------------------------
arguments == chain[1].arguments

Handles(cmd) ==
  /\ pc = "handle"
  /\ predef_cmd = cmd
  /\ pc' = "free"
  /\ UNCHANGED <<typed, chain, predef_cmd, home>>

(* set_var of a variable that is in the list. *)
ReplaceValue(i, value) ==
  LET clone == Fresh(heap)
  IN /\ var_list' = [var_list EXCEPT ![i].value = value, ![i].at.value = clone]
     /\ heap' = (heap \cup {clone}) \ {var_list[i].at.value}

(* set_var of a new variable: it goes to the front. *)
AddVar(name, value) ==
  LET b1 == Fresh(heap)
      b2 == Fresh(heap \cup {b1})
      b3 == Fresh(heap \cup {b1, b2})
  IN /\ Len(var_list) < MaxVars
     /\ var_list' = <<[name |-> name, value |-> value,
                       at |-> [value |-> b1, name |-> b2, link |-> b3]]>> \o var_list
     /\ heap' = heap \cup {b1, b2, b3}

SetVar ==
  /\ Handles("set")
  /\ IF Len(arguments) = 3
     THEN LET i == find_var_by_name(arguments[2])
          IN IF i # 0 THEN ReplaceValue(i, arguments[3])
                      ELSE AddVar(arguments[2], arguments[3])
     ELSE UNCHANGED <<var_list, heap>>
  /\ UNCHANGED done

(* Handed over are the words for chdir, or for the programs of execute. *)
ChangeDirectory ==
  /\ Handles("cd")
  /\ done' = IF Len(arguments) = 2 THEN [k \in DOMAIN chain |-> chain[k].arguments]
                                   ELSE <<>>
  /\ UNCHANGED <<var_list, heap>>

PrintVars ==
  /\ Handles("vars")
  /\ UNCHANGED <<var_list, heap, done>>

(* More than one pipe is refused. *)
Execute ==
  /\ Handles("none")
  /\ done' = IF Len(chain) <= 2 THEN [k \in DOMAIN chain |-> chain[k].arguments]
                                ELSE <<>>
  /\ UNCHANGED <<var_list, heap>>

FreeCmdLines ==
  /\ pc = "free" \/ (pc = "handle" /\ predef_cmd = "quit")
  /\ typed' = <<>>
  /\ chain' = <<>>
  /\ done' = <<>>
  /\ predef_cmd' = "none"
  /\ IF predef_cmd = "quit"
     THEN /\ pc' = "exited"
          /\ var_list' = <<>>
          /\ heap' = heap \ UNION {{v.at.name, v.at.value, v.at.link} : v \in ToSet(var_list)}
     ELSE pc' = "prompt" /\ UNCHANGED <<var_list, heap>>
  /\ UNCHANGED home

-----------------------------------------------------------------------------
FrontNext ==
  \/ \E line \in Typed : ReadLine(line)
  \/ EndOfInput
  \/ Expand
  \/ SetVar \/ ChangeDirectory \/ PrintVars \/ Execute
  \/ FreeCmdLines

FrontSpec == Init /\ [][FrontNext]_frontVars

-----------------------------------------------------------------------------
(* Properties.                                                             *)

(* The list as a map, see Environment; HOME is the value of ~. *)
EnvOf ==
  LET names == {Dollar(v.name) : v \in ToSet(var_list)}
      tilde == IF home = NoPath THEN {} ELSE {Plain("~")}
  IN [w \in names \cup tilde |->
        IF w = Plain("~") THEN home ELSE var_list[find_var_by_name(Undollar(w))].value]

(* What is allocated is what the list points to, each block once: nothing  *)
(* is leaked and nothing in the list has been freed.                       *)
BlocksOf(v) == {v.at.name, v.at.value, v.at.link}
HeapExact ==
  /\ heap = UNION {BlocksOf(v) : v \in ToSet(var_list)}
  /\ Cardinality(heap) = 3 * Len(var_list)

(* The loop handles a line as the parser's specification reads it. *)
ParserAgrees ==
  pc = "expand" => SaysWhatTheLineSays(typed, chain)
=============================================================================
