-------------------------- MODULE VariablesWarmup ---------------------------
(***************************************************************************)
(* The front end of the earlier shell, lab-6/warmup/t4/task4.c.  Against   *)
(* Variables:                                                              *)
(*   - the list starts with a node for ~ that lives on the stack of main,  *)
(*     nodes are named with their dollar sign and new ones go to the tail; *)
(*   - the value of set is all further words, joined by blanks;            *)
(*   - the first command is expanded once for each command of the line,    *)
(*     from its second word on, and the other commands never;              *)
(*   - set with too few words returns no value: the loop goes on or ends.  *)
(***************************************************************************)
EXTENDS LineParser

CONSTANTS
  Typed,      (* the lines that may be typed                               *)
  Word,       (* the words that occur                                      *)
  MaxVars,    (* bound: variables in the list                              *)
  MaxAtoms    (* bound: words joined to one value                          *)

VARIABLES
  pc, typed, chain, predef_cmd, var_list, heap, home, done,   (* see Variables *)
  pass        (* commands of the line that were expanded                   *)

frontVars == <<pc, typed, chain, predef_cmd, var_list, heap, home, done, pass>>

Builtin == {"quit", "cd", "set", "vars"}
Block == 1 .. 3 * (MaxVars + 1)
NotAllocated == [name |-> 0, value |-> 0, link |-> 0]
Node == [expand_name : Word, value : Word \cup {NoPath}, shouldFree : BOOLEAN,
         at : [name : Block, value : Block, link : Block] \cup {NotAllocated}]

TypeOK ==
  /\ pc \in {"prompt", "expand", "handle", "free", "freeandquit",
             "exited", "crashed"}
  /\ typed \in Typed \cup {<<>>}
  /\ \A k \in DOMAIN chain : \A i \in DOMAIN chain[k].arguments :
       chain[k].arguments[i] \in Word
  /\ predef_cmd \in Builtin \cup {"none"}
  /\ var_list \in Seq(Node)
  /\ heap \subseteq Block
  /\ home \in Word \cup {NoPath}
  /\ pass \in 0 .. Len(chain)

Init ==
  /\ pc = "prompt"
  /\ typed = <<>>
  /\ chain = <<>>
  /\ predef_cmd = "none"
  /\ home \in {NoPath, Plain("h")}
  /\ var_list = <<[expand_name |-> Plain("~"), value |-> home, shouldFree |-> FALSE,
                   at |-> NotAllocated]>>
  /\ heap = {}
  /\ done = <<>>
  /\ pass = 0

Fresh(h) == CHOOSE b \in Block \ h : \A c \in Block \ h : b <= c

find_predefined_cmd(word) ==
  IF \E b \in Builtin : word = Plain(b)
  THEN CHOOSE b \in Builtin : word = Plain(b) ELSE "none"

-----------------------------------------------------------------------------
ReadLine(line) ==
  /\ pc = "prompt"
  /\ parseCmdLines(line) # <<>>
  /\ typed' = line
  /\ chain' = parseCmdLines(line)
  /\ IF chain'[1].arguments = <<>>
     THEN pc' = "crashed" /\ UNCHANGED predef_cmd
     ELSE pc' = "expand" /\ predef_cmd' = find_predefined_cmd(chain'[1].arguments[1])
  /\ pass' = 0
  /\ UNCHANGED <<var_list, heap, home, done>>

(* free_var_list: what shouldFree says. *)
Freed == UNION {{v.at.name, v.at.value, v.at.link} :
                  v \in {w \in ToSet(var_list) : w.shouldFree}}

EndOfInput ==
  /\ pc = "prompt"
  /\ pc' = "exited"
  /\ var_list' = <<>>
  /\ heap' = heap \ Freed
  /\ UNCHANGED <<typed, chain, predef_cmd, home, done, pass>>

address_of_var(expand_name) ==
  SelectInSeq(var_list, LAMBDA v : v.expand_name = expand_name)

(* One call of expand_variables, for one command of the line but always on *)
(* the first; a value that is NULL cannot be cloned.                       *)
ExpandVariables ==
  /\ pc = "expand"
  /\ pass < Len(chain)
  /\ LET args == chain[1].arguments
         found(i) == i > 1 /\ address_of_var(args[i]) # 0
         value(i) == var_list[address_of_var(args[i])].value
     IN IF \E i \in DOMAIN args : found(i) /\ value(i) = NoPath
        THEN pc' = "crashed" /\ UNCHANGED chain
        ELSE /\ chain' = [chain EXCEPT ![1].arguments =
                             [i \in DOMAIN args |-> IF found(i) THEN value(i) ELSE args[i]]]
             /\ pc' = IF pass + 1 = Len(chain) THEN "handle" ELSE "expand"
  /\ pass' = pass + 1
  /\ UNCHANGED <<typed, predef_cmd, var_list, heap, home, done>>

-----------------------------------------------------------------------------
arguments == chain[1].arguments

Handles(cmd) ==
  /\ pc = "handle"
  /\ predef_cmd = cmd
  /\ UNCHANGED <<typed, chain, predef_cmd, home, pass>>

(* The name and the joined value are allocated first. *)
Allocated ==
  LET name == Fresh(heap)
      value == Fresh(heap \cup {name})
  IN [name |-> name, value |-> value, link |-> Fresh(heap \cup {name, value})]

(* Mutant: the name made for the search is kept. *)
ReplaceValueKeepsName(i, value) ==
  /\ var_list' = [var_list EXCEPT ![i].value = value, ![i].at.value = Allocated.value]
  /\ heap' = (heap \cup {Allocated.name, Allocated.value}) \ {var_list[i].at.value}

ReplaceValue(i, value) ==
  /\ var_list' = [var_list EXCEPT ![i].value = value, ![i].at.value = Allocated.value]
  /\ heap' = (heap \cup {Allocated.value}) \ {var_list[i].at.value}

AddVar(name, value) ==
  /\ Len(var_list) <= MaxVars
  /\ var_list' = Append(var_list, [expand_name |-> name, value |-> value,
                                   shouldFree |-> TRUE, at |-> Allocated])
  /\ heap' = heap \cup {Allocated.name, Allocated.value, Allocated.link}

SetVar ==
  /\ Handles("set")
  /\ Len(arguments) >= 3
  /\ LET name == Dollar(arguments[2])
         value == FlattenSeq(SubSeq(arguments, 3, Len(arguments)))
         i == address_of_var(name)
     IN /\ Len(value) <= MaxAtoms
        /\ IF i # 0 THEN ReplaceValue(i, value) ELSE AddVar(name, value)
  /\ pc' = "free"
  /\ UNCHANGED done

(* Flows off without a value: free, then the loop goes on or ends. *)
SetTooFew ==
  /\ Handles("set")
  /\ Len(arguments) < 3
  /\ pc' \in {"free", "freeandquit"}
  /\ UNCHANGED <<var_list, heap, done>>

ChangeDirectory ==
  /\ Handles("cd")
  /\ pc' = "free"
  /\ done' = IF Len(arguments) = 2 THEN [k \in DOMAIN chain |-> chain[k].arguments]
                                   ELSE <<>>
  /\ UNCHANGED <<var_list, heap>>

PrintVars ==
  /\ Handles("vars")
  /\ pc' = "free"
  /\ UNCHANGED <<var_list, heap, done>>

(* More than one pipe is refused. *)
Execute ==
  /\ Handles("none")
  /\ pc' = "free"
  /\ done' = IF Len(chain) <= 2 THEN [k \in DOMAIN chain |-> chain[k].arguments]
                                ELSE <<>>
  /\ UNCHANGED <<var_list, heap>>

QuitCommand ==
  /\ Handles("quit")
  /\ pc' = "freeandquit"
  /\ UNCHANGED <<var_list, heap, done>>

FreeCmdLines ==
  /\ pc \in {"free", "freeandquit"}
  /\ typed' = <<>>
  /\ chain' = <<>>
  /\ done' = <<>>
  /\ predef_cmd' = "none"
  /\ pass' = 0
  /\ IF pc = "freeandquit"
     THEN pc' = "exited" /\ var_list' = <<>> /\ heap' = heap \ Freed
     ELSE pc' = "prompt" /\ UNCHANGED <<var_list, heap>>
  /\ UNCHANGED home

-----------------------------------------------------------------------------
FrontNext ==
  \/ \E line \in Typed : ReadLine(line)
  \/ EndOfInput
  \/ ExpandVariables
  \/ SetVar \/ SetTooFew \/ ChangeDirectory \/ PrintVars \/ Execute \/ QuitCommand
  \/ FreeCmdLines

-----------------------------------------------------------------------------
EnvOf ==
  LET set == {v \in ToSet(var_list) : v.value # NoPath}
  IN [w \in {v.expand_name : v \in set} |-> var_list[address_of_var(w)].value]

(* See Variables; nothing of the node on the stack is ever freed. *)
HeapExact ==
  LET own == {v \in ToSet(var_list) : v.shouldFree}
  IN /\ heap = UNION {{v.at.name, v.at.value, v.at.link} : v \in own}
     /\ Cardinality(heap) = 3 * Cardinality(own)
     /\ \A v \in ToSet(var_list) \ own : v.at = NotAllocated /\ v.value = home

ParserAgrees ==
  pc = "expand" /\ pass = 0 => SaysWhatTheLineSays(typed, chain)
=============================================================================
