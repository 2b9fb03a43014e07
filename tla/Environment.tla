----------------------------- MODULE Environment ----------------------------
(***************************************************************************)
(* What the variables of the lab-6 shells are for: a map from names to     *)
(* values.  A typed line either assigns, or hands words to a program or to *)
(* cd, with every variable among them replaced by its value in the map.    *)
(*                                                                         *)
(* Rounds tells of each shell how often a word is replaced: in the later   *)
(* one once wherever it stands, in the earlier one as often as the line    *)
(* has commands, and only in the first command, behind its name.  Setters  *)
(* are the builtins that assign, of which the first shell has none.        *)
(***************************************************************************)
EXTENDS LineParser

CONSTANTS
  Rounds,     (* shell, <<commands of the line, command, argument>> -> Nat *)
  Setters     (* shell -> {"set"} or {}                                    *)

VARIABLES
  shell,      (* which one was started                                     *)
  env,        (* the map                                                   *)
  typed,      (* the line that is being handled, <<>> between lines        *)
  done,       (* the words handed over, <<>> if none                       *)
  over        (* the shell has left                                        *)

envVars == <<shell, env, typed, done, over>>

Home == Plain("~")

Value(word) == IF word \in DOMAIN env THEN env[word] ELSE word

ReplacedTimes(word, n) ==
  LET value[k \in 0 .. n] == IF k = 0 THEN word ELSE Value(value[k - 1])
  IN value[n]

Words(line) ==
  LET chain == parseCmdLines(line)
  IN [k \in DOMAIN chain |->
        [i \in DOMAIN chain[k].arguments |->
           ReplacedTimes(chain[k].arguments[i], Rounds[shell][<<Len(chain), k, i>>])]]

(* The name of a builtin is looked for in what was typed. *)
IsAssignment(line) ==
  LET chain == parseCmdLines(line)
  IN /\ chain # <<>> /\ chain[1].arguments # <<>>
     /\ chain[1].arguments[1] \in {Plain(name) : name \in Setters[shell]}

EnvInit ==
  /\ DOMAIN env \subseteq {Home}
  /\ typed = <<>>
  /\ done = <<>>
  /\ ~over

Type ==
  /\ ~over
  /\ typed = <<>>
  /\ typed' # <<>>
  /\ UNCHANGED <<shell, env, done, over>>

(* The value of several words is what they are joined to. *)
Assign ==
  /\ IsAssignment(typed)
  /\ LET args == Words(typed)[1]
         name == Dollar(args[2])
     IN /\ Len(args) >= 3
        /\ env' = [w \in DOMAIN env \cup {name} |->
                     IF w = name THEN FlattenSeq(SubSeq(args, 3, Len(args))) ELSE env[w]]
  /\ UNCHANGED <<shell, typed, done, over>>

(* The words of all or of the first commands of the line. *)
Hand ==
  /\ ~IsAssignment(typed)
  /\ done = <<>>
  /\ \E n \in DOMAIN Words(typed) : done' = SubSeq(Words(typed), 1, n)
  /\ UNCHANGED <<shell, env, typed, over>>

Forget ==
  /\ typed' = <<>>
  /\ done' = <<>>
  /\ UNCHANGED <<shell, env, over>>

Leave ==
  /\ ~over /\ over'
  /\ typed' = <<>>
  /\ done' = <<>>
  /\ DOMAIN env' \subseteq {Home}
  /\ UNCHANGED shell

EnvNext == Type \/ Assign \/ Hand \/ Forget \/ Leave

EnvSpec == EnvInit /\ [][EnvNext]_envVars
=============================================================================
