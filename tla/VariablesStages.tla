--------------------------- MODULE VariablesStages --------------------------
(***************************************************************************)
(* The front ends of the five shells of lab-6: the two final ones and the  *)
(* stages that led to them.                                                *)
(*   actual, warmup   Variables and VariablesWarmup;                       *)
(*   task1            quit and cd only, nothing is replaced;               *)
(*   task2            as actual, but a line is its first command;          *)
(*   warmup2          as warmup, but a line is its first command, which is *)
(*                    expanded once, and every builtin returns a value.    *)
(***************************************************************************)
EXTENDS LineParser

CONSTANTS
  Typed, Word, MaxVars, MaxAtoms,   (* see VariablesWarmup                 *)
  Count       (* bound: commands of a line, and their arguments            *)

(* What a word is; the lines that may be typed consist of them.  The two   *)
(* texts are strings, which no prover knows of any text by itself.         *)
Text == STRING \cup {"h", "~"}
AnyWord == Seq(Nat \X Text) \ {<<>>}

ASSUME VariablesAssumption ==
  /\ Typed \subseteq Seq(AnyWord)
  /\ MaxVars \in Nat
  /\ \A line \in Typed : 1 .. Len(line) \subseteq Count

VARIABLES version, pc, typed, chain, predef_cmd, var_list, heap, home, done, pass

stageVars == <<version, pc, typed, chain, predef_cmd, var_list, heap, home, done, pass>>

Actual == INSTANCE Variables
Warmup == INSTANCE VariablesWarmup

(* Of a line with a pipe the first command is executed. *)
FirstCommand == <<chain[1].arguments>>

-----------------------------------------------------------------------------
(* t1/task1.c. *)
Task1Builtin(word) ==
  IF word \in {Plain("quit"), Plain("cd")}
  THEN Actual!find_predefined_cmd(word) ELSE "none"

Task1Read(line) ==
  /\ pc = "prompt"
  /\ parseCmdLines(line) # <<>>
  /\ typed' = line
  /\ chain' = parseCmdLines(line)
  /\ IF chain'[1].arguments = <<>>
     THEN pc' = "crashed" /\ UNCHANGED predef_cmd
     ELSE pc' = "handle" /\ predef_cmd' = Task1Builtin(chain'[1].arguments[1])
  /\ UNCHANGED <<var_list, heap, home, done>>

Task1Execute ==
  /\ Actual!Handles("none")
  /\ done' = FirstCommand
  /\ UNCHANGED <<var_list, heap>>

Task1Handle == Actual!ChangeDirectory \/ Task1Execute

Task1 ==
  \/ \E line \in Typed : Task1Read(line)
  \/ Actual!EndOfInput
  \/ Task1Handle
  \/ Actual!FreeCmdLines

-----------------------------------------------------------------------------
(* actual/t2/task2.c. *)
Task2Expand == Actual!Expand
Task2SetVar == Actual!SetVar

Task2Execute ==
  /\ Actual!Handles("none")
  /\ done' = FirstCommand
  /\ UNCHANGED <<var_list, heap>>

Task2Builtins == Task2SetVar \/ Actual!ChangeDirectory \/ Actual!PrintVars
Task2Free == Actual!FreeCmdLines \/ Actual!EndOfInput

Task2 ==
  \/ \E line \in Typed : Actual!ReadLine(line)
  \/ Task2Expand
  \/ Task2Builtins \/ Task2Execute
  \/ Task2Free

-----------------------------------------------------------------------------
(* warmup/t2/task2.c. *)
Warmup2Expand ==
  /\ pc = "expand"
  /\ LET args == chain[1].arguments
         found(i) == i > 1 /\ Warmup!address_of_var(args[i]) # 0
         value(i) == var_list[Warmup!address_of_var(args[i])].value
     IN IF \E i \in DOMAIN args : found(i) /\ value(i) = NoPath
        THEN pc' = "crashed" /\ UNCHANGED chain
        ELSE /\ chain' = [chain EXCEPT ![1].arguments =
                             [i \in DOMAIN args |-> IF found(i) THEN value(i) ELSE args[i]]]
             /\ pc' = "handle"
  /\ UNCHANGED <<typed, predef_cmd, var_list, heap, home, done, pass>>

Warmup2SetVar ==
  \/ Warmup!SetVar
  \/ Warmup!SetTooFew /\ pc' = "free"

Warmup2Execute ==
  /\ Warmup!Handles("none")
  /\ pc' = "free"
  /\ done' = FirstCommand
  /\ UNCHANGED <<var_list, heap>>

Warmup2Builtins ==
  Warmup2SetVar \/ Warmup!ChangeDirectory \/ Warmup!PrintVars \/ Warmup!QuitCommand
Warmup2Free == Warmup!FreeCmdLines \/ Warmup!EndOfInput

Warmup2 ==
  \/ \E line \in Typed : Warmup!ReadLine(line)
  \/ Warmup2Expand
  \/ Warmup2Builtins \/ Warmup2Execute
  \/ Warmup2Free

-----------------------------------------------------------------------------
OfActual == version \in {"actual", "task1", "task2"}

StagesInit ==
  \/ version \in {"actual", "task1", "task2"} /\ Actual!Init /\ pass = 0
  \/ version \in {"warmup", "warmup2"} /\ Warmup!Init

StagesNext ==
  \/ version = "actual" /\ Actual!FrontNext /\ UNCHANGED <<version, pass>>
  \/ version = "task1" /\ Task1 /\ UNCHANGED <<version, pass>>
  \/ version = "task2" /\ Task2 /\ UNCHANGED <<version, pass>>
  \/ version = "warmup" /\ Warmup!FrontNext /\ UNCHANGED version
  \/ version = "warmup2" /\ Warmup2 /\ UNCHANGED version

StagesSpec == StagesInit /\ [][StagesNext]_stageVars

-----------------------------------------------------------------------------
(* Every variable of the front end that runs has its type. *)
TypeOK == IF OfActual THEN Actual!TypeOK ELSE Warmup!TypeOK

(* The loop handles a line as its tokens read, position by position. *)
ParserAgrees ==
  IF OfActual THEN Actual!ParserAgrees ELSE Warmup!ParserAgrees

(* The blocks allocated are those of the list: no leak, nothing dangling,  *)
(* also when a variable is set again and after the list was freed.         *)
HeapExact == IF OfActual THEN Actual!HeapExact ELSE Warmup!HeapExact

(* The only lines that end the shell by a NULL pointer are those that      *)
(* begin with a redirection, and in the earlier shell those with ~ when    *)
(* there is no HOME.                                                       *)
DiesOnlyOfRedirections ==
  pc = "crashed" =>
    \/ typed[1] \in {Less, Greater}
    \/ ~OfActual /\ home = NoPath /\ Plain("~") \in ToSet(typed)

-----------------------------------------------------------------------------
(* The lists implement the map of Environment.                             *)

Shell == {"actual", "task1", "task2", "warmup", "warmup2"}
Position == Count \X Count \X Count

(* How often each shell replaces a word: of the i-th argument of the k-th  *)
(* of n commands.                                                          *)
Rounds ==
  [v \in Shell |->
     [t \in Position |->
        CASE v \in {"actual", "task2"} -> 1
          [] v = "task1" -> 0
          [] v = "warmup" -> IF t[2] = 1 /\ t[3] > 1 THEN t[1] ELSE 0
          [] v = "warmup2" -> IF t[2] = 1 /\ t[3] > 1 THEN 1 ELSE 0]]

Setters == [v \in Shell |-> IF v = "task1" THEN {} ELSE {"set"}]

EnvOf == IF OfActual THEN Actual!EnvOf ELSE Warmup!EnvOf

Env == INSTANCE Environment WITH shell <- version, env <- EnvOf, over <- pc = "exited"

(* What a program, cd or set gets are the words of the line with the       *)
(* values set last, replaced as often as this shell replaces them, and     *)
(* only set changes a value.                                               *)
ImplementsEnvironment == Env!EnvSpec
=============================================================================
