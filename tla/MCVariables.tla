---------------------------- MODULE MCVariables -----------------------------
(* TLC's instance of the front ends of the five lab-6 shells: one of them  *)
(* is started.                                                             *)
EXTENDS VariablesStages, TLC

CONSTANT MaxLen     (* bound: tokens of the lines for the parser *)

a == Plain("a")
h == Plain("h")
x == Plain("x")
tilde == Plain("~")
refx == Dollar(x)

(* Lines for the parser, lines that use and set variables, and builtins.   *)
ParserLines ==
  UNION {[1 .. n -> {a, Bar, Greater, Less, Ampersand}] : n \in 1 .. MaxLen}
ProgramLines ==
  {<<refx>>, <<refx, a, a>>, <<a, refx>>, <<a, tilde>>, <<a, refx, Bar, a>>, <<a, refx, Bar, refx>>,
   <<a, Bar, refx, Bar, tilde>>}
SetLines ==
  {<<>>, <<x>>, <<x, a>>, <<x, refx>>, <<x, tilde>>, <<x, Plain("set")>>, <<refx, a>>, <<refx, refx>>,
   <<x, refx, a>>, <<x, a, refx, a>>, <<x, refx, Bar, refx>>}
BuiltinLines == { <<>>, <<refx>>, <<Bar, refx>> }

SomeTyped ==
  ParserLines \cup ProgramLines
    \cup {<<Plain("set")>> \o line : line \in SetLines}
    \cup {<<Plain(b)>> \o line : b \in {"cd", "vars", "quit"}, line \in BuiltinLines}

Atom == {w[1] : w \in {a, h, x, tilde, refx, Plain("set")}}
Joined == UNION {[1 .. n -> Atom] : n \in 1 .. MaxAtoms}
SomeWord ==
  Joined \cup {Dollar(w) : w \in Joined}
         \cup {Plain(t) : t \in {"cd", "vars", "quit"}}

SomeCount == 1 .. 5

(* Bound: the lines for the parser, which sees no variable, are typed      *)
(* before any variable is set.                                             *)
Next ==
  /\ StagesNext
  /\ typed' \in ParserLines \ ProgramLines => heap = {}

Spec == StagesInit /\ [][Next]_stageVars
=============================================================================
