----------------------------- MODULE LineParser -----------------------------
(***************************************************************************)
(* LineParser.c of labs 5 and 6: what parseCmdLines makes of a line.       *)
(*                                                                         *)
(* A line is a sequence of tokens.  A token is one of the four symbols or  *)
(* a word; blanks only separate tokens.  A word is what was joined from    *)
(* one or more atoms, an atom a text behind a number of dollar signs.      *)
(***************************************************************************)
EXTENDS Naturals, Sequences, SequencesExt

CONSTANT
  MAX_ARGUMENTS   (* MAX_ARGUMENTS of LineParser.h *)

ASSUME LineParserAssumption == MAX_ARGUMENTS \in Nat \ {0, 1}

Plain(text) == << <<0, text>> >>
Dollar(word) == [word EXCEPT ![1] = <<@[1] + 1, @[2]>>]
IsUserVar(word) == word[1][1] > 0
Undollar(word) == [word EXCEPT ![1] = <<@[1] - 1, @[2]>>]

Bar == Plain("|")
Ampersand == Plain("&")
Less == Plain("<")
Greater == Plain(">")

NoPath == <<>>      (* a redirection that is NULL *)

Before(s, i) == IF i = 0 THEN s ELSE SubSeq(s, 1, i - 1)

(* The word behind position i, NULL if a symbol or the end comes first. *)
cloneFirstWord(s, i) ==
  IF i < Len(s) /\ s[i + 1] \notin {Less, Greater} THEN s[i + 1] ELSE NoPath

(* A later redirection replaces an earlier one. *)
extractRedirections(s, symbol) ==
  LET i == SelectLastInSeq(s, LAMBDA t : t = symbol)
  IN IF i = 0 THEN NoPath ELSE cloneFirstWord(s, i)

(* The first redirection ends the string that strtok sees. *)
parseSingleCmdLine(s) ==
  LET words == Before(s, SelectInSeq(s, LAMBDA t : t \in {Less, Greater}))
  IN [arguments      |-> SubSeq(words, 1, IF Len(words) < MAX_ARGUMENTS
                                          THEN Len(words) ELSE MAX_ARGUMENTS - 1),
      inputRedirect  |-> extractRedirections(s, Less),
      outputRedirect |-> extractRedirections(s, Greater),
      blocking       |-> FALSE]

Parts(line) ==
  FoldLeft(LAMBDA parts, t : IF t = Bar THEN Append(parts, <<>>)
                             ELSE [parts EXCEPT ![Len(parts)] = Append(@, t)],
           << <<>> >>, line)

(* Mutant: an empty part is left out instead of ending the chain. *)
ChainSkipsEmpty(line) ==
  LET full == SelectSeq(Parts(line), LAMBDA part : part # <<>>)
  IN [k \in DOMAIN full |-> parseSingleCmdLine(full[k])]

(* Mutant: an empty part is a command without words. *)
ChainKeepsEmpty(line) ==
  LET parts == Parts(line)
  IN [k \in DOMAIN parts |-> parseSingleCmdLine(parts[k])]

(* _parseCmdLines: an empty part ends the chain, what follows it is lost. *)
Chain(line) ==
  LET parts == Parts(line)
      full == Before(parts, SelectInSeq(parts, LAMBDA part : part = <<>>))
  IN [k \in DOMAIN full |-> parseSingleCmdLine(full[k])]

(* <<>> is the NULL returned when there is nothing to parse. *)
parseCmdLines(line) ==
  LET ampersand == SelectInSeq(line, LAMBDA t : t = Ampersand)
      chain == Chain(Before(line, ampersand))
  IN [k \in DOMAIN chain |->
        [chain[k] EXCEPT !.blocking = k = Len(chain) /\ ampersand = 0]]

(* replaceCmdArg, for all arguments of all commands. *)
Replaced(chain, words) ==
  [k \in DOMAIN chain |-> [chain[k] EXCEPT !.arguments = words[k]]]

-----------------------------------------------------------------------------
(* What a line says, position by position, to compare the parser with.     *)

Symbol == {Bar, Ampersand, Less, Greater}

End(line) ==
  LET a == {i \in DOMAIN line : line[i] = Ampersand}
  IN IF a = {} THEN Len(line) + 1 ELSE Min(a)

(* The number of the command that position i belongs to. *)
CommandAt(line, i) == 1 + Cardinality({j \in 1 .. i - 1 : line[j] = Bar})

PositionsOf(line, k) ==
  {i \in 1 .. End(line) - 1 : line[i] # Bar /\ CommandAt(line, i) = k}

CommandCount(line) ==
  Cardinality({k \in 1 .. Len(line) :
                 \A j \in 1 .. k : PositionsOf(line, j) # {}})

ArgumentsAt(line, k) ==
  {i \in PositionsOf(line, k) :
     \A j \in PositionsOf(line, k) : j <= i => line[j] \notin Symbol}

PathOf(line, k, symbol) ==
  LET at == {i \in PositionsOf(line, k) : line[i] = symbol}
  IN IF at = {} THEN NoPath
     ELSE IF Max(at) + 1 \in PositionsOf(line, k) /\ line[Max(at) + 1] \notin Symbol
          THEN line[Max(at) + 1] ELSE NoPath

(* The chain says what the line says: as many commands as there are        *)
(* non-empty parts in front, their words in order up to the first          *)
(* redirection, the last redirection of each kind, and only the last       *)
(* command is waited for, if there is no ampersand.                        *)
SaysWhatTheLineSays(line, chain) ==
  /\ Len(chain) = CommandCount(line)
  /\ \A k \in DOMAIN chain :
       LET at == ArgumentsAt(line, k)
           args == chain[k].arguments
       IN
       /\ Len(args) = IF Cardinality(at) < MAX_ARGUMENTS THEN Cardinality(at)
                                                         ELSE MAX_ARGUMENTS - 1
       /\ \A i \in at : LET n == Cardinality({j \in at : j <= i})
                        IN n <= Len(args) => args[n] = line[i]
       /\ chain[k].inputRedirect = PathOf(line, k, Less)
       /\ chain[k].outputRedirect = PathOf(line, k, Greater)
       /\ chain[k].blocking <=> k = Len(chain) /\ End(line) > Len(line)
=============================================================================
