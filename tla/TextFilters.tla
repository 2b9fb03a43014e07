----------------------------- MODULE TextFilters -----------------------------
(***************************************************************************)
(* The programs of lab-1 and lab-4 that copy a stream and change it: the   *)
(* encoders (lab-1/actual/encoder.c, in three copies, and the stages 1d    *)
(* and 2 of the warmup) and the filters without a C library (task1b.c of   *)
(* lab-4).  One is run after the other on the same files.                  *)
(*                                                                         *)
(* An option acts when its turn comes, so the shell is asked for the       *)
(* options one by one.  Standard input and output are two files, the ones  *)
(* used when no option names another.  What -D prints is left out, and so  *)
(* are messages, which some of the programs print on their standard output:*)
(* failed says that there was one.                                         *)
(***************************************************************************)
EXTENDS Integers, Sequences

CONSTANTS
  File,       (* names that -i and -o may give                             *)
  Text,       (* what a file may hold at first: sequences of bytes         *)
  Key,        (* what may follow +e and -e: sequences of bytes             *)
  Absent,     (* there is no such file                                     *)
  Directory,  (* there is a directory of that name                         *)
  None,       (* no run with +e wrote the file                             *)
  MaxRuns     (* bound: programs run                                       *)

Nowhere == "nowhere"    (* what a failed open leaves where a stream was *)

ASSUME TextFiltersAssumption ==
  /\ Nowhere \notin File
  /\ Text \subseteq Seq(0 .. 255) /\ Key \subseteq Seq(0 .. 255)
  /\ Absent \notin Seq(0 .. 255) /\ Directory \notin Seq(0 .. 255)

VARIABLES
  dir,        (* the files                                                 *)
  version,    (* the program that runs, or ran last                        *)
  at,         (* where it is                                               *)
  fin, fout,  (* its streams: where it reads, and the file it writes       *)
  encription_mode,
  key, enc,   (* the key, and which character of it is next                *)
  failed,     (* a message says that an option could not be followed       *)
  exit_code,  (* what the program returns                                  *)
  runs,       (* programs run so far                                       *)
  coded       (* of a file that a run with +e made: its text and the key   *)

streams == <<fin, fout>>
coder == <<encription_mode, key, enc>>
result == <<failed, exit_code>>
filterVars == <<dir, coded, version, at, streams, coder, result, runs>>

Stdin == "stdin"
Stdout == "stdout"
Name == File \cup {Stdin, Stdout, Nowhere}

Newline == 10
EofByte == 255    (* a char that equals EOF *)
Digit == 48 .. 57
Printable == 32 .. 126

Encoders == {"encoder", "encoder2", "encoder1d"}
Filters == {"task1b", "task1b_warmup2", "task1b_warmup1"}

IsText(f) == dir[f] \notin {Absent, Directory}

FilterTypeOK ==
  /\ \A f \in Name : IsText(f) => dir[f] \in Seq(0 .. 255)
  /\ version \in Encoders \cup Filters
  /\ at \in {"shell", "options", "copy", "ended"}
  /\ fin.file \in Name /\ fin.pos \in Nat
  /\ fout \in Name
  /\ encription_mode \in {-1, 0, 1}
  /\ encription_mode # 0 => enc \in DOMAIN key
  /\ failed \in BOOLEAN
  /\ exit_code \in 0 .. 3
  /\ runs \in 0 .. MaxRuns

FilterInit ==
  /\ dir \in {d \in [Name -> Text \cup {<<>>, Absent, Directory}] :
                d[Stdin] \in Text /\ d[Stdout] = <<>> /\ d[Nowhere] = Absent}
  /\ coded = [f \in Name |-> None]
  /\ version = "encoder" /\ at = "shell" /\ runs = 0
  /\ fin = [file |-> Stdin, pos |-> 0] /\ fout = Stdout
  /\ encription_mode = 0 /\ key = <<>> /\ enc = 1
  /\ failed = FALSE /\ exit_code = 0

(* The shell starts a program, with an empty standard output. *)
Run(v) ==
  /\ at \in {"shell", "ended"}
  /\ runs < MaxRuns
  /\ runs' = runs + 1
  /\ version' = v /\ at' = "options"
  /\ dir' = [dir EXCEPT ![Stdout] = <<>>]
  /\ coded' = [coded EXCEPT ![Stdout] = None]
  /\ fin' = [file |-> Stdin, pos |-> 0] /\ fout' = Stdout
  /\ encription_mode' = 0 /\ key' = <<>> /\ enc' = 1
  /\ failed' = FALSE /\ exit_code' = 0

-----------------------------------------------------------------------------
(* The options.                                                            *)

OptionFails(status) ==
  /\ failed' = TRUE /\ exit_code' = status
  /\ at' = "ended"
  /\ UNCHANGED <<dir, coded, streams, coder>>

(* fopen and open for writing make the file or empty it. *)
OpensOutput(f) ==
  /\ dir[f] # Directory
  /\ dir' = [dir EXCEPT ![f] = <<>>]
  /\ coded' = [coded EXCEPT ![f] = None]
  /\ fout' = f
  /\ UNCHANGED <<fin, coder, at, result>>

(* A directory can be opened for reading. *)
OpensInput(f) ==
  /\ dir[f] # Absent
  /\ fin' = [file |-> f, pos |-> 0]
  /\ UNCHANGED <<dir, coded, fout, coder, at, result>>

OpenOutput(f, status) == OpensOutput(f) \/ (dir[f] = Directory /\ OptionFails(status))
OpenInput(f, status) == OpensInput(f) \/ (dir[f] = Absent /\ OptionFails(status))

SetKey(mode, k) ==
  /\ encription_mode' = mode
  /\ key' = k /\ enc' = 1
  /\ UNCHANGED <<dir, coded, streams, at, result>>

ValidKey(k) == k # <<>> /\ \A i \in DOMAIN k : k[i] \in Digit

EncoderOption ==
  /\ version = "encoder"
  /\ \/ \E f \in File : OpenOutput(f, 1) \/ OpenInput(f, 2)
     \/ \E mode \in {-1, 1}, k \in Key :
          IF ValidKey(k) THEN SetKey(mode, k) ELSE OptionFails(3)

(* The stages take any key.  The character after an empty one is looked    *)
(* for behind its end, in whatever string lies there.                      *)
StageKey(k) == IF k # <<>> THEN {k} ELSE {<<0>> \o beyond : beyond \in Key}

(* The stages end with 0 whatever failed. *)
StageOption ==
  /\ version \in {"encoder2", "encoder1d"}
  /\ \/ \E f \in File : OpenOutput(f, 0)
     \/ \E mode \in {-1, 1}, k \in Key : \E l \in StageKey(k) : SetKey(mode, l)

(* Stage 1d has no -i. *)
StageInput == version = "encoder2" /\ \E f \in File : OpenInput(f, 0)

(* main of task1b.c returns 0 whatever failed. *)
FilterOption ==
  version = "task1b" /\ \E f \in File : OpenInput(f, 0) \/ OpenOutput(f, 0)

Warmup2Option ==
  version = "task1b_warmup2" /\ \E f \in File : OpenInput(f, 2) \/ OpenOutput(f, 3)

(* In the first warmup a descriptor is an unsigned long, which is never    *)
(* less than 0: after its message, main goes on with what open returned as *)
(* its stream, until another option replaces it.                           *)
InputNowhere(f) ==
  /\ dir[f] = Absent
  /\ failed' = TRUE /\ fin' = [file |-> Nowhere, pos |-> 0]
  /\ UNCHANGED <<dir, coded, fout, coder, at, exit_code>>

OutputNowhere(f) ==
  /\ dir[f] = Directory
  /\ failed' = TRUE /\ fout' = Nowhere
  /\ UNCHANGED <<dir, coded, fin, coder, at, exit_code>>

Warmup1Option ==
  /\ version = "task1b_warmup1"
  /\ \E f \in File : OpensInput(f) \/ InputNowhere(f) \/ OpensOutput(f) \/ OutputNowhere(f)

Option ==
  /\ at = "options"
  /\ EncoderOption \/ StageOption \/ StageInput \/ FilterOption \/ Warmup2Option \/ Warmup1Option
  /\ UNCHANGED <<version, runs>>

(* An option that failed ended the program, but for the first warmup. *)
EndOfOptions ==
  /\ at = "options"
  /\ at' = "copy"
  /\ UNCHANGED <<dir, coded, version, streams, coder, result, runs>>

-----------------------------------------------------------------------------
(* The stream, one character at a time.                                    *)

AtEnd == IsText(fin.file) => fin.pos = Len(dir[fin.file])
Char == dir[fin.file][fin.pos + 1]

(* What is written to a bad descriptor is lost, and nobody asks. *)
Put(c) ==
  /\ dir' = IF fout = Nowhere THEN dir ELSE [dir EXCEPT ![fout] = Append(@, c)]
  /\ fin' = [fin EXCEPT !.pos = @ + 1]

UpperCase(c) == IF c \in 97 .. 122 THEN c - 32 ELSE c

(* Mutant: -e adds the key, too. *)
ShiftedForward(c, mode, k) == (c + k - 48) % 256

(* A char keeps the lowest eight bits of the sum. *)
Shifted(c, mode, k) == (c + mode * (k - 48)) % 256

EndOfStream(status) ==
  /\ at' = "ended" /\ exit_code' = status
  /\ coded' = IF encription_mode = 1 /\ IsText(fin.file)
              THEN [coded EXCEPT ![fout] = [text |-> dir[fin.file], key |-> key]]
              ELSE coded
  /\ UNCHANGED <<dir, fin, enc>>

(* fgetc gives EOF at the end, for a read that failed, and for EofByte. *)
EncodeEnds ==
  /\ version \in Encoders
  /\ ~AtEnd => Char = EofByte
  /\ EndOfStream(0)
  /\ UNCHANGED failed

(* Mutant: the key goes on where the line before left it. *)
EncodeCharKeyGoesOn ==
  /\ version \in Encoders
  /\ ~AtEnd /\ Char # EofByte
  /\ \/ Char = Newline /\ Put(Newline) /\ UNCHANGED enc
     \/ Char # Newline /\ encription_mode = 0 /\ Put(UpperCase(Char)) /\ UNCHANGED enc
     \/ /\ Char # Newline /\ encription_mode # 0
        /\ Put(Shifted(Char, encription_mode, key[enc]))
        /\ enc' = (enc % Len(key)) + 1
  /\ UNCHANGED <<coded, at, result>>

EncodeChar ==
  /\ version \in Encoders
  /\ ~AtEnd /\ Char # EofByte
  /\ \/ Char = Newline /\ Put(Newline) /\ enc' = 1
     \/ Char # Newline /\ encription_mode = 0 /\ Put(UpperCase(Char)) /\ UNCHANGED enc
     \/ /\ Char # Newline /\ encription_mode # 0
        /\ Put(Shifted(Char, encription_mode, key[enc]))
        /\ enc' = (enc % Len(key)) + 1
  /\ UNCHANGED <<coded, at, result>>

FilterChar ==
  /\ version \in Filters
  /\ ~AtEnd
  /\ Put(UpperCase(Char))
  /\ UNCHANGED <<coded, at, enc, result>>

(* read knows the end of a file from a failure, which a directory is, and  *)
(* a bad descriptor; main of task1b.c forgets it.                          *)
FilterEnds ==
  /\ version = "task1b" /\ AtEnd
  /\ EndOfStream(0)
  /\ UNCHANGED failed

WarmupFilterEnds ==
  /\ version \in {"task1b_warmup1", "task1b_warmup2"} /\ AtEnd
  /\ EndOfStream(IF IsText(fin.file) THEN 0 ELSE 1)
  /\ UNCHANGED failed

Copy ==
  /\ at = "copy"
  /\ EncodeEnds \/ EncodeChar \/ FilterChar \/ FilterEnds \/ WarmupFilterEnds
  /\ UNCHANGED <<version, fout, encription_mode, key, runs>>

FilterNext ==
  \/ \E v \in Encoders \cup Filters : Run(v)
  \/ Option
  \/ EndOfOptions
  \/ Copy

FilterSpec == FilterInit /\ [][FilterNext]_filterVars

-----------------------------------------------------------------------------
(* Properties.                                                             *)

(* What the user can know of a run.  The exit status says it all for the   *)
(* encoder and the second warmup.  The others return 0 though an option    *)
(* failed, and only their messages tell.                                   *)
Succeeded ==
  /\ at = "ended" /\ exit_code = 0
  /\ version \notin {"encoder", "task1b_warmup2"} => ~failed

(* Line j starts behind the j-th character of s and holds the i-th.         *)
InLine(s, j, i) == (j = 0 \/ s[j] = Newline) /\ \A h \in j + 1 .. i - 1 : s[h] # Newline

(* c stands for the i-th character of s: the key k starts anew at each line. *)
Codes(c, s, i, mode, k) ==
  /\ s[i] = Newline => c = Newline
  /\ s[i] # Newline /\ mode = 0 => c = UpperCase(s[i])
  /\ s[i] # Newline /\ mode # 0 =>
       \A j \in 0 .. i - 1 :
         InLine(s, j, i) => c = Shifted(s[i], mode, k[((i - 1 - j) % Len(k)) + 1])

(* The encoders take EofByte for the end of their input. *)
IsRead(c) == version \in Encoders => c # EofByte

Translates(t, s) ==
  /\ Len(t) <= Len(s)
  /\ \A i \in 1 .. Len(t) : IsRead(s[i]) /\ Codes(t[i], s, i, encription_mode, key)

IsTranslation(t, s) ==
  Translates(t, s) /\ (Len(t) < Len(s) => ~IsRead(s[Len(t) + 1]))

(* A run that says nothing failed has written the translation of its whole *)
(* input, line by line, whatever the options were, in whatever order, and  *)
(* whichever files they named twice.  A directory reads as an empty file.  *)
EncodesByLine ==
  Succeeded =>
    IF IsText(fin.file) THEN IsTranslation(dir[fout], dir[fin.file]) ELSE dir[fout] = <<>>

(* Printable lines that were encoded with a key of digits come back when   *)
(* any of the encoders decodes them with that key.                         *)
RoundTrip ==
  /\ Succeeded /\ encription_mode = -1 /\ fin.file # fout
  /\ coded[fin.file] # None /\ coded[fin.file].key = key /\ ValidKey(key)
  /\ \A k \in DOMAIN coded[fin.file].text :
        coded[fin.file].text[k] \in Printable \cup {Newline}
  => dir[fout] = coded[fin.file].text
=============================================================================
