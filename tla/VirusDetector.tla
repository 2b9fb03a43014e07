---------------------------- MODULE VirusDetector ---------------------------
(***************************************************************************)
(* The virus detector of lab-3/actual/t2/task2b.c: signatures are loaded   *)
(* from a file into a list, looked for in the suspected file, and what was *)
(* found is overwritten with NOPs at the user's request.                   *)
(*                                                                         *)
(* A load is one action per record, since every malloc and fread of it may *)
(* fail with a part of the new list built and the old one still there.     *)
(* Viruses are their signatures; names and printing are left out.          *)
(***************************************************************************)
EXTENDS Integers, Sequences, FiniteSets, SequencesExt

CONSTANTS
  Byte,       (* values of a byte                                          *)
  NOP,        (* the one written over a virus                              *)
  Sig,        (* the signatures there are                                  *)
  MaxSig,     (* bound: the length of a signature                          *)
  BufLen,     (* what is read of the suspected file, 10000 in the code     *)
  MaxRecords, (* bound: records of a signature file                        *)
  MaxFile,    (* bound: the length of the suspected file                   *)
  MaxStreams, (* bound: streams open at once                               *)
  Number      (* bound: the integers that are entered                      *)

ASSUME VirusDetectorAssumption ==
  /\ 0 \in Byte /\ NOP \in Byte \ {0}
  /\ MaxSig \in Nat \ {0}
  /\ Sig \subseteq BoundedSeq(Byte, MaxSig)
  /\ BufLen \in Nat /\ MaxRecords \in Nat /\ MaxFile \in Nat /\ MaxStreams \in Nat
  /\ Number \subseteq Int

(* What a read behind the last record meets: the end of the file, the end  *)
(* in the middle of a record, or an error.                                 *)
SigFile == [records : BoundedSeq(Sig, MaxRecords), tail : {"end", "truncated", "error"}]
NoSource == [records |-> <<>>, tail |-> "end"]

VARIABLES
  pc,         (* at the menu (after a detection "reported"), or in an action *)
  vl,         (* the list of viruses                                       *)
  source,     (* the signature file that is read                           *)
  count,      (* records of it that were read                              *)
  reading,    (* the list made of them                                     *)
  heap,       (* the blocks allocated                                      *)
  streams,    (* FILEs that are open                                       *)
  suspect,    (* the contents of the suspected file                        *)
  reported,   (* what a detection just found: <<offset, signature>>        *)
  req,        (* the offset and size of the fix in progress                *)
  fixed       (* offsets that were wholly overwritten as asked             *)

listVars == <<vl, source, count, reading, heap>>
fileVars == <<suspect, fixed>>
vars == <<pc, listVars, streams, fileVars, reported, req>>

Block == 1 .. 3 * 2 * MaxRecords
Node == [sig : Sig, at : [virus : Block, sig : Block, link : Block]]
BlocksOf(list) == UNION {{v.at.virus, v.at.sig, v.at.link} : v \in ToSet(list)}

TypeOK ==
  /\ pc \in {"menu", "reported", "load", "fix", "exited", "crashed"}
  /\ vl \in Seq(Node)
  /\ source \in SigFile
  /\ count \in 0 .. Len(source.records)
  /\ reading \in Seq(Node)
  /\ heap \subseteq Block
  /\ streams \in 0 .. MaxStreams
  /\ suspect \in Seq(Byte)
  /\ reported \subseteq (0 .. BufLen - 1) \X Sig
  /\ req \in (Number \cup {0}) \X (Number \cup {0})
  /\ fixed \subseteq 0 .. MaxFile - 1

Init ==
  /\ pc = "menu"
  /\ vl = <<>>
  /\ source = NoSource
  /\ count = 0
  /\ reading = <<>>
  /\ heap = {}
  /\ streams = 0
  /\ suspect \in BoundedSeq(Byte, MaxFile)
  /\ reported = {}
  /\ req = <<0, 0>>
  /\ fixed = {}

AtMenu == pc \in {"menu", "reported"}
FromMenu == AtMenu /\ reported' = {}

-----------------------------------------------------------------------------
(* Load signatures.  A file that cannot be opened leaves everything.       *)

LoadOpens(file) ==
  /\ FromMenu
  /\ streams < MaxStreams
  /\ pc' = "load"
  /\ source' = file
  /\ count' = 0
  /\ reading' = <<>>
  /\ streams' = streams + 1
  /\ UNCHANGED <<vl, heap, fileVars, req>>

Fresh(S) == CHOOSE b \in Block \ S : \A c \in Block \ S : b <= c

(* The node of the next record: readVirus and link_create. *)
NewNode ==
  LET b1 == Fresh(heap)
      b2 == Fresh(heap \cup {b1})
  IN [sig |-> source.records[count + 1],
      at |-> [virus |-> b1, sig |-> b2, link |-> Fresh(heap \cup {b1, b2})]]

ReadNext(list) ==
  /\ pc = "load"
  /\ count < Len(source.records)
  /\ reading' = list
  /\ heap' = heap \cup BlocksOf(list)
  /\ count' = count + 1
  /\ UNCHANGED <<pc, vl, source, streams, fileVars, reported, req>>

(* The actual program adds a virus in front of the others. *)
ReadRecord == ReadNext(<<NewNode>> \o reading)

(* invoke_menu_action: the list becomes new, the old one is freed. *)
LoadReturns(new, failed) ==
  /\ pc' = "menu"
  /\ vl' = new
  /\ heap' = heap \ (BlocksOf(vl) \cup failed)
  /\ source' = NoSource
  /\ count' = 0
  /\ reading' = <<>>
  /\ streams' = streams - 1
  /\ UNCHANGED <<fileVars, reported, req>>

(* Mutant: the old list is not freed. *)
LoadEndsKeepsOld ==
  /\ pc = "load"
  /\ count = Len(source.records)
  /\ source.tail # "error"
  /\ pc' = "menu"
  /\ vl' = reading
  /\ source' = NoSource /\ count' = 0 /\ reading' = <<>>
  /\ streams' = streams - 1
  /\ UNCHANGED <<heap, fileVars, reported, req>>

(* The end of the file, also within a record. *)
LoadEnds ==
  /\ pc = "load"
  /\ count = Len(source.records)
  /\ source.tail # "error"
  /\ LoadReturns(reading, {})

(* Mutant: the records before the failure are kept. *)
LoadFailsKeeps == pc = "load" /\ LoadReturns(reading, {})

(* A malloc of readVirus fails, or a read does before the end. *)
LoadFails == pc = "load" /\ LoadReturns(<<>>, BlocksOf(reading))

(* link_create does not look whether its malloc failed. *)
LinkFails ==
  /\ pc = "load"
  /\ count < Len(source.records)
  /\ pc' = "crashed"
  /\ UNCHANGED <<listVars, streams, fileVars, reported, req>>

-----------------------------------------------------------------------------
(* Detect viruses.                                                         *)

Size == IF Len(suspect) < BufLen THEN Len(suspect) ELSE BufLen

(* The buffer of the detection: behind what was read there is anything. *)
Beyond == Size .. Size + MaxSig - 2
Buffer(garbage) ==
  [i \in 0 .. Size + MaxSig - 2 |-> IF i < Size THEN suspect[i + 1] ELSE garbage[i]]

Matches(buffer, offset, sig) ==
  \A i \in DOMAIN sig : buffer[offset + i - 1] = sig[i]

(* Mutant: the last offset at which a signature fits is not looked at. *)
ReportsShort(buffer) ==
  {r \in (0 .. Size - 1) \X {v.sig : v \in ToSet(vl)} :
     r[1] + Len(r[2]) < Size /\ Matches(buffer, r[1], r[2])}

(* memcmp is called at every offset, whatever is left of the buffer. *)
Reports(buffer) ==
  {r \in (0 .. Size - 1) \X {v.sig : v \in ToSet(vl)} : Matches(buffer, r[1], r[2])}

Detect ==
  /\ AtMenu
  /\ pc' = "reported"
  /\ \E garbage \in [Beyond -> Byte] : reported' = Reports(Buffer(garbage))
  /\ UNCHANGED <<listVars, streams, fileVars, req>>

-----------------------------------------------------------------------------
(* Fix file.  Input that is not a number returns to the menu.              *)

AskFix(offset, size) ==
  /\ FromMenu
  /\ pc' = "fix"
  /\ req' = <<offset, size>>
  /\ UNCHANGED <<listVars, streams, fileVars>>

FixReturns ==
  /\ pc' = "menu"
  /\ req' = <<0, 0>>
  /\ UNCHANGED <<listVars, reported>>

(* kill_virus of a place that cannot be sought; the file is closed. *)
SeekFails ==
  /\ pc = "fix"
  /\ req[1] < 0
  /\ FixReturns
  /\ UNCHANGED <<streams, fileVars>>

(* The file after n NOPs at an offset; a gap is filled with zeros. *)
Filled(offset, n) ==
  LET end == IF n > 0 /\ offset + n > Len(suspect) THEN offset + n ELSE Len(suspect)
  IN [i \in 1 .. end |->
        IF offset < i /\ i <= offset + n THEN NOP
        ELSE IF i <= Len(suspect) THEN suspect[i] ELSE 0]

(* fill_file gives up at the first byte that cannot be written. *)
KillVirus ==
  /\ pc = "fix"
  /\ req[1] >= 0
  /\ \E n \in 0 .. (IF req[2] > 0 THEN req[2] ELSE 0) :
       /\ req[1] + n <= MaxFile
       /\ suspect' = Filled(req[1], n)
       /\ fixed' = IF n = req[2] THEN fixed \cup {req[1] + i : i \in 0 .. n - 1} ELSE fixed
  /\ FixReturns
  /\ UNCHANGED streams

-----------------------------------------------------------------------------
(* Quit, or an option that is not in the menu. *)
Quit ==
  /\ FromMenu
  /\ pc' = "exited"
  /\ vl' = <<>>
  /\ heap' = heap \ BlocksOf(vl)
  /\ UNCHANGED <<source, count, reading, streams, fileVars, req>>

Next ==
  \/ \E file \in SigFile : LoadOpens(file)
  \/ ReadRecord
  \/ LoadEnds \/ LoadFails \/ LinkFails
  \/ Detect
  \/ \E offset, size \in Number : AskFix(offset, size)
  \/ SeekFails \/ KillVirus
  \/ Quit

Spec == Init /\ [][Next]_vars

-----------------------------------------------------------------------------
(* Properties.                                                             *)

(* Allocated is what the list and the list being read consist of, each     *)
(* block once, and between actions no stream is open: whatever fails in    *)
(* the middle of a load, nothing leaks and nothing listed was freed.       *)
MemoryExact ==
  /\ heap = BlocksOf(vl) \cup BlocksOf(reading)
  /\ Cardinality(heap) = 3 * (Len(vl) + Len(reading))
StreamsExact == AtMenu \/ pc = "exited" => streams = 0

ResourcesExact == MemoryExact /\ StreamsExact

(* What was read of the suspected file, from an offset on. *)
ReadFrom(offset) == SubSeq(suspect, offset + 1, Size)

(* A detection is right about the bytes it read, the first BufLen of the   *)
(* file, and says nothing of those behind: a listed signature that lies    *)
(* wholly in them is found at every offset, the last that it fits at too.  *)
(* A report is of such a place, or of one where all that was read, from    *)
(* there on, only begins the signature; the rest of it was compared with   *)
(* what is behind the buffer, and the report may be false.  And no byte    *)
(* that was overwritten as asked is part of a virus that is reported,      *)
(* unless that virus has a NOP there itself.                               *)
ReportsRight ==
  pc = "reported" =>
    /\ \A v \in ToSet(vl), offset \in 0 .. Size - 1 :
         IsPrefix(v.sig, ReadFrom(offset)) => <<offset, v.sig>> \in reported
    /\ \A r \in reported :
         /\ IsPrefix(r[2], ReadFrom(r[1])) \/ IsPrefix(ReadFrom(r[1]), r[2])
         /\ \A i \in DOMAIN r[2] :
              r[1] + i - 1 \in fixed /\ r[1] + i <= BufLen => r[2][i] = NOP
=============================================================================
