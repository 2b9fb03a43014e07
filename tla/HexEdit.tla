------------------------------- MODULE HexEdit -------------------------------
(***************************************************************************)
(* The hex editor of lab-7/actual/task-1/task1.c: units of 1, 2 or 4 bytes *)
(* are loaded from a file into a buffer, displayed, modified and saved.    *)
(*                                                                         *)
(* The arithmetic is that of the C code: int offsets and counts, and       *)
(* conversions to size_t where a comparison or a call makes them.  After a *)
(* "fault" - an access outside the buffer or the name, an int that         *)
(* overflows, a print without a format - the C language says nothing of    *)
(* what follows, and these modules neither.  Modelled is the source        *)
(* address 0, which stands for the buffer; other addresses are of the      *)
(* memory of the process.  The two display flags only change what is       *)
(* printed.                                                                *)
(***************************************************************************)
EXTENDS Integers, Sequences

CONSTANTS
  BufLen,     (* ARR_LEN(mem_buf), 10000 in the code                       *)
  MaxFile,    (* bound: the length of the file                             *)
  Wrap,       (* size_t and addresses wrap here, at 2^32 in the code       *)
  Base,       (* the address of mem_buf, which is on the stack of main     *)
  Byte,       (* values of a byte                                          *)
  Number,     (* bound: the integers that are entered                      *)
  UnitSize    (* bound: the unit sizes that are entered                    *)

(* What an int holds. *)
CInt == -(Wrap \div 2) .. (Wrap \div 2) - 1

ASSUME HexEditAssumption ==
  /\ BufLen \in Nat \ {0} /\ MaxFile \in Nat /\ Wrap \in Nat
  /\ 0 \in Byte
  /\ Number \subseteq CInt /\ UnitSize \subseteq CInt
  /\ BufLen < Wrap \div 2 /\ MaxFile < Wrap \div 2
  /\ Base \in Nat /\ Base + BufLen < Wrap

VARIABLES
  pc,         (* at the menu, in an action whose input was read, over, or  *)
              (* after a fault                                             *)
  req,        (* the action and its input                                  *)
  file_name,  (* "" until one is set                                       *)
  unit_size,
  mem_buf,
  mem_count,
  file        (* the contents of the file that exists                      *)

vars == <<pc, req, file_name, unit_size, mem_buf, mem_count, file>>

Least(a, b) == IF a <= b THEN a ELSE b
Greatest(a, b) == IF a <= b THEN b ELSE a
SizeT(n) == n % Wrap
Signed(n) == IF n >= Wrap \div 2 THEN n - Wrap ELSE n

(* A name that the user has: none, of a file that is there, of one that is *)
(* not, or of more characters than s->file_name has.                       *)
FileName == {"", "present", "absent", "long"}

Request ==
  [action : {"load", "save"}, location : Number, count : Number, val : {0}]
    \cup [action : {"display"}, location : {0}, count : Number, val : {0}]
    \cup [action : {"modify"}, location : Number, count : {0}, val : Byte]
NoRequest == [action |-> "none", location |-> 0, count |-> 0, val |-> 0]

TypeOK ==
  /\ pc \in {"menu", "action", "quit", "fault"}
  /\ req \in Request \cup {NoRequest}
  /\ file_name \in FileName
  /\ unit_size \in UnitSize \cup {1}
  /\ mem_buf \in [0 .. BufLen - 1 -> Byte]
  /\ mem_count \in 0 .. (Wrap \div 2) - 1
  /\ file \in Seq(Byte)

Init ==
  /\ pc = "menu"
  /\ req = NoRequest
  /\ file_name = ""
  /\ unit_size = 1
  /\ mem_buf = [i \in 0 .. BufLen - 1 |-> 0]
  /\ mem_count = 0
  /\ file \in UNION {[1 .. n -> Byte] : n \in 0 .. MaxFile}

-----------------------------------------------------------------------------
(* The menu.                                                               *)

(* strcpy copies up to 255 characters to the 128 bytes of the name. *)
SetFileName(name) ==
  /\ pc = "menu"
  /\ file_name' = name
  /\ pc' = IF name = "long" THEN "fault" ELSE "menu"
  /\ UNCHANGED <<req, unit_size, mem_buf, mem_count, file>>

(* A size other than 1, 2 and 4 is complained about, and set. *)
SetUnitSize(n) ==
  /\ pc = "menu"
  /\ unit_size' = n
  /\ UNCHANGED <<pc, req, file_name, mem_buf, mem_count, file>>

(* Input that is not as many numbers as asked for returns to the menu. *)
Ask(r) ==
  /\ pc = "menu"
  /\ r.action = "load" => file_name # ""
  /\ pc' = "action"
  /\ req' = r
  /\ UNCHANGED <<file_name, unit_size, mem_buf, mem_count, file>>

Quit ==
  /\ pc = "menu"
  /\ pc' = "quit"
  /\ UNCHANGED <<req, file_name, unit_size, mem_buf, mem_count, file>>

(* The two ints that are computed from what was entered. *)
Bytes == unit_size * req.count
LastByteOffset == req.location + unit_size

(* They are computed before anything else is done; fread and fwrite, which *)
(* multiply themselves, do so in size_t.                                   *)
Overflows ==
  \/ req.action \in {"display", "save"} /\ Bytes \notin CInt
  \/ req.action = "modify" /\ LastByteOffset \notin CInt

Doing(action) ==
  /\ pc = "action"
  /\ req.action = action
  /\ ~Overflows

Returns ==
  /\ pc' = "menu"
  /\ req' = NoRequest
  /\ UNCHANGED <<file_name, unit_size>>

Faults ==
  /\ pc' = "fault"
  /\ UNCHANGED <<req, file_name, unit_size, mem_buf, mem_count, file>>

Overflow ==
  /\ pc = "action"
  /\ Overflows
  /\ Faults

-----------------------------------------------------------------------------
(* fread and fwrite of req.count units: the number of bytes asked for, and *)
(* what the call makes of the bytes it got.                                *)

Requested == (SizeT(unit_size) * SizeT(req.count)) % Wrap

Available ==
  Least(Requested, IF req.location <= Len(file) THEN Len(file) - req.location ELSE 0)

UnitsRead ==
  IF Requested = 0 THEN 0
  ELSE IF Available = Requested THEN SizeT(req.count)
  ELSE Available \div SizeT(unit_size)

Overlaid(n) ==
  [i \in DOMAIN mem_buf |-> IF i < n THEN file[req.location + i + 1] ELSE mem_buf[i]]

(* load_into_memory_act: the file cannot be opened, or there is no such    *)
(* position.                                                               *)
LoadFails ==
  /\ Doing("load")
  /\ file_name = "absent" \/ req.location < 0
  /\ Returns
  /\ UNCHANGED <<mem_buf, mem_count, file>>

(* The count of units becomes the count of bytes. *)
Load ==
  /\ Doing("load")
  /\ file_name = "present" /\ req.location >= 0
  /\ IF Available > BufLen THEN Faults
     ELSE /\ mem_buf' = Overlaid(Available)
          /\ mem_count' = IF Signed(UnitsRead) < 0 THEN mem_count
                          ELSE Greatest(mem_count, UnitsRead)
          /\ Returns
          /\ UNCHANGED file

(* get_source_buffers_bounds for the buffer: addresses are compared, so an *)
(* end that wraps is not cut to what is counted.                           *)
Address(n) == (Base + n) % Wrap

BufferEnd == IF Address(Bytes) > Address(mem_count) THEN mem_count ELSE Bytes

(* print_from_buffer: whatever the unit size, a whole int is read at each  *)
(* unit that begins before the end.  There is no format for a size other   *)
(* than the three.                                                         *)
IntSize == 4
Shown == Address(BufferEnd) - Base
LastUnit == unit_size * ((Shown - 1) \div unit_size)

Display ==
  /\ Doing("display")
  /\ IF Shown > 0 /\ (unit_size \notin {1, 2, 4} \/ LastUnit + IntSize > BufLen)
     THEN Faults
     ELSE Returns /\ UNCHANGED <<mem_buf, mem_count, file>>

(* Mutant: what the buffer has is not compared with what is asked for. *)
EnoughBytesAlways == TRUE

EnoughBytes == BufferEnd = Bytes

(* Mutant: a position behind the end of the file is accepted. *)
PositionExistsAlways == req.location >= 0

(* verify_before_write, and the fseek that follows it. *)
PositionExists == req.location >= 0 /\ req.location <= Len(file)

(* The file after n bytes of the buffer are written at position at. *)
Written(at, n) ==
  [i \in 1 .. Greatest(Len(file), at + n) |->
     IF i > at /\ i <= at + n THEN mem_buf[i - at - 1]
     ELSE IF i <= Len(file) THEN file[i] ELSE 0]

SaveRefused ==
  /\ Doing("save")
  /\ ~EnoughBytes \/ file_name # "present" \/ ~PositionExists
  /\ Returns
  /\ UNCHANGED <<mem_buf, mem_count, file>>

Save ==
  /\ Doing("save")
  /\ EnoughBytes /\ file_name = "present" /\ PositionExists
  /\ IF Requested > BufLen THEN Faults
     ELSE /\ req.location + Requested <= MaxFile
          /\ file' = Written(req.location, Requested)
          /\ Returns
          /\ UNCHANGED <<mem_buf, mem_count>>

-----------------------------------------------------------------------------
(* Mutant: the offset is compared as an int. *)
OutOfBoundsSigned == LastByteOffset > BufLen

(* The offset becomes a size_t, so a negative one is out of bounds too. *)
OutOfBounds == SizeT(LastByteOffset) >= BufLen

ModifyRefused ==
  /\ Doing("modify")
  /\ OutOfBounds
  /\ Returns
  /\ UNCHANGED <<mem_buf, mem_count, file>>

(* A unit whose every byte is val; nothing is written for another size. *)
Modified ==
  [i \in DOMAIN mem_buf |->
     IF unit_size \in {1, 2, 4} /\ req.location <= i /\ i < LastByteOffset
     THEN req.val ELSE mem_buf[i]]

Modify ==
  /\ Doing("modify")
  /\ ~OutOfBounds
  /\ IF req.location < 0 /\ unit_size \in {1, 2, 4} THEN Faults
     ELSE /\ mem_buf' = Modified
          /\ mem_count' = Greatest(mem_count, SizeT(LastByteOffset))
          /\ Returns
          /\ UNCHANGED file

-----------------------------------------------------------------------------
Menu ==
  \/ \E name \in FileName : SetFileName(name)
  \/ \E n \in UnitSize : SetUnitSize(n)
  \/ \E r \in Request : Ask(r)
  \/ Quit

Next ==
  \/ Menu
  \/ Overflow
  \/ LoadFails \/ Load
  \/ Display
  \/ SaveRefused \/ Save
  \/ ModifyRefused \/ Modify

Spec == Init /\ [][Next]_vars

-----------------------------------------------------------------------------
(* Properties.                                                             *)

(* A fault has a cause that the user can see.  A name is too long, a unit  *)
(* size is none of the three, a number is negative, an int overflows, a    *)
(* load asks for more than the buffer holds.  A display shows one of the   *)
(* last three bytes of the buffer, where an int does not fit.  A save asks *)
(* for bytes up to the end of the address space, which get past the test   *)
(* of what is counted, or more was counted than the buffer holds (see      *)
(* CountOutgrowsOnlyByWrap).  No other sequence of actions leads to one.   *)
DefinedInRange ==
  pc = "fault" =>
    \/ file_name = "long"
    \/ unit_size \notin {1, 2, 4}
    \/ req.count < 0 \/ req.location < 0
    \/ Overflows
    \/ req.action = "load" /\ Bytes > BufLen
    \/ req.action = "display" /\ Least(Bytes, mem_count) > BufLen - (IntSize - 1)
    \/ req.action = "save" /\ (Base + Bytes >= Wrap \/ mem_count > BufLen)

(* The file changes only by a save, of exactly the bytes that were asked   *)
(* for, every one of them counted in the buffer, at the position that was  *)
(* asked for, which the file has: no gap, no byte lost, nothing uncounted. *)
(* Where a negative position does not refuse the save (in the warmup) the  *)
(* bytes come behind all that the file had.                                *)
SaveIsExact ==
  [][file' # file =>
       /\ req.action = "save"
       /\ Bytes \in 0 .. mem_count
       /\ req.location <= Len(file)
       /\ file' = Written(IF req.location < 0 THEN Len(file) ELSE req.location, Bytes)]_vars
=============================================================================
