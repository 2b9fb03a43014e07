---------------------------- MODULE HexEditWarmup ----------------------------
(***************************************************************************)
(* The earlier hex editor, lab-7/warmup/task-1/hexeditplus.c.  Against     *)
(* HexEdit:                                                                *)
(*   - a load ends what it read with a zero byte, at the count of units,   *)
(*     and sets the count of bytes, down as well as up;                    *)
(*   - a save to a negative position only complains, and writes at the end *)
(*     of the file, where looking for its size left the position.          *)
(***************************************************************************)
EXTENDS HexEdit

WarmupLoad ==
  /\ Doing("load")
  /\ file_name = "present" /\ req.location >= 0
  /\ IF Available > BufLen \/ (Signed(UnitsRead) >= BufLen)
     THEN Faults
     ELSE /\ mem_buf' = IF Signed(UnitsRead) < 0 THEN Overlaid(Available)
                        ELSE [Overlaid(Available) EXCEPT ![UnitsRead] = 0]
          /\ mem_count' = IF Signed(UnitsRead) < 0 THEN mem_count ELSE UnitsRead
          /\ Returns
          /\ UNCHANGED file

(* prepare_file_for_save. *)
SavePosition == IF req.location < 0 THEN Len(file) ELSE req.location

WarmupSaveRefused ==
  /\ Doing("save")
  /\ ~EnoughBytes \/ file_name # "present" \/ req.location > Len(file)
  /\ Returns
  /\ UNCHANGED <<mem_buf, mem_count, file>>

WarmupSave ==
  /\ Doing("save")
  /\ EnoughBytes /\ file_name = "present" /\ req.location <= Len(file)
  /\ IF Requested > BufLen THEN Faults
     ELSE /\ SavePosition + Requested <= MaxFile
          /\ file' = Written(SavePosition, Requested)
          /\ Returns
          /\ UNCHANGED <<mem_buf, mem_count>>

WarmupNext ==
  \/ Menu
  \/ Overflow
  \/ LoadFails \/ WarmupLoad
  \/ Display
  \/ WarmupSaveRefused \/ WarmupSave
  \/ ModifyRefused \/ Modify

(* As DefinedInRange, with one byte of the buffer left for the zero; here  *)
(* the count never outgrows the buffer, and excuses nothing.               *)
WarmupDefinedInRange ==
  pc = "fault" =>
    \/ file_name = "long"
    \/ unit_size \notin {1, 2, 4}
    \/ req.count < 0 \/ req.location < 0
    \/ Overflows
    \/ req.action = "load" /\ Bytes >= BufLen
    \/ req.action = "display" /\ Least(Bytes, mem_count) > BufLen - (IntSize - 1)
    \/ req.action = "save" /\ Base + Bytes >= Wrap
=============================================================================
