------------------------- MODULE VirusDetectorWarmup ------------------------
(***************************************************************************)
(* The earlier virus detectors, lab-3/warmup-2/task2b.c,                   *)
(* lab-3/warmup/task-2/task2b.c and, before fixing was added to it,        *)
(* lab-3/warmup/task-1/task1c.c.  Against VirusDetector:                   *)
(*   - all add viruses at the end of the list, and leave the suspected    *)
(*     file open when the offset of a fix cannot be sought;                *)
(* and the first two                                                       *)
(*   - keep the records before a failure of a load;                        *)
(*   - go on with a fix whose numbers were not entered;                    *)
(*   - take the end of their menu for an entry, whose function is NULL,    *)
(*     and leave their list to exit when they quit.                        *)
(***************************************************************************)
EXTENDS VirusDetector

ReadRecordLast == ReadNext(Append(reading, NewNode))

SeekFailsOpen ==
  /\ pc = "fix"
  /\ req[1] < 0
  /\ streams < MaxStreams
  /\ streams' = streams + 1
  /\ FixReturns
  /\ UNCHANGED fileVars

Warmup2Next ==
  \/ \E file \in SigFile : LoadOpens(file)
  \/ ReadRecordLast
  \/ LoadEnds \/ LoadFails \/ LinkFails
  \/ Detect
  \/ \E offset, size \in Number : AskFix(offset, size)
  \/ SeekFailsOpen \/ KillVirus
  \/ Quit

-----------------------------------------------------------------------------
WarmupLoadFails == pc = "load" /\ LoadReturns(reading, {})

WarmupDetect == vl # <<>> /\ Detect

(* The offset and the size are whatever their memory held. *)
WarmupFixUnasked ==
  /\ pc = "fix"
  /\ \E offset, size \in Number : req' = <<offset, size>>
  /\ UNCHANGED <<pc, listVars, streams, fileVars, reported>>

WarmupQuit ==
  /\ FromMenu
  /\ pc' = "exited"
  /\ UNCHANGED <<listVars, streams, fileVars, req>>

WarmupEndOfMenu ==
  /\ FromMenu
  /\ pc' = "crashed"
  /\ UNCHANGED <<listVars, streams, fileVars, req>>

WarmupNext ==
  \/ \E file \in SigFile : LoadOpens(file)
  \/ ReadRecordLast
  \/ LoadEnds \/ WarmupLoadFails \/ LinkFails
  \/ WarmupDetect
  \/ \E offset, size \in Number : AskFix(offset, size)
  \/ WarmupFixUnasked
  \/ SeekFailsOpen \/ KillVirus
  \/ Quit \/ WarmupQuit \/ WarmupEndOfMenu

-----------------------------------------------------------------------------
(* lab-3/warmup/task-1/task1c.c: there is no fix. *)

Task1Load ==
  \/ \E file \in SigFile : LoadOpens(file)
  \/ ReadRecordLast
  \/ LoadEnds \/ WarmupLoadFails \/ LinkFails

Task1Detect == vl # <<>> /\ Detect

Task1Next ==
  \/ Task1Load
  \/ Task1Detect
  \/ Quit \/ WarmupQuit \/ WarmupEndOfMenu
=============================================================================
