--------------------------- MODULE PipelineWarmup ---------------------------
(***************************************************************************)
(* How the earlier shell, lab-6/warmup/t4/task4.c, executes a command      *)
(* line.  Against Pipeline (the later shell):                              *)
(*   - parent_pipe and parent_close report a failure only outside debug    *)
(*     mode; in debug mode the shell goes on, with descriptors that were   *)
(*     never written;                                                      *)
(*   - the shell waits for the second command if the FIRST is blocking,    *)
(*     and the parser makes only the last one of a line blocking.          *)
(***************************************************************************)
EXTENDS Pipeline

VARIABLE DebugMode   (* started with -d; looked at here only *)

WarmupLoop == (\E cmd \in Cmd : ReadLine(cmd)) \/ Quit

WarmupExecuteSingle == ForkSingle \/ ForkFails \/ WaitSingle

(* In debug mode pipefd is used uninitialised: any numbers. *)
PipeFailsUnwritten ==
  /\ pc = "pipe"
  /\ pc' = "fork1"
  /\ \E r, w \in Fds :
       pipe_fd' = [pipe_fd EXCEPT ![line] = [read |-> r, write |-> w]]
  /\ UNCHANGED <<line, cmds, startVars, descVars>>

WarmupPipeFails ==
  IF DebugMode THEN PipeFailsUnwritten ELSE PipeFails

(* A close whose failure is not looked at. *)
CloseAnyway(t, f) == IF Close(t, f) = Failed THEN t ELSE Close(t, f)

ParentClosesAnyway(f, here, next) ==
  /\ pc = here
  /\ fd' = [fd EXCEPT ![Shell] = CloseAnyway(@, f)]
  /\ pc' = next
  /\ UNCHANGED <<line, cmds, pipe_fd, startVars, buffer, state>>

(* parent_close of the write end returns on failure; that of the read end  *)
(* does not look at it.                                                    *)
WarmupCloseWrite ==
  IF DebugMode THEN ParentClosesAnyway(pipe_fd[line].write, "closewrite", "fork2")
               ELSE CloseWrite

WarmupCloseRead == ParentClosesAnyway(pipe_fd[line].read, "closeread", "wait1")

(* The first command of a pipeline is never blocking: no second wait. *)
WarmupWait == WaitLast(First, "wait1")

WarmupExecutePipeline ==
  \/ MakePipe \/ WarmupPipeFails
  \/ Fork1 \/ WarmupCloseWrite \/ Fork2 \/ WarmupCloseRead \/ ForkFails
  \/ WarmupWait

(* child_write_files, child_read_files and the redirections do what those  *)
(* of the later shell do.                                                  *)
WarmupChild(c) == ChildStarts(c)
=============================================================================
