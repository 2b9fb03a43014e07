------------------------------ MODULE Pipeline ------------------------------
(***************************************************************************)
(* How the shell of lab-6/actual/t4/task4.c executes a command line: one   *)
(* command with its redirections, or two commands connected by a pipe, in  *)
(* the foreground or the background.                                       *)
(*                                                                         *)
(* One action per system call of the shell.  What a child does between     *)
(* fork and exec touches its own descriptors only and is one action.       *)
(***************************************************************************)
EXTENDS Descriptors

VARIABLES
  pc,         (* what the shell does next                                  *)
  line,       (* the command line being executed, or the last one          *)
  cmds,       (* for each line: pipeline or not, blocking or not           *)
  pipe_fd,    (* for each line the variables pipe_fd_read, pipe_fd_write;  *)
              (* the children of the line have copies                      *)
  stdio       (* the descriptors the shell was started with                *)

startVars == <<stdio, autoReap>>
shellVars == <<pc, line, cmds, pipe_fd, startVars>>
vars == <<shellVars, descVars>>

Cmd == [piped : BOOLEAN, blocking : BOOLEAN]

Places == {"prompt", "pipe", "fork1", "closewrite", "fork2", "closeread",
           "wait1", "wait2", "fork", "wait", "exited"}

ShellTypeOK ==
  /\ line \in 0 .. MaxLines
  /\ cmds \in [1 .. line -> Cmd]
  /\ pipe_fd \in [Line -> [read : Fds, write : Fds]]
  /\ stdio \subseteq Fds
  /\ DescTypeOK

TypeOK == pc \in Places /\ ShellTypeOK

(* The shell needs its standard input to be told anything. *)
Init ==
  /\ pc = "prompt"
  /\ line = 0
  /\ cmds = <<>>
  /\ pipe_fd = [k \in Line |-> [read |-> 0, write |-> 0]]
  /\ stdio \in {{0, 1, 2}, {0, 1}, {0, 2}, {0}}
  /\ DescInit(stdio)

First == <<line, 1>>
Second == <<line, 2>>

-----------------------------------------------------------------------------
(* The shell.                                                              *)

(* execute, for a line of one command or of two. *)
ReadLine(cmd) ==
  /\ pc = "prompt"
  /\ line < MaxLines
  /\ line' = line + 1
  /\ cmds' = [k \in 1 .. line + 1 |-> IF k = line + 1 THEN cmd ELSE cmds[k]]
  /\ pc' = IF cmd.piped THEN "pipe" ELSE "fork"
  /\ UNCHANGED <<pipe_fd, startVars, descVars>>

(* parent_pipe; pipe may fail, and does without two free descriptors. *)
MakePipe ==
  /\ pc = "pipe"
  /\ Cardinality(Free(fd[Shell])) >= 2
  /\ LET p == PipeFds(fd[Shell]) IN
       /\ pipe_fd' = [pipe_fd EXCEPT ![line] = [read |-> p[1], write |-> p[2]]]
       /\ fd' = [fd EXCEPT ![Shell][p[1]] = ReadEnd(line), ![Shell][p[2]] = WriteEnd(line)]
  /\ pc' = "fork1"
  /\ UNCHANGED <<line, cmds, startVars, buffer, state>>

PipeFails ==
  /\ pc = "pipe"
  /\ pc' = "prompt"
  /\ UNCHANGED <<line, cmds, pipe_fd, startVars, descVars>>

ForkAs(c, here, next) ==
  /\ pc = here
  /\ ForkChild(c)
  /\ pc' = next
  /\ UNCHANGED <<line, cmds, pipe_fd, startVars>>

Fork1 == ForkAs(First, "fork1", "closewrite")
Fork2 == ForkAs(Second, "fork2", "closeread")
ForkSingle ==
  ForkAs(First, "fork", IF cmds[line].blocking THEN "wait" ELSE "prompt")

(* parent_fork_failed: the shell exits, its children stay. *)
ForkFails ==
  /\ pc \in {"fork1", "fork2", "fork"}
  /\ pc' = "exited"
  /\ fd' = [fd EXCEPT ![Shell] = Empty]
  /\ UNCHANGED <<line, cmds, pipe_fd, startVars, buffer, state>>

(* parent_close: it returns from execute_pipeline when close fails. *)
ParentClose(f, here, next) ==
  /\ pc = here
  /\ IF Close(fd[Shell], f) = Failed
     THEN pc' = "prompt" /\ UNCHANGED fd
     ELSE pc' = next /\ fd' = [fd EXCEPT ![Shell] = Close(@, f)]
  /\ UNCHANGED <<line, cmds, pipe_fd, startVars, buffer, state>>

(* Mutant: the shell keeps the write end until both children exist. *)
CloseWriteLater ==
  /\ pc = "closewrite"
  /\ pc' = "fork2"
  /\ UNCHANGED <<line, cmds, pipe_fd, startVars, descVars>>

CloseWrite == ParentClose(pipe_fd[line].write, "closewrite", "fork2")

(* Mutant: the shell keeps the read end while it waits. *)
CloseReadForgotten ==
  /\ pc = "closeread"
  /\ pc' = "wait1"
  /\ UNCHANGED <<line, cmds, pipe_fd, startVars, descVars>>

CloseRead == ParentClose(pipe_fd[line].read, "closeread", "wait1")

(* Mutant: the blocking flag of the first command is looked at: it is 0. *)
WaitFirstOnly ==
  /\ pc = "wait1"
  /\ Waited(First)
  /\ pc' = "prompt"
  /\ UNCHANGED <<line, cmds, pipe_fd, startVars>>

(* wait_for_child of the first command, whatever its blocking is. *)
WaitFirst ==
  /\ pc = "wait1"
  /\ Waited(First)
  /\ pc' = IF cmds[line].blocking THEN "wait2" ELSE "prompt"
  /\ UNCHANGED <<line, cmds, pipe_fd, startVars>>

WaitLast(c, here) ==
  /\ pc = here
  /\ Waited(c)
  /\ pc' = "prompt"
  /\ UNCHANGED <<line, cmds, pipe_fd, startVars>>

WaitSecond == WaitLast(Second, "wait2")
WaitSingle == WaitLast(First, "wait")

(* quit or end of input; main does not wait for background children. *)
Quit ==
  /\ pc = "prompt"
  /\ pc' = "exited"
  /\ fd' = [fd EXCEPT ![Shell] = Empty]
  /\ UNCHANGED <<line, cmds, pipe_fd, startVars, buffer, state>>

-----------------------------------------------------------------------------
(* A child between fork and exec.                                          *)

(* Mutant: the write end is duplicated before stdout is closed. *)
ChildPipeWriteSwapped(t, r, w) ==
  Close(Close(Dup(Close(t, r), w), 1), w)

ChildPipeWrite(t, r, w) ==
  Close(Dup(Close(Close(t, r), 1), w), w)

ChildPipeRead(t, r) ==
  Close(Dup(Close(t, 0), r), r)

(* child_redirect_io_to_files.  A file that cannot be opened is not        *)
(* noticed (fopen never returns less than 0): the child goes on with the   *)
(* descriptor closed.                                                      *)
Redirect(t, f, file, opened) ==
  IF file = None THEN t
  ELSE LET c == Close(t, f) IN IF opened THEN Open(c, file) ELSE c

ChildRedirects(t) ==
  {Redirect(Redirect(t, 0, i, iok), 1, o, ook) :
     i \in {None, InFile}, o \in {None, OutFile}, iok \in BOOLEAN, ook \in BOOLEAN}

ChildTables(c) ==
  LET t == fd[c]
      r == pipe_fd[c[1]].read
      w == pipe_fd[c[1]].write
  IN
  CASE ~cmds[c[1]].piped -> ChildRedirects(t)
    [] cmds[c[1]].piped /\ c[2] = 1 -> {ChildPipeWrite(t, r, w)}
    [] cmds[c[1]].piped /\ c[2] = 2 -> {ChildPipeRead(t, r)}

ChildExecs(c) ==
  /\ state[c] = "forked"
  /\ \E t \in ChildTables(c) : t # Failed /\ Runs(c, t)
  /\ UNCHANGED <<shellVars, buffer>>

(* A call before exec fails, or exec does: _exit. *)
ChildFails(c) ==
  /\ state[c] = "forked"
  /\ Dies(c)
  /\ UNCHANGED <<shellVars, buffer>>

ChildStarts(c) == ChildExecs(c) \/ ChildFails(c)

-----------------------------------------------------------------------------
ShellContinues ==
  \/ MakePipe \/ PipeFails
  \/ Fork1 \/ Fork2 \/ ForkSingle \/ ForkFails
  \/ CloseWrite \/ CloseRead
  \/ WaitFirst \/ WaitSecond \/ WaitSingle

Programs == ProgramsNext /\ UNCHANGED shellVars

Next ==
  \/ \E cmd \in Cmd : ReadLine(cmd)
  \/ Quit
  \/ ShellContinues
  \/ \E c \in Child : ChildStarts(c)
  \/ Programs

(* The shell and its children are scheduled; programs read and write, but  *)
(* need not ever end by themselves.                                        *)
Fairness ==
  /\ WF_vars(ShellContinues)
  /\ \A c \in Child : WF_vars(ChildStarts(c))
  /\ \A c \in Child : WF_vars(Stream(c) /\ UNCHANGED shellVars)

Spec == Init /\ [][Next]_vars /\ Fairness

-----------------------------------------------------------------------------
(* Properties.                                                             *)

StartTable == [f \in Fds |-> IF f \in stdio THEN Inherited ELSE None]

(* A program of a pipeline has its end of its own pipe as standard output  *)
(* or input, no other descriptor of any pipe, and otherwise what the shell *)
(* was started with, whatever other lines run in the background.           *)
ProgramsSeeTheirEnds ==
  \A k \in 1 .. line : cmds[k].piped =>
    /\ state[<<k, 1>>] = "running" =>
         fd[<<k, 1>>] = [StartTable EXCEPT ![1] = WriteEnd(k)]
    /\ state[<<k, 2>>] = "running" =>
         fd[<<k, 2>>] = [StartTable EXCEPT ![0] = ReadEnd(k)]

(* The shell comes back to its prompt with the descriptors it started      *)
(* with, also when a pipe could not be made.                               *)
ShellTableRestored == pc = "prompt" => fd[Shell] = StartTable

(* At the prompt every child of every foreground line is over and waited   *)
(* for.                                                                    *)
ForegroundIsOver ==
  pc = "prompt" => \A k \in 1 .. line : cmds[k].blocking =>
    \A i \in {1, 2} : state[<<k, i>>] \in {"unborn", "reaped"}

(* A program run with redirections has the shell's standard input and      *)
(* output or the files named for them, each in its place.                  *)
RedirectionsHold ==
  \A k \in 1 .. line : ~cmds[k].piped /\ state[<<k, 1>>] = "running" =>
    /\ fd[<<k, 1>>][0] \in {Inherited, InFile}
    /\ fd[<<k, 1>>][1] \in {StartTable[1], OutFile}

(* When the writing program is over the reading one gets end of file.      *)
EofArrives ==
  \A k \in Line :
    Ended(<<k, 1>>) /\ Alive(<<k, 2>>) ~> Ended(<<k, 2>>)

(* When the reading program is over, or will never exist because its fork  *)
(* failed, the writing one is ended by SIGPIPE.                            *)
SigpipeArrives ==
  \A k \in Line :
    (k <= line /\ cmds[k].piped /\ Alive(<<k, 1>>)
       /\ (Ended(<<k, 2>>) \/ (state[<<k, 2>>] = "unborn" /\ pc = "exited")))
    ~> Ended(<<k, 1>>)

(* The prompt comes back once one of the two programs has ended.           *)
PromptReturns ==
  (pc \in {"wait1", "wait2"} /\ (Ended(First) \/ Ended(Second))) ~> pc = "prompt"
=============================================================================
