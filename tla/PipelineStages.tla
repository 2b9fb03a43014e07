--------------------------- MODULE PipelineStages ----------------------------
(***************************************************************************)
(* The stages of lab-6 that led to the shell of Pipeline, over its state.  *)
(* Beside that shell itself (actual4):                                     *)
(*   warmup4        the earlier shell, of PipelineWarmup;                  *)
(*   task1, task2   the shell before it knew pipelines;                    *)
(*   warmup2        the same of the earlier shell, warmup/t1 being a copy  *)
(*                  of actual/t1;                                          *)
(*   task3          `ls -l | tail -n 2`, built by hand and checked;        *)
(*   mypipeline     the same with no result of a call looked at;           *)
(*   mypipe         a child that sends one message to its parent.          *)
(***************************************************************************)
EXTENDS PipelineWarmup

VARIABLES
  stage,      (* the program that runs                                     *)
  unnoticed   (* a pipe could not be made and the program went on          *)

Stage == {"task1", "task2", "task3", "actual4",
          "warmup2", "warmup4", "mypipeline", "mypipe"}

(* execute is execute_single: of a line with a pipe the first command is   *)
(* run, which the parser does not make blocking.                           *)
FirstOnly(cmd) == [piped |-> FALSE, blocking |-> cmd.blocking /\ ~cmd.piped]

-----------------------------------------------------------------------------
(* actual/t1/task1.c. *)
Task1Loop == (\E cmd \in Cmd : ReadLine(FirstOnly(cmd))) \/ Quit
Task1Execute == ForkSingle \/ ForkFails \/ WaitSingle
Task1Child(c) == ChildStarts(c)

(* actual/t2/task2.c. *)
Task2Loop == (\E cmd \in Cmd : ReadLine(FirstOnly(cmd))) \/ Quit
Task2Execute == ForkSingle \/ ForkFails \/ WaitSingle
Task2Child(c) == ChildStarts(c)

-----------------------------------------------------------------------------
(* warmup/t2/task2.c: a redirection that fails ends the child. *)
Warmup2Loop == (\E cmd \in Cmd : ReadLine(FirstOnly(cmd))) \/ Quit
Warmup2Execute == ForkSingle \/ ForkFails \/ WaitSingle

(* Mutant: the pointer fopen returns is compared with 0 as a number. *)
RedirectUnchecked(t, f, file, opened) ==
  IF file = None THEN t
  ELSE IF opened THEN Open(Close(t, f), file) ELSE Close(t, f)

RedirectChecked(t, f, file, opened) ==
  IF file = None THEN t
  ELSE IF opened THEN Open(Close(t, f), file) ELSE Failed

redirect_io(t) ==
  {RedirectChecked(RedirectChecked(t, 0, i, iok), 1, o, ook) :
     i \in {None, InFile}, o \in {None, OutFile}, iok \in BOOLEAN, ook \in BOOLEAN}

(* child_do_exec. *)
Warmup2Child(c) ==
  \/ /\ state[c] = "forked"
     /\ \E t \in redirect_io(fd[c]) : t # Failed /\ Runs(c, t)
     /\ UNCHANGED <<shellVars, buffer>>
  \/ ChildFails(c)

-----------------------------------------------------------------------------
(* actual/t3/task3.c: execute_pipeline is called once and main returns     *)
(* with it.                                                                *)
Task3Main ==
  \/ line = 0 /\ ReadLine([piped |-> TRUE, blocking |-> TRUE])
  \/ line = 1 /\ Quit
Task3Execute ==
  \/ MakePipe \/ PipeFails
  \/ Fork1 \/ Fork2 \/ ForkFails
  \/ CloseWrite \/ CloseRead
  \/ WaitFirst \/ WaitSecond
Task3Child(c) == ChildStarts(c)

-----------------------------------------------------------------------------
(* warmup/t3/mypipeline.c.  What pipe does not write is whatever it was.   *)
DupAnyway(t, f) == IF Dup(t, f) = Failed THEN t ELSE Dup(t, f)

MyPipelineMain == Task3Main

MyPipelineParent ==
  \/ MakePipe \/ PipeFailsUnwritten \/ Fork1 \/ Fork2 \/ ForkFails
  \/ ParentClosesAnyway(pipe_fd[line].write, "closewrite", "fork2")
  \/ ParentClosesAnyway(pipe_fd[line].read, "closeread", "wait1")
  \/ WaitFirst \/ WaitSecond

MyPipelineWrite(t, r, w) ==
  CloseAnyway(DupAnyway(CloseAnyway(CloseAnyway(t, r), 1), w), w)

MyPipelineRead(t, r) == CloseAnyway(DupAnyway(CloseAnyway(t, 0), r), r)

MyPipelineChild(c) ==
  LET t == fd[c]
      r == pipe_fd[1].read
      w == pipe_fd[1].write
  IN \/ /\ state[c] = "forked"
        /\ Runs(c, IF c[2] = 1 THEN MyPipelineWrite(t, r, w) ELSE MyPipelineRead(t, r))
        /\ UNCHANGED <<shellVars, buffer>>
     \/ ChildFails(c)

-----------------------------------------------------------------------------
(* warmup/t0/mypipe.c: the parent reads to the end of the pipe, then waits *)
(* for its child; a call that fails ends the process that made it.         *)
MyPipeStart ==
  /\ pc = "prompt" /\ line = 0
  /\ line' = 1
  /\ cmds' = [k \in 1 .. 1 |-> [piped |-> FALSE, blocking |-> TRUE]]
  /\ pc' = "pipe"
  /\ UNCHANGED <<pipe_fd, startVars, descVars>>

MyPipeMain == MyPipeStart \/ (line = 1 /\ Quit)

ExitFailure ==
  /\ pc \in {"pipe", "fork1"}
  /\ pc' = "exited"
  /\ fd' = [fd EXCEPT ![Shell] = Empty]
  /\ UNCHANGED <<line, cmds, pipe_fd, startVars, buffer, state>>

ReadMessage ==
  /\ pc = "read"
  /\ buffer[line] > 0
  /\ buffer' = [buffer EXCEPT ![line] = @ - 1]
  /\ UNCHANGED <<shellVars, fd, state>>

ReadReturnsZero ==
  /\ pc = "read"
  /\ buffer[line] = 0 /\ Holders(WriteEnd(line)) = {}
  /\ pc' = "closeread"
  /\ UNCHANGED <<line, cmds, pipe_fd, startVars, descVars>>

MyPipeParent ==
  \/ MakePipe \/ ExitFailure
  \/ Fork1
  \/ ParentClose(pipe_fd[line].write, "closewrite", "read")
  \/ ReadMessage \/ ReadReturnsZero
  \/ ParentClose(pipe_fd[line].read, "closeread", "wait")
  \/ WaitSingle

(* The child closes the read end and writes, then closes the write end and *)
(* exits.  A write nobody could read is SIGPIPE, one of ChildFails.        *)
MyPipeChild(c) ==
  \/ /\ state[c] = "forked"
     /\ LET t == Close(fd[c], pipe_fd[1].read) IN t # Failed /\ Runs(c, t)
     /\ Holders(ReadEnd(1)) \ {c} # {}
     /\ buffer[1] < Cap
     /\ buffer' = [buffer EXCEPT ![1] = @ + 1]
     /\ UNCHANGED shellVars
  \/ Ends(c) /\ UNCHANGED shellVars
  \/ ChildFails(c)

-----------------------------------------------------------------------------
(* Bound: in debug mode, where descriptors may be any numbers, one line. *)
DebugLines == 1

Prompts ==
  \/ stage = "task1" /\ Task1Loop
  \/ stage = "task2" /\ Task2Loop
  \/ stage = "task3" /\ Task3Main
  \/ stage = "actual4" /\ ((\E cmd \in Cmd : ReadLine(cmd)) \/ Quit)
  \/ stage = "warmup2" /\ Warmup2Loop
  \/ /\ stage = "warmup4"
     /\ \/ /\ DebugMode => line < DebugLines
           /\ WarmupLoop
        \/ Quit
  \/ stage = "mypipeline" /\ MyPipelineMain
  \/ stage = "mypipe" /\ MyPipeMain

Continues ==
  \/ stage = "task1" /\ Task1Execute
  \/ stage = "task2" /\ Task2Execute
  \/ stage = "task3" /\ Task3Execute
  \/ stage = "actual4" /\ ShellContinues
  \/ stage = "warmup2" /\ Warmup2Execute
  \/ stage = "warmup4" /\ (WarmupExecuteSingle \/ WarmupExecutePipeline)
  \/ stage = "mypipeline" /\ MyPipelineParent
  \/ stage = "mypipe" /\ MyPipeParent

Starts(c) ==
  \/ stage = "task1" /\ Task1Child(c)
  \/ stage = "task2" /\ Task2Child(c)
  \/ stage = "task3" /\ Task3Child(c)
  \/ stage = "actual4" /\ ChildStarts(c)
  \/ stage = "warmup2" /\ Warmup2Child(c)
  \/ stage = "warmup4" /\ WarmupChild(c)
  \/ stage = "mypipeline" /\ MyPipelineChild(c)
  \/ stage = "mypipe" /\ MyPipeChild(c)

StagesInit ==
  /\ Init
  /\ stage \in Stage
  /\ DebugMode \in (IF stage = "warmup4" THEN BOOLEAN ELSE {FALSE})
  /\ unnoticed = FALSE

Remembers ==
  /\ unnoticed' = (unnoticed \/ (pc = "pipe" /\ pc' = "fork1" /\ fd' = fd))
  /\ UNCHANGED <<stage, DebugMode>>

stagesVars == <<vars, stage, DebugMode, unnoticed>>

StagesNext ==
  \/ (Prompts \/ Continues \/ Programs) /\ Remembers
  \/ \E c \in Child : Starts(c) /\ Remembers

(* As in Pipeline; the child of mypipe need not be told when to exit. *)
StagesFairness ==
  /\ WF_stagesVars(Continues /\ Remembers)
  /\ \A c \in Child : WF_stagesVars(Starts(c) /\ Remembers)
  /\ \A c \in Child : WF_stagesVars(Stream(c) /\ UNCHANGED shellVars /\ Remembers)

StagesSpec == StagesInit /\ [][StagesNext]_stagesVars /\ StagesFairness

-----------------------------------------------------------------------------
(* The properties of Pipeline for every stage.  Where a program goes on    *)
(* after a failed pipe, the descriptors of that line are any numbers and   *)
(* nothing is said of it.                                                  *)

StagesTypeOK ==
  /\ pc \in Places \cup {"read"}
  /\ ShellTypeOK
  /\ stage \in Stage
  /\ DebugMode \in BOOLEAN
  /\ unnoticed \in BOOLEAN

(* Each program of a pipeline has its own end of its own pipe and no other *)
(* descriptor of any pipe, in the shells, the pipelines built by hand and  *)
(* the one that looks at no result.                                        *)
EndsOfStage == unnoticed \/ ProgramsSeeTheirEnds

(* The program comes back to where it started with the descriptors it      *)
(* started with.                                                           *)
TableOfStage == unnoticed \/ ShellTableRestored

(* Every child of a foreground line is over and collected at the prompt.   *)
(* The earlier shell collects the first program of a pipeline only.        *)
ForegroundOfStage ==
  IF stage = "warmup4"
  THEN pc = "prompt" => \A k \in 1 .. line : cmds[k].blocking =>
         state[<<k, 1>>] \in {"unborn", "reaped"}
  ELSE ForegroundIsOver

(* Where the result of fopen is looked at, a program has its redirections  *)
(* in their places.                                                        *)
RedirectionsOfStage == stage = "warmup2" => RedirectionsHold

(* When the writing program is over the reading one gets end of file. *)
EofOfStage ==
  \A k \in Line :
    (~unnoticed /\ Ended(<<k, 1>>) /\ Alive(<<k, 2>>)) ~> Ended(<<k, 2>>)

(* When the reading program is over or will never exist, the writing one   *)
(* is ended by SIGPIPE.                                                    *)
SigpipeOfStage ==
  \A k \in Line :
    (~unnoticed /\ k <= line /\ cmds[k].piped /\ Alive(<<k, 1>>)
       /\ (Ended(<<k, 2>>) \/ (state[<<k, 2>>] = "unborn" /\ pc = "exited")))
    ~> Ended(<<k, 1>>)

(* Once a program of the line has ended the waits for it end, also the     *)
(* parent's of mypipe, which reads until no write end is left.             *)
PromptOfStage ==
  (~unnoticed /\ pc \in {"wait1", "wait2", "read"} /\ (Ended(First) \/ Ended(Second)))
    ~> pc = "prompt"
=============================================================================
