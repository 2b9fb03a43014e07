---------------------------- MODULE Descriptors -----------------------------
(***************************************************************************)
(* File descriptors, pipes and processes as the pipeline shells of lab-6   *)
(* see them: pipe, fork, dup, close, waitpid, and reads and writes that    *)
(* block, end with end of file or are answered with SIGPIPE.               *)
(*                                                                         *)
(* Nothing here is source of the repository.  The shell runs one command   *)
(* line at a time; line k makes at most one pipe, k, and the children      *)
(* <<k, 1>> and <<k, 2>>.                                                  *)
(***************************************************************************)
EXTENDS Naturals, FiniteSets

CONSTANTS
  MaxLines,   (* bound: command lines typed                                *)
  MaxFd,      (* the largest descriptor a process may have                 *)
  Cap         (* what a pipe holds                                         *)

ASSUME DescriptorsAssumption ==
  /\ MaxLines \in Nat \ {0}
  /\ MaxFd \in Nat /\ MaxFd >= 2
  /\ Cap \in Nat \ {0}

Line == 1 .. MaxLines
Fds == 0 .. MaxFd
Shell == <<0, 0>>
Child == Line \X {1, 2}
Proc == Child \cup {Shell}

(* What a descriptor refers to. *)
None == <<0, "none">>
Inherited == <<0, "inherited">>
InFile == <<0, "infile">>
OutFile == <<0, "outfile">>
ReadEnd(k) == <<k, "read">>
WriteEnd(k) == <<k, "write">>
File == {None, Inherited, InFile, OutFile}
          \cup {ReadEnd(k) : k \in Line} \cup {WriteEnd(k) : k \in Line}

VARIABLES
  fd,         (* the descriptor table of each process                      *)
  buffer,     (* how much is in each pipe                                  *)
  state,      (* what each child is doing                                  *)
  autoReap    (* the shell inherited an ignored SIGCHLD: the kernel reaps  *)
              (* its children and waitpid fails when they have ended       *)

descVars == <<fd, buffer, state>>

DescTypeOK ==
  /\ fd \in [Proc -> [Fds -> File]]
  /\ buffer \in [Line -> 0 .. Cap]
  /\ state \in [Child -> {"unborn", "forked", "running", "zombie", "reaped"}]
  /\ autoReap \in BOOLEAN

Empty == [f \in Fds |-> None]

DescInit(stdio) ==
  /\ fd = [p \in Proc |-> IF p = Shell
                          THEN [f \in Fds |-> IF f \in stdio THEN Inherited ELSE None]
                          ELSE Empty]
  /\ buffer = [k \in Line |-> 0]
  /\ state = [c \in Child |-> "unborn"]
  /\ autoReap \in BOOLEAN

-----------------------------------------------------------------------------
(* System calls on a descriptor table.  Failed is the table of a process   *)
(* one of whose calls has failed.                                          *)

Failed == <<>>

Free(t) == {f \in Fds : t[f] = None}

Lowest(S) == CHOOSE f \in S : \A g \in S : f <= g

Close(t, f) ==
  IF t = Failed \/ f \notin Fds THEN Failed
  ELSE IF t[f] = None THEN Failed
  ELSE [t EXCEPT ![f] = None]

(* dup, and open: the lowest free descriptor is taken. *)
Open(t, file) ==
  IF t = Failed THEN Failed
  ELSE IF file = None \/ Free(t) = {} THEN Failed
  ELSE [t EXCEPT ![Lowest(Free(t))] = file]

Dup(t, f) == IF t = Failed \/ f \notin Fds THEN Failed ELSE Open(t, t[f])

(* pipe: the read end gets the lower of the two lowest free descriptors. *)
PipeFds(t) ==
  LET r == Lowest(Free(t)) IN <<r, Lowest(Free(t) \ {r})>>

Holders(file) == {p \in Proc : \E f \in Fds : fd[p][f] = file}

Alive(c) == state[c] \in {"forked", "running"}
Ended(c) == state[c] \in {"zombie", "reaped"}

ForkChild(c) ==
  /\ state' = [state EXCEPT ![c] = "forked"]
  /\ fd' = [fd EXCEPT ![c] = fd[Shell]]
  /\ UNCHANGED buffer

(* A child is over: its descriptors are closed. *)
Dies(c) ==
  /\ state' = [state EXCEPT ![c] = IF autoReap THEN "reaped" ELSE "zombie"]
  /\ fd' = [fd EXCEPT ![c] = Empty]

Runs(c, t) ==
  /\ state' = [state EXCEPT ![c] = "running"]
  /\ fd' = [fd EXCEPT ![c] = t]

(* waitpid, which reports the child or that it is gone; no caller looks. *)
Waited(c) ==
  /\ Ended(c)
  /\ state' = [state EXCEPT ![c] = "reaped"]
  /\ UNCHANGED <<fd, buffer>>

-----------------------------------------------------------------------------
(* The programs.  One whose standard output is a pipe writes to it, one    *)
(* whose standard input is a pipe reads it to its end; each may end        *)
(* earlier, and what has no pipe just ends at some time.                   *)

Write(c, k) ==
  /\ state[c] = "running"
  /\ fd[c][1] = WriteEnd(k)
  /\ IF Holders(ReadEnd(k)) = {}
     THEN Dies(c) /\ UNCHANGED buffer
     ELSE /\ buffer[k] < Cap
          /\ buffer' = [buffer EXCEPT ![k] = @ + 1]
          /\ UNCHANGED <<fd, state>>

Read(c, k) ==
  /\ state[c] = "running"
  /\ fd[c][0] = ReadEnd(k)
  /\ buffer[k] > 0
  /\ buffer' = [buffer EXCEPT ![k] = @ - 1]
  /\ UNCHANGED <<fd, state>>

ReadEof(c, k) ==
  /\ state[c] = "running"
  /\ fd[c][0] = ReadEnd(k)
  /\ buffer[k] = 0
  /\ Holders(WriteEnd(k)) = {}
  /\ Dies(c)
  /\ UNCHANGED buffer

Ends(c) ==
  /\ state[c] = "running"
  /\ Dies(c)
  /\ UNCHANGED buffer

Stream(c) == \E k \in Line : Write(c, k) \/ Read(c, k) \/ ReadEof(c, k)

ProgramsNext == \E c \in Child : Stream(c) \/ Ends(c)
=============================================================================
