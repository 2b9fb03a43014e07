----------------------------- MODULE JobControl -----------------------------
(***************************************************************************)
(* The job-control shell of lab-5/post-actual/task2.c together with the    *)
(* part of the kernel it talks to: fork, waitpid, kill, stop and continue  *)
(* signals, zombies and the reuse of process ids.                          *)
(*                                                                         *)
(* The shell is sequential; everything hard comes from the children, which *)
(* stop, continue and die between any two of its system calls.  Hence one  *)
(* action per system call of the shell, with the computation that follows  *)
(* it up to the next call.                                                 *)
(*                                                                         *)
(* A process-list node is named by the fork that created it, numbered from *)
(* 1.  addProcess inserts at the head and removals keep the order, so the  *)
(* linked list is the set `listed' read from its largest element down.     *)
(***************************************************************************)
EXTENDS Processes

VARIABLES
  pc,           (* the system call the shell makes next                    *)
  leaving,      (* inside freeProcessList, on the way out of main          *)
  job,          (* the node of the wait or of the termination in progress  *)
  todo,         (* nodes updateProcessList has still to poll               *)
  listed,       (* nodes reachable from the head of the process list       *)
  status,       (* process.status of each node                             *)
  freed         (* nodes given back to malloc                              *)

listVars == <<listed, status, freed>>
shellVars == <<pc, leaving, job, todo, listed, status, freed>>
vars == <<shellVars, kernelVars>>

TERMINATED == "Terminated"
RUNNING == "Running"
SUSPENDED == "Suspended"

TypeOK ==
  /\ pc \in {"prompt", "wait", "procs", "check", "int", "cont", "quit",
             "exited", "undefined"}
  /\ leaving \in BOOLEAN
  /\ job \in Slot \cup {0}
  /\ pc \in {"wait", "check", "int", "cont"} => job \in Slot
  /\ todo \subseteq Slot
  /\ listed \subseteq Slot
  /\ status \in [Slot -> {TERMINATED, RUNNING, SUSPENDED}]
  /\ freed \subseteq Slot
  /\ KernelTypeOK

Init ==
  /\ pc = "prompt"
  /\ leaving = FALSE
  /\ job = 0
  /\ todo = {}
  /\ listed = {}
  /\ status = [n \in Slot |-> RUNNING]
  /\ freed = {}
  /\ KernelInit

-----------------------------------------------------------------------------
(* convert_wait_status of what waitpid(q, WNOHANG|WUNTRACED|WCONTINUED)    *)
(* reports, and the old status where it reports nothing or fails.          *)

ReportedStatus(q, old) ==
  IF \E n \in Slot : Holds(n, q) /\ kstate[n] = "zombie" THEN TERMINATED
  ELSE IF \E n \in Slot : Holds(n, q) /\ event[n] = "stopped" THEN SUSPENDED
  ELSE IF \E n \in Slot : Holds(n, q) /\ event[n] = "continued" THEN RUNNING
  ELSE old

-----------------------------------------------------------------------------
(* The process list.                                                       *)

IsHead(n, S) == n \in S /\ \A m \in S : m <= n

(* Mutant: new nodes at the tail, so a search meets the oldest job first. *)
IsFirstOldest(n, q) ==
  /\ n \in listed
  /\ pid[n] = q
  /\ \A m \in listed : pid[m] = q => n <= m

(* n is the node find_process_by_pid returns for q. *)
IsFirst(n, q) ==
  /\ n \in listed
  /\ pid[n] = q
  /\ \A m \in listed : pid[m] = q => m <= n

(* A search for q, or a walk of the whole list, reads a freed node. *)
SearchTouchesFreed(q) ==
  \E d \in listed \cap freed :
    \A m \in listed : (pid[m] = q /\ m \notin freed) => m < d

WalkTouchesFreed == listed \cap freed # {}

updateProcessStatus(q, new) ==
  status' = [n \in Slot |-> IF IsFirst(n, q) THEN new ELSE status[n]]

-----------------------------------------------------------------------------
(* Running a program: fork and addProcess, then the prompt or the wait.    *)
Execute(blocking, q) ==
  /\ pc = "prompt"
  /\ Fork(q)
  /\ listed' = listed \cup {forks + 1}
  /\ status' = [status EXCEPT ![forks + 1] = RUNNING]
  /\ pc' = IF blocking THEN "wait" ELSE "prompt"
  /\ job' = IF blocking THEN forks + 1 ELSE job
  /\ UNCHANGED <<leaving, todo, freed>>

(* Mutant: the node of the foreground child keeps its status. *)
WaitReturnsUnmarked ==
  /\ pc = "wait"
  /\ \E n \in Slot : Holds(n, pid[job]) /\ kstate[n] = "zombie"
  /\ Collect(pid[job])
  /\ pc' = "prompt"
  /\ UNCHANGED <<leaving, job, todo, listed, status, freed, tableVars>>

(* The wait for a foreground child, flags 0: it ends when the child has    *)
(* died.  A stopped child keeps the shell waiting.                         *)
WaitReturns ==
  /\ pc = "wait"
  /\ \E n \in Slot : Holds(n, pid[job]) /\ kstate[n] = "zombie"
  /\ Collect(pid[job])
  /\ updateProcessStatus(pid[job], TERMINATED)
  /\ pc' = "prompt"
  /\ UNCHANGED <<leaving, job, todo, listed, freed, tableVars>>

(* ECHILD: remove_process_by_pid is given the head by value, so it frees   *)
(* the first node while the list of main still starts with it.             *)
WaitNoChild ==
  /\ pc = "wait"
  /\ ~OurChild(pid[job])
  /\ freed' = freed \cup {n \in Slot : IsFirst(n, pid[job])}
  /\ pc' = "prompt"
  /\ UNCHANGED <<leaving, job, todo, listed, status, kernelVars>>

-----------------------------------------------------------------------------
(* procs: poll every node, print, remove the terminated ones.              *)
ProcsStart ==
  /\ pc = "prompt"
  /\ IF WalkTouchesFreed
     THEN pc' = "undefined" /\ UNCHANGED todo
     ELSE pc' = "procs" /\ todo' = {n \in listed : status[n] # TERMINATED}
  /\ UNCHANGED <<leaving, job, listVars, kernelVars>>

ProcsPoll(n) ==
  /\ pc = "procs"
  /\ IsHead(n, todo)
  /\ todo' = todo \ {n}
  /\ status' = [status EXCEPT ![n] = ReportedStatus(pid[n], status[n])]
  /\ Collect(pid[n])
  /\ UNCHANGED <<pc, leaving, job, listed, freed, tableVars>>

(* Mutant: everything that is not running is removed. *)
ProcsFinishRunningOnly ==
  /\ pc = "procs"
  /\ todo = {}
  /\ listed' = {n \in listed : status[n] = RUNNING}
  /\ freed' = freed \cup {n \in listed : status[n] # RUNNING}
  /\ pc' = "prompt"
  /\ UNCHANGED <<leaving, job, todo, status, kernelVars>>

(* Mutant: remove_process frees the node without unlinking it. *)
ProcsFinishLinked ==
  /\ pc = "procs"
  /\ todo = {}
  /\ freed' = freed \cup {n \in listed : status[n] = TERMINATED}
  /\ pc' = "prompt"
  /\ UNCHANGED <<leaving, job, todo, listed, status, kernelVars>>

ProcsFinish ==
  /\ pc = "procs"
  /\ todo = {}
  /\ listed' = {n \in listed : status[n] # TERMINATED}
  /\ freed' = freed \cup {n \in listed : status[n] = TERMINATED}
  /\ pc' = "prompt"
  /\ UNCHANGED <<leaving, job, todo, status, kernelVars>>

-----------------------------------------------------------------------------
(* suspend and wake signal the pid they are given, listed or not, and then *)
(* set the status of its first node.  A kill that fails changes nothing.   *)
SendSignalCmd(q, sig, newStatus) ==
  /\ pc = "prompt"
  /\ Exists(q)
  /\ Generate(q, sig)
  /\ IF SearchTouchesFreed(q)
     THEN pc' = "undefined" /\ UNCHANGED status
     ELSE updateProcessStatus(q, newStatus) /\ UNCHANGED pc
  /\ UNCHANGED <<leaving, job, todo, listed, freed, tableVars>>

Suspend(q) == SendSignalCmd(q, "TSTP", SUSPENDED)

Wake(q) == SendSignalCmd(q, "CONT", RUNNING)

(* kill: find the node, then terminateProcess from "check". *)
KillCmd(n) ==
  /\ pc = "prompt"
  /\ IF SearchTouchesFreed(pid[n])
     THEN pc' = "undefined" /\ UNCHANGED job
     ELSE /\ IsFirst(n, pid[n])
          /\ pc' = "check"
          /\ job' = n
  /\ UNCHANGED <<leaving, todo, listVars, kernelVars>>

(* terminateProcess is over: kill is back at the prompt; freeProcessList   *)
(* frees the node and goes to the next.                                    *)
TerminateDone ==
  IF leaving
  THEN /\ pc' = "quit"
       /\ listed' = listed \ {job}
       /\ freed' = freed \cup {job}
  ELSE /\ pc' = "prompt"
       /\ UNCHANGED <<listed, freed>>

(* Mutant: NO_CHILD is treated like UNCHANGED. *)
CheckPolledNoChild ==
  /\ pc = "check"
  /\ status[job] # TERMINATED
  /\ LET new == ReportedStatus(pid[job], status[job]) IN
       /\ status' = [status EXCEPT ![job] = new]
       /\ IF new # TERMINATED
          THEN pc' = "int" /\ UNCHANGED <<listed, freed>>
          ELSE TerminateDone
  /\ Collect(pid[job])
  /\ UNCHANGED <<leaving, job, todo, tableVars>>

(* Mutant: suspended jobs are not signalled. *)
CheckPolledRunningOnly ==
  /\ pc = "check"
  /\ status[job] # TERMINATED
  /\ LET new == ReportedStatus(pid[job], status[job]) IN
       /\ status' = [status EXCEPT ![job] = new]
       /\ IF OurChild(pid[job]) /\ new = RUNNING
          THEN pc' = "int" /\ UNCHANGED <<listed, freed>>
          ELSE TerminateDone
  /\ Collect(pid[job])
  /\ UNCHANGED <<leaving, job, todo, tableVars>>

(* Mutant: the poll lacks WNOHANG and blocks until there is news. *)
CheckPolledBlocking ==
  /\ pc = "check"
  /\ status[job] # TERMINATED
  /\ \E n \in Slot : Holds(n, pid[job]) /\ (kstate[n] = "zombie" \/ event[n] # "none")
  /\ LET new == ReportedStatus(pid[job], status[job]) IN
       /\ status' = [status EXCEPT ![job] = new]
       /\ IF new # TERMINATED
          THEN pc' = "int" /\ UNCHANGED <<listed, freed>>
          ELSE TerminateDone
  /\ Collect(pid[job])
  /\ UNCHANGED <<leaving, job, todo, tableVars>>

(* check_process_state_and_update_status: only a child that waitpid knows  *)
(* and that is not dead goes on to be signalled.                           *)
CheckTerminated ==
  /\ pc = "check"
  /\ status[job] = TERMINATED
  /\ TerminateDone
  /\ UNCHANGED <<leaving, job, todo, status, kernelVars>>

CheckPolled ==
  /\ pc = "check"
  /\ status[job] # TERMINATED
  /\ LET new == ReportedStatus(pid[job], status[job]) IN
       /\ status' = [status EXCEPT ![job] = new]
       /\ IF OurChild(pid[job]) /\ new # TERMINATED
          THEN pc' = "int" /\ UNCHANGED <<listed, freed>>
          ELSE TerminateDone
  /\ Collect(pid[job])
  /\ UNCHANGED <<leaving, job, todo, tableVars>>

(* terminate_process_from_pid_and_status: SIGINT, and SIGCONT after it for *)
(* a suspended one unless the SIGINT failed.                               *)
SendInt ==
  /\ pc = "int"
  /\ Generate(pid[job], "INT")
  /\ IF status[job] = SUSPENDED /\ Exists(pid[job])
     THEN pc' = "cont" /\ UNCHANGED <<listed, freed>>
     ELSE TerminateDone
  /\ UNCHANGED <<leaving, job, todo, status, tableVars>>

(* Mutant: the SIGCONT after the SIGINT is forgotten. *)
SendContForgotten ==
  /\ pc = "cont"
  /\ TerminateDone
  /\ UNCHANGED <<leaving, job, todo, status, kernelVars>>

SendCont ==
  /\ pc = "cont"
  /\ Generate(pid[job], "CONT")
  /\ TerminateDone
  /\ UNCHANGED <<leaving, job, todo, status, tableVars>>

-----------------------------------------------------------------------------
(* quit, end of input, or a fork that fails: freeProcessList.              *)
Leave ==
  /\ pc = "prompt"
  /\ leaving' = TRUE
  /\ pc' = "quit"
  /\ UNCHANGED <<job, todo, listVars, kernelVars>>

FreeNext(n) ==
  /\ pc = "quit"
  /\ IsHead(n, listed)
  /\ job' = n
  /\ pc' = IF n \in freed THEN "undefined" ELSE "check"
  /\ UNCHANGED <<leaving, todo, listVars, kernelVars>>

Exit ==
  /\ pc = "quit"
  /\ listed = {}
  /\ pc' = "exited"
  /\ UNCHANGED <<leaving, job, todo, listVars, kernelVars>>

-----------------------------------------------------------------------------
(* Steps the shell takes by itself, without waiting for a command. *)
ShellContinues ==
  \/ WaitReturns \/ WaitNoChild
  \/ ProcsFinish \/ \E n \in Slot : ProcsPoll(n)
  \/ CheckTerminated \/ CheckPolled \/ SendInt \/ SendCont
  \/ Exit \/ \E n \in Slot : FreeNext(n)

Command ==
  \/ \E blocking \in BOOLEAN, q \in Pid : Execute(blocking, q)
  \/ ProcsStart
  \/ \E q \in Pid : Suspend(q) \/ Wake(q)
  \/ \E n \in listed : KillCmd(n)
  \/ Leave

Environment == KernelNext /\ UNCHANGED shellVars

Next == ShellContinues \/ Command \/ Environment

Spec == Init /\ [][Next]_vars

(* The shell is scheduled, and a runnable child takes its signals; nothing *)
(* is assumed of the programs or of who types the commands.                *)
FairSpec ==
  /\ Spec
  /\ WF_vars(ShellContinues)
  /\ \A n \in Slot : WF_vars(Delivery(n) /\ UNCHANGED shellVars)

-----------------------------------------------------------------------------
(* Safety.                                                                 *)

(* Until the shell leaves, every child it has not reaped is the first node *)
(* of its pid in the list and not shown as terminated: suspend, kill and   *)
(* wake by pid reach that child and not an older job that had its pid.     *)
Tracked ==
  ~leaving => \A n \in Slot : Unreaped(n) =>
    IsFirst(n, pid[n]) /\ status[n] # TERMINATED /\ n \notin freed

(* kill and quit signal a pid only while a child of the shell holds it:    *)
(* between the waitpid that found it and the kill it cannot be reused, as  *)
(* long as the shell reaps its children itself.                            *)
SignalsOwnChild ==
  ~autoReap /\ pc \in {"int", "cont"} => OurChild(pid[job])

(* The list never contains a node that was freed (the chain of             *)
(* process.next stays inside live nodes).                                  *)
ListIsLive == listed \cap freed = {}

(* That holds while the shell alone reaps its children.                    *)
OwnedListIsLive == ~autoReap => ListIsLive

(* A node shown as running or suspended is of a process that was not yet   *)
(* reaped: its pid still means that process.                               *)
ShownAliveIsUnreaped ==
  \A n \in listed : status[n] # TERMINATED => Unreaped(n)

(* That holds while the pids of dead jobs go to no foreign process.        *)
Alone == ~autoReap /\ ~foreignPids
AloneShownAliveIsUnreaped == Alone => ShownAliveIsUnreaped

(* Once the shell has left through freeProcessList, each of its children   *)
(* is dead or has been sent the SIGINT that ends it.                       *)
QuitNotifies ==
  pc = "exited" => \A n \in Slot :
    kstate[n] \in {"running", "stopped"} =>
      "INT" \in pending[n] \/ n \in Stubborn

-----------------------------------------------------------------------------
(* Action properties.                                                      *)

(* A terminated job is never shown as running or suspended again, whatever *)
(* pid suspend and wake are given and however our children reuse pids.     *)
TerminatedIsFinal ==
  [][Alone => \A n \in listed : status[n] = TERMINATED => status'[n] = TERMINATED]_vars

(* The SIGCONT that follows the SIGINT to a suspended job leaves no child  *)
(* of that pid stopped, and the SIGINT is pending or already delivered.    *)
ContFinishesKill ==
  [][pc = "cont" /\ pc' # "cont" =>
       \A n \in Slot : Holds(n, pid[job]) =>
         \/ kstate'[n] = "zombie"
         \/ kstate'[n] = "running" /\ (n \in Stubborn \/ "INT" \in pending'[n])]_vars

-----------------------------------------------------------------------------
(* Liveness under FairSpec.                                                *)

(* Leaving never hangs on a child: freeProcessList polls with WNOHANG.     *)
QuitExits == leaving ~> pc = "exited"

(* A suspended job that is killed does die once it has been resumed.       *)
SuspendedKillEnds ==
  \A n \in Slot \ Stubborn :
    (pc = "cont" /\ job = n) ~> kstate[n] \in {"zombie", "reaped"}

-----------------------------------------------------------------------------
(* The inductive invariant behind the safety properties.                   *)

(* No two unreaped children have the same pid. *)
PidsUnique ==
  \A m, n \in Slot : Unreaped(m) /\ Unreaped(n) /\ pid[m] = pid[n] => m = n

(* Nodes and processes are those of the forks made so far. *)
ForkOrder ==
  /\ \A n \in Slot : kstate[n] = "unborn" <=> n > forks
  /\ listed \subseteq 1 .. forks
  /\ freed \subseteq 1 .. forks

(* What the shell is doing, against the list. *)
Control ==
  /\ pc \in {"prompt", "wait", "procs"} => ~leaving
  /\ pc \in {"quit", "exited"} => leaving
  /\ pc = "wait" => job = forks /\ job \in listed
  /\ pc \in {"check", "int", "cont"} => job \in listed
  /\ pc = "procs" => todo \subseteq {n \in listed : status[n] # TERMINATED}
  /\ pc = "exited" => listed = {}

Live(n) == kstate[n] \in {"running", "stopped"}

(* n needs no more from the shell to end. *)
Notified(n) == "INT" \in pending[n] \/ n \in Stubborn

(* While leaving, a live child is either still ahead in the list or was    *)
(* signalled.                                                              *)
LeavingNotifies ==
  /\ leaving => \A n \in Slot : Live(n) =>
       (n \in listed /\ status[n] # TERMINATED) \/ Notified(n)
  /\ pc = "cont" => (Live(job) => Notified(job))

IInv ==
  TypeOK /\ PidsUnique /\ ForkOrder /\ Control /\ Tracked /\ LeavingNotifies

(* With the children reaped by the shell alone. *)
WaitHasChild == pc = "wait" => Unreaped(job)
IInvOwn == ~autoReap => ListIsLive /\ SignalsOwnChild /\ WaitHasChild

(* And with no foreign process on a freed pid. *)
IInvAlone == Alone => foreign = {} /\ ShownAliveIsUnreaped

-----------------------------------------------------------------------------
(* The job table this shell promises its user, see JobTable.               *)
phase == [n \in Slot |->
  IF kstate[n] = "unborn" THEN "none"
  ELSE IF n \notin listed THEN "forgotten"
  ELSE CASE kstate[n] \in {"running", "stopped"} -> "live"
         [] kstate[n] = "zombie" -> "dead"
         [] kstate[n] = "reaped" -> "reported"]

Table == INSTANCE JobTable WITH Job <- Slot, gone <- leaving

(* The shell with its kernel implements the job table. *)
TableSpec == Table!Spec
=============================================================================
