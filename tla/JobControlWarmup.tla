-------------------------- MODULE JobControlWarmup --------------------------
(***************************************************************************)
(* The first job-control shell, lab-5/warmup/task2.c.  Against the later   *)
(* ones, see JobControl:                                                   *)
(*   - nodes are added at the end of the list, so a search by pid meets    *)
(*     the oldest job with that pid;                                       *)
(*   - nothing is polled before a job is ended, it is signalled as shown;  *)
(*   - kill sends SIGINT, listed or not, and shows the job as terminated;  *)
(*   - the pid 0 is accepted and means the shell and all its children.     *)
(***************************************************************************)
EXTENDS Processes

VARIABLES
  pc,       (* the system call the shell makes next                        *)
  job,      (* the node of the wait or of terminateProcess                 *)
  todo,     (* nodes procs has still to poll                               *)
  listed,   (* nodes in the process list                                   *)
  status    (* process.status of each node                                 *)

shellVars == <<pc, job, todo, listed, status>>
vars == <<shellVars, kernelVars>>

TERMINATED == "Terminated"
RUNNING == "Running"
SUSPENDED == "Suspended"

TypeOK ==
  /\ pc \in {"prompt", "wait", "procs", "quit", "cont", "exited",
             "stopped", "killed"}
  /\ job \in Slot \cup {0}
  /\ todo \subseteq Slot
  /\ listed \subseteq Slot
  /\ status \in [Slot -> {TERMINATED, RUNNING, SUSPENDED}]
  /\ KernelTypeOK

Init ==
  /\ pc = "prompt"
  /\ job = 0
  /\ todo = {}
  /\ listed = {}
  /\ status = [n \in Slot |-> RUNNING]
  /\ KernelInit

IsHead(n, S) == n \in S /\ \A m \in S : n <= m

IsFirst(n, q) ==
  /\ n \in listed
  /\ pid[n] = q
  /\ \A m \in listed : pid[m] = q => n <= m

updateProcessStatus(q, new) ==
  status' = [n \in Slot |-> IF IsFirst(n, q) THEN new ELSE status[n]]

(* update_process_status_from_wait_status of the poll. *)
ReportedStatus(q, old) ==
  IF \E n \in Slot : Holds(n, q) /\ kstate[n] = "zombie" THEN TERMINATED
  ELSE IF \E n \in Slot : Holds(n, q) /\ event[n] = "stopped" THEN SUSPENDED
  ELSE IF \E n \in Slot : Holds(n, q) /\ event[n] = "continued" THEN RUNNING
  ELSE old

-----------------------------------------------------------------------------
Execute(blocking, q) ==
  /\ pc = "prompt"
  /\ Fork(q)
  /\ listed' = listed \cup {forks + 1}
  /\ status' = [status EXCEPT ![forks + 1] = RUNNING]
  /\ pc' = IF blocking THEN "wait" ELSE "prompt"
  /\ job' = IF blocking THEN forks + 1 ELSE job
  /\ UNCHANGED todo

WaitReturns ==
  /\ pc = "wait"
  /\ \/ /\ \E n \in Slot : Holds(n, pid[job]) /\ kstate[n] = "zombie"
        /\ updateProcessStatus(pid[job], TERMINATED)
     \/ ~OurChild(pid[job]) /\ UNCHANGED status
  /\ Collect(pid[job])
  /\ pc' = "prompt"
  /\ UNCHANGED <<job, todo, listed, tableVars>>

SendSignalCmd(q, sig, newStatus) ==
  /\ pc = "prompt"
  /\ Exists(q)
  /\ Generate(q, sig)
  /\ updateProcessStatus(q, newStatus)
  /\ UNCHANGED <<pc, job, todo, listed, tableVars>>

Suspend(q) == SendSignalCmd(q, "TSTP", SUSPENDED)

Kill(q) == SendSignalCmd(q, "INT", TERMINATED)

Wake(q) == SendSignalCmd(q, "CONT", RUNNING)

(* Pid 0: every child and the shell itself, which has no handlers. *)
SignalGroup(sig) ==
  /\ pc = "prompt"
  /\ LET resumes(n) == sig = "CONT" /\ kstate[n] = "stopped"
     IN
       /\ kstate' = [n \in Slot |-> IF resumes(n) THEN "running" ELSE kstate[n]]
       /\ event' = [n \in Slot |-> IF resumes(n) THEN "continued" ELSE event[n]]
  /\ pending' = [n \in Slot |->
                   IF kstate[n] \notin {"running", "stopped"} THEN pending[n]
                   ELSE IF sig = "CONT" THEN pending[n] \ {"TSTP"}
                   ELSE pending[n] \cup {sig}]
  /\ pc' = CASE sig = "INT" -> "killed"
             [] sig = "TSTP" -> "stopped"
             [] sig = "CONT" -> "prompt"
  /\ UNCHANGED <<job, todo, listed, status, tableVars>>

(* The parent of the shell continues it. *)
ShellResumed ==
  /\ pc = "stopped"
  /\ pc' = "prompt"
  /\ UNCHANGED <<job, todo, listed, status, kernelVars>>

-----------------------------------------------------------------------------
ProcsStart ==
  /\ pc = "prompt"
  /\ pc' = "procs"
  /\ todo' = {n \in listed : status[n] # TERMINATED}
  /\ UNCHANGED <<job, listed, status, kernelVars>>

ProcsPoll(n) ==
  /\ pc = "procs"
  /\ IsHead(n, todo)
  /\ todo' = todo \ {n}
  /\ status' = [status EXCEPT ![n] = ReportedStatus(pid[n], status[n])]
  /\ Collect(pid[n])
  /\ UNCHANGED <<pc, job, listed, tableVars>>

(* terminateProcess of a terminated node does nothing. *)
ProcsFinish ==
  /\ pc = "procs"
  /\ todo = {}
  /\ listed' = {n \in listed : status[n] # TERMINATED}
  /\ pc' = "prompt"
  /\ UNCHANGED <<job, todo, status, kernelVars>>

Leave ==
  /\ pc = "prompt"
  /\ pc' = "quit"
  /\ UNCHANGED <<job, todo, listed, status, kernelVars>>

(* Mutant: only jobs shown as running are signalled when leaving. *)
FreeNextRunningOnly(n) ==
  /\ pc = "quit"
  /\ IsHead(n, listed)
  /\ listed' = listed \ {n}
  /\ IF status[n] # RUNNING THEN UNCHANGED processVars ELSE Generate(pid[n], "INT")
  /\ UNCHANGED <<pc, job, todo, status, tableVars>>

(* freeProcess of the next node: the SIGINT, and a SIGCONT to follow for a *)
(* suspended one unless the SIGINT failed.  A foreign process may refuse.  *)
FreeNext(n) ==
  /\ pc = "quit"
  /\ IsHead(n, listed)
  /\ listed' = listed \ {n}
  /\ IF status[n] = TERMINATED THEN UNCHANGED processVars
     ELSE Generate(pid[n], "INT")
  /\ job' = n
  /\ \/ status[n] = SUSPENDED /\ Exists(pid[n]) /\ pc' = "cont"
     \/ ~(status[n] = SUSPENDED /\ OurChild(pid[n])) /\ pc' = "quit"
  /\ UNCHANGED <<todo, status, tableVars>>

SendCont ==
  /\ pc = "cont"
  /\ Generate(pid[job], "CONT")
  /\ pc' = "quit"
  /\ UNCHANGED <<job, todo, listed, status, tableVars>>

Exit ==
  /\ pc = "quit"
  /\ listed = {}
  /\ pc' = "exited"
  /\ UNCHANGED <<job, todo, listed, status, kernelVars>>

ShellContinues ==
  \/ WaitReturns \/ ProcsFinish \/ SendCont \/ Exit
  \/ \E n \in Slot : ProcsPoll(n) \/ FreeNext(n)

Command ==
  \/ \E blocking \in BOOLEAN, q \in Pid : Execute(blocking, q)
  \/ \E q \in Pid : Suspend(q) \/ Kill(q) \/ Wake(q)
  \/ \E sig \in {"INT", "TSTP", "CONT"} : SignalGroup(sig)
  \/ ProcsStart
  \/ Leave

Environment == KernelNext /\ UNCHANGED shellVars

Next == ShellContinues \/ Command \/ ShellResumed \/ Environment

Spec == Init /\ [][Next]_vars

-----------------------------------------------------------------------------
Live(n) == kstate[n] \in {"running", "stopped"}

Notified(n) == "INT" \in pending[n] \/ n \in Stubborn

(* Before the shell leaves, a live child that is shown as terminated or    *)
(* missing from the list was sent SIGINT.                                  *)
TerminatedWasSignalled ==
  pc \notin {"quit", "cont", "exited"} => \A n \in Slot :
    Live(n) /\ (n \notin listed \/ status[n] = TERMINATED) => Notified(n)

(* Once the shell has left through main, each live child was sent SIGINT.  *)
QuitNotifies == pc = "exited" => \A n \in Slot : Live(n) => Notified(n)
=============================================================================
