-------------------------- MODULE JobControlActual --------------------------
(***************************************************************************)
(* The earlier job-control shell, lab-5/actual/task2.c.  It differs from   *)
(* post-actual/task2.c, see JobControl, where processes are ended:         *)
(*   - terminateProcess polls every node, terminated ones too, takes       *)
(*     ECHILD for "unchanged" and then always acts on the status;          *)
(*   - kill shows the job as terminated as soon as the signals were sent;  *)
(*   - procs goes through terminateProcess for each node it removes.       *)
(* Nodes are named by their fork and the list is read from the largest.    *)
(***************************************************************************)
EXTENDS Processes

VARIABLES
  pc,       (* the system call the shell makes next                        *)
  caller,   (* who called terminateProcess: kill, remove or quit           *)
  job,      (* the node of the wait or of terminateProcess                 *)
  todo,     (* nodes procs has still to poll, or then to remove            *)
  listed,   (* nodes in the process list                                   *)
  status    (* process.status of each node                                 *)

shellVars == <<pc, caller, job, todo, listed, status>>
vars == <<shellVars, kernelVars>>

TERMINATED == "Terminated"
RUNNING == "Running"
SUSPENDED == "Suspended"

TypeOK ==
  /\ pc \in {"prompt", "wait", "procs", "remove", "poll", "int", "cont",
             "quit", "exited"}
  /\ caller \in {"kill", "remove", "quit"}
  /\ job \in Slot \cup {0}
  /\ pc \in {"wait", "poll", "int", "cont"} => job \in Slot
  /\ todo \subseteq Slot
  /\ listed \subseteq Slot
  /\ status \in [Slot -> {TERMINATED, RUNNING, SUSPENDED}]
  /\ KernelTypeOK

Init ==
  /\ pc = "prompt"
  /\ caller = "kill"
  /\ job = 0
  /\ todo = {}
  /\ listed = {}
  /\ status = [n \in Slot |-> RUNNING]
  /\ KernelInit

IsHead(n, S) == n \in S /\ \A m \in S : m <= n

IsFirst(n, q) ==
  /\ n \in listed
  /\ pid[n] = q
  /\ \A m \in listed : pid[m] = q => m <= n

updateProcessStatus(q, new) ==
  status' = [n \in Slot |-> IF IsFirst(n, q) THEN new ELSE status[n]]

(* The status after check_process_state; UNCHANGED and errors keep it. *)
ReportedStatus(q, old) ==
  IF \E n \in Slot : Holds(n, q) /\ kstate[n] = "zombie" THEN TERMINATED
  ELSE IF \E n \in Slot : Holds(n, q) /\ event[n] = "stopped" THEN SUSPENDED
  ELSE IF \E n \in Slot : Holds(n, q) /\ event[n] = "continued" THEN RUNNING
  ELSE old

(* kill(2) succeeds for a child; for a foreign process it may be refused. *)
SignalResults(q) ==
  IF OurChild(q) THEN {TRUE} ELSE IF q \in foreign THEN BOOLEAN ELSE {FALSE}

-----------------------------------------------------------------------------
Execute(blocking, q) ==
  /\ pc = "prompt"
  /\ Fork(q)
  /\ listed' = listed \cup {forks + 1}
  /\ status' = [status EXCEPT ![forks + 1] = RUNNING]
  /\ pc' = IF blocking THEN "wait" ELSE "prompt"
  /\ job' = IF blocking THEN forks + 1 ELSE job
  /\ UNCHANGED <<caller, todo>>

(* The foreground wait; when it fails the node keeps its status. *)
WaitReturns ==
  /\ pc = "wait"
  /\ \/ /\ \E n \in Slot : Holds(n, pid[job]) /\ kstate[n] = "zombie"
        /\ updateProcessStatus(pid[job], TERMINATED)
     \/ ~OurChild(pid[job]) /\ UNCHANGED status
  /\ Collect(pid[job])
  /\ pc' = "prompt"
  /\ UNCHANGED <<caller, job, todo, listed, tableVars>>

SendSignalCmd(q, sig, newStatus) ==
  /\ pc = "prompt"
  /\ TRUE \in SignalResults(q)
  /\ Generate(q, sig)
  /\ updateProcessStatus(q, newStatus)
  /\ UNCHANGED <<pc, caller, job, todo, listed, tableVars>>

Suspend(q) == SendSignalCmd(q, "TSTP", SUSPENDED)

Wake(q) == SendSignalCmd(q, "CONT", RUNNING)

KillCmd(n) ==
  /\ pc = "prompt"
  /\ IsFirst(n, pid[n])
  /\ pc' = "poll"
  /\ caller' = "kill"
  /\ job' = n
  /\ UNCHANGED <<todo, listed, status, kernelVars>>

-----------------------------------------------------------------------------
(* terminateProcess returns to its caller; kill marks the job on success.  *)
Back(ok, st) ==
  CASE caller = "kill" ->
         /\ pc' = "prompt"
         /\ status' = IF ok THEN [st EXCEPT ![job] = TERMINATED] ELSE st
         /\ UNCHANGED listed
    [] caller = "remove" -> pc' = "remove" /\ status' = st /\ UNCHANGED listed
    [] caller = "quit" -> pc' = "quit" /\ status' = st /\ listed' = listed \ {job}

Poll ==
  /\ pc = "poll"
  /\ LET st == [status EXCEPT ![job] = ReportedStatus(pid[job], @)] IN
       IF st[job] = TERMINATED THEN Back(TRUE, st)
       ELSE pc' = "int" /\ status' = st /\ UNCHANGED listed
  /\ Collect(pid[job])
  /\ UNCHANGED <<caller, job, todo, tableVars>>

(* Mutant: success is reported without sending the signal. *)
SendIntNotSent ==
  /\ pc = "int"
  /\ Back(TRUE, status)
  /\ UNCHANGED <<caller, job, todo, kernelVars>>

SendInt ==
  /\ pc = "int"
  /\ Generate(pid[job], "INT")
  /\ \E ok \in SignalResults(pid[job]) :
       IF ok /\ status[job] = SUSPENDED
       THEN pc' = "cont" /\ UNCHANGED <<listed, status>>
       ELSE Back(ok, status)
  /\ UNCHANGED <<caller, job, todo, tableVars>>

SendCont ==
  /\ pc = "cont"
  /\ Generate(pid[job], "CONT")
  /\ \E ok \in SignalResults(pid[job]) : Back(ok, status)
  /\ UNCHANGED <<caller, job, todo, tableVars>>

-----------------------------------------------------------------------------
(* procs: poll what is not terminated, then remove what is. *)
ProcsStart ==
  /\ pc = "prompt"
  /\ pc' = "procs"
  /\ todo' = {n \in listed : status[n] # TERMINATED}
  /\ UNCHANGED <<caller, job, listed, status, kernelVars>>

ProcsPoll(n) ==
  /\ pc = "procs"
  /\ IsHead(n, todo)
  /\ todo' = todo \ {n}
  /\ status' = [status EXCEPT ![n] = ReportedStatus(pid[n], status[n])]
  /\ Collect(pid[n])
  /\ UNCHANGED <<pc, caller, job, listed, tableVars>>

ProcsPolled ==
  /\ pc = "procs"
  /\ todo = {}
  /\ pc' = "remove"
  /\ todo' = {n \in listed : status[n] = TERMINATED}
  /\ UNCHANGED <<caller, job, listed, status, kernelVars>>

RemoveNext(n) ==
  /\ pc = "remove"
  /\ IsHead(n, todo)
  /\ todo' = todo \ {n}
  /\ listed' = listed \ {n}
  /\ pc' = "poll"
  /\ caller' = "remove"
  /\ job' = n
  /\ UNCHANGED <<status, kernelVars>>

ProcsDone ==
  /\ pc = "remove"
  /\ todo = {}
  /\ pc' = "prompt"
  /\ UNCHANGED <<caller, job, todo, listed, status, kernelVars>>

(* quit, end of input or a failed fork: freeProcessList. *)
Leave ==
  /\ pc = "prompt"
  /\ pc' = "quit"
  /\ caller' = "quit"
  /\ UNCHANGED <<job, todo, listed, status, kernelVars>>

FreeNext(n) ==
  /\ pc = "quit"
  /\ IsHead(n, listed)
  /\ pc' = "poll"
  /\ job' = n
  /\ UNCHANGED <<caller, todo, listed, status, kernelVars>>

Exit ==
  /\ pc = "quit"
  /\ listed = {}
  /\ pc' = "exited"
  /\ UNCHANGED <<caller, job, todo, listed, status, kernelVars>>

ShellContinues ==
  \/ WaitReturns \/ Poll \/ SendInt \/ SendCont
  \/ ProcsPolled \/ ProcsDone \/ Exit
  \/ \E n \in Slot : ProcsPoll(n) \/ RemoveNext(n) \/ FreeNext(n)

Command ==
  \/ \E blocking \in BOOLEAN, q \in Pid : Execute(blocking, q)
  \/ \E q \in Pid : Suspend(q) \/ Wake(q)
  \/ \E n \in listed : KillCmd(n)
  \/ ProcsStart
  \/ Leave

Environment == KernelNext /\ UNCHANGED shellVars

Next == ShellContinues \/ Command \/ Environment

Spec == Init /\ [][Next]_vars

-----------------------------------------------------------------------------
Live(n) == kstate[n] \in {"running", "stopped"}

Notified(n) == "INT" \in pending[n] \/ n \in Stubborn

(* A live child shown as terminated, or removed from the list (before the  *)
(* shell leaves), was sent SIGINT: no job is lost that nobody asked to end. *)
TerminatedWasSignalled ==
  caller # "quit" => \A n \in Slot :
    Live(n) /\ (n \notin listed \/ status[n] = TERMINATED) => Notified(n)

(* Once the shell has left, each live child was sent the SIGINT. *)
QuitNotifies == pc = "exited" => \A n \in Slot : Live(n) => Notified(n)
=============================================================================
