-------------------------- MODULE JobControlFirst ---------------------------
(***************************************************************************)
(* The shells of lab-5 before the process list, task1.c of post-actual,    *)
(* actual and warmup.  They start programs, wait for those of the          *)
(* foreground, and forget the others; the three differ in what they print. *)
(***************************************************************************)
EXTENDS Processes

VARIABLES
  pc,       (* the system call the shell makes next                        *)
  job       (* the program the shell waits for                             *)

shellVars == <<pc, job>>
vars == <<shellVars, kernelVars>>

TypeOK ==
  /\ pc \in {"prompt", "wait", "exited"}
  /\ job \in Slot \cup {0}
  /\ KernelTypeOK

Init ==
  /\ pc = "prompt"
  /\ job = 0
  /\ KernelInit

Execute(blocking, q) ==
  /\ pc = "prompt"
  /\ Fork(q)
  /\ pc' = IF blocking THEN "wait" ELSE "prompt"
  /\ job' = IF blocking THEN forks + 1 ELSE job

(* fork fails and the shell leaves. *)
ForkFails ==
  /\ pc = "prompt"
  /\ pc' = "exited"
  /\ UNCHANGED <<job, kernelVars>>

(* Mutant: the wait is over when the program stops. *)
WaitReturnsStopped ==
  /\ pc = "wait"
  /\ \A n \in Slot : Holds(n, pid[job]) => kstate[n] \in {"stopped", "zombie"}
  /\ Collect(pid[job])
  /\ pc' = "prompt"
  /\ UNCHANGED <<job, tableVars>>

(* waitpid, whether it reports the end or has no such child to report on. *)
WaitReturns ==
  /\ pc = "wait"
  /\ \A n \in Slot : Holds(n, pid[job]) => kstate[n] = "zombie"
  /\ Collect(pid[job])
  /\ pc' = "prompt"
  /\ UNCHANGED <<job, tableVars>>

(* quit and the end of the input; children are left as they are. *)
Leave ==
  /\ pc = "prompt"
  /\ pc' = "exited"
  /\ UNCHANGED <<job, kernelVars>>

Next ==
  \/ \E blocking \in BOOLEAN, q \in Pid : Execute(blocking, q)
  \/ ForkFails
  \/ WaitReturns
  \/ Leave
  \/ KernelNext /\ UNCHANGED shellVars
=============================================================================
