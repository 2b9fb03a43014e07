------------------------------ MODULE JobTable ------------------------------
(***************************************************************************)
(* What a job-control shell promises about its jobs, without pids,         *)
(* signals, lists or system calls: a job that was started lives, dies, is  *)
(* reported exactly once to the shell and only then is forgotten; the      *)
(* forgetting (the procs command) takes every reported job at once.        *)
(* JobControl implements this module.                                      *)
(***************************************************************************)
CONSTANT Job
VARIABLES
  phase,  (* none, live, dead, reported or forgotten, for each job         *)
  gone    (* the user has left the shell; nothing is started after that    *)

TableTypeOK ==
  /\ phase \in [Job -> {"none", "live", "dead", "reported", "forgotten"}]
  /\ gone \in BOOLEAN

Init ==
  /\ phase = [j \in Job |-> "none"]
  /\ gone = FALSE

Become(j, from, to) ==
  /\ phase[j] = from
  /\ phase' = [phase EXCEPT ![j] = to]
  /\ UNCHANGED gone

Start(j) == ~gone /\ Become(j, "none", "live")

Die(j) == Become(j, "live", "dead")

Report(j) == Become(j, "dead", "reported")

(* procs drops the reported jobs, all of them and no other. *)
ForgetReported ==
  /\ ~gone
  /\ phase' = [j \in Job |-> IF phase[j] = "reported" THEN "forgotten"
                             ELSE phase[j]]
  /\ UNCHANGED gone

Leave == ~gone /\ gone' = TRUE /\ UNCHANGED phase

(* Leaving frees the table job by job, whatever their state. *)
Abandon(j) ==
  /\ gone
  /\ phase[j] \in {"live", "dead", "reported"}
  /\ Become(j, phase[j], "forgotten")

Next ==
  \/ \E j \in Job : Start(j) \/ Die(j) \/ Report(j) \/ Abandon(j)
  \/ ForgetReported
  \/ Leave

Spec == Init /\ [][Next]_<<phase, gone>>
=============================================================================
