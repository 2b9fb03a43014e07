------------------------------ MODULE OldShells ------------------------------
(***************************************************************************)
(* The earlier shells of lab-5: one of them is started, under the kernel   *)
(* of Processes.                                                           *)
(***************************************************************************)
EXTENDS Processes

VARIABLES version, pc, caller, job, todo, listed, status

Actual == INSTANCE JobControlActual
Warmup == INSTANCE JobControlWarmup
First == INSTANCE JobControlFirst

vars == <<version, Actual!vars>>

Init ==
  \/ version = "actual" /\ Actual!Init
  \/ version = "warmup" /\ Warmup!Init /\ caller = "kill"
  \/ /\ version = "first" /\ First!Init
     /\ caller = "kill" /\ todo = {} /\ listed = {}
     /\ status = [n \in Slot |-> Actual!RUNNING]

Next ==
  /\ UNCHANGED version
  /\ \/ version = "actual" /\ Actual!Next
     \/ version = "warmup" /\ Warmup!Next /\ UNCHANGED caller
     \/ version = "first" /\ First!Next /\ UNCHANGED <<caller, todo, listed, status>>

Spec == Init /\ [][Next]_vars

(* Every variable of the shell that runs has its type. *)
TypeOK ==
  CASE version = "actual" -> Actual!TypeOK
    [] version = "warmup" -> Warmup!TypeOK
    [] version = "first" -> First!TypeOK

(* A live child that kill showed as terminated, or that is not in the list *)
(* before the shell leaves, was sent SIGINT.                               *)
KillsWhatItForgets ==
  CASE version = "actual" -> Actual!TerminatedWasSignalled
    [] version = "warmup" -> Warmup!TerminatedWasSignalled
    [] version = "first" -> TRUE     (* it lists no child and ends none *)

(* Once the shell has left, each live child was sent SIGINT. *)
QuitNotifies ==
  CASE version = "actual" -> Actual!QuitNotifies
    [] version = "warmup" -> Warmup!QuitNotifies
    [] version = "first" -> TRUE

(* A wait for a foreground program is over when that program was collected, *)
(* by this waitpid or by the kernel before it, and not when it is stopped,  *)
(* another process has its pid, or it was signalled.                        *)
WaitsForItsProgram ==
  [][pc = "wait" /\ pc' # "wait" => kstate'[job] = "reaped"]_vars
=============================================================================
