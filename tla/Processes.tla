----------------------------- MODULE Processes ------------------------------
(***************************************************************************)
(* The kernel as a shell of the repository sees it: fork, waitpid and kill *)
(* on its children, stop and continue signals, zombies, and process ids    *)
(* that are given out again once their process was reaped.                 *)
(*                                                                         *)
(* Nothing here is source of the repository: the operators are what the    *)
(* shells rely on when they call fork, waitpid and kill.                   *)
(***************************************************************************)
EXTENDS Naturals, FiniteSets

CONSTANTS
  Pid,          (* process ids                                             *)
  NoPid,        (* the pid of a fork that has not happened                 *)
  MaxForks,     (* bound: forks the shell makes                            *)
  MaxExt,       (* bound: signals sent to the children by others           *)
  Stubborn,     (* forks whose program ignores SIGINT                      *)
  ReapModes,    (* the values of autoReap to start with                    *)
  ForeignModes  (* the values of foreignPids to start with                 *)

Slot == 1 .. MaxForks

ASSUME ConstantsAssumption ==
  /\ NoPid \notin Pid
  /\ MaxForks \in Nat
  /\ MaxExt \in Nat
  /\ Stubborn \subseteq Slot
  /\ ReapModes \subseteq BOOLEAN
  /\ ForeignModes \subseteq BOOLEAN

VARIABLES
  kstate,       (* what each forked process is doing                       *)
  event,        (* its stop or continue that waitpid has not reported      *)
  pending,      (* its pending signals                                     *)
  pid,          (* the pid it was given; also process.pid of its node      *)
  forks,        (* forks so far                                            *)
  foreign,      (* pids held by processes that are not our children        *)
  ext,          (* signals sent by others so far                           *)
  autoReap,     (* the shell inherited an ignored SIGCHLD: the kernel      *)
                (* reaps its children by itself                            *)
  foreignPids   (* processes of others may take a free pid                 *)

modeVars == <<autoReap, foreignPids>>
processVars == <<kstate, event, pending>>
tableVars == <<pid, forks, foreign, ext, modeVars>>
kernelVars == <<processVars, tableVars>>

KernelTypeOK ==
  /\ kstate \in [Slot -> {"unborn", "running", "stopped", "zombie", "reaped"}]
  /\ event \in [Slot -> {"none", "stopped", "continued"}]
  /\ pending \in [Slot -> SUBSET {"INT", "TSTP"}]
  /\ pid \in [Slot -> Pid \cup {NoPid}]
  /\ forks \in 0 .. MaxForks
  /\ foreign \subseteq Pid
  /\ ext \in 0 .. MaxExt
  /\ autoReap \in BOOLEAN
  /\ foreignPids \in BOOLEAN

KernelInit ==
  /\ kstate = [n \in Slot |-> "unborn"]
  /\ event = [n \in Slot |-> "none"]
  /\ pending = [n \in Slot |-> {}]
  /\ pid = [n \in Slot |-> NoPid]
  /\ forks = 0
  /\ foreign = {}
  /\ ext = 0
  /\ autoReap \in ReapModes
  /\ foreignPids \in ForeignModes

-----------------------------------------------------------------------------
(* The system calls of the shell.                                          *)

Unreaped(n) == kstate[n] \in {"running", "stopped", "zombie"}

(* Our child n has pid q; at most one child does. *)
Holds(n, q) == n \in Slot /\ Unreaped(n) /\ pid[n] = q

OurChild(q) == \E n \in Slot : Holds(n, q)

Exists(q) == OurChild(q) \/ q \in foreign

(* A signal is generated for pid q.  A zombie swallows it; SIGCONT resumes *)
(* a stopped process at once and discards a pending stop.                  *)
Generate(q, sig) ==
  LET resumes(n) == sig = "CONT" /\ Holds(n, q) /\ kstate[n] = "stopped"
  IN
    /\ kstate' = [n \in Slot |-> IF resumes(n) THEN "running" ELSE kstate[n]]
    /\ event' = [n \in Slot |-> IF resumes(n) THEN "continued" ELSE event[n]]
    /\ pending' = [n \in Slot |->
                     IF ~Holds(n, q) \/ kstate[n] = "zombie" THEN pending[n]
                     ELSE IF sig = "CONT" THEN pending[n] \ {"TSTP"}
                     ELSE pending[n] \cup {sig}]

(* waitpid on pid q takes what it reports out of the kernel. *)
Collect(q) ==
  /\ kstate' = [n \in Slot |-> IF Holds(n, q) /\ kstate[n] = "zombie"
                               THEN "reaped" ELSE kstate[n]]
  /\ event' = [n \in Slot |-> IF Holds(n, q) THEN "none" ELSE event[n]]
  /\ UNCHANGED pending

(* fork: the next process runs, under a pid nobody has. *)
Fork(q) ==
  /\ forks < MaxForks
  /\ ~Exists(q)
  /\ forks' = forks + 1
  /\ pid' = [pid EXCEPT ![forks + 1] = q]
  /\ kstate' = [kstate EXCEPT ![forks + 1] = "running"]
  /\ UNCHANGED <<event, pending, foreign, ext, modeVars>>

-----------------------------------------------------------------------------
(* The children and the rest of the machine.                               *)

Dead == IF autoReap THEN "reaped" ELSE "zombie"

(* SIGINT has the smaller number and is delivered first. *)
DeliverInt(n) ==
  /\ kstate[n] = "running"
  /\ "INT" \in pending[n]
  /\ pending' = [pending EXCEPT ![n] = @ \ {"INT"}]
  /\ kstate' = [kstate EXCEPT ![n] = IF n \in Stubborn THEN @ ELSE Dead]
  /\ UNCHANGED <<event, tableVars>>

DeliverTstp(n) ==
  /\ kstate[n] = "running"
  /\ pending[n] = {"TSTP"}
  /\ pending' = [pending EXCEPT ![n] = {}]
  /\ kstate' = [kstate EXCEPT ![n] = "stopped"]
  /\ event' = [event EXCEPT ![n] = "stopped"]
  /\ UNCHANGED <<tableVars>>

(* The program ends by itself, a failed execvp included. *)
ProgramEnds(n) ==
  /\ kstate[n] = "running"
  /\ kstate' = [kstate EXCEPT ![n] = Dead]
  /\ UNCHANGED <<event, pending, tableVars>>

ExternalSignal(n, sig) ==
  /\ ext < MaxExt
  /\ Unreaped(n)
  /\ ext' = ext + 1
  /\ Generate(pid[n], sig)
  /\ UNCHANGED <<pid, forks, foreign, modeVars>>

(* SIGKILL ends a stopped child too. *)
ExternalKill(n) ==
  /\ ext < MaxExt
  /\ kstate[n] \in {"running", "stopped"}
  /\ ext' = ext + 1
  /\ kstate' = [kstate EXCEPT ![n] = Dead]
  /\ UNCHANGED <<event, pending, pid, forks, foreign, modeVars>>

ForeignStarts(q) ==
  /\ foreignPids
  /\ ~Exists(q)
  /\ foreign' = foreign \cup {q}
  /\ UNCHANGED <<processVars, pid, forks, ext, modeVars>>

ForeignEnds(q) ==
  /\ q \in foreign
  /\ foreign' = foreign \ {q}
  /\ UNCHANGED <<processVars, pid, forks, ext, modeVars>>

Delivery(n) == DeliverInt(n) \/ DeliverTstp(n)

KernelNext ==
  \/ \E n \in Slot : Delivery(n) \/ ProgramEnds(n) \/ ExternalKill(n)
  \/ \E n \in Slot, sig \in {"INT", "TSTP", "CONT"} : ExternalSignal(n, sig)
  \/ \E q \in Pid : ForeignStarts(q) \/ ForeignEnds(q)
=============================================================================
