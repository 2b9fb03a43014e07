------------------------------- MODULE Looper --------------------------------
(***************************************************************************)
(* lab-5/post-actual/looper.c, the program the job-control shells are      *)
(* tried on: a handler prints the signal it got, gives that signal back    *)
(* its default action, arms the handler of the opposite signal and raises  *)
(* the signal again.  The copies in actual and warmup differ in what they  *)
(* print.                                                                  *)
(*                                                                         *)
(* A signal is blocked while its handler runs, so the one that is raised   *)
(* arrives when the handler returns; the two others may interrupt it       *)
(* between any two of its calls.                                           *)
(***************************************************************************)
EXTENDS Naturals, Sequences, SequencesExt

CONSTANT
  MaxSent     (* bound: signals sent to the program                        *)

ASSUME LooperAssumption == MaxSent \in Nat

VARIABLES
  installed,  (* calls of signal that main has made                        *)
  disp,       (* what each signal does                                     *)
  frames,     (* the handlers that run, innermost first                    *)
  pending,    (* signals not delivered yet                                 *)
  resuming,   (* on the way from the kernel to the program: what can be    *)
              (* delivered is delivered before the program goes on         *)
  life,       (* the process                                               *)
  sent,       (* signals sent so far                                       *)
  asked,      (* which of INT, TSTP and CONT was sent last                 *)
  unhurried   (* each signal was sent when nothing of an earlier one was   *)
              (* left to do                                                *)

progVars == <<installed, disp, frames>>
kernelVars == <<pending, resuming, life>>
sentVars == <<sent, asked, unhurried>>
vars == <<progVars, kernelVars, sentVars>>

Sig == {"INT", "CONT", "TSTP"}
Steps == {"print", "default", "renew", "raise", "return"}
Armed == <<"INT", "TSTP", "CONT">>      (* the order of main *)

(* A handler is interrupted by those of other signals only. *)
TypeOK ==
  /\ installed \in 0 .. 3
  /\ disp \in [Sig -> {"handler", "default"}]
  /\ frames \in Seq([sig : Sig, step : Steps])
  /\ \A i, j \in DOMAIN frames : frames[i].sig = frames[j].sig => i = j
  /\ pending \subseteq Sig
  /\ resuming \in BOOLEAN
  /\ life \in {"running", "stopped", "dead"}
  /\ sent \in 0 .. MaxSent
  /\ asked \in Sig \cup {"none"}
  /\ unhurried \in BOOLEAN

Init ==
  /\ installed = 0
  /\ disp = [s \in Sig |-> "default"]
  /\ frames = <<>>
  /\ pending = {}
  /\ resuming = FALSE
  /\ life = "running"
  /\ sent = 0
  /\ asked = "none"
  /\ unhurried = TRUE

-----------------------------------------------------------------------------
(* The kernel.                                                             *)

Handling(s) == \E i \in DOMAIN frames : frames[i].sig = s

(* A stop discards a pending continue and a continue a pending stop. *)
WithSignal(s) ==
  CASE s = "INT" -> pending \cup {"INT"}
    [] s = "TSTP" -> (pending \ {"CONT"}) \cup {"TSTP"}
    [] s = "CONT" -> (pending \ {"TSTP"}) \cup {"CONT"}

(* A continue that would do nothing is not even made pending, unless it is *)
(* blocked; a continue wakes a stopped process whatever becomes of it.     *)
Generate(s) ==
  /\ pending' = IF s = "CONT" /\ disp["CONT"] = "default" /\ ~Handling("CONT")
                THEN pending \ {"TSTP"} ELSE WithSignal(s)
  /\ life' = IF s = "CONT" /\ life = "stopped" THEN "running" ELSE life

(* The lowest number first: SIGINT, SIGCONT, SIGTSTP. *)
Deliverable == {s \in pending : ~Handling(s)}

IsNext(s) ==
  /\ s \in Deliverable
  /\ s = "CONT" => "INT" \notin Deliverable
  /\ s = "TSTP" => Deliverable = {"TSTP"}

Deliver(s) ==
  /\ life = "running"
  /\ IsNext(s)
  /\ pending' = pending \ {s}
  /\ resuming' = TRUE
  /\ IF disp[s] = "handler"
     THEN frames' = <<[sig |-> s, step |-> "print"]>> \o frames /\ UNCHANGED life
     ELSE /\ life' = CASE s = "INT" -> "dead" [] s = "TSTP" -> "stopped" [] s = "CONT" -> life
          /\ UNCHANGED frames
  /\ UNCHANGED <<installed, disp, sentVars>>

-----------------------------------------------------------------------------
(* The program, between two deliveries.                                    *)

ProgramRuns == life = "running" /\ (resuming => Deliverable = {})

(* signal; a pending continue whose default is taken is discarded. *)
Signal(s, action) ==
  /\ disp' = [disp EXCEPT ![s] = action]
  /\ pending' = IF s = "CONT" /\ action = "default" THEN pending \ {"CONT"} ELSE pending

(* main: its three calls, then it sleeps. *)
Install ==
  /\ ProgramRuns
  /\ frames = <<>> /\ installed < 3
  /\ installed' = installed + 1
  /\ Signal(Armed[installed + 1], "handler")
  /\ resuming' = FALSE
  /\ UNCHANGED <<frames, life, sentVars>>

InHandler(step, next) ==
  /\ ProgramRuns
  /\ frames # <<>> /\ frames[1].step = step
  /\ frames' = [frames EXCEPT ![1].step = next]
  /\ resuming' = FALSE
  /\ UNCHANGED <<installed, sentVars>>

Opposite(s) == IF s = "TSTP" THEN "CONT" ELSE "TSTP"

PrintSignal ==
  /\ InHandler("print", "default")
  /\ UNCHANGED <<disp, pending, life>>

(* Mutant: the signal keeps its handler when it is raised again. *)
SetDefaultForgotten ==
  /\ InHandler("default", IF frames[1].sig = "INT" THEN "raise" ELSE "renew")
  /\ UNCHANGED <<disp, pending, life>>

SetDefault ==
  /\ InHandler("default", IF frames[1].sig = "INT" THEN "raise" ELSE "renew")
  /\ Signal(frames[1].sig, "default")
  /\ UNCHANGED life

(* Mutant: the opposite signal is given its default action, too. *)
RenewNothing ==
  /\ InHandler("renew", "raise")
  /\ Signal(Opposite(frames[1].sig), "default")
  /\ UNCHANGED life

Renew ==
  /\ InHandler("renew", "raise")
  /\ Signal(Opposite(frames[1].sig), "handler")
  /\ UNCHANGED life

(* Mutant: the signal is printed and not raised again. *)
RaiseForgotten ==
  /\ InHandler("raise", "return")
  /\ UNCHANGED <<disp, pending, life>>

Raise ==
  /\ InHandler("raise", "return")
  /\ Generate(frames[1].sig)
  /\ UNCHANGED disp

(* Back through the kernel, which unblocks the signal. *)
Return ==
  /\ ProgramRuns
  /\ frames # <<>> /\ frames[1].step = "return"
  /\ frames' = Tail(frames)
  /\ resuming' = TRUE
  /\ UNCHANGED <<installed, disp, pending, life, sentVars>>

signal_printer == PrintSignal \/ SetDefault \/ Renew \/ Raise \/ Return

-----------------------------------------------------------------------------
(* The shell or the terminal sends a signal.                               *)

AtRest == installed = 3 /\ frames = <<>> /\ (life = "running" => pending = {})

Send(s) ==
  /\ sent < MaxSent
  /\ life # "dead"
  /\ Generate(s)
  /\ resuming' = (resuming \/ life = "stopped")
  /\ sent' = sent + 1
  /\ asked' = s
  /\ unhurried' = (unhurried /\ AtRest)
  /\ UNCHANGED progVars

Next ==
  \/ \E s \in Sig : Deliver(s)
  \/ Install
  \/ signal_printer
  \/ \E s \in Sig : Send(s)

(* The process is scheduled as long as it runs. *)
Spec ==
  /\ Init /\ [][Next]_vars
  /\ WF_vars((\E s \in Sig : Deliver(s)) \/ Install \/ signal_printer)

-----------------------------------------------------------------------------
(* Properties.                                                             *)

(* However the handlers interrupt each other, the program is left with at  *)
(* least one of the two handlers armed: the next stop or the next continue *)
(* is printed.                                                             *)
OneIsArmed ==
  installed = 3 /\ frames = <<>> => \E s \in {"TSTP", "CONT"} : disp[s] = "handler"

(* A SIGINT is never lost between the handlers: the process ends, or stops *)
(* with the SIGINT still to come.                                          *)
IntUnderWay ==
  life = "dead" \/ "INT" \in pending \/ Handling("INT")
IntEnds ==
  (life = "running" /\ (asked = "INT" \/ IntUnderWay))
    ~> (life = "dead" \/ (life = "stopped" /\ IntUnderWay))

(* Signals that do not hurry are obeyed: when all is done the program is   *)
(* stopped if a stop was sent last and runs if a continue was.             *)
ObeysWhenUnhurried ==
  unhurried /\ AtRest =>
    /\ asked = "TSTP" => life = "stopped"
    /\ asked = "CONT" => life # "stopped"
=============================================================================
