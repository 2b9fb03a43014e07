--------------------------- MODULE OldShellsProofs ---------------------------
(***************************************************************************)
(* Proofs about the earlier shells of lab-5, for any number of forks and   *)
(* pids, in every mode of the kernel: no job is lost that was not sent     *)
(* SIGINT, and a wait for a program ends with that program.                *)
(***************************************************************************)
EXTENDS OldShells, TLAPS

Live(n) == kstate[n] \in {"running", "stopped"}

Notified(n) == "INT" \in pending[n] \/ n \in Stubborn

-----------------------------------------------------------------------------
(* The kernel.                                                             *)

(* The children are those forked so far, and no two of them have a pid.    *)
KernelInv ==
  /\ KernelTypeOK
  /\ \A n \in Slot : kstate[n] = "unborn" <=> n > forks
  /\ \A n, m \in Slot : Unreaped(n) /\ Unreaped(m) /\ pid[n] = pid[m] => n = m

(* What no step but a fork does: nobody comes to life, and a SIGINT that   *)
(* was sent stays pending until it ends its child or is ignored.           *)
Quiet ==
  /\ UNCHANGED <<pid, forks>>
  /\ \A n \in Slot :
       /\ Unreaped(n)' => Unreaped(n)
       /\ Live(n)' => Live(n) /\ (Notified(n) => Notified(n)')
       /\ kstate[n] = "unborn" <=> kstate'[n] = "unborn"

ProcessTypes ==
  /\ kstate \in [Slot -> {"unborn", "running", "stopped", "zombie", "reaped"}]
  /\ event \in [Slot -> {"none", "stopped", "continued"}]
  /\ pending \in [Slot -> SUBSET {"INT", "TSTP"}]

Signals == {"INT", "TSTP", "CONT"}

(* A quiet step that keeps the types keeps the invariant of the kernel.    *)
LEMMA QuietKeepsKernel ==
  ASSUME KernelInv, Quiet, KernelTypeOK'
  PROVE  KernelInv'
BY DEF KernelInv, Quiet, Unreaped

(* Nothing changes for the processes.                                      *)
LEMMA StutterIsQuiet ==
  ASSUME KernelInv, UNCHANGED kernelVars
  PROVE  KernelInv' /\ Quiet
BY DEF KernelInv, KernelTypeOK, Quiet, kernelVars, processVars, tableVars,
       modeVars, Unreaped, Holds, Live, Notified

(* A SIGINT to a pid reaches whoever of the children holds it.             *)
LEMMA GenerateIsQuiet ==
  ASSUME KernelInv, NEW q, NEW sig \in Signals, Generate(q, sig),
         UNCHANGED <<pid, forks>>
  PROVE  /\ ProcessTypes' /\ Quiet
         /\ sig = "INT" =>
              \A n \in Slot : Holds(n, q) /\ Live(n)' => Notified(n)'
<1> USE DEF Generate, KernelInv, KernelTypeOK, Signals
<1>1. ProcessTypes'
  BY DEF ProcessTypes
<1>2. Quiet
  BY DEF Quiet, Unreaped, Live, Notified
<1>3. sig = "INT" => \A n \in Slot : Holds(n, q) /\ Live(n)' => Notified(n)'
  BY DEF Live, Notified
<1>. QED BY <1>1, <1>2, <1>3

LEMMA SignalKeeps ==
  ASSUME KernelInv, NEW q, NEW sig \in Signals, Generate(q, sig),
         UNCHANGED tableVars
  PROVE  /\ KernelInv' /\ Quiet
         /\ sig = "INT" =>
              \A n \in Slot : Holds(n, q) /\ Live(n)' => Notified(n)'
<1>1. ProcessTypes' /\ Quiet /\ (sig = "INT" =>
        \A n \in Slot : Holds(n, q) /\ Live(n)' => Notified(n)')
  BY GenerateIsQuiet DEF tableVars
<1>2. KernelTypeOK'
  BY <1>1 DEF KernelInv, KernelTypeOK, ProcessTypes, tableVars, modeVars
<1>. QED BY <1>1, <1>2, QuietKeepsKernel

(* Who was waited for is not live any more, when waitpid found it ended.   *)
LEMMA CollectKeeps ==
  ASSUME KernelInv, NEW q, Collect(q), UNCHANGED tableVars
  PROVE  /\ KernelInv' /\ Quiet
         /\ \A m \in Slot : Holds(m, q) /\ kstate[m] = "zombie" =>
              \A n \in Slot : pid[n] = q => ~Live(n)'
<1> USE DEF Collect, KernelInv, KernelTypeOK, tableVars, modeVars
<1>1. KernelTypeOK'
  OBVIOUS
<1>2. Quiet
  BY DEF Quiet, Unreaped, Live, Notified
<1>3. \A m \in Slot : Holds(m, q) /\ kstate[m] = "zombie" =>
        \A n \in Slot : pid[n] = q => ~Live(n)'
  BY DEF Live, Holds, Unreaped
<1>. QED BY <1>1, <1>2, <1>3, QuietKeepsKernel

(* Every step of the children and of other processes is quiet.             *)
LEMMA KernelIsQuiet ==
  ASSUME KernelInv, KernelNext, ConstantsAssumption
  PROVE  KernelInv' /\ Quiet
<1> USE DEF KernelInv, KernelTypeOK, tableVars, modeVars, processVars
<1> SUFFICES KernelTypeOK' /\ Quiet BY QuietKeepsKernel
<1>1. CASE \E n \in Slot : DeliverInt(n)
  BY <1>1 DEF DeliverInt, Dead, Quiet, Unreaped, Live, Notified
<1>2. CASE \E n \in Slot : DeliverTstp(n)
  BY <1>2 DEF DeliverTstp, Quiet, Unreaped, Live, Notified
<1>3. CASE \E n \in Slot : ProgramEnds(n)
  BY <1>3 DEF ProgramEnds, Dead, Quiet, Unreaped, Live, Notified
<1>4. CASE \E n \in Slot : ExternalKill(n)
  BY <1>4, ConstantsAssumption DEF ExternalKill, Dead, Quiet, Unreaped, Live, Notified
<1>5. CASE \E n \in Slot, sig \in {"INT", "TSTP", "CONT"} : ExternalSignal(n, sig)
  <2>1. PICK n \in Slot, sig \in Signals : ExternalSignal(n, sig)
    BY <1>5 DEF Signals
  <2>2. ProcessTypes' /\ Quiet
    BY <2>1, GenerateIsQuiet DEF ExternalSignal
  <2>. QED BY <2>1, <2>2, ConstantsAssumption DEF ExternalSignal, ProcessTypes
<1>6. CASE \E q \in Pid : ForeignStarts(q) \/ ForeignEnds(q)
  BY <1>6 DEF ForeignStarts, ForeignEnds, Quiet, Unreaped, Live, Notified
<1>. QED BY <1>1, <1>2, <1>3, <1>4, <1>5, <1>6 DEF KernelNext, Delivery

(* A forked child is the only one with its pid, and it alone came to life. *)
LEMMA ForkKeeps ==
  ASSUME KernelInv, ConstantsAssumption, NEW q \in Pid, Fork(q)
  PROVE  /\ KernelInv' /\ forks + 1 \in Slot /\ forks' = forks + 1
         /\ pid'[forks + 1] = q /\ \A n \in Slot : Holds(n, q)' => n = forks + 1
         /\ \A n \in Slot \ {forks + 1} :
              (Live(n)' <=> Live(n)) /\ (Notified(n)' <=> Notified(n))
<1> USE DEF KernelInv, KernelTypeOK, Fork, modeVars, ConstantsAssumption
<1>1. forks + 1 \in Slot /\ forks' = forks + 1
  BY DEF Slot
<1>2. KernelTypeOK'
  BY <1>1
<1>3. \A n \in Slot : kstate'[n] = "unborn" <=> n > forks'
  BY <1>1 DEF Slot
<1>4. \A n \in Slot : Unreaped(n) => pid[n] # q
  BY DEF Exists, OurChild, Holds
<1>5. \A n \in Slot : n # forks + 1 => pid'[n] = pid[n] /\ kstate'[n] = kstate[n]
  BY <1>1
<1>6. pid'[forks + 1] = q
  BY <1>1
<1>7. \A n, m \in Slot :
        Unreaped(n)' /\ Unreaped(m)' /\ pid'[n] = pid'[m] => n = m
  BY <1>1, <1>4, <1>5, <1>6 DEF Unreaped
<1>8. \A n \in Slot : Holds(n, q)' => n = forks + 1
  BY <1>4, <1>5 DEF Holds, Unreaped
<1>9. \A n \in Slot \ {forks + 1} :
        (Live(n)' <=> Live(n)) /\ (Notified(n)' <=> Notified(n))
  BY <1>5 DEF Live, Notified
<1>. QED BY <1>1, <1>2, <1>3, <1>6, <1>7, <1>8, <1>9

-----------------------------------------------------------------------------
(* The node of a foreground wait is of the last fork: no other child can   *)
(* have its pid, also after it was reaped.                                 *)
Waiting == job \in 1 .. forks /\ \A n \in Slot : Holds(n, pid[job]) => n = job

(* waitpid ends a wait when its program ended or was reaped before.        *)
LEMMA WaitEnds ==
  ASSUME KernelInv, ConstantsAssumption, Waiting, Collect(pid[job]),
         \/ \E n \in Slot : Holds(n, pid[job]) /\ kstate[n] = "zombie"
         \/ ~OurChild(pid[job])
  PROVE  kstate'[job] = "reaped"
<1>1. job \in Slot /\ kstate[job] # "unborn"
  <2>1. forks \in Nat /\ forks <= MaxForks /\ job \in 1 .. forks
    BY ConstantsAssumption DEF Waiting, KernelInv, KernelTypeOK
  <2>. QED BY <2>1, ConstantsAssumption DEF KernelInv, Slot
<1>2. CASE \E n \in Slot : Holds(n, pid[job]) /\ kstate[n] = "zombie"
  BY <1>1, <1>2 DEF Waiting, Collect
<1>3. CASE ~OurChild(pid[job])
  BY <1>1, <1>3 DEF OurChild, Holds, Unreaped, Collect, KernelInv, KernelTypeOK
<1>. QED BY <1>2, <1>3

(* The end of a wait.                                                      *)
EndsWait == pc = "wait" /\ pc' # "wait" => kstate'[job] = "reaped"

-----------------------------------------------------------------------------
(* The shells.                                                             *)

Forgotten(n) == n \notin listed \/ status[n] = "Terminated"

ForgottenWereNotified == \A n \in Slot : Live(n) /\ Forgotten(n) => Notified(n)

-----------------------------------------------------------------------------
(* The actual shell.                                                       *)

(* The kernel of the actual shell is this kernel.                          *)
LEMMA ActualCalls ==
  ASSUME NEW q, NEW sig
  PROVE  /\ Actual!Slot = Slot
         /\ \A n : Actual!Holds(n, q) <=> Holds(n, q)
         /\ Actual!OurChild(q) <=> OurChild(q)
         /\ Actual!Exists(q) <=> Exists(q)
         /\ Actual!Generate(q, sig) <=> Generate(q, sig)
         /\ Actual!Collect(q) <=> Collect(q)
         /\ Actual!Fork(q) <=> Fork(q)
<1>1. Actual!Slot = Slot /\ \A n : Actual!Holds(n, q) <=> Holds(n, q)
  BY DEF Actual!Slot, Actual!Holds, Actual!Unreaped, Slot, Holds, Unreaped
<1>2. /\ Actual!OurChild(q) <=> OurChild(q)
      /\ Actual!Exists(q) <=> Exists(q)
  BY <1>1 DEF Actual!OurChild, Actual!Exists, OurChild, Exists
<1>3. Actual!Generate(q, sig) <=> Generate(q, sig)
  BY <1>1 DEF Actual!Generate, Generate
<1>4. Actual!Collect(q) <=> Collect(q)
  BY <1>1 DEF Actual!Collect, Collect
<1>5. Actual!Fork(q) <=> Fork(q)
  BY <1>2 DEF Actual!Fork, Actual!modeVars, Fork, modeVars
<1>. QED BY <1>1, <1>2, <1>3, <1>4, <1>5

LEMMA ActualKernel ==
  /\ Actual!Slot = Slot
  /\ Actual!KernelTypeOK <=> KernelTypeOK
  /\ Actual!KernelTypeOK' <=> KernelTypeOK'
  /\ Actual!KernelInit <=> KernelInit
  /\ Actual!KernelNext <=> KernelNext
  /\ UNCHANGED Actual!tableVars <=> UNCHANGED tableVars
  /\ UNCHANGED Actual!kernelVars <=> UNCHANGED kernelVars
<1>1. /\ Actual!Slot = Slot
      /\ UNCHANGED Actual!tableVars <=> UNCHANGED tableVars
      /\ UNCHANGED Actual!kernelVars <=> UNCHANGED kernelVars
  BY DEF Actual!Slot, Actual!kernelVars, Actual!tableVars,
       Actual!modeVars, Actual!processVars, Slot, kernelVars, tableVars,
       modeVars, processVars
<1>2. /\ Actual!KernelTypeOK <=> KernelTypeOK
      /\ Actual!KernelTypeOK' <=> KernelTypeOK'
      /\ Actual!KernelInit <=> KernelInit
  BY DEF Actual!KernelTypeOK, Actual!KernelInit, Actual!Slot,
       KernelTypeOK, KernelInit, Slot
<1>3. ASSUME NEW n
      PROVE  /\ Actual!Delivery(n) <=> Delivery(n)
             /\ Actual!ProgramEnds(n) <=> ProgramEnds(n)
             /\ Actual!ExternalKill(n) <=> ExternalKill(n)
  <2>1. Actual!Delivery(n) <=> Delivery(n)
    BY DEF Actual!Delivery, Actual!DeliverInt, Actual!DeliverTstp,
         Actual!Dead, Actual!tableVars, Actual!modeVars, Delivery, DeliverInt,
         DeliverTstp, Dead, tableVars, modeVars
  <2>2. Actual!ProgramEnds(n) <=> ProgramEnds(n)
    BY DEF Actual!ProgramEnds, Actual!Dead, Actual!tableVars,
         Actual!modeVars, ProgramEnds, Dead, tableVars, modeVars
  <2>3. Actual!ExternalKill(n) <=> ExternalKill(n)
    BY DEF Actual!ExternalKill, Actual!Dead, Actual!modeVars,
         ExternalKill, Dead, modeVars
  <2>. QED BY <2>1, <2>2, <2>3
<1>4. ASSUME NEW n, NEW sig
      PROVE  Actual!ExternalSignal(n, sig) <=> ExternalSignal(n, sig)
  BY ActualCalls DEF Actual!ExternalSignal, Actual!Unreaped,
       Actual!modeVars, ExternalSignal, Unreaped, modeVars
<1>5. ASSUME NEW q
      PROVE  /\ Actual!ForeignStarts(q) <=> ForeignStarts(q)
             /\ Actual!ForeignEnds(q) <=> ForeignEnds(q)
  <2>1. Actual!Exists(q) <=> Exists(q)
    BY ActualCalls
  <2>. QED
    BY <2>1 DEF Actual!ForeignStarts, Actual!ForeignEnds,
         Actual!processVars, Actual!modeVars, ForeignStarts, ForeignEnds,
         processVars, modeVars
<1>6. Actual!KernelNext <=> KernelNext
  BY <1>1, <1>3, <1>4, <1>5 DEF Actual!KernelNext, KernelNext
<1>. QED BY <1>1, <1>2, <1>6

(* What it shows as ended or does not show was sent SIGINT; procs ends     *)
(* what it removes with the rest of its list still to come; the continue   *)
(* of a kill comes after the interrupt.                                    *)
Removing == pc = "remove" \/ (caller = "remove" /\ pc \in {"poll", "int", "cont"})

ActualInv ==
  /\ Actual!TypeOK
  /\ KernelInv
  /\ pc = "wait" => Waiting
  /\ ForgottenWereNotified
  /\ pc = "exited" => listed = {}
  /\ pc = "quit" => caller = "quit"
  /\ Removing => \A n \in todo : Live(n) => Notified(n)
  /\ pc = "cont" => (Live(job) => Notified(job))

LEMMA ActualTypes ==
  ASSUME ActualInv
  PROVE  /\ caller \in {"kill", "remove", "quit"}
         /\ job \in Slot \cup {0}
         /\ pc \in {"wait", "poll", "int", "cont"} => job \in Slot
         /\ todo \subseteq Slot /\ listed \subseteq Slot
         /\ status \in [Slot -> {"Terminated", "Running", "Suspended"}]
BY ActualKernel DEF ActualInv, Actual!TypeOK, Actual!TERMINATED,
   Actual!RUNNING, Actual!SUSPENDED

(* A quiet step forgets only who was sent SIGINT and keeps the rest.       *)
LEMMA ActualQuietStep ==
  ASSUME ActualInv, KernelInv', Quiet,
         pc' \in {"prompt", "wait", "procs", "remove", "poll", "int", "cont",
                  "quit", "exited"},
         caller' \in {"kill", "remove", "quit"},
         job' \in Slot \cup {0},
         pc' \in {"wait", "poll", "int", "cont"} => job' \in Slot,
         todo' \subseteq Slot, listed' \subseteq Slot,
         status' \in [Slot -> {"Terminated", "Running", "Suspended"}],
         pc' = "wait" => pc = "wait" /\ UNCHANGED job,
         \A n \in Slot : Forgotten(n)' => Forgotten(n) \/ (Live(n)' => Notified(n)'),
         pc' = "exited" => listed' = {},
         pc' = "quit" => caller' = "quit",
         Removing' => \A n \in todo' : (n \in todo /\ Removing) \/ Forgotten(n),
         pc' = "cont" => (pc = "cont" /\ UNCHANGED job) \/ (Live(job)' => Notified(job)')
  PROVE  ActualInv'
<1>1. Actual!TypeOK'
  BY ActualKernel DEF Actual!TypeOK, Actual!TERMINATED, Actual!RUNNING,
     Actual!SUSPENDED, KernelInv
<1>2. ForgottenWereNotified'
  BY DEF ActualInv, ForgottenWereNotified, Quiet
<1>3. pc' = "wait" => Waiting'
  BY DEF ActualInv, Waiting, Quiet, Holds
<1>4. Removing' => \A n \in todo' : Live(n)' => Notified(n)'
  BY DEF ActualInv, ForgottenWereNotified, Quiet
<1>5. pc' = "cont" => (Live(job)' => Notified(job)')
  BY ActualTypes DEF ActualInv, Quiet
<1>. QED BY <1>1, <1>2, <1>3, <1>4, <1>5 DEF ActualInv

LEMMA ActualExecutes ==
  ASSUME ActualInv, ConstantsAssumption, NEW blocking \in BOOLEAN, NEW q \in Pid,
         Actual!Execute(blocking, q)
  PROVE  ActualInv' /\ pc = "prompt"
<1> DEFINE new == forks + 1
<1>1. /\ KernelInv' /\ new \in Slot /\ forks' = new
      /\ pid'[new] = q /\ \A n \in Slot : Holds(n, q)' => n = new
      /\ \A n \in Slot \ {new} :
           (Live(n)' <=> Live(n)) /\ (Notified(n)' <=> Notified(n))
  BY ActualCalls, ForkKeeps DEF Actual!Execute, ActualInv
<1>2. /\ pc = "prompt"
      /\ pc' = (IF blocking THEN "wait" ELSE "prompt")
      /\ job' = (IF blocking THEN new ELSE job)
      /\ listed' = listed \cup {new}
      /\ status' = [status EXCEPT ![new] = "Running"]
      /\ UNCHANGED <<caller, todo>>
  BY DEF Actual!Execute, Actual!RUNNING
<1> HIDE DEF new
<1>3. Actual!TypeOK'
  BY <1>1, <1>2, ActualTypes, ActualKernel
  DEF Actual!TypeOK, Actual!TERMINATED, Actual!RUNNING, Actual!SUSPENDED, KernelInv
<1>4. pc' = "wait" => Waiting'
  <2>1. forks' \in Nat /\ forks' >= 1 /\ \A n : Holds(n, q)' => n \in Slot
    BY <1>1 DEF KernelInv, KernelTypeOK, Slot, Holds
  <2>. QED BY <1>1, <1>2, <2>1 DEF Waiting
<1>5. ForgottenWereNotified'
  BY <1>1, <1>2, ActualTypes DEF ActualInv, ForgottenWereNotified, Forgotten
<1>. QED BY <1>1, <1>2, <1>3, <1>4, <1>5 DEF ActualInv, Removing

LEMMA ActualWaits ==
  ASSUME ActualInv, ConstantsAssumption, Actual!WaitReturns
  PROVE  ActualInv' /\ EndsWait
<1>1. pc = "wait" /\ pc' = "prompt" /\ UNCHANGED <<caller, job, todo, listed>>
  BY DEF Actual!WaitReturns
<1>2. /\ Collect(pid[job])
      /\ UNCHANGED tableVars
      /\ \/ \E n \in Slot : Holds(n, pid[job]) /\ kstate[n] = "zombie"
         \/ ~OurChild(pid[job]) /\ UNCHANGED status
  BY ActualCalls, ActualKernel DEF Actual!WaitReturns
<1>3. status' \in [Slot -> {"Terminated", "Running", "Suspended"}]
      /\ \A n \in Slot : status'[n] # status[n] => pid[n] = pid[job]
  BY ActualTypes, ActualKernel
  DEF Actual!WaitReturns, Actual!updateProcessStatus, Actual!IsFirst,
      Actual!TERMINATED
<1>4. /\ KernelInv' /\ Quiet
      /\ \A m \in Slot : Holds(m, pid[job]) /\ kstate[m] = "zombie" =>
           \A n \in Slot : pid[n] = pid[job] => ~Live(n)'
  BY <1>2, CollectKeeps DEF ActualInv
<1>5. \A n \in Slot : Forgotten(n)' => Forgotten(n) \/ ~Live(n)'
  BY <1>1, <1>2, <1>3, <1>4 DEF Forgotten
<1>6. ActualInv'
  BY <1>1, <1>3, <1>4, <1>5, ActualTypes, ActualQuietStep DEF Removing
<1>7. kstate'[job] = "reaped"
  BY <1>1, <1>2, ActualTypes, WaitEnds DEF ActualInv
<1>. QED BY <1>6, <1>7 DEF EndsWait

(* stop and cont show the job as they leave it.                            *)
LEMMA ActualSignals ==
  ASSUME ActualInv, NEW q \in Pid, Actual!Suspend(q) \/ Actual!Wake(q)
  PROVE  ActualInv' /\ pc = "prompt"
<1>1. PICK sig \in Signals, new \in {"Running", "Suspended"} :
        Actual!SendSignalCmd(q, sig, new)
  BY DEF Actual!Suspend, Actual!Wake, Actual!RUNNING, Actual!SUSPENDED, Signals
<1>2. pc = "prompt" /\ UNCHANGED <<pc, caller, job, todo, listed>>
  BY <1>1 DEF Actual!SendSignalCmd
<1>3. KernelInv' /\ Quiet
  BY <1>1, ActualCalls, ActualKernel, SignalKeeps
  DEF Actual!SendSignalCmd, ActualInv
<1>4. /\ status' \in [Slot -> {"Terminated", "Running", "Suspended"}]
      /\ \A n \in Slot : status'[n] = "Terminated" => status[n] = "Terminated"
  BY <1>1, ActualTypes, ActualKernel
  DEF Actual!SendSignalCmd, Actual!updateProcessStatus
<1>5. \A n \in Slot : Forgotten(n)' => Forgotten(n)
  BY <1>2, <1>4 DEF Forgotten
<1>. QED BY <1>2, <1>3, <1>4, <1>5, ActualTypes, ActualQuietStep DEF Removing

(* Where terminateProcess returns: nobody is forgotten but its job.        *)
LEMMA ActualBack ==
  ASSUME ActualInv, pc \in {"poll", "int", "cont"}, NEW ok, NEW st,
         st \in [Slot -> {"Terminated", "Running", "Suspended"}],
         \A n \in Slot \ {job} : st[n] = status[n],
         Actual!Back(ok, st), UNCHANGED <<caller, job, todo>>,
         KernelInv', Quiet,
         Live(job)' => Notified(job)'
  PROVE  ActualInv'
<1>1. /\ pc' \in {"prompt", "remove", "quit"}
      /\ listed' \subseteq Slot
      /\ status' \in [Slot -> {"Terminated", "Running", "Suspended"}]
  BY ActualTypes DEF Actual!Back, Actual!TERMINATED
<1>2. /\ pc' = "quit" => caller = "quit"
      /\ pc' = "remove" => caller = "remove"
  BY ActualTypes DEF Actual!Back
<1>3. \A n \in Slot \ {job} : Forgotten(n)' => Forgotten(n)
  BY ActualTypes DEF Actual!Back, Forgotten
<1>. QED BY <1>1, <1>2, <1>3, ActualTypes, ActualQuietStep DEF Removing

LEMMA ActualPolls ==
  ASSUME ActualInv, Actual!Poll
  PROVE  ActualInv' /\ pc = "poll"
<1> DEFINE st == [status EXCEPT ![job] = Actual!ReportedStatus(pid[job], @)]
<1>1. /\ pc = "poll" /\ UNCHANGED <<caller, job, todo>>
      /\ IF st[job] = "Terminated" THEN Actual!Back(TRUE, st)
         ELSE pc' = "int" /\ status' = st /\ UNCHANGED listed
  BY DEF Actual!Poll, Actual!TERMINATED
<1>2. job \in Slot
  BY <1>1, ActualTypes
<1>3. /\ KernelInv' /\ Quiet
      /\ \A m \in Slot : Holds(m, pid[job]) /\ kstate[m] = "zombie" =>
           \A n \in Slot : pid[n] = pid[job] => ~Live(n)'
  BY ActualCalls, ActualKernel, CollectKeeps DEF Actual!Poll, ActualInv
<1>4. /\ st \in [Slot -> {"Terminated", "Running", "Suspended"}]
      /\ \A n \in Slot \ {job} : st[n] = status[n]
  BY <1>2, ActualTypes DEF Actual!ReportedStatus, Actual!TERMINATED,
     Actual!RUNNING, Actual!SUSPENDED
<1>5. CASE st[job] = "Terminated"
  <2>1. \/ \E m \in Slot : Holds(m, pid[job]) /\ kstate[m] = "zombie"
        \/ status[job] = "Terminated"
    BY <1>2, <1>5, ActualTypes, ActualCalls, ActualKernel
    DEF Actual!ReportedStatus, Actual!TERMINATED, Actual!RUNNING, Actual!SUSPENDED
  <2>2. status[job] = "Terminated" => (Live(job)' => Notified(job)')
    BY <1>1, <1>2, <1>3 DEF ActualInv, ForgottenWereNotified, Forgotten, Quiet
  <2>3. Live(job)' => Notified(job)'
    BY <1>1, <1>2, <1>3, <2>1, <2>2
  <2> HIDE DEF st
  <2>. QED BY <1>1, <1>3, <1>4, <1>5, <2>3, ActualBack
<1>6. CASE st[job] # "Terminated"
  <2> HIDE DEF st
  <2>1. \A n \in Slot : Forgotten(n)' => Forgotten(n)
    BY <1>1, <1>4, <1>6 DEF Forgotten
  <2>. QED BY <1>1, <1>2, <1>3, <1>4, <1>6, <2>1, ActualTypes, ActualQuietStep
           DEF Removing
<1>. QED BY <1>1, <1>5, <1>6

LEMMA ActualInterrupts ==
  ASSUME ActualInv, Actual!SendInt
  PROVE  ActualInv' /\ pc = "int"
<1>1. /\ pc = "int" /\ UNCHANGED <<caller, job, todo>>
      /\ \/ pc' = "cont" /\ UNCHANGED <<listed, status>>
         \/ \E ok \in BOOLEAN : Actual!Back(ok, status)
  BY DEF Actual!SendInt, Actual!SignalResults
<1>2. /\ KernelInv' /\ Quiet
      /\ \A n \in Slot : Holds(n, pid[job]) /\ Live(n)' => Notified(n)'
  BY ActualCalls, ActualKernel, SignalKeeps DEF Actual!SendInt, ActualInv, Signals
<1>3. job \in Slot /\ (Live(job)' => Notified(job)')
  BY <1>1, <1>2, ActualTypes DEF Quiet, Holds, Unreaped, Live
<1>4. CASE pc' = "cont" /\ UNCHANGED <<listed, status>>
  BY <1>1, <1>2, <1>3, <1>4, ActualTypes, ActualQuietStep DEF Removing, Forgotten
<1>5. CASE \E ok \in BOOLEAN : Actual!Back(ok, status)
  BY <1>1, <1>2, <1>3, <1>5, ActualTypes, ActualBack
<1>. QED BY <1>1, <1>4, <1>5

LEMMA ActualContinues ==
  ASSUME ActualInv, Actual!SendCont
  PROVE  ActualInv' /\ pc = "cont"
<1>1. /\ pc = "cont" /\ UNCHANGED <<caller, job, todo>>
      /\ \E ok \in BOOLEAN : Actual!Back(ok, status)
  BY DEF Actual!SendCont, Actual!SignalResults
<1>2. KernelInv' /\ Quiet
  BY ActualCalls, ActualKernel, SignalKeeps DEF Actual!SendCont, ActualInv, Signals
<1>3. Live(job)' => Notified(job)'
  BY <1>1, <1>2, ActualTypes DEF Quiet, ActualInv
<1>. QED BY <1>1, <1>2, <1>3, ActualTypes, ActualBack

LEMMA ActualPollsAll ==
  ASSUME ActualInv, NEW n \in Slot, Actual!ProcsPoll(n)
  PROVE  ActualInv' /\ pc = "procs"
<1>1. /\ pc = "procs" /\ UNCHANGED <<pc, caller, job, listed>>
      /\ todo' = todo \ {n}
      /\ status' = [status EXCEPT ![n] = Actual!ReportedStatus(pid[n], status[n])]
  BY DEF Actual!ProcsPoll
<1>2. /\ KernelInv' /\ Quiet
      /\ \A m \in Slot : Holds(m, pid[n]) /\ kstate[m] = "zombie" =>
           \A k \in Slot : pid[k] = pid[n] => ~Live(k)'
  BY ActualCalls, ActualKernel, CollectKeeps DEF Actual!ProcsPoll, ActualInv
<1>3. /\ status' \in [Slot -> {"Terminated", "Running", "Suspended"}]
      /\ \A m \in Slot : status'[m] = "Terminated" =>
           \/ status[m] = "Terminated"
           \/ m = n /\ \E k \in Slot : Holds(k, pid[n]) /\ kstate[k] = "zombie"
  BY <1>1, ActualTypes, ActualCalls, ActualKernel
  DEF Actual!ReportedStatus, Actual!TERMINATED, Actual!RUNNING, Actual!SUSPENDED
<1>4. \A m \in Slot : Forgotten(m)' => Forgotten(m) \/ ~Live(m)'
  BY <1>1, <1>2, <1>3 DEF Forgotten
<1>. QED BY <1>1, <1>2, <1>3, <1>4, ActualTypes, ActualQuietStep DEF Removing

(* The steps of the shell without a system call.                           *)
LEMMA ActualInternal ==
  ASSUME ActualInv,
         \/ \E n \in listed : Actual!KillCmd(n)
         \/ \E n \in Slot : Actual!RemoveNext(n) \/ Actual!FreeNext(n)
         \/ Actual!ProcsStart \/ Actual!ProcsPolled \/ Actual!ProcsDone
         \/ Actual!Leave \/ Actual!Exit
  PROVE  ActualInv' /\ pc # "wait"
<1>1. UNCHANGED kernelVars /\ UNCHANGED status
  BY ActualKernel DEF Actual!KillCmd, Actual!RemoveNext, Actual!FreeNext,
     Actual!ProcsStart, Actual!ProcsPolled, Actual!ProcsDone, Actual!Leave,
     Actual!Exit
<1>2. KernelInv' /\ Quiet
  BY <1>1, StutterIsQuiet DEF ActualInv
<1>3. CASE \E n \in Slot : Actual!RemoveNext(n)
  <2>1. PICK n \in Slot : Actual!RemoveNext(n)
    BY <1>3
  <2>2. /\ pc = "remove" /\ n \in todo
        /\ todo' = todo \ {n} /\ listed' = listed \ {n}
        /\ pc' = "poll" /\ caller' = "remove" /\ job' = n
    BY <2>1 DEF Actual!RemoveNext, Actual!IsHead
  <2>3. Live(n)' => Notified(n)'
    BY <1>2, <2>2 DEF ActualInv, Removing, Quiet
  <2>4. \A m \in Slot : Forgotten(m)' => Forgotten(m) \/ (Live(m)' => Notified(m)')
    BY <1>1, <2>2, <2>3 DEF Forgotten
  <2>. QED BY <1>1, <1>2, <2>2, <2>4, ActualTypes, ActualQuietStep DEF Removing
<1>4. CASE \E n \in Slot : Actual!FreeNext(n)
  BY <1>1, <1>2, <1>4, ActualTypes, ActualQuietStep
  DEF Actual!FreeNext, Removing, Forgotten, ActualInv
<1>5. CASE \E n \in listed : Actual!KillCmd(n)
  BY <1>1, <1>2, <1>5, ActualTypes, ActualQuietStep
  DEF Actual!KillCmd, Removing, Forgotten
<1>6. CASE Actual!ProcsStart \/ Actual!ProcsPolled \/ Actual!ProcsDone
  <2>1. /\ pc # "wait" /\ pc' \in {"procs", "remove", "prompt"}
        /\ UNCHANGED <<caller, job, listed>> /\ todo' \subseteq Slot
        /\ pc' = "remove" => \A n \in todo' : status[n] = "Terminated"
    BY <1>6, ActualTypes DEF Actual!ProcsStart, Actual!ProcsPolled,
       Actual!ProcsDone, Actual!TERMINATED
  <2>. QED BY <1>1, <1>2, <2>1, ActualTypes, ActualQuietStep DEF Removing, Forgotten
<1>7. CASE Actual!Leave \/ Actual!Exit
  BY <1>1, <1>2, <1>7, ActualTypes, ActualQuietStep
  DEF Actual!Leave, Actual!Exit, Removing, Forgotten
<1>. QED BY <1>3, <1>4, <1>5, <1>6, <1>7
         DEF Actual!KillCmd, Actual!RemoveNext, Actual!FreeNext, Actual!ProcsStart,
             Actual!ProcsPolled, Actual!ProcsDone, Actual!Leave, Actual!Exit

LEMMA ActualStep ==
  ASSUME ActualInv, ConstantsAssumption, Actual!Next
  PROVE  ActualInv' /\ EndsWait
<1>1. CASE \E blocking \in BOOLEAN, q \in Pid : Actual!Execute(blocking, q)
  BY <1>1, ActualExecutes DEF EndsWait
<1>2. CASE Actual!WaitReturns
  BY <1>2, ActualWaits
<1>3. CASE \E q \in Pid : Actual!Suspend(q) \/ Actual!Wake(q)
  BY <1>3, ActualSignals DEF EndsWait
<1>4. CASE Actual!Poll \/ Actual!SendInt \/ Actual!SendCont
  BY <1>4, ActualPolls, ActualInterrupts, ActualContinues DEF EndsWait
<1>5. CASE \E n \in Slot : Actual!ProcsPoll(n)
  BY <1>5, ActualPollsAll DEF EndsWait
<1>6. CASE \/ \E n \in listed : Actual!KillCmd(n)
           \/ \E n \in Slot : Actual!RemoveNext(n) \/ Actual!FreeNext(n)
           \/ Actual!ProcsStart \/ Actual!ProcsPolled \/ Actual!ProcsDone
           \/ Actual!Leave \/ Actual!Exit
  BY <1>6, ActualInternal DEF EndsWait
<1>7. CASE Actual!Environment
  <2>1. KernelNext /\ UNCHANGED <<pc, caller, job, todo, listed, status>>
    BY <1>7, ActualKernel DEF Actual!Environment, Actual!shellVars
  <2>2. KernelInv' /\ Quiet
    BY <2>1, KernelIsQuiet DEF ActualInv
  <2>3. ActualInv'
    BY <2>1, <2>2, ActualTypes, ActualQuietStep DEF ActualInv, Actual!TypeOK, Removing, Forgotten
  <2>. QED BY <2>1, <2>3 DEF EndsWait
<1>. QED BY <1>1, <1>2, <1>3, <1>4, <1>5, <1>6, <1>7, ActualKernel
         DEF Actual!Next, Actual!Command, Actual!ShellContinues

-----------------------------------------------------------------------------
(* The warmup shell.                                                       *)

(* The kernel of the warmup shell is this kernel.                          *)
LEMMA WarmupCalls ==
  ASSUME NEW q, NEW sig
  PROVE  /\ Warmup!Slot = Slot
         /\ \A n : Warmup!Holds(n, q) <=> Holds(n, q)
         /\ Warmup!OurChild(q) <=> OurChild(q)
         /\ Warmup!Exists(q) <=> Exists(q)
         /\ Warmup!Generate(q, sig) <=> Generate(q, sig)
         /\ Warmup!Collect(q) <=> Collect(q)
         /\ Warmup!Fork(q) <=> Fork(q)
<1>1. Warmup!Slot = Slot /\ \A n : Warmup!Holds(n, q) <=> Holds(n, q)
  BY DEF Warmup!Slot, Warmup!Holds, Warmup!Unreaped, Slot, Holds, Unreaped
<1>2. /\ Warmup!OurChild(q) <=> OurChild(q)
      /\ Warmup!Exists(q) <=> Exists(q)
  BY <1>1 DEF Warmup!OurChild, Warmup!Exists, OurChild, Exists
<1>3. Warmup!Generate(q, sig) <=> Generate(q, sig)
  BY <1>1 DEF Warmup!Generate, Generate
<1>4. Warmup!Collect(q) <=> Collect(q)
  BY <1>1 DEF Warmup!Collect, Collect
<1>5. Warmup!Fork(q) <=> Fork(q)
  BY <1>2 DEF Warmup!Fork, Warmup!modeVars, Fork, modeVars
<1>. QED BY <1>1, <1>2, <1>3, <1>4, <1>5

LEMMA WarmupKernel ==
  /\ Warmup!Slot = Slot
  /\ Warmup!KernelTypeOK <=> KernelTypeOK
  /\ Warmup!KernelTypeOK' <=> KernelTypeOK'
  /\ Warmup!KernelInit <=> KernelInit
  /\ Warmup!KernelNext <=> KernelNext
  /\ UNCHANGED Warmup!tableVars <=> UNCHANGED tableVars
  /\ UNCHANGED Warmup!kernelVars <=> UNCHANGED kernelVars
<1>1. /\ Warmup!Slot = Slot
      /\ UNCHANGED Warmup!tableVars <=> UNCHANGED tableVars
      /\ UNCHANGED Warmup!kernelVars <=> UNCHANGED kernelVars
  BY DEF Warmup!Slot, Warmup!kernelVars, Warmup!tableVars,
       Warmup!modeVars, Warmup!processVars, Slot, kernelVars, tableVars,
       modeVars, processVars
<1>2. /\ Warmup!KernelTypeOK <=> KernelTypeOK
      /\ Warmup!KernelTypeOK' <=> KernelTypeOK'
      /\ Warmup!KernelInit <=> KernelInit
  BY DEF Warmup!KernelTypeOK, Warmup!KernelInit, Warmup!Slot,
       KernelTypeOK, KernelInit, Slot
<1>3. ASSUME NEW n
      PROVE  /\ Warmup!Delivery(n) <=> Delivery(n)
             /\ Warmup!ProgramEnds(n) <=> ProgramEnds(n)
             /\ Warmup!ExternalKill(n) <=> ExternalKill(n)
  <2>1. Warmup!Delivery(n) <=> Delivery(n)
    BY DEF Warmup!Delivery, Warmup!DeliverInt, Warmup!DeliverTstp,
         Warmup!Dead, Warmup!tableVars, Warmup!modeVars, Delivery, DeliverInt,
         DeliverTstp, Dead, tableVars, modeVars
  <2>2. Warmup!ProgramEnds(n) <=> ProgramEnds(n)
    BY DEF Warmup!ProgramEnds, Warmup!Dead, Warmup!tableVars,
         Warmup!modeVars, ProgramEnds, Dead, tableVars, modeVars
  <2>3. Warmup!ExternalKill(n) <=> ExternalKill(n)
    BY DEF Warmup!ExternalKill, Warmup!Dead, Warmup!modeVars,
         ExternalKill, Dead, modeVars
  <2>. QED BY <2>1, <2>2, <2>3
<1>4. ASSUME NEW n, NEW sig
      PROVE  Warmup!ExternalSignal(n, sig) <=> ExternalSignal(n, sig)
  BY WarmupCalls DEF Warmup!ExternalSignal, Warmup!Unreaped,
       Warmup!modeVars, ExternalSignal, Unreaped, modeVars
<1>5. ASSUME NEW q
      PROVE  /\ Warmup!ForeignStarts(q) <=> ForeignStarts(q)
             /\ Warmup!ForeignEnds(q) <=> ForeignEnds(q)
  <2>1. Warmup!Exists(q) <=> Exists(q)
    BY WarmupCalls
  <2>. QED
    BY <2>1 DEF Warmup!ForeignStarts, Warmup!ForeignEnds,
         Warmup!processVars, Warmup!modeVars, ForeignStarts, ForeignEnds,
         processVars, modeVars
<1>6. Warmup!KernelNext <=> KernelNext
  BY <1>1, <1>3, <1>4, <1>5 DEF Warmup!KernelNext, KernelNext
<1>. QED BY <1>1, <1>2, <1>6

WarmupInv ==
  /\ Warmup!TypeOK
  /\ KernelInv
  /\ pc = "wait" => Waiting
  /\ ForgottenWereNotified
  /\ pc = "exited" => listed = {}

LEMMA WarmupTypes ==
  ASSUME WarmupInv
  PROVE  /\ job \in Slot \cup {0}
         /\ todo \subseteq Slot /\ listed \subseteq Slot
         /\ status \in [Slot -> {"Terminated", "Running", "Suspended"}]
BY WarmupKernel DEF WarmupInv, Warmup!TypeOK, Warmup!TERMINATED,
   Warmup!RUNNING, Warmup!SUSPENDED

LEMMA WarmupQuietStep ==
  ASSUME WarmupInv, KernelInv', Quiet,
         pc' \in {"prompt", "wait", "procs", "quit", "cont", "exited",
                  "stopped", "killed"},
         job' \in Slot \cup {0}, todo' \subseteq Slot, listed' \subseteq Slot,
         status' \in [Slot -> {"Terminated", "Running", "Suspended"}],
         pc' = "wait" => pc = "wait" /\ UNCHANGED job,
         \A n \in Slot : Forgotten(n)' => Forgotten(n) \/ (Live(n)' => Notified(n)'),
         pc' = "exited" => listed' = {}
  PROVE  WarmupInv'
<1>1. Warmup!TypeOK'
  BY WarmupKernel DEF Warmup!TypeOK, Warmup!TERMINATED, Warmup!RUNNING,
     Warmup!SUSPENDED, KernelInv
<1>2. ForgottenWereNotified'
  BY DEF WarmupInv, ForgottenWereNotified, Quiet
<1>3. pc' = "wait" => Waiting'
  BY DEF WarmupInv, Waiting, Quiet, Holds
<1>. QED BY <1>1, <1>2, <1>3 DEF WarmupInv

LEMMA WarmupExecutes ==
  ASSUME WarmupInv, ConstantsAssumption, NEW blocking \in BOOLEAN, NEW q \in Pid,
         Warmup!Execute(blocking, q)
  PROVE  WarmupInv' /\ pc = "prompt"
<1> DEFINE new == forks + 1
<1>1. /\ KernelInv' /\ new \in Slot /\ forks' = new
      /\ pid'[new] = q /\ \A n \in Slot : Holds(n, q)' => n = new
      /\ \A n \in Slot \ {new} :
           (Live(n)' <=> Live(n)) /\ (Notified(n)' <=> Notified(n))
  BY WarmupCalls, ForkKeeps DEF Warmup!Execute, WarmupInv
<1>2. /\ pc = "prompt"
      /\ pc' = (IF blocking THEN "wait" ELSE "prompt")
      /\ job' = (IF blocking THEN new ELSE job)
      /\ listed' = listed \cup {new}
      /\ status' = [status EXCEPT ![new] = "Running"]
      /\ UNCHANGED todo
  BY DEF Warmup!Execute, Warmup!RUNNING
<1> HIDE DEF new
<1>3. Warmup!TypeOK'
  BY <1>1, <1>2, WarmupTypes, WarmupKernel
  DEF Warmup!TypeOK, Warmup!TERMINATED, Warmup!RUNNING, Warmup!SUSPENDED, KernelInv
<1>4. pc' = "wait" => Waiting'
  <2>1. forks' \in Nat /\ forks' >= 1 /\ \A n : Holds(n, q)' => n \in Slot
    BY <1>1 DEF KernelInv, KernelTypeOK, Slot, Holds
  <2>. QED BY <1>1, <1>2, <2>1 DEF Waiting
<1>5. ForgottenWereNotified'
  BY <1>1, <1>2, WarmupTypes DEF WarmupInv, ForgottenWereNotified, Forgotten
<1>. QED BY <1>1, <1>2, <1>3, <1>4, <1>5 DEF WarmupInv

LEMMA WarmupWaits ==
  ASSUME WarmupInv, ConstantsAssumption, Warmup!WaitReturns
  PROVE  WarmupInv' /\ EndsWait
<1>1. pc = "wait" /\ pc' = "prompt" /\ UNCHANGED <<job, todo, listed>>
  BY DEF Warmup!WaitReturns
<1>2. /\ Collect(pid[job])
      /\ UNCHANGED tableVars
      /\ \/ \E n \in Slot : Holds(n, pid[job]) /\ kstate[n] = "zombie"
         \/ ~OurChild(pid[job]) /\ UNCHANGED status
  BY WarmupCalls, WarmupKernel DEF Warmup!WaitReturns
<1>3. status' \in [Slot -> {"Terminated", "Running", "Suspended"}]
      /\ \A n \in Slot : status'[n] # status[n] => pid[n] = pid[job]
  BY WarmupTypes, WarmupKernel
  DEF Warmup!WaitReturns, Warmup!updateProcessStatus, Warmup!IsFirst,
      Warmup!TERMINATED
<1>4. /\ KernelInv' /\ Quiet
      /\ \A m \in Slot : Holds(m, pid[job]) /\ kstate[m] = "zombie" =>
           \A n \in Slot : pid[n] = pid[job] => ~Live(n)'
  BY <1>2, CollectKeeps DEF WarmupInv
<1>5. \A n \in Slot : Forgotten(n)' => Forgotten(n) \/ ~Live(n)'
  BY <1>1, <1>2, <1>3, <1>4 DEF Forgotten
<1>6. WarmupInv'
  BY <1>1, <1>3, <1>4, <1>5, WarmupTypes, WarmupQuietStep
<1>7. kstate'[job] = "reaped"
  BY <1>1, <1>2, WaitEnds DEF WarmupInv
<1>. QED BY <1>6, <1>7 DEF EndsWait

(* stop and cont show the job as they leave it; kill shows the first job   *)
(* with that pid as ended, and whichever holds the pid gets the SIGINT.    *)
LEMMA WarmupSignals ==
  ASSUME WarmupInv, NEW q \in Pid,
         Warmup!Suspend(q) \/ Warmup!Wake(q) \/ Warmup!Kill(q)
  PROVE  WarmupInv' /\ pc = "prompt"
<1>1. PICK sig \in Signals, new \in {"Running", "Suspended", "Terminated"} :
        Warmup!SendSignalCmd(q, sig, new) /\ (new = "Terminated" => sig = "INT")
  BY DEF Warmup!Suspend, Warmup!Wake, Warmup!Kill, Warmup!RUNNING,
     Warmup!SUSPENDED, Warmup!TERMINATED, Signals
<1>2. pc = "prompt" /\ UNCHANGED <<pc, job, todo, listed>>
  BY <1>1 DEF Warmup!SendSignalCmd
<1>3. /\ KernelInv' /\ Quiet
      /\ sig = "INT" => \A n \in Slot : Holds(n, q) /\ Live(n)' => Notified(n)'
  BY <1>1, WarmupCalls, WarmupKernel, SignalKeeps
  DEF Warmup!SendSignalCmd, WarmupInv
<1>4. /\ status' \in [Slot -> {"Terminated", "Running", "Suspended"}]
      /\ \A n \in Slot : status'[n] = "Terminated" =>
           status[n] = "Terminated" \/ (pid[n] = q /\ new = "Terminated")
  BY <1>1, WarmupTypes, WarmupKernel
  DEF Warmup!SendSignalCmd, Warmup!updateProcessStatus, Warmup!IsFirst
<1>5. \A n \in Slot : pid[n] = q /\ Live(n)' => Holds(n, q)
  BY <1>3 DEF Quiet, Holds, Unreaped, Live
<1>6. \A n \in Slot : Forgotten(n)' => Forgotten(n) \/ (Live(n)' => Notified(n)')
  BY <1>1, <1>2, <1>3, <1>4, <1>5 DEF Forgotten
<1>. QED BY <1>2, <1>3, <1>4, <1>6, WarmupTypes, WarmupQuietStep

LEMMA WarmupSignalsGroup ==
  ASSUME WarmupInv, NEW sig \in Signals, Warmup!SignalGroup(sig)
  PROVE  WarmupInv' /\ pc = "prompt"
<1>1. /\ pc = "prompt" /\ pc' \in {"killed", "stopped", "prompt"}
      /\ UNCHANGED <<job, todo, listed, status>> /\ UNCHANGED tableVars
  BY WarmupKernel DEF Warmup!SignalGroup, Signals
<1>2. ProcessTypes' /\ Quiet
  <2> USE WarmupKernel DEF Warmup!SignalGroup, WarmupInv, KernelInv, KernelTypeOK,
          Signals, tableVars
  <2>1. ProcessTypes'
    BY DEF ProcessTypes
  <2>2. Quiet
    BY <1>1 DEF Quiet, Unreaped, Live, Notified
  <2>. QED BY <2>1, <2>2
<1>3. KernelInv'
  BY <1>1, <1>2, QuietKeepsKernel
  DEF WarmupInv, KernelInv, KernelTypeOK, ProcessTypes, tableVars, modeVars
<1>. QED BY <1>1, <1>2, <1>3, WarmupTypes, WarmupQuietStep DEF Forgotten

LEMMA WarmupPollsAll ==
  ASSUME WarmupInv, NEW n \in Slot, Warmup!ProcsPoll(n)
  PROVE  WarmupInv' /\ pc = "procs"
<1>1. /\ pc = "procs" /\ UNCHANGED <<pc, job, listed>>
      /\ todo' = todo \ {n}
      /\ status' = [status EXCEPT ![n] = Warmup!ReportedStatus(pid[n], status[n])]
  BY DEF Warmup!ProcsPoll
<1>2. /\ KernelInv' /\ Quiet
      /\ \A m \in Slot : Holds(m, pid[n]) /\ kstate[m] = "zombie" =>
           \A k \in Slot : pid[k] = pid[n] => ~Live(k)'
  BY WarmupCalls, WarmupKernel, CollectKeeps DEF Warmup!ProcsPoll, WarmupInv
<1>3. /\ status' \in [Slot -> {"Terminated", "Running", "Suspended"}]
      /\ \A m \in Slot : status'[m] = "Terminated" =>
           \/ status[m] = "Terminated"
           \/ m = n /\ \E k \in Slot : Holds(k, pid[n]) /\ kstate[k] = "zombie"
  BY <1>1, WarmupTypes, WarmupCalls, WarmupKernel
  DEF Warmup!ReportedStatus, Warmup!TERMINATED, Warmup!RUNNING, Warmup!SUSPENDED
<1>4. \A m \in Slot : Forgotten(m)' => Forgotten(m) \/ ~Live(m)'
  BY <1>1, <1>2, <1>3 DEF Forgotten
<1>. QED BY <1>1, <1>2, <1>3, <1>4, WarmupTypes, WarmupQuietStep

(* Who is freed is sent SIGINT, unless it was already shown as ended.      *)
LEMMA WarmupFrees ==
  ASSUME WarmupInv, NEW n \in Slot, Warmup!FreeNext(n)
  PROVE  WarmupInv' /\ pc = "quit"
<1>1. /\ pc = "quit" /\ pc' \in {"cont", "quit"} /\ job' = n
      /\ listed' = listed \ {n} /\ UNCHANGED <<todo, status>>
  BY DEF Warmup!FreeNext
<1>2. UNCHANGED tableVars
  BY WarmupKernel DEF Warmup!FreeNext
<1>3. CASE status[n] = "Terminated"
  <2>1. KernelInv' /\ Quiet
    BY <1>2, <1>3, StutterIsQuiet
    DEF Warmup!FreeNext, Warmup!TERMINATED, Warmup!processVars, processVars,
        kernelVars, WarmupInv
  <2>2. \A m \in Slot : Forgotten(m)' => Forgotten(m)
    BY <1>1, <1>3 DEF Forgotten
  <2>. QED BY <1>1, <2>1, <2>2, WarmupTypes, WarmupQuietStep
<1>4. CASE status[n] # "Terminated"
  <2>1. /\ KernelInv' /\ Quiet
        /\ \A m \in Slot : Holds(m, pid[n]) /\ Live(m)' => Notified(m)'
    BY <1>2, <1>4, WarmupCalls, SignalKeeps
    DEF Warmup!FreeNext, Warmup!TERMINATED, Signals, WarmupInv
  <2>2. Live(n)' => Holds(n, pid[n])
    BY <2>1 DEF Quiet, Holds, Unreaped, Live
  <2>3. \A m \in Slot : Forgotten(m)' => Forgotten(m) \/ (Live(m)' => Notified(m)')
    BY <1>1, <2>1, <2>2 DEF Forgotten
  <2>. QED BY <1>1, <2>1, <2>3, WarmupTypes, WarmupQuietStep
<1>. QED BY <1>1, <1>3, <1>4

LEMMA WarmupContinues ==
  ASSUME WarmupInv, Warmup!SendCont
  PROVE  WarmupInv' /\ pc = "cont"
<1>1. pc = "cont" /\ pc' = "quit" /\ UNCHANGED <<job, todo, listed, status>>
  BY DEF Warmup!SendCont
<1>2. KernelInv' /\ Quiet
  BY WarmupCalls, WarmupKernel, SignalKeeps DEF Warmup!SendCont, WarmupInv, Signals
<1>. QED BY <1>1, <1>2, WarmupTypes, WarmupQuietStep DEF Forgotten

(* The steps of the shell without a system call.                           *)
LEMMA WarmupInternal ==
  ASSUME WarmupInv,
         \/ Warmup!ShellResumed \/ Warmup!ProcsStart \/ Warmup!ProcsFinish
         \/ Warmup!Leave \/ Warmup!Exit
  PROVE  WarmupInv' /\ pc # "wait"
<1>1. /\ UNCHANGED kernelVars /\ UNCHANGED <<job, status>>
      /\ pc # "wait" /\ pc' \in {"prompt", "procs", "quit", "exited"}
      /\ pc' = "exited" => listed' = {}
      /\ todo' \subseteq listed \cup todo
      /\ \A n \in Slot : Forgotten(n)' => Forgotten(n)
      /\ listed' \subseteq listed
  BY WarmupKernel
  DEF Warmup!ShellResumed, Warmup!ProcsStart, Warmup!ProcsFinish, Warmup!Leave,
      Warmup!Exit, Warmup!TERMINATED, Forgotten
<1>2. KernelInv' /\ Quiet
  BY <1>1, StutterIsQuiet DEF WarmupInv
<1>. QED BY <1>1, <1>2, WarmupTypes, WarmupQuietStep

LEMMA WarmupStep ==
  ASSUME WarmupInv, ConstantsAssumption, Warmup!Next
  PROVE  WarmupInv' /\ EndsWait
<1>1. CASE \E blocking \in BOOLEAN, q \in Pid : Warmup!Execute(blocking, q)
  BY <1>1, WarmupExecutes DEF EndsWait
<1>2. CASE Warmup!WaitReturns
  BY <1>2, WarmupWaits
<1>3. CASE \E q \in Pid : Warmup!Suspend(q) \/ Warmup!Kill(q) \/ Warmup!Wake(q)
  BY <1>3, WarmupSignals DEF EndsWait
<1>4. CASE \E sig \in {"INT", "TSTP", "CONT"} : Warmup!SignalGroup(sig)
  BY <1>4, WarmupSignalsGroup DEF EndsWait, Signals
<1>5. CASE \E n \in Slot : Warmup!ProcsPoll(n) \/ Warmup!FreeNext(n)
  BY <1>5, WarmupPollsAll, WarmupFrees DEF EndsWait
<1>6. CASE Warmup!SendCont
  BY <1>6, WarmupContinues DEF EndsWait
<1>7. CASE \/ Warmup!ShellResumed \/ Warmup!ProcsStart \/ Warmup!ProcsFinish
           \/ Warmup!Leave \/ Warmup!Exit
  BY <1>7, WarmupInternal DEF EndsWait
<1>8. CASE Warmup!Environment
  <2>1. KernelNext /\ UNCHANGED <<pc, job, todo, listed, status>>
    BY <1>8, WarmupKernel DEF Warmup!Environment, Warmup!shellVars
  <2>2. KernelInv' /\ Quiet
    BY <2>1, KernelIsQuiet DEF WarmupInv
  <2>3. WarmupInv'
    BY <2>1, <2>2, WarmupTypes, WarmupQuietStep DEF WarmupInv, Warmup!TypeOK, Forgotten
  <2>. QED BY <2>1, <2>3 DEF EndsWait
<1>. QED BY <1>1, <1>2, <1>3, <1>4, <1>5, <1>6, <1>7, <1>8, WarmupKernel
         DEF Warmup!Next, Warmup!Command, Warmup!ShellContinues

-----------------------------------------------------------------------------
(* The first shell.                                                        *)

(* The kernel of the first shell is this kernel.                          *)
LEMMA FirstCalls ==
  ASSUME NEW q, NEW sig
  PROVE  /\ First!Slot = Slot
         /\ \A n : First!Holds(n, q) <=> Holds(n, q)
         /\ First!OurChild(q) <=> OurChild(q)
         /\ First!Exists(q) <=> Exists(q)
         /\ First!Generate(q, sig) <=> Generate(q, sig)
         /\ First!Collect(q) <=> Collect(q)
         /\ First!Fork(q) <=> Fork(q)
<1>1. First!Slot = Slot /\ \A n : First!Holds(n, q) <=> Holds(n, q)
  BY DEF First!Slot, First!Holds, First!Unreaped, Slot, Holds, Unreaped
<1>2. /\ First!OurChild(q) <=> OurChild(q)
      /\ First!Exists(q) <=> Exists(q)
  BY <1>1 DEF First!OurChild, First!Exists, OurChild, Exists
<1>3. First!Generate(q, sig) <=> Generate(q, sig)
  BY <1>1 DEF First!Generate, Generate
<1>4. First!Collect(q) <=> Collect(q)
  BY <1>1 DEF First!Collect, Collect
<1>5. First!Fork(q) <=> Fork(q)
  BY <1>2 DEF First!Fork, First!modeVars, Fork, modeVars
<1>. QED BY <1>1, <1>2, <1>3, <1>4, <1>5

LEMMA FirstKernel ==
  /\ First!Slot = Slot
  /\ First!KernelTypeOK <=> KernelTypeOK
  /\ First!KernelTypeOK' <=> KernelTypeOK'
  /\ First!KernelInit <=> KernelInit
  /\ First!KernelNext <=> KernelNext
  /\ UNCHANGED First!tableVars <=> UNCHANGED tableVars
  /\ UNCHANGED First!kernelVars <=> UNCHANGED kernelVars
<1>1. /\ First!Slot = Slot
      /\ UNCHANGED First!tableVars <=> UNCHANGED tableVars
      /\ UNCHANGED First!kernelVars <=> UNCHANGED kernelVars
  BY DEF First!Slot, First!kernelVars, First!tableVars, First!modeVars,
       First!processVars, Slot, kernelVars, tableVars, modeVars, processVars
<1>2. /\ First!KernelTypeOK <=> KernelTypeOK
      /\ First!KernelTypeOK' <=> KernelTypeOK'
      /\ First!KernelInit <=> KernelInit
  BY DEF First!KernelTypeOK, First!KernelInit, First!Slot, KernelTypeOK,
       KernelInit, Slot
<1>3. ASSUME NEW n
      PROVE  /\ First!Delivery(n) <=> Delivery(n)
             /\ First!ProgramEnds(n) <=> ProgramEnds(n)
             /\ First!ExternalKill(n) <=> ExternalKill(n)
  <2>1. First!Delivery(n) <=> Delivery(n)
    BY DEF First!Delivery, First!DeliverInt, First!DeliverTstp,
         First!Dead, First!tableVars, First!modeVars, Delivery, DeliverInt,
         DeliverTstp, Dead, tableVars, modeVars
  <2>2. First!ProgramEnds(n) <=> ProgramEnds(n)
    BY DEF First!ProgramEnds, First!Dead, First!tableVars, First!modeVars,
         ProgramEnds, Dead, tableVars, modeVars
  <2>3. First!ExternalKill(n) <=> ExternalKill(n)
    BY DEF First!ExternalKill, First!Dead, First!modeVars, ExternalKill,
         Dead, modeVars
  <2>. QED BY <2>1, <2>2, <2>3
<1>4. ASSUME NEW n, NEW sig
      PROVE  First!ExternalSignal(n, sig) <=> ExternalSignal(n, sig)
  BY FirstCalls DEF First!ExternalSignal, First!Unreaped, First!modeVars,
       ExternalSignal, Unreaped, modeVars
<1>5. ASSUME NEW q
      PROVE  /\ First!ForeignStarts(q) <=> ForeignStarts(q)
             /\ First!ForeignEnds(q) <=> ForeignEnds(q)
  <2>1. First!Exists(q) <=> Exists(q)
    BY FirstCalls
  <2>. QED
    BY <2>1 DEF First!ForeignStarts, First!ForeignEnds, First!processVars,
         First!modeVars, ForeignStarts, ForeignEnds, processVars, modeVars
<1>6. First!KernelNext <=> KernelNext
  BY <1>1, <1>3, <1>4, <1>5 DEF First!KernelNext, KernelNext
<1>. QED BY <1>1, <1>2, <1>6

FirstInv ==
  /\ First!TypeOK
  /\ KernelInv
  /\ pc = "wait" => Waiting

LEMMA FirstStep ==
  ASSUME FirstInv, ConstantsAssumption, First!Next
  PROVE  FirstInv' /\ EndsWait
<1> USE FirstKernel DEF FirstInv, First!TypeOK
<1>1. CASE \E blocking \in BOOLEAN, q \in Pid : First!Execute(blocking, q)
  <2> DEFINE new == forks + 1
  <2>1. PICK blocking \in BOOLEAN, q \in Pid : First!Execute(blocking, q)
    BY <1>1
  <2>2. /\ KernelInv' /\ new \in Slot /\ forks' = new
        /\ pid'[new] = q /\ \A n \in Slot : Holds(n, q)' => n = new
    BY <2>1, FirstCalls, ForkKeeps DEF First!Execute
  <2>3. /\ pc = "prompt"
        /\ pc' = (IF blocking THEN "wait" ELSE "prompt")
        /\ job' = (IF blocking THEN new ELSE job)
    BY <2>1 DEF First!Execute
  <2> HIDE DEF new
  <2>4. pc' = "wait" => Waiting'
    <3>1. forks' \in Nat /\ forks' >= 1 /\ \A n : Holds(n, q)' => n \in Slot
      BY <2>2 DEF KernelInv, KernelTypeOK, Slot, Holds
    <3>. QED BY <2>2, <2>3, <3>1 DEF Waiting
  <2>. QED BY <2>2, <2>3, <2>4 DEF KernelInv, EndsWait
<1>2. CASE First!WaitReturns
  <2>1. pc = "wait" /\ pc' = "prompt" /\ UNCHANGED job /\ Collect(pid[job])
    BY <1>2, FirstCalls DEF First!WaitReturns
  <2>2. \/ \E n \in Slot : Holds(n, pid[job]) /\ kstate[n] = "zombie"
        \/ ~OurChild(pid[job])
    BY <1>2, FirstCalls DEF First!WaitReturns, OurChild
  <2>3. KernelInv'
    BY <1>2, <2>1, CollectKeeps DEF First!WaitReturns
  <2>. QED BY <2>1, <2>2, <2>3, WaitEnds DEF EndsWait, KernelInv
<1>3. CASE First!ForkFails \/ First!Leave
  BY <1>3, StutterIsQuiet DEF First!ForkFails, First!Leave, EndsWait, KernelInv
<1>4. CASE KernelNext /\ UNCHANGED <<pc, job>>
  BY <1>4, KernelIsQuiet DEF KernelInv, Waiting, Quiet, Holds, EndsWait
<1>. QED BY <1>1, <1>2, <1>3, <1>4 DEF First!Next, First!shellVars

-----------------------------------------------------------------------------
(* The shell that was started.                                             *)

OldInv ==
  \/ version = "actual" /\ ActualInv
  \/ version = "warmup" /\ WarmupInv
  \/ version = "first" /\ FirstInv

LEMMA StartInv ==
  ASSUME ConstantsAssumption, KernelInit
  PROVE  KernelInv /\ \A n \in Slot : ~Live(n)
BY DEF ConstantsAssumption, KernelInit, KernelInv, KernelTypeOK, Slot, Unreaped, Live

LEMMA OldInitInv == ConstantsAssumption /\ Init => OldInv
<1> SUFFICES ASSUME ConstantsAssumption, Init PROVE OldInv
  OBVIOUS
<1>1. CASE version = "actual" /\ Actual!Init
  <2>1. KernelInv /\ \A n \in Slot : ~Live(n)
    BY <1>1, StartInv, ActualKernel DEF Actual!Init
  <2>. QED BY <1>1, <2>1, ActualKernel
           DEF Actual!Init, OldInv, ActualInv, Actual!TypeOK, Actual!RUNNING,
               ForgottenWereNotified, Removing, KernelInv
<1>2. CASE version = "warmup" /\ Warmup!Init
  <2>1. KernelInv /\ \A n \in Slot : ~Live(n)
    BY <1>2, StartInv, WarmupKernel DEF Warmup!Init
  <2>. QED BY <1>2, <2>1, WarmupKernel
           DEF Warmup!Init, OldInv, WarmupInv, Warmup!TypeOK, Warmup!RUNNING,
               ForgottenWereNotified, KernelInv
<1>3. CASE version = "first" /\ First!Init
  BY <1>3, StartInv, FirstKernel
  DEF First!Init, OldInv, FirstInv, First!TypeOK, KernelInv
<1>. QED BY <1>1, <1>2, <1>3 DEF Init

LEMMA OldNextInv == ConstantsAssumption /\ OldInv /\ [Next]_vars => OldInv' /\ EndsWait
<1> SUFFICES ASSUME ConstantsAssumption, OldInv, [Next]_vars
             PROVE  OldInv' /\ EndsWait
  OBVIOUS
<1>1. CASE version = "actual" /\ Actual!Next /\ UNCHANGED version
  BY <1>1, ActualStep DEF OldInv
<1>2. CASE version = "warmup" /\ Warmup!Next /\ UNCHANGED version
  BY <1>2, WarmupStep DEF OldInv
<1>3. CASE version = "first" /\ First!Next /\ UNCHANGED version
  BY <1>3, FirstStep DEF OldInv
<1>4. CASE UNCHANGED vars
  <2>1. /\ UNCHANGED <<version, pc, caller, job, todo, listed, status>>
        /\ UNCHANGED kernelVars
    BY <1>4, ActualKernel DEF vars, Actual!vars, Actual!shellVars
  <2>2. OldInv => KernelInv
    BY DEF OldInv, ActualInv, WarmupInv, FirstInv
  <2>3. KernelInv' /\ Quiet
    BY <2>1, <2>2, StutterIsQuiet
  <2>4. CASE version = "actual" /\ ActualInv
    BY <2>1, <2>3, <2>4, ActualTypes, ActualQuietStep
    DEF OldInv, ActualInv, Actual!TypeOK, Removing, Forgotten, EndsWait
  <2>5. CASE version = "warmup" /\ WarmupInv
    BY <2>1, <2>3, <2>5, WarmupTypes, WarmupQuietStep
    DEF OldInv, WarmupInv, Warmup!TypeOK, Forgotten, EndsWait
  <2>6. CASE version = "first" /\ FirstInv
    BY <2>1, <2>3, <2>6, FirstKernel
    DEF OldInv, FirstInv, First!TypeOK, KernelInv, Quiet, Waiting, Holds, EndsWait
  <2>. QED BY <2>4, <2>5, <2>6 DEF OldInv
<1>. QED BY <1>1, <1>2, <1>3, <1>4 DEF Next

(* OldInv holds in every state of every shell.                             *)
LEMMA OldInvAlways == Spec => []OldInv
BY OldInitInv, OldNextInv, ConstantsAssumption, PTL DEF Spec

(* In every state the variables of the shell that runs have their types.   *)
THEOREM OldTypeCorrect == Spec => []TypeOK
<1>1. OldInv => TypeOK
  BY DEF OldInv, ActualInv, WarmupInv, FirstInv, TypeOK
<1>. QED BY <1>1, OldInvAlways, PTL

(* No shell that keeps a list loses a child nobody asked to end: the one   *)
(* that it shows as terminated, or dropped from its list (terminateProcess *)
(* of kill, of procs and of the first quits), is dead or was sent SIGINT,  *)
(* whatever the kernel does between its calls and whoever gets its pid.    *)
THEOREM ForgetsNobody == Spec => []KillsWhatItForgets
<1>1. OldInv => KillsWhatItForgets
  BY ActualKernel, WarmupKernel
  DEF OldInv, ActualInv, WarmupInv, KillsWhatItForgets,
      Actual!TerminatedWasSignalled, Actual!Live, Actual!Notified,
      Actual!TERMINATED, Warmup!TerminatedWasSignalled, Warmup!Live,
      Warmup!Notified, Warmup!TERMINATED, ForgottenWereNotified, Live, Notified,
      Forgotten
<1>. QED BY <1>1, OldInvAlways, PTL

(* Once freeProcessList is through and the shell has left, each child that *)
(* lives was sent SIGINT: none is left behind running unasked.             *)
THEOREM LeavesNobody == Spec => []QuitNotifies
<1>1. OldInv => QuitNotifies
  BY ActualKernel, WarmupKernel
  DEF OldInv, ActualInv, WarmupInv, QuitNotifies, Actual!QuitNotifies, Actual!Live,
      Actual!Notified, Warmup!QuitNotifies, Warmup!Live, Warmup!Notified,
      ForgottenWereNotified, Live, Notified, Forgotten
<1>. QED BY <1>1, OldInvAlways, PTL

(* The waitpid of a foreground command is over when that program was       *)
(* reaped, not when it stops, nor when another process ends or has its pid. *)
THEOREM WaitsToTheEnd == Spec => WaitsForItsProgram
<1>1. ConstantsAssumption /\ OldInv /\ [Next]_vars =>
        [pc = "wait" /\ pc' # "wait" => kstate'[job] = "reaped"]_vars
  BY OldNextInv DEF EndsWait
<1>. QED BY <1>1, OldInvAlways, ConstantsAssumption, PTL
         DEF Spec, WaitsForItsProgram
=============================================================================
