-------------------------- MODULE JobControlProofs --------------------------
(***************************************************************************)
(* Proofs about JobControl, for every set of pids, every number of forks   *)
(* and external signals, and whether or not children are reaped by the     *)
(* kernel or pids are taken by foreign processes, unless a theorem says    *)
(* otherwise.                                                              *)
(***************************************************************************)
EXTENDS JobControl, TLAPS

USE DEF TERMINATED, RUNNING, SUSPENDED

-----------------------------------------------------------------------------
(* What the kernel operators do.                                           *)

(* Signalling a pid reaps and creates no process. *)
LEMMA GenerateKeepsReaped ==
  ASSUME TypeOK, NEW q, NEW sig, Generate(q, sig)
  PROVE  \A n \in Slot : /\ Unreaped(n)' <=> Unreaped(n)
                         /\ kstate'[n] = "zombie" <=> kstate[n] = "zombie"
                         /\ kstate'[n] = "unborn" <=> kstate[n] = "unborn"
                         /\ Live(n)' <=> Live(n)
  BY DEF TypeOK, KernelTypeOK, Generate, Unreaped, Live, Holds

(* A signal to a pid takes no SIGINT away, and SIGINT stays with a live    *)
(* child that it is sent to.                                               *)
LEMMA GenerateKeepsInt ==
  ASSUME TypeOK, NEW q, NEW sig, Generate(q, sig)
  PROVE  \A n \in Slot : /\ "INT" \in pending[n] => "INT" \in pending'[n]
                         /\ sig = "INT" /\ Holds(n, q) /\ Live(n)
                              => "INT" \in pending'[n]
  BY DEF TypeOK, KernelTypeOK, Generate, Unreaped, Live, Holds

(* waitpid reaps the zombie that holds the pid and no other process. *)
LEMMA CollectReapsHolder ==
  ASSUME TypeOK, NEW q, Collect(q)
  PROVE  \A n \in Slot : /\ Unreaped(n)' <=> Unreaped(n) /\ ~(pid[n] = q /\ kstate[n] = "zombie")
                         /\ kstate'[n] = "unborn" <=> kstate[n] = "unborn"
                         /\ Live(n)' <=> Live(n)
  BY DEF TypeOK, KernelTypeOK, Collect, Unreaped, Live, Holds

(* A reported end means that the child that holds the pid is a zombie. *)
LEMMA ReportedEnd ==
  ASSUME NEW q, NEW old
  PROVE  /\ ReportedStatus(q, old) = TERMINATED /\ old # TERMINATED
              => \E n \in Slot : Holds(n, q) /\ kstate[n] = "zombie"
         /\ ReportedStatus(q, old) # TERMINATED
              => \A n \in Slot : Holds(n, q) => kstate[n] # "zombie"
         /\ ReportedStatus(q, old) \in {TERMINATED, RUNNING, SUSPENDED, old}
  BY DEF ReportedStatus

-----------------------------------------------------------------------------
(* Type correctness.                                                       *)

LEMMA TypeInit == Init => TypeOK
<1> SUFFICES ASSUME Init
             PROVE  TypeOK
  OBVIOUS
<1>1. /\ forks \in 0 .. MaxForks /\ ext \in 0 .. MaxExt
      /\ autoReap \in BOOLEAN /\ foreignPids \in BOOLEAN
  BY ConstantsAssumption DEF ConstantsAssumption, Init, KernelInit
<1>2. pending \in [Slot -> SUBSET {"INT", "TSTP"}]
  BY DEF Init, KernelInit
<1> QED
  BY <1>1, <1>2 DEF Init, KernelInit, TypeOK, KernelTypeOK

LEMMA TypeShellStep ==
  ASSUME TypeOK, ShellContinues
  PROVE  TypeOK'
<1> USE ConstantsAssumption DEF TypeOK, KernelTypeOK, modeVars, tableVars, kernelVars, processVars, shellVars, listVars
<1>1. CASE WaitReturns
  BY <1>1 DEF WaitReturns, Collect, updateProcessStatus
<1>2. CASE WaitNoChild
  BY <1>2 DEF WaitNoChild
<1>3. CASE ProcsFinish
  BY <1>3 DEF ProcsFinish
<1>4. ASSUME NEW n \in Slot, ProcsPoll(n)
      PROVE  TypeOK'
  <2>1. ReportedStatus(pid[n], status[n]) \in {TERMINATED, RUNNING, SUSPENDED}
    BY ReportedEnd
  <2> QED
    BY <1>4, <2>1 DEF ProcsPoll, Collect
<1>5. CASE CheckTerminated
  BY <1>5 DEF CheckTerminated, TerminateDone
<1>6. CASE CheckPolled
  <2>1. ASSUME job \in Slot
        PROVE  ReportedStatus(pid[job], status[job]) \in {TERMINATED, RUNNING, SUSPENDED}
    BY <2>1, ReportedEnd
  <2> QED
    BY <1>6, <2>1 DEF CheckPolled, TerminateDone, Collect
<1>7. CASE SendInt
  BY <1>7 DEF SendInt, TerminateDone, Generate
<1>8. CASE SendCont
  BY <1>8 DEF SendCont, TerminateDone, Generate
<1>9. CASE Exit
  BY <1>9 DEF Exit
<1>10. ASSUME NEW n \in Slot, FreeNext(n)
       PROVE  TypeOK'
  BY <1>10 DEF FreeNext
<1> QED
  BY <1>1, <1>2, <1>3, <1>4, <1>5, <1>6, <1>7, <1>8, <1>9, <1>10 DEF ShellContinues

LEMMA TypeCommand ==
  ASSUME TypeOK, Command
  PROVE  TypeOK'
<1> USE DEF TypeOK, KernelTypeOK, modeVars, tableVars, kernelVars, processVars, shellVars, listVars
<1>1. ASSUME NEW blocking \in BOOLEAN, NEW q \in Pid, Execute(blocking, q)
      PROVE  TypeOK'
  <2>1. forks + 1 \in Slot /\ forks' \in 0 .. MaxForks
    BY <1>1, ConstantsAssumption DEF Execute, Fork, ConstantsAssumption, Slot
  <2> QED
    BY <1>1, <2>1 DEF Execute, Fork
<1>2. CASE ProcsStart
  BY <1>2 DEF ProcsStart
<1>3. ASSUME NEW q \in Pid, Suspend(q) \/ Wake(q)
      PROVE  TypeOK'
  BY <1>3 DEF Suspend, Wake, SendSignalCmd, Generate, updateProcessStatus
<1>4. ASSUME NEW n \in listed, KillCmd(n)
      PROVE  TypeOK'
  BY <1>4 DEF KillCmd
<1>5. CASE Leave
  BY <1>5 DEF Leave
<1> QED
  BY <1>1, <1>2, <1>3, <1>4, <1>5 DEF Command

LEMMA TypeEnvironment ==
  ASSUME TypeOK, Environment
  PROVE  TypeOK'
<1> USE DEF TypeOK, KernelTypeOK, modeVars, tableVars, kernelVars, processVars, shellVars
<1>0. UNCHANGED shellVars
  BY DEF Environment
<1>1. ASSUME NEW n \in Slot, Delivery(n)
      PROVE  TypeOK'
  BY <1>0, <1>1 DEF Delivery, DeliverInt, DeliverTstp, Dead
<1>2. ASSUME NEW n \in Slot, ProgramEnds(n)
      PROVE  TypeOK'
  BY <1>0, <1>2 DEF ProgramEnds, Dead
<1>3. ASSUME ext < MaxExt, ext' = ext + 1
      PROVE  ext' \in 0 .. MaxExt
  BY <1>3, ConstantsAssumption DEF ConstantsAssumption
<1>4. ASSUME NEW n \in Slot, ExternalKill(n)
      PROVE  TypeOK'
  BY <1>0, <1>3, <1>4 DEF ExternalKill, Dead
<1>5. ASSUME NEW n \in Slot, NEW sig \in {"INT", "TSTP", "CONT"}, ExternalSignal(n, sig)
      PROVE  TypeOK'
  BY <1>0, <1>3, <1>5 DEF ExternalSignal, Generate
<1>6. ASSUME NEW q \in Pid, ForeignStarts(q) \/ ForeignEnds(q)
      PROVE  TypeOK'
  BY <1>0, <1>6 DEF ForeignStarts, ForeignEnds
<1> QED
  BY <1>0, <1>1, <1>2, <1>4, <1>5, <1>6 DEF Environment, KernelNext

(* Every variable keeps its type, whatever the constants. *)
THEOREM TypeCorrect == Spec => []TypeOK
<1>1. TypeOK /\ [Next]_vars => TypeOK'
  <2> SUFFICES ASSUME TypeOK, [Next]_vars
               PROVE  TypeOK'
    OBVIOUS
  <2>1. CASE UNCHANGED vars
    BY <2>1 DEF TypeOK, KernelTypeOK, vars, kernelVars, shellVars, processVars, tableVars, modeVars
  <2> QED
    BY <2>1, TypeShellStep, TypeCommand, TypeEnvironment DEF Next
<1> QED
  BY TypeInit, <1>1, PTL DEF Spec

-----------------------------------------------------------------------------
(* The inductive invariant, one lemma per action.                          *)

LEMMA IInvInit == Init => IInv
<1> SUFFICES ASSUME Init
             PROVE  IInv
  OBVIOUS
<1>1. TypeOK
  BY TypeInit
<1>2. \A n \in Slot : n > 0
  BY ConstantsAssumption DEF ConstantsAssumption, Slot
<1> QED
  BY <1>1, <1>2 DEF Init, KernelInit, IInv, PidsUnique, ForkOrder, Control, Tracked, LeavingNotifies, Unreaped, Live

LEMMA ExecuteStep ==
  ASSUME IInv, NEW blocking \in BOOLEAN, NEW q \in Pid, Execute(blocking, q)
  PROVE  IInv'
<1> DEFINE new == forks + 1
<1>1. TypeOK /\ TypeOK'
  BY TypeCommand DEF IInv, Command
<1>2. /\ new \in Slot
      /\ new \notin listed /\ new \notin freed
      /\ kstate[new] = "unborn"
      /\ \A n \in listed : n < new
      /\ \A n \in Slot : n > forks <=> n = new \/ n > new
  BY <1>1, ConstantsAssumption DEF ConstantsAssumption, TypeOK, KernelTypeOK, Slot, IInv, ForkOrder, Execute, Fork
<1>3. \A n \in Slot : /\ Unreaped(n)' <=> Unreaped(n) \/ n = new
                      /\ pid'[n] = IF n = new THEN q ELSE pid[n]
                      /\ Unreaped(n) => n # new /\ pid[n] # q
  BY <1>1, <1>2 DEF TypeOK, KernelTypeOK, Execute, Fork, Unreaped, Exists, OurChild, Holds
<1>4. PidsUnique'
  BY <1>2, <1>3 DEF IInv, PidsUnique
<1>5. ForkOrder'
  BY <1>1, <1>2 DEF IInv, ForkOrder, Execute, Fork, TypeOK, KernelTypeOK
<1>6. Control'
  BY <1>1, <1>2 DEF IInv, Control, Execute, Fork, TypeOK, KernelTypeOK
<1>7. Tracked'
  BY <1>1, <1>2, <1>3 DEF IInv, Tracked, IsFirst, Execute, Fork, TypeOK, KernelTypeOK, Slot
<1>8. LeavingNotifies'
  BY DEF IInv, Control, LeavingNotifies, Execute, Fork
<1> QED
  BY <1>1, <1>4, <1>5, <1>6, <1>7, <1>8 DEF IInv

LEMMA WaitReturnsStep ==
  ASSUME IInv, WaitReturns
  PROVE  IInv'
<1>1. TypeOK /\ TypeOK'
  BY TypeShellStep DEF IInv, ShellContinues
<1> USE DEF WaitReturns, tableVars, kernelVars
<1>2. \A n \in Slot : /\ Unreaped(n)' => Unreaped(n) /\ ~(pid[n] = pid[job])
                      /\ kstate'[n] = "unborn" <=> kstate[n] = "unborn"
  BY <1>1, CollectReapsHolder DEF IInv, PidsUnique, Holds
<1>3. PidsUnique'
  BY <1>2 DEF IInv, PidsUnique
<1>4. ForkOrder'
  BY <1>2 DEF IInv, ForkOrder
<1>5. Control'
  BY DEF IInv, Control
<1>6. Tracked'
  BY <1>1, <1>2 DEF IInv, Tracked, IsFirst, updateProcessStatus, TypeOK, KernelTypeOK
<1>7. LeavingNotifies'
  BY DEF IInv, Control, LeavingNotifies
<1> QED
  BY <1>1, <1>3, <1>4, <1>5, <1>6, <1>7 DEF IInv

LEMMA WaitNoChildStep ==
  ASSUME IInv, WaitNoChild
  PROVE  IInv'
<1>1. TypeOK /\ TypeOK'
  BY TypeShellStep DEF IInv, ShellContinues
<1> USE DEF WaitNoChild, tableVars, kernelVars, processVars
<1>2. PidsUnique'
  BY DEF IInv, PidsUnique, Unreaped
<1>3. ForkOrder'
  BY DEF IInv, ForkOrder, IsFirst
<1>4. Control'
  BY DEF IInv, Control
<1>5. Tracked'
  BY DEF IInv, Tracked, IsFirst, OurChild, Holds, Unreaped
<1>6. LeavingNotifies'
  BY DEF IInv, Control, LeavingNotifies
<1> QED
  BY <1>1, <1>2, <1>3, <1>4, <1>5, <1>6 DEF IInv

(* Steps that touch no process, no status and no node. *)
LEMMA QuietStep ==
  ASSUME IInv, TypeOK', Control', UNCHANGED <<listVars, processVars, pid, forks>>,
         leaving => leaving',
         pc' = "cont" => pc = "cont" /\ job' = job
  PROVE  IInv'
<1> USE DEF listVars, processVars
<1>1. PidsUnique'
  BY DEF IInv, PidsUnique, Unreaped
<1>2. ForkOrder'
  BY DEF IInv, ForkOrder
<1>3. Tracked'
  BY DEF IInv, Tracked, IsFirst, Unreaped
<1>4. LeavingNotifies'
  BY DEF IInv, Tracked, IsFirst, Unreaped, LeavingNotifies, Live, Notified
<1> QED
  BY <1>1, <1>2, <1>3, <1>4 DEF IInv

(* Steps of the children alone: they start nothing, and a live child that  *)
(* was notified stays so.                                                  *)
LEMMA ChildStep ==
  ASSUME IInv, TypeOK', UNCHANGED <<shellVars, pid, forks>>,
         \A n \in Slot : /\ Unreaped(n)' => Unreaped(n)
                         /\ kstate'[n] = "unborn" <=> kstate[n] = "unborn"
                         /\ Live(n)' => Live(n) /\ (Notified(n) => Notified(n)')
  PROVE  IInv'
<1> USE DEF shellVars
<1>1. PidsUnique'
  BY DEF IInv, PidsUnique
<1>2. ForkOrder'
  BY DEF IInv, ForkOrder
<1>3. Control'
  BY DEF IInv, Control
<1>4. Tracked'
  BY DEF IInv, Tracked, IsFirst
<1>5. LeavingNotifies'
  BY DEF IInv, TypeOK, KernelTypeOK, LeavingNotifies
<1> QED
  BY <1>1, <1>2, <1>3, <1>4, <1>5 DEF IInv

LEMMA ProcsPollStep ==
  ASSUME IInv, NEW k \in Slot, ProcsPoll(k)
  PROVE  IInv'
<1>1. TypeOK /\ TypeOK'
  BY TypeShellStep DEF IInv, ShellContinues
<1> USE DEF ProcsPoll, tableVars, kernelVars
<1>2. \A n \in Slot : /\ Unreaped(n)' => Unreaped(n) /\ ~(pid[n] = pid[k] /\ kstate[n] = "zombie")
                      /\ kstate'[n] = "unborn" <=> kstate[n] = "unborn"
  BY <1>1, CollectReapsHolder
<1>3. PidsUnique'
  BY <1>2 DEF IInv, PidsUnique
<1>4. ForkOrder'
  BY <1>2 DEF IInv, ForkOrder
<1>5. k \in todo /\ status[k] # TERMINATED
  BY DEF IInv, Control, IsHead
<1>6. Control'
  BY <1>1 DEF IInv, Control, TypeOK, KernelTypeOK
<1>7. ASSUME status'[k] = TERMINATED
      PROVE  ~Unreaped(k)'
  BY <1>1, <1>2, <1>5, <1>7, ReportedEnd DEF IInv, PidsUnique, Holds, TypeOK, KernelTypeOK
<1>8. Tracked'
  BY <1>1, <1>2, <1>7 DEF IInv, Tracked, IsFirst, TypeOK, KernelTypeOK
<1>9. LeavingNotifies'
  BY DEF IInv, Control, LeavingNotifies
<1> QED
  BY <1>1, <1>3, <1>4, <1>6, <1>8, <1>9 DEF IInv

LEMMA ProcsFinishStep ==
  ASSUME IInv, ProcsFinish
  PROVE  IInv'
<1>1. TypeOK /\ TypeOK'
  BY TypeShellStep DEF IInv, ShellContinues
<1> USE DEF ProcsFinish, tableVars, kernelVars, processVars
<1>2. PidsUnique'
  BY DEF IInv, PidsUnique, Unreaped
<1>3. ForkOrder'
  BY DEF IInv, ForkOrder
<1>4. Control'
  BY DEF IInv, Control
<1>5. Tracked'
  BY DEF IInv, Tracked, IsFirst, Unreaped
<1>6. LeavingNotifies'
  BY DEF IInv, Control, LeavingNotifies
<1> QED
  BY <1>1, <1>2, <1>3, <1>4, <1>5, <1>6 DEF IInv

LEMMA SendSignalStep ==
  ASSUME IInv, TypeOK', NEW q \in Pid, NEW sig, NEW new \in {RUNNING, SUSPENDED},
         SendSignalCmd(q, sig, new)
  PROVE  IInv'
<1>1. TypeOK
  BY DEF IInv
<1> USE DEF SendSignalCmd, tableVars, kernelVars
<1>2. \A n \in Slot : /\ Unreaped(n)' <=> Unreaped(n)
                      /\ kstate'[n] = "unborn" <=> kstate[n] = "unborn"
  BY <1>1, GenerateKeepsReaped
<1>3. \A n \in Slot : status'[n] = TERMINATED => status[n] = TERMINATED
  BY <1>1 DEF updateProcessStatus, TypeOK, KernelTypeOK
<1>4. PidsUnique'
  BY <1>2 DEF IInv, PidsUnique
<1>5. ForkOrder'
  BY <1>2 DEF IInv, ForkOrder
<1>6. Control'
  BY DEF IInv, Control
<1>7. Tracked'
  BY <1>2, <1>3 DEF IInv, Tracked, IsFirst
<1>8. LeavingNotifies'
  BY DEF IInv, Control, LeavingNotifies
<1> QED
  BY <1>4, <1>5, <1>6, <1>7, <1>8 DEF IInv

LEMMA CheckTerminatedStep ==
  ASSUME IInv, CheckTerminated
  PROVE  IInv'
<1>1. TypeOK /\ TypeOK'
  BY TypeShellStep DEF IInv, ShellContinues
<1> USE DEF CheckTerminated, TerminateDone, tableVars, kernelVars, processVars
<1>2. job \in listed /\ job \in Slot
  BY <1>1 DEF IInv, Control, TypeOK, KernelTypeOK
<1>3. PidsUnique'
  BY DEF IInv, PidsUnique, Unreaped
<1>4. ForkOrder'
  BY <1>2 DEF IInv, ForkOrder
<1>5. Control'
  BY <1>1 DEF IInv, Control, TypeOK, KernelTypeOK
<1>6. Tracked'
  BY DEF IInv, Tracked, IsFirst, Unreaped
<1>7. LeavingNotifies'
  BY DEF IInv, Control, LeavingNotifies, Live, Notified
<1> QED
  BY <1>1, <1>3, <1>4, <1>5, <1>6, <1>7 DEF IInv

LEMMA CheckPolledStep ==
  ASSUME IInv, CheckPolled
  PROVE  IInv'
<1> DEFINE new == ReportedStatus(pid[job], status[job])
<1>1. TypeOK /\ TypeOK'
  BY TypeShellStep DEF IInv, ShellContinues
<1> USE DEF CheckPolled, TerminateDone, tableVars, kernelVars
<1>2. job \in listed /\ job \in Slot
  BY <1>1 DEF IInv, Control, TypeOK, KernelTypeOK
<1>3. \A n \in Slot : /\ Unreaped(n)' => Unreaped(n) /\ ~(pid[n] = pid[job] /\ kstate[n] = "zombie")
                      /\ kstate'[n] = "unborn" <=> kstate[n] = "unborn"
                      /\ Live(n)' <=> Live(n)
  BY <1>1, CollectReapsHolder
<1>4. PidsUnique'
  BY <1>3 DEF IInv, PidsUnique
<1>5. ForkOrder'
  BY <1>2, <1>3 DEF IInv, ForkOrder
<1>6. Control'
  BY <1>1 DEF IInv, Control, TypeOK, KernelTypeOK
<1>7. new = TERMINATED => ~Unreaped(job)'
  BY <1>2, <1>3, ReportedEnd DEF IInv, PidsUnique, Holds
<1>8. \A n \in Slot : Unreaped(n)' /\ status[n] # TERMINATED => status'[n] # TERMINATED
  BY <1>1, <1>2, <1>7 DEF TypeOK, KernelTypeOK
<1>9. Tracked'
  BY <1>3, <1>8 DEF IInv, Tracked, IsFirst
<1>10. ASSUME ~(OurChild(pid[job]) /\ new # TERMINATED)
       PROVE  ~Live(job)'
  BY <1>2, <1>3, <1>7, <1>10 DEF OurChild, Holds, Live, Unreaped
<1>11. \A n \in Slot : Live(n)' => Unreaped(n)'
  BY DEF Live, Unreaped
<1>12. \A n \in Slot : Notified(n)' <=> Notified(n)
  BY DEF Notified, Collect
<1>13. LeavingNotifies'
  BY <1>2, <1>3, <1>8, <1>10, <1>11, <1>12 DEF IInv, LeavingNotifies
<1> QED
  BY <1>1, <1>4, <1>5, <1>6, <1>9, <1>13 DEF IInv

LEMMA SendIntStep ==
  ASSUME IInv, SendInt
  PROVE  IInv'
<1>1. TypeOK /\ TypeOK'
  BY TypeShellStep DEF IInv, ShellContinues
<1> USE DEF SendInt, TerminateDone, tableVars, kernelVars
<1>2. job \in listed /\ job \in Slot
  BY <1>1 DEF IInv, Control, TypeOK, KernelTypeOK
<1>3. \A n \in Slot : /\ Unreaped(n)' <=> Unreaped(n)
                      /\ kstate'[n] = "unborn" <=> kstate[n] = "unborn"
                      /\ Live(n)' <=> Live(n)
  BY <1>1, GenerateKeepsReaped
<1>4. \A n \in Slot : Notified(n) => Notified(n)'
  BY <1>1, GenerateKeepsInt DEF Notified
<1>5. Live(job) => Notified(job)'
  BY <1>1, <1>2, GenerateKeepsInt DEF Notified, Live, Holds, Unreaped
<1>6. PidsUnique'
  BY <1>3 DEF IInv, PidsUnique
<1>7. ForkOrder'
  BY <1>2, <1>3 DEF IInv, ForkOrder
<1>8. Control'
  BY <1>1 DEF IInv, Control, TypeOK, KernelTypeOK
<1>9. Tracked'
  BY <1>3 DEF IInv, Tracked, IsFirst
<1>10. LeavingNotifies'
  BY <1>2, <1>3, <1>4, <1>5 DEF IInv, LeavingNotifies
<1> QED
  BY <1>1, <1>6, <1>7, <1>8, <1>9, <1>10 DEF IInv

LEMMA SendContStep ==
  ASSUME IInv, SendCont
  PROVE  IInv'
<1>1. TypeOK /\ TypeOK'
  BY TypeShellStep DEF IInv, ShellContinues
<1> USE DEF SendCont, TerminateDone, tableVars, kernelVars
<1>2. job \in listed /\ job \in Slot
  BY <1>1 DEF IInv, Control, TypeOK, KernelTypeOK
<1>3. \A n \in Slot : /\ Unreaped(n)' <=> Unreaped(n)
                      /\ kstate'[n] = "unborn" <=> kstate[n] = "unborn"
                      /\ Live(n)' <=> Live(n)
  BY <1>1, GenerateKeepsReaped
<1>4. \A n \in Slot : Notified(n) => Notified(n)'
  BY <1>1, GenerateKeepsInt DEF Notified
<1>5. PidsUnique'
  BY <1>3 DEF IInv, PidsUnique
<1>6. ForkOrder'
  BY <1>2, <1>3 DEF IInv, ForkOrder
<1>7. Control'
  BY <1>1 DEF IInv, Control, TypeOK, KernelTypeOK
<1>8. Tracked'
  BY <1>3 DEF IInv, Tracked, IsFirst
<1>9. LeavingNotifies'
  BY <1>2, <1>3, <1>4 DEF IInv, LeavingNotifies
<1> QED
  BY <1>1, <1>5, <1>6, <1>7, <1>8, <1>9 DEF IInv

(* Delivery, death and signals of others are steps of the children. *)
LEMMA EnvironmentStep ==
  ASSUME IInv, Environment
  PROVE  IInv'
<1>1. TypeOK /\ TypeOK'
  BY TypeEnvironment DEF IInv
<1> USE DEF tableVars, kernelVars, Live, Notified, Unreaped
<1>0. UNCHANGED shellVars
  BY DEF Environment
<1>2. ASSUME NEW k \in Slot, Delivery(k) \/ ProgramEnds(k) \/ ExternalKill(k)
      PROVE  IInv'
  <2>1. \A n \in Slot : /\ Unreaped(n)' => Unreaped(n)
                        /\ kstate'[n] = "unborn" <=> kstate[n] = "unborn"
                        /\ Live(n)' => Live(n) /\ (Notified(n) => Notified(n)')
    BY <1>1, <1>2 DEF TypeOK, KernelTypeOK, Delivery, DeliverInt, DeliverTstp, ProgramEnds, ExternalKill, Dead
  <2>2. UNCHANGED <<shellVars, pid, forks>>
    BY <1>0, <1>2 DEF Delivery, DeliverInt, DeliverTstp, ProgramEnds, ExternalKill
  <2> QED
    BY <1>1, <2>1, <2>2, ChildStep
<1>3. ASSUME NEW k \in Slot, NEW sig \in {"INT", "TSTP", "CONT"}, ExternalSignal(k, sig)
      PROVE  IInv'
  <2>1. \A n \in Slot : /\ Unreaped(n)' => Unreaped(n)
                        /\ kstate'[n] = "unborn" <=> kstate[n] = "unborn"
                        /\ Live(n)' => Live(n) /\ (Notified(n) => Notified(n)')
    BY <1>1, <1>3, GenerateKeepsReaped, GenerateKeepsInt DEF ExternalSignal
  <2>2. UNCHANGED <<shellVars, pid, forks>>
    BY <1>0, <1>3 DEF ExternalSignal
  <2> QED
    BY <1>1, <2>1, <2>2, ChildStep
<1>4. ASSUME NEW q \in Pid, ForeignStarts(q) \/ ForeignEnds(q)
      PROVE  IInv'
  BY <1>0, <1>1, <1>4, ChildStep DEF ForeignStarts, ForeignEnds, processVars
<1> QED
  BY <1>2, <1>3, <1>4 DEF Environment, KernelNext

LEMMA CommandStep ==
  ASSUME IInv, Command
  PROVE  IInv'
<1>1. TypeOK /\ TypeOK'
  BY TypeCommand DEF IInv
<1> USE DEF tableVars, kernelVars, listVars
<1>2. CASE ProcsStart
  <2>1. Control'
    BY <1>2 DEF IInv, Control, ProcsStart
  <2> QED
    BY <1>1, <1>2, <2>1, QuietStep DEF ProcsStart
<1>3. ASSUME NEW q \in Pid, Suspend(q) \/ Wake(q)
      PROVE  IInv'
  BY <1>1, <1>3, SendSignalStep DEF Suspend, Wake
<1>4. ASSUME NEW n \in listed, KillCmd(n)
      PROVE  IInv'
  <2>1. Control'
    BY <1>1, <1>4 DEF IInv, Control, KillCmd, TypeOK, KernelTypeOK
  <2> QED
    BY <1>1, <1>4, <2>1, QuietStep DEF KillCmd
<1>5. CASE Leave
  <2>1. Control'
    BY <1>5 DEF IInv, Control, Leave
  <2> QED
    BY <1>1, <1>5, <2>1, QuietStep DEF Leave
<1> QED
  BY <1>2, <1>3, <1>4, <1>5, ExecuteStep DEF Command

LEMMA ShellStep ==
  ASSUME IInv, ShellContinues
  PROVE  IInv'
<1>1. TypeOK /\ TypeOK'
  BY TypeShellStep DEF IInv
<1> USE DEF tableVars, kernelVars, listVars
<1>2. CASE Exit
  <2>1. Control'
    BY <1>2 DEF IInv, Control, Exit
  <2> QED
    BY <1>1, <1>2, <2>1, QuietStep DEF Exit
<1>3. ASSUME NEW n \in Slot, FreeNext(n)
      PROVE  IInv'
  <2>1. Control'
    BY <1>1, <1>3 DEF IInv, Control, FreeNext, IsHead, TypeOK, KernelTypeOK
  <2> QED
    BY <1>1, <1>3, <2>1, QuietStep DEF FreeNext
<1> QED
  BY <1>2, <1>3, WaitReturnsStep, WaitNoChildStep, ProcsPollStep, ProcsFinishStep,
     CheckTerminatedStep, CheckPolledStep, SendIntStep, SendContStep DEF ShellContinues

LEMMA IInvStep == IInv /\ [Next]_vars => IInv'
<1> SUFFICES ASSUME IInv, [Next]_vars
             PROVE  IInv'
  OBVIOUS
<1>1. CASE UNCHANGED vars
  BY <1>1 DEF vars, kernelVars, shellVars, processVars, tableVars, modeVars, IInv, TypeOK, KernelTypeOK, PidsUnique, ForkOrder, Control, Tracked, LeavingNotifies, IsFirst, Unreaped, Live, Notified
<1> QED
  BY <1>1, ShellStep, CommandStep, EnvironmentStep DEF Next

THEOREM Inductive == Spec => []IInv
  BY IInvInit, IInvStep, PTL DEF Spec

-----------------------------------------------------------------------------
(* The theorems.                                                           *)

(* Commands by pid reach the child of the shell that has the pid, also     *)
(* with pids reused by foreign processes and with automatic reaping.       *)
THEOREM AlwaysTracked == Spec => []Tracked
<1>1. IInv => Tracked
  BY DEF IInv
<1> QED
  BY <1>1, Inductive, PTL

(* After quit every child is dead, signalled or immune to SIGINT, also     *)
(* with pids reused by foreign processes and with automatic reaping.       *)
THEOREM QuitAlwaysNotifies == Spec => []QuitNotifies
<1>1. IInv => QuitNotifies
  BY DEF IInv, Control, LeavingNotifies, QuitNotifies, Live, Notified
<1> QED
  BY <1>1, Inductive, PTL

-----------------------------------------------------------------------------
(* Children that only the shell reaps.                                     *)

(* Without automatic reaping the children alone reap nothing. *)
LEMMA EnvironmentReapsNothing ==
  ASSUME TypeOK, Environment, ~autoReap
  PROVE  /\ UNCHANGED <<shellVars, pid>>
         /\ \A n \in Slot : Unreaped(n)' <=> Unreaped(n)
<1> USE DEF TypeOK, KernelTypeOK, modeVars, tableVars, kernelVars, processVars, Unreaped
<1>0. UNCHANGED shellVars
  BY DEF Environment
<1>1. ASSUME NEW k \in Slot, Delivery(k) \/ ProgramEnds(k) \/ ExternalKill(k)
      PROVE  /\ UNCHANGED <<shellVars, pid>>
             /\ \A n \in Slot : Unreaped(n)' <=> Unreaped(n)
  BY <1>0, <1>1 DEF Delivery, DeliverInt, DeliverTstp, ProgramEnds, ExternalKill, Dead
<1>2. ASSUME NEW k \in Slot, NEW sig \in {"INT", "TSTP", "CONT"}, ExternalSignal(k, sig)
      PROVE  /\ UNCHANGED <<shellVars, pid>>
             /\ \A n \in Slot : Unreaped(n)' <=> Unreaped(n)
  BY <1>0, <1>2, GenerateKeepsReaped DEF ExternalSignal
<1>3. ASSUME NEW q \in Pid, ForeignStarts(q) \/ ForeignEnds(q)
      PROVE  /\ UNCHANGED <<shellVars, pid>>
             /\ \A n \in Slot : Unreaped(n)' <=> Unreaped(n)
  BY <1>0, <1>3 DEF ForeignStarts, ForeignEnds
<1> QED
  BY <1>0, <1>1, <1>2, <1>3 DEF Environment, KernelNext

LEMMA OwnInit == Init => IInvOwn
  BY DEF Init, KernelInit, IInvOwn, ListIsLive, SignalsOwnChild, WaitHasChild

LEMMA OwnShellStep ==
  ASSUME ~autoReap, IInv, IInvOwn, ShellContinues
  PROVE  IInvOwn'
<1>1. TypeOK /\ TypeOK'
  BY TypeShellStep DEF IInv
<1> USE DEF IInvOwn, ListIsLive, SignalsOwnChild, WaitHasChild, modeVars, tableVars, kernelVars, processVars, listVars
<1>2. CASE WaitReturns
  BY <1>2 DEF WaitReturns
<1>3. ~WaitNoChild
  BY <1>1 DEF WaitNoChild, OurChild, Holds, TypeOK, KernelTypeOK
<1>4. CASE ProcsFinish
  BY <1>4 DEF ProcsFinish
<1>5. ASSUME NEW n \in Slot, ProcsPoll(n) \/ FreeNext(n)
      PROVE  IInvOwn'
  BY <1>5 DEF ProcsPoll, FreeNext
<1>6. CASE CheckTerminated
  BY <1>6 DEF CheckTerminated, TerminateDone
<1>7. CASE CheckPolled
  <2> DEFINE new == ReportedStatus(pid[job], status[job])
  <2>1. ListIsLive' /\ WaitHasChild'
    BY <1>7 DEF CheckPolled, TerminateDone
  <2>2. CASE OurChild(pid[job]) /\ new # TERMINATED
    <3>1. PICK n \in Slot : Holds(n, pid[job])
      BY <2>2 DEF OurChild
    <3>2. Unreaped(n) /\ kstate[n] # "zombie"
      BY <2>2, <3>1, ReportedEnd DEF Holds
    <3>3. Unreaped(n)'
      BY <1>1, <1>7, <3>2, CollectReapsHolder DEF CheckPolled
    <3> QED
      BY <1>7, <2>1, <3>1, <3>3 DEF CheckPolled, OurChild, Holds
  <2>3. CASE ~(OurChild(pid[job]) /\ new # TERMINATED)
    BY <1>7, <2>1, <2>3 DEF CheckPolled, TerminateDone
  <2> QED
    BY <2>2, <2>3
<1>8. CASE SendInt
  <2>1. \A n \in Slot : Unreaped(n)' <=> Unreaped(n)
    BY <1>1, <1>8, GenerateKeepsReaped DEF SendInt
  <2> QED
    BY <1>8, <2>1 DEF SendInt, TerminateDone, OurChild, Holds
<1>9. CASE SendCont
  BY <1>9 DEF SendCont, TerminateDone
<1>10. CASE Exit
  BY <1>10 DEF Exit
<1> QED
  BY <1>2, <1>3, <1>4, <1>5, <1>6, <1>7, <1>8, <1>9, <1>10 DEF ShellContinues

LEMMA OwnCommand ==
  ASSUME ~autoReap, IInv, IInvOwn, Command
  PROVE  IInvOwn'
<1>1. TypeOK /\ TypeOK'
  BY TypeCommand DEF IInv
<1> USE DEF IInvOwn, ListIsLive, SignalsOwnChild, WaitHasChild, modeVars, tableVars, kernelVars, processVars, listVars
<1>2. ASSUME NEW blocking \in BOOLEAN, NEW q \in Pid, Execute(blocking, q)
      PROVE  IInvOwn'
  <2>1. forks + 1 \notin freed
    BY <1>1 DEF IInv, ForkOrder, TypeOK, KernelTypeOK
  <2>2. forks + 1 \in Slot
    BY <1>1, <1>2, ConstantsAssumption DEF Execute, Fork, TypeOK, KernelTypeOK, Slot, ConstantsAssumption
  <2> QED
    BY <1>1, <1>2, <2>1, <2>2 DEF Execute, Fork, TypeOK, KernelTypeOK, Unreaped
<1>3. CASE ProcsStart \/ Leave
  BY <1>3 DEF ProcsStart, Leave
<1>4. ASSUME NEW q \in Pid, Suspend(q) \/ Wake(q)
      PROVE  IInvOwn'
  BY <1>4 DEF Suspend, Wake, SendSignalCmd
<1>5. ASSUME NEW n \in listed, KillCmd(n)
      PROVE  IInvOwn'
  BY <1>5 DEF KillCmd
<1> QED
  BY <1>2, <1>3, <1>4, <1>5 DEF Command

LEMMA ModesFixed == [Next]_vars => UNCHANGED modeVars
<1> SUFFICES ASSUME [Next]_vars
             PROVE  UNCHANGED modeVars
  OBVIOUS
<1> USE DEF vars, kernelVars, tableVars
<1>1. CASE Environment
  BY <1>1 DEF Environment, KernelNext, Delivery, DeliverInt, DeliverTstp, ProgramEnds, ExternalKill, ExternalSignal, ForeignStarts, ForeignEnds
<1>2. CASE Command
  BY <1>2 DEF Command, Execute, Fork, ProcsStart, Suspend, Wake, SendSignalCmd, KillCmd, Leave
<1>3. CASE ShellContinues
  BY <1>3 DEF ShellContinues, WaitReturns, WaitNoChild, ProcsFinish, ProcsPoll, CheckTerminated, CheckPolled, SendInt, SendCont, Exit, FreeNext
<1> QED
  BY <1>1, <1>2, <1>3 DEF Next

LEMMA OwnStep == IInv /\ IInvOwn /\ [Next]_vars => IInvOwn'
<1> SUFFICES ASSUME IInv, IInvOwn, [Next]_vars, ~autoReap
             PROVE  IInvOwn'
  BY ModesFixed DEF IInvOwn, modeVars
<1> USE DEF IInvOwn, ListIsLive, SignalsOwnChild, WaitHasChild
<1>1. CASE Environment
  <2>1. /\ UNCHANGED <<shellVars, pid>>
        /\ \A n \in Slot : Unreaped(n)' <=> Unreaped(n)
    BY <1>1, EnvironmentReapsNothing DEF IInv
  <2> QED
    BY <2>1 DEF shellVars, OurChild, Holds, IInv, TypeOK, KernelTypeOK
<1>2. CASE UNCHANGED vars
  BY <1>2 DEF vars, kernelVars, shellVars, processVars, tableVars, modeVars, OurChild, Holds, Unreaped
<1> QED
  BY <1>1, <1>2, OwnShellStep, OwnCommand DEF Next

THEOREM InductiveOwn == Spec => []IInvOwn
<1>1. IInv /\ IInvOwn /\ [Next]_vars => IInvOwn'
  BY OwnStep
<1> QED
  BY <1>1, OwnInit, Inductive, PTL DEF Spec

(* kill and quit never signal a process that is not an unreaped child of   *)
(* the shell, even when foreign processes reuse the pids in the list; the  *)
(* shell alone reaps its children.                                         *)
THEOREM NeverSignalsForeign == Spec => []SignalsOwnChild
<1>1. IInvOwn => SignalsOwnChild
  BY DEF IInvOwn, SignalsOwnChild
<1> QED
  BY <1>1, InductiveOwn, PTL

(* The process list never leads into freed memory while the shell alone    *)
(* reaps its children.                                                     *)
THEOREM ListStaysLive == Spec => []OwnedListIsLive
<1>1. IInvOwn => OwnedListIsLive
  BY DEF IInvOwn, OwnedListIsLive
<1> QED
  BY <1>1, InductiveOwn, PTL

-----------------------------------------------------------------------------
(* And no foreign process on a freed pid.                                  *)

(* The pid that suspend or wake was given and that exists is the pid of a  *)
(* child, and the node that is updated is the node of that child.          *)
LEMMA FirstIsHolder ==
  ASSUME Alone, IInv, IInvAlone, ~leaving, NEW q \in Pid, Exists(q),
         NEW n \in Slot, IsFirst(n, q)
  PROVE  Unreaped(n) /\ status[n] # TERMINATED
<1>1. PICK k \in Slot : Holds(k, q)
  BY DEF IInvAlone, Exists, OurChild
<1>2. IsFirst(k, q) /\ Unreaped(k) /\ status[k] # TERMINATED
  BY <1>1 DEF IInv, Tracked, Holds
<1>3. n = k
  BY <1>2, ConstantsAssumption DEF IsFirst, Slot, ConstantsAssumption
<1> QED
  BY <1>2, <1>3

(* Waiting through a node that is shown alive reaps no other process. *)
LEMMA PollReapsOwn ==
  ASSUME IInv, ShownAliveIsUnreaped, NEW k \in listed, status[k] # TERMINATED,
         Collect(pid[k])
  PROVE  \A n \in listed : status[n] # TERMINATED /\ n # k => Unreaped(n)'
<1>1. TypeOK /\ k \in Slot /\ Unreaped(k)
  BY DEF IInv, TypeOK, KernelTypeOK, ShownAliveIsUnreaped
<1>2. \A n \in listed : status[n] # TERMINATED => n \in Slot /\ Unreaped(n)
  BY <1>1 DEF TypeOK, KernelTypeOK, ShownAliveIsUnreaped
<1> QED
  BY <1>1, <1>2, CollectReapsHolder DEF IInv, PidsUnique

LEMMA AloneInit == Init => IInvAlone
  BY DEF Init, KernelInit, IInvAlone, ShownAliveIsUnreaped

LEMMA AloneShellStep ==
  ASSUME Alone, IInv, IInvOwn, IInvAlone, ShellContinues
  PROVE  IInvAlone'
<1>1. TypeOK /\ TypeOK'
  BY TypeShellStep DEF IInv
<1> USE DEF Alone, IInvAlone, ShownAliveIsUnreaped, modeVars, tableVars, kernelVars, processVars, listVars
<1>2. CASE WaitReturns
  <2>1. job \in Slot /\ ~leaving
    BY <1>1, <1>2 DEF WaitReturns, IInv, Control, TypeOK, KernelTypeOK
  <2>2. \A n \in Slot : Unreaped(n)' <=> Unreaped(n) /\ ~(pid[n] = pid[job] /\ kstate[n] = "zombie")
    BY <1>1, <1>2, CollectReapsHolder DEF WaitReturns
  <2>3. \A n \in listed : status'[n] # TERMINATED =>
          status[n] # TERMINATED /\ ~IsFirst(n, pid[job])
    BY <1>1, <1>2 DEF WaitReturns, updateProcessStatus, TypeOK, KernelTypeOK
  <2>4. \A n \in listed : Unreaped(n) /\ pid[n] = pid[job] => IsFirst(n, pid[job])
    BY <1>1, <2>1 DEF IInv, Tracked, TypeOK, KernelTypeOK
  <2> QED
    BY <1>1, <1>2, <2>2, <2>3, <2>4 DEF WaitReturns, TypeOK, KernelTypeOK
<1>3. ~WaitNoChild
  BY <1>1 DEF WaitNoChild, OurChild, Holds, TypeOK, KernelTypeOK, IInvOwn, WaitHasChild
<1>4. CASE ProcsFinish
  BY <1>4 DEF ProcsFinish, Unreaped
<1>5. ASSUME NEW k \in Slot, ProcsPoll(k)
      PROVE  IInvAlone'
  <2>1. k \in listed /\ status[k] # TERMINATED
    BY <1>5 DEF ProcsPoll, IsHead, IInv, Control
  <2>2. \A n \in listed : status[n] # TERMINATED /\ n # k => Unreaped(n)'
    BY <1>5, <2>1, PollReapsOwn DEF ProcsPoll
  <2>3. ReportedStatus(pid[k], status[k]) # TERMINATED => Unreaped(k)'
    BY <1>1, <1>5, <2>1, CollectReapsHolder, ReportedEnd DEF ProcsPoll, Holds
  <2> QED
    BY <1>1, <1>5, <2>1, <2>2, <2>3 DEF ProcsPoll, TypeOK, KernelTypeOK
<1>6. CASE CheckPolled
  <2>1. job \in listed /\ job \in Slot /\ status[job] # TERMINATED
    BY <1>1, <1>6 DEF CheckPolled, IInv, Control, TypeOK, KernelTypeOK
  <2>2. \A n \in listed : status[n] # TERMINATED /\ n # job => Unreaped(n)'
    BY <1>6, <2>1, PollReapsOwn DEF CheckPolled
  <2>3. ReportedStatus(pid[job], status[job]) # TERMINATED => Unreaped(job)'
    BY <1>1, <1>6, <2>1, CollectReapsHolder, ReportedEnd DEF CheckPolled, Holds
  <2>4. listed' \subseteq listed /\ foreign' = foreign
    BY <1>6 DEF CheckPolled, TerminateDone
  <2> QED
    BY <1>1, <1>6, <2>1, <2>2, <2>3, <2>4 DEF CheckPolled, TypeOK, KernelTypeOK
<1>7. CASE SendInt \/ SendCont
  <2>1. \A n \in Slot : Unreaped(n)' <=> Unreaped(n)
    BY <1>1, <1>7, GenerateKeepsReaped DEF SendInt, SendCont
  <2>2. listed' \subseteq listed /\ foreign' = foreign /\ status' = status
    BY <1>7 DEF SendInt, SendCont, TerminateDone
  <2> QED
    BY <1>1, <2>1, <2>2 DEF TypeOK, KernelTypeOK
<1>8. CASE CheckTerminated
  BY <1>8 DEF CheckTerminated, TerminateDone, Unreaped
<1>9. ASSUME Exit \/ \E n \in Slot : FreeNext(n)
      PROVE  IInvAlone'
  BY <1>9 DEF Exit, FreeNext, Unreaped
<1> QED
  BY <1>2, <1>3, <1>4, <1>5, <1>6, <1>7, <1>8, <1>9 DEF ShellContinues

LEMMA AloneCommand ==
  ASSUME Alone, IInv, IInvAlone, Command
  PROVE  IInvAlone'
<1>1. TypeOK /\ TypeOK'
  BY TypeCommand DEF IInv
<1> USE DEF Alone, IInvAlone, ShownAliveIsUnreaped, modeVars, tableVars, kernelVars, processVars, listVars
<1>2. ASSUME NEW blocking \in BOOLEAN, NEW q \in Pid, Execute(blocking, q)
      PROVE  IInvAlone'
  BY <1>1, <1>2 DEF Execute, Fork, TypeOK, KernelTypeOK, Unreaped
<1>3. CASE ProcsStart \/ Leave
  BY <1>3 DEF ProcsStart, Leave, Unreaped
<1>4. ASSUME NEW q \in Pid, Suspend(q) \/ Wake(q)
      PROVE  IInvAlone'
  <2>1. PICK sig \in {"TSTP", "CONT"}, new \in {RUNNING, SUSPENDED} : SendSignalCmd(q, sig, new)
    BY <1>4 DEF Suspend, Wake
  <2>2. ~leaving /\ Exists(q)
    BY <2>1 DEF SendSignalCmd, IInv, Control
  <2>3. \A n \in Slot : Unreaped(n)' <=> Unreaped(n)
    BY <1>1, <2>1, GenerateKeepsReaped DEF SendSignalCmd
  <2>4. \A n \in Slot : status'[n] # TERMINATED => status[n] # TERMINATED \/ IsFirst(n, q)
    BY <1>1, <2>1 DEF SendSignalCmd, updateProcessStatus, TypeOK, KernelTypeOK
  <2>5. listed' = listed /\ foreign' = foreign
    BY <2>1 DEF SendSignalCmd
  <2> QED
    BY <1>1, <2>2, <2>3, <2>4, <2>5, FirstIsHolder DEF TypeOK, KernelTypeOK
<1>5. ASSUME NEW n \in listed, KillCmd(n)
      PROVE  IInvAlone'
  BY <1>5 DEF KillCmd, Unreaped
<1> QED
  BY <1>2, <1>3, <1>4, <1>5 DEF Command

LEMMA AloneStep == IInv /\ IInvOwn /\ IInvAlone /\ [Next]_vars => IInvAlone'
<1> SUFFICES ASSUME Alone, IInv, IInvOwn, IInvAlone, [Next]_vars
             PROVE  IInvAlone'
  BY ModesFixed DEF IInvAlone, Alone, modeVars
<1> USE DEF Alone, IInvAlone, ShownAliveIsUnreaped
<1>1. CASE Environment
  <2>1. /\ UNCHANGED <<shellVars, pid>>
        /\ \A n \in Slot : Unreaped(n)' <=> Unreaped(n)
    BY <1>1, EnvironmentReapsNothing DEF IInv
  <2>2. foreign' = {}
    BY <1>1 DEF Environment, KernelNext, Delivery, DeliverInt, DeliverTstp, ProgramEnds, ExternalKill, ExternalSignal, ForeignStarts, ForeignEnds, tableVars, kernelVars
  <2> QED
    BY <2>1, <2>2 DEF shellVars, IInv, TypeOK, KernelTypeOK
<1>2. CASE UNCHANGED vars
  BY <1>2 DEF vars, kernelVars, shellVars, processVars, tableVars, modeVars, Unreaped
<1> QED
  BY <1>1, <1>2, AloneShellStep, AloneCommand DEF Next

THEOREM InductiveAlone == Spec => []IInvAlone
<1>1. IInv /\ IInvOwn /\ IInvAlone /\ [Next]_vars => IInvAlone'
  BY AloneStep
<1> QED
  BY <1>1, AloneInit, Inductive, InductiveOwn, PTL DEF Spec

(* A job shown as running or suspended has not been reaped: its pid still  *)
(* means its process.                                                      *)
THEOREM ShownAliveMeansUnreaped == Spec => []AloneShownAliveIsUnreaped
<1>1. IInvAlone => AloneShownAliveIsUnreaped
  BY DEF IInvAlone, AloneShownAliveIsUnreaped
<1> QED
  BY <1>1, InductiveAlone, PTL

LEMMA FinalStep ==
  ASSUME Alone, IInv, IInvAlone, [Next]_vars
  PROVE  \A n \in listed : status[n] = TERMINATED => status'[n] = TERMINATED
<1> DEFINE Final == \A n \in listed : status[n] = TERMINATED => status'[n] = TERMINATED
<1>1. TypeOK
  BY DEF IInv
<1> USE DEF TypeOK, KernelTypeOK, modeVars, tableVars, kernelVars, processVars, listVars, shellVars
<1>2. ASSUME NEW blocking \in BOOLEAN, NEW q \in Pid, Execute(blocking, q)
      PROVE  Final
  BY <1>1, <1>2 DEF Execute, Fork, IInv, ForkOrder
<1>3. ASSUME NEW q \in Pid, Suspend(q) \/ Wake(q)
      PROVE  Final
  <2>1. PICK sig \in {"TSTP", "CONT"}, new \in {RUNNING, SUSPENDED} : SendSignalCmd(q, sig, new)
    BY <1>3 DEF Suspend, Wake
  <2>2. ~leaving /\ Exists(q)
    BY <2>1 DEF SendSignalCmd, IInv, Control
  <2>3. \A n \in Slot : status'[n] = status[n] \/ IsFirst(n, q)
    BY <1>1, <2>1 DEF SendSignalCmd, updateProcessStatus
  <2> QED
    BY <1>1, <2>2, <2>3, FirstIsHolder
<1>4. CASE WaitReturns
  BY <1>1, <1>4 DEF WaitReturns, updateProcessStatus
<1>5. ASSUME NEW k \in Slot, ProcsPoll(k)
      PROVE  Final
  BY <1>1, <1>5 DEF ProcsPoll, IsHead, IInv, Control
<1>6. CASE CheckPolled
  BY <1>1, <1>6 DEF CheckPolled
<1>7. ASSUME UNCHANGED status
      PROVE  Final
  BY <1>7
<1>8. CASE WaitNoChild \/ ProcsFinish \/ CheckTerminated \/ SendInt \/ SendCont \/ Exit
  BY <1>7, <1>8 DEF WaitNoChild, ProcsFinish, CheckTerminated, SendInt, SendCont, Exit
<1>9. ASSUME NEW n \in Slot, FreeNext(n)
      PROVE  Final
  BY <1>7, <1>9 DEF FreeNext
<1>10. CASE ProcsStart \/ Leave
  BY <1>7, <1>10 DEF ProcsStart, Leave
<1>11. ASSUME NEW n \in listed, KillCmd(n)
       PROVE  Final
  BY <1>7, <1>11 DEF KillCmd
<1>12. CASE Environment
  BY <1>7, <1>12 DEF Environment, KernelNext, Delivery, DeliverInt, DeliverTstp, ProgramEnds, ExternalKill, ExternalSignal, ForeignStarts, ForeignEnds
<1>13. CASE UNCHANGED vars
  BY <1>7, <1>13 DEF vars, kernelVars
<1> QED
  BY <1>2, <1>3, <1>4, <1>5, <1>6, <1>8, <1>9, <1>10, <1>11, <1>12, <1>13
     DEF Next, ShellContinues, Command

(* What was shown as terminated never comes back. *)
THEOREM TerminatedStaysFinal == Spec => TerminatedIsFinal
<1>1. IInv /\ IInvAlone /\ [Next]_vars =>
        [Alone => \A n \in listed : status[n] = TERMINATED => status'[n] = TERMINATED]_vars
  BY FinalStep
<1> QED
  BY <1>1, Inductive, InductiveAlone, PTL DEF Spec, TerminatedIsFinal

-----------------------------------------------------------------------------
(* The two signals of a kill.                                              *)

(* Between the SIGINT and the SIGCONT, whatever the children do: a live    *)
(* child that has the pid was sent the SIGINT.                             *)
ContNotified ==
  pc = "cont" => \A n \in Slot : Live(n) /\ pid[n] = pid[job] => Notified(n)

LEMMA ContNotifiedStep ==
  ASSUME IInv, ContNotified, [Next]_vars
  PROVE  ContNotified'
<1>1. TypeOK
  BY DEF IInv
<1>2. CASE UNCHANGED vars
  BY <1>2 DEF vars, kernelVars, shellVars, processVars, tableVars, modeVars, ContNotified, Live,
     Notified
<1>3. CASE SendInt
  <2>1. /\ \A n \in Slot : Live(n)' <=> Live(n)
        /\ \A n \in Slot : Holds(n, pid[job]) /\ Live(n) => "INT" \in pending'[n]
    BY <1>1, <1>3, GenerateKeepsReaped, GenerateKeepsInt DEF SendInt
  <2>2. \A n \in Slot : Live(n) /\ pid[n] = pid[job] => Holds(n, pid[job])
    BY DEF Holds, Live, Unreaped
  <2> QED
    BY <1>3, <2>1, <2>2 DEF ContNotified, SendInt, Notified, tableVars
<1>4. CASE ShellContinues /\ ~SendInt
  <2>1. pc' # "cont"
    BY <1>4 DEF ShellContinues, WaitReturns, WaitNoChild, ProcsFinish, ProcsPoll, CheckTerminated,
       CheckPolled, SendCont, TerminateDone, Exit, FreeNext
  <2> QED
    BY <2>1 DEF ContNotified
<1>5. CASE Command
  <2>1. pc' # "cont"
    BY <1>5 DEF Command, Execute, ProcsStart, Suspend, Wake, SendSignalCmd, KillCmd, Leave
  <2> QED
    BY <2>1 DEF ContNotified
<1>6. CASE Environment
  <2>1. UNCHANGED <<shellVars, pid>>
    BY <1>6 DEF Environment, KernelNext, Delivery, DeliverInt, DeliverTstp, ProgramEnds,
       ExternalKill, ExternalSignal, ForeignStarts, ForeignEnds, tableVars
  <2>2. \A n \in Slot : Live(n)' => Live(n) /\ (Notified(n) => Notified(n)')
    <3>1. ASSUME NEW k \in Slot, Delivery(k) \/ ProgramEnds(k) \/ ExternalKill(k)
          PROVE  \A n \in Slot : Live(n)' => Live(n) /\ (Notified(n) => Notified(n)')
      BY <1>1, <3>1 DEF TypeOK, KernelTypeOK, Delivery, DeliverInt, DeliverTstp, ProgramEnds,
         ExternalKill, Dead, Live, Notified
    <3>2. ASSUME NEW k \in Slot, NEW sig \in {"INT", "TSTP", "CONT"}, ExternalSignal(k, sig)
          PROVE  \A n \in Slot : Live(n)' => Live(n) /\ (Notified(n) => Notified(n)')
      BY <1>1, <3>2, GenerateKeepsReaped, GenerateKeepsInt DEF ExternalSignal, Notified
    <3>3. ASSUME NEW q \in Pid, ForeignStarts(q) \/ ForeignEnds(q)
          PROVE  \A n \in Slot : Live(n)' => Live(n) /\ (Notified(n) => Notified(n)')
      BY <3>3 DEF ForeignStarts, ForeignEnds, processVars, Live, Notified
    <3> QED
      BY <1>6, <3>1, <3>2, <3>3 DEF Environment, KernelNext
  <2> QED
    BY <2>1, <2>2 DEF ContNotified, shellVars
<1> QED
  BY <1>2, <1>3, <1>4, <1>5, <1>6 DEF Next

(* Only the SIGCONT itself leaves "cont", and it resumes what is stopped. *)
LEMMA ContStep ==
  ASSUME IInv, ContNotified, [Next]_vars, pc = "cont", pc' # "cont",
         NEW n \in Slot, Holds(n, pid[job])
  PROVE  \/ kstate'[n] = "zombie"
         \/ kstate'[n] = "running" /\ (n \in Stubborn \/ "INT" \in pending'[n])
<1>1. TypeOK
  BY DEF IInv
<1>2. SendCont
  <2>1. ~Environment /\ ~UNCHANGED vars
    BY DEF Environment, shellVars, vars
  <2>2. ~Command
    BY DEF Command, Execute, ProcsStart, Suspend, Wake, SendSignalCmd, KillCmd, Leave
  <2>3. ShellContinues
    BY <2>1, <2>2 DEF Next
  <2> QED
    BY <2>3 DEF ShellContinues, WaitReturns, WaitNoChild, ProcsFinish, ProcsPoll, CheckTerminated,
       CheckPolled, SendInt, Exit, FreeNext
<1>3. Generate(pid[job], "CONT")
  BY <1>2 DEF SendCont
<1>4. kstate'[n] = IF kstate[n] = "stopped" THEN "running" ELSE kstate[n]
  BY <1>1, <1>3 DEF Generate, TypeOK, KernelTypeOK
<1>5. CASE kstate[n] = "zombie"
  BY <1>4, <1>5
<1>6. CASE Live(n)
  <2>1. Notified(n)
    BY <1>6 DEF ContNotified, Holds
  <2>2. Notified(n)'
    BY <1>1, <1>3, <2>1, GenerateKeepsInt DEF Notified
  <2> QED
    BY <1>4, <1>6, <2>2 DEF Live, Notified
<1> QED
  BY <1>5, <1>6 DEF Holds, Unreaped, Live

(* A suspended job that is killed is resumed with its SIGINT still to come *)
(* or already delivered, whoever else stops, resumes or kills it meanwhile *)
(* and whoever has its pid by then.                                        *)
THEOREM KillIsFinished == Spec => ContFinishesKill
<1>1. Init => ContNotified
  BY DEF Init, ContNotified
<1>2. IInv /\ ContNotified /\ [Next]_vars => ContNotified'
  BY ContNotifiedStep
<1>3. IInv /\ ContNotified /\ [Next]_vars =>
        [pc = "cont" /\ pc' # "cont" =>
           \A n \in Slot : Holds(n, pid[job]) =>
             \/ kstate'[n] = "zombie"
             \/ kstate'[n] = "running" /\ (n \in Stubborn \/ "INT" \in pending'[n])]_vars
  BY ContStep
<1> QED
  BY <1>1, <1>2, <1>3, Inductive, PTL DEF Spec, ContFinishesKill

-----------------------------------------------------------------------------
(* The refinement: the shell implements the job table.                     *)

(* The phase of a job of that state, in the list or not. *)
PhaseIn(state, isListed) ==
  IF state = "unborn" THEN "none"
  ELSE IF ~isListed THEN "forgotten"
  ELSE CASE state \in {"running", "stopped"} -> "live"
         [] state = "zombie" -> "dead"
         [] state = "reaped" -> "reported"

LEMMA PhaseBefore ==
  /\ phase = [n \in Slot |-> phase[n]]
  /\ \A n \in Slot : phase[n] = PhaseIn(kstate[n], n \in listed)
<1>1. phase = [n \in Slot |-> PhaseIn(kstate[n], n \in listed)]
  BY Zenon DEF phase, PhaseIn
<1> QED
  BY <1>1

LEMMA PhaseAfter ==
  /\ phase' = [n \in Slot |-> phase'[n]]
  /\ \A n \in Slot : phase'[n] = PhaseIn(kstate'[n], n \in listed')
<1>1. phase' = [n \in Slot |-> PhaseIn(kstate'[n], n \in listed')]
  BY Zenon DEF phase, PhaseIn
<1> QED
  BY <1>1

LEMMA PhaseUnchanged ==
  ASSUME \A n \in Slot : phase'[n] = phase[n]
  PROVE  phase' = phase
  BY PhaseBefore, PhaseAfter

(* A step that changes the phase of one job. *)
LEMMA PhaseBecomes ==
  ASSUME NEW j \in Slot, NEW from, NEW to,
         phase[j] = from, phase'[j] = to,
         \A n \in Slot : n # j => phase'[n] = phase[n],
         leaving' = leaving
  PROVE  Table!Become(j, from, to)
<1>1. phase' = [phase EXCEPT ![j] = to]
  BY PhaseBefore, PhaseAfter
<1> QED
  BY <1>1 DEF Table!Become

(* What a step of the shell does to the table, if anything. *)
Stutters == phase' = phase /\ leaving' = leaving

(* A job in the list was started. *)
LEMMA JobWasForked ==
  ASSUME IInv, NEW n \in listed
  PROVE  n \in Slot /\ kstate[n] # "unborn"
<1>1. n \in Slot /\ n \in 1 .. forks /\ forks \in Nat
  BY ConstantsAssumption DEF ConstantsAssumption, IInv, TypeOK, KernelTypeOK, ForkOrder
<1> QED
  BY <1>1 DEF IInv, ForkOrder

(* Freeing a node while leaving abandons its job, whatever its state; the  *)
(* states of the others stay what they were.                               *)
LEMMA AbandonStep ==
  ASSUME IInv, leaving, leaving' = leaving, job \in listed, listed' = listed \ {job},
         kstate'[job] # "unborn",
         \A n \in Slot : n # job => PhaseIn(kstate'[n], n \in listed) = PhaseIn(kstate[n], n \in listed)
  PROVE  Table!Next
<1>1. job \in Slot /\ kstate[job] \in {"running", "stopped", "zombie", "reaped"}
  BY JobWasForked DEF IInv, TypeOK, KernelTypeOK
<1>2. phase[job] \in {"live", "dead", "reported"} /\ phase'[job] = "forgotten"
  BY <1>1, PhaseBefore, PhaseAfter DEF PhaseIn
<1>3. \A n \in Slot : n # job => phase'[n] = phase[n]
  BY PhaseBefore, PhaseAfter
<1>4. Table!Abandon(job)
  <2>1. Table!Become(job, phase[job], "forgotten")
    BY <1>1, <1>2, <1>3, PhaseBecomes
  <2> QED
    BY <1>2, <2>1 DEF Table!Abandon
<1> QED
  BY <1>1, <1>4 DEF Table!Next

(* waitpid changes the state of the one child that holds the pid. *)
LEMMA CollectHolder ==
  ASSUME IInv, NEW k \in Slot, Unreaped(k), Collect(pid[k])
  PROVE  /\ kstate'[k] = IF kstate[k] = "zombie" THEN "reaped" ELSE kstate[k]
         /\ \A n \in Slot : n # k => kstate'[n] = kstate[n]
<1>1. TypeOK /\ PidsUnique
  BY DEF IInv
<1>2. \A n \in Slot : kstate'[n] = IF Holds(n, pid[k]) /\ kstate[n] = "zombie" THEN "reaped" ELSE kstate[n]
  BY <1>1 DEF Collect, TypeOK, KernelTypeOK
<1>3. \A n \in Slot : Holds(n, pid[k]) => n = k
  BY <1>1 DEF PidsUnique, Holds
<1>4. Holds(k, pid[k])
  BY DEF Holds
<1> QED
  BY <1>2, <1>3, <1>4

(* The shell is told of a death: the table reports that job, if it was not *)
(* reported yet.                                                           *)
LEMMA ReportStep ==
  ASSUME IInv, NEW k \in Slot, Unreaped(k), Collect(pid[k]), k \in listed,
         listed' = listed, leaving' = leaving
  PROVE  Table!Next \/ Stutters
<1>1. \A n \in Slot : n # k => phase'[n] = phase[n]
  BY CollectHolder, PhaseBefore, PhaseAfter
<1>2. CASE kstate[k] = "zombie"
  <2>1. phase[k] = "dead" /\ phase'[k] = "reported"
    BY <1>2, CollectHolder, PhaseBefore, PhaseAfter DEF PhaseIn
  <2>2. Table!Become(k, "dead", "reported")
    BY <1>1, <2>1, PhaseBecomes
  <2> QED
    BY <2>2 DEF Table!Next, Table!Report
<1>3. CASE kstate[k] # "zombie"
  <2>1. phase'[k] = phase[k]
    BY <1>3, CollectHolder, PhaseBefore, PhaseAfter
  <2> QED
    BY <1>1, <2>1, PhaseUnchanged DEF Stutters
<1> QED
  BY <1>2, <1>3

(* Signals change no phase. *)
LEMMA GenerateTable ==
  ASSUME TypeOK, NEW q, NEW sig, Generate(q, sig)
  PROVE  /\ \A n \in Slot :
              PhaseIn(kstate'[n], n \in listed) = PhaseIn(kstate[n], n \in listed)
         /\ \A n \in Slot : kstate'[n] = "unborn" <=> kstate[n] = "unborn"
<1>1. \A n \in Slot : kstate'[n] = kstate[n] \/ (kstate[n] = "stopped" /\ kstate'[n] = "running")
  BY DEF TypeOK, KernelTypeOK, Generate
<1>2. ASSUME NEW n \in Slot
      PROVE  PhaseIn(kstate'[n], n \in listed) = PhaseIn(kstate[n], n \in listed)
  <2>1. CASE kstate'[n] = kstate[n]
    BY <2>1
  <2>2. CASE kstate[n] = "stopped" /\ kstate'[n] = "running"
    BY <2>2 DEF PhaseIn
  <2> QED
    BY <1>1, <2>1, <2>2
<1> QED
  BY <1>1, <1>2

(* The end of a termination: back at the prompt, or the node is freed. *)
LEMMA TerminateTable ==
  ASSUME IInv, job \in listed, kstate'[job] # "unborn", leaving' = leaving,
         IF leaving THEN listed' = listed \ {job} ELSE listed' = listed,
         \A n \in Slot : PhaseIn(kstate'[n], n \in listed) = PhaseIn(kstate[n], n \in listed)
  PROVE  Table!Next \/ Stutters
<1>1. CASE leaving
  BY <1>1, AbandonStep
<1>2. CASE ~leaving
  <2>1. \A n \in Slot : phase'[n] = phase[n]
    BY <1>2, PhaseBefore, PhaseAfter
  <2> QED
    BY <2>1, PhaseUnchanged DEF Stutters
<1> QED
  BY <1>1, <1>2

(* procs takes out of the list what was reported, and that only. *)
LEMMA ForgetStep ==
  ASSUME Alone, IInv, IInvAlone, ProcsFinish
  PROVE  Table!Next
<1>1. TypeOK /\ ~leaving /\ leaving' = leaving /\ kstate' = kstate
      /\ listed' = {n \in listed : status[n] # TERMINATED}
  BY DEF IInv, ProcsFinish, Control, kernelVars, processVars
<1>2. ASSUME NEW n \in Slot
      PROVE  phase'[n] = IF phase[n] = "reported" THEN "forgotten" ELSE phase[n]
  <2>1. phase[n] = PhaseIn(kstate[n], n \in listed) /\ phase'[n] = PhaseIn(kstate[n], n \in listed')
    BY <1>1, PhaseBefore, PhaseAfter
  <2>2. CASE n \notin listed
    BY <1>1, <2>1, <2>2 DEF PhaseIn
  <2>3. CASE n \in listed /\ status[n] # TERMINATED
    <3>1. Unreaped(n)
      BY <2>3 DEF IInvAlone, ShownAliveIsUnreaped
    <3> QED
      BY <1>1, <2>1, <2>3, <3>1 DEF PhaseIn, Unreaped
  <2>4. CASE n \in listed /\ status[n] = TERMINATED
    <3>1. ~Unreaped(n)
      BY <1>1, <2>4 DEF IInv, Tracked
    <3>2. kstate[n] \in {"unborn", "reaped"}
      BY <1>1, <3>1 DEF TypeOK, KernelTypeOK, Unreaped
    <3> QED
      BY <1>1, <2>1, <2>4, <3>2 DEF PhaseIn
  <2> QED
    BY <2>2, <2>3, <2>4
<1>3. phase' = [n \in Slot |-> IF phase[n] = "reported" THEN "forgotten" ELSE phase[n]]
  BY <1>2, PhaseAfter
<1> QED
  BY <1>1, <1>3 DEF Table!Next, Table!ForgetReported

LEMMA ShellTable ==
  ASSUME Alone, IInv, IInvOwn, IInvAlone, ShellContinues
  PROVE  Table!Next \/ Stutters
<1>1. TypeOK
  BY DEF IInv
<1>2. CASE WaitReturns
  <2>1. PICK k \in Slot : Holds(k, pid[job]) /\ Collect(pid[job])
    BY <1>2 DEF WaitReturns
  <2>2. Unreaped(k) /\ Collect(pid[k]) /\ ~leaving
    BY <1>2, <2>1 DEF Holds, WaitReturns, IInv, Control
  <2>3. k \in listed
    BY <2>2 DEF IInv, Tracked, IsFirst
  <2> QED
    BY <1>2, <2>2, <2>3, ReportStep DEF WaitReturns
<1>3. ~WaitNoChild
  BY <1>1 DEF WaitNoChild, OurChild, Holds, TypeOK, KernelTypeOK, IInvOwn, WaitHasChild, Alone
<1>4. CASE ProcsFinish
  BY <1>4, ForgetStep
<1>5. ASSUME NEW k \in Slot, ProcsPoll(k)
      PROVE  Table!Next \/ Stutters
  <2>1. k \in listed /\ status[k] # TERMINATED
    BY <1>5 DEF ProcsPoll, IsHead, IInv, Control
  <2>2. Unreaped(k)
    BY <2>1 DEF IInvAlone, ShownAliveIsUnreaped
  <2> QED
    BY <1>5, <2>1, <2>2, ReportStep DEF ProcsPoll
<1>6. CASE CheckTerminated
  <2>1. job \in listed /\ job \in Slot
    BY <1>1, <1>6 DEF CheckTerminated, IInv, Control, TypeOK, KernelTypeOK
  <2>2. kstate' = kstate
    BY <1>6 DEF CheckTerminated, kernelVars, processVars
  <2>3. kstate'[job] # "unborn"
    BY <1>1, <2>1, <2>2, JobWasForked
  <2> QED
    BY <1>6, <2>1, <2>2, <2>3, TerminateTable DEF CheckTerminated, TerminateDone
<1>7. CASE CheckPolled
  <2>1. job \in listed /\ job \in Slot /\ status[job] # TERMINATED /\ leaving' = leaving
        /\ Collect(pid[job])
    BY <1>1, <1>7 DEF CheckPolled, IInv, Control, TypeOK, KernelTypeOK
  <2>2. Unreaped(job)
    BY <2>1 DEF IInvAlone, ShownAliveIsUnreaped
  <2>3. CASE listed' = listed
    BY <2>1, <2>2, <2>3, ReportStep
  <2>4. CASE leaving /\ listed' = listed \ {job}
    <3>1. kstate'[job] # "unborn"
      BY <2>1, <2>2, CollectHolder DEF Unreaped
    <3>2. \A n \in Slot : n # job => kstate'[n] = kstate[n]
      BY <2>1, <2>2, CollectHolder
    <3> QED
      BY <2>1, <2>4, <3>1, <3>2, AbandonStep
  <2> QED
    BY <1>7, <2>3, <2>4 DEF CheckPolled, TerminateDone
<1>8. CASE SendInt \/ SendCont
  <2>1. PICK sig \in {"INT", "CONT"} : Generate(pid[job], sig)
    BY <1>8 DEF SendInt, SendCont
  <2>2. job \in listed /\ job \in Slot
    BY <1>1, <1>8 DEF SendInt, SendCont, IInv, Control, TypeOK, KernelTypeOK
  <2>3. \A n \in Slot : PhaseIn(kstate'[n], n \in listed) = PhaseIn(kstate[n], n \in listed)
    BY <1>1, <2>1, GenerateTable
  <2>4. kstate'[job] # "unborn"
    BY <1>1, <2>1, <2>2, GenerateTable, JobWasForked
  <2>5. leaving' = leaving
    BY <1>8 DEF SendInt, SendCont
  <2>6. CASE listed' = listed
    <3>1. \A n \in Slot : phase'[n] = phase[n]
      BY <2>3, <2>6, PhaseBefore, PhaseAfter
    <3> QED
      BY <2>5, <3>1, PhaseUnchanged DEF Stutters
  <2>7. CASE leaving /\ listed' = listed \ {job}
    BY <2>2, <2>3, <2>4, <2>5, <2>7, TerminateTable
  <2> QED
    BY <1>8, <2>6, <2>7 DEF SendInt, SendCont, TerminateDone
<1>9. ASSUME Exit \/ \E n \in Slot : FreeNext(n)
      PROVE  Table!Next \/ Stutters
  <2>1. kstate' = kstate /\ listed' = listed /\ leaving' = leaving
    BY <1>9 DEF Exit, FreeNext, listVars, kernelVars, processVars
  <2> QED
    BY <2>1, PhaseBefore, PhaseAfter, PhaseUnchanged DEF Stutters
<1> QED
  BY <1>2, <1>3, <1>4, <1>5, <1>6, <1>7, <1>8, <1>9 DEF ShellContinues

LEMMA CommandTable ==
  ASSUME IInv, Command
  PROVE  Table!Next \/ Stutters
<1>1. TypeOK
  BY DEF IInv
<1>2. ASSUME NEW blocking \in BOOLEAN, NEW q \in Pid, Execute(blocking, q)
      PROVE  Table!Next
  <2> DEFINE new == forks + 1
  <2>1. new \in Slot /\ ~leaving /\ leaving' = leaving /\ listed' = listed \cup {new}
        /\ kstate' = [kstate EXCEPT ![new] = "running"] /\ kstate[new] = "unborn"
    BY <1>1, <1>2, ConstantsAssumption DEF ConstantsAssumption, Execute, Fork, TypeOK, KernelTypeOK,
       Slot, IInv, ForkOrder, Control
  <2> HIDE DEF new
  <2>2. phase[new] = "none" /\ phase'[new] = "live"
    BY <1>1, <2>1, PhaseBefore, PhaseAfter DEF PhaseIn, TypeOK, KernelTypeOK
  <2>3. \A n \in Slot : n # new => phase'[n] = phase[n]
    BY <1>1, <2>1, PhaseBefore, PhaseAfter DEF TypeOK, KernelTypeOK
  <2>4. Table!Become(new, "none", "live")
    BY <2>1, <2>2, <2>3, PhaseBecomes
  <2> QED
    BY <2>1, <2>4 DEF Table!Next, Table!Start
<1>3. ASSUME NEW q \in Pid, Suspend(q) \/ Wake(q)
      PROVE  Stutters
  <2>1. PICK sig \in {"TSTP", "CONT"} : Generate(q, sig)
    BY <1>3 DEF Suspend, Wake, SendSignalCmd
  <2>2. listed' = listed /\ leaving' = leaving
    BY <1>3 DEF Suspend, Wake, SendSignalCmd
  <2>3. \A n \in Slot : phase'[n] = phase[n]
    BY <1>1, <2>1, <2>2, GenerateTable, PhaseBefore, PhaseAfter
  <2> QED
    BY <2>2, <2>3, PhaseUnchanged DEF Stutters
<1>4. ASSUME kstate' = kstate, listed' = listed
      PROVE  phase' = phase
  BY <1>4, PhaseBefore, PhaseAfter, PhaseUnchanged
<1>5. CASE ProcsStart
  BY <1>4, <1>5 DEF ProcsStart, listVars, kernelVars, processVars, Stutters
<1>6. ASSUME NEW n \in listed, KillCmd(n)
      PROVE  Stutters
  BY <1>4, <1>6 DEF KillCmd, listVars, kernelVars, processVars, Stutters
<1>7. CASE Leave
  <2>1. phase' = phase /\ leaving' = TRUE /\ ~leaving
    BY <1>4, <1>7 DEF Leave, listVars, kernelVars, processVars, IInv, Control
  <2> QED
    BY <2>1 DEF Table!Next, Table!Leave
<1> QED
  BY <1>2, <1>3, <1>5, <1>6, <1>7 DEF Command

(* A child that dies is dead in the table, unless the shell forgot it. *)
LEMMA DieStep ==
  ASSUME TypeOK, NEW k \in Slot, Live(k), kstate' = [kstate EXCEPT ![k] = "zombie"],
         UNCHANGED shellVars
  PROVE  Table!Next \/ Stutters
<1>1. listed' = listed /\ leaving' = leaving
  BY DEF shellVars
<1>2. \A n \in Slot : kstate'[n] = IF n = k THEN "zombie" ELSE kstate[n]
  BY DEF TypeOK, KernelTypeOK
<1>3. \A n \in Slot : n # k => phase'[n] = phase[n]
  BY <1>1, <1>2, PhaseBefore, PhaseAfter
<1>4. CASE k \in listed
  <2>1. phase[k] = "live" /\ phase'[k] = "dead"
    BY <1>1, <1>2, <1>4, PhaseBefore, PhaseAfter DEF PhaseIn, Live
  <2>2. Table!Become(k, "live", "dead")
    BY <1>1, <1>3, <2>1, PhaseBecomes
  <2> QED
    BY <2>2 DEF Table!Next, Table!Die
<1>5. CASE k \notin listed
  <2>1. phase'[k] = phase[k]
    BY <1>1, <1>2, <1>5, PhaseBefore, PhaseAfter DEF PhaseIn, Live
  <2> QED
    BY <1>1, <1>3, <2>1, PhaseUnchanged DEF Stutters
<1> QED
  BY <1>4, <1>5

LEMMA EnvironmentTable ==
  ASSUME Alone, IInv, Environment
  PROVE  Table!Next \/ Stutters
<1>1. TypeOK /\ UNCHANGED shellVars /\ listed' = listed /\ leaving' = leaving
  BY DEF IInv, Environment, shellVars
<1>2. ASSUME \A n \in Slot : phase'[n] = phase[n]
      PROVE  Stutters
  BY <1>1, <1>2, PhaseUnchanged DEF Stutters
<1>3. ASSUME NEW k \in Slot, Delivery(k) \/ ProgramEnds(k) \/ ExternalKill(k)
      PROVE  Table!Next \/ Stutters
  <2>1. CASE Live(k) /\ kstate' = [kstate EXCEPT ![k] = "zombie"]
    BY <1>1, <2>1, DieStep
  <2>2. CASE Live(k) /\ \A n \in Slot :
               kstate'[n] = kstate[n] \/ (n = k /\ kstate'[n] = "stopped")
    <3>1. ASSUME NEW n \in Slot
          PROVE  PhaseIn(kstate'[n], n \in listed) = PhaseIn(kstate[n], n \in listed)
      <4>1. CASE kstate'[n] = kstate[n]
        BY <4>1
      <4>2. CASE n = k /\ kstate'[n] = "stopped"
        BY <2>2, <4>2 DEF PhaseIn, Live
      <4> QED
        BY <2>2, <4>1, <4>2
    <3> QED
      BY <1>1, <1>2, <3>1, PhaseBefore, PhaseAfter
  <2>3. Dead = "zombie" /\ (kstate[k] \in {"running", "stopped"} => Live(k))
    BY DEF Alone, Dead, Live
  <2>4. CASE ProgramEnds(k) \/ ExternalKill(k)
    BY <2>1, <2>3, <2>4 DEF ProgramEnds, ExternalKill
  <2>5. CASE Delivery(k)
    <3>1. CASE DeliverInt(k) /\ k \notin Stubborn
      BY <2>1, <2>3, <3>1 DEF DeliverInt
    <3>2. CASE (DeliverInt(k) /\ k \in Stubborn) \/ DeliverTstp(k)
      BY <1>1, <2>2, <2>3, <3>2 DEF DeliverInt, DeliverTstp, TypeOK, KernelTypeOK
    <3> QED
      BY <2>5, <3>1, <3>2 DEF Delivery
  <2> QED
    BY <1>3, <2>4, <2>5
<1>4. ASSUME NEW k \in Slot, NEW sig \in {"INT", "TSTP", "CONT"}, ExternalSignal(k, sig)
      PROVE  Stutters
  <2>1. Generate(pid[k], sig)
    BY <1>4 DEF ExternalSignal
  <2> QED
    BY <1>1, <1>2, <2>1, GenerateTable, PhaseBefore, PhaseAfter
<1>5. ASSUME NEW q \in Pid, ForeignStarts(q) \/ ForeignEnds(q)
      PROVE  Stutters
  <2>1. kstate' = kstate
    BY <1>5 DEF ForeignStarts, ForeignEnds, processVars
  <2> QED
    BY <1>1, <1>2, <2>1, PhaseBefore, PhaseAfter
<1> QED
  BY <1>3, <1>4, <1>5 DEF Environment, KernelNext

LEMMA TableInit == Init => Table!Init
<1> SUFFICES ASSUME Init
             PROVE  Table!Init
  OBVIOUS
<1>1. \A n \in Slot : phase[n] = "none"
  BY PhaseBefore DEF Init, KernelInit, PhaseIn
<1> QED
  BY <1>1, PhaseBefore DEF Init, Table!Init

LEMMA TableStep ==
  ASSUME Alone, IInv, IInvOwn, IInvAlone, [Next]_vars
  PROVE  [Table!Next]_<<phase, leaving>>
<1>1. CASE UNCHANGED vars
  <2>1. kstate' = kstate /\ listed' = listed /\ leaving' = leaving
    BY <1>1 DEF vars, shellVars, kernelVars, processVars
  <2> QED
    BY <2>1, PhaseBefore, PhaseAfter, PhaseUnchanged
<1> QED
  BY <1>1, ShellTable, CommandTable, EnvironmentTable DEF Next, Stutters

(* The shell and its kernel implement the job table, as long as the shell  *)
(* alone reaps its children and no foreign process takes their pids: every *)
(* job that dies is reported exactly once, none is forgotten unreported by *)
(* procs, and procs forgets all that were reported.                        *)
THEOREM ImplementsTable ==
  ASSUME ReapModes \subseteq {FALSE}, ForeignModes \subseteq {FALSE}
  PROVE  Spec => TableSpec
<1>1. Init => Alone
  BY DEF Init, KernelInit, Alone
<1>2. Alone /\ [Next]_vars => Alone'
  BY ModesFixed DEF Alone, modeVars
<1>3. Alone /\ IInv /\ IInvOwn /\ IInvAlone /\ [Next]_vars => [Table!Next]_<<phase, leaving>>
  BY TableStep
<1> QED
  BY <1>1, <1>2, <1>3, TableInit, Inductive, InductiveOwn, InductiveAlone, PTL
     DEF Spec, TableSpec, Table!Spec
=============================================================================
