--------------------------- MODULE ProgramsProofs ----------------------------
(***************************************************************************)
(* Proofs about the programs that MCPrograms runs:                         *)
(*   Looper, for any number of signals: its type, that one handler stays   *)
(*     armed, that no SIGINT is lost and that the looper obeys;            *)
(*   TextFilters, for any files, texts, keys and number of runs: a run     *)
(*     that says nothing failed has written the translation of its whole   *)
(*     input, and printable lines survive encoding and decoding;           *)
(*   MenuMap, for any length of the array and whatever the user types.     *)
(***************************************************************************)
EXTENDS Looper, TextFilters, MenuMap, SequenceTheorems, WellFoundedInduction, TLAPS

-----------------------------------------------------------------------------
(***************************************************************************)
(* Looper.                                                                 *)
(***************************************************************************)

(* What the handlers that were interrupted will still do. *)
RenewComes ==
  installed = 3 /\ disp["TSTP"] = "default" /\ disp["CONT"] = "default" =>
    \E i \in DOMAIN frames : frames[i].step = "renew"

IntWasRaised ==
  \A i \in DOMAIN frames :
    frames[i].sig = "INT" /\ frames[i].step = "return" => "INT" \in pending

LooperInv == TypeOK /\ RenewComes /\ IntWasRaised

-----------------------------------------------------------------------------
(* The stack of handlers stays a stack of handlers of distinct signals when *)
(* one is pushed, goes a step further, or returns.                         *)
Frames == [sig : Sig, step : Steps]
Stack == {f \in Seq(Frames) :
            \A i, j \in DOMAIN f : f[i].sig = f[j].sig => i = j}
Sigs(f) == {f[i].sig : i \in DOMAIN f}

LEMMA NonEmpty ==
  ASSUME NEW f \in Stack, f # <<>>
  PROVE  f \in Seq(Frames) /\ 1 \in DOMAIN f /\ f[1] \in Frames
<1>1. f \in Seq(Frames)
  BY DEF Stack
<1>2. Len(f) \in Nat \ {0}
  BY <1>1, EmptySeq
<1> QED BY <1>1, <1>2

LEMMA Pushed ==
  ASSUME NEW f \in Stack, NEW s \in Sig, s \notin Sigs(f),
         NEW g, g = <<[sig |-> s, step |-> "print"]>> \o f
  PROVE  /\ g \in Stack
         /\ DOMAIN g = 1 .. Len(f) + 1
         /\ g[1] = [sig |-> s, step |-> "print"]
         /\ \A i \in DOMAIN f : i + 1 \in DOMAIN g /\ g[i + 1] = f[i]
         /\ \A i \in DOMAIN g : i # 1 => i - 1 \in DOMAIN f /\ g[i] = f[i - 1]
<1> DEFINE h == [sig |-> s, step |-> "print"]
<1>1. h \in Frames /\ h.sig = s
  BY DEF Steps, Frames
<1> HIDE DEF h
<1>2. g = <<h>> \o f
  BY DEF h
<1>3. /\ g \in Seq(Frames) /\ DOMAIN g = 1 .. Len(f) + 1 /\ g[1] = h
      /\ \A i \in DOMAIN f : i + 1 \in DOMAIN g /\ g[i + 1] = f[i]
      /\ \A i \in DOMAIN g : i # 1 => i - 1 \in DOMAIN f /\ g[i] = f[i - 1]
  <2>1. <<h>> \in Seq(Frames) /\ Len(<<h>>) = 1 /\ <<h>>[1] = h
    BY <1>1
  <2> QED BY <1>2, <2>1 DEF Stack
<1>4. \A i, j \in DOMAIN g : g[i].sig = g[j].sig => i = j
  <2> SUFFICES ASSUME NEW i \in DOMAIN g, NEW j \in DOMAIN g, g[i].sig = g[j].sig
               PROVE  i = j
    OBVIOUS
  <2>1. \A k \in DOMAIN g : k # 1 => g[k].sig # s
    BY <1>3 DEF Sigs
  <2>2. CASE i # 1 /\ j # 1
    <3>1. i - 1 = j - 1
      BY <1>3, <2>2 DEF Stack
    <3> QED BY <1>3, <3>1 DEF Stack
  <2> QED BY <1>1, <1>3, <2>1, <2>2
<1>5. g \in Stack
  BY <1>3, <1>4 DEF Stack
<1> QED BY <1>3, <1>5 DEF h

LEMMA Stepped ==
  ASSUME NEW f \in Stack, f # <<>>, NEW step \in Steps,
         NEW g, g = [f EXCEPT ![1].step = step]
  PROVE  /\ g \in Stack
         /\ DOMAIN g = DOMAIN f
         /\ 1 \in DOMAIN f /\ g[1].sig = f[1].sig /\ g[1].step = step
         /\ \A i \in DOMAIN f : i # 1 => g[i] = f[i]
<1>1. f \in Seq(Frames) /\ 1 \in DOMAIN f /\ f[1] \in Frames
  BY NonEmpty
<1>2. [f[1] EXCEPT !.step = step] \in Frames /\ [f[1] EXCEPT !.step = step].sig = f[1].sig
      /\ [f[1] EXCEPT !.step = step].step = step
  BY <1>1 DEF Frames
<1>3. g = [f EXCEPT ![1] = [f[1] EXCEPT !.step = step]]
  BY <1>1
<1>4. g \in Seq(Frames) /\ DOMAIN g = DOMAIN f /\ g[1] = [f[1] EXCEPT !.step = step]
      /\ \A i \in DOMAIN f : i # 1 => g[i] = f[i]
  BY <1>1, <1>2, <1>3
<1>5. \A i \in DOMAIN f : g[i].sig = f[i].sig
  BY <1>2, <1>4
<1>6. g \in Stack
  <2>1. \A i, j \in DOMAIN f : f[i].sig = f[j].sig => i = j
    BY DEF Stack
  <2>2. \A i, j \in DOMAIN g : g[i].sig = g[j].sig => i = j
    BY <1>4, <1>5, <2>1
  <2> QED BY <1>4, <2>2 DEF Stack
<1> QED BY <1>1, <1>2, <1>4, <1>6

LEMMA Popped ==
  ASSUME NEW f \in Stack, f # <<>>, NEW g, g = Tail(f)
  PROVE  /\ g \in Stack
         /\ \A i \in DOMAIN g : i + 1 \in DOMAIN f /\ g[i] = f[i + 1]
         /\ \A i \in DOMAIN f : i # 1 => i - 1 \in DOMAIN g /\ g[i - 1] = f[i]
<1>1. f \in Seq(Frames) /\ Len(f) \in Nat \ {0}
  BY EmptySeq DEF Stack
<1>2. /\ g \in Seq(Frames)
      /\ \A i \in DOMAIN g : i + 1 \in DOMAIN f /\ g[i] = f[i + 1]
      /\ \A i \in DOMAIN f : i # 1 => i - 1 \in DOMAIN g /\ g[i - 1] = f[i]
  BY <1>1
<1>3. \A i, j \in DOMAIN g : g[i].sig = g[j].sig => i = j
  <2> SUFFICES ASSUME NEW i \in DOMAIN g, NEW j \in DOMAIN g, g[i].sig = g[j].sig
               PROVE  i = j
    OBVIOUS
  <2>1. i + 1 = j + 1
    BY <1>2 DEF Stack
  <2> QED BY <1>2, <2>1
<1>4. g \in Stack
  BY <1>2, <1>3 DEF Stack
<1> QED BY <1>2, <1>4

-----------------------------------------------------------------------------
(* Generating a signal keeps the type, and a SIGINT that was pending. *)
LEMMA GenerateKeeps ==
  ASSUME TypeOK, NEW s \in Sig, Generate(s)
  PROVE  /\ pending' \subseteq Sig
         /\ life' \in {"running", "stopped", "dead"}
         /\ life = "dead" => life' = "dead"
         /\ "INT" \in pending => "INT" \in pending'
         /\ s = "INT" => "INT" \in pending'
BY DEF TypeOK, Generate, WithSignal, Sig

LEMMA SignalKeeps ==
  ASSUME TypeOK, NEW s \in Sig, NEW action \in {"handler", "default"}, Signal(s, action)
  PROVE  /\ pending' \subseteq Sig
         /\ disp' \in [Sig -> {"handler", "default"}]
         /\ disp' = [disp EXCEPT ![s] = action]
         /\ "INT" \in pending => "INT" \in pending'
BY DEF TypeOK, Signal, Sig

(* The action property proved below: a SIGINT that was sent stays pending, *)
(* being handled, or has ended the program, whatever arrives beside it.    *)
IntNeverLost == IntUnderWay => IntUnderWay'

LEMMA LooperInitInv == Init => LooperInv
<1> SUFFICES ASSUME Init PROVE LooperInv
  OBVIOUS
<1>1. TypeOK
  <2>1. sent \in 0 .. MaxSent
    <3>1. MaxSent \in Nat
      BY LooperAssumption DEF LooperAssumption
    <3>2. sent = 0
      BY DEF Init
    <3> QED BY <3>1, <3>2
  <2>2. frames \in Seq([sig : Sig, step : Steps]) /\ DOMAIN frames = {}
    BY DEF Init
  <2>3. disp \in [Sig -> {"handler", "default"}] /\ installed \in 0 .. 3
    BY DEF Init
  <2> QED BY <2>1, <2>2, <2>3 DEF Init, TypeOK
<1>2. RenewComes /\ IntWasRaised
  BY DEF Init, RenewComes, IntWasRaised
<1> QED BY <1>1, <1>2 DEF LooperInv

LEMMA StepOfHandler ==
  ASSUME LooperInv, NEW step \in Steps, NEW next \in Steps, InHandler(step, next),
         disp' \in [Sig -> {"handler", "default"}], pending' \subseteq Sig,
         life' \in {"running", "stopped", "dead"},
         life = "dead" => life' = "dead",
         "INT" \in pending => "INT" \in pending',
         step = "renew" =>
           disp'["TSTP"] = "handler" \/ disp'["CONT"] = "handler",
         disp'["TSTP"] = "default" /\ disp'["CONT"] = "default" =>
           (disp["TSTP"] = "default" /\ disp["CONT"] = "default") \/ next = "renew",
         next = "return" /\ frames[1].sig = "INT" => "INT" \in pending'
  PROVE  LooperInv' /\ IntNeverLost
<1> USE DEF LooperInv
<1>1. /\ frames \in Stack /\ frames # <<>>
      /\ frames' = [frames EXCEPT ![1].step = next]
  BY DEF InHandler, TypeOK, Stack, Frames
<1>2. /\ frames' \in Stack
      /\ DOMAIN frames' = DOMAIN frames
      /\ 1 \in DOMAIN frames /\ frames'[1].sig = frames[1].sig /\ frames'[1].step = next
      /\ \A i \in DOMAIN frames : i # 1 => frames'[i] = frames[i]
  <2>1. frames' \in Stack /\ DOMAIN frames' = DOMAIN frames
    BY <1>1, Stepped
  <2>2. 1 \in DOMAIN frames /\ frames'[1].sig = frames[1].sig /\ frames'[1].step = next
    BY <1>1, Stepped
  <2>3. \A i \in DOMAIN frames : i # 1 => frames'[i] = frames[i]
    BY <1>1, Stepped
  <2> QED BY <2>1, <2>2, <2>3
<1>3. TypeOK'
  BY <1>2 DEF TypeOK, InHandler, Stack, Frames, sentVars
<1>4. RenewComes'
  <2> SUFFICES ASSUME installed' = 3, disp'["TSTP"] = "default", disp'["CONT"] = "default"
               PROVE  \E i \in DOMAIN frames' : frames'[i].step = "renew"
    BY DEF RenewComes
  <2>1. CASE next = "renew"
    BY <1>2, <2>1
  <2>2. CASE disp["TSTP"] = "default" /\ disp["CONT"] = "default"
    <3>1. PICK i \in DOMAIN frames : frames[i].step = "renew"
      BY <2>2 DEF RenewComes, InHandler
    <3>2. i # 1
      BY <3>1 DEF InHandler
    <3> QED BY <1>2, <3>1, <3>2
  <2> QED BY <2>1, <2>2
<1>5. IntWasRaised'
  <2> SUFFICES ASSUME NEW i \in DOMAIN frames',
                      frames'[i].sig = "INT", frames'[i].step = "return"
               PROVE  "INT" \in pending'
    BY DEF IntWasRaised
  <2> QED BY <1>2 DEF IntWasRaised
<1>6. IntNeverLost
  <2>1. Handling("INT") => Handling("INT")'
    BY <1>2 DEF Handling
  <2> QED BY <2>1 DEF IntNeverLost, IntUnderWay
<1> QED BY <1>3, <1>4, <1>5, <1>6

LEMMA DeliverInv ==
  ASSUME LooperInv, NEW s \in Sig, Deliver(s)
  PROVE  LooperInv' /\ IntNeverLost
<1> USE DEF LooperInv
<1>1. /\ frames \in Stack
      /\ s \in pending /\ \A i \in DOMAIN frames : frames[i].sig # s
      /\ s \notin Sigs(frames)
  BY DEF Deliver, IsNext, Deliverable, Handling, TypeOK, Stack, Frames, Sigs
<1>2. s = "INT" => \A i \in DOMAIN frames : frames[i].sig # "INT"
  BY <1>1
<1>3. CASE disp[s] = "handler"
  <2>1. frames' = <<[sig |-> s, step |-> "print"]>> \o frames /\ life' = life
    BY <1>3 DEF Deliver
  <2>2. /\ frames' \in Stack
          /\ DOMAIN frames' = 1 .. Len(frames) + 1
        /\ frames'[1] = [sig |-> s, step |-> "print"]
        /\ \A i \in DOMAIN frames : i + 1 \in DOMAIN frames' /\ frames'[i + 1] = frames[i]
        /\ \A i \in DOMAIN frames' :
             i # 1 => i - 1 \in DOMAIN frames /\ frames'[i] = frames[i - 1]
    <3>1. frames' \in Stack /\ DOMAIN frames' = 1 .. Len(frames) + 1
      BY <1>1, <2>1, Pushed
    <3>2. frames'[1] = [sig |-> s, step |-> "print"]
      BY <1>1, <2>1, Pushed
    <3>3. \A i \in DOMAIN frames : i + 1 \in DOMAIN frames' /\ frames'[i + 1] = frames[i]
      BY <1>1, <2>1, Pushed
    <3>4. \A i \in DOMAIN frames' :
            i # 1 => i - 1 \in DOMAIN frames /\ frames'[i] = frames[i - 1]
      BY <1>1, <2>1, Pushed
    <3> QED BY <3>1, <3>2, <3>3, <3>4
  <2>3. TypeOK'
    BY <2>1, <2>2 DEF TypeOK, Deliver, Stack, Frames, sentVars
  <2>4. RenewComes'
    BY <2>2 DEF RenewComes, Deliver
  <2>5. IntWasRaised'
    <3> SUFFICES ASSUME NEW i \in DOMAIN frames',
                        frames'[i].sig = "INT", frames'[i].step = "return"
                 PROVE  "INT" \in pending'
      BY DEF IntWasRaised
    <3>1. i # 1
      BY <2>2
    <3>2. i - 1 \in DOMAIN frames /\ frames[i - 1].sig = "INT" /\ frames[i - 1].step = "return"
      BY <2>2, <3>1
    <3> QED BY <1>1, <3>2 DEF IntWasRaised, Deliver
  <2>6. IntNeverLost
    <3>1. Handling("INT") => Handling("INT")'
      BY <2>2 DEF Handling
    <3>2. s = "INT" => Handling("INT")'
      <4>1. 1 \in DOMAIN frames'
        BY <1>1, <2>2 DEF Stack
      <4> QED BY <2>2, <4>1 DEF Handling
    <3> QED BY <2>1, <3>1, <3>2 DEF IntNeverLost, IntUnderWay, Deliver
  <2> QED BY <2>3, <2>4, <2>5, <2>6
<1>4. CASE disp[s] # "handler"
  <2>1. /\ frames' = frames
        /\ life' = CASE s = "INT" -> "dead" [] s = "TSTP" -> "stopped" [] s = "CONT" -> life
    BY <1>4 DEF Deliver
  <2>2. life' \in {"running", "stopped", "dead"}
    BY <2>1 DEF Sig, TypeOK
  <2>3. TypeOK'
    BY <2>1, <2>2 DEF TypeOK, Deliver, sentVars
  <2>4. RenewComes'
    BY <2>1 DEF RenewComes, Deliver
  <2>5. IntWasRaised'
    BY <1>2, <2>1 DEF IntWasRaised, Deliver
  <2>6. IntNeverLost
    <3>1. CASE s = "INT"
      BY <2>1, <3>1 DEF IntNeverLost, IntUnderWay
    <3>2. CASE s # "INT"
      <4>1. life # "dead"
        BY DEF Deliver
      <4> QED BY <2>1, <3>2, <4>1 DEF IntNeverLost, IntUnderWay, Handling, Deliver
    <3> QED BY <3>1, <3>2
  <2> QED BY <2>3, <2>4, <2>5, <2>6
<1> QED BY <1>3, <1>4

LEMMA InstallInv ==
  ASSUME LooperInv, Install
  PROVE  LooperInv' /\ IntNeverLost
<1> USE DEF LooperInv
<1>1. /\ installed \in 0 .. 2 /\ installed' = installed + 1
      /\ Signal(Armed[installed + 1], "handler") /\ frames' = frames /\ frames = <<>>
  BY DEF Install, TypeOK
<1>2. Armed[installed + 1] \in Sig /\ (installed = 2 => Armed[installed + 1] = "CONT")
  BY <1>1 DEF Armed, Sig
<1>3. /\ pending' \subseteq Sig
      /\ disp' \in [Sig -> {"handler", "default"}]
      /\ disp' = [disp EXCEPT ![Armed[installed + 1]] = "handler"]
      /\ "INT" \in pending => "INT" \in pending'
  BY <1>1, <1>2, SignalKeeps
<1>4. TypeOK'
  <2>1. installed' \in 0 .. 3
    BY <1>1
  <2> QED BY <1>1, <1>3, <2>1 DEF TypeOK, Install, sentVars
<1>5. RenewComes'
  BY <1>1, <1>2, <1>3 DEF RenewComes, TypeOK, Sig
<1>6. IntWasRaised'
  BY <1>1, <1>3 DEF IntWasRaised
<1>7. IntNeverLost
  BY <1>1, <1>3 DEF IntNeverLost, IntUnderWay, Handling, Install
<1> QED BY <1>4, <1>5, <1>6, <1>7

LEMMA HandlerInv ==
  ASSUME LooperInv, PrintSignal \/ SetDefault \/ Renew \/ Raise
  PROVE  LooperInv' /\ IntNeverLost
<1> USE DEF LooperInv
<1>0. "INT" \in Sig /\ "TSTP" \in Sig /\ "CONT" \in Sig
      /\ {"print", "default", "renew", "raise", "return"} \subseteq Steps
  BY DEF Sig, Steps
<1>1. frames # <<>> => frames[1].sig \in Sig
  <2> SUFFICES ASSUME frames # <<>> PROVE frames[1].sig \in Sig
    OBVIOUS
  <2>1. frames \in Stack
    BY DEF TypeOK, Stack, Frames
  <2>2. frames[1] \in Frames
    BY <2>1, NonEmpty
  <2> QED BY <2>2 DEF Frames
<1>2. CASE PrintSignal
  <2>1. InHandler("print", "default") /\ disp' = disp /\ pending' = pending /\ life' = life
    BY <1>2 DEF PrintSignal
  <2> QED BY <1>0, <2>1, StepOfHandler DEF TypeOK
<1>3. CASE SetDefault
  <2> DEFINE next == IF frames[1].sig = "INT" THEN "raise" ELSE "renew"
  <2>1. InHandler("default", next) /\ Signal(frames[1].sig, "default") /\ life' = life
        /\ frames # <<>>
    BY <1>3 DEF SetDefault, InHandler
  <2>2. /\ pending' \subseteq Sig
        /\ disp' \in [Sig -> {"handler", "default"}]
        /\ disp' = [disp EXCEPT ![frames[1].sig] = "default"]
        /\ "INT" \in pending => "INT" \in pending'
    BY <1>1, <2>1, SignalKeeps
  <2>3. disp'["TSTP"] = "default" /\ disp'["CONT"] = "default" =>
          (disp["TSTP"] = "default" /\ disp["CONT"] = "default") \/ next = "renew"
    BY <1>1, <2>1, <2>2 DEF Sig, TypeOK
  <2>4. next \in Steps /\ next # "return"
    BY <1>0
  <2>5. life' \in {"running", "stopped", "dead"} /\ (life = "dead" => life' = "dead")
    BY <2>1 DEF TypeOK
  <2> HIDE DEF next
  <2> QED BY <1>0, <2>1, <2>2, <2>3, <2>4, <2>5, StepOfHandler
<1>4. CASE Renew
  <2>1. InHandler("renew", "raise") /\ Signal(Opposite(frames[1].sig), "handler") /\ life' = life
    BY <1>4 DEF Renew
  <2>2. Opposite(frames[1].sig) \in {"TSTP", "CONT"}
    BY DEF Opposite
  <2>3. /\ pending' \subseteq Sig
        /\ disp' \in [Sig -> {"handler", "default"}]
        /\ disp' = [disp EXCEPT ![Opposite(frames[1].sig)] = "handler"]
        /\ "INT" \in pending => "INT" \in pending'
    BY <1>0, <2>1, <2>2, SignalKeeps
  <2>4. disp'["TSTP"] = "handler" \/ disp'["CONT"] = "handler"
    BY <1>0, <2>2, <2>3 DEF TypeOK
  <2>5. life' \in {"running", "stopped", "dead"} /\ (life = "dead" => life' = "dead")
    BY <2>1 DEF TypeOK
  <2> QED BY <1>0, <2>1, <2>3, <2>4, <2>5, StepOfHandler
<1>5. CASE Raise
  <2>1. InHandler("raise", "return") /\ Generate(frames[1].sig) /\ disp' = disp /\ frames # <<>>
    BY <1>5 DEF Raise, InHandler
  <2>2. /\ pending' \subseteq Sig
        /\ life' \in {"running", "stopped", "dead"}
        /\ life = "dead" => life' = "dead"
        /\ "INT" \in pending => "INT" \in pending'
        /\ frames[1].sig = "INT" => "INT" \in pending'
    BY <1>1, <2>1, GenerateKeeps
  <2>3. disp' \in [Sig -> {"handler", "default"}]
    BY <2>1 DEF TypeOK
  <2> QED BY <1>0, <2>1, <2>2, <2>3, StepOfHandler
<1> QED BY <1>2, <1>3, <1>4, <1>5

LEMMA ReturnInv ==
  ASSUME LooperInv, Return
  PROVE  LooperInv' /\ IntNeverLost
<1> USE DEF LooperInv
<1>1. /\ frames \in Stack /\ frames # <<>>
      /\ frames[1].step = "return" /\ frames' = Tail(frames)
      /\ disp' = disp /\ pending' = pending /\ life' = life /\ installed' = installed
  BY DEF Return, TypeOK, Stack, Frames
<1>2. /\ frames' \in Stack
      /\ \A i \in DOMAIN frames' : i + 1 \in DOMAIN frames /\ frames'[i] = frames[i + 1]
      /\ \A i \in DOMAIN frames : i # 1 => i - 1 \in DOMAIN frames' /\ frames'[i - 1] = frames[i]
  <2>1. frames' \in Stack
    BY <1>1, Popped
  <2>2. \A i \in DOMAIN frames' : i + 1 \in DOMAIN frames /\ frames'[i] = frames[i + 1]
    BY <1>1, Popped
  <2>3. \A i \in DOMAIN frames : i # 1 => i - 1 \in DOMAIN frames' /\ frames'[i - 1] = frames[i]
    BY <1>1, Popped
  <2> QED BY <2>1, <2>2, <2>3
<1>3. TypeOK'
  BY <1>1, <1>2 DEF TypeOK, Return, Stack, Frames, sentVars
<1>4. RenewComes'
  <2> SUFFICES ASSUME installed' = 3, disp'["TSTP"] = "default", disp'["CONT"] = "default"
               PROVE  \E i \in DOMAIN frames' : frames'[i].step = "renew"
    BY DEF RenewComes
  <2>1. PICK i \in DOMAIN frames : frames[i].step = "renew"
    BY <1>1 DEF RenewComes
  <2>2. i # 1
    BY <1>1, <2>1
  <2> QED BY <1>2, <2>1, <2>2
<1>5. IntWasRaised'
  BY <1>1, <1>2 DEF IntWasRaised
<1>6. IntNeverLost
  <2>1. ASSUME NEW i \in DOMAIN frames, frames[i].sig = "INT"
        PROVE  "INT" \in pending \/ Handling("INT")'
    <3>1. CASE i = 1
      BY <1>1, <2>1, <3>1 DEF IntWasRaised
    <3>2. CASE i # 1
      BY <1>2, <2>1, <3>2 DEF Handling
    <3> QED BY <3>1, <3>2
  <2> QED BY <1>1, <2>1 DEF IntNeverLost, IntUnderWay, Handling
<1> QED BY <1>3, <1>4, <1>5, <1>6

LEMMA SendInv ==
  ASSUME LooperInv, NEW s \in Sig, Send(s)
  PROVE  LooperInv' /\ IntNeverLost
<1> USE DEF LooperInv
<1>1. /\ Generate(s) /\ installed' = installed /\ disp' = disp /\ frames' = frames
      /\ sent' = sent + 1 /\ sent < MaxSent /\ asked' = s
      /\ unhurried' = (unhurried /\ AtRest)
      /\ resuming' = (resuming \/ life = "stopped")
  BY DEF Send, progVars
<1>2. /\ pending' \subseteq Sig
      /\ life' \in {"running", "stopped", "dead"}
      /\ life = "dead" => life' = "dead"
      /\ "INT" \in pending => "INT" \in pending'
  BY <1>1, GenerateKeeps
<1>3. TypeOK'
  <2>1. sent' \in 0 .. MaxSent
    BY <1>1, LooperAssumption DEF TypeOK
  <2>2. unhurried' \in BOOLEAN /\ resuming' \in BOOLEAN
    BY <1>1
  <2> QED BY <1>1, <1>2, <2>1, <2>2 DEF TypeOK
<1>4. RenewComes' /\ IntWasRaised'
  BY <1>1, <1>2 DEF RenewComes, IntWasRaised
<1>5. IntNeverLost
  BY <1>1, <1>2 DEF IntNeverLost, IntUnderWay, Handling
<1> QED BY <1>3, <1>4, <1>5

LEMMA LooperNextInv ==
  ASSUME LooperInv, [Next]_vars
  PROVE  LooperInv' /\ [IntNeverLost]_vars
<1>1. CASE UNCHANGED vars
  BY <1>1 DEF vars, progVars, kernelVars, sentVars, LooperInv, TypeOK, RenewComes, IntWasRaised
<1>2. CASE Next
  BY <1>2, DeliverInv, InstallInv, HandlerInv, ReturnInv, SendInv DEF Next, signal_printer
<1> QED BY <1>1, <1>2

-----------------------------------------------------------------------------
(* What an unhurried stop or continue has still to do.                     *)

(* A stop that is not obeyed yet is pending, or will be raised again, and  *)
(* nothing else is going on.                                               *)
StopComes ==
  \/ life = "stopped"
  \/ /\ life = "running"
     /\ pending \subseteq {"TSTP"}
     /\ \A i \in DOMAIN frames : frames[i].sig = "TSTP"
     /\ "TSTP" \in pending \/ \E i \in DOMAIN frames : frames[i].step # "return"

(* Nothing of an earlier stop is left when a continue is under way. *)
NoStopComes ==
  life # "stopped" /\ "TSTP" \notin pending /\ ~Handling("TSTP")

Obeying ==
  unhurried => /\ asked = "TSTP" => StopComes
               /\ asked = "CONT" => NoStopComes

(* A signal that is sent in a hurry leaves nothing to show; one that is not *)
(* finds no handler running.                                               *)
LEMMA SendObeys ==
  ASSUME LooperInv, Obeying, NEW s \in Sig, Send(s)
  PROVE  Obeying'
<1> SUFFICES ASSUME unhurried' PROVE (asked' = "TSTP" => StopComes') /\ (asked' = "CONT" => NoStopComes')
  BY DEF Obeying
<1>1. /\ Generate(s) /\ frames' = frames /\ asked' = s /\ life # "dead"
      /\ frames = <<>> /\ (life = "running" => pending = {})
  BY DEF Send, progVars, AtRest
<1>2. DOMAIN frames' = {}
  BY <1>1
<1>3. life \in {"running", "stopped"}
  BY <1>1 DEF LooperInv, TypeOK
<1>4. CASE s = "TSTP"
  BY <1>1, <1>2, <1>3, <1>4 DEF Generate, WithSignal, StopComes
<1>5. CASE s = "CONT"
  BY <1>1, <1>2, <1>3, <1>5 DEF Generate, WithSignal, NoStopComes, Handling
<1> QED BY <1>1, <1>4, <1>5

(* The handlers of an unhurried stop, step by step. *)
LEMMA StopStep ==
  ASSUME LooperInv, StopComes,
         (\E s \in Sig : Deliver(s)) \/ Install \/ signal_printer
  PROVE  StopComes'
<1>1. /\ life = "running" /\ pending \subseteq {"TSTP"}
      /\ \A i \in DOMAIN frames : frames[i].sig = "TSTP"
      /\ "TSTP" \in pending \/ \E i \in DOMAIN frames : frames[i].step # "return"
  BY DEF StopComes, Deliver, Install, signal_printer, PrintSignal, SetDefault, Renew, Raise,
         Return, InHandler, ProgramRuns
<1>2. frames \in Stack
  BY DEF LooperInv, TypeOK, Stack, Frames
<1>3. frames # <<>> => 1 \in DOMAIN frames /\ frames[1].sig = "TSTP"
                       /\ DOMAIN frames = {1}
  <2> SUFFICES ASSUME frames # <<>>
               PROVE  1 \in DOMAIN frames /\ frames[1].sig = "TSTP" /\ DOMAIN frames = {1}
    OBVIOUS
  <2>1. 1 \in DOMAIN frames
    BY <1>2, NonEmpty
  <2>2. \A i \in DOMAIN frames : i = 1
    BY <1>1, <1>2, <2>1 DEF Stack
  <2> QED BY <1>1, <2>1, <2>2
<1>4. ASSUME NEW s \in Sig, Deliver(s)
      PROVE  StopComes'
  <2>1. s = "TSTP" /\ s \notin Sigs(frames)
    BY <1>1, <1>4 DEF Deliver, IsNext, Deliverable, Handling, Sigs
  <2>2. DOMAIN frames = {}
    BY <1>1, <2>1 DEF Sigs
  <2>3. CASE disp[s] = "handler"
    <3>1. frames' = <<[sig |-> s, step |-> "print"]>> \o frames /\ life' = life
          /\ pending' = pending \ {s}
      BY <1>4, <2>3 DEF Deliver
    <3>2. /\ frames'[1] = [sig |-> s, step |-> "print"]
          /\ DOMAIN frames' = 1 .. Len(frames) + 1
          /\ \A i \in DOMAIN frames' : i # 1 => i - 1 \in DOMAIN frames
      <4>1. frames'[1] = [sig |-> s, step |-> "print"] /\ DOMAIN frames' = 1 .. Len(frames) + 1
        BY <1>2, <2>1, <3>1, Pushed
      <4>2. \A i \in DOMAIN frames' : i # 1 => i - 1 \in DOMAIN frames
        BY <1>2, <2>1, <3>1, Pushed
      <4> QED BY <4>1, <4>2
    <3>3. \A i \in DOMAIN frames' : i = 1
      BY <2>2, <3>2
    <3>4. 1 \in DOMAIN frames'
      <4>1. Len(frames) \in Nat
        BY <1>2, LenProperties DEF Stack
      <4> QED BY <3>2, <4>1
    <3> QED BY <1>1, <2>1, <3>1, <3>2, <3>3, <3>4 DEF StopComes
  <2>4. CASE disp[s] # "handler"
    BY <1>4, <2>1, <2>4 DEF Deliver, StopComes
  <2> QED BY <2>3, <2>4
<1>5. CASE Install
  <2>1. life' = life /\ pending' = pending /\ frames' = frames
    BY <1>5 DEF Install, Signal
  <2> QED BY <1>1, <2>1 DEF StopComes
<1>6. ASSUME NEW step \in Steps, NEW next \in Steps, InHandler(step, next), life' = life,
             pending' \subseteq {"TSTP"}, next # "return" \/ "TSTP" \in pending'
      PROVE  StopComes'
  <2>1. frames # <<>> /\ frames' = [frames EXCEPT ![1].step = next]
    BY <1>6 DEF InHandler
  <2>2. DOMAIN frames' = DOMAIN frames /\ frames'[1].sig = frames[1].sig
        /\ frames'[1].step = next
    BY <1>2, <1>6, <2>1, Stepped
  <2> QED BY <1>1, <1>3, <1>6, <2>1, <2>2 DEF StopComes
<1>7. CASE PrintSignal \/ SetDefault \/ Renew \/ Raise
  <2>0. {"print", "default", "renew", "raise", "return"} \subseteq Steps
    BY DEF Steps
  <2>1. CASE PrintSignal
    <3>1. InHandler("print", "default") /\ life' = life /\ pending' = pending
      BY <2>1 DEF PrintSignal
    <3> QED BY <1>1, <1>6, <2>0, <3>1
  <2>2. CASE SetDefault
    <3>1. frames # <<>> /\ Signal(frames[1].sig, "default") /\ life' = life
          /\ InHandler("default", IF frames[1].sig = "INT" THEN "raise" ELSE "renew")
      BY <2>2 DEF SetDefault, InHandler
    <3>2. InHandler("default", "renew") /\ pending' = pending
      BY <1>3, <3>1 DEF Signal
    <3> QED BY <1>1, <1>6, <2>0, <3>1, <3>2
  <2>3. CASE Renew
    <3>1. InHandler("renew", "raise") /\ life' = life /\ pending' = pending
      BY <2>3 DEF Renew, Signal
    <3> QED BY <1>1, <1>6, <2>0, <3>1
  <2>4. CASE Raise
    <3>1. frames # <<>> /\ Generate(frames[1].sig) /\ InHandler("raise", "return")
      BY <2>4 DEF Raise, InHandler
    <3>2. life' = life /\ pending' \subseteq {"TSTP"} /\ "TSTP" \in pending'
      BY <1>1, <1>3, <3>1 DEF Generate, WithSignal
    <3> QED BY <1>6, <2>0, <3>1, <3>2
  <2> QED BY <1>7, <2>1, <2>2, <2>3, <2>4
<1>8. CASE Return
  <2>1. frames # <<>> /\ frames[1].step = "return" /\ frames' = Tail(frames)
        /\ life' = life /\ pending' = pending
    BY <1>8 DEF Return
  <2>2. "TSTP" \in pending
    BY <1>1, <1>3, <2>1
  <2>3. \A i \in DOMAIN frames' : i + 1 \in DOMAIN frames /\ frames'[i] = frames[i + 1]
    BY <1>2, <2>1, Popped
  <2> QED BY <1>1, <2>1, <2>2, <2>3 DEF StopComes
<1> QED BY <1>4, <1>5, <1>7, <1>8 DEF signal_printer

(* Without a stop that is pending or handled, no step makes one. *)
LEMMA NoStopStep ==
  ASSUME LooperInv, NoStopComes,
         (\E s \in Sig : Deliver(s)) \/ Install \/ signal_printer
  PROVE  NoStopComes'
<1>1. frames \in Stack /\ "TSTP" \notin Sigs(frames)
  BY DEF LooperInv, TypeOK, Stack, Frames, NoStopComes, Handling, Sigs
<1>2. frames # <<>> => frames[1].sig # "TSTP"
  <2> SUFFICES ASSUME frames # <<>> PROVE frames[1].sig # "TSTP"
    OBVIOUS
  <2>1. 1 \in DOMAIN frames
    BY <1>1, NonEmpty
  <2> QED BY <1>1, <2>1 DEF Sigs
<1>3. ASSUME NEW s \in Sig, Deliver(s)
      PROVE  NoStopComes'
  <2>1. s # "TSTP" /\ s \notin Sigs(frames) /\ pending' = pending \ {s}
    BY <1>3 DEF NoStopComes, Deliver, IsNext, Deliverable, Handling, Sigs
  <2>2. life' # "stopped"
    BY <1>3, <2>1 DEF Deliver, NoStopComes, Sig
  <2>3. CASE disp[s] = "handler"
    <3>1. frames' = <<[sig |-> s, step |-> "print"]>> \o frames
      BY <1>3, <2>3 DEF Deliver
    <3>2. frames'[1] = [sig |-> s, step |-> "print"]
      BY <1>1, <2>1, <3>1, Pushed
    <3>3. \A i \in DOMAIN frames' : i # 1 => i - 1 \in DOMAIN frames /\ frames'[i] = frames[i - 1]
      BY <1>1, <2>1, <3>1, Pushed
    <3> QED BY <1>1, <2>1, <2>2, <3>2, <3>3 DEF NoStopComes, Handling, Sigs
  <2>4. CASE disp[s] # "handler"
    <3>1. frames' = frames
      BY <1>3, <2>4 DEF Deliver
    <3> QED BY <2>1, <2>2, <3>1 DEF NoStopComes, Handling
  <2> QED BY <2>3, <2>4
<1>4. CASE Install
  BY <1>4 DEF Install, Signal, NoStopComes, Handling
<1>5. ASSUME NEW step \in Steps, NEW next \in Steps, InHandler(step, next), life' # "stopped",
             "TSTP" \notin pending'
      PROVE  NoStopComes'
  <2>1. frames # <<>> /\ frames' = [frames EXCEPT ![1].step = next]
    BY <1>5 DEF InHandler
  <2>2. DOMAIN frames' = DOMAIN frames /\ frames'[1].sig = frames[1].sig
    BY <1>1, <1>5, <2>1, Stepped
  <2>3. \A i \in DOMAIN frames : i # 1 => frames'[i] = frames[i]
    BY <1>1, <1>5, <2>1, Stepped
  <2> QED BY <1>1, <1>2, <1>5, <2>1, <2>2, <2>3 DEF NoStopComes, Handling, Sigs
<1>6. CASE PrintSignal \/ SetDefault \/ Renew \/ Raise
  <2>0. {"print", "default", "renew", "raise", "return"} \subseteq Steps
    BY DEF Steps
  <2>1. CASE PrintSignal
    <3>1. InHandler("print", "default") /\ life' = life /\ pending' = pending
      BY <2>1 DEF PrintSignal
    <3> QED BY <1>5, <2>0, <3>1 DEF NoStopComes
  <2>2. CASE SetDefault
    <3>1. InHandler("default", IF frames[1].sig = "INT" THEN "raise" ELSE "renew")
          /\ life' = life /\ pending' \subseteq pending
      BY <2>2 DEF SetDefault, Signal
    <3>2. (IF frames[1].sig = "INT" THEN "raise" ELSE "renew") \in Steps
      BY <2>0
    <3> QED BY <1>5, <2>0, <3>1, <3>2 DEF NoStopComes
  <2>3. CASE Renew
    <3>1. InHandler("renew", "raise") /\ life' = life /\ pending' = pending
      BY <2>3 DEF Renew, Signal
    <3> QED BY <1>5, <2>0, <3>1 DEF NoStopComes
  <2>4. CASE Raise
    <3>1. frames # <<>> /\ Generate(frames[1].sig) /\ InHandler("raise", "return")
      BY <2>4 DEF Raise, InHandler
    <3>2. frames[1].sig \in {"INT", "CONT"}
      <4>1. frames[1] \in Frames
        BY <1>1, <3>1, NonEmpty
      <4> QED BY <1>2, <3>1, <4>1 DEF Frames, Sig
    <3>3. life' # "stopped" /\ "TSTP" \notin pending'
      BY <3>1, <3>2 DEF Generate, WithSignal, NoStopComes
    <3> QED BY <1>5, <2>0, <3>1, <3>3
  <2> QED BY <1>6, <2>1, <2>2, <2>3, <2>4
<1>7. CASE Return
  <2>1. frames # <<>> /\ frames' = Tail(frames) /\ life' = life /\ pending' = pending
    BY <1>7 DEF Return
  <2>2. \A i \in DOMAIN frames' : i + 1 \in DOMAIN frames /\ frames'[i] = frames[i + 1]
    BY <1>1, <2>1, Popped
  <2> QED BY <2>1, <2>2 DEF NoStopComes, Handling
<1> QED BY <1>3, <1>4, <1>6, <1>7 DEF signal_printer

LEMMA ObeyingStep ==
  ASSUME LooperInv, Obeying, [Next]_vars
  PROVE  Obeying'
<1>1. CASE UNCHANGED vars
  BY <1>1 DEF vars, progVars, kernelVars, sentVars, Obeying, StopComes, NoStopComes, Handling
<1>2. CASE \E s \in Sig : Send(s)
  BY <1>2, SendObeys
<1>3. CASE (\E s \in Sig : Deliver(s)) \/ Install \/ signal_printer
  <2>1. unhurried' = unhurried /\ asked' = asked
    BY <1>3 DEF Deliver, Install, signal_printer, PrintSignal, SetDefault, Renew, Raise, Return,
                InHandler, sentVars
  <2> QED BY <1>3, <2>1, StopStep, NoStopStep DEF Obeying
<1> QED BY <1>1, <1>2, <1>3 DEF Next

-----------------------------------------------------------------------------
(* The program, its handlers and what the kernel holds for it keep their   *)
(* type; no two handlers that run are of one signal.                       *)
THEOREM LooperTypeCorrect == Spec => []TypeOK
<1>1. LooperInv => TypeOK
  BY DEF LooperInv
<1> QED BY <1>1, LooperInitInv, LooperNextInv, PTL DEF Spec

(* One handler is armed whenever no handler runs, for every order in which *)
(* any number of signals interrupts the handlers.                          *)
THEOREM OneStaysArmed == Spec => []OneIsArmed
<1>1. LooperInv => OneIsArmed
  BY DEF LooperInv, OneIsArmed, RenewComes, TypeOK, Sig
<1> QED BY <1>1, LooperInitInv, LooperNextInv, PTL DEF Spec

(* No step of the program or the kernel loses a SIGINT. *)
THEOREM NoIntIsLost == Spec => [][IntNeverLost]_vars
BY LooperInitInv, LooperNextInv, PTL DEF Spec

(* Signals that do not hurry are obeyed, however many there are: once all  *)
(* is done the program is stopped if a stop was sent last, and is not if a *)
(* continue was.                                                           *)
THEOREM UnhurriedIsObeyed == Spec => []ObeysWhenUnhurried
<1>1. Init => Obeying
  BY DEF Init, Obeying
<1>2. LooperInv /\ Obeying => ObeysWhenUnhurried
  BY EmptySeq DEF LooperInv, Obeying, ObeysWhenUnhurried, StopComes, NoStopComes, AtRest
<1>3. LooperInv /\ Obeying /\ [Next]_vars => LooperInv' /\ Obeying'
  BY LooperNextInv, ObeyingStep
<1> QED BY <1>1, <1>2, <1>3, LooperInitInv, PTL DEF Spec

-----------------------------------------------------------------------------
(***************************************************************************)
(* TextFilters.                                                            *)
(***************************************************************************)

Byte == 0 .. 255
Contents == Seq(Byte)

(* What the proofs ask of the constants. *)
Bytes ==
  /\ Text \subseteq Contents /\ Key \subseteq Contents
  /\ Absent \notin Contents /\ Directory \notin Contents
  /\ Nowhere \notin File

LEMMA BytesHold == Bytes
BY TextFiltersAssumption DEF TextFiltersAssumption, Bytes, Contents, Byte

-----------------------------------------------------------------------------
(* The inductive invariant.                                                *)

TypeInv ==
  /\ dir \in [Name -> Contents \cup {Absent, Directory}] /\ dir[Nowhere] = Absent
  /\ version \in Encoders \cup Filters
  /\ at \in {"shell", "options", "copy", "ended"}
  /\ fin \in [file : Name, pos : Nat]
  /\ fout \in Name
  /\ encription_mode \in {-1, 0, 1}
  /\ version \in Filters => encription_mode = 0
  /\ key \in Contents
  /\ encription_mode # 0 => enc \in 1 .. Len(key)
  /\ failed \in BOOLEAN
  /\ coded \in [Name -> {None} \cup [text : Contents, key : Contents]]

(* A program whose option failed ends, and two of them return a failure;   *)
(* only the first warmup goes on.                                          *)
Told ==
  failed =>
    /\ at \in {"options", "copy"} => version = "task1b_warmup1"
    /\ version \in {"encoder", "task1b_warmup2"} => exit_code # 0

(* Where a program that goes on, failed or not, reads and writes. *)
Streams ==
  at \in {"options", "copy"} =>
    /\ IF fout = Nowhere THEN failed ELSE IsText(fout) /\ coded[fout] = None
    /\ IsText(fin.file) => fin.pos <= Len(dir[fin.file])
    /\ at = "options" => fin.pos = 0

(* Until the stream is copied nothing is read and the output is empty. *)
Ready ==
  at = "options" /\ ~failed =>
    fin.pos = 0 /\ dir[fout] = <<>> /\ coded[fout] = None /\ (encription_mode # 0 => enc = 1)

(* The character of the key that is next is the one the line asks for. *)
KeyIsAtLine ==
  encription_mode # 0 =>
    \A j \in 0 .. fin.pos :
      InLine(dir[fin.file], j, fin.pos + 1) => enc = ((fin.pos - j) % Len(key)) + 1

(* What was read is translated.  A file that is copied on itself is empty. *)
Copying ==
  at = "copy" /\ ~failed =>
    /\ IsText(fout) /\ coded[fout] = None
    /\ fin.file = fout => dir[fout] = <<>>
    /\ IF IsText(fin.file)
       THEN /\ fin.pos = Len(dir[fout])
            /\ Translates(dir[fout], dir[fin.file])
            /\ KeyIsAtLine
       ELSE dir[fout] = <<>>

Done ==
  at = "ended" /\ ~failed =>
    /\ IsText(fout)
    /\ IF IsText(fin.file) THEN IsTranslation(dir[fout], dir[fin.file]) ELSE dir[fout] = <<>>

(* t is what a run with +e made of s. *)
Encoded(t, s, k) ==
  /\ Len(t) <= Len(s)
  /\ \A i \in 1 .. Len(t) : Codes(t[i], s, i, 1, k)
  /\ Len(t) < Len(s) => s[Len(t) + 1] = EofByte

Provenance ==
  \A f \in Name : coded[f] # None =>
    IsText(f) /\ Encoded(dir[f], coded[f].text, coded[f].key)

FilterInv == TypeInv /\ Told /\ Streams /\ Ready /\ Copying /\ Done /\ Provenance

-----------------------------------------------------------------------------
(* Arithmetic.                                                             *)

LEMMA Division ==
  ASSUME NEW m \in Nat \ {0}, NEW n \in Nat
  PROVE  n = m * (n \div m) + (n % m) /\ n \div m \in Nat /\ n % m \in 0 .. m - 1
OBVIOUS

LEMMA Remainder ==
  ASSUME NEW m \in Nat \ {0}, NEW q \in Nat, NEW r \in 0 .. m - 1
  PROVE  (m * q + r) % m = r
OBVIOUS

(* The key goes round. *)
LEMMA NextRemainder ==
  ASSUME NEW m \in Nat \ {0}, NEW n \in Nat
  PROVE  ((n % m) + 1) % m = (n + 1) % m
<1> DEFINE q == n \div m
           r == n % m
<1>1. n = m * q + r /\ q \in Nat /\ r \in 0 .. m - 1
  BY Division
<1> HIDE DEF q, r
<1>2. CASE r + 1 < m
  <2>1. r + 1 \in 0 .. m - 1 /\ n + 1 = m * q + (r + 1) /\ r + 1 = m * 0 + (r + 1)
    BY <1>1, <1>2
  <2>2. (m * q + (r + 1)) % m = r + 1
    BY <1>1, <2>1, Remainder
  <2>3. (m * 0 + (r + 1)) % m = r + 1
    BY <2>1, Remainder
  <2> QED BY <2>1, <2>2, <2>3 DEF r
<1>3. CASE r + 1 = m
  <2>1. 0 \in 0 .. m - 1 /\ n + 1 = m * (q + 1) + 0 /\ r + 1 = m * 1 + 0 /\ q + 1 \in Nat
    BY <1>1, <1>3
  <2>2. (m * (q + 1) + 0) % m = 0
    BY <2>1, Remainder
  <2>3. (m * 1 + 0) % m = 0
    BY <2>1, Remainder
  <2> QED BY <2>1, <2>2, <2>3 DEF r
<1> QED BY <1>1, <1>2, <1>3

(* -e takes back what +e added, and a digit moves no printable character to *)
(* one that is treated otherwise.                                           *)
LEMMA ShiftsBack ==
  ASSUME NEW c \in Byte, NEW k \in Digit
  PROVE  Shifted(Shifted(c, 1, k), -1, k) = c
BY DEF Byte, Digit, Shifted

LEMMA ShiftedPrintable ==
  ASSUME NEW c \in Printable, NEW k \in Digit
  PROVE  Shifted(c, 1, k) \notin {Newline, EofByte}
BY DEF Printable, Digit, Shifted, Newline, EofByte

LEMMA ShiftedType ==
  ASSUME NEW c \in Byte, NEW mode \in {-1, 1}, NEW k \in Byte
  PROVE  Shifted(c, mode, k) \in Byte
BY DEF Byte, Shifted

-----------------------------------------------------------------------------
(* Lines.                                                                  *)

(* Each character is in a line. *)
LEMMA LineExists ==
  ASSUME NEW s, NEW i \in Nat \ {0}
  PROVE  \E j \in 0 .. i - 1 : InLine(s, j, i)
<1> DEFINE T == {d \in Nat : d <= i - 1 /\ (d = i - 1 \/ s[i - 1 - d] = Newline)}
<1>1. T \subseteq Nat /\ i - 1 \in T
  OBVIOUS
<1>2. PICK d \in T : \A e \in T : d <= e
  <2> DEFINE Less == OpToRel(<, Nat)
  <2>1. IsWellFoundedOn(Less, Nat)
    BY NatLessThanWellFounded
  <2>2. \A x, y \in Nat : x < y => <<x, y>> \in Less
    BY Zenon DEF OpToRel
  <2> HIDE DEF Less
  <2>3. PICK d \in T : \A e \in T : ~ (<<e, d>> \in Less)
    <3> HIDE DEF T
    <3> QED BY <1>1, <2>1, WFMin
  <2>4. d \in Nat /\ T \subseteq Nat
    OBVIOUS
  <2>5. \A e \in T : d <= e
    <3> HIDE DEF T
    <3>1. \A e \in T : e \in Nat /\ ~ (e < d)
      BY <2>2, <2>3, <2>4
    <3> QED BY <2>4, <3>1
  <2> QED BY <2>5
<1>3. i - 1 - d \in 0 .. i - 1 /\ (i - 1 - d = 0 \/ s[i - 1 - d] = Newline)
  BY <1>1
<1>4. \A h \in i - d .. i - 1 : s[h] # Newline
  <2> SUFFICES ASSUME NEW h \in i - d .. i - 1, s[h] = Newline PROVE FALSE
    BY <1>1
  <2>1. i - 1 - h \in Nat /\ i - 1 - h <= i - 1 /\ i - 1 - (i - 1 - h) = h /\ i - 1 - h < d
    BY <1>1
  <2>2. i - 1 - h \in T
    BY <2>1
  <2> QED BY <1>1, <1>2, <2>1, <2>2
<1>5. InLine(s, i - 1 - d, i)
  BY <1>1, <1>3, <1>4 DEF InLine
<1> QED BY <1>3, <1>5

(* A line goes on with the next character unless this one ends it. *)
LEMMA LineGoesOn ==
  ASSUME NEW s, NEW i \in Nat \ {0}, NEW j \in 0 .. i, InLine(s, j, i + 1)
  PROVE  /\ s[i] = Newline => j = i
         /\ s[i] # Newline => j \in 0 .. i - 1 /\ InLine(s, j, i)
BY DEF InLine

(* One more character is translated. *)
LEMMA OneMore ==
  ASSUME NEW t \in Contents, NEW s \in Contents, NEW c \in Byte,
         Translates(t, s), Len(t) < Len(s), IsRead(s[Len(t) + 1]),
         Codes(c, s, Len(t) + 1, encription_mode, key)
  PROVE  Append(t, c) \in Contents /\ Translates(Append(t, c), s)
<1> DEFINE u == Append(t, c)
<1>1. u \in Contents /\ Len(u) = Len(t) + 1 /\ u[Len(t) + 1] = c
      /\ \A i \in 1 .. Len(t) : u[i] = t[i]
  BY DEF Contents
<1>2. Len(t) \in Nat /\ Len(s) \in Nat
  BY DEF Contents
<1> HIDE DEF u
<1>3. \A i \in 1 .. Len(u) : IsRead(s[i]) /\ Codes(u[i], s, i, encription_mode, key)
  <2> SUFFICES ASSUME NEW i \in 1 .. Len(u)
               PROVE  IsRead(s[i]) /\ Codes(u[i], s, i, encription_mode, key)
    OBVIOUS
  <2>1. CASE i = Len(t) + 1
    BY <1>1, <2>1
  <2>2. CASE i \in 1 .. Len(t)
    BY <1>1, <2>2 DEF Translates
  <2> QED BY <1>1, <1>2, <2>1, <2>2
<1> QED BY <1>1, <1>2, <1>3 DEF Translates, u

-----------------------------------------------------------------------------
(* FilterInit and the steps.                                                     *)

LEMMA Names ==
  /\ Stdin \in Name /\ Stdout \in Name /\ Nowhere \in Name /\ File \subseteq Name
  /\ Stdin # Stdout /\ Stdout # Nowhere
BY DEF Name, Stdin, Stdout, Nowhere

LEMMA EmptyText == ASSUME Bytes PROVE <<>> \in Contents /\ <<>> \notin {Absent, Directory}
<1>1. <<>> \in Contents
  BY DEF Contents
<1>2. Absent \notin Contents /\ Directory \notin Contents
  BY DEF Bytes
<1> QED BY <1>1, <1>2

LEMMA FilterInitInv == ASSUME Bytes, FilterInit PROVE FilterInv
<1>1. TypeInv
  BY Names, EmptyText DEF Bytes, FilterInit, TypeInv, Encoders, Filters, Contents
<1>2. Provenance
  BY DEF FilterInit, Provenance
<1> QED BY <1>1, <1>2 DEF FilterInit, FilterInv, Told, Streams, Ready, Copying, Done

LEMMA RunInv ==
  ASSUME Bytes, FilterInv, NEW v \in Encoders \cup Filters, Run(v)
  PROVE  FilterInv'
<1>1. TypeInv'
  BY Names, EmptyText DEF FilterInv, TypeInv, Run, Contents
<1>2. Ready'
  BY Names DEF FilterInv, TypeInv, Ready, Run
<1>3. Provenance'
  BY Names DEF FilterInv, TypeInv, Provenance, Run, IsText
<1>4. Streams'
  <2>1. dir'[Stdout] = <<>> /\ coded'[Stdout] = None /\ fout' = Stdout /\ Stdout # Nowhere
        /\ fin'.pos = 0 /\ fin'.file \in Name /\ dir' \in [Name -> Contents \cup {Absent, Directory}]
    BY <1>1, Names DEF Run, FilterInv, TypeInv
  <2>2. IsText(Stdout)'
    BY <2>1, EmptyText DEF IsText
  <2>3. IsText(fin.file)' => 0 <= Len(dir'[fin'.file])
    BY <2>1 DEF IsText, Contents
  <2> QED BY <2>1, <2>2, <2>3 DEF Streams
<1> QED BY <1>1, <1>2, <1>3, <1>4 DEF FilterInv, Told, Copying, Done, Run

LEMMA FailsInv ==
  ASSUME FilterInv, at = "options", NEW status \in Nat,
         version \in {"encoder", "task1b_warmup2"} => status # 0,
         OptionFails(status), UNCHANGED version
  PROVE  FilterInv'
<1>1. TypeInv'
  BY DEF FilterInv, TypeInv, OptionFails, streams, coder
<1>2. Provenance'
  BY DEF FilterInv, Provenance, OptionFails, IsText
<1> QED BY <1>1, <1>2 DEF FilterInv, Told, Streams, Ready, Copying, Done, OptionFails

LEMMA OpensOutputInv ==
  ASSUME Bytes, FilterInv, at = "options", NEW f \in File, OpensOutput(f), UNCHANGED version
  PROVE  FilterInv'
<1>1. /\ dir' = [dir EXCEPT ![f] = <<>>] /\ coded' = [coded EXCEPT ![f] = None] /\ fout' = f
      /\ UNCHANGED <<fin, encription_mode, key, enc, at, failed, exit_code>>
  BY DEF OpensOutput, coder, result
<1>2. f \in Name /\ f # Nowhere
  BY Names DEF Bytes
<1>3. TypeInv'
  BY <1>1, <1>2, EmptyText DEF FilterInv, TypeInv
<1>4. Ready'
  BY <1>1, <1>2 DEF FilterInv, TypeInv, Ready
<1>5. Provenance'
  BY <1>1, <1>2 DEF FilterInv, TypeInv, Provenance, IsText
<1>6. Streams'
  <2>1. dir'[f] = <<>> /\ coded'[f] = None
    BY <1>1, <1>2 DEF FilterInv, TypeInv
  <2>2. IsText(fout)'
    BY <1>1, <2>1, EmptyText DEF IsText
  <2>3. fin'.pos = 0 /\ fin'.file \in Name /\ dir' \in [Name -> Contents \cup {Absent, Directory}]
    BY <1>1, <1>3 DEF FilterInv, Streams, TypeInv
  <2>4. IsText(fin.file)' => 0 <= Len(dir'[fin'.file])
    BY <2>3 DEF IsText, Contents
  <2> QED BY <1>1, <1>2, <2>1, <2>2, <2>3, <2>4 DEF Streams
<1> QED BY <1>1, <1>3, <1>4, <1>5, <1>6 DEF FilterInv, Told, Copying, Done

LEMMA OpensInputInv ==
  ASSUME Bytes, FilterInv, at = "options", NEW f \in File, OpensInput(f), UNCHANGED version
  PROVE  FilterInv'
<1>1. /\ fin' = [file |-> f, pos |-> 0]
      /\ UNCHANGED <<dir, coded, fout, encription_mode, key, enc, at, failed, exit_code>>
  BY DEF OpensInput, coder, result
<1>2. TypeInv'
  BY <1>1, Names DEF FilterInv, TypeInv
<1>3. Provenance'
  BY <1>1 DEF FilterInv, Provenance, IsText
<1>4. Streams'
  <2>1. IsText(f) => 0 <= Len(dir[f])
    BY Names DEF FilterInv, TypeInv, IsText, Contents
  <2> QED BY <1>1, <2>1 DEF FilterInv, Streams, IsText
<1> QED BY <1>1, <1>2, <1>3, <1>4 DEF FilterInv, Told, Ready, Copying, Done

(* A stream that open did not give is read and written by a program of     *)
(* which it is known.                                                      *)
LEMMA NowhereInv ==
  ASSUME Bytes, FilterInv, at = "options", version = "task1b_warmup1", UNCHANGED version,
         NEW f \in File, InputNowhere(f) \/ OutputNowhere(f)
  PROVE  FilterInv'
<1>1. /\ failed' = TRUE
      /\ UNCHANGED <<dir, coded, encription_mode, key, enc, at, exit_code>>
      /\ \/ fin' = [file |-> Nowhere, pos |-> 0] /\ fout' = fout
         \/ fin' = fin /\ fout' = Nowhere
  BY DEF InputNowhere, OutputNowhere, coder
<1>2. TypeInv'
  BY <1>1, Names DEF FilterInv, TypeInv
<1>3. Provenance'
  BY <1>1 DEF FilterInv, Provenance, IsText
<1>4. Streams'
  <2>1. ~IsText(Nowhere)
    BY DEF FilterInv, TypeInv, IsText
  <2> QED BY <1>1, <2>1 DEF FilterInv, Streams, IsText
<1> QED BY <1>1, <1>2, <1>3, <1>4 DEF FilterInv, Told, Ready, Copying, Done

LEMMA OpenOutputInv ==
  ASSUME Bytes, FilterInv, at = "options", NEW f \in File, NEW status \in Nat,
         version \in {"encoder", "task1b_warmup2"} => status # 0,
         OpenOutput(f, status), UNCHANGED version
  PROVE  FilterInv'
BY FailsInv, OpensOutputInv DEF OpenOutput

LEMMA OpenInputInv ==
  ASSUME Bytes, FilterInv, at = "options", NEW f \in File, NEW status \in Nat,
         version \in {"encoder", "task1b_warmup2"} => status # 0,
         OpenInput(f, status), UNCHANGED version
  PROVE  FilterInv'
BY FailsInv, OpensInputInv DEF OpenInput

LEMMA SetKeyInv ==
  ASSUME FilterInv, at = "options", version \in Encoders, UNCHANGED version,
         NEW mode \in {-1, 1}, NEW k \in Contents, k # <<>>, SetKey(mode, k)
  PROVE  FilterInv'
<1>1. TypeInv'
  <2>1. Len(k) \in Nat /\ Len(k) # 0
    BY DEF Contents
  <2>2. version \notin Filters
    BY DEF Encoders, Filters
  <2> QED BY <2>1, <2>2 DEF FilterInv, TypeInv, SetKey, streams, result
<1>2. Provenance'
  BY DEF FilterInv, Provenance, SetKey, IsText
<1> QED BY <1>1, <1>2 DEF FilterInv, Told, Streams, Ready, Copying, Done, SetKey, streams, result, IsText

LEMMA OptionInv == ASSUME Bytes, FilterInv, Option PROVE FilterInv'
<1>0. {0, 1, 2, 3} \subseteq Nat /\ \A status \in {1, 2, 3} : status # 0
  OBVIOUS
<1>1. at = "options" /\ UNCHANGED version
  BY DEF Option
<1>2. CASE EncoderOption
  <2>1. version = "encoder" /\ version \in Encoders
    BY <1>2 DEF EncoderOption, Encoders
  <2>2. ASSUME NEW f \in File, OpenOutput(f, 1) PROVE FilterInv'
    BY <1>0, <1>1, <2>2, OpenOutputInv
  <2>3. ASSUME NEW f \in File, OpenInput(f, 2) PROVE FilterInv'
    BY <1>0, <1>1, <2>3, OpenInputInv
  <2>4. ASSUME NEW mode \in {-1, 1}, NEW k \in Key,
               IF ValidKey(k) THEN SetKey(mode, k) ELSE OptionFails(3)
        PROVE  FilterInv'
    <3>1. CASE ValidKey(k)
      <4>1. k \in Contents /\ k # <<>> /\ SetKey(mode, k)
        BY <2>4, <3>1 DEF ValidKey, Bytes
      <4> QED BY <1>0, <1>1, <2>1, <4>1, SetKeyInv
    <3>2. CASE ~ ValidKey(k)
      <4>1. OptionFails(3)
        BY <2>4, <3>2
      <4> QED BY <1>0, <1>1, <4>1, FailsInv
    <3> QED BY <3>1, <3>2
  <2> QED BY <1>2, <2>2, <2>3, <2>4 DEF EncoderOption
<1>3. CASE StageOption
  <2>1. version \in {"encoder2", "encoder1d"} /\ version \in Encoders
    BY <1>3 DEF StageOption, Encoders
  <2>2. ASSUME NEW f \in File, OpenOutput(f, 0) PROVE FilterInv'
    BY <1>0, <1>1, <2>1, <2>2, OpenOutputInv
  <2>3. ASSUME NEW mode \in {-1, 1}, NEW k \in Key, NEW l \in StageKey(k), SetKey(mode, l)
        PROVE  FilterInv'
    <3>1. l \in Contents /\ l # <<>>
      <4>1. k \in Seq(Byte) /\ \A m \in Key : m \in Seq(Byte)
        BY DEF Bytes, Contents
      <4>2. CASE k # <<>>
        BY <4>1, <4>2 DEF StageKey, Contents
      <4>3. CASE k = <<>>
        <5>1. PICK m \in Key : l = <<0>> \o m
          BY <4>3 DEF StageKey
        <5>2. m \in Seq(Byte) /\ <<0>> \in Seq(Byte) /\ Len(<<0>>) = 1
          BY <4>1 DEF Byte
        <5>3. l \in Seq(Byte) /\ Len(l) = 1 + Len(m) /\ Len(m) \in Nat
          BY <5>1, <5>2
        <5> QED BY <5>3 DEF Contents
      <4> QED BY <4>2, <4>3
    <3> QED BY <1>0, <1>1, <2>1, <2>3, <3>1, SetKeyInv
  <2> QED BY <1>3, <2>2, <2>3 DEF StageOption
<1>4. CASE StageInput
  <2>1. version = "encoder2"
    BY <1>4 DEF StageInput
  <2>2. PICK f \in File : OpenInput(f, 0)
    BY <1>4 DEF StageInput
  <2> QED BY <1>0, <1>1, <2>1, <2>2, OpenInputInv
<1>5. CASE FilterOption
  <2>1. version = "task1b"
    BY <1>5 DEF FilterOption
  <2>2. PICK f \in File : OpenInput(f, 0) \/ OpenOutput(f, 0)
    BY <1>5 DEF FilterOption
  <2>3. CASE OpenInput(f, 0)
    BY <1>0, <1>1, <2>1, <2>3, OpenInputInv
  <2>4. CASE OpenOutput(f, 0)
    BY <1>0, <1>1, <2>1, <2>4, OpenOutputInv
  <2> QED BY <2>2, <2>3, <2>4
<1>6. CASE Warmup2Option
  <2>1. PICK f \in File : OpenInput(f, 2) \/ OpenOutput(f, 3)
    BY <1>6 DEF Warmup2Option
  <2>2. CASE OpenInput(f, 2)
    BY <1>0, <1>1, <2>2, OpenInputInv
  <2>3. CASE OpenOutput(f, 3)
    BY <1>0, <1>1, <2>3, OpenOutputInv
  <2> QED BY <2>1, <2>2, <2>3
<1>7. CASE Warmup1Option
  <2>1. PICK f \in File :
          OpensInput(f) \/ InputNowhere(f) \/ OpensOutput(f) \/ OutputNowhere(f)
    BY <1>7 DEF Warmup1Option
  <2>2. version = "task1b_warmup1"
    BY <1>7 DEF Warmup1Option
  <2>3. CASE OpensInput(f)
    BY <1>1, <2>3, OpensInputInv
  <2>4. CASE OpensOutput(f)
    BY <1>1, <2>4, OpensOutputInv
  <2>5. CASE InputNowhere(f) \/ OutputNowhere(f)
    BY <1>1, <2>2, <2>5, NowhereInv
  <2> QED BY <2>1, <2>3, <2>4, <2>5
<1> QED BY <1>2, <1>3, <1>4, <1>5, <1>6, <1>7 DEF Option

LEMMA EndOfOptionsInv == ASSUME Bytes, FilterInv, EndOfOptions PROVE FilterInv'
<1>1. /\ at = "options" /\ at' = "copy"
      /\ UNCHANGED <<dir, coded, version, fin, fout, encription_mode, key, enc, failed, exit_code>>
  BY DEF EndOfOptions, streams, coder, result
<1>2. TypeInv'
  BY <1>1 DEF FilterInv, TypeInv
<1>3. Copying'
  <2> SUFFICES ASSUME ~failed PROVE Copying'
    BY <1>1 DEF Copying
  <2>1. fin.pos = 0 /\ dir[fout] = <<>> /\ coded[fout] = None /\ (encription_mode # 0 => enc = 1)
    BY <1>1 DEF FilterInv, Ready
  <2>2. IsText(fout)
    BY <2>1, EmptyText DEF IsText
  <2>3. IsText(fin.file) => Translates(dir[fout], dir[fin.file])
    <3>1. IsText(fin.file) => dir[fin.file] \in Contents
      BY DEF FilterInv, TypeInv, IsText
    <3>2. Len(<<>>) = 0 /\ 1 .. 0 = {}
      OBVIOUS
    <3> QED BY <2>1, <3>1, <3>2 DEF Translates, Contents
  <2>4. KeyIsAtLine
    <3> SUFFICES ASSUME encription_mode # 0, NEW j \in 0 .. fin.pos
                 PROVE  enc = ((fin.pos - j) % Len(key)) + 1
      BY DEF KeyIsAtLine
    <3>1. Len(key) \in Nat \ {0}
      BY DEF FilterInv, TypeInv, Contents
    <3>2. fin.pos - j = Len(key) * 0 + 0 /\ 0 \in 0 .. Len(key) - 1
      BY <2>1, <3>1
    <3>3. (Len(key) * 0 + 0) % Len(key) = 0
      BY <3>1, <3>2, Remainder
    <3> QED BY <2>1, <3>2, <3>3
  <2> QED BY <1>1, <2>1, <2>2, <2>3, <2>4
    DEF Copying, IsText, Translates, Codes, IsRead, KeyIsAtLine, InLine
<1>4. Provenance'
  BY <1>1 DEF FilterInv, Provenance, IsText
<1>5. Streams'
  BY <1>1 DEF FilterInv, Streams, IsText
<1> QED BY <1>1, <1>2, <1>3, <1>4, <1>5 DEF FilterInv, Told, Ready, Done

-----------------------------------------------------------------------------
(* Copying.                                                                *)

(* While there is a character to read, the output is another file. *)
LEMMA Sources ==
  ASSUME Bytes, FilterInv, at = "copy", ~failed, ~AtEnd
  PROVE  /\ IsText(fin.file) /\ dir[fin.file] \in Contents /\ dir[fout] \in Contents
         /\ fin.file \in Name /\ fout \in Name /\ fin.file # fout
         /\ fin.pos = Len(dir[fout]) /\ fin.pos < Len(dir[fin.file]) /\ fin.pos \in Nat
         /\ Char \in Byte /\ Char = dir[fin.file][fin.pos + 1]
<1>1. IsText(fin.file) /\ fin.pos # Len(dir[fin.file])
  BY DEF AtEnd
<1>2. fin.file \in Name /\ fout \in Name /\ fin.pos \in Nat
  BY DEF FilterInv, TypeInv
<1>3. dir[fin.file] \in Contents /\ dir[fout] \in Contents
  BY <1>1, <1>2 DEF FilterInv, TypeInv, Copying, IsText
<1>4. fin.pos = Len(dir[fout]) /\ Len(dir[fout]) <= Len(dir[fin.file])
  BY <1>1 DEF FilterInv, Copying, Translates
<1>5. Len(dir[fin.file]) \in Nat /\ fin.pos < Len(dir[fin.file])
  BY <1>1, <1>2, <1>3, <1>4 DEF Contents
<1>6. fin.file # fout
  BY <1>1, <1>4
<1>7. Char \in Byte /\ Char = dir[fin.file][fin.pos + 1]
  BY <1>2, <1>3, <1>5 DEF Char, Contents
<1> QED BY <1>1, <1>2, <1>3, <1>4, <1>5, <1>6, <1>7

LEMMA UpperCaseOf ==
  ASSUME NEW c \in Byte
  PROVE  UpperCase(c) \in Byte /\ (c = Newline => UpperCase(c) = Newline)
  BY DEF UpperCase, Byte, Newline

(* A character that is written as its line and the key ask for. *)
LEMMA PutInv ==
  ASSUME Bytes, FilterInv, at = "copy", ~failed, ~AtEnd,
         NEW c \in Byte, Put(c), IsRead(Char),
         Codes(c, dir[fin.file], fin.pos + 1, encription_mode, key),
         encription_mode # 0 => enc' = IF Char = Newline THEN 1 ELSE (enc % Len(key)) + 1,
         UNCHANGED <<coded, version, at, fout, encription_mode, key, failed, exit_code>>
  PROVE  FilterInv'
<1> DEFINE s == dir[fin.file]
           t == dir[fout]
<1>1. /\ IsText(fin.file) /\ s \in Contents /\ t \in Contents
      /\ fin.file \in Name /\ fout \in Name /\ fin.file # fout
      /\ fin.pos = Len(t) /\ fin.pos < Len(s) /\ fin.pos \in Nat
      /\ Char = s[fin.pos + 1]
  BY Sources
<1>2. /\ dir' = [dir EXCEPT ![fout] = Append(t, c)]
      /\ fin' \in [file : Name, pos : Nat] /\ fin'.file = fin.file /\ fin'.pos = fin.pos + 1
  BY <1>1 DEF Put, FilterInv, TypeInv, Streams
<1>3. Translates(t, s) /\ KeyIsAtLine /\ ~failed /\ coded[fout] = None
  BY <1>1 DEF FilterInv, Copying
<1>4. Append(t, c) \in Contents /\ Translates(Append(t, c), s)
  <2> HIDE DEF s, t
  <2>1. Len(t) < Len(s) /\ IsRead(s[Len(t) + 1]) /\ Codes(c, s, Len(t) + 1, encription_mode, key)
    BY <1>1 DEF s
  <2>2. Append(t, c) \in Contents
    BY <1>1, <1>3, <2>1, OneMore
  <2>3. Translates(Append(t, c), s)
    BY <1>1, <1>3, <2>1, OneMore
  <2> QED BY <2>2, <2>3
<1>5. dir'[fout] = Append(t, c) /\ dir'[fin.file] = s
      /\ \A f \in Name : f # fout => dir'[f] = dir[f]
  BY <1>1, <1>2 DEF FilterInv, TypeInv
<1>6. encription_mode # 0 => enc \in 1 .. Len(key) /\ enc' \in 1 .. Len(key) /\ Len(key) \in Nat \ {0}
  <2> SUFFICES ASSUME encription_mode # 0
               PROVE  enc \in 1 .. Len(key) /\ enc' \in 1 .. Len(key) /\ Len(key) \in Nat \ {0}
    OBVIOUS
  <2>1. enc \in 1 .. Len(key) /\ Len(key) \in Nat \ {0}
    BY DEF FilterInv, TypeInv, Contents
  <2>2. enc % Len(key) \in 0 .. Len(key) - 1
    BY <2>1, Division
  <2>3. enc' = 1 \/ enc' = (enc % Len(key)) + 1
    OBVIOUS
  <2> QED BY <2>1, <2>2, <2>3
<1>7. TypeInv'
  <2>1. fout # Nowhere
    BY DEF FilterInv, Streams
  <2> QED BY <1>1, <1>2, <1>4, <1>5, <1>6, <2>1, Names DEF FilterInv, TypeInv
<1>8. KeyIsAtLine'
  <2> HIDE DEF s, t
  <2> SUFFICES ASSUME encription_mode' # 0, NEW j \in 0 .. fin'.pos,
                      InLine(dir'[fin'.file], j, fin'.pos + 1)
               PROVE  enc' = ((fin'.pos - j) % Len(key')) + 1
    BY DEF KeyIsAtLine, InLine
  <2>0. /\ encription_mode # 0 /\ key' = key /\ fin'.pos = fin.pos + 1
        /\ dir'[fin'.file] = s /\ j \in 0 .. fin.pos + 1
    BY <1>2, <1>5
  <2>1. fin.pos + 1 \in Nat \ {0} /\ InLine(s, j, (fin.pos + 1) + 1)
    BY <1>1, <2>0
  <2> SUFFICES enc' = ((fin.pos + 1 - j) % Len(key)) + 1
    <3>1. fin'.pos - j = fin.pos + 1 - j
      BY <1>1, <2>0
    <3> QED BY <2>0, <3>1, Zenon
  <2>2. /\ s[fin.pos + 1] = Newline => j = fin.pos + 1
        /\ s[fin.pos + 1] # Newline => j \in 0 .. fin.pos /\ InLine(s, j, fin.pos + 1)
    <3> DEFINE n == fin.pos + 1
    <3>1. n \in Nat \ {0} /\ j \in 0 .. n /\ InLine(s, j, n + 1)
      BY <2>0, <2>1
    <3> HIDE DEF n
    <3>2. s[n] = Newline => j = n
      BY <3>1, LineGoesOn
    <3>3. s[n] # Newline => j \in 0 .. n - 1 /\ InLine(s, j, n)
      BY <3>1, LineGoesOn
    <3> QED BY <1>1, <3>2, <3>3 DEF n
  <2>3. CASE Char = Newline
    <3>1. enc' = 1 /\ fin.pos + 1 - j = Len(key) * 0 + 0 /\ 0 \in 0 .. Len(key) - 1
      BY <1>1, <1>6, <2>0, <2>2, <2>3
    <3>2. (Len(key) * 0 + 0) % Len(key) = 0
      BY <1>6, <3>1, Remainder
    <3> QED BY <3>1, <3>2
  <2>4. CASE Char # Newline
    <3>1. j \in 0 .. fin.pos /\ enc = ((fin.pos - j) % Len(key)) + 1
      BY <1>1, <1>3, <2>0, <2>2, <2>4 DEF KeyIsAtLine, s
    <3>2. fin.pos - j \in Nat /\ (fin.pos - j) + 1 = fin.pos + 1 - j
      BY <1>1, <3>1
    <3>3. (((fin.pos - j) % Len(key)) + 1) % Len(key) = ((fin.pos - j) + 1) % Len(key)
      BY <1>6, <3>2, NextRemainder
    <3>4. enc' = (enc % Len(key)) + 1
      BY <2>0, <2>4
    <3> QED BY <3>1, <3>2, <3>3, <3>4
  <2> QED BY <2>3, <2>4
<1>9. Copying'
  <2>1. IsText(fout)'
    BY <1>4, <1>5 DEF IsText, Bytes
  <2>2. IsText(fin.file)' /\ Len(Append(t, c)) = fin.pos + 1
    BY <1>1, <1>2, <1>5 DEF IsText, Contents
  <2>3. Translates(dir[fout], dir[fin.file])'
    <3> DEFINE u == Append(t, c)
    <3>1. dir'[fout'] = u /\ dir'[fin'.file] = s /\ Translates(u, s)
      BY <1>2, <1>4, <1>5
    <3> HIDE DEF s, u
    <3> QED BY <3>1 DEF Translates, Codes, IsRead, InLine
  <2> QED BY <1>1, <1>2, <1>3, <1>5, <1>8, <2>1, <2>2, <2>3 DEF Copying
<1>10. Provenance'
  BY <1>3, <1>5 DEF FilterInv, Provenance, IsText
<1>11. Streams'
  <2>1. IsText(fout)'
    BY <1>4, <1>5 DEF IsText, Bytes
  <2>2. fin'.pos <= Len(dir'[fin'.file])
    BY <1>1, <1>2, <1>5 DEF Contents
  <2>3. fout' # Nowhere /\ coded'[fout'] = None
    BY <1>3 DEF FilterInv, Streams
  <2> QED BY <2>1, <2>2, <2>3 DEF Streams
<1> QED BY <1>7, <1>9, <1>10, <1>11 DEF FilterInv, Told, Ready, Done

(* Of what the first warmup copies after an option failed, no more is      *)
(* known than that it is a text, if it is anywhere.                        *)
LEMMA FailedPutInv ==
  ASSUME Bytes, FilterInv, at = "copy", failed, ~AtEnd, version \in Filters,
         Put(UpperCase(Char)),
         UNCHANGED <<coded, version, at, fout, encription_mode, key, enc, failed, exit_code>>
  PROVE  FilterInv'
<1>1. /\ fin.file \in Name /\ fout \in Name /\ fin.pos \in Nat
      /\ dir \in [Name -> Contents \cup {Absent, Directory}] /\ dir[Nowhere] = Absent
      /\ encription_mode = 0
  BY DEF FilterInv, TypeInv
<1>2. /\ dir[fin.file] \in Contents /\ fin.pos < Len(dir[fin.file])
      /\ Len(dir[fin.file]) \in Nat
  <2>1. IsText(fin.file) /\ fin.pos # Len(dir[fin.file])
    BY DEF AtEnd
  <2>2. dir[fin.file] \in Contents
    BY <1>1, <2>1 DEF IsText
  <2>3. fin.pos <= Len(dir[fin.file])
    BY <2>1 DEF FilterInv, Streams
  <2> QED BY <1>1, <2>1, <2>2, <2>3 DEF Contents
<1> DEFINE c == UpperCase(Char)
<1>3. c \in Byte
  <2>1. Char \in Byte
    BY <1>1, <1>2 DEF Char, Contents
  <2> QED BY <2>1, UpperCaseOf
<1> HIDE DEF c
<1>4. fin' = [fin EXCEPT !.pos = @ + 1]
      /\ dir' = IF fout = Nowhere THEN dir ELSE [dir EXCEPT ![fout] = Append(@, c)]
  BY DEF Put, c
<1>5. fin' \in [file : Name, pos : Nat] /\ fin'.file = fin.file /\ fin'.pos = fin.pos + 1
  BY <1>1, <1>4 DEF FilterInv, TypeInv
<1>6. CASE fout = Nowhere
  <2>1. dir' = dir
    BY <1>4, <1>6
  <2>2. TypeInv'
    BY <1>1, <1>5, <2>1 DEF FilterInv, TypeInv
  <2>3. Provenance'
    BY <2>1 DEF FilterInv, Provenance, IsText
  <2>4. Streams'
    BY <1>1, <1>2, <1>5, <1>6, <2>1 DEF FilterInv, Streams, IsText
  <2> QED BY <2>2, <2>3, <2>4 DEF FilterInv, Told, Ready, Copying, Done
<1>7. CASE fout # Nowhere
  <2> DEFINE t == dir[fout]
  <2>1. t \in Contents /\ coded[fout] = None
    BY <1>1, <1>7 DEF FilterInv, Streams, IsText
  <2>2. Append(t, c) \in Contents /\ Len(Append(t, c)) = Len(t) + 1 /\ Len(t) \in Nat
    BY <1>3, <2>1 DEF Contents
  <2>3. dir' = [dir EXCEPT ![fout] = Append(t, c)]
    BY <1>4, <1>7
  <2> DEFINE u == Append(t, c)
  <2>4. /\ dir'[fout] = u /\ \A f \in Name : f # fout => dir'[f] = dir[f]
        /\ dir' \in [Name -> Contents \cup {Absent, Directory}]
    BY <1>1, <2>2, <2>3
  <2>5. Len(dir'[fin.file]) >= Len(dir[fin.file]) /\ Len(dir'[fin.file]) \in Nat
    <3>1. CASE fin.file = fout
      BY <2>2, <2>4, <3>1
    <3>2. CASE fin.file # fout
      BY <1>1, <1>2, <2>4, <3>2
    <3> QED BY <3>1, <3>2
  <2>6. u \in Contents
    BY <2>2
  <2> HIDE DEF t, u
  <2>7. TypeInv'
    BY <1>1, <1>5, <1>7, <2>4, Names DEF FilterInv, TypeInv
  <2>8. Provenance'
    BY <2>1, <2>4 DEF FilterInv, Provenance, IsText
  <2>9. Streams'
    <3>1. IsText(fout)'
      BY <2>4, <2>6 DEF IsText, Bytes
    <3>2. fin'.pos <= Len(dir'[fin'.file])
      BY <1>1, <1>2, <1>5, <2>5
    <3> QED BY <1>7, <2>1, <3>1, <3>2 DEF FilterInv, Streams
  <2> QED BY <2>7, <2>8, <2>9 DEF FilterInv, Told, Ready, Copying, Done
<1> QED BY <1>6, <1>7

(* At the end of the stream the output is the translation of the input. *)
LEMMA EndInv ==
  ASSUME Bytes, FilterInv, at = "copy", ~failed, NEW status, EndOfStream(status),
         AtEnd \/ (IsText(fin.file) /\ ~IsRead(Char)),
         UNCHANGED <<version, fout, encription_mode, key, failed>>
  PROVE  FilterInv'
<1>1. /\ at' = "ended" /\ exit_code' = status
      /\ UNCHANGED <<dir, version, fin, fout, encription_mode, key, enc>>
  BY DEF EndOfStream
<1>2. fin.file \in Name /\ fout \in Name /\ fin.pos \in Nat
  BY DEF FilterInv, TypeInv
<1>3. IsText(fin.file) =>
        /\ dir[fin.file] \in Contents /\ dir[fout] \in Contents
        /\ IsTranslation(dir[fout], dir[fin.file])
        /\ Len(dir[fout]) < Len(dir[fin.file]) => ~IsRead(dir[fin.file][Len(dir[fout]) + 1])
  <2> SUFFICES ASSUME IsText(fin.file)
               PROVE  /\ dir[fin.file] \in Contents /\ dir[fout] \in Contents
                      /\ Translates(dir[fout], dir[fin.file])
                      /\ Len(dir[fout]) < Len(dir[fin.file]) =>
                           ~IsRead(dir[fin.file][Len(dir[fout]) + 1])
    BY DEF IsTranslation
  <2>1. dir[fin.file] \in Contents /\ dir[fout] \in Contents
    BY <1>2 DEF FilterInv, TypeInv, Copying, IsText
  <2>2. fin.pos = Len(dir[fout]) /\ Translates(dir[fout], dir[fin.file])
    BY DEF FilterInv, Copying
  <2>3. Len(dir[fin.file]) \in Nat /\ Len(dir[fout]) \in Nat
    BY <2>1 DEF Contents
  <2>4. Len(dir[fout]) < Len(dir[fin.file]) => ~IsRead(dir[fin.file][Len(dir[fout]) + 1])
    BY <2>2, <2>3 DEF AtEnd, Char
  <2> QED BY <2>1, <2>2, <2>4
<1>4. coded' = IF encription_mode = 1 /\ IsText(fin.file)
               THEN [coded EXCEPT ![fout] = [text |-> dir[fin.file], key |-> key]] ELSE coded
  BY DEF EndOfStream
<1>5. TypeInv'
  <2>1. coded' \in [Name -> {None} \cup [text : Contents, key : Contents]]
    <3>1. key \in Contents /\ coded \in [Name -> {None} \cup [text : Contents, key : Contents]]
      BY DEF FilterInv, TypeInv
    <3>2. CASE encription_mode = 1 /\ IsText(fin.file)
      <4>1. [text |-> dir[fin.file], key |-> key] \in [text : Contents, key : Contents]
        BY <1>3, <3>1, <3>2
      <4> QED BY <1>2, <1>4, <3>1, <3>2, <4>1
    <3> QED BY <1>4, <3>1, <3>2
  <2> QED BY <1>1, <2>1 DEF FilterInv, TypeInv
<1>6. Done'
  <2>1. IsText(fin.file) => IsTranslation(dir[fout], dir[fin.file])'
    BY <1>1, <1>3 DEF IsTranslation, Translates, Codes, IsRead, InLine
  <2>2. ~IsText(fin.file) => dir[fout] = <<>>
    BY DEF FilterInv, Copying
  <2>3. IsText(fout)
    BY DEF FilterInv, Copying
  <2> QED BY <1>1, <2>1, <2>2, <2>3 DEF Done, IsText
<1>7. Provenance'
  <2>1. CASE encription_mode = 1 /\ IsText(fin.file)
    <3>1. Encoded(dir[fout], dir[fin.file], key)
      BY <1>3, <2>1 DEF IsTranslation, Translates, Encoded, IsRead
    <3>2. IsText(fout)
      BY DEF FilterInv, Copying
    <3>3. \A f \in Name : f # fout => coded'[f] = coded[f]
      BY <1>2, <1>4, <2>1 DEF FilterInv, TypeInv
    <3>4. coded'[fout] = [text |-> dir[fin.file], key |-> key]
      BY <1>2, <1>4, <2>1 DEF FilterInv, TypeInv
    <3>5. ASSUME NEW f \in Name, coded'[f] # None
          PROVE  IsText(f) /\ Encoded(dir[f], coded'[f].text, coded'[f].key)
      <4>1. CASE f = fout
        BY <3>1, <3>2, <3>4, <4>1
      <4>2. CASE f # fout
        BY <3>3, <3>5, <4>2 DEF FilterInv, Provenance
      <4> QED BY <4>1, <4>2
    <3> QED BY <1>1, <3>5 DEF Provenance, IsText
  <2>2. CASE ~ (encription_mode = 1 /\ IsText(fin.file))
    BY <1>1, <1>4, <2>2 DEF FilterInv, Provenance, IsText
  <2> QED BY <2>1, <2>2
<1>8. Told'
  BY <1>1 DEF Told
<1> QED BY <1>1, <1>5, <1>6, <1>7, <1>8 DEF FilterInv, Streams, Ready, Copying

LEMMA FailedEndInv ==
  ASSUME FilterInv, at = "copy", failed, NEW status, EndOfStream(status),
         UNCHANGED <<version, fout, encription_mode, key, failed>>
  PROVE  FilterInv'
<1>1. version = "task1b_warmup1" /\ encription_mode = 0
  BY DEF FilterInv, Told, TypeInv, Filters
<1>2. /\ at' = "ended" /\ exit_code' = status
      /\ UNCHANGED <<dir, coded, fin, enc>>
  BY <1>1 DEF EndOfStream
<1>3. TypeInv'
  BY <1>2 DEF FilterInv, TypeInv
<1>4. Provenance'
  BY <1>2 DEF FilterInv, Provenance, IsText
<1> QED BY <1>1, <1>2, <1>3, <1>4 DEF FilterInv, Told, Streams, Ready, Copying, Done

LEMMA CopyInv == ASSUME Bytes, FilterInv, Copy PROVE FilterInv'
<1>1. at = "copy" /\ UNCHANGED <<version, fout, encription_mode, key>>
  BY DEF Copy
<1>2. Encoders \cap Filters = {} /\ "task1b_warmup1" \in Filters
  BY DEF Encoders, Filters
<1>0. CASE failed
  <2>1. version = "task1b_warmup1" /\ version \in Filters /\ version \notin Encoders
    BY <1>0, <1>1, <1>2 DEF FilterInv, Told
  <2>2. CASE FilterChar
    <3>1. ~AtEnd /\ Put(UpperCase(Char)) /\ UNCHANGED <<coded, at, enc, failed, exit_code>>
      BY <2>2 DEF FilterChar, result
    <3> QED BY <1>0, <1>1, <2>1, <3>1, FailedPutInv
  <2>3. CASE WarmupFilterEnds
    BY <1>0, <1>1, <2>3, FailedEndInv DEF WarmupFilterEnds
  <2> QED BY <2>1, <2>2, <2>3 DEF Copy, EncodeEnds, EncodeChar, FilterEnds
<1> SUFFICES ASSUME ~failed PROVE FilterInv'
  BY <1>0
<1>3. CASE EncodeEnds
  <2>1. EndOfStream(0) /\ failed' = failed
    BY <1>3 DEF EncodeEnds
  <2>2. AtEnd \/ (IsText(fin.file) /\ ~IsRead(Char))
    BY <1>3 DEF EncodeEnds, AtEnd, IsRead
  <2> QED BY <1>1, <2>1, <2>2, EndInv
<1>4. CASE EncodeChar
  <2>1. /\ version \in Encoders /\ ~AtEnd /\ Char # EofByte /\ IsRead(Char)
        /\ UNCHANGED <<coded, at, failed, exit_code>>
    BY <1>4 DEF EncodeChar, IsRead, result
  <2>2. Char \in Byte /\ Char = dir[fin.file][fin.pos + 1] /\ fin.pos \in Nat
    BY <1>1, <2>1, Sources
  <2>3. CASE Char = Newline /\ Put(Newline) /\ enc' = 1
    <3>1. Newline \in Byte /\ Codes(Newline, dir[fin.file], fin.pos + 1, encription_mode, key)
      BY <2>2, <2>3 DEF Codes, Newline, Byte
    <3> QED BY <1>1, <2>1, <2>3, <3>1, PutInv
  <2>4. CASE Char # Newline /\ encription_mode = 0 /\ Put(UpperCase(Char)) /\ UNCHANGED enc
    <3>1. UpperCase(Char) \in Byte
      BY <2>2, UpperCaseOf
    <3>2. Codes(UpperCase(Char), dir[fin.file], fin.pos + 1, encription_mode, key)
      BY <2>2, <2>4 DEF Codes
    <3> QED BY <1>1, <2>1, <2>4, <3>1, <3>2, PutInv
  <2>5. CASE /\ Char # Newline /\ encription_mode # 0
             /\ Put(Shifted(Char, encription_mode, key[enc]))
             /\ enc' = (enc % Len(key)) + 1
    <3> DEFINE c == Shifted(Char, encription_mode, key[enc])
    <3>1. encription_mode \in {-1, 1} /\ key[enc] \in Byte
      BY <2>5 DEF FilterInv, TypeInv, Contents
    <3>2. c \in Byte
      BY <2>2, <3>1, ShiftedType
    <3>3. KeyIsAtLine
      BY <1>1, <2>1, Sources DEF FilterInv, Copying
    <3>4. \A j \in 0 .. fin.pos :
            InLine(dir[fin.file], j, fin.pos + 1) => enc = ((fin.pos - j) % Len(key)) + 1
      BY <2>5, <3>3 DEF KeyIsAtLine
    <3>5. fin.pos + 1 - 1 = fin.pos
      BY <2>2
    <3>6. Codes(c, dir[fin.file], fin.pos + 1, encription_mode, key)
      BY <2>2, <2>5, <3>4, <3>5 DEF Codes
    <3> HIDE DEF c
    <3>7. Put(c)
      BY <2>5 DEF c
    <3> QED BY <1>1, <2>1, <2>5, <3>2, <3>6, <3>7, PutInv
  <2> QED BY <1>4, <2>3, <2>4, <2>5 DEF EncodeChar
<1>5. CASE FilterChar
  <2>1. /\ version \in Filters /\ ~AtEnd /\ Put(UpperCase(Char)) /\ UNCHANGED <<coded, at, failed, exit_code>>
        /\ encription_mode = 0 /\ IsRead(Char)
    BY <1>2, <1>5 DEF FilterChar, result, FilterInv, TypeInv, IsRead
  <2>2. Char \in Byte /\ Char = dir[fin.file][fin.pos + 1]
    BY <1>1, <2>1, Sources
  <2>3. UpperCase(Char) \in Byte /\ (Char = Newline => UpperCase(Char) = Newline)
    BY <2>2, UpperCaseOf
  <2>4. Codes(UpperCase(Char), dir[fin.file], fin.pos + 1, encription_mode, key)
    BY <2>1, <2>2, <2>3 DEF Codes
  <2> QED BY <1>1, <2>1, <2>3, <2>4, PutInv
<1>6. CASE FilterEnds
  BY <1>1, <1>6, EndInv DEF FilterEnds
<1>7. CASE WarmupFilterEnds
  BY <1>1, <1>7, EndInv DEF WarmupFilterEnds
<1> QED BY <1>3, <1>4, <1>5, <1>6, <1>7 DEF Copy

LEMMA FilterNextInv == ASSUME Bytes, FilterInv, [FilterNext]_filterVars PROVE FilterInv'
<1>1. ASSUME NEW v \in Encoders \cup Filters, Run(v) PROVE FilterInv'
  BY <1>1, RunInv
<1>2. CASE Option
  BY <1>2, OptionInv
<1>3. CASE EndOfOptions
  BY <1>3, EndOfOptionsInv
<1>4. CASE Copy
  BY <1>4, CopyInv
<1>5. CASE UNCHANGED filterVars
  BY <1>5 DEF filterVars, streams, coder, result, FilterInv, TypeInv, Told, Streams, Ready, Copying, Done, Provenance,
       KeyIsAtLine, IsText, Translates, IsTranslation, IsRead
<1> QED BY <1>1, <1>2, <1>3, <1>4, <1>5 DEF FilterNext

-----------------------------------------------------------------------------
(* The theorems.                                                           *)

LEMMA InvHolds == FilterSpec => []FilterInv
<1>1. FilterInit => FilterInv
  BY FilterInitInv, BytesHold
<1>2. FilterInv /\ [FilterNext]_filterVars => FilterInv'
  BY FilterNextInv, BytesHold
<1> QED BY <1>1, <1>2, PTL DEF FilterSpec

LEMMA SucceededIsNotFailed == ASSUME FilterInv, Succeeded PROVE at = "ended" /\ ~failed
BY DEF FilterInv, Told, Succeeded

(* A run of any of the six programs that says of nothing that it failed,   *)
(* neither by its exit status nor, where that is 0 after an option failed, *)
(* by a message, has written the translation of its whole input, whatever  *)
(* the options were, in whatever order, and whichever files they named     *)
(* twice.                                                                  *)
THEOREM TranslatesByLine == FilterSpec => []EncodesByLine
<1>1. FilterInv => EncodesByLine
  BY SucceededIsNotFailed DEF FilterInv, Done, EncodesByLine
<1> QED BY <1>1, InvHolds, PTL

(* The character of the key for a place of a line is one of its digits. *)
LEMMA KeyDigit ==
  ASSUME NEW k \in Contents, ValidKey(k), NEW i \in Nat \ {0}, NEW j \in 0 .. i - 1
  PROVE  k[((i - 1 - j) % Len(k)) + 1] \in Digit
<1>1. Len(k) \in Nat \ {0}
  BY DEF ValidKey, Contents
<1>2. i - 1 - j \in Nat
  OBVIOUS
<1>3. (i - 1 - j) % Len(k) \in 0 .. Len(k) - 1
  BY <1>1, <1>2, Division
<1>4. ((i - 1 - j) % Len(k)) + 1 \in DOMAIN k
  BY <1>1, <1>3 DEF Contents
<1> QED BY <1>4 DEF ValidKey

(* What -e makes of what +e made of printable lines is those lines. *)
LEMMA DecodesWhatWasEncoded ==
  ASSUME NEW s \in Contents, NEW t \in Contents, NEW u \in Contents, NEW k \in Contents,
         ValidKey(k), \A i \in DOMAIN s : s[i] \in Printable \cup {Newline},
         Encoded(t, s, k), Len(u) <= Len(t), Len(u) < Len(t) => t[Len(u) + 1] = EofByte,
         \A i \in 1 .. Len(u) : Codes(u[i], t, i, -1, k)
  PROVE  u = s
<1> DEFINE Index(i, j) == ((i - 1 - j) % Len(k)) + 1
<1>1. /\ Len(s) \in Nat /\ Len(t) \in Nat /\ Len(u) \in Nat
      /\ DOMAIN s = 1 .. Len(s) /\ DOMAIN u = 1 .. Len(u)
      /\ \A i \in 1 .. Len(s) : s[i] \in Byte
  BY DEF Contents
<1>2. \A i \in 1 .. Len(s) : s[i] \in Printable \cup {Newline} /\ s[i] # EofByte
  <2>1. \A i \in 1 .. Len(s) : s[i] \in Printable \cup {Newline}
    BY <1>1
  <2>2. EofByte \notin Printable \cup {Newline}
    BY DEF Printable, Newline, EofByte
  <2> QED BY <2>1, <2>2
<1>3. Len(t) = Len(s)
  <2>1. Len(t) <= Len(s) /\ (Len(t) < Len(s) => s[Len(t) + 1] = EofByte)
    BY DEF Encoded
  <2> QED BY <1>1, <1>2, <2>1
<1>4. ASSUME NEW i \in 1 .. Len(s), s[i] # Newline, NEW j \in 0 .. i - 1, InLine(s, j, i)
      PROVE  k[Index(i, j)] \in Digit /\ t[i] = Shifted(s[i], 1, k[Index(i, j)])
  <2>1. i \in Nat \ {0} /\ i \in 1 .. Len(t)
    BY <1>1, <1>3
  <2>2. k[Index(i, j)] \in Digit
    BY <2>1, KeyDigit
  <2>3. Codes(t[i], s, i, 1, k)
    BY <2>1 DEF Encoded
  <2> QED BY <1>4, <2>2, <2>3 DEF Codes
<1>5. ASSUME NEW i \in 1 .. Len(s)
      PROVE  (t[i] = Newline <=> s[i] = Newline) /\ t[i] # EofByte
  <2>1. i \in Nat \ {0} /\ i \in 1 .. Len(t)
    BY <1>1, <1>3
  <2>2. CASE s[i] = Newline
    <3>1. Codes(t[i], s, i, 1, k)
      BY <2>1 DEF Encoded
    <3> QED BY <2>2, <3>1 DEF Codes, Newline, EofByte
  <2>3. CASE s[i] # Newline
    <3>1. PICK j \in 0 .. i - 1 : InLine(s, j, i)
      BY <2>1, LineExists
    <3>2. k[Index(i, j)] \in Digit /\ t[i] = Shifted(s[i], 1, k[Index(i, j)])
      BY <1>4, <2>3, <3>1
    <3>3. s[i] \in Printable
      BY <1>2, <2>3
    <3>4. t[i] \notin {Newline, EofByte}
      <4> HIDE DEF Index
      <4> QED BY <3>2, <3>3, ShiftedPrintable
    <3> QED BY <2>3, <3>4
  <2> QED BY <2>2, <2>3
<1>6. Len(u) = Len(s)
  <2>1. ASSUME Len(u) < Len(t) PROVE FALSE
    <3>1. Len(u) + 1 \in 1 .. Len(s) /\ t[Len(u) + 1] = EofByte
      BY <1>1, <1>3, <2>1
    <3> QED BY <1>5, <2>1, <3>1
  <2>2. ~ (Len(u) < Len(t))
    BY <2>1
  <2>3. Len(u) \in Nat /\ Len(t) \in Nat /\ Len(u) <= Len(t)
    BY <1>1
  <2> HIDE DEF Index
  <2> QED BY <1>3, <2>2, <2>3
<1>7. ASSUME NEW i \in 1 .. Len(s), NEW j \in 0 .. i - 1, InLine(s, j, i)
      PROVE  InLine(t, j, i)
  <2>1. j # 0 => j \in 1 .. Len(s)
    BY <1>1
  <2>2. \A h \in j + 1 .. i - 1 : h \in 1 .. Len(s)
    BY <1>1
  <2> QED BY <1>5, <1>7, <2>1, <2>2 DEF InLine
<1>8. ASSUME NEW i \in 1 .. Len(s) PROVE u[i] = s[i]
  <2>1. i \in Nat \ {0} /\ Codes(u[i], t, i, -1, k)
    BY <1>1, <1>6
  <2>2. CASE s[i] = Newline
    BY <1>5, <2>1, <2>2 DEF Codes
  <2>3. CASE s[i] # Newline
    <3>1. PICK j \in 0 .. i - 1 : InLine(s, j, i)
      BY <2>1, LineExists
    <3>2. k[Index(i, j)] \in Digit /\ t[i] = Shifted(s[i], 1, k[Index(i, j)])
      BY <1>4, <2>3, <3>1
    <3>3. u[i] = Shifted(t[i], -1, k[Index(i, j)])
      <4>1. InLine(t, j, i) /\ t[i] # Newline
        BY <1>5, <1>7, <2>3, <3>1
      <4> QED BY <2>1, <4>1 DEF Codes
    <3>4. s[i] \in Byte
      BY <1>1
    <3> HIDE DEF Index
    <3> QED BY <3>2, <3>3, <3>4, ShiftsBack
  <2> QED BY <2>2, <2>3
<1> QED BY <1>1, <1>6, <1>8 DEF Contents

(* Printable lines that any of the encoders encoded with a key of digits   *)
(* come back when any of them decodes the file with that key.              *)
THEOREM DecodingUndoesEncoding == FilterSpec => []RoundTrip
<1>1. ASSUME FilterInv PROVE RoundTrip
  <2> DEFINE f == fin.file
             s == coded[f].text
  <2> SUFFICES ASSUME Succeeded, encription_mode = -1, f # fout,
                      coded[f] # None, coded[f].key = key, ValidKey(key),
                      \A i \in DOMAIN s : s[i] \in Printable \cup {Newline}
               PROVE  dir[fout] = s
    BY DEF RoundTrip
  <2>1. f \in Name /\ fout \in Name /\ key \in Contents /\ version \in Encoders
    BY <1>1 DEF FilterInv, TypeInv
  <2>2. IsText(f) /\ Encoded(dir[f], s, key)
    BY <1>1, <2>1 DEF FilterInv, Provenance
  <2>3. s \in Contents
    BY <1>1, <2>1 DEF FilterInv, TypeInv
  <2>4. IsText(fout) /\ IsTranslation(dir[fout], dir[f])
    BY <1>1, <2>2, SucceededIsNotFailed DEF FilterInv, Done
  <2>5. dir[f] \in Contents /\ dir[fout] \in Contents
    BY <1>1, <2>1, <2>2, <2>4 DEF FilterInv, TypeInv, IsText
  <2>6. /\ Len(dir[fout]) <= Len(dir[f])
        /\ Len(dir[fout]) < Len(dir[f]) => dir[f][Len(dir[fout]) + 1] = EofByte
        /\ \A i \in 1 .. Len(dir[fout]) : Codes(dir[fout][i], dir[f], i, -1, key)
    BY <2>1, <2>4 DEF IsTranslation, Translates, IsRead
  <2> HIDE DEF s, f
  <2> QED BY <2>2, <2>3, <2>5, <2>6, <2>1, DecodesWhatWasEncoded
<1> QED BY <1>1, InvHolds, PTL

-----------------------------------------------------------------------------
(***************************************************************************)
(* MenuMap.                                                                *)
(***************************************************************************)

LEMMA NullItemIs7 == NullItem = 7
BY DEF NullItem, Items

(* An option is looked up once it was compared with the bounds of the menu: *)
(* the first program with those of its functions, the second with one more. *)
InBounds ==
  /\ doing \in {"map", "crashed"} =>
       option \in 0 .. (IF menu_map = "actual" THEN NullItem - 1 ELSE NullItem)
  /\ doing \in {"map", "crashed"} => line \in {"number", "word"}
  /\ menu_map \in {"actual", "warmup"}

LEMMA NextInBounds == ASSUME InBounds, [MenuNext]_menuVars PROVE InBounds'
<1>1. CASE GetNum
  BY <1>1 DEF GetNum, Reads, Choose, InBounds
<1>2. CASE ReadOption
  BY <1>2 DEF ReadOption, Reads, Choose, InBounds
<1>3. CASE map
  <2>1. doing = "map" /\ UNCHANGED <<menu_map, option, line>>
    BY <1>3 DEF map
  <2> QED BY <2>1 DEF InBounds
<1>4. CASE UNCHANGED menuVars
  BY <1>4 DEF menuVars, InBounds
<1> QED BY <1>1, <1>2, <1>3, <1>4 DEF MenuNext

(* The program of the lab calls nothing but the functions of its menu,     *)
(* whatever lines it reads and wherever its input ends; that of the warmup *)
(* calls the entry behind them only after a number or another word.        *)
THEOREM OnlyTheMenuIsCalled == MenuSpec => []CallsOnlyTheMenu
<1>1. MenuInit => InBounds
  BY DEF MenuInit, InBounds
<1>2. InBounds /\ [MenuNext]_menuVars => InBounds'
  BY NextInBounds
<1>3. InBounds => CallsOnlyTheMenu
  BY NullItemIs7 DEF InBounds, CallsOnlyTheMenu
<1> QED BY <1>1, <1>2, <1>3, PTL DEF MenuSpec

(* At the end of its input neither program leaves the menu. *)
THEOREM NoWayOutAtEnd == MenuSpec => [][ended /\ doing = "menu" => doing' = "menu"]_menuVars
<1>1. ASSUME [MenuNext]_menuVars, ended, doing = "menu" PROVE doing' = "menu"
  <2>1. CASE GetNum
    BY <1>1, <2>1 DEF GetNum, Reads
  <2>2. CASE ReadOption
    BY <1>1, <2>2 DEF ReadOption, Reads
  <2>3. CASE map
    BY <1>1, <2>3 DEF map
  <2>4. CASE UNCHANGED menuVars
    BY <1>1, <2>4 DEF menuVars
  <2> QED BY <1>1, <2>1, <2>2, <2>3, <2>4 DEF MenuNext
<1> QED BY <1>1, PTL DEF MenuSpec

(* Decrypt undoes Encrypt on all characters but }, ~ and |, and on none of  *)
(* these three: they leave the range that either of the functions changes.  *)
THEOREM EncryptionUndone == DecryptUndoesEncrypt
BY DEF DecryptUndoesEncrypt, encdec, Special
=============================================================================
