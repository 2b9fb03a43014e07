--------------------------- MODULE PipelineProofs ----------------------------
(***************************************************************************)
(* Proofs about PipelineStages, for any number of command lines, of        *)
(* descriptors and any size of a pipe: the types, the descriptors of the   *)
(* shells and of the programs they start, and what is over at the prompt.  *)
(***************************************************************************)
EXTENDS PipelineStages, FiniteSetTheorems, WellFoundedInduction, TLAPS

Table == [Fds -> File]

-----------------------------------------------------------------------------
(* Descriptor tables.                                                      *)

LEMMA LeastExists ==
  ASSUME NEW S \in SUBSET Nat, S # {}
  PROVE  \E f \in S : \A g \in S : f <= g
<1> DEFINE R == {ss \in Nat \X Nat : ss[1] < ss[2]}
<1>1. IsWellFoundedOn(R, Nat)
  BY NatLessThanWellFounded DEF OpToRel
<1>2. PICK f \in S : \A g \in S : <<g, f>> \notin R
  <2> HIDE DEF R
  <2>1. \A Q : IsWellFoundedOn(Q, Nat) =>
          \E x \in S : \A y \in S : <<y, x>> \notin Q
    BY WFMin
  <2> QED BY <1>1, <2>1
<1>3. \A g \in S : f <= g
  <2> TAKE g \in S
  <2>1. f \in Nat /\ g \in Nat
    OBVIOUS
  <2>2. ~(g < f)
    BY <1>2, <2>1
  <2> QED BY <2>1, <2>2
<1> QED BY <1>3

LEMMA LowestIsLeast ==
  ASSUME NEW S \in SUBSET Fds, S # {}
  PROVE  Lowest(S) \in S /\ \A g \in S : Lowest(S) <= g
<1>1. S \in SUBSET Nat
  BY DEF Fds
<1>2. \E f \in S : \A g \in S : f <= g
  BY <1>1, LeastExists
<1> QED BY <1>2 DEF Lowest

LEMMA StandardFds == {0, 1, 2} \subseteq Fds
BY DescriptorsAssumption DEF DescriptorsAssumption, Fds

LEMMA Files ==
  ASSUME NEW k \in Line
  PROVE  /\ {None, Inherited, InFile, OutFile, ReadEnd(k), WriteEnd(k)} \subseteq File
         /\ ReadEnd(k) # None /\ WriteEnd(k) # None /\ ReadEnd(k) # WriteEnd(k)
         /\ Inherited # None
BY DEF File, None, Inherited, InFile, OutFile, ReadEnd, WriteEnd

LEMMA NotFailed ==
  ASSUME NEW t \in Table
  PROVE  t # Failed
<1>1. 0 \in DOMAIN t
  BY StandardFds DEF Table
<1>2. DOMAIN Failed = {}
  BY DEF Failed
<1> QED BY <1>1, <1>2

LEMMA CloseTable ==
  ASSUME NEW t \in Table \cup {Failed}, NEW f
  PROVE  Close(t, f) \in Table \cup {Failed}
BY DEF Close, Table, File

LEMMA OpenTable ==
  ASSUME NEW t \in Table \cup {Failed}, NEW file \in File
  PROVE  Open(t, file) \in Table \cup {Failed}
<1>1. CASE Open(t, file) = Failed
  BY <1>1
<1>2. CASE Open(t, file) # Failed
  <2>1. t \in Table /\ Free(t) # {}
    BY <1>2 DEF Open
  <2>2. Lowest(Free(t)) \in Fds
    BY <2>1, LowestIsLeast DEF Free
  <2>3. Open(t, file) = [t EXCEPT ![Lowest(Free(t))] = file]
    BY <1>2 DEF Open
  <2> QED BY <2>1, <2>2, <2>3 DEF Table
<1> QED BY <1>1, <1>2

LEMMA DupTable ==
  ASSUME NEW t \in Table \cup {Failed}, NEW f
  PROVE  Dup(t, f) \in Table \cup {Failed}
<1>1. CASE t = Failed \/ f \notin Fds
  BY <1>1 DEF Dup
<1>2. CASE ~(t = Failed \/ f \notin Fds)
  <2>1. t[f] \in File
    BY <1>2 DEF Table
  <2>2. Dup(t, f) = Open(t, t[f])
    BY <1>2 DEF Dup
  <2> QED BY <2>1, <2>2, OpenTable
<1> QED BY <1>1, <1>2

LEMMA AnywayTable ==
  ASSUME NEW t \in Table, NEW f
  PROVE  CloseAnyway(t, f) \in Table /\ DupAnyway(t, f) \in Table
BY CloseTable, DupTable DEF CloseAnyway, DupAnyway

(* pipe takes two free descriptors, and not 1 for writing unless 0 is free. *)
LEMMA PipeFdsFree ==
  ASSUME NEW t \in Table, Cardinality(Free(t)) >= 2
  PROVE  /\ PipeFds(t)[1] \in Fds /\ t[PipeFds(t)[1]] = None
         /\ PipeFds(t)[2] \in Fds /\ t[PipeFds(t)[2]] = None
         /\ PipeFds(t)[1] # PipeFds(t)[2]
         /\ t[0] # None => PipeFds(t)[2] # 1
<1> DEFINE r == Lowest(Free(t))
           w == Lowest(Free(t) \ {r})
<1>1. Free(t) \in SUBSET Fds
  BY DEF Free
<1>2. Free(t) # {}
  BY FS_EmptySet
<1>3. r \in Free(t) /\ \A g \in Free(t) : r <= g
  BY <1>1, <1>2, LowestIsLeast
<1> HIDE DEF r
<1>4. Free(t) # {r}
  <2>1. Cardinality({r}) = 1
    BY FS_Singleton
  <2> QED BY <2>1
<1>5. Free(t) \ {r} # {}
  BY <1>3, <1>4
<1>6. w \in Free(t) \ {r}
  BY <1>1, <1>5, LowestIsLeast
<1> HIDE DEF w
<1>7. r \in Nat /\ w \in Nat /\ r <= w /\ r # w /\ (t[0] # None => r # 0)
  BY <1>1, <1>3, <1>6 DEF Fds, Free
<1>8. PipeFds(t) = <<r, w>>
  BY DEF PipeFds, r, w
<1> QED BY <1>3, <1>6, <1>7, <1>8 DEF Free

(* dup after a close takes the descriptor closed, if no lower one is free. *)
LEMMA DupTakes ==
  ASSUME NEW t \in Table, NEW f \in Fds, t[f] # None,
         NEW d \in Fds, t[d] = None, \A g \in 0 .. d - 1 : t[g] # None
  PROVE  Dup(t, f) = [t EXCEPT ![d] = t[f]]
<1>1. t # Failed /\ Free(t) \in SUBSET Fds /\ d \in Free(t)
  BY NotFailed DEF Free
<1>2. Lowest(Free(t)) \in Free(t) /\ Lowest(Free(t)) <= d
  BY <1>1, LowestIsLeast
<1>3. Lowest(Free(t)) = d
  BY <1>1, <1>2 DEF Free, Fds
<1> QED BY <1>1, <1>3 DEF Dup, Open

(* A child that was forked with both ends of its pipe, or with the read    *)
(* end, and calls of which none fails, has its end in its place at exec,   *)
(* whether it looks at the results or not.                                 *)
LEMMA WriterTable ==
  ASSUME NEW s \in Table, s[0] # None, NEW k \in Line,
         NEW r \in Fds, NEW w \in Fds, s[r] = None, s[w] = None, r # w, w # 1,
         NEW t, t = [s EXCEPT ![r] = ReadEnd(k), ![w] = WriteEnd(k)],
         NEW u, u = [s EXCEPT ![1] = WriteEnd(k)]
  PROVE  /\ ChildPipeWrite(t, r, w) \in {Failed, u}
         /\ MyPipelineWrite(t, r, w) \in {u}
<1> DEFINE t1 == [s EXCEPT ![w] = WriteEnd(k)]
           t2 == [t1 EXCEPT ![1] = None]
           t3 == [t2 EXCEPT ![1] = WriteEnd(k)]
<1>1. t \in Table /\ t1 \in Table /\ t2 \in Table /\ t3 \in Table
  BY StandardFds, Files DEF Table
<1>2. Close(t, r) = t1 /\ CloseAnyway(t, r) = t1
  <2>1. t # Failed /\ t1 # Failed /\ t[r] # None
    BY <1>1, NotFailed, Files DEF Table
  <2>2. [t EXCEPT ![r] = None] = t1
    BY DEF Table
  <2> QED BY <2>1, <2>2 DEF Close, CloseAnyway
<1>3. Close(t1, 1) \in {Failed, t2} /\ CloseAnyway(t1, 1) = t2
  <2>1. t1 # Failed /\ t2 # Failed
    BY <1>1, NotFailed
  <2>2. CASE t1[1] = None
    <3>1. t2 = t1
      BY <2>2, <1>1 DEF Table
    <3> QED BY <2>1, <2>2, <3>1, StandardFds DEF Close, CloseAnyway
  <2>3. CASE t1[1] # None
    BY <2>1, <2>3, StandardFds DEF Close, CloseAnyway
  <2> QED BY <2>2, <2>3
<1>4. Dup(t2, w) = t3 /\ DupAnyway(t2, w) = t3
  <2>1. t2[w] = WriteEnd(k) /\ t2[1] = None /\ t2[0] = s[0]
    BY StandardFds DEF Table
  <2>2. \A g \in 0 .. 1 - 1 : t2[g] # None
    BY <2>1
  <2>3. t2[w] # None /\ 1 \in Fds
    BY <2>1, Files, StandardFds
  <2>4. Dup(t2, w) = [t2 EXCEPT ![1] = t2[w]]
    BY <1>1, <2>1, <2>2, <2>3, DupTakes
  <2>5. Dup(t2, w) = t3
    BY <2>1, <2>4
  <2> QED BY <1>1, <2>5, NotFailed DEF DupAnyway
<1>5. Close(t3, w) = [s EXCEPT ![1] = WriteEnd(k)]
      /\ CloseAnyway(t3, w) = [s EXCEPT ![1] = WriteEnd(k)]
  <2>1. t3 # Failed /\ t3[w] # None
    BY <1>1, NotFailed, Files DEF Table
  <2>2. [t3 EXCEPT ![w] = None] = [s EXCEPT ![1] = WriteEnd(k)]
    BY StandardFds DEF Table
  <2>3. [s EXCEPT ![1] = WriteEnd(k)] # Failed
    BY NotFailed, Files, StandardFds DEF Table
  <2> QED BY <2>1, <2>2, <2>3 DEF Close, CloseAnyway
<1>6. Close(Dup(Failed, w), w) = Failed
  BY DEF Close, Dup
<1> HIDE DEF t1, t2, t3
<1> QED BY <1>2, <1>3, <1>4, <1>5, <1>6 DEF ChildPipeWrite, MyPipelineWrite

LEMMA ReaderTable ==
  ASSUME NEW s \in Table, s[0] # None, NEW k \in Line,
         NEW r \in Fds, s[r] = None,
         NEW t, t = [s EXCEPT ![r] = ReadEnd(k)],
         NEW u, u = [s EXCEPT ![0] = ReadEnd(k)]
  PROVE  /\ ChildPipeRead(t, r) \in {Failed, u}
         /\ MyPipelineRead(t, r) \in {u}
<1> DEFINE t1 == [t EXCEPT ![0] = None]
           t2 == [t1 EXCEPT ![0] = ReadEnd(k)]
<1>1. t \in Table /\ t1 \in Table /\ t2 \in Table /\ r # 0
  BY StandardFds, Files DEF Table
<1>2. Close(t, 0) = t1 /\ CloseAnyway(t, 0) = t1
  <2>1. t # Failed /\ t1 # Failed /\ t[0] # None
    BY <1>1, NotFailed, StandardFds DEF Table
  <2> QED BY <2>1, StandardFds DEF Close, CloseAnyway
<1>3. Dup(t1, r) = t2 /\ DupAnyway(t1, r) = t2
  <2>1. t1[r] = ReadEnd(k) /\ t1[0] = None
    BY <1>1, StandardFds DEF Table
  <2>2. ASSUME NEW d \in Fds, d = 0
        PROVE  Dup(t1, r) = [t1 EXCEPT ![d] = t1[r]]
    <3>1. t1[r] # None /\ t1[d] = None
      BY <2>1, <2>2, Files
    <3>2. \A g \in 0 .. d - 1 : t1[g] # None
      BY <2>2
    <3> HIDE DEF t1, t2
    <3> QED BY <1>1, <2>2, <3>1, <3>2, DupTakes
  <2>3. Dup(t1, r) = t2
    BY <2>1, <2>2, StandardFds
  <2> QED BY <1>1, <2>3, NotFailed DEF DupAnyway
<1>4. Close(t2, r) = [s EXCEPT ![0] = ReadEnd(k)]
      /\ CloseAnyway(t2, r) = [s EXCEPT ![0] = ReadEnd(k)]
  <2>1. t2 # Failed /\ t2[r] # None
    BY <1>1, NotFailed, Files DEF Table
  <2>2. [t2 EXCEPT ![r] = None] = [s EXCEPT ![0] = ReadEnd(k)]
    BY <1>1, StandardFds DEF Table
  <2>3. [s EXCEPT ![0] = ReadEnd(k)] # Failed
    BY NotFailed, Files, StandardFds DEF Table
  <2> QED BY <2>1, <2>2, <2>3 DEF Close, CloseAnyway
<1> HIDE DEF t1, t2
<1> QED BY <1>2, <1>3, <1>4 DEF ChildPipeRead, MyPipelineRead

-----------------------------------------------------------------------------
(* The inductive invariant.                                                *)

(* The programs that may go on after a pipe that could not be made. *)
Careless == stage = "mypipeline" \/ (stage = "warmup4" /\ DebugMode)

(* The programs that never run a pipeline of two programs. *)
Singles == {"task1", "task2", "warmup2", "mypipe"}

TypeInv ==
  /\ StagesTypeOK
  /\ 0 \in stdio
  /\ pc \notin {"prompt", "exited"} => line \in Line
  /\ pc \in {"fork", "wait"} => ~cmds[line].piped
  /\ unnoticed => Careless
  /\ stage \in Singles => \A k \in 1 .. line : ~cmds[k].piped
  /\ stage = "mypipeline" => line <= 1

(* The two ends of pipe k are on descriptors that were free at the start.  *)
Apart(k) ==
  /\ StartTable[pipe_fd[k].read] = None
  /\ StartTable[pipe_fd[k].write] = None
  /\ pipe_fd[k].read # pipe_fd[k].write
  /\ pipe_fd[k].write # 1

BothEnds(k) ==
  [StartTable EXCEPT ![pipe_fd[k].read] = ReadEnd(k), ![pipe_fd[k].write] = WriteEnd(k)]

OnlyRead(k) == [StartTable EXCEPT ![pipe_fd[k].read] = ReadEnd(k)]

(* What the shell holds at each place, and its children until exec.        *)
ShellHolds ==
  /\ pc \in {"prompt", "pipe", "fork", "wait", "wait1", "wait2"} =>
       fd[Shell] = StartTable
  /\ pc \in {"fork1", "closewrite"} =>
       Apart(line) /\ fd[Shell] = BothEnds(line)
  /\ pc \in {"fork2", "closeread", "read"} =>
       Apart(line) /\ fd[Shell] = OnlyRead(line)

ChildHolds(k) ==
  /\ state[<<k, 1>>] = "forked" => Apart(k) /\ fd[<<k, 1>>] = BothEnds(k)
  /\ state[<<k, 2>>] = "forked" => Apart(k) /\ fd[<<k, 2>>] = OnlyRead(k)

ChildrenHold == \A k \in 1 .. line : cmds[k].piped => ChildHolds(k)

(* Which children exist, and which are over.                               *)
Over == {"unborn", "reaped"}

NotYetForked ==
  /\ \A k \in Line : k > line => state[<<k, 1>>] = "unborn" /\ state[<<k, 2>>] = "unborn"
  /\ pc \in {"pipe", "fork1", "fork"} => state[First] = "unborn"
  /\ pc \in {"pipe", "fork1", "fork", "closewrite", "fork2", "wait", "read"} =>
       state[Second] = "unborn"
  /\ stage = "mypipe" => \A k \in Line : state[<<k, 2>>] = "unborn"

Collected ==
  /\ pc = "wait2" => state[First] \in Over
  /\ \A k \in 1 .. line : cmds[k].blocking /\ (k < line \/ pc = "prompt") =>
       /\ state[<<k, 1>>] \in Over
       /\ stage = "warmup4" \/ state[<<k, 2>>] \in Over

Inv ==
  /\ TypeInv
  /\ unnoticed \/ (ShellHolds /\ ChildrenHold /\ ProgramsSeeTheirEnds)
  /\ NotYetForked
  /\ Collected

-----------------------------------------------------------------------------
LEMMA InvInit == StagesInit => Inv
<1> SUFFICES ASSUME StagesInit PROVE Inv
  OBVIOUS
<1> USE StandardFds, DescriptorsAssumption
<1>1. /\ pc = "prompt" /\ line = 0 /\ cmds = <<>> /\ unnoticed = FALSE
      /\ pipe_fd = [k \in Line |-> [read |-> 0, write |-> 0]]
      /\ stdio \subseteq Fds /\ 0 \in stdio
      /\ fd = [p \in Proc |-> IF p = Shell THEN StartTable ELSE Empty]
      /\ buffer = [k \in Line |-> 0]
      /\ state = [c \in Child |-> "unborn"]
      /\ autoReap \in BOOLEAN /\ stage \in Stage /\ DebugMode \in BOOLEAN
  BY DEF StagesInit, Init, DescInit, StartTable
<1>2. TypeInv
  <2>1. StartTable \in Table /\ Empty \in Table
    BY DEF StartTable, Empty, Table, File
  <2>2. fd \in [Proc -> Table] /\ state \in [Child -> {"unborn"}]
    BY <1>1, <2>1
  <2>3. cmds \in [1 .. line -> Cmd]
    BY <1>1
  <2>4. 0 \in 0 .. Cap /\ line \in 0 .. MaxLines
    BY <1>1 DEF DescriptorsAssumption
  <2>5. DescTypeOK
    BY <1>1, <2>2, <2>4 DEF DescTypeOK, Table
  <2>6. ShellTypeOK
    BY <1>1, <2>3, <2>4, <2>5 DEF ShellTypeOK
  <2>7. StagesTypeOK
    BY <1>1, <2>6 DEF StagesTypeOK, Places
  <2>8. \A k \in 1 .. line : ~cmds[k].piped
    BY <1>1
  <2> QED BY <1>1, <2>7, <2>8 DEF TypeInv
<1>3. ShellHolds /\ ChildrenHold /\ ProgramsSeeTheirEnds
  BY <1>1 DEF ShellHolds, ChildrenHold, ProgramsSeeTheirEnds, Proc
<1>4. NotYetForked /\ Collected
  BY <1>1 DEF NotYetForked, Collected, Child
<1> QED BY <1>2, <1>3, <1>4 DEF Inv

-----------------------------------------------------------------------------
(* What the children do.                                                   *)

EndOf(k, i) == IF i = 1 THEN [StartTable EXCEPT ![1] = WriteEnd(k)]
                        ELSE [StartTable EXCEPT ![0] = ReadEnd(k)]

(* A child that exists gets another table, and is run or over; one of a    *)
(* pipeline is run with its end in its place.                              *)
ChildMoves(k, i) ==
  \E t \in Table, s \in {"running", "zombie", "reaped"} :
    /\ state[<<k, i>>] \in {"forked", "running"}
    /\ fd' = [fd EXCEPT ![<<k, i>>] = t]
    /\ state' = [state EXCEPT ![<<k, i>>] = s]
    /\ s = "running" => unnoticed \/ ~cmds[k].piped \/ t = EndOf(k, i)

ChildOnly(k, i) ==
  /\ UNCHANGED shellVars
  /\ buffer' \in [Line -> 0 .. Cap]
  /\ (UNCHANGED <<fd, state>>) \/ ChildMoves(k, i)

LEMMA TypesOf ==
  ASSUME TypeInv
  PROVE  /\ pc \in Places \cup {"read"} /\ line \in 0 .. MaxLines
         /\ cmds \in [1 .. line -> Cmd] /\ stdio \subseteq Fds
         /\ pipe_fd \in [Line -> [read : Fds, write : Fds]]
         /\ fd \in [Proc -> Table] /\ buffer \in [Line -> 0 .. Cap]
         /\ state \in [Child -> {"unborn", "forked", "running", "zombie", "reaped"}]
         /\ StartTable \in Table /\ StartTable[0] # None
<1>1. StagesTypeOK /\ ShellTypeOK /\ DescTypeOK
  BY DEF TypeInv, StagesTypeOK, ShellTypeOK
<1>2. StartTable \in Table /\ StartTable[0] # None
  BY StandardFds DEF TypeInv, Table, StartTable, File, Inherited, None
<1>3. fd \in [Proc -> Table]
  BY <1>1 DEF DescTypeOK, Table
<1>4. /\ buffer \in [Line -> 0 .. Cap]
      /\ state \in [Child -> {"unborn", "forked", "running", "zombie", "reaped"}]
  BY <1>1 DEF DescTypeOK
<1>5. /\ line \in 0 .. MaxLines /\ cmds \in [1 .. line -> Cmd] /\ stdio \subseteq Fds
      /\ pipe_fd \in [Line -> [read : Fds, write : Fds]]
  BY <1>1 DEF ShellTypeOK
<1>6. pc \in Places \cup {"read"}
  BY <1>1 DEF StagesTypeOK
<1> QED BY <1>2, <1>3, <1>4, <1>5, <1>6

LEMMA Existing ==
  ASSUME Inv, NEW k \in Line, NEW i \in {1, 2}, state[<<k, i>>] # "unborn"
  PROVE  k \in 1 .. line
<1>1. line \in Nat /\ k \in Nat /\ k >= 1
  BY TypesOf, DescriptorsAssumption DEF Inv, Line, DescriptorsAssumption
<1>2. ~(k > line)
  BY DEF Inv, NotYetForked
<1> QED BY <1>1, <1>2

LEMMA DiesMoves ==
  ASSUME NEW k \in Line, NEW i \in {1, 2}, Dies(<<k, i>>),
         state[<<k, i>>] \in {"forked", "running"}
  PROVE  ChildMoves(k, i)
<1>1. Empty \in Table
  BY DEF Empty, Table, File
<1>2. PICK s \in {"zombie", "reaped"} : state' = [state EXCEPT ![<<k, i>>] = s]
  BY DEF Dies
<1> QED BY <1>1, <1>2 DEF ChildMoves, Dies

(* The tables that the stages give their programs.                         *)
LEMMA RedirectTable ==
  ASSUME NEW t \in Table \cup {Failed}, NEW f, NEW file \in File, NEW opened
  PROVE  /\ Redirect(t, f, file, opened) \in Table \cup {Failed}
         /\ RedirectChecked(t, f, file, opened) \in Table \cup {Failed}
<1>1. Close(t, f) \in Table \cup {Failed}
  BY CloseTable
<1>2. Open(Close(t, f), file) \in Table \cup {Failed}
  BY <1>1, OpenTable
<1> QED BY <1>1, <1>2 DEF Redirect, RedirectChecked

LEMMA RedirectedTables ==
  ASSUME NEW t \in Table
  PROVE  ChildRedirects(t) \cup redirect_io(t) \subseteq Table \cup {Failed}
<1>1. {None, InFile, OutFile} \subseteq File
  BY DEF File
<1>2. ASSUME NEW i \in {None, InFile}, NEW o \in {None, OutFile},
             NEW iok \in BOOLEAN, NEW ook \in BOOLEAN
      PROVE  /\ Redirect(Redirect(t, 0, i, iok), 1, o, ook) \in Table \cup {Failed}
             /\ RedirectChecked(RedirectChecked(t, 0, i, iok), 1, o, ook)
                  \in Table \cup {Failed}
  <2>1. i \in File /\ o \in File
    BY <1>1
  <2>2. Redirect(t, 0, i, iok) \in Table \cup {Failed}
    BY <2>1, RedirectTable
  <2>3. RedirectChecked(t, 0, i, iok) \in Table \cup {Failed}
    BY <2>1, RedirectTable
  <2>4. Redirect(Redirect(t, 0, i, iok), 1, o, ook) \in Table \cup {Failed}
    BY <2>1, <2>2, RedirectTable
  <2>5. RedirectChecked(RedirectChecked(t, 0, i, iok), 1, o, ook) \in Table \cup {Failed}
    BY <2>1, <2>3, RedirectTable
  <2> QED BY <2>4, <2>5
<1>3. ChildRedirects(t) \subseteq Table \cup {Failed}
  BY <1>2 DEF ChildRedirects
<1>4. redirect_io(t) \subseteq Table \cup {Failed}
  BY <1>2 DEF redirect_io
<1> QED BY <1>3, <1>4

LEMMA PipeTables ==
  ASSUME NEW t \in Table, NEW r, NEW w
  PROVE  /\ {ChildPipeWrite(t, r, w), ChildPipeRead(t, r)} \subseteq Table \cup {Failed}
         /\ MyPipelineWrite(t, r, w) \in Table
         /\ MyPipelineRead(t, r) \in Table
<1>1. ChildPipeWrite(t, r, w) \in Table \cup {Failed}
  <2>1. Close(t, r) \in Table \cup {Failed}
    BY CloseTable
  <2>2. Close(Close(t, r), 1) \in Table \cup {Failed}
    BY <2>1, CloseTable
  <2>3. Dup(Close(Close(t, r), 1), w) \in Table \cup {Failed}
    BY <2>2, DupTable
  <2> QED BY <2>3, CloseTable DEF ChildPipeWrite, MyPipelineWrite
<1>2. ChildPipeRead(t, r) \in Table \cup {Failed}
  <2>1. Close(t, 0) \in Table \cup {Failed}
    BY CloseTable
  <2>2. Dup(Close(t, 0), r) \in Table \cup {Failed}
    BY <2>1, DupTable
  <2> QED BY <2>2, CloseTable DEF ChildPipeRead, MyPipelineRead
<1>3. MyPipelineWrite(t, r, w) \in Table
  <2>1. CloseAnyway(CloseAnyway(t, r), 1) \in Table
    BY AnywayTable
  <2>2. DupAnyway(CloseAnyway(CloseAnyway(t, r), 1), w) \in Table
    BY <2>1, AnywayTable
  <2> QED BY <2>2, AnywayTable DEF MyPipelineWrite
<1>4. MyPipelineRead(t, r) \in Table
  <2>1. DupAnyway(CloseAnyway(t, 0), r) \in Table
    BY AnywayTable
  <2> QED BY <2>1, AnywayTable DEF MyPipelineRead
<1> QED BY <1>1, <1>2, <1>3, <1>4

LEMMA RunsMoves ==
  ASSUME NEW k \in Line, NEW i \in {1, 2}, NEW t \in Table, Runs(<<k, i>>, t),
         state[<<k, i>>] = "forked",
         unnoticed \/ ~cmds[k].piped \/ t = EndOf(k, i)
  PROVE  ChildMoves(k, i)
BY DEF ChildMoves, Runs

(* What a forked child of a pipeline holds, and what its calls make of it. *)
LEMMA PipedTables ==
  ASSUME Inv, NEW k \in Line, NEW i \in {1, 2}, state[<<k, i>>] = "forked",
         ~unnoticed, cmds[k].piped,
         NEW r, r = pipe_fd[k].read, NEW w, w = pipe_fd[k].write,
         NEW t, t = fd[<<k, i>>]
  PROVE  /\ i = 1 =>
              /\ ChildPipeWrite(t, r, w) \in {Failed, EndOf(k, i)}
              /\ MyPipelineWrite(t, r, w) \in {EndOf(k, i)}
         /\ i = 2 =>
              /\ ChildPipeRead(t, r) \in {Failed, EndOf(k, i)}
              /\ MyPipelineRead(t, r) \in {EndOf(k, i)}
<1>1. r \in Fds /\ w \in Fds /\ StartTable \in Table /\ StartTable[0] # None
  BY TypesOf DEF Inv
<1>2. k \in 1 .. line
  BY Existing
<1>3. ChildHolds(k)
  BY <1>2 DEF Inv, ChildrenHold
<1>4. /\ StartTable[r] = None /\ StartTable[w] = None /\ r # w /\ w # 1
  BY <1>3 DEF ChildHolds, Apart
<1>5. CASE i = 1
  <2>1. t = [StartTable EXCEPT ![r] = ReadEnd(k), ![w] = WriteEnd(k)]
    BY <1>3, <1>5 DEF ChildHolds, BothEnds
  <2>2. EndOf(k, i) = [StartTable EXCEPT ![1] = WriteEnd(k)]
    BY <1>5 DEF EndOf
  <2>3. ChildPipeWrite(t, r, w) \in {Failed, EndOf(k, i)}
    BY <1>1, <1>4, <2>1, <2>2, WriterTable
  <2>4. MyPipelineWrite(t, r, w) \in {EndOf(k, i)}
    BY <1>1, <1>4, <2>1, <2>2, WriterTable
  <2> QED BY <1>5, <2>3, <2>4
<1>6. CASE i = 2
  <2>1. t = [StartTable EXCEPT ![r] = ReadEnd(k)]
    BY <1>3, <1>6 DEF ChildHolds, OnlyRead
  <2>2. EndOf(k, i) = [StartTable EXCEPT ![0] = ReadEnd(k)]
    BY <1>6 DEF EndOf
  <2>3. ChildPipeRead(t, r) \in {Failed, EndOf(k, i)}
    BY <1>1, <1>4, <2>1, <2>2, ReaderTable
  <2>4. MyPipelineRead(t, r) \in {EndOf(k, i)}
    BY <1>1, <1>4, <2>1, <2>2, ReaderTable
  <2> QED BY <1>6, <2>3, <2>4
<1> QED BY <1>5, <1>6

LEMMA ExecsMoves ==
  ASSUME Inv, NEW k \in Line, NEW i \in {1, 2}, ChildExecs(<<k, i>>)
  PROVE  ChildMoves(k, i)
<1> DEFINE c == <<k, i>>
           r == pipe_fd[k].read
           w == pipe_fd[k].write
<1>1. state[c] = "forked" /\ c \in Proc /\ fd[c] \in Table
  BY TypesOf DEF Inv, ChildExecs, Child, Proc
<1>2. PICK t \in ChildTables(c) : t # Failed /\ Runs(c, t)
  BY DEF ChildExecs
<1>3. cmds[k].piped \in BOOLEAN
  BY <1>1, Existing, TypesOf DEF Inv, Cmd
<1>4. CASE ~cmds[k].piped
  <2>1. ChildTables(c) = ChildRedirects(fd[c])
    BY <1>4 DEF ChildTables
  <2>2. t \in Table
    BY <1>1, <1>2, <2>1, RedirectedTables
  <2> QED BY <1>1, <1>2, <1>4, <2>2, RunsMoves
<1>5. CASE cmds[k].piped
  <2>1. ChildTables(c) = IF i = 1 THEN {ChildPipeWrite(fd[c], r, w)}
                                  ELSE {ChildPipeRead(fd[c], r)}
    BY <1>5 DEF ChildTables
  <2>2. t \in Table
    <3>1. {ChildPipeWrite(fd[c], r, w), ChildPipeRead(fd[c], r)} \subseteq Table \cup {Failed}
      BY <1>1, PipeTables
    <3> QED BY <1>2, <2>1, <3>1
  <2>3. unnoticed \/ t = EndOf(k, i)
    <3>1. SUFFICES ASSUME ~unnoticed PROVE t = EndOf(k, i)
      BY DEF Inv, TypeInv, StagesTypeOK
    <3>2. /\ i = 1 => ChildPipeWrite(fd[c], r, w) \in {Failed, EndOf(k, i)}
          /\ i = 2 => ChildPipeRead(fd[c], r) \in {Failed, EndOf(k, i)}
      BY <1>1, <1>5, <3>1, PipedTables
    <3> QED BY <1>2, <2>1, <3>2
  <2> QED BY <1>1, <1>2, <2>2, <2>3, RunsMoves
<1> QED BY <1>3, <1>4, <1>5

LEMMA MyPipelineMoves ==
  ASSUME Inv, NEW k \in Line, NEW i \in {1, 2}, MyPipelineChild(<<k, i>>),
         stage = "mypipeline", state[<<k, i>>] = "forked"
  PROVE  ChildMoves(k, i)
<1> DEFINE c == <<k, i>>
           r == pipe_fd[k].read
           w == pipe_fd[k].write
           out == MyPipelineWrite(fd[c], r, w)
           in == MyPipelineRead(fd[c], r)
<1>1. k = 1
  <2>1. k \in 1 .. line
    BY Existing
  <2>2. line \in Nat
    BY TypesOf, DescriptorsAssumption DEF Inv, DescriptorsAssumption
  <2>3. line <= 1
    BY DEF Inv, TypeInv
  <2> QED BY <2>1, <2>2, <2>3
<1>2. fd[c] \in Table
  BY TypesOf DEF Inv, Child, Proc
<1>3. CASE ChildFails(c)
  BY <1>3, DiesMoves DEF ChildFails
<1>4. CASE ~ChildFails(c)
  <2>1. Runs(c, IF i = 1 THEN out ELSE in)
    BY <1>1, <1>4 DEF MyPipelineChild
  <2>2. out \in Table /\ in \in Table
    BY <1>2, PipeTables
  <2>3. unnoticed \/ ~cmds[k].piped \/ (IF i = 1 THEN out ELSE in) = EndOf(k, i)
    <3>1. ASSUME ~unnoticed, cmds[k].piped, i = 1 PROVE out \in {EndOf(k, i)}
      BY <3>1, PipedTables
    <3>2. ASSUME ~unnoticed, cmds[k].piped, i = 2 PROVE in \in {EndOf(k, i)}
      BY <3>2, PipedTables
    <3> QED BY <3>1, <3>2 DEF Inv, TypeInv, StagesTypeOK
  <2> HIDE DEF out, in
  <2> QED BY <2>1, <2>2, <2>3, RunsMoves
<1> QED BY <1>3, <1>4

LEMMA StreamMoves ==
  ASSUME Inv, NEW k \in Line, NEW i \in {1, 2},
         Stream(<<k, i>>) \/ Ends(<<k, i>>), UNCHANGED shellVars
  PROVE  ChildOnly(k, i)
<1> DEFINE c == <<k, i>>
<1>1. buffer \in [Line -> 0 .. Cap] /\ Cap \in Nat
  BY TypesOf, DescriptorsAssumption DEF Inv, DescriptorsAssumption
<1>2. ASSUME state[c] = "running", Dies(c), UNCHANGED buffer
      PROVE  ChildOnly(k, i)
  BY <1>1, <1>2, DiesMoves DEF ChildOnly
<1>3. CASE Ends(c)
  BY <1>2, <1>3 DEF Ends
<1>4. ASSUME NEW j \in Line, Write(c, j)
      PROVE  ChildOnly(k, i)
  <2>1. CASE Holders(ReadEnd(j)) = {}
    BY <1>2, <1>4, <2>1 DEF Write
  <2>2. CASE Holders(ReadEnd(j)) # {}
    <3>1. /\ buffer[j] < Cap /\ buffer' = [buffer EXCEPT ![j] = @ + 1]
          /\ UNCHANGED <<fd, state>>
      BY <1>4, <2>2 DEF Write
    <3>2. buffer' \in [Line -> 0 .. Cap]
      BY <1>1, <3>1
    <3> QED BY <3>1, <3>2 DEF ChildOnly
  <2> QED BY <2>1, <2>2
<1>5. ASSUME NEW j \in Line, Read(c, j)
      PROVE  ChildOnly(k, i)
  <2>1. /\ buffer[j] > 0 /\ buffer' = [buffer EXCEPT ![j] = @ - 1]
        /\ UNCHANGED <<fd, state>>
    BY <1>5 DEF Read
  <2>2. buffer' \in [Line -> 0 .. Cap]
    BY <1>1, <2>1
  <2> QED BY <2>1, <2>2 DEF ChildOnly
<1>6. ASSUME NEW j \in Line, ReadEof(c, j)
      PROVE  ChildOnly(k, i)
  BY <1>2, <1>6 DEF ReadEof
<1> QED BY <1>3, <1>4, <1>5, <1>6 DEF Stream

LEMMA StartMoves ==
  ASSUME Inv, NEW k \in Line, NEW i \in {1, 2}, Starts(<<k, i>>)
  PROVE  ChildOnly(k, i)
<1> DEFINE c == <<k, i>>
<1>1. /\ buffer \in [Line -> 0 .. Cap] /\ Cap \in Nat
      /\ c \in Proc /\ fd[c] \in Table
  BY TypesOf, DescriptorsAssumption DEF Inv, DescriptorsAssumption, Child, Proc
<1>2. ASSUME ChildFails(c) PROVE ChildOnly(k, i)
  <2>1. ChildMoves(k, i)
    BY <1>2, DiesMoves DEF ChildFails
  <2> QED BY <1>1, <1>2, <2>1 DEF ChildFails, ChildOnly
<1>3. ASSUME ChildExecs(c) PROVE ChildOnly(k, i)
  <2>1. ChildMoves(k, i)
    BY <1>3, ExecsMoves
  <2> QED BY <1>1, <1>3, <2>1 DEF ChildExecs, ChildOnly
<1>4. ASSUME ChildStarts(c) PROVE ChildOnly(k, i)
  BY <1>2, <1>3, <1>4 DEF ChildStarts
<1>5. ASSUME stage \in Singles, state[c] # "unborn" PROVE ~cmds[k].piped
  BY <1>5, Existing DEF Inv, TypeInv
<1>6. CASE stage = "warmup2" /\ Warmup2Child(c)
  <2>1. CASE ChildFails(c)
    BY <1>2, <2>1
  <2>2. CASE ~ChildFails(c)
    <3>1. PICK t \in redirect_io(fd[c]) : t # Failed /\ Runs(c, t)
      BY <1>6, <2>2 DEF Warmup2Child
    <3>2. state[c] = "forked" /\ UNCHANGED <<shellVars, buffer>>
      BY <1>6, <2>2 DEF Warmup2Child
    <3>3. t \in Table
      BY <1>1, <3>1, RedirectedTables
    <3>4. ~cmds[k].piped
      BY <1>5, <1>6, <3>2 DEF Singles
    <3>5. ChildMoves(k, i)
      BY <3>1, <3>2, <3>3, <3>4, RunsMoves
    <3> QED BY <1>1, <3>2, <3>5 DEF ChildOnly
  <2> QED BY <2>1, <2>2
<1>7. CASE stage = "mypipeline" /\ MyPipelineChild(c)
  <2>1. state[c] = "forked" /\ UNCHANGED <<shellVars, buffer>>
    BY <1>7 DEF MyPipelineChild, ChildFails
  <2>2. ChildMoves(k, i)
    BY <1>7, <2>1, MyPipelineMoves
  <2> QED BY <1>1, <2>1, <2>2 DEF ChildOnly
<1>8. CASE stage = "mypipe" /\ MyPipeChild(c)
  <2>1. CASE ChildFails(c)
    BY <1>2, <2>1
  <2>2. CASE Ends(c) /\ UNCHANGED shellVars
    BY <2>2, StreamMoves
  <2>3. CASE ~ChildFails(c) /\ ~(Ends(c) /\ UNCHANGED shellVars)
    <3> DEFINE t == Close(fd[c], pipe_fd[1].read)
    <3>1. /\ state[c] = "forked" /\ t # Failed /\ Runs(c, t)
          /\ buffer[1] < Cap /\ buffer' = [buffer EXCEPT ![1] = @ + 1]
          /\ UNCHANGED shellVars
      BY <1>8, <2>3 DEF MyPipeChild
    <3>2. t \in Table
      BY <1>1, <3>1, CloseTable
    <3>3. ~cmds[k].piped
      BY <1>5, <1>8, <3>1 DEF Singles
    <3> HIDE DEF t
    <3>4. ChildMoves(k, i)
      BY <3>1, <3>2, <3>3, RunsMoves
    <3>5. buffer' \in [Line -> 0 .. Cap]
      <4>1. 1 \in Line
        BY DescriptorsAssumption DEF Line, DescriptorsAssumption
      <4> QED BY <1>1, <3>1, <4>1
    <3> QED BY <3>1, <3>4, <3>5 DEF ChildOnly
  <2> QED BY <2>1, <2>2, <2>3
<1> QED
  BY <1>4, <1>6, <1>7, <1>8 DEF Starts, Task1Child, Task2Child, Task3Child, WarmupChild

-----------------------------------------------------------------------------
(* A step of a child keeps the invariant.                                  *)

LEMMA ChildKeepsInv ==
  ASSUME Inv, NEW k \in Line, NEW i \in {1, 2}, ChildOnly(k, i), Remembers
  PROVE  Inv'
<1> DEFINE c == <<k, i>>
<1>1. /\ pc' = pc /\ line' = line /\ cmds' = cmds /\ pipe_fd' = pipe_fd
      /\ stdio' = stdio /\ autoReap' = autoReap
      /\ stage' = stage /\ DebugMode' = DebugMode /\ unnoticed' = unnoticed
      /\ StartTable' = StartTable /\ buffer' \in [Line -> 0 .. Cap]
  BY DEF ChildOnly, shellVars, startVars, Remembers, StartTable, Inv, TypeInv, StagesTypeOK
<1>2. CASE UNCHANGED <<fd, state>>
  <2>1. TypeInv'
    BY <1>1, <1>2 DEF Inv, TypeInv, StagesTypeOK, ShellTypeOK, DescTypeOK, Careless
  <2>2. (unnoticed \/ (ShellHolds /\ ChildrenHold /\ ProgramsSeeTheirEnds))'
    BY <1>1, <1>2 DEF Inv, ShellHolds, ChildrenHold, ChildHolds, ProgramsSeeTheirEnds,
                      Apart, BothEnds, OnlyRead
  <2>3. NotYetForked' /\ Collected'
    BY <1>1, <1>2 DEF Inv, NotYetForked, Collected, First, Second
  <2> QED BY <2>1, <2>2, <2>3 DEF Inv
<1>3. CASE ChildMoves(k, i)
  <2>1. PICK t \in Table, s \in {"running", "zombie", "reaped"} :
          /\ state[c] \in {"forked", "running"}
          /\ fd' = [fd EXCEPT ![c] = t]
          /\ state' = [state EXCEPT ![c] = s]
          /\ s = "running" => unnoticed \/ ~cmds[k].piped \/ t = EndOf(k, i)
    BY <1>3 DEF ChildMoves
  <2>2. /\ fd \in [Proc -> Table] /\ c \in Child /\ c \in Proc /\ c # Shell
        /\ state \in [Child -> {"unborn", "forked", "running", "zombie", "reaped"}]
    BY TypesOf DEF Inv, Child, Proc, Shell, Line
  <2>3. TypeInv'
    <3>1. fd' \in [Proc -> Table]
          /\ state' \in [Child -> {"unborn", "forked", "running", "zombie", "reaped"}]
      BY <2>1, <2>2
    <3>2. DescTypeOK'
      BY <1>1, <3>1 DEF DescTypeOK, Table, Inv, TypeInv, StagesTypeOK, ShellTypeOK
    <3> QED BY <1>1, <3>2 DEF Inv, TypeInv, StagesTypeOK, ShellTypeOK, Careless
  <2>4. \A d \in Child : d # c => fd'[d] = fd[d] /\ state'[d] = state[d]
    BY <2>1, <2>2 DEF Proc
  <2>5. fd'[c] = t /\ state'[c] = s /\ fd'[Shell] = fd[Shell]
    BY <2>1, <2>2 DEF Proc
  <2>6. (unnoticed \/ (ShellHolds /\ ChildrenHold /\ ProgramsSeeTheirEnds))'
    <3> SUFFICES ASSUME ~unnoticed
                 PROVE  (ShellHolds /\ ChildrenHold /\ ProgramsSeeTheirEnds)'
      BY <1>1
    <3>1. ShellHolds /\ ChildrenHold /\ ProgramsSeeTheirEnds
      BY DEF Inv
    <3>2. ShellHolds'
      BY <1>1, <2>5, <3>1 DEF ShellHolds, Apart, BothEnds, OnlyRead
    <3>3. ASSUME NEW j \in 1 .. line, cmds[j].piped
          PROVE  /\ ChildHolds(j)'
                 /\ state'[<<j, 1>>] = "running" => fd'[<<j, 1>>] = EndOf(j, 1)
                 /\ state'[<<j, 2>>] = "running" => fd'[<<j, 2>>] = EndOf(j, 2)
      <4>1. <<j, 1>> \in Child /\ <<j, 2>> \in Child
        BY TypesOf, DescriptorsAssumption DEF Inv, Child, Line, DescriptorsAssumption
      <4>2. /\ ChildHolds(j)
            /\ state[<<j, 1>>] = "running" => fd[<<j, 1>>] = EndOf(j, 1)
            /\ state[<<j, 2>>] = "running" => fd[<<j, 2>>] = EndOf(j, 2)
        BY <3>1, <3>3 DEF ChildrenHold, ProgramsSeeTheirEnds, EndOf
      <4>3. ASSUME NEW h \in {1, 2}
            PROVE  /\ state'[<<j, h>>] = "forked" =>
                        state[<<j, h>>] = "forked" /\ fd'[<<j, h>>] = fd[<<j, h>>]
                   /\ state'[<<j, h>>] = "running" => fd'[<<j, h>>] \in {EndOf(j, h)}
        <5>1. CASE <<j, h>> = c
          BY <2>1, <2>5, <3>3, <5>1
        <5>2. CASE <<j, h>> # c
          BY <2>4, <4>1, <4>2, <5>2
        <5> QED BY <5>1, <5>2
      <4>4. ChildHolds(j)'
        BY <1>1, <4>2, <4>3 DEF ChildHolds, Apart, BothEnds, OnlyRead
      <4> QED BY <4>3, <4>4
    <3>4. ChildrenHold'
      BY <1>1, <3>3 DEF ChildrenHold
    <3>5. ProgramsSeeTheirEnds'
      <4> SUFFICES ASSUME NEW j \in 1 .. line, cmds[j].piped
                   PROVE  /\ state'[<<j, 1>>] = "running" =>
                               fd'[<<j, 1>>] = [StartTable EXCEPT ![1] = WriteEnd(j)]
                          /\ state'[<<j, 2>>] = "running" =>
                               fd'[<<j, 2>>] = [StartTable EXCEPT ![0] = ReadEnd(j)]
        BY <1>1 DEF ProgramsSeeTheirEnds
      <4>1. /\ [StartTable EXCEPT ![1] = WriteEnd(j)] \in {EndOf(j, 1)}
            /\ [StartTable EXCEPT ![0] = ReadEnd(j)] \in {EndOf(j, 2)}
        BY DEF EndOf
      <4> QED BY <3>3, <4>1, Zenon
    <3> QED BY <3>2, <3>4, <3>5
  <2>7. NotYetForked'
    <3>1. \A d \in Child : state[d] = "unborn" => state'[d] = "unborn"
      BY <2>1, <2>4
    <3>2. \A j \in Line : <<j, 1>> \in Child /\ <<j, 2>> \in Child
      BY DEF Child
    <3>3. pc \in {"pipe", "fork1", "fork", "closewrite", "fork2", "wait", "read"} => line \in Line
      BY DEF Inv, TypeInv
    <3> QED BY <1>1, <3>1, <3>2, <3>3 DEF Inv, NotYetForked, First, Second
  <2>8. Collected'
    <3>1. \A d \in Child : state[d] \in Over => state'[d] \in Over
      BY <2>1, <2>4 DEF Over
    <3>2. \A j \in 1 .. line : <<j, 1>> \in Child /\ <<j, 2>> \in Child
      BY TypesOf, DescriptorsAssumption DEF Inv, Child, Line, DescriptorsAssumption
    <3>3. pc = "wait2" => line \in Line
      BY DEF Inv, TypeInv
    <3>4. pc = "wait2" => state'[First] \in Over
      BY <3>1, <3>3 DEF Inv, Collected, First, Child
    <3> QED BY <1>1, <3>1, <3>2, <3>4 DEF Inv, Collected, First
  <2> QED BY <2>3, <2>6, <2>7, <2>8 DEF Inv
<1> QED BY <1>2, <1>3 DEF ChildOnly

-----------------------------------------------------------------------------
(* A step of the shell that forks nothing and reads no line keeps the      *)
(* invariant if what the invariant says of the new place holds.            *)

KeepsItsState ==
  \A c \in Child :
    state'[c] = state[c] \/ (state'[c] = "reaped" /\ state[c] \in {"zombie", "reaped"})

KeepsItsTypes ==
  /\ UNCHANGED <<line, cmds, stdio, autoReap, stage, DebugMode>>
  /\ pc' \in Places \cup {"read"}
  /\ pipe_fd' \in [Line -> [read : Fds, write : Fds]]
  /\ fd' \in [Proc -> Table]
  /\ buffer' \in [Line -> 0 .. Cap]
  /\ state' \in [Child -> {"unborn", "forked", "running", "zombie", "reaped"}]
  /\ unnoticed' \in BOOLEAN
  /\ unnoticed => unnoticed'
  /\ unnoticed' => Careless
  /\ pc' \notin {"prompt", "exited"} => line \in Line
  /\ pc' \in {"fork", "wait"} => ~cmds[line].piped

LEMMA ShellKeepsInv ==
  ASSUME Inv, KeepsItsTypes, KeepsItsState,
         \A c \in Child : fd'[c] = fd[c],
         \A k \in 1 .. line : pipe_fd'[k] = pipe_fd[k] \/ (k = line /\ pc = "pipe"),
         ~unnoticed' => ShellHolds',
         pc' \in {"pipe", "fork1", "fork"} => state'[First] = "unborn",
         pc' \in {"pipe", "fork1", "fork", "closewrite", "fork2", "wait", "read"} =>
           state'[Second] = "unborn",
         pc' = "wait2" => state'[First] \in Over,
         pc' = "prompt" /\ line # 0 /\ cmds[line].blocking =>
           /\ state'[First] \in Over
           /\ stage = "warmup4" \/ state'[Second] \in Over
  PROVE  Inv'
<1> USE DEF KeepsItsTypes
<1>1. /\ line \in Nat /\ line \in 0 .. MaxLines
      /\ \A k \in 1 .. line : k \in Line
      /\ \A k \in Line : <<k, 1>> \in Child /\ <<k, 2>> \in Child
  BY TypesOf, DescriptorsAssumption DEF Inv, Child, Line, DescriptorsAssumption
<1>2. StartTable' = StartTable /\ First' = First /\ Second' = Second
  BY DEF StartTable, First, Second
<1>3. TypeInv'
  <2>1. DescTypeOK'
    BY DEF DescTypeOK, Table, Inv, TypeInv, StagesTypeOK, ShellTypeOK
  <2> QED BY <2>1 DEF Inv, TypeInv, StagesTypeOK, ShellTypeOK, Careless
<1>4. ~unnoticed' => (ChildrenHold /\ ProgramsSeeTheirEnds)'
  <2> SUFFICES ASSUME ~unnoticed' PROVE (ChildrenHold /\ ProgramsSeeTheirEnds)'
    OBVIOUS
  <2>1. ~unnoticed /\ ChildrenHold /\ ProgramsSeeTheirEnds
    BY DEF Inv
  <2>2. ASSUME NEW k \in 1 .. line, cmds[k].piped
        PROVE  ChildHolds(k)'
    <3>1. CASE pipe_fd'[k] = pipe_fd[k]
      <4>1. ChildHolds(k)
        BY <2>1, <2>2 DEF ChildrenHold
      <4>2. \A i \in {1, 2} : state'[<<k, i>>] = "forked" =>
              state[<<k, i>>] = "forked" /\ fd'[<<k, i>>] = fd[<<k, i>>]
        BY <1>1 DEF KeepsItsState
      <4> QED BY <1>2, <3>1, <4>1, <4>2 DEF ChildHolds, Apart, BothEnds, OnlyRead
    <3>2. CASE k = line /\ pc = "pipe"
      <4>1. state[<<k, 1>>] = "unborn" /\ state[<<k, 2>>] = "unborn"
        BY <3>2 DEF Inv, NotYetForked, First, Second
      <4> QED BY <1>1, <4>1 DEF KeepsItsState, ChildHolds
    <3> QED BY <3>1, <3>2
  <2>3. ChildrenHold'
    BY <2>2 DEF ChildrenHold
  <2>4. ProgramsSeeTheirEnds'
    <3>1. \A k \in 1 .. line : \A i \in {1, 2} : state'[<<k, i>>] = "running" =>
            state[<<k, i>>] = "running" /\ fd'[<<k, i>>] = fd[<<k, i>>]
      BY <1>1 DEF KeepsItsState
    <3> DEFINE first(k) == [StartTable EXCEPT ![1] = WriteEnd(k)]
               second(k) == [StartTable EXCEPT ![0] = ReadEnd(k)]
    <3>2. \A k \in 1 .. line : cmds[k].piped =>
            /\ state[<<k, 1>>] = "running" => fd[<<k, 1>>] = first(k)
            /\ state[<<k, 2>>] = "running" => fd[<<k, 2>>] = second(k)
      BY <2>1 DEF ProgramsSeeTheirEnds
    <3>3. \A k : first(k)' = first(k) /\ second(k)' = second(k)
      BY <1>2 DEF WriteEnd, ReadEnd
    <3> HIDE DEF first, second
    <3>4. \A k \in 1 .. line : cmds[k].piped =>
            /\ state'[<<k, 1>>] = "running" => fd'[<<k, 1>>] = first(k)
            /\ state'[<<k, 2>>] = "running" => fd'[<<k, 2>>] = second(k)
      BY <3>1, <3>2
    <3>5. line' = line /\ cmds' = cmds
      OBVIOUS
    <3> QED BY <3>3, <3>4, <3>5 DEF ProgramsSeeTheirEnds, first, second
  <2> QED BY <2>3, <2>4
<1>5. \A c \in Child : (state[c] = "unborn" => state'[c] = "unborn")
                        /\ (state[c] \in Over => state'[c] \in Over)
  BY DEF KeepsItsState, Over
<1>6. NotYetForked'
  BY <1>1, <1>2, <1>5 DEF Inv, NotYetForked
<1>7. Collected'
  <2> SUFFICES ASSUME NEW k \in 1 .. line, cmds[k].blocking, k < line \/ pc' = "prompt"
               PROVE  /\ state'[<<k, 1>>] \in Over
                      /\ stage = "warmup4" \/ state'[<<k, 2>>] \in Over
    BY <1>2 DEF Collected
  <2>1. CASE k < line
    BY <1>1, <1>5, <2>1 DEF Inv, Collected
  <2>2. CASE k = line
    BY <1>1, <2>2 DEF First, Second
  <2> QED BY <1>1, <2>1, <2>2
<1> QED BY <1>3, <1>4, <1>6, <1>7 DEF Inv

LEMMA ShellIsNoChild == Shell \in Proc /\ Child \subseteq Proc /\ Shell \notin Child
BY DEF Shell, Child, Proc, Line

(* Where no pipe was made, what is unnoticed stays what it was.            *)
LEMMA Noticed ==
  ASSUME Inv, Remembers, ~(pc = "pipe" /\ pc' = "fork1" /\ fd' = fd)
  PROVE  UNCHANGED <<stage, DebugMode, unnoticed>> /\ unnoticed' \in BOOLEAN
         /\ (unnoticed' => Careless)
BY DEF Remembers, Inv, TypeInv, StagesTypeOK

LEMMA ExitKeepsInv ==
  ASSUME Inv, Quit \/ ForkFails \/ ExitFailure, Remembers
  PROVE  Inv'
<1>1. /\ pc' = "exited" /\ fd' = [fd EXCEPT ![Shell] = Empty]
      /\ UNCHANGED <<line, cmds, pipe_fd, startVars, buffer, state>>
  BY DEF Quit, ForkFails, ExitFailure
<1>2. Empty \in Table
  BY DEF Empty, Table, File
<1>3. KeepsItsTypes
  BY <1>1, <1>2, TypesOf, Noticed, ShellIsNoChild DEF Inv, KeepsItsTypes, startVars, Places
<1>4. KeepsItsState /\ \A c \in Child : fd'[c] = fd[c]
  BY <1>1, TypesOf, ShellIsNoChild DEF Inv, KeepsItsState
<1>5. ShellHolds'
  BY <1>1 DEF ShellHolds
<1> QED BY <1>1, <1>3, <1>4, <1>5, ShellKeepsInv

LEMMA MakePipeKeepsInv ==
  ASSUME Inv, MakePipe, Remembers
  PROVE  Inv'
<1> DEFINE t == fd[Shell]
           r == PipeFds(t)[1]
           w == PipeFds(t)[2]
<1>1. /\ pc = "pipe" /\ pc' = "fork1" /\ line \in Line
      /\ Cardinality(Free(t)) >= 2
      /\ pipe_fd' = [pipe_fd EXCEPT ![line] = [read |-> r, write |-> w]]
      /\ fd' = [fd EXCEPT ![Shell] = [t EXCEPT ![r] = ReadEnd(line), ![w] = WriteEnd(line)]]
      /\ UNCHANGED <<line, cmds, startVars, buffer, state>>
  BY DEF MakePipe, Inv, TypeInv
<1>2. t \in Table
  BY TypesOf, ShellIsNoChild DEF Inv
<1>3. /\ r \in Fds /\ t[r] = None /\ w \in Fds /\ t[w] = None /\ r # w
      /\ t[0] # None => w # 1
  BY <1>1, <1>2, PipeFdsFree
<1> HIDE DEF r, w
<1>4. fd' # fd
  <2>1. fd'[Shell][r] = ReadEnd(line)
    BY <1>1, <1>2, <1>3, TypesOf, ShellIsNoChild DEF Inv, Table
  <2> QED BY <1>1, <1>3, <2>1, Files
<1>5. KeepsItsTypes
  <2>1. [t EXCEPT ![r] = ReadEnd(line), ![w] = WriteEnd(line)] \in Table
    BY <1>1, <1>2, Files DEF Table
  <2>2. fd' \in [Proc -> Table]
    BY <1>1, <2>1, TypesOf DEF Inv
  <2>3. pipe_fd' \in [Line -> [read : Fds, write : Fds]]
    BY <1>1, <1>3, TypesOf DEF Inv
  <2> QED BY <1>1, <1>4, <2>2, <2>3, TypesOf, Noticed DEF Inv, KeepsItsTypes, startVars, Places
<1>6. KeepsItsState /\ \A c \in Child : fd'[c] = fd[c]
  BY <1>1, TypesOf, ShellIsNoChild DEF Inv, KeepsItsState
<1>7. \A k \in 1 .. line : pipe_fd'[k] = pipe_fd[k] \/ k = line
  <2>1. \A k \in 1 .. line : k \in Line
    BY TypesOf, DescriptorsAssumption DEF Inv, Line, DescriptorsAssumption
  <2> QED BY <1>1, <2>1, TypesOf DEF Inv
<1>8. ASSUME ~unnoticed' PROVE ShellHolds'
  <2>1. t = StartTable /\ StartTable' = StartTable /\ t[0] # None
    BY <1>1, <1>8, TypesOf DEF Inv, Remembers, ShellHolds, StartTable, startVars
  <2>2. pipe_fd'[line].read = r /\ pipe_fd'[line].write = w
    BY <1>1, TypesOf DEF Inv
  <2>3. Apart(line)'
    BY <1>1, <1>3, <2>1, <2>2 DEF Apart
  <2>4. fd'[Shell] = [StartTable EXCEPT ![r] = ReadEnd(line), ![w] = WriteEnd(line)]
    BY <1>1, <2>1, TypesOf, ShellIsNoChild DEF Inv
  <2>5. BothEnds(line)' = [StartTable EXCEPT ![r] = ReadEnd(line), ![w] = WriteEnd(line)]
    BY <1>1, <2>1, <2>2 DEF BothEnds
  <2> QED BY <1>1, <2>3, <2>4, <2>5 DEF ShellHolds
<1>9. state'[First] = "unborn" /\ state'[Second] = "unborn"
  BY <1>1 DEF Inv, NotYetForked
<1> QED BY <1>1, <1>5, <1>6, <1>7, <1>8, <1>9, ShellKeepsInv

LEMMA PipeFailsKeepsInv ==
  ASSUME Inv, PipeFails, Remembers
  PROVE  Inv'
<1>1. /\ pc = "pipe" /\ pc' = "prompt" /\ line \in Line
      /\ UNCHANGED <<line, cmds, pipe_fd, startVars, fd, buffer, state>>
  BY DEF PipeFails, descVars, Inv, TypeInv
<1>2. KeepsItsTypes
  BY <1>1, TypesOf, Noticed DEF Inv, KeepsItsTypes, startVars, Places
<1>3. KeepsItsState
  BY <1>1 DEF KeepsItsState
<1>4. ~unnoticed' => ShellHolds'
  BY <1>1, Noticed DEF Inv, ShellHolds, StartTable, startVars
<1>5. state'[First] \in Over /\ state'[Second] \in Over
  BY <1>1 DEF Inv, NotYetForked, Over
<1> QED BY <1>1, <1>2, <1>3, <1>4, <1>5, ShellKeepsInv

LEMMA PipeFailsUnwrittenKeepsInv ==
  ASSUME Inv, PipeFailsUnwritten, Careless, Remembers
  PROVE  Inv'
<1>1. /\ pc = "pipe" /\ pc' = "fork1" /\ line \in Line
      /\ UNCHANGED <<line, cmds, startVars, fd, buffer, state>>
  BY DEF PipeFailsUnwritten, descVars, Inv, TypeInv
<1>2. unnoticed' = TRUE /\ UNCHANGED <<stage, DebugMode>>
  BY <1>1 DEF Remembers
<1>3. PICK r \in Fds, w \in Fds :
        pipe_fd' = [pipe_fd EXCEPT ![line] = [read |-> r, write |-> w]]
  BY DEF PipeFailsUnwritten
<1>4. KeepsItsTypes
  <2>1. pipe_fd' \in [Line -> [read : Fds, write : Fds]]
    BY <1>3, TypesOf DEF Inv
  <2> QED BY <1>1, <1>2, <2>1, TypesOf DEF Inv, KeepsItsTypes, startVars, Places
<1>5. KeepsItsState
  BY <1>1 DEF KeepsItsState
<1>6. \A k \in 1 .. line : pipe_fd'[k] = pipe_fd[k] \/ k = line
  <2>1. \A k \in 1 .. line : k \in Line
    BY TypesOf, DescriptorsAssumption DEF Inv, Line, DescriptorsAssumption
  <2> QED BY <1>3, <2>1, TypesOf DEF Inv
<1>7. state'[First] = "unborn" /\ state'[Second] = "unborn"
  BY <1>1 DEF Inv, NotYetForked
<1> QED BY <1>1, <1>2, <1>4, <1>5, <1>6, <1>7, ShellKeepsInv

(* While the shell holds a descriptor of its pipe, closing it succeeds.    *)
LEMMA Closes ==
  ASSUME Inv, NEW f, NEW here, NEW next,
         \/ here = "closewrite" /\ f = pipe_fd[line].write
         \/ here = "closeread" /\ f = pipe_fd[line].read,
         \/ ParentClose(f, here, next) /\ ~Careless
         \/ ParentClosesAnyway(f, here, next)
  PROVE  \E t \in Table :
           /\ pc = here /\ pc' = next /\ line \in Line
           /\ fd' = [fd EXCEPT ![Shell] = t]
           /\ ~unnoticed => t = [fd[Shell] EXCEPT ![f] = None]
           /\ UNCHANGED <<line, cmds, pipe_fd, startVars, buffer, state>>
<1> DEFINE t == fd[Shell]
<1>1. t \in Table
  BY TypesOf, ShellIsNoChild DEF Inv
<1>2. pc = here /\ line \in Line /\ UNCHANGED <<line, cmds, pipe_fd, startVars, buffer, state>>
  BY DEF ParentClose, ParentClosesAnyway, Inv, TypeInv
<1>3. f \in Fds
  BY <1>2, TypesOf DEF Inv
<1>4. ~unnoticed => t[f] # None
  <2> SUFFICES ASSUME ~unnoticed PROVE t[f] # None
    OBVIOUS
  <2>1. ShellHolds /\ StartTable \in Table
    BY TypesOf DEF Inv
  <2>2. ReadEnd(line) # None /\ WriteEnd(line) # None
    BY <1>2, Files
  <2>3. CASE here = "closewrite" /\ f = pipe_fd[line].write
    <3>1. t = BothEnds(line) /\ Apart(line)
      BY <1>2, <2>1, <2>3 DEF ShellHolds
    <3> QED BY <1>3, <2>1, <2>2, <2>3, <3>1 DEF BothEnds, Apart, Table
  <2>4. CASE here = "closeread" /\ f = pipe_fd[line].read
    <3>1. t = OnlyRead(line)
      BY <1>2, <2>1, <2>4 DEF ShellHolds
    <3> QED BY <1>3, <2>1, <2>2, <2>4, <3>1 DEF OnlyRead, Table
  <2> QED BY <2>3, <2>4
<1>5. ~unnoticed => Close(t, f) = [t EXCEPT ![f] = None] /\ Close(t, f) # Failed
  <2> SUFFICES ASSUME ~unnoticed
               PROVE  Close(t, f) = [t EXCEPT ![f] = None] /\ Close(t, f) # Failed
    OBVIOUS
  <2>1. t # Failed /\ t[f] # None
    BY <1>1, <1>4, NotFailed
  <2>2. Close(t, f) = [t EXCEPT ![f] = None]
    BY <1>3, <2>1 DEF Close
  <2>3. [t EXCEPT ![f] = None] \in Table
    BY <1>1 DEF Table, File
  <2> QED BY <2>2, <2>3, NotFailed
<1>6. CASE ParentClose(f, here, next) /\ ~Careless
  <2>1. ~unnoticed
    BY <1>6 DEF Inv, TypeInv
  <2>2. pc' = next /\ fd' = [fd EXCEPT ![Shell] = Close(t, f)]
    BY <1>5, <1>6, <2>1 DEF ParentClose
  <2>3. Close(t, f) \in Table
    BY <1>1, <1>5, <2>1, CloseTable
  <2> QED BY <1>2, <1>5, <2>1, <2>2, <2>3
<1>7. CASE ParentClosesAnyway(f, here, next)
  <2>1. pc' = next /\ fd' = [fd EXCEPT ![Shell] = CloseAnyway(t, f)]
    BY <1>7 DEF ParentClosesAnyway
  <2>2. CloseAnyway(t, f) \in Table
    BY <1>1, AnywayTable
  <2>3. ~unnoticed => CloseAnyway(t, f) = [t EXCEPT ![f] = None]
    BY <1>5 DEF CloseAnyway
  <2> QED BY <1>2, <2>1, <2>2, <2>3
<1> QED BY <1>6, <1>7

LEMMA CloseWriteKeepsInv ==
  ASSUME Inv, NEW next \in {"fork2", "read"}, Remembers,
         \/ ParentClose(pipe_fd[line].write, "closewrite", next) /\ ~Careless
         \/ ParentClosesAnyway(pipe_fd[line].write, "closewrite", next)
  PROVE  Inv'
<1> DEFINE r == pipe_fd[line].read
           w == pipe_fd[line].write
<1>1. PICK t \in Table :
        /\ pc = "closewrite" /\ pc' = next /\ line \in Line
        /\ fd' = [fd EXCEPT ![Shell] = t]
        /\ ~unnoticed => t = [fd[Shell] EXCEPT ![w] = None]
        /\ UNCHANGED <<line, cmds, pipe_fd, startVars, buffer, state>>
  BY Closes
<1>2. KeepsItsTypes
  <2>1. fd' \in [Proc -> Table]
    BY <1>1, TypesOf DEF Inv
  <2> QED BY <1>1, <2>1, TypesOf, Noticed DEF Inv, KeepsItsTypes, startVars, Places
<1>3. KeepsItsState /\ \A c \in Child : fd'[c] = fd[c]
  BY <1>1, TypesOf, ShellIsNoChild DEF Inv, KeepsItsState
<1>4. ASSUME ~unnoticed' PROVE ShellHolds'
  <2>1. ~unnoticed
    BY <1>4 DEF Remembers
  <2>2. Apart(line) /\ fd[Shell] = BothEnds(line)
    BY <1>1, <2>1 DEF Inv, ShellHolds
  <2>3. StartTable' = StartTable
    BY <1>1 DEF StartTable, startVars
  <2>4. Apart(line)' /\ OnlyRead(line)' = OnlyRead(line)
    BY <1>1, <2>2, <2>3 DEF Apart, OnlyRead
  <2>5. r \in Fds /\ w \in Fds /\ StartTable \in Table
    BY <1>1, TypesOf DEF Inv
  <2>6. [BothEnds(line) EXCEPT ![w] = None] = OnlyRead(line)
    BY <2>2, <2>5 DEF BothEnds, OnlyRead, Apart, Table
  <2>7. fd'[Shell] = OnlyRead(line)'
    BY <1>1, <2>1, <2>2, <2>4, <2>6, TypesOf, ShellIsNoChild DEF Inv
  <2> QED BY <1>1, <2>4, <2>7 DEF ShellHolds
<1>5. state'[Second] = "unborn"
  BY <1>1 DEF Inv, NotYetForked
<1> QED BY <1>1, <1>2, <1>3, <1>4, <1>5, ShellKeepsInv

LEMMA CloseReadKeepsInv ==
  ASSUME Inv, NEW next \in {"wait1", "wait"}, next = "wait" => stage = "mypipe", Remembers,
         \/ ParentClose(pipe_fd[line].read, "closeread", next) /\ ~Careless
         \/ ParentClosesAnyway(pipe_fd[line].read, "closeread", next)
  PROVE  Inv'
<1> DEFINE r == pipe_fd[line].read
<1>1. PICK t \in Table :
        /\ pc = "closeread" /\ pc' = next /\ line \in Line
        /\ fd' = [fd EXCEPT ![Shell] = t]
        /\ ~unnoticed => t = [fd[Shell] EXCEPT ![r] = None]
        /\ UNCHANGED <<line, cmds, pipe_fd, startVars, buffer, state>>
  BY Closes
<1>2. pc' = "wait" => ~cmds[line].piped /\ state[Second] = "unborn"
  <2>1. line \in 1 .. line
    BY <1>1, DescriptorsAssumption DEF Line, DescriptorsAssumption
  <2> QED BY <1>1, <2>1 DEF Inv, TypeInv, NotYetForked, Singles, Second
<1>3. KeepsItsTypes
  <2>1. fd' \in [Proc -> Table]
    BY <1>1, TypesOf DEF Inv
  <2> QED BY <1>1, <1>2, <2>1, TypesOf, Noticed DEF Inv, KeepsItsTypes, startVars, Places
<1>4. KeepsItsState /\ \A c \in Child : fd'[c] = fd[c]
  BY <1>1, TypesOf, ShellIsNoChild DEF Inv, KeepsItsState
<1>5. ASSUME ~unnoticed' PROVE ShellHolds'
  <2>1. ~unnoticed
    BY <1>5 DEF Remembers
  <2>2. Apart(line) /\ fd[Shell] = OnlyRead(line)
    BY <1>1, <2>1 DEF Inv, ShellHolds
  <2>3. StartTable' = StartTable
    BY <1>1 DEF StartTable, startVars
  <2>4. r \in Fds /\ StartTable \in Table
    BY <1>1, TypesOf DEF Inv
  <2>5. [OnlyRead(line) EXCEPT ![r] = None] = StartTable
    BY <2>2, <2>4 DEF OnlyRead, Apart, Table
  <2>6. fd'[Shell] = StartTable'
    BY <1>1, <2>1, <2>2, <2>3, <2>5, TypesOf, ShellIsNoChild DEF Inv
  <2> QED BY <1>1, <2>6 DEF ShellHolds
<1> QED BY <1>1, <1>2, <1>3, <1>4, <1>5, ShellKeepsInv

LEMMA WaitKeepsInv ==
  ASSUME Inv, Remembers,
         \/ WaitFirst \/ WaitSecond \/ WaitSingle
         \/ stage = "warmup4" /\ WarmupWait
  PROVE  Inv'
<1>1. PICK i \in {1, 2} :
        /\ pc \in {"wait", "wait1", "wait2"} /\ line \in Line /\ pc' \in {"prompt", "wait2"}
        /\ Waited(<<line, i>>)
        /\ UNCHANGED <<line, cmds, pipe_fd, startVars>>
        /\ pc' = "wait2" => i = 1
        /\ pc' = "prompt" /\ cmds[line].blocking =>
             \/ pc = "wait1" /\ i = 1 /\ stage = "warmup4"
             \/ pc = "wait2" /\ i = 2
             \/ pc = "wait" /\ i = 1
  BY DEF WaitFirst, WaitSecond, WaitSingle, WarmupWait, WaitLast, First, Second, Inv, TypeInv
<1> DEFINE c == <<line, i>>
<1>2. /\ c \in Child /\ state[c] \in {"zombie", "reaped"}
      /\ state' = [state EXCEPT ![c] = "reaped"]
      /\ UNCHANGED <<fd, buffer>>
  BY <1>1 DEF Waited, Ended, Child
<1>3. /\ state'[c] = "reaped"
      /\ \A d \in Child : d # c => state'[d] = state[d]
  BY <1>2, TypesOf DEF Inv
<1>4. KeepsItsTypes
  <2>1. state' \in [Child -> {"unborn", "forked", "running", "zombie", "reaped"}]
    BY <1>2, TypesOf DEF Inv
  <2> QED BY <1>1, <1>2, <2>1, TypesOf, Noticed DEF Inv, KeepsItsTypes, startVars, Places
<1>5. KeepsItsState
  BY <1>2, <1>3 DEF KeepsItsState
<1>6. ~unnoticed' => ShellHolds'
  BY <1>1, <1>2, Noticed DEF Inv, ShellHolds, StartTable, startVars
<1>7. /\ First \in Child /\ Second \in Child /\ First # Second
      /\ c = IF i = 1 THEN First ELSE Second
  BY <1>1 DEF First, Second, Child
<1>8. pc' = "wait2" => state'[First] \in Over
  BY <1>1, <1>3, <1>7 DEF Over
<1>9. pc' = "prompt" /\ cmds[line].blocking =>
        state'[First] \in Over /\ (stage = "warmup4" \/ state'[Second] \in Over)
  <2> SUFFICES ASSUME pc' = "prompt", cmds[line].blocking
               PROVE  state'[First] \in Over /\ (stage = "warmup4" \/ state'[Second] \in Over)
    OBVIOUS
  <2>1. CASE pc = "wait1" /\ i = 1 /\ stage = "warmup4"
    BY <1>3, <1>7, <2>1 DEF Over
  <2>2. CASE pc = "wait2" /\ i = 2
    BY <1>3, <1>7, <2>2 DEF Over, Inv, Collected
  <2>3. CASE pc = "wait" /\ i = 1
    BY <1>3, <1>7, <2>3 DEF Over, Inv, NotYetForked
  <2> QED BY <1>1, <2>1, <2>2, <2>3
<1> QED BY <1>1, <1>2, <1>4, <1>5, <1>6, <1>8, <1>9, ShellKeepsInv

LEMMA ReadKeepsInv ==
  ASSUME Inv, Remembers, ReadMessage \/ ReadReturnsZero
  PROVE  Inv'
<1>1. /\ pc = "read" /\ pc' \in {"read", "closeread"} /\ line \in Line
      /\ UNCHANGED <<line, cmds, pipe_fd, startVars, fd, state>>
  BY DEF ReadMessage, ReadReturnsZero, shellVars, descVars, Inv, TypeInv
<1>2. buffer' \in [Line -> 0 .. Cap]
  <2>1. buffer \in [Line -> 0 .. Cap] /\ Cap \in Nat
    BY TypesOf, DescriptorsAssumption DEF Inv, DescriptorsAssumption
  <2>2. CASE ReadMessage
    BY <1>1, <2>1, <2>2 DEF ReadMessage
  <2>3. CASE ReadReturnsZero
    BY <2>1, <2>3 DEF ReadReturnsZero, descVars
  <2> QED BY <2>2, <2>3
<1>3. KeepsItsTypes
  BY <1>1, <1>2, TypesOf, Noticed DEF Inv, KeepsItsTypes, startVars, Places
<1>4. KeepsItsState
  BY <1>1 DEF KeepsItsState
<1>5. ~unnoticed' => ShellHolds'
  BY <1>1, Noticed DEF Inv, ShellHolds, StartTable, startVars, Apart, OnlyRead
<1>6. state'[Second] = "unborn"
  BY <1>1 DEF Inv, NotYetForked
<1> QED BY <1>1, <1>3, <1>4, <1>5, <1>6, ShellKeepsInv

-----------------------------------------------------------------------------
(* A fork gives the child what the shell holds there.                      *)
LEMMA ForkKeepsInv ==
  ASSUME Inv, Remembers, NEW i \in {1, 2}, NEW here, NEW next,
         ForkAs(<<line, i>>, here, next),
         \/ i = 1 /\ here = "fork1" /\ next = "closewrite"
         \/ i = 2 /\ here = "fork2" /\ next = "closeread" /\ stage # "mypipe"
         \/ i = 1 /\ here = "fork" /\ next \in {"wait", "prompt"}
               /\ (next = "prompt" => ~cmds[line].blocking)
  PROVE  Inv'
<1> DEFINE c == <<line, i>>
<1>1. /\ pc = here /\ pc' = next /\ line \in Line
      /\ state' = [state EXCEPT ![c] = "forked"]
      /\ fd' = [fd EXCEPT ![c] = fd[Shell]]
      /\ UNCHANGED <<line, cmds, pipe_fd, startVars, buffer>>
      /\ UNCHANGED <<stage, DebugMode, unnoticed>>
  BY Noticed DEF ForkAs, ForkChild, Inv, TypeInv
<1>2. /\ line \in Nat /\ c \in Child /\ c \in Proc /\ c # Shell
      /\ \A k \in 1 .. line : k \in Line
      /\ \A k \in Line : <<k, 1>> \in Child /\ <<k, 2>> \in Child
      /\ StartTable' = StartTable /\ First' = First /\ Second' = Second
  BY <1>1, TypesOf, ShellIsNoChild, DescriptorsAssumption
     DEF Inv, Child, Line, DescriptorsAssumption, StartTable, First, Second, startVars
<1>3. /\ state'[c] = "forked" /\ fd'[c] = fd[Shell] /\ fd'[Shell] = fd[Shell]
      /\ \A d \in Child : d # c => state'[d] = state[d] /\ fd'[d] = fd[d]
  BY <1>1, <1>2, TypesOf, ShellIsNoChild DEF Inv
<1>4. TypeInv'
  <2>1. /\ fd' \in [Proc -> Table]
        /\ state' \in [Child -> {"unborn", "forked", "running", "zombie", "reaped"}]
    BY <1>1, <1>2, TypesOf, ShellIsNoChild DEF Inv
  <2>2. DescTypeOK'
    BY <1>1, <2>1 DEF DescTypeOK, Table, Inv, TypeInv, StagesTypeOK, ShellTypeOK, startVars
  <2>3. pc' \in Places /\ (pc' \in {"fork", "wait"} => ~cmds[line].piped)
    BY <1>1 DEF Places, Inv, TypeInv
  <2> QED BY <1>1, <2>2, <2>3 DEF Inv, TypeInv, StagesTypeOK, ShellTypeOK, Careless, startVars
<1>5. ~unnoticed' => (ShellHolds /\ ChildrenHold /\ ProgramsSeeTheirEnds)'
  <2> SUFFICES ASSUME ~unnoticed
               PROVE  (ShellHolds /\ ChildrenHold /\ ProgramsSeeTheirEnds)'
    BY <1>1
  <2>1. ShellHolds /\ ChildrenHold /\ ProgramsSeeTheirEnds
    BY DEF Inv
  <2>2. ShellHolds'
    BY <1>1, <1>2, <1>3, <2>1 DEF ShellHolds, Apart, BothEnds, OnlyRead
  <2>3. ASSUME NEW k \in 1 .. line, cmds[k].piped
        PROVE  ChildHolds(k)'
    <3>1. ChildHolds(k)
      BY <2>1, <2>3 DEF ChildrenHold
    <3>2. CASE k # line
      BY <1>1, <1>2, <1>3, <3>1, <3>2 DEF ChildHolds, Apart, BothEnds, OnlyRead
    <3>3. CASE k = line
      <4>1. here # "fork"
        BY <1>1, <2>3, <3>3 DEF Inv, TypeInv
      <4>2. CASE i = 1
        <5>1. Apart(line) /\ fd[Shell] = BothEnds(line) /\ state[<<line, 2>>] = "unborn"
          BY <1>1, <2>1, <4>1, <4>2 DEF ShellHolds, Inv, NotYetForked, Second
        <5>2. <<line, 2>> \in Child /\ <<line, 2>> # c
          BY <1>1, <1>2, <4>2
        <5>3. Apart(line)' /\ BothEnds(line)' = BothEnds(line)
          BY <1>1, <1>2, <5>1 DEF Apart, BothEnds
        <5>4. state'[<<line, 2>>] = "unborn" /\ fd'[<<line, 1>>] = BothEnds(line)'
          BY <1>3, <4>2, <5>1, <5>2, <5>3
        <5> QED BY <1>1, <3>3, <5>3, <5>4 DEF ChildHolds
      <4>3. CASE i = 2
        <5>1. Apart(line) /\ fd[Shell] = OnlyRead(line)
          BY <1>1, <2>1, <4>1, <4>3 DEF ShellHolds
        <5>2. /\ state'[<<line, 1>>] = state[<<line, 1>>]
              /\ fd'[<<line, 1>>] = fd[<<line, 1>>]
          BY <1>1, <1>2, <1>3, <4>3
        <5>3. Apart(line)' /\ OnlyRead(line)' = OnlyRead(line) /\ BothEnds(line)' = BothEnds(line)
          BY <1>1, <1>2, <5>1 DEF Apart, OnlyRead, BothEnds
        <5>4. fd'[<<line, 2>>] = OnlyRead(line)'
          BY <1>3, <4>3, <5>1, <5>3
        <5> QED BY <1>1, <3>1, <3>3, <5>2, <5>3, <5>4 DEF ChildHolds
      <4> QED BY <4>2, <4>3
    <3> QED BY <3>2, <3>3
  <2>4. ChildrenHold'
    BY <1>1, <2>3 DEF ChildrenHold
  <2>5. ProgramsSeeTheirEnds'
    <3>1. \A k \in 1 .. line : \A j \in {1, 2} : state'[<<k, j>>] = "running" =>
            state[<<k, j>>] = "running" /\ fd'[<<k, j>>] = fd[<<k, j>>]
      BY <1>2, <1>3
    <3> QED BY <1>1, <1>2, <2>1, <3>1 DEF ProgramsSeeTheirEnds
  <2> QED BY <2>2, <2>4, <2>5
<1>6. NotYetForked'
  <2>1. ASSUME NEW k \in Line, k > line
        PROVE  state'[<<k, 1>>] = "unborn" /\ state'[<<k, 2>>] = "unborn"
    BY <1>1, <1>2, <1>3, <2>1 DEF Inv, NotYetForked, Line
  <2>2. pc' \in {"closewrite", "wait"} => state'[Second] = "unborn"
    <3> SUFFICES ASSUME pc' \in {"closewrite", "wait"} PROVE state'[Second] = "unborn"
      OBVIOUS
    <3>1. i = 1 /\ pc \in {"fork1", "fork"}
      BY <1>1
    <3>2. state[Second] = "unborn" /\ Second # c /\ Second \in Child
      BY <1>1, <1>2, <3>1 DEF Inv, NotYetForked, Second
    <3> QED BY <1>3, <3>2
  <2>3. ASSUME stage = "mypipe", NEW k \in Line
        PROVE  state'[<<k, 2>>] = "unborn"
    <3>1. i = 1
      BY <2>3
    <3>2. <<k, 2>>[2] # c[2]
      BY <3>1
    <3>3. <<k, 2>> \in Child
      BY <1>2
    <3>4. state[<<k, 2>>] = "unborn"
      BY <2>3 DEF Inv, NotYetForked
    <3> HIDE DEF c
    <3> QED BY <1>3, <3>2, <3>3, <3>4
  <2> QED BY <1>1, <1>2, <2>1, <2>2, <2>3 DEF NotYetForked
<1>7. Collected'
  <2> SUFFICES ASSUME NEW k \in 1 .. line, cmds[k].blocking, k < line \/ next = "prompt"
               PROVE  /\ state'[<<k, 1>>] \in Over
                      /\ stage = "warmup4" \/ state'[<<k, 2>>] \in Over
    BY <1>1 DEF Collected
  <2>1. k < line
    BY <1>1, <1>2
  <2>2. /\ state[<<k, 1>>] \in Over
        /\ stage = "warmup4" \/ state[<<k, 2>>] \in Over
    BY <2>1 DEF Inv, Collected
  <2>3. \A j \in {1, 2} : state'[<<k, j>>] = state[<<k, j>>]
    <3>1. k # line /\ \A j \in {1, 2} : <<k, j>> \in Child
      BY <1>2, <2>1
    <3>2. \A j \in {1, 2} : <<k, j>>[1] # c[1]
      BY <3>1
    <3> HIDE DEF c
    <3> QED BY <1>3, <3>1, <3>2
  <2> QED BY <2>2, <2>3
<1> QED BY <1>1, <1>4, <1>5, <1>6, <1>7 DEF Inv

-----------------------------------------------------------------------------
(* A line that is read: nothing of it exists yet.                          *)
LEMMA LineKeepsInv ==
  ASSUME Inv, Remembers, NEW cmd \in Cmd,
         pc = "prompt", line < MaxLines, line' = line + 1,
         cmds' = [k \in 1 .. line + 1 |-> IF k = line + 1 THEN cmd ELSE cmds[k]],
         pc' \in {"pipe", "fork"}, pc' = "fork" => ~cmd.piped,
         UNCHANGED <<pipe_fd, startVars, descVars>>,
         stage \in Singles => ~cmd.piped,
         stage = "mypipeline" => line = 0
  PROVE  Inv'
<1>1. /\ line \in Nat /\ MaxLines \in Nat /\ line' \in 1 .. MaxLines /\ line' \in Line
      /\ \A k \in 1 .. line : k \in Line
      /\ \A k \in 1 .. line' : k \in 1 .. line \/ k = line'
      /\ StartTable' = StartTable
  BY TypesOf, DescriptorsAssumption DEF Inv, Line, DescriptorsAssumption, StartTable, startVars
<1>2. /\ cmds' \in [1 .. line' -> Cmd] /\ cmds'[line'] = cmd
      /\ \A k \in 1 .. line : cmds'[k] = cmds[k]
  BY <1>1, TypesOf DEF Inv
<1>3. UNCHANGED <<stage, DebugMode, unnoticed>>
  BY Noticed
<1>4. TypeInv'
  <2>1. StagesTypeOK'
    BY <1>1, <1>2, <1>3
       DEF Inv, TypeInv, StagesTypeOK, ShellTypeOK, DescTypeOK, descVars, startVars, Places
  <2>2. stage \in Singles => \A k \in 1 .. line' : ~cmds'[k].piped
    BY <1>1, <1>2 DEF Inv, TypeInv
  <2>3. pc' \in {"fork", "wait"} => ~cmds'[line'].piped
    BY <1>2
  <2> QED BY <1>1, <1>3, <2>1, <2>2, <2>3 DEF Inv, TypeInv, Careless, startVars
<1>5. state[<<line', 1>>] = "unborn" /\ state[<<line', 2>>] = "unborn"
  BY <1>1 DEF Inv, NotYetForked
<1>6. ~unnoticed' => (ShellHolds /\ ChildrenHold /\ ProgramsSeeTheirEnds)'
  <2> SUFFICES ASSUME ~unnoticed
               PROVE  (ShellHolds /\ ChildrenHold /\ ProgramsSeeTheirEnds)'
    BY <1>3
  <2>1. ShellHolds /\ ChildrenHold /\ ProgramsSeeTheirEnds
    BY DEF Inv
  <2>2. ShellHolds'
    BY <1>1, <2>1 DEF ShellHolds, descVars
  <2>3. ASSUME NEW k \in 1 .. line', cmds'[k].piped
        PROVE  ChildHolds(k)'
    BY <1>1, <1>2, <1>5, <2>1, <2>3
       DEF ChildrenHold, ChildHolds, Apart, BothEnds, OnlyRead, descVars
  <2>4. ChildrenHold'
    BY <2>3 DEF ChildrenHold
  <2>5. ProgramsSeeTheirEnds'
    BY <1>1, <1>2, <1>5, <2>1 DEF ProgramsSeeTheirEnds, descVars
  <2> QED BY <2>2, <2>4, <2>5
<1>7. NotYetForked'
  <2>1. \A k \in Line : k > line' => state[<<k, 1>>] = "unborn" /\ state[<<k, 2>>] = "unborn"
    BY <1>1 DEF Inv, NotYetForked, Line
  <2> QED BY <1>3, <1>5, <2>1 DEF Inv, NotYetForked, First, Second, descVars
<1>8. Collected'
  <2> SUFFICES ASSUME NEW k \in 1 .. line', cmds'[k].blocking, k < line'
               PROVE  /\ state[<<k, 1>>] \in Over
                      /\ stage = "warmup4" \/ state[<<k, 2>>] \in Over
    BY <1>3 DEF Collected, descVars
  <2> QED BY <1>1, <1>2 DEF Inv, Collected
<1> QED BY <1>3, <1>4, <1>6, <1>7, <1>8 DEF Inv, TypeInv, StagesTypeOK

LEMMA ReadLineKeepsInv ==
  ASSUME Inv, Remembers, NEW cmd \in Cmd, ReadLine(cmd),
         stage \in Singles => ~cmd.piped, stage = "mypipeline" => line = 0
  PROVE  Inv'
<1>1. /\ pc' \in {"pipe", "fork"} /\ (pc' = "fork" => ~cmd.piped)
  BY DEF ReadLine
<1> QED BY <1>1, LineKeepsInv DEF ReadLine

LEMMA MyPipeStartKeepsInv ==
  ASSUME Inv, Remembers, MyPipeStart, stage = "mypipe"
  PROVE  Inv'
<1> DEFINE cmd == [piped |-> FALSE, blocking |-> TRUE]
<1>1. cmd \in Cmd /\ ~cmd.piped
  BY DEF Cmd
<1>2. line = 0 /\ line < MaxLines /\ line' = line + 1 /\ pc = "prompt" /\ pc' = "pipe"
      /\ UNCHANGED <<pipe_fd, startVars, descVars>> /\ cmds' = [k \in 1 .. 1 |-> cmd]
  BY DescriptorsAssumption DEF MyPipeStart, DescriptorsAssumption
<1>3. cmds' = [k \in 1 .. line + 1 |-> IF k = line + 1 THEN cmd ELSE cmds[k]]
  <2> HIDE DEF cmd
  <2> QED BY <1>2
<1> HIDE DEF cmd
<1> QED BY <1>1, <1>2, <1>3, LineKeepsInv

-----------------------------------------------------------------------------
(* The shells and programs, stage by stage.                                *)

LEMMA PromptsKeepInv ==
  ASSUME Inv, Prompts, Remembers
  PROVE  Inv'
<1>1. CASE Quit
  BY <1>1, ExitKeepsInv
<1>2. CASE stage = "mypipe" /\ MyPipeStart
  BY <1>2, MyPipeStartKeepsInv
<1>3. CASE stage \in {"task1", "task2", "warmup2"} /\ \E cmd \in Cmd : ReadLine(FirstOnly(cmd))
  <2>1. PICK cmd \in Cmd : ReadLine(FirstOnly(cmd))
    BY <1>3
  <2>2. FirstOnly(cmd) \in Cmd /\ ~FirstOnly(cmd).piped
    BY DEF FirstOnly, Cmd
  <2> QED BY <1>3, <2>1, <2>2, ReadLineKeepsInv
<1>4. CASE stage \in {"task3", "mypipeline"} /\ line = 0
           /\ ReadLine([piped |-> TRUE, blocking |-> TRUE])
  <2>1. [piped |-> TRUE, blocking |-> TRUE] \in Cmd /\ stage \notin Singles
    BY <1>4 DEF Cmd, Singles
  <2> QED BY <1>4, <2>1, ReadLineKeepsInv
<1>5. CASE stage \in {"actual4", "warmup4"} /\ \E cmd \in Cmd : ReadLine(cmd)
  <2>1. PICK cmd \in Cmd : ReadLine(cmd)
    BY <1>5
  <2>2. stage \notin Singles /\ stage # "mypipeline"
    BY <1>5 DEF Singles
  <2> QED BY <2>1, <2>2, ReadLineKeepsInv
<1> QED BY <1>1, <1>2, <1>3, <1>4, <1>5
   DEF Prompts, Task1Loop, Task2Loop, Warmup2Loop, Task3Main, WarmupLoop, MyPipelineMain, MyPipeMain

(* The steps of a program that has read a line, and which stages take them. *)
ShellStep ==
  \/ MakePipe \/ PipeFails \/ (Careless /\ PipeFailsUnwritten)
  \/ Fork1 \/ ForkSingle \/ (stage # "mypipe" /\ Fork2)
  \/ ForkFails \/ ExitFailure
  \/ \E next \in {"fork2", "read"} :
       \/ ParentClose(pipe_fd[line].write, "closewrite", next) /\ ~Careless
       \/ ParentClosesAnyway(pipe_fd[line].write, "closewrite", next)
  \/ \E next \in {"wait1", "wait"} : (next = "wait" => stage = "mypipe") /\
       \/ ParentClose(pipe_fd[line].read, "closeread", next) /\ ~Careless
       \/ ParentClosesAnyway(pipe_fd[line].read, "closeread", next)
  \/ WaitFirst \/ WaitSecond \/ WaitSingle \/ (stage = "warmup4" /\ WarmupWait)
  \/ ReadMessage \/ ReadReturnsZero

LEMMA ShellStepKeepsInv ==
  ASSUME Inv, ShellStep, Remembers
  PROVE  Inv'
<1>1. CASE Fork1
  BY <1>1, ForkKeepsInv DEF Fork1, First
<1>2. CASE stage # "mypipe" /\ Fork2
  BY <1>2, ForkKeepsInv DEF Fork2, Second
<1>3. CASE ForkSingle
  <2> DEFINE next == IF cmds[line].blocking THEN "wait" ELSE "prompt"
  <2>1. ForkAs(<<line, 1>>, "fork", next)
    BY <1>3 DEF ForkSingle, First
  <2>2. next \in {"wait", "prompt"} /\ (next = "prompt" => ~cmds[line].blocking)
    OBVIOUS
  <2> HIDE DEF next
  <2> QED BY <2>1, <2>2, ForkKeepsInv
<1>4. ASSUME NEW next \in {"fork2", "read"},
             \/ ParentClose(pipe_fd[line].write, "closewrite", next) /\ ~Careless
             \/ ParentClosesAnyway(pipe_fd[line].write, "closewrite", next)
      PROVE  Inv'
  BY <1>4, CloseWriteKeepsInv
<1>5. ASSUME NEW next \in {"wait1", "wait"}, next = "wait" => stage = "mypipe",
             \/ ParentClose(pipe_fd[line].read, "closeread", next) /\ ~Careless
             \/ ParentClosesAnyway(pipe_fd[line].read, "closeread", next)
      PROVE  Inv'
  BY <1>5, CloseReadKeepsInv
<1> QED
  BY <1>1, <1>2, <1>3, <1>4, <1>5, MakePipeKeepsInv, PipeFailsKeepsInv,
     PipeFailsUnwrittenKeepsInv, ExitKeepsInv, WaitKeepsInv, ReadKeepsInv DEF ShellStep

LEMMA ContinuesIsShellStep ==
  ASSUME Continues
  PROVE  ShellStep
<1>1. CASE stage = "task1" /\ Task1Execute
  BY <1>1 DEF Task1Execute, ShellStep
<1>2. CASE stage = "task2" /\ Task2Execute
  BY <1>2 DEF Task2Execute, ShellStep
<1>3. CASE stage = "task3" /\ Task3Execute
  BY <1>3 DEF Task3Execute, ShellStep, CloseWrite, CloseRead, Careless
<1>4. CASE stage = "actual4" /\ ShellContinues
  BY <1>4 DEF ShellContinues, ShellStep, CloseWrite, CloseRead, Careless
<1>5. CASE stage = "warmup2" /\ Warmup2Execute
  BY <1>5 DEF Warmup2Execute, ShellStep
<1>6. CASE stage = "warmup4" /\ (WarmupExecuteSingle \/ WarmupExecutePipeline)
  BY <1>6 DEF WarmupExecuteSingle, WarmupExecutePipeline, WarmupPipeFails,
              WarmupCloseWrite, WarmupCloseRead, ShellStep, CloseWrite, Careless
<1>7. CASE stage = "mypipeline" /\ MyPipelineParent
  BY <1>7 DEF MyPipelineParent, ShellStep, Careless
<1>8. CASE stage = "mypipe" /\ MyPipeParent
  BY <1>8 DEF MyPipeParent, ShellStep, Careless
<1> QED BY <1>1, <1>2, <1>3, <1>4, <1>5, <1>6, <1>7, <1>8 DEF Continues

LEMMA InvStep == Inv /\ [StagesNext]_stagesVars => Inv'
<1> SUFFICES ASSUME Inv, [StagesNext]_stagesVars PROVE Inv'
  OBVIOUS
<1>1. CASE Prompts /\ Remembers
  BY <1>1, PromptsKeepInv
<1>2. CASE Continues /\ Remembers
  BY <1>2, ContinuesIsShellStep, ShellStepKeepsInv
<1>3. CASE Programs /\ Remembers
  <2>1. PICK c \in Child : Stream(c) \/ Ends(c)
    BY <1>3 DEF Programs, ProgramsNext
  <2>2. PICK k \in Line, i \in {1, 2} : c = <<k, i>>
    BY DEF Child
  <2>3. ChildOnly(k, i)
    BY <1>3, <2>1, <2>2, StreamMoves DEF Programs
  <2> QED BY <1>3, <2>3, ChildKeepsInv
<1>4. ASSUME NEW c \in Child, Starts(c), Remembers PROVE Inv'
  <2>1. PICK k \in Line, i \in {1, 2} : c = <<k, i>>
    BY DEF Child
  <2>2. ChildOnly(k, i)
    BY <1>4, <2>1, StartMoves
  <2> QED BY <1>4, <2>2, ChildKeepsInv
<1>5. CASE UNCHANGED stagesVars
  <2>1. TypeInv'
    <3>1. UNCHANGED <<pc, line, cmds, pipe_fd, stdio, autoReap, fd, buffer, state, stage,
                      DebugMode, unnoticed>>
      BY <1>5 DEF stagesVars, vars, shellVars, startVars, descVars
    <3>2. StagesTypeOK'
      BY <3>1 DEF Inv, TypeInv, StagesTypeOK, ShellTypeOK, DescTypeOK
    <3> QED BY <3>1, <3>2 DEF Inv, TypeInv, Careless
  <2>2. (unnoticed \/ (ShellHolds /\ ChildrenHold /\ ProgramsSeeTheirEnds))'
    <3>1. UNCHANGED <<pc, line, cmds, pipe_fd, stdio, fd, state, unnoticed, StartTable>>
      BY <1>5 DEF stagesVars, vars, shellVars, startVars, descVars, StartTable
    <3>2. ShellHolds => ShellHolds'
      BY <3>1 DEF ShellHolds, Apart, BothEnds, OnlyRead
    <3>3. ChildrenHold => ChildrenHold'
      BY <3>1 DEF ChildrenHold, ChildHolds, Apart, BothEnds, OnlyRead
    <3>4. ProgramsSeeTheirEnds => ProgramsSeeTheirEnds'
      BY <3>1 DEF ProgramsSeeTheirEnds
    <3> QED BY <3>1, <3>2, <3>3, <3>4 DEF Inv
  <2>3. NotYetForked' /\ Collected'
    BY <1>5 DEF stagesVars, vars, shellVars, startVars, descVars, Inv, NotYetForked, Collected,
                First, Second
  <2> QED BY <2>1, <2>2, <2>3 DEF Inv
<1> QED BY <1>1, <1>2, <1>3, <1>4, <1>5 DEF StagesNext

-----------------------------------------------------------------------------
(* The invariant holds in every stage, the earlier and the later shell     *)
(* included.                                                               *)
THEOREM InvHolds == StagesSpec => []Inv
<1> QED BY InvInit, InvStep, PTL DEF StagesSpec

(* Every variable of the shells, the pipelines built by hand, their pipes  *)
(* and programs has its type, whatever fails.                              *)
THEOREM StagesTypeCorrect == StagesSpec => []StagesTypeOK
<1>1. Inv => StagesTypeOK
  BY DEF Inv, TypeInv
<1> QED BY <1>1, InvHolds, PTL

(* A program of a pipeline is run with its own end of its own pipe and no  *)
(* other descriptor of any pipe, with any number of lines and descriptors  *)
(* and whatever of stdout and stderr is closed at the start.               *)
THEOREM EndsInPlace == StagesSpec => []EndsOfStage
<1>1. Inv => EndsOfStage
  BY DEF Inv, EndsOfStage
<1> QED BY <1>1, InvHolds, PTL

(* No failure of pipe, fork or close that is noticed leaves a descriptor   *)
(* open, or one too many closed, in the shell at its prompt.               *)
THEOREM TableRestored == StagesSpec => []TableOfStage
<1>1. Inv => TableOfStage
  BY DEF Inv, ShellHolds, TableOfStage, ShellTableRestored
<1> QED BY <1>1, InvHolds, PTL

(* At the prompt the children of every foreground line, so far, are over   *)
(* and collected; the first of them in the earlier shell.                  *)
THEOREM ForegroundCollected == StagesSpec => []ForegroundOfStage
<1>1. Inv => ForegroundOfStage
  <2> SUFFICES ASSUME Inv, pc = "prompt", NEW k \in 1 .. line, cmds[k].blocking
               PROVE  /\ state[<<k, 1>>] \in Over
                      /\ stage = "warmup4" \/ state[<<k, 2>>] \in Over
    BY DEF ForegroundOfStage, ForegroundIsOver, Over
  <2> QED BY DEF Inv, Collected
<1> QED BY <1>1, InvHolds, PTL

-----------------------------------------------------------------------------
(* The redirections of warmup2, which looks at the result of fopen.        *)

(* A file opened after a close has the descriptor closed, if no lower one  *)
(* is free.                                                                *)
LEMMA ReopenTakes ==
  ASSUME NEW t \in Table, NEW d \in Fds, \A g \in 0 .. d - 1 : t[g] # None,
         NEW file \in File, file # None
  PROVE  Open(Close(t, d), file) \in {Failed, [t EXCEPT ![d] = file]}
<1> DEFINE u == [t EXCEPT ![d] = None]
<1>1. CASE t[d] = None
  BY <1>1 DEF Close, Open
<1>2. CASE t[d] # None
  <2>1. Close(t, d) = u /\ u \in Table /\ u # Failed
    <3>1. u \in Table
      BY Files DEF Table, File
    <3> QED BY <1>2, <3>1, NotFailed DEF Close
  <2>2. d \in Nat /\ u[d] = None /\ \A g \in 0 .. d - 1 : g \in Fds => u[g] # None
    BY DEF Fds, Table
  <2>3. Free(u) \in SUBSET Fds /\ d \in Free(u)
    BY <2>2 DEF Free
  <2>4. Lowest(Free(u)) \in Free(u) /\ Lowest(Free(u)) <= d
    BY <2>3, LowestIsLeast
  <2>5. Lowest(Free(u)) = d
    BY <2>2, <2>3, <2>4 DEF Free, Fds
  <2>6. [u EXCEPT ![d] = file] = [t EXCEPT ![d] = file]
    BY DEF Table
  <2> QED BY <2>1, <2>5, <2>6 DEF Open
<1> QED BY <1>1, <1>2

(* What the child of a shell that was started with s may have at exec.     *)
LEMMA RedirectedFromStart ==
  ASSUME NEW s \in Table, s[0] = Inherited, NEW t \in redirect_io(s), t # Failed
  PROVE  t[0] \in {Inherited, InFile} /\ t[1] \in {s[1], OutFile}
<1>1. PICK i \in {None, InFile}, o \in {None, OutFile}, iok \in BOOLEAN, ook \in BOOLEAN :
        t = RedirectChecked(RedirectChecked(s, 0, i, iok), 1, o, ook)
  BY DEF redirect_io
<1> DEFINE u == RedirectChecked(s, 0, i, iok)
<1>2. /\ 0 \in Fds /\ 1 \in Fds
      /\ InFile \in File /\ OutFile \in File
      /\ InFile # None /\ OutFile # None /\ Inherited # None
  BY StandardFds DEF File, InFile, OutFile, None, Inherited
<1>3. u # Failed
  <2>1. \A f : Open(Close(Failed, 1), f) = Failed
    BY DEF Open, Close
  <2> QED BY <1>1, <2>1 DEF RedirectChecked
<1>4. u \in {s, [s EXCEPT ![0] = InFile]}
  <2>1. Open(Close(s, 0), InFile) \in {Failed, [s EXCEPT ![0] = InFile]}
    BY <1>2, ReopenTakes
  <2> QED BY <1>3, <2>1 DEF RedirectChecked
<1>5. u \in Table /\ u[0] \in {Inherited, InFile} /\ u[1] = s[1]
  BY <1>2, <1>4 DEF Table
<1> HIDE DEF u
<1>6. t \in {u, [u EXCEPT ![1] = OutFile]}
  <2>1. \A g \in 0 .. 1 - 1 : u[g] # None
    BY <1>2, <1>5
  <2>2. Open(Close(u, 1), OutFile) \in {Failed, [u EXCEPT ![1] = OutFile]}
    BY <1>2, <1>5, <2>1, ReopenTakes
  <2> QED BY <1>1, <2>2 DEF RedirectChecked, u
<1> QED BY <1>2, <1>5, <1>6 DEF Table

(* A program has what the shell had until exec, and its redirections then. *)
Redirected(k) ==
  /\ state[<<k, 1>>] = "forked" => fd[<<k, 1>>] = StartTable
  /\ state[<<k, 1>>] = "running" =>
       /\ fd[<<k, 1>>][0] \in {Inherited, InFile}
       /\ fd[<<k, 1>>][1] \in {StartTable[1], OutFile}

AllRedirected == stage = "warmup2" => \A k \in Line : Redirected(k)

(* A step in which a child keeps its table, and at most ends. *)
LEMMA KeepsRedirected ==
  ASSUME NEW k \in Line, Redirected(k), stdio' = stdio,
         \/ fd'[<<k, 1>>] = fd[<<k, 1>>] /\ state'[<<k, 1>>] = state[<<k, 1>>]
         \/ state'[<<k, 1>>] \in {"zombie", "reaped"}
  PROVE  Redirected(k)'
BY DEF Redirected, StartTable

LEMMA ChildKeepsRedirected ==
  ASSUME Inv, NEW c \in Child, stage = "warmup2", stdio' = stdio,
         \A k \in Line : Redirected(k),
         \/ UNCHANGED <<fd, state>>
         \/ Dies(c)
         \/ /\ state[c] = "forked" /\ c[2] = 1
            /\ \E t \in redirect_io(fd[c]) : t # Failed /\ Runs(c, t)
         \/ c[2] = 2 /\ \E t : Runs(c, t)
  PROVE  \A k \in Line : Redirected(k)'
<1> SUFFICES ASSUME NEW k \in Line PROVE Redirected(k)'
  OBVIOUS
<1>1. /\ fd \in [Proc -> Table] /\ DOMAIN state = Child /\ c \in Proc
      /\ StartTable \in Table /\ StartTable[0] = Inherited /\ <<k, 1>> \in Child
      /\ <<k, 1>> \in Proc
  <2>1. StartTable[0] = Inherited
    BY StandardFds DEF Inv, TypeInv, StartTable
  <2>2. DOMAIN state = Child /\ <<k, 1>> \in Child
    BY TypesOf DEF Inv, Child
  <2> QED BY <2>1, <2>2, TypesOf DEF Inv, Proc
<1>2. CASE UNCHANGED <<fd, state>>
  BY <1>2, KeepsRedirected
<1>3. CASE Dies(c)
  <2>1. CASE c = <<k, 1>>
    BY <1>1, <1>3, <2>1, KeepsRedirected DEF Dies
  <2>2. CASE c # <<k, 1>>
    BY <1>1, <1>3, <2>2, KeepsRedirected DEF Dies
  <2> QED BY <2>1, <2>2
<1>4. ASSUME NEW t, Runs(c, t), c # <<k, 1>>
      PROVE  Redirected(k)'
  BY <1>1, <1>4, KeepsRedirected DEF Runs
<1>5. ASSUME state[c] = "forked", c = <<k, 1>>,
             NEW t \in redirect_io(fd[c]), t # Failed, Runs(c, t)
      PROVE  Redirected(k)'
  <2>1. fd[c] = StartTable
    BY <1>5 DEF Redirected
  <2>2. t[0] \in {Inherited, InFile} /\ t[1] \in {StartTable[1], OutFile}
    BY <1>1, <1>5, <2>1, RedirectedFromStart
  <2>3. fd'[<<k, 1>>] = t /\ state'[<<k, 1>>] = "running" /\ StartTable' = StartTable
    BY <1>1, <1>5 DEF Runs, StartTable
  <2> QED BY <2>2, <2>3 DEF Redirected
<1>6. c[2] = 2 => c # <<k, 1>>
  OBVIOUS
<1> QED BY <1>2, <1>3, <1>4, <1>5, <1>6

LEMMA RedirectedStep ==
  ASSUME Inv, AllRedirected, StagesNext
  PROVE  AllRedirected'
<1> SUFFICES ASSUME stage = "warmup2" PROVE \A k \in Line : Redirected(k)'
  BY DEF StagesNext, Remembers, AllRedirected
<1>1. \A k \in Line : Redirected(k)
  BY DEF AllRedirected
<1>2. ~unnoticed
  BY DEF Inv, TypeInv, Careless, StagesTypeOK
<1>3. /\ fd \in [Proc -> Table] /\ DOMAIN state = Child
      /\ \A k \in Line : <<k, 1>> \in Child /\ <<k, 1>> \in Proc /\ <<k, 1>> # Shell
  <2>1. DOMAIN state = Child
    BY TypesOf DEF Inv
  <2>2. ASSUME NEW k \in Line
        PROVE  <<k, 1>> \in Child /\ <<k, 1>> \in Proc /\ <<k, 1>> # Shell
    <3>1. <<k, 1>> \in Child
      BY DEF Child
    <3> QED BY <3>1, ShellIsNoChild
  <2> QED BY <2>1, <2>2, TypesOf DEF Inv
<1>4. CASE Prompts
  <2>1. (\E cmd \in Cmd : ReadLine(FirstOnly(cmd))) \/ Quit
    BY <1>4 DEF Prompts, Warmup2Loop
  <2>2. stdio' = stdio /\ state' = state /\ \A k \in Line : fd'[<<k, 1>>] = fd[<<k, 1>>]
    BY <1>3, <2>1 DEF ReadLine, Quit, startVars, descVars
  <2> QED BY <1>1, <2>2, KeepsRedirected
<1>5. CASE Continues
  <2>1. ForkSingle \/ ForkFails \/ WaitSingle
    BY <1>5 DEF Continues, Warmup2Execute
  <2>2. CASE ForkSingle
    <3>1. /\ pc = "fork" /\ stdio' = stdio
          /\ state' = [state EXCEPT ![<<line, 1>>] = "forked"]
          /\ fd' = [fd EXCEPT ![<<line, 1>>] = fd[Shell]]
      BY <2>2 DEF ForkSingle, ForkAs, ForkChild, First, startVars
    <3>2. fd[Shell] = StartTable /\ StartTable' = StartTable
      BY <1>2, <3>1 DEF Inv, ShellHolds, StartTable
    <3> TAKE k \in Line
    <3>3. CASE k = line
      BY <1>3, <3>1, <3>2, <3>3 DEF Redirected
    <3>4. CASE k # line
      BY <1>1, <1>3, <3>1, <3>4, KeepsRedirected
    <3> QED BY <3>3, <3>4
  <2>3. CASE ForkFails
    <3>1. stdio' = stdio /\ state' = state /\ \A k \in Line : fd'[<<k, 1>>] = fd[<<k, 1>>]
      BY <1>3, <2>3 DEF ForkFails, startVars
    <3> QED BY <1>1, <3>1, KeepsRedirected
  <2>4. CASE WaitSingle
    <3>1. stdio' = stdio /\ fd' = fd /\ state' = [state EXCEPT ![<<line, 1>>] = "reaped"]
      BY <2>4 DEF WaitSingle, WaitLast, Waited, First, startVars
    <3> TAKE k \in Line
    <3>2. CASE k = line
      BY <1>1, <1>3, <3>1, <3>2, KeepsRedirected
    <3>3. CASE k # line
      BY <1>1, <1>3, <3>1, <3>3, KeepsRedirected
    <3> QED BY <3>2, <3>3
  <2> QED BY <2>1, <2>2, <2>3, <2>4
<1>6. CASE Programs
  <2>1. PICK c \in Child : Stream(c) \/ Ends(c)
    BY <1>6 DEF Programs, ProgramsNext
  <2>2. UNCHANGED <<fd, state>> \/ Dies(c)
    BY <2>1 DEF Stream, Write, Read, ReadEof, Ends
  <2>3. stdio' = stdio
    BY <1>6 DEF Programs, shellVars, startVars
  <2> QED BY <1>1, <2>2, <2>3, ChildKeepsRedirected
<1>7. ASSUME NEW c \in Child, Starts(c)
      PROVE  \A k \in Line : Redirected(k)'
  <2>1. Warmup2Child(c)
    BY <1>7 DEF Starts
  <2>2. stdio' = stdio
    BY <2>1 DEF Warmup2Child, ChildFails, shellVars, startVars
  <2>3. c[2] = 1 \/ c[2] = 2
    BY DEF Child
  <2>4. \/ Dies(c)
        \/ state[c] = "forked" /\ \E t \in redirect_io(fd[c]) : t # Failed /\ Runs(c, t)
    BY <2>1 DEF Warmup2Child, ChildFails
  <2> QED BY <1>1, <2>2, <2>3, <2>4, ChildKeepsRedirected
<1> QED BY <1>4, <1>5, <1>6, <1>7 DEF StagesNext

(* Where the result of fopen is looked at, every program that is run has   *)
(* standard input and output of the shell, or the files named for them,    *)
(* each in its place, whatever runs beside it and however open fails.      *)
THEOREM RedirectionsInPlace == StagesSpec => []RedirectionsOfStage
<1>1. StagesInit => AllRedirected
  BY DEF StagesInit, Init, DescInit, AllRedirected, Redirected, Child
<1>2. Inv /\ AllRedirected /\ [StagesNext]_stagesVars => AllRedirected'
  <2> SUFFICES ASSUME Inv, AllRedirected, [StagesNext]_stagesVars PROVE AllRedirected'
    OBVIOUS
  <2>1. CASE UNCHANGED stagesVars
    <3>1. UNCHANGED <<stage, stdio, fd, state>>
      BY <2>1 DEF stagesVars, vars, shellVars, startVars, descVars
    <3>2. \A k \in Line : Redirected(k) => Redirected(k)'
      BY <3>1, KeepsRedirected
    <3> QED BY <3>1, <3>2 DEF AllRedirected
  <2> QED BY <2>1, RedirectedStep
<1>3. Inv /\ AllRedirected => RedirectionsOfStage
  <2> SUFFICES ASSUME Inv, AllRedirected, stage = "warmup2"
               PROVE  RedirectionsHold
    BY DEF RedirectionsOfStage
  <2>1. 1 .. line \subseteq Line
    BY TypesOf, DescriptorsAssumption DEF Inv, DescriptorsAssumption, Line
  <2> QED BY <2>1 DEF AllRedirected, Redirected, RedirectionsHold
<1> QED BY <1>1, <1>2, <1>3, InvHolds, PTL DEF StagesSpec
=============================================================================
