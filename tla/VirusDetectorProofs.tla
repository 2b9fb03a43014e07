------------------------ MODULE VirusDetectorProofs -------------------------
(***************************************************************************)
(* Proofs about the virus detectors, for every set of signatures, length   *)
(* of the buffer and of the files, and number of records and streams.      *)
(***************************************************************************)
EXTENDS VirusDetectorStages, FiniteSetTheorems, SequenceTheorems, WellFoundedInduction, TLAPS

-----------------------------------------------------------------------------
(* What malloc returns.                                                    *)

LEMMA LeastElement ==
  ASSUME NEW T \in SUBSET Nat, T # {}
  PROVE  \E b \in T : \A c \in T : b <= c
<1>1. IsWellFoundedOn(OpToRel(<, Nat), Nat)
  BY NatLessThanWellFounded, Zenon
<1>2. PICK b \in T : \A c \in T : ~(<<c, b>> \in OpToRel(<, Nat))
  BY <1>1, WFMin, Zenon
<1>3. \A c \in T : ~(c < b)
  <2> SUFFICES ASSUME NEW c \in T, c < b PROVE FALSE
    OBVIOUS
  <2>1. <<c, b>> \in {p \in Nat \X Nat : p[1] < p[2]}
    OBVIOUS
  <2> QED BY <1>2, <2>1, Zenon DEF OpToRel
<1> QED BY <1>3

(* A free block, as long as there is one. *)
LEMMA FreshIsFree ==
  ASSUME NEW S, IsFiniteSet(S), Cardinality(S) < 6 * MaxRecords
  PROVE  Fresh(S) \in Block \ S
<1>1. MaxRecords \in Nat
  BY VirusDetectorAssumption DEF VirusDetectorAssumption
<1>2. IsFiniteSet(Block) /\ Cardinality(Block) = 6 * MaxRecords
  BY <1>1, FS_Interval, FS_EmptySet DEF Block
<1>3. Block \ S # {}
  <2> SUFFICES ASSUME Block \subseteq S PROVE FALSE
    OBVIOUS
  <2>1. Cardinality(Block) <= Cardinality(S)
    BY FS_Subset
  <2> QED BY <1>1, <1>2, <2>1, FS_CardinalityType
<1>4. Block \ S \in SUBSET Nat
  BY <1>1 DEF Block
<1>5. \E b \in Block \ S : \A c \in Block \ S : b <= c
  BY <1>3, <1>4, LeastElement
<1> QED BY <1>5 DEF Fresh

-----------------------------------------------------------------------------
(* The blocks of a list.                                                   *)

NodeBlocks(v) == {v.at.virus, v.at.sig, v.at.link}

LEMMA InBlocks ==
  ASSUME NEW list \in Seq(Node), NEW b
  PROVE  b \in BlocksOf(list) <=> \E i \in 1 .. Len(list) : b \in NodeBlocks(list[i])
BY DEF BlocksOf, ToSet, NodeBlocks

LEMMA NoBlocks == BlocksOf(<<>>) = {}
BY DEF BlocksOf, ToSet

(* A list and what it becomes when a node is added at either end. *)
LEMMA Prepended ==
  ASSUME NEW list \in Seq(Node), NEW v \in Node, NEW g, g = <<v>> \o list
  PROVE  /\ g \in Seq(Node) /\ Len(g) = Len(list) + 1 /\ g[1] = v
         /\ \A i \in 1 .. Len(list) : g[i + 1] = list[i]
         /\ BlocksOf(g) = BlocksOf(list) \cup NodeBlocks(v)
<1>1. <<v>> \in Seq(Node) /\ Len(<<v>>) = 1 /\ <<v>>[1] = v
  OBVIOUS
<1>2. g \in Seq(Node) /\ Len(g) = Len(list) + 1 /\ g[1] = v
      /\ \A i \in 1 .. Len(list) : g[i + 1] = list[i]
  BY <1>1
<1>3. \A i \in 1 .. Len(g) : i = 1 \/ (i - 1 \in 1 .. Len(list) /\ g[i] = list[i - 1])
  <2> SUFFICES ASSUME NEW i \in 1 .. Len(g), i # 1
               PROVE  i - 1 \in 1 .. Len(list) /\ g[i] = list[i - 1]
    OBVIOUS
  <2>1. Len(list) \in Nat
    BY LenProperties
  <2>2. i - 1 \in 1 .. Len(list) /\ (i - 1) + 1 = i
    BY <1>2, <2>1
  <2> QED BY <1>2, <2>2
<1>4. Len(list) \in Nat /\ 1 \in 1 .. Len(g) /\ \A i \in 1 .. Len(list) : i + 1 \in 1 .. Len(g)
  BY <1>2, LenProperties
<1>5. ASSUME NEW b
      PROVE  b \in BlocksOf(g) <=> b \in BlocksOf(list) \cup NodeBlocks(v)
  <2>1. b \in BlocksOf(g) <=> \E i \in 1 .. Len(g) : b \in NodeBlocks(g[i])
    BY <1>2, InBlocks
  <2>2. b \in BlocksOf(list) <=> \E i \in 1 .. Len(list) : b \in NodeBlocks(list[i])
    BY InBlocks
  <2> QED BY <1>2, <1>3, <1>4, <2>1, <2>2
<1> QED BY <1>2, <1>5

LEMMA Appended ==
  ASSUME NEW list \in Seq(Node), NEW v \in Node, NEW g, g = Append(list, v)
  PROVE  /\ g \in Seq(Node) /\ Len(g) = Len(list) + 1 /\ g[Len(list) + 1] = v
         /\ \A i \in 1 .. Len(list) : g[i] = list[i]
         /\ BlocksOf(g) = BlocksOf(list) \cup NodeBlocks(v)
<1>1. g \in Seq(Node) /\ Len(g) = Len(list) + 1 /\ g[Len(list) + 1] = v
      /\ \A i \in 1 .. Len(list) : g[i] = list[i]
  BY AppendProperties
<1>2. Len(list) \in Nat
  BY LenProperties
<1>3. \A i \in 1 .. Len(g) : i = Len(list) + 1 \/ i \in 1 .. Len(list)
  BY <1>1, <1>2
<1>4. Len(list) + 1 \in 1 .. Len(g) /\ \A i \in 1 .. Len(list) : i \in 1 .. Len(g)
  BY <1>1, <1>2
<1>5. ASSUME NEW b
      PROVE  b \in BlocksOf(g) <=> b \in BlocksOf(list) \cup NodeBlocks(v)
  <2>1. b \in BlocksOf(g) <=> \E i \in 1 .. Len(g) : b \in NodeBlocks(g[i])
    BY <1>1, InBlocks
  <2>2. b \in BlocksOf(list) <=> \E i \in 1 .. Len(list) : b \in NodeBlocks(list[i])
    BY InBlocks
  <2> QED BY <1>1, <1>3, <1>4, <2>1, <2>2
<1> QED BY <1>1, <1>5

-----------------------------------------------------------------------------
(* The invariant.                                                          *)

(* The two lists own the heap: each block belongs to one node of one list. *)
Memory ==
  /\ heap = BlocksOf(vl) \cup BlocksOf(reading)
  /\ IsFiniteSet(BlocksOf(vl)) /\ Cardinality(BlocksOf(vl)) = 3 * Len(vl)
  /\ IsFiniteSet(BlocksOf(reading)) /\ Cardinality(BlocksOf(reading)) = 3 * Len(reading)
  /\ BlocksOf(vl) \cap BlocksOf(reading) = {}

(* Outside a load there is no list but the one in use. *)
Lengths ==
  /\ Len(vl) <= MaxRecords
  /\ Len(reading) = count
  /\ pc \notin {"load", "crashed"} => count = 0

(* The list being read holds the records read so far, in the order of the *)
(* version.                                                                *)
ReadSoFar ==
  \A i \in 1 .. count :
    reading[i].sig = source.records[IF version = "actual" THEN count + 1 - i ELSE i]

ListsOK ==
  /\ vl \in Seq(Node) /\ reading \in Seq(Node)
  /\ source \in SigFile /\ count \in 0 .. Len(source.records)
  /\ heap \subseteq Block
  /\ Memory /\ Lengths /\ ReadSoFar

StreamsOK ==
  /\ streams \in 0 .. MaxStreams
  /\ pc = "load" => streams >= 1
  /\ version = "actual" => /\ pc = "load" => streams = 1
                           /\ pc \notin {"load", "crashed"} => streams = 0

(* What was overwritten as asked still is. *)
FixedIsNop == \A o \in fixed : o < Len(suspect) /\ suspect[o + 1] = NOP

FilesOK ==
  /\ suspect \in Seq(Byte)
  /\ fixed \subseteq 0 .. MaxFile - 1
  /\ reported \subseteq (0 .. BufLen - 1) \X Sig
  /\ req \in (Number \cup {0}) \X (Number \cup {0})
  /\ FixedIsNop

VInv ==
  /\ pc \in {"menu", "reported", "load", "fix", "exited", "crashed"}
  /\ version \in Versions
  /\ ListsOK /\ StreamsOK /\ FilesOK /\ ReportsRight

-----------------------------------------------------------------------------
LEMMA Bounds ==
  /\ MaxRecords \in Nat /\ BufLen \in Nat /\ MaxFile \in Nat /\ MaxStreams \in Nat
  /\ MaxSig \in Nat \ {0} /\ 0 \in Byte /\ NOP \in Byte /\ Number \subseteq Int
BY VirusDetectorAssumption DEF VirusDetectorAssumption

LEMMA SignatureIs ==
  ASSUME NEW s \in Sig
  PROVE  s \in Seq(Byte) /\ Len(s) \in 0 .. MaxSig
<1>1. PICK m \in 0 .. MaxSig : s \in [1 .. m -> Byte]
  BY VirusDetectorAssumption DEF VirusDetectorAssumption, BoundedSeq, SeqOf
<1>2. m \in Nat
  BY Bounds
<1> QED BY <1>1, <1>2, IsASeq

LEMMA RecordsAre ==
  ASSUME NEW f \in SigFile
  PROVE  f.records \in Seq(Sig) /\ Len(f.records) \in 0 .. MaxRecords
<1>1. f.records \in BoundedSeq(Sig, MaxRecords)
  BY DEF SigFile
<1>2. PICK m \in 0 .. MaxRecords : f.records \in [1 .. m -> Sig]
  BY <1>1 DEF BoundedSeq, SeqOf
<1>3. m \in Nat
  BY Bounds
<1> QED BY <1>2, <1>3, IsASeq

LEMMA NoSourceIs == NoSource \in SigFile /\ Len(NoSource.records) = 0
<1>1. <<>> \in [1 .. 0 -> Sig] /\ 0 \in 0 .. MaxRecords
  BY Bounds
<1>2. <<>> \in BoundedSeq(Sig, MaxRecords)
  BY <1>1 DEF BoundedSeq, SeqOf
<1> QED BY <1>2 DEF NoSource, SigFile

LEMMA HeapCount ==
  ASSUME ListsOK
  PROVE  IsFiniteSet(heap) /\ Cardinality(heap) = 3 * (Len(vl) + Len(reading))
<1>1. Len(vl) \in Nat /\ Len(reading) \in Nat
  BY LenProperties DEF ListsOK
<1>2. IsFiniteSet(heap) /\ Cardinality(heap) = 3 * Len(vl) + 3 * Len(reading) - Cardinality({})
  BY FS_Union DEF ListsOK, Memory
<1> QED BY <1>1, <1>2, FS_EmptySet

LEMMA OneMore ==
  ASSUME NEW S, IsFiniteSet(S), NEW x, x \notin S
  PROVE  /\ IsFiniteSet(S \cup {x}) /\ Cardinality(S \cup {x}) = Cardinality(S) + 1
         /\ Cardinality(S) \in Nat
BY FS_AddElement, FS_CardinalityType

LEMMA ThreeElements ==
  ASSUME NEW a, NEW b, NEW c, b # a, c # a, c # b
  PROVE  IsFiniteSet({a, b, c}) /\ Cardinality({a, b, c}) = 3
<1>1. IsFiniteSet({a}) /\ Cardinality({a}) = 1
  BY FS_Singleton
<1>2. b \notin {a} /\ c \notin {a} \cup {b}
  OBVIOUS
<1>3. IsFiniteSet({a} \cup {b}) /\ Cardinality({a} \cup {b}) = Cardinality({a}) + 1
  BY <1>1, <1>2, OneMore, Zenon
<1>4. /\ IsFiniteSet(({a} \cup {b}) \cup {c})
      /\ Cardinality(({a} \cup {b}) \cup {c}) = Cardinality({a} \cup {b}) + 1
  BY <1>2, <1>3, OneMore, Zenon
<1>5. {a, b, c} = ({a} \cup {b}) \cup {c}
  OBVIOUS
<1>6. IsFiniteSet({a, b, c}) /\ Cardinality({a, b, c}) = (1 + 1) + 1
  BY <1>1, <1>3, <1>4, <1>5, Zenon
<1> QED BY <1>6

(* The node of a record: its three blocks are free, and different.         *)
LEMMA NewNodeIs ==
  ASSUME ListsOK, count < Len(source.records)
  PROVE  /\ NewNode \in Node /\ NewNode.sig = source.records[count + 1]
         /\ NodeBlocks(NewNode) \subseteq Block \ heap
         /\ IsFiniteSet(NodeBlocks(NewNode)) /\ Cardinality(NodeBlocks(NewNode)) = 3
<1> DEFINE b1 == Fresh(heap)
           b2 == Fresh(heap \cup {b1})
           b3 == Fresh(heap \cup {b1, b2})
<1> HIDE DEF b1, b2, b3
<1>1. MaxRecords \in Nat /\ Len(vl) \in Nat /\ count \in Nat /\ Len(reading) = count
      /\ Len(vl) <= MaxRecords /\ count < MaxRecords
  BY Bounds, LenProperties, RecordsAre DEF ListsOK, Lengths
<1>2. IsFiniteSet(heap) /\ Cardinality(heap) <= 6 * MaxRecords - 3 /\ Cardinality(heap) \in Nat
  BY <1>1, HeapCount
<1>3. b1 \in Block \ heap
  BY <1>1, <1>2, FreshIsFree DEF b1
<1>4. IsFiniteSet(heap \cup {b1}) /\ Cardinality(heap \cup {b1}) = Cardinality(heap) + 1
  BY <1>2, <1>3, OneMore
<1>5. b2 \in Block \ (heap \cup {b1})
  BY <1>1, <1>2, <1>4, FreshIsFree DEF b2
<1>6. /\ IsFiniteSet(heap \cup {b1, b2})
      /\ Cardinality(heap \cup {b1, b2}) = Cardinality(heap) + 2
  <2>1. heap \cup {b1, b2} = (heap \cup {b1}) \cup {b2}
    OBVIOUS
  <2>2. /\ IsFiniteSet((heap \cup {b1}) \cup {b2})
        /\ Cardinality((heap \cup {b1}) \cup {b2}) = Cardinality(heap \cup {b1}) + 1
    BY <1>4, <1>5, OneMore
  <2>3. /\ IsFiniteSet(heap \cup {b1, b2})
        /\ Cardinality(heap \cup {b1, b2}) = Cardinality(heap) + 1 + 1
    BY <1>4, <2>1, <2>2, Zenon
  <2> QED BY <1>2, <2>3
<1>7. b3 \in Block \ (heap \cup {b1, b2})
  BY <1>1, <1>2, <1>6, FreshIsFree DEF b3
<1>8. source.records[count + 1] \in Sig
  BY <1>1, RecordsAre, ElementOfSeq DEF ListsOK
<1>9. NewNode = [sig |-> source.records[count + 1], at |-> [virus |-> b1, sig |-> b2, link |-> b3]]
  BY DEF NewNode, b1, b2, b3
<1>10. NodeBlocks(NewNode) = {b1, b2, b3} /\ NewNode.sig = source.records[count + 1]
  BY <1>9 DEF NodeBlocks
<1>11. IsFiniteSet({b1, b2, b3}) /\ Cardinality({b1, b2, b3}) = 3
  BY <1>5, <1>7, ThreeElements
<1>12. NewNode \in Node
  BY <1>3, <1>5, <1>7, <1>8, <1>9 DEF Node
<1> QED BY <1>3, <1>5, <1>7, <1>10, <1>11, <1>12

-----------------------------------------------------------------------------
(* The lists.                                                              *)

(* An action that leaves the lists alone, outside a load or dying in it. *)
LEMMA ListsKept ==
  ASSUME ListsOK, UNCHANGED <<vl, reading, source, count, heap, version>>,
         pc \notin {"load", "crashed"} \/ pc' = "crashed"
  PROVE  ListsOK'
BY DEF ListsOK, Memory, Lengths, ReadSoFar

LEMMA OpenLists ==
  ASSUME ListsOK, pc' = "load", pc \notin {"load", "crashed"}, source' \in SigFile,
         count' = 0, reading' = <<>>, vl' = vl, heap' = heap
  PROVE  ListsOK'
<1>1. reading = <<>>
  BY EmptySeq DEF ListsOK, Lengths
<1>2. 0 \in 0 .. Len(source'.records)
  BY RecordsAre
<1>3. Len(reading') = 0 /\ reading' = reading
  BY <1>1
<1>4. Memory'
  BY <1>3 DEF ListsOK, Memory
<1> QED BY <1>1, <1>2, <1>3, <1>4 DEF ListsOK, Lengths, ReadSoFar

LEMMA ReadLists ==
  ASSUME ListsOK, version \in Versions, version' = version,
         \/ version = "actual" /\ ReadRecord
         \/ version # "actual" /\ ReadRecordLast
  PROVE  ListsOK'
<1>1. PICK g : /\ ReadNext(g)
               /\ \/ version = "actual" /\ g = <<NewNode>> \o reading
                  \/ version # "actual" /\ g = Append(reading, NewNode)
  BY DEF ReadRecord, ReadRecordLast
<1>2. /\ pc = "load" /\ pc' = "load" /\ count < Len(source.records) /\ reading' = g
      /\ heap' = heap \cup BlocksOf(g) /\ count' = count + 1 /\ vl' = vl /\ source' = source
  BY <1>1 DEF ReadNext
<1>3. /\ NewNode \in Node /\ NewNode.sig = source.records[count + 1]
      /\ NodeBlocks(NewNode) \subseteq Block \ heap
      /\ IsFiniteSet(NodeBlocks(NewNode)) /\ Cardinality(NodeBlocks(NewNode)) = 3
  BY <1>2, NewNodeIs
<1>4. /\ reading \in Seq(Node) /\ Len(reading) = count /\ count \in Nat
      /\ Len(source.records) \in Nat
  BY LenProperties, RecordsAre DEF ListsOK, Lengths
<1>5. g \in Seq(Node) /\ Len(g) = count + 1
      /\ BlocksOf(g) = BlocksOf(reading) \cup NodeBlocks(NewNode)
  BY <1>1, <1>3, <1>4, Prepended, Appended
<1>6. Memory'
  <2>1. BlocksOf(reading) \cap NodeBlocks(NewNode) = {}
    BY <1>3 DEF ListsOK, Memory
  <2>2. /\ IsFiniteSet(BlocksOf(g))
        /\ Cardinality(BlocksOf(g)) = 3 * count + 3 - Cardinality({})
    BY <1>3, <1>4, <1>5, <2>1, FS_Union DEF ListsOK, Memory
  <2>3. Cardinality(BlocksOf(g)) = 3 * (count + 1)
    BY <1>4, <2>2, FS_EmptySet
  <2>4. BlocksOf(vl) \cap BlocksOf(g) = {}
    BY <1>3, <1>5 DEF ListsOK, Memory
  <2>5. heap' = BlocksOf(vl) \cup BlocksOf(g)
    BY <1>2, <1>5 DEF ListsOK, Memory
  <2> QED BY <1>2, <1>5, <2>2, <2>3, <2>4, <2>5 DEF ListsOK, Memory
<1>7. ReadSoFar'
  <2> SUFFICES ASSUME NEW i \in 1 .. count + 1
               PROVE  g[i].sig = source.records[IF version = "actual" THEN count + 2 - i ELSE i]
    BY <1>2, <1>4 DEF ReadSoFar
  <2>1. CASE version = "actual"
    <3>1. g[1] = NewNode /\ \A j \in 1 .. count : g[j + 1] = reading[j]
      BY <1>1, <1>3, <1>4, <2>1, Prepended
    <3>2. CASE i = 1
      <4>1. count + 2 - i = count + 1
        BY <1>4, <3>2
      <4> QED BY <1>3, <2>1, <3>1, <3>2, <4>1
    <3>3. CASE i # 1
      <4>1. i - 1 \in 1 .. count /\ (i - 1) + 1 = i /\ count + 1 - (i - 1) = count + 2 - i
        BY <1>4, <3>3
      <4>2. reading[i - 1].sig = source.records[count + 1 - (i - 1)]
        BY <2>1, <4>1 DEF ListsOK, ReadSoFar
      <4>3. g[i] = reading[i - 1]
        BY <3>1, <4>1
      <4> QED BY <2>1, <4>1, <4>2, <4>3
    <3> QED BY <3>2, <3>3
  <2>2. CASE version # "actual"
    <3>1. g[count + 1] = NewNode /\ \A j \in 1 .. count : g[j] = reading[j]
      BY <1>1, <1>3, <1>4, <2>2, Appended
    <3>2. CASE i = count + 1
      BY <1>3, <2>2, <3>1, <3>2
    <3>3. CASE i # count + 1
      <4>1. i \in 1 .. count
        BY <1>4, <3>3
      <4> QED BY <2>2, <3>1, <4>1 DEF ListsOK, ReadSoFar
    <3> QED BY <3>2, <3>3
  <2> QED BY <2>1, <2>2
<1>8. heap' \subseteq Block
  BY <1>2, <1>3, <1>5 DEF ListsOK, Memory
<1> QED BY <1>2, <1>4, <1>5, <1>6, <1>7, <1>8 DEF ListsOK, Lengths

LEMMA ReturnLists ==
  ASSUME ListsOK, pc = "load", NEW new, NEW failed, LoadReturns(new, failed),
         \/ new = reading /\ failed = {}
         \/ new = <<>> /\ failed = BlocksOf(reading)
  PROVE  ListsOK'
<1>1. /\ pc' = "menu" /\ vl' = new /\ heap' = heap \ (BlocksOf(vl) \cup failed)
      /\ source' = NoSource /\ count' = 0 /\ reading' = <<>>
  BY DEF LoadReturns
<1>2. BlocksOf(<<>>) = {} /\ IsFiniteSet({}) /\ Cardinality({}) = 0 /\ Len(<<>>) = 0
  BY NoBlocks, FS_EmptySet
<1>3. Memory'
  <2>1. heap = BlocksOf(vl) \cup BlocksOf(reading) /\ BlocksOf(vl) \cap BlocksOf(reading) = {}
    BY DEF ListsOK, Memory
  <2>2. /\ heap' = BlocksOf(new) \cup BlocksOf(<<>>)
        /\ BlocksOf(new) \cap BlocksOf(<<>>) = {}
    BY <1>1, <1>2, <2>1
  <2>3. IsFiniteSet(BlocksOf(new)) /\ Cardinality(BlocksOf(new)) = 3 * Len(new)
    <3>1. 3 * 0 = 0
      OBVIOUS
    <3> QED BY <1>2, <3>1, Zenon DEF ListsOK, Memory
  <2>4. IsFiniteSet(BlocksOf(<<>>)) /\ Cardinality(BlocksOf(<<>>)) = 3 * Len(<<>>)
    <3>1. 3 * 0 = 0
      OBVIOUS
    <3> QED BY <1>2, <3>1, Zenon
  <2>5. vl' = new /\ reading' = <<>>
    BY <1>1
  <2> QED BY <2>2, <2>3, <2>4, <2>5, Zenon DEF Memory
<1>4. Len(new) <= MaxRecords /\ new \in Seq(Node)
  <2>1. Len(reading) = count /\ count \in 0 .. Len(source.records)
        /\ Len(source.records) \in 0 .. MaxRecords /\ MaxRecords \in Nat
    BY Bounds, RecordsAre DEF ListsOK, Lengths
  <2>2. CASE new = reading
    BY <2>1, <2>2 DEF ListsOK
  <2>3. CASE new = <<>>
    BY <2>1, <2>3
  <2> QED BY <2>2, <2>3
<1>5. ReadSoFar'
  BY <1>1 DEF ReadSoFar
<1> QED BY <1>1, <1>2, <1>3, <1>4, <1>5, NoSourceIs DEF ListsOK, Lengths

LEMMA QuitLists ==
  ASSUME ListsOK, Quit
  PROVE  ListsOK'
<1>1. /\ pc \notin {"load", "crashed"} /\ pc' = "exited" /\ vl' = <<>> /\ heap' = heap \ BlocksOf(vl)
      /\ source' = source /\ count' = count /\ reading' = reading
  BY DEF Quit, FromMenu, AtMenu
<1>2. count = 0 /\ reading = <<>>
  BY <1>1, EmptySeq DEF ListsOK, Lengths
<1>3. BlocksOf(<<>>) = {} /\ IsFiniteSet({}) /\ Cardinality({}) = 0 /\ Len(<<>>) = 0
  BY NoBlocks, FS_EmptySet
<1>4. Memory'
  BY <1>1, <1>2, <1>3 DEF ListsOK, Memory
<1>5. ReadSoFar' /\ 0 <= MaxRecords
  BY <1>1, <1>2, Bounds DEF ReadSoFar
<1> QED BY <1>1, <1>2, <1>3, <1>4, <1>5 DEF ListsOK, Lengths

-----------------------------------------------------------------------------
(* The suspected file and what is reported of it.                          *)

LEMMA SizeIs ==
  ASSUME FilesOK
  PROVE  /\ Len(suspect) \in Nat /\ Size \in Nat
         /\ Size <= Len(suspect) /\ Size <= BufLen
         /\ Size = Len(suspect) \/ Size = BufLen
BY Bounds, LenProperties DEF FilesOK, Size

(* The signatures of the list. *)
LEMMA SignaturesAre ==
  ASSUME vl \in Seq(Node)
  PROVE  {v.sig : v \in ToSet(vl)} \subseteq Sig
<1>1. \A i \in DOMAIN vl : vl[i] \in Node
  OBVIOUS
<1> QED BY <1>1 DEF ToSet, Node

(* Within what was read the buffer is the file. *)
LEMMA BufferIsFile ==
  ASSUME FilesOK, NEW garbage, NEW i \in Nat, i < Size
  PROVE  Buffer(garbage)[i] = suspect[i + 1]
<1>1. i \in 0 .. Size + MaxSig - 2
  BY SizeIs, Bounds
<1> QED BY <1>1 DEF Buffer

(* What a prefix is, without its subsequences. *)
LEMMA PrefixIs ==
  ASSUME NEW s \in Seq(Byte), NEW t \in Seq(Byte)
  PROVE  IsPrefix(s, t) <=> Len(s) <= Len(t) /\ \A i \in 1 .. Len(s) : s[i] = t[i]
<1>1. SubSeq(s, 1, Len(s)) = s /\ Len(s) \in Nat /\ Len(t) \in Nat
  BY SubSeqFull, LenProperties
<1>2. ASSUME Len(s) <= Len(t)
      PROVE  /\ SubSeq(t, 1, Len(s)) \in Seq(Byte) /\ Len(SubSeq(t, 1, Len(s))) = Len(s)
             /\ \A i \in 1 .. Len(s) : SubSeq(t, 1, Len(s))[i] = t[i]
  <2>1. \A i \in 1 .. Len(s) : t[i] \in Byte
    BY <1>1, <1>2, ElementOfSeq
  <2>2. 1 \in Int /\ Len(s) \in Int /\ Len(s) - 1 + 1 = Len(s)
    BY <1>1
  <2> QED BY <1>1, <2>1, <2>2, SubSeqProperties
<1>3. CASE Len(s) <= Len(t)
  <2> DEFINE u == SubSeq(t, 1, Len(s))
  <2>1. u \in Seq(Byte) /\ Len(u) = Len(s) /\ \A i \in 1 .. Len(s) : u[i] = t[i]
    BY <1>2, <1>3
  <2>2. IsPrefix(s, t) <=> s = u
    BY <1>1, <1>3 DEF IsPrefix
  <2> HIDE DEF u
  <2>3. s = u <=> \A i \in 1 .. Len(s) : s[i] = u[i]
    BY <2>1, SeqEqual
  <2> QED BY <1>3, <2>1, <2>2, <2>3
<1>4. CASE ~(Len(s) <= Len(t))
  BY <1>4 DEF IsPrefix
<1> QED BY <1>3, <1>4

LEMMA ReadFromIs ==
  ASSUME FilesOK, NEW offset \in 0 .. Size - 1
  PROVE  /\ ReadFrom(offset) \in Seq(Byte) /\ Len(ReadFrom(offset)) = Size - offset
         /\ \A i \in 1 .. Size - offset : ReadFrom(offset)[i] = suspect[offset + i]
<1>1. \A i \in offset + 1 .. Size : suspect[i] \in Byte
  BY SizeIs, ElementOfSeq DEF FilesOK
<1>2. /\ offset + 1 \in Int /\ Size \in Int /\ offset + 1 <= Size
      /\ Size - (offset + 1) + 1 = Size - offset
      /\ \A i \in Int : (offset + 1) + i - 1 = offset + i
  BY SizeIs
<1> QED BY <1>1, <1>2, SubSeqProperties DEF ReadFrom

LEMMA DetectFiles ==
  ASSUME FilesOK, ListsOK, Detect
  PROVE  FilesOK' /\ ReportsRight'
<1>1. PICK garbage \in [Beyond -> Byte] : reported' = Reports(Buffer(garbage))
  BY DEF Detect
<1>2. UNCHANGED <<suspect, fixed, req, vl>> /\ Size' = Size
  BY DEF Detect, fileVars, listVars, Size
<1> DEFINE listed == {v.sig : v \in ToSet(vl)}
<1>3. listed \subseteq Sig
  BY SignaturesAre DEF ListsOK
<1> HIDE DEF listed
<1>4. \A r : r \in reported' <=>
             r \in (0 .. Size - 1) \X listed /\ Matches(Buffer(garbage), r[1], r[2])
  BY <1>1 DEF Reports, listed
<1>5. reported' \subseteq (0 .. BufLen - 1) \X Sig
  BY <1>3, <1>4, SizeIs, Bounds
<1>6. FilesOK'
  BY <1>2, <1>5 DEF FilesOK, FixedIsNop
<1>7. ASSUME NEW r \in (0 .. Size - 1) \X listed
      PROVE  /\ r[1] \in Nat /\ r[1] < Size /\ r[2] \in Seq(Byte) /\ Len(r[2]) \in Nat
             /\ DOMAIN r[2] = 1 .. Len(r[2])
             /\ \A i \in DOMAIN r[2] :
                  r[1] + i - 1 < Size => Buffer(garbage)[r[1] + i - 1] = suspect[r[1] + i]
  <2>1. r[1] \in Nat /\ r[1] < Size /\ r[2] \in Sig
    BY <1>3, SizeIs
  <2>2. r[2] \in Seq(Byte) /\ Len(r[2]) \in Nat /\ DOMAIN r[2] = 1 .. Len(r[2])
    BY <2>1, SignatureIs, LenProperties
  <2>3. ASSUME NEW i \in DOMAIN r[2], r[1] + i - 1 < Size
        PROVE  Buffer(garbage)[r[1] + i - 1] = suspect[r[1] + i]
    <3>1. r[1] + i - 1 \in Nat /\ (r[1] + i - 1) + 1 = r[1] + i
      BY <2>1, <2>2
    <3> QED BY <2>3, <3>1, BufferIsFile
  <2> QED BY <2>1, <2>2, <2>3
<1>8. ASSUME NEW r \in (0 .. Size - 1) \X listed
      PROVE  /\ IsPrefix(r[2], ReadFrom(r[1])) <=>
                   /\ Len(r[2]) <= Size - r[1]
                   /\ \A i \in 1 .. Len(r[2]) : r[2][i] = suspect[r[1] + i]
             /\ IsPrefix(ReadFrom(r[1]), r[2]) <=>
                   /\ Size - r[1] <= Len(r[2])
                   /\ \A i \in 1 .. Size - r[1] : suspect[r[1] + i] = r[2][i]
  <2>1. /\ ReadFrom(r[1]) \in Seq(Byte) /\ Len(ReadFrom(r[1])) = Size - r[1]
        /\ \A i \in 1 .. Size - r[1] : ReadFrom(r[1])[i] = suspect[r[1] + i]
    BY ReadFromIs
  <2>2. r[2] \in Seq(Byte) /\ Len(r[2]) \in Nat /\ r[1] \in Nat /\ Size \in Nat
    BY <1>7, SizeIs
  <2>3. IsPrefix(r[2], ReadFrom(r[1])) <=>
          Len(r[2]) <= Size - r[1] /\ \A i \in 1 .. Len(r[2]) : r[2][i] = ReadFrom(r[1])[i]
    BY <2>1, <2>2, PrefixIs
  <2>4. IsPrefix(ReadFrom(r[1]), r[2]) <=>
          Size - r[1] <= Len(r[2]) /\ \A i \in 1 .. Size - r[1] : ReadFrom(r[1])[i] = r[2][i]
    BY <2>1, <2>2, PrefixIs
  <2> QED BY <2>1, <2>2, <2>3, <2>4
<1>9. ASSUME NEW v \in ToSet(vl), NEW offset \in 0 .. Size - 1, IsPrefix(v.sig, ReadFrom(offset))
      PROVE  <<offset, v.sig>> \in reported'
  <2> DEFINE q == <<offset, v.sig>>
  <2>1. q \in (0 .. Size - 1) \X listed /\ q[1] = offset /\ q[2] = v.sig
    BY DEF listed
  <2> HIDE DEF q
  <2>2. /\ Len(q[2]) <= Size - q[1] /\ DOMAIN q[2] = 1 .. Len(q[2])
        /\ \A i \in 1 .. Len(q[2]) : q[2][i] = suspect[q[1] + i]
    BY <1>7, <1>8, <1>9, <2>1
  <2>3. \A i \in DOMAIN q[2] : q[1] + i - 1 < Size
    BY <1>7, <2>1, <2>2, SizeIs
  <2>4. Matches(Buffer(garbage), q[1], q[2])
    BY <1>7, <2>1, <2>2, <2>3 DEF Matches
  <2> QED BY <1>4, <2>1, <2>4 DEF q
<1>10. ASSUME NEW r \in reported'
       PROVE  IsPrefix(r[2], ReadFrom(r[1])) \/ IsPrefix(ReadFrom(r[1]), r[2])
  <2>1. r \in (0 .. Size - 1) \X listed /\ Matches(Buffer(garbage), r[1], r[2])
    BY <1>4
  <2>2. \A i \in 1 .. Len(r[2]) : r[1] + i - 1 < Size => suspect[r[1] + i] = r[2][i]
    BY <1>7, <2>1 DEF Matches
  <2>3. CASE r[1] + Len(r[2]) <= Size
    <3>1. \A i \in 1 .. Len(r[2]) : r[2][i] = suspect[r[1] + i]
      BY <1>7, <2>1, <2>2, <2>3, SizeIs
    <3>2. Len(r[2]) <= Size - r[1]
      BY <1>7, <2>1, <2>3, SizeIs
    <3> QED BY <1>8, <2>1, <3>1, <3>2
  <2>4. CASE ~(r[1] + Len(r[2]) <= Size)
    <3>1. Size - r[1] <= Len(r[2])
      BY <1>7, <2>1, <2>4, SizeIs
    <3>2. \A i \in 1 .. Size - r[1] : suspect[r[1] + i] = r[2][i]
      BY <1>7, <2>1, <2>2, <3>1, SizeIs
    <3> QED BY <1>8, <2>1, <3>1, <3>2
  <2> QED BY <2>3, <2>4
<1>11. ASSUME NEW r \in reported', NEW i \in DOMAIN r[2],
              r[1] + i - 1 \in fixed, r[1] + i <= BufLen
       PROVE  r[2][i] = NOP
  <2>1. r \in (0 .. Size - 1) \X listed /\ Matches(Buffer(garbage), r[1], r[2])
    BY <1>4
  <2>2. r[1] \in Nat /\ i \in Nat
    BY <1>7, <2>1
  <2>3. r[1] + i - 1 < Len(suspect) /\ suspect[(r[1] + i - 1) + 1] = NOP
    BY <1>11 DEF FilesOK, FixedIsNop
  <2>4. r[1] + i - 1 < Size /\ (r[1] + i - 1) + 1 = r[1] + i
    BY <1>11, <2>2, <2>3, SizeIs, Bounds
  <2>5. Buffer(garbage)[r[1] + i - 1] = r[2][i]
    BY <1>11, <2>1 DEF Matches
  <2>6. Buffer(garbage)[r[1] + i - 1] = suspect[r[1] + i]
    BY <1>7, <1>11, <2>1, <2>4
  <2>7. suspect[r[1] + i] = NOP
    BY <2>3, <2>4
  <2> QED BY <2>5, <2>6, <2>7
<1>12. ToSet(vl)' = ToSet(vl) /\ \A offset : ReadFrom(offset)' = ReadFrom(offset)
  BY <1>2 DEF ReadFrom
<1>13. ReportsRight'
  <2> SUFFICES /\ \A v \in ToSet(vl), offset \in 0 .. Size - 1 :
                    IsPrefix(v.sig, ReadFrom(offset)) => <<offset, v.sig>> \in reported'
               /\ \A r \in reported' :
                    /\ IsPrefix(r[2], ReadFrom(r[1])) \/ IsPrefix(ReadFrom(r[1]), r[2])
                    /\ \A i \in DOMAIN r[2] :
                         r[1] + i - 1 \in fixed /\ r[1] + i <= BufLen => r[2][i] = NOP
    BY <1>2, <1>12, Zenon DEF ReportsRight
  <2> QED BY <1>9, <1>10, <1>11
<1> QED BY <1>6, <1>13

(* What killing a virus leaves is a file, NOPs where they were asked for,  *)
(* and elsewhere what it was.                                              *)
LEMMA FilledIs ==
  ASSUME FilesOK, NEW at \in Nat, NEW n \in Nat
  PROVE  /\ Filled(at, n) \in Seq(Byte) /\ Len(Filled(at, n)) \in Nat
         /\ Len(Filled(at, n)) >= Len(suspect)
         /\ n > 0 => Len(Filled(at, n)) >= at + n
         /\ \A i \in 1 .. Len(Filled(at, n)) :
              Filled(at, n)[i] = IF at < i /\ i <= at + n THEN NOP
                                 ELSE IF i <= Len(suspect) THEN suspect[i] ELSE 0
<1> DEFINE end == IF n > 0 /\ at + n > Len(suspect) THEN at + n ELSE Len(suspect)
           byte(i) == IF at < i /\ i <= at + n THEN NOP
                      ELSE IF i <= Len(suspect) THEN suspect[i] ELSE 0
<1>1. Len(suspect) \in Nat /\ end \in Nat /\ end >= Len(suspect) /\ (n > 0 => end >= at + n)
  BY SizeIs
<1>2. Filled(at, n) = [i \in 1 .. end |-> byte(i)]
  BY DEF Filled
<1> HIDE DEF end
<1>3. ASSUME NEW i \in 1 .. end
      PROVE  byte(i) \in Byte
  <2>1. i <= Len(suspect) => suspect[i] \in Byte
    BY <1>1, ElementOfSeq DEF FilesOK
  <2> QED BY <2>1, Bounds
<1> HIDE DEF byte
<1>4. Filled(at, n) \in [1 .. end -> Byte]
  BY <1>2, <1>3
<1>5. Filled(at, n) \in Seq(Byte) /\ Len(Filled(at, n)) = end
  BY <1>1, <1>4, IsASeq
<1>6. \A i \in 1 .. end : Filled(at, n)[i] = byte(i)
  BY <1>2
<1> QED BY <1>1, <1>5, <1>6 DEF byte

LEMMA RequestIs ==
  ASSUME FilesOK
  PROVE  req[1] \in Int /\ req[2] \in Int
<1>1. Number \cup {0} \subseteq Int
  BY Bounds
<1> QED BY <1>1 DEF FilesOK

LEMMA KillFiles ==
  ASSUME FilesOK, KillVirus
  PROVE  FilesOK'
<1>1. req[1] \in Nat /\ req[2] \in Int
  <2>1. req[1] \in Int /\ req[2] \in Int
    BY RequestIs
  <2> QED BY <2>1 DEF KillVirus
<1>2. PICK n \in 0 .. (IF req[2] > 0 THEN req[2] ELSE 0) :
        /\ req[1] + n <= MaxFile
        /\ suspect' = Filled(req[1], n)
        /\ fixed' = IF n = req[2] THEN fixed \cup {req[1] + i : i \in 0 .. n - 1} ELSE fixed
  BY DEF KillVirus
<1>3. n \in Nat
  BY <1>1
<1>4. /\ suspect' \in Seq(Byte) /\ Len(suspect') \in Nat /\ Len(suspect') >= Len(suspect)
      /\ n > 0 => Len(suspect') >= req[1] + n
      /\ \A i \in 1 .. Len(suspect') :
           suspect'[i] = IF req[1] < i /\ i <= req[1] + n THEN NOP
                         ELSE IF i <= Len(suspect) THEN suspect[i] ELSE 0
  BY <1>1, <1>2, <1>3, FilledIs
<1>5. ASSUME NEW o \in fixed'
      PROVE  o \in 0 .. MaxFile - 1 /\ o < Len(suspect') /\ suspect'[o + 1] = NOP
  <2>1. CASE o \in fixed
    <3>1. o \in Nat /\ o \in 0 .. MaxFile - 1 /\ o < Len(suspect) /\ suspect[o + 1] = NOP
      BY <2>1, Bounds DEF FilesOK, FixedIsNop
    <3>2. o + 1 \in 1 .. Len(suspect') /\ o + 1 <= Len(suspect)
      BY <1>4, <3>1, SizeIs
    <3> QED BY <1>4, <3>1, <3>2, SizeIs
  <2>2. CASE o \notin fixed
    <3>1. PICK i \in 0 .. n - 1 : o = req[1] + i
      BY <1>2, <2>2
    <3>2. n > 0 /\ o \in Nat /\ o < req[1] + n /\ o + 1 \in 1 .. Len(suspect')
      BY <1>1, <1>3, <1>4, <3>1
    <3>3. o < MaxFile /\ req[1] < o + 1 /\ o + 1 <= req[1] + n
      BY <1>1, <1>2, <1>3, <3>1, <3>2, Bounds
    <3> QED BY <1>1, <1>3, <1>4, <3>2, <3>3, Bounds
  <2> QED BY <2>1, <2>2
<1>6. UNCHANGED reported /\ req' = <<0, 0>>
  BY DEF KillVirus, FixReturns
<1>7. req' \in (Number \cup {0}) \X (Number \cup {0})
  BY <1>6
<1> QED BY <1>4, <1>5, <1>6, <1>7 DEF FilesOK, FixedIsNop

(* An action that leaves the suspected file alone. *)
LEMMA FilesKept ==
  ASSUME FilesOK, UNCHANGED fileVars, reported' \in {reported, {}}, pc' # "reported",
         req' \in (Number \cup {0}) \X (Number \cup {0})
  PROVE  FilesOK' /\ ReportsRight'
BY DEF FilesOK, FixedIsNop, ReportsRight, fileVars

-----------------------------------------------------------------------------
(* The programs.                                                           *)

LEMMA InitOK == StagesInit => VInv
<1> SUFFICES ASSUME StagesInit PROVE VInv
  OBVIOUS
<1>1. /\ pc = "menu" /\ vl = <<>> /\ source = NoSource /\ count = 0 /\ reading = <<>>
      /\ heap = {} /\ streams = 0 /\ reported = {} /\ req = <<0, 0>> /\ fixed = {}
      /\ suspect \in BoundedSeq(Byte, MaxFile) /\ version \in Versions
  BY DEF StagesInit, Init
<1>2. BlocksOf(<<>>) = {} /\ IsFiniteSet({}) /\ Cardinality({}) = 0 /\ Len(<<>>) = 0
  BY NoBlocks, FS_EmptySet
<1>3. Memory
  <2>1. 3 * 0 = 0 /\ {} = {} \cup {} /\ {} \cap {} = {}
    OBVIOUS
  <2> QED BY <1>1, <1>2, <2>1, Zenon DEF Memory
<1>4. ListsOK
  BY <1>1, <1>2, <1>3, NoSourceIs, Bounds DEF ListsOK, Lengths, ReadSoFar
<1>5. suspect \in Seq(Byte)
  <2>1. PICK m \in 0 .. MaxFile : suspect \in [1 .. m -> Byte]
    BY <1>1 DEF BoundedSeq, SeqOf
  <2> QED BY <2>1, Bounds, IsASeq
<1>6. FilesOK /\ ReportsRight
  BY <1>1, <1>5 DEF FilesOK, FixedIsNop, ReportsRight
<1>7. StreamsOK
  BY <1>1, Bounds DEF StreamsOK
<1> QED BY <1>1, <1>4, <1>6, <1>7 DEF VInv

(* The end of a load, with the new list or with none. *)
LEMMA LoadReturnsOK ==
  ASSUME VInv, version' = version, pc = "load", NEW new, NEW failed,
         LoadReturns(new, failed), ListsOK'
  PROVE  VInv'
<1>1. FilesOK' /\ ReportsRight'
  BY FilesKept DEF LoadReturns, VInv, FilesOK
<1>2. StreamsOK' /\ pc' = "menu"
  BY Bounds DEF LoadReturns, VInv, StreamsOK
<1> QED BY <1>1, <1>2 DEF VInv

(* What all versions do. *)
CommonStep ==
  \/ \E file \in SigFile : LoadOpens(file)
  \/ LoadEnds \/ LinkFails \/ Detect
  \/ \E offset, size \in Number : AskFix(offset, size)
  \/ KillVirus \/ Quit

LEMMA CommonStepOK ==
  ASSUME VInv, version' = version, CommonStep
  PROVE  VInv'
<1> USE DEF VInv
<1>1. ASSUME NEW file \in SigFile, LoadOpens(file)
      PROVE  VInv'
  <2>1. ListsOK'
    BY <1>1, OpenLists DEF LoadOpens, FromMenu, AtMenu
  <2>2. FilesOK' /\ ReportsRight'
    BY <1>1, FilesKept DEF LoadOpens, FromMenu, FilesOK
  <2>3. StreamsOK' /\ pc' = "load"
    BY <1>1, Bounds DEF LoadOpens, FromMenu, AtMenu, StreamsOK
  <2> QED BY <2>1, <2>2, <2>3
<1>2. CASE LoadEnds
  BY <1>2, ReturnLists, LoadReturnsOK DEF LoadEnds
<1>3. CASE LinkFails
  <2>1. ListsOK'
    BY <1>3, ListsKept DEF LinkFails, listVars
  <2>2. FilesOK' /\ ReportsRight'
    BY <1>3, FilesKept DEF LinkFails, FilesOK
  <2>3. StreamsOK' /\ pc' = "crashed"
    BY <1>3 DEF LinkFails, StreamsOK
  <2> QED BY <2>1, <2>2, <2>3
<1>4. CASE Detect
  <2>1. ListsOK'
    BY <1>4, ListsKept DEF Detect, AtMenu, listVars
  <2>2. FilesOK' /\ ReportsRight'
    BY <1>4, DetectFiles
  <2>3. StreamsOK' /\ pc' = "reported"
    BY <1>4 DEF Detect, AtMenu, StreamsOK
  <2> QED BY <2>1, <2>2, <2>3
<1>5. ASSUME NEW offset \in Number, NEW size \in Number, AskFix(offset, size)
      PROVE  VInv'
  <2>1. ListsOK'
    BY <1>5, ListsKept DEF AskFix, FromMenu, AtMenu, listVars
  <2>2. FilesOK' /\ ReportsRight'
    BY <1>5, FilesKept DEF AskFix, FromMenu
  <2>3. StreamsOK' /\ pc' = "fix"
    BY <1>5 DEF AskFix, FromMenu, AtMenu, StreamsOK
  <2> QED BY <2>1, <2>2, <2>3
<1>6. CASE KillVirus
  <2>1. ListsOK'
    BY <1>6, ListsKept DEF KillVirus, FixReturns, listVars
  <2>2. FilesOK'
    BY <1>6, KillFiles
  <2>3. StreamsOK' /\ pc' = "menu" /\ ReportsRight'
    BY <1>6 DEF KillVirus, FixReturns, StreamsOK, ReportsRight
  <2> QED BY <2>1, <2>2, <2>3
<1>7. CASE Quit
  <2>1. ListsOK'
    BY <1>7, QuitLists
  <2>2. FilesOK' /\ ReportsRight'
    BY <1>7, FilesKept DEF Quit, FromMenu, FilesOK
  <2>3. StreamsOK' /\ pc' = "exited"
    BY <1>7 DEF Quit, FromMenu, AtMenu, StreamsOK
  <2> QED BY <2>1, <2>2, <2>3
<1> QED BY <1>1, <1>2, <1>3, <1>4, <1>5, <1>6, <1>7 DEF CommonStep

(* What some versions do. *)
VersionStep ==
  \/ version = "actual" /\ (ReadRecord \/ SeekFails)
  \/ version # "actual" /\ (ReadRecordLast \/ SeekFailsOpen)
  \/ LoadFails \/ WarmupLoadFails \/ WarmupFixUnasked \/ WarmupQuit \/ WarmupEndOfMenu

LEMMA VersionStepOK ==
  ASSUME VInv, version' = version, VersionStep
  PROVE  VInv'
<1> USE DEF VInv
<1>1. ASSUME \/ version = "actual" /\ ReadRecord
             \/ version # "actual" /\ ReadRecordLast
      PROVE  VInv'
  <2>1. ListsOK'
    BY <1>1, ReadLists
  <2>2. pc = "load" /\ UNCHANGED <<pc, streams, fileVars, reported, req>>
    BY <1>1 DEF ReadRecord, ReadRecordLast, ReadNext
  <2>3. FilesOK' /\ ReportsRight'
    BY <2>2, FilesKept DEF FilesOK
  <2> QED BY <2>1, <2>2, <2>3 DEF StreamsOK
<1>2. ASSUME \/ version = "actual" /\ SeekFails
             \/ version # "actual" /\ SeekFailsOpen
      PROVE  VInv'
  <2>1. /\ pc = "fix" /\ pc' = "menu" /\ req' = <<0, 0>> /\ UNCHANGED <<listVars, reported, fileVars>>
        /\ \/ version = "actual" /\ streams' = streams
           \/ version # "actual" /\ streams < MaxStreams /\ streams' = streams + 1
    BY <1>2 DEF SeekFails, SeekFailsOpen, FixReturns
  <2>2. ListsOK'
    BY <2>1, ListsKept DEF listVars
  <2>3. FilesOK' /\ ReportsRight'
    BY <2>1, FilesKept
  <2>4. StreamsOK'
    BY <2>1, Bounds DEF StreamsOK
  <2> QED BY <2>1, <2>2, <2>3, <2>4
<1>3. CASE LoadFails
  BY <1>3, ReturnLists, LoadReturnsOK DEF LoadFails
<1>4. CASE WarmupLoadFails
  BY <1>4, ReturnLists, LoadReturnsOK DEF WarmupLoadFails
<1>5. CASE WarmupFixUnasked
  <2>1. ListsOK'
    BY <1>5, ListsKept DEF WarmupFixUnasked, listVars
  <2>2. FilesOK' /\ ReportsRight'
    BY <1>5, FilesKept DEF WarmupFixUnasked
  <2>3. StreamsOK' /\ pc' = "fix"
    BY <1>5 DEF WarmupFixUnasked, StreamsOK
  <2> QED BY <2>1, <2>2, <2>3
<1>6. CASE WarmupQuit \/ WarmupEndOfMenu
  <2>1. ListsOK'
    BY <1>6, ListsKept DEF WarmupQuit, WarmupEndOfMenu, FromMenu, AtMenu, listVars
  <2>2. FilesOK' /\ ReportsRight'
    BY <1>6, FilesKept DEF WarmupQuit, WarmupEndOfMenu, FromMenu, FilesOK
  <2>3. StreamsOK' /\ pc' \in {"exited", "crashed"}
    BY <1>6 DEF WarmupQuit, WarmupEndOfMenu, FromMenu, AtMenu, StreamsOK
  <2> QED BY <2>1, <2>2, <2>3
<1> QED BY <1>1, <1>2, <1>3, <1>4, <1>5, <1>6 DEF VersionStep

LEMMA StagesStepIs == StagesNext => version' = version /\ (CommonStep \/ VersionStep)
BY DEF StagesNext, Next, Warmup2Next, WarmupNext, Task1Next, Task1Load, WarmupDetect,
       Task1Detect, CommonStep, VersionStep

LEMMA StepOK == VInv /\ [StagesNext]_stagesVars => VInv'
<1> SUFFICES ASSUME VInv, [StagesNext]_stagesVars PROVE VInv'
  OBVIOUS
<1>1. CASE StagesNext
  BY <1>1, StagesStepIs, CommonStepOK, VersionStepOK
<1>2. CASE UNCHANGED stagesVars
  BY <1>2 DEF stagesVars, vars, listVars, fileVars, VInv, ListsOK, StreamsOK, FilesOK,
     ReportsRight, Memory, Lengths, ReadSoFar, FixedIsNop, ReadFrom, Size
<1> QED BY <1>1, <1>2

LEMMA InvariantHolds == StagesSpec => []VInv
BY InitOK, StepOK, PTL DEF StagesSpec

-----------------------------------------------------------------------------
(* What the signatures of a list read are.                                 *)

LEMMA AllRead ==
  ASSUME ListsOK, version # "actual"
  PROVE  Sigs(reading) = SubSeq(source.records, 1, count)
<1>1. /\ reading \in Seq(Node) /\ Len(reading) = count /\ DOMAIN reading = 1 .. count
      /\ source.records \in Seq(Sig) /\ count \in 0 .. Len(source.records)
      /\ Len(source.records) \in Nat
  BY LenProperties, RecordsAre DEF ListsOK, Lengths
<1>2. /\ SubSeq(source.records, 1, count) \in Seq(Sig)
      /\ Len(SubSeq(source.records, 1, count)) = count
      /\ \A i \in 1 .. count : SubSeq(source.records, 1, count)[i] = source.records[i]
  BY <1>1
<1>3. SubSeq(source.records, 1, count)
        = [i \in 1 .. count |-> SubSeq(source.records, 1, count)[i]]
  BY <1>2
<1>4. \A i \in 1 .. count : reading[i].sig = source.records[i]
  BY DEF ListsOK, ReadSoFar
<1>5. Sigs(reading) = [i \in 1 .. count |-> reading[i].sig]
  BY <1>1 DEF Sigs
<1> QED BY <1>2, <1>3, <1>4, <1>5

LEMMA ReadBackwards ==
  ASSUME ListsOK, version = "actual", count = Len(source.records)
  PROVE  Sigs(reading) = Reverse(source.records)
<1>1. /\ reading \in Seq(Node) /\ DOMAIN reading = 1 .. count /\ count \in Nat
  BY LenProperties, RecordsAre DEF ListsOK, Lengths
<1>2. \A i \in 1 .. count : reading[i].sig = source.records[(count - i) + 1]
  <2> SUFFICES ASSUME NEW i \in 1 .. count
               PROVE  reading[i].sig = source.records[(count - i) + 1]
    OBVIOUS
  <2>1. count + 1 - i = (count - i) + 1
    BY <1>1
  <2> QED BY <2>1 DEF ListsOK, ReadSoFar
<1> QED BY <1>1, <1>2 DEF Sigs, Reverse

LEMMA LoadStep ==
  ASSUME VInv, StagesNext, pc = "load", pc' = "menu"
  PROVE  Sigs(vl') \in CASE version = "actual" -> {<<>>, Reverse(source.records)}
                         [] version = "warmup2" -> {<<>>, source.records}
                         [] version \in {"warmup", "task1"} ->
                                {SubSeq(source.records, 1, count)}
<1>1. \/ LoadEnds
      \/ version \in {"actual", "warmup2"} /\ LoadFails
      \/ version \in {"warmup", "task1"} /\ WarmupLoadFails
  BY DEF StagesNext, Next, Warmup2Next, WarmupNext, Task1Next, Task1Load, WarmupDetect,
         Task1Detect, LoadOpens, ReadRecord, ReadRecordLast, ReadNext, LinkFails, Detect,
         AskFix, SeekFails, SeekFailsOpen, KillVirus, Quit, WarmupQuit, WarmupEndOfMenu,
         WarmupFixUnasked, FromMenu, AtMenu
<1>2. ListsOK /\ version \in Versions /\ source.records \in Seq(Sig)
  BY RecordsAre DEF VInv, ListsOK
<1>3. CASE LoadEnds
  <2>1. vl' = reading /\ count = Len(source.records)
    BY <1>3 DEF LoadEnds, LoadReturns
  <2>2. CASE version = "actual"
    BY <1>2, <2>1, <2>2, ReadBackwards
  <2>3. CASE version = "warmup2"
    <3>1. SubSeq(source.records, 1, Len(source.records)) = source.records
      BY <1>2, SubSeqFull
    <3> QED BY <1>2, <2>1, <2>3, <3>1, AllRead
  <2>4. CASE version \in {"warmup", "task1"}
    BY <1>2, <2>1, <2>4, AllRead
  <2> QED BY <1>2, <2>2, <2>3, <2>4 DEF Versions
<1>4. CASE version \in {"actual", "warmup2"} /\ LoadFails
  <2>1. vl' = <<>>
    BY <1>4 DEF LoadFails, LoadReturns
  <2>2. Sigs(<<>>) = <<>>
    BY DEF Sigs
  <2> QED BY <1>4, <2>1, <2>2
<1>5. CASE version \in {"warmup", "task1"} /\ WarmupLoadFails
  <2>1. vl' = reading
    BY <1>5 DEF WarmupLoadFails, LoadReturns
  <2> QED BY <1>2, <1>5, <2>1, AllRead
<1> QED BY <1>1, <1>3, <1>4, <1>5

-----------------------------------------------------------------------------
(* The variables have their types: no list holds anything but nodes of     *)
(* signatures, no report is outside what was read, and nothing is fixed    *)
(* outside the file.                                                       *)
THEOREM VirusTypeCorrect == StagesSpec => []TypeOK
<1>1. VInv => TypeOK
  BY DEF VInv, TypeOK, ListsOK, StreamsOK, FilesOK
<1> QED BY <1>1, InvariantHolds, PTL

(* Whatever malloc or read fails in the middle of a load, and in whatever  *)
(* order loads, detections, fixes and the end of the program come, the     *)
(* blocks allocated are those of the lists, each once; and the actual      *)
(* program has closed every file whenever it is back at its menu.          *)
THEOREM NothingLeaks == StagesSpec => []ResourcesOfVersion
<1>1. VInv => ResourcesOfVersion
  <2> SUFFICES ASSUME VInv PROVE ResourcesOfVersion
    OBVIOUS
  <2>1. MemoryExact
    BY HeapCount DEF VInv, ListsOK, Memory, MemoryExact
  <2>2. version = "actual" => StreamsExact
    BY DEF VInv, StreamsOK, StreamsExact, AtMenu
  <2> QED BY <2>1, <2>2 DEF ResourcesOfVersion, ResourcesExact
<1> QED BY <1>1, InvariantHolds, PTL

(* In every version, whatever is behind the buffer: a detection finds all  *)
(* listed viruses that lie in the part of the file that it read, and only  *)
(* such and those that the end of this part begins; of what lies behind it *)
(* nothing is promised.  What a fix has overwritten is not found again.    *)
THEOREM ReportsAreRight == StagesSpec => []ReportsRight
<1>1. VInv => ReportsRight
  BY DEF VInv
<1> QED BY <1>1, InvariantHolds, PTL

(* A load ends with all viruses of the file or with none, in the first two *)
(* versions with those before the failure, in the order of the version.    *)
THEOREM LoadsAllOrNothing == StagesSpec => LoadsOfVersion
<1> DEFINE loaded == CASE version = "actual" -> {<<>>, Reverse(source.records)}
                       [] version = "warmup2" -> {<<>>, source.records}
                       [] version \in {"warmup", "task1"} ->
                              {SubSeq(source.records, 1, count)}
<1>1. VInv /\ [StagesNext]_stagesVars =>
        [pc = "load" /\ pc' = "menu" => Sigs(vl') \in loaded]_stagesVars
  BY LoadStep
<1> QED BY <1>1, InvariantHolds, PTL DEF StagesSpec, LoadsOfVersion
=============================================================================
