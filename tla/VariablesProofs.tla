--------------------------- MODULE VariablesProofs --------------------------
(***************************************************************************)
(* Proofs about the front ends of the lab-6 shells, for every set of lines *)
(* that may be typed, of any length, and any number of variables.          *)
(***************************************************************************)
EXTENDS FiniteSetTheorems, SequenceTheorems, WellFoundedInduction, VariablesStages, TLAPS

-----------------------------------------------------------------------------
(* Numbers.                                                                *)

LEMMA LeastElement ==
  ASSUME NEW T \in SUBSET Nat, T # {}
  PROVE  Min(T) \in T /\ \A c \in T : Min(T) <= c
<1>1. IsWellFoundedOn(OpToRel(<, Nat), Nat)
  BY NatLessThanWellFounded, Zenon
<1>2. PICK b \in T : \A c \in T : ~(<<c, b>> \in OpToRel(<, Nat))
  BY <1>1, WFMin, Zenon
<1>3. \A c \in T : b <= c
  <2> SUFFICES ASSUME NEW c \in T, c < b PROVE FALSE
    OBVIOUS
  <2>1. <<c, b>> \in {p \in Nat \X Nat : p[1] < p[2]}
    OBVIOUS
  <2>. QED BY <1>2, <2>1, Zenon DEF OpToRel
<1>. QED BY <1>3 DEF Min

(* Induction, for the members of a set. *)
LEMMA SetInduction ==
  ASSUME NEW S, 0 \in S, \A n \in Nat : n \in S => n + 1 \in S
  PROVE  \A n \in Nat : n \in S
<1> DEFINE T == {n \in Nat : n \notin S}
<1>1. SUFFICES ASSUME T # {} PROVE FALSE
  OBVIOUS
<1>2. Min(T) \in Nat /\ Min(T) \notin S /\ \A c \in T : Min(T) <= c
  BY <1>1, LeastElement
<1>3. Min(T) # 0 /\ Min(T) - 1 \in Nat /\ Min(T) - 1 \notin T
  BY <1>2
<1>. QED BY <1>2, <1>3

LEMMA GreatestElement ==
  ASSUME NEW n \in Nat, NEW T \in SUBSET (1 .. n), T # {}
  PROVE  Max(T) \in T /\ \A c \in T : c <= Max(T)
<1> DEFINE U == {n - c : c \in T}
<1>1. U \in SUBSET Nat /\ U # {}
  <2>1. \A c \in T : n - c \in Nat
    OBVIOUS
  <2>2. PICK c \in T : TRUE
    OBVIOUS
  <2>. QED BY <2>1, <2>2
<1>2. PICK u \in U : \A c \in U : u <= c
  BY <1>1, LeastElement
<1>3. PICK m \in T : u = n - m
  BY <1>2
<1>4. \A c \in T : c <= m
  <2> TAKE c \in T
  <2>1. u <= n - c
    BY <1>2
  <2>. QED BY <1>3, <2>1
<1>. QED BY <1>4 DEF Max

-----------------------------------------------------------------------------
(* Searches.                                                               *)

(* The place of the first of a sequence that a search looks for, or 0.     *)
LEMMA FirstPlace ==
  ASSUME NEW n \in Nat, NEW I \in SUBSET (1 .. n),
         NEW i, i = IF I # {} THEN Min(I) ELSE 0
  PROVE  /\ i \in 0 .. n /\ (i = 0 <=> I = {})
         /\ i # 0 => i \in I /\ \A j \in 1 .. i - 1 : j \notin I
<1>1. CASE I = {}
  BY <1>1
<1>2. CASE I # {}
  <2>1. i \in I /\ \A c \in I : i <= c
    <3>1. I \in SUBSET Nat
      OBVIOUS
    <3>. QED BY <1>2, <3>1, LeastElement
  <2>2. i \in 1 .. n /\ \A j \in 1 .. i - 1 : ~(i <= j)
    BY <2>1
  <2>. QED BY <1>2, <2>1, <2>2
<1>. QED BY <1>1, <1>2

-----------------------------------------------------------------------------
(* The parts of a line.                                                    *)

PartsWith(parts, t) ==
  IF t = Bar THEN Append(parts, <<>>)
  ELSE [parts EXCEPT ![Len(parts)] = Append(@, t)]

(* What the fold computes: the parts of the tokens at the places s.        *)
Folds(f, line, n) ==
  f = [s \in SUBSET (1 .. n) |->
         IF s = {} THEN << <<>> >>
         ELSE PartsWith(f[s \ {Max(s)}], line[Max(s)])]

LEMMA PartsFold ==
  ASSUME NEW S, NEW line \in Seq(S)
  PROVE  Parts(line) = (CHOOSE f : Folds(f, line, Len(line)))[1 .. Len(line)]
<1>1. DOMAIN line = 1 .. Len(line)
  BY LenProperties
<1>2. Parts(line) = (CHOOSE f : Folds(f, line, Len(line)))[DOMAIN line]
  BY <1>1 DEF Parts, FoldLeft, MapThenFoldSet, Folds, PartsWith
<1>. QED BY <1>1, <1>2

LEMMA FoldExists ==
  ASSUME NEW S, NEW line \in Seq(S)
  PROVE  \A n \in Nat : \E f : Folds(f, line, n)
<1> DEFINE I == {n \in Nat : \E f : Folds(f, line, n)}
<1>1. 0 \in I
  <2> DEFINE f == [s \in SUBSET (1 .. 0) |-> << <<>> >>]
  <2>1. \A s \in SUBSET (1 .. 0) : s = {}
    OBVIOUS
  <2>2. Folds(f, line, 0)
    BY <2>1 DEF Folds
  <2>. QED BY <2>2
<1>2. ASSUME NEW n \in Nat, n \in I
      PROVE  n + 1 \in I
  <2>0. n + 1 \in Nat
    OBVIOUS
  <2>1. PICK f : Folds(f, line, n)
    BY <1>2
  <2> DEFINE g == [s \in SUBSET (1 .. n + 1) |->
                     IF n + 1 \in s THEN PartsWith(f[s \ {n + 1}], line[n + 1])
                     ELSE f[s]]
  <2>2. ASSUME NEW s \in SUBSET (1 .. n + 1)
        PROVE  g[s] = IF s = {} THEN << <<>> >>
                      ELSE PartsWith(g[s \ {Max(s)}], line[Max(s)])
    <3>1. CASE n + 1 \in s
      <4>1. Max(s) = n + 1
        <5>1. Max(s) \in s /\ \A c \in s : c <= Max(s)
          BY <2>0, <3>1, GreatestElement
        <5>2. Max(s) \in 1 .. n + 1 /\ n + 1 <= Max(s)
          BY <3>1, <5>1
        <5>. QED BY <5>2
      <4>2. /\ s \ {n + 1} \in SUBSET (1 .. n)
            /\ s \ {n + 1} \in SUBSET (1 .. n + 1)
        OBVIOUS
      <4>3. g[s \ {n + 1}] = f[s \ {n + 1}]
        BY <4>2
      <4>. QED BY <3>1, <4>1, <4>3
    <3>2. CASE n + 1 \notin s /\ s # {}
      <4>1. s \in SUBSET (1 .. n)
        BY <3>2
      <4>2. Max(s) \in s
        BY <2>0, <3>2, GreatestElement
      <4>3. g[s] = f[s] /\ g[s \ {Max(s)}] = f[s \ {Max(s)}]
        BY <3>2, <4>1
      <4>4. f[s] = PartsWith(f[s \ {Max(s)}], line[Max(s)])
        BY <2>1, <3>2, <4>1 DEF Folds
      <4>. QED BY <3>2, <4>3, <4>4
    <3>3. CASE s = {}
      BY <2>1, <3>3 DEF Folds
    <3>. QED BY <3>1, <3>2, <3>3
  <2>3. Folds(g, line, n + 1)
    BY <2>2 DEF Folds
  <2>. QED BY <2>3
<1> HIDE DEF I
<1>3. \A n \in Nat : n \in I
  BY <1>1, <1>2, SetInduction
<1>. QED BY <1>3 DEF I
PartsTo(line, k) == (CHOOSE f : Folds(f, line, Len(line)))[1 .. k]

LEMMA PartsSteps ==
  ASSUME NEW S, NEW line \in Seq(S)
  PROVE  /\ Parts(line) = PartsTo(line, Len(line))
         /\ PartsTo(line, 0) = << <<>> >>
         /\ \A k \in 0 .. Len(line) - 1 :
              PartsTo(line, k + 1) = PartsWith(PartsTo(line, k), line[k + 1])
<1> DEFINE n == Len(line)
           f == CHOOSE g : Folds(g, line, n)
<1>1. n \in Nat /\ Folds(f, line, n)
  BY FoldExists, LenProperties
<1> HIDE DEF f
<1>2. \A s \in SUBSET (1 .. n) :
        f[s] = IF s = {} THEN << <<>> >>
               ELSE PartsWith(f[s \ {Max(s)}], line[Max(s)])
  BY <1>1 DEF Folds
<1>3. f[1 .. 0] = << <<>> >>
  <2>1. 1 .. 0 = {} /\ {} \in SUBSET (1 .. n)
    BY <1>1
  <2>. QED BY <1>2, <2>1
<1>4. ASSUME NEW k \in 0 .. n - 1
      PROVE  f[1 .. k + 1] = PartsWith(f[1 .. k], line[k + 1])
  <2>1. k + 1 \in Nat /\ 1 .. k + 1 \in SUBSET (1 .. n) /\ k + 1 \in 1 .. k + 1
    BY <1>1
  <2>2. Max(1 .. k + 1) = k + 1
    <3>1. Max(1 .. k + 1) \in 1 .. k + 1 /\ \A c \in 1 .. k + 1 : c <= Max(1 .. k + 1)
      BY <2>1, GreatestElement
    <3>. QED BY <2>1, <3>1
  <2>3. (1 .. k + 1) \ {k + 1} = 1 .. k
    BY <1>1
  <2>. QED BY <1>2, <2>1, <2>2, <2>3
<1>. QED BY <1>3, <1>4, PartsFold DEF PartsTo, f

(* The parts are the stretches of the first n tokens between the bars; the *)
(* k-th begins behind the place off[k].                                    *)
Splits(parts, off, line, n) ==
  /\ parts \in Seq(Seq(AnyWord)) /\ Len(parts) >= 1
  /\ off \in [1 .. Len(parts) -> Nat]
  /\ off[1] = 0
  /\ \A k \in 1 .. Len(parts) - 1 :
       off[k + 1] = off[k] + Len(parts[k]) + 1 /\ line[off[k + 1]] = Bar
  /\ off[Len(parts)] + Len(parts[Len(parts)]) = n
  /\ \A k \in 1 .. Len(parts) : \A m \in 1 .. Len(parts[k]) :
       parts[k][m] = line[off[k] + m] /\ line[off[k] + m] # Bar

LEMMA SplitsStep ==
  ASSUME NEW line \in Seq(AnyWord), NEW n \in 0 .. Len(line) - 1,
         NEW parts, NEW off, Splits(parts, off, line, n)
  PROVE  \E g : Splits(PartsWith(parts, line[n + 1]), g, line, n + 1)
<1> DEFINE p == PartsWith(parts, line[n + 1])
           l == Len(parts)
<1>1. /\ Len(line) \in Nat /\ n + 1 \in 1 .. Len(line)
      /\ line[n + 1] \in AnyWord /\ l \in Nat /\ l >= 1
      /\ \A k \in 1 .. l : parts[k] \in Seq(AnyWord) /\ Len(parts[k]) \in Nat
  BY LenProperties, ElementOfSeq DEF Splits
<1>2. CASE line[n + 1] = Bar
  <2> DEFINE g == [k \in 1 .. l + 1 |-> IF k = l + 1 THEN n + 1 ELSE off[k]]
  <2>1. <<>> \in Seq(AnyWord) /\ Len(<<>>) = 0
    BY EmptySeq
  <2>2. /\ p \in Seq(Seq(AnyWord)) /\ Len(p) = l + 1 /\ p[l + 1] = <<>>
        /\ \A k \in 1 .. l : p[k] = parts[k]
    BY <1>2, <2>1, AppendProperties DEF PartsWith, Splits
  <2> HIDE DEF p
  <2>3. \A k \in 1 .. l + 1 : k = l + 1 \/ k \in 1 .. l
    BY <1>1
  <2>4. \A k \in 1 .. l : k = l \/ k \in 1 .. l - 1
    BY <1>1
  <2>5. g \in [1 .. l + 1 -> Nat] /\ g[1] = 0
    BY <1>1, <2>3 DEF Splits
  <2>6. \A k \in 1 .. l : g[k + 1] = g[k] + Len(p[k]) + 1 /\ line[g[k + 1]] = Bar
    <3> SUFFICES ASSUME NEW k \in 1 .. l
                 PROVE  g[k + 1] = g[k] + Len(p[k]) + 1 /\ line[g[k + 1]] = Bar
      OBVIOUS
    <3>1. k \in 1 .. l + 1 /\ k # l + 1 /\ k + 1 \in 1 .. l + 1 /\ p[k] = parts[k]
      BY <1>1, <2>2
    <3>2. g[k] = off[k]
      BY <3>1
    <3>3. CASE k = l
      <4>1. g[k + 1] = n + 1
        BY <3>1, <3>3
      <4>. QED BY <1>2, <3>1, <3>2, <3>3, <4>1 DEF Splits
    <3>4. CASE k \in 1 .. l - 1
      <4>1. g[k + 1] = off[k + 1]
        BY <1>1, <3>1, <3>4
      <4>. QED BY <3>1, <3>2, <3>4, <4>1 DEF Splits
    <3>. QED BY <2>4, <3>3, <3>4
  <2>7. g[l + 1] + Len(p[l + 1]) = n + 1
    BY <1>1, <2>1, <2>2
  <2>8. \A k \in 1 .. l + 1 : \A m \in 1 .. Len(p[k]) :
          p[k][m] = line[g[k] + m] /\ line[g[k] + m] # Bar
    <3> TAKE k \in 1 .. l + 1
    <3>1. CASE k = l + 1
      BY <2>1, <2>2, <3>1
    <3>2. CASE k \in 1 .. l
      <4>1. p[k] = parts[k] /\ g[k] = off[k]
        BY <1>1, <2>2, <3>2
      <4>. QED BY <3>2, <4>1 DEF Splits
    <3>. QED BY <2>3, <3>1, <3>2
  <2> HIDE DEF g
  <2>9. Len(p) >= 1 /\ Len(p) - 1 = l
    BY <1>1, <2>2
  <2>10. Splits(p, g, line, n + 1)
    BY <2>2, <2>5, <2>6, <2>7, <2>8, <2>9 DEF Splits
  <2>. QED BY <2>10 DEF p
<1>3. CASE line[n + 1] # Bar
  <2> DEFINE last == Append(parts[l], line[n + 1])
  <2>1. /\ last \in Seq(AnyWord) /\ Len(last) = Len(parts[l]) + 1
        /\ last[Len(parts[l]) + 1] = line[n + 1]
        /\ \A m \in 1 .. Len(parts[l]) : last[m] = parts[l][m]
    BY <1>1, AppendProperties
  <2>2. p = [parts EXCEPT ![l] = last]
    BY <1>3 DEF PartsWith
  <2> HIDE DEF last
  <2>3. /\ p \in Seq(Seq(AnyWord)) /\ Len(p) = l /\ p[l] = last
        /\ \A k \in 1 .. l : k # l => p[k] = parts[k]
    BY <1>1, <2>1, <2>2, ExceptSeq DEF Splits
  <2> HIDE DEF p
  <2>4. \A k \in 1 .. l - 1 : p[k] = parts[k] /\ k \in 1 .. l
    BY <1>1, <2>3
  <2>5. off[l] + Len(p[l]) = n + 1 /\ off[l] \in Nat
    <3>1. off[l] + Len(parts[l]) = n /\ off[l] \in Nat /\ Len(parts[l]) \in Nat
      BY <1>1 DEF Splits
    <3>. QED BY <2>1, <2>3, <3>1
  <2>6. \A m \in 1 .. Len(p[l]) : p[l][m] = line[off[l] + m] /\ line[off[l] + m] # Bar
    <3> TAKE m \in 1 .. Len(p[l])
    <3>1. CASE m \in 1 .. Len(parts[l])
      BY <1>1, <2>1, <2>3, <3>1 DEF Splits
    <3>2. CASE m = Len(parts[l]) + 1
      BY <1>1, <1>3, <2>1, <2>3, <2>5, <3>2
    <3>. QED BY <1>1, <2>1, <2>3, <3>1, <3>2
  <2>7. \A k \in 1 .. l : \A m \in 1 .. Len(p[k]) :
          p[k][m] = line[off[k] + m] /\ line[off[k] + m] # Bar
    <3> TAKE k \in 1 .. l
    <3>1. CASE k = l
      BY <2>6, <3>1
    <3>2. CASE k # l
      BY <2>3, <3>2 DEF Splits
    <3>. QED BY <3>1, <3>2
  <2>8. Splits(p, off, line, n + 1)
    <3>1. /\ l >= 1 /\ off \in [1 .. l -> Nat] /\ off[1] = 0
          /\ \A k \in 1 .. l - 1 :
               off[k + 1] = off[k] + Len(p[k]) + 1 /\ line[off[k + 1]] = Bar
      BY <2>4 DEF Splits
    <3>. QED BY <2>3, <2>5, <2>7, <3>1 DEF Splits
  <2>. QED BY <2>8 DEF p
<1>. QED BY <1>2, <1>3

LEMMA PartsSplit ==
  ASSUME NEW line \in Seq(AnyWord)
  PROVE  \E off : Splits(Parts(line), off, line, Len(line))
<1> DEFINE I == {n \in Nat : n <= Len(line) =>
                               \E off : Splits(PartsTo(line, n), off, line, n)}
<1>1. Len(line) \in Nat
  BY LenProperties
<1>2. 0 \in I
  <2> DEFINE off == [k \in 1 .. 1 |-> 0]
  <2>1. <<>> \in Seq(AnyWord) /\ Len(<<>>) = 0
    BY EmptySeq
  <2>2. << <<>> >> \in Seq(Seq(AnyWord)) /\ Len(<< <<>> >>) = 1 /\ << <<>> >>[1] = <<>>
    BY <2>1
  <2>3. Splits(<< <<>> >>, off, line, 0)
    BY <2>1, <2>2 DEF Splits
  <2>. QED BY <2>3, PartsSteps
<1>3. ASSUME NEW n \in Nat, n \in I
      PROVE  n + 1 \in I
  <2>1. SUFFICES ASSUME n + 1 <= Len(line)
                 PROVE  \E off : Splits(PartsTo(line, n + 1), off, line, n + 1)
    OBVIOUS
  <2>2. n \in 0 .. Len(line) - 1 /\ n <= Len(line)
    BY <1>1, <2>1
  <2>3. PICK off : Splits(PartsTo(line, n), off, line, n)
    BY <1>3, <2>2
  <2>4. PartsTo(line, n + 1) = PartsWith(PartsTo(line, n), line[n + 1])
    BY <2>2, PartsSteps
  <2>. QED BY <2>2, <2>3, <2>4, SplitsStep
<1> HIDE DEF I
<1>4. Len(line) \in I
  BY <1>1, <1>2, <1>3, SetInduction
<1>. QED BY <1>1, <1>4, PartsSteps DEF I

-----------------------------------------------------------------------------
(* Where the parts are in the line.                                        *)

Stretch(parts, off, k) == off[k] + 1 .. off[k] + Len(parts[k])

LEMMA SplitsTypes ==
  ASSUME NEW line, NEW n \in Nat, NEW parts, NEW off, Splits(parts, off, line, n)
  PROVE  /\ Len(parts) \in Nat /\ Len(parts) >= 1
         /\ \A k \in 1 .. Len(parts) :
              parts[k] \in Seq(AnyWord) /\ Len(parts[k]) \in Nat /\ off[k] \in Nat
BY LenProperties, ElementOfSeq DEF Splits

(* No part reaches beyond the line. *)
LEMMA PartsWithin ==
  ASSUME NEW line, NEW n \in Nat, NEW parts, NEW off, Splits(parts, off, line, n)
  PROVE  \A k \in 1 .. Len(parts) : off[k] + Len(parts[k]) <= n
<1> DEFINE l == Len(parts)
           I == {d \in Nat : d < l => off[l - d] + Len(parts[l - d]) <= n}
<1>1. /\ l \in Nat /\ l >= 1
      /\ \A k \in 1 .. l : Len(parts[k]) \in Nat /\ off[k] \in Nat
  BY SplitsTypes
<1>2. 0 \in I
  BY <1>1 DEF Splits
<1>3. ASSUME NEW d \in Nat, d \in I
      PROVE  d + 1 \in I
  <2> SUFFICES ASSUME d + 1 < l
               PROVE  off[l - (d + 1)] + Len(parts[l - (d + 1)]) <= n
    OBVIOUS
  <2> DEFINE k == l - (d + 1)
  <2>1. k \in 1 .. l - 1 /\ k \in 1 .. l /\ k + 1 = l - d /\ k + 1 \in 1 .. l
    BY <1>1
  <2>2. off[k + 1] + Len(parts[k + 1]) <= n
    BY <1>1, <1>3, <2>1
  <2> HIDE DEF k
  <2>3. off[k + 1] = off[k] + Len(parts[k]) + 1
    BY <2>1 DEF Splits
  <2>4. off[k] + Len(parts[k]) <= n
    BY <1>1, <2>1, <2>2, <2>3
  <2>. QED BY <2>4 DEF k
<1> HIDE DEF I
<1>4. \A d \in Nat : d \in I
  BY <1>2, <1>3, SetInduction
<1>5. ASSUME NEW k \in 1 .. l
      PROVE  off[k] + Len(parts[k]) <= n
  <2>1. l - k \in Nat /\ l - k < l /\ l - (l - k) = k
    BY <1>1
  <2>. QED BY <1>4, <2>1 DEF I
<1>. QED BY <1>5

(* A line that reads the same has the same parts. *)
LEMMA SplitsSame ==
  ASSUME NEW line, NEW other, NEW n \in Nat, NEW parts, NEW off,
         Splits(parts, off, line, n), \A i \in 1 .. n : other[i] = line[i]
  PROVE  Splits(parts, off, other, n)
<1> DEFINE l == Len(parts)
<1>1. /\ l \in Nat /\ l >= 1
      /\ \A k \in 1 .. l : Len(parts[k]) \in Nat /\ off[k] \in Nat
  BY SplitsTypes
<1>2. \A k \in 1 .. l : off[k] + Len(parts[k]) <= n
  BY PartsWithin
<1>3. ASSUME NEW k \in 1 .. l - 1
      PROVE  other[off[k + 1]] = line[off[k + 1]]
  <2>1. k \in 1 .. l /\ k + 1 \in 1 .. l /\ off[k + 1] = off[k] + Len(parts[k]) + 1
    BY <1>1 DEF Splits
  <2>2. off[k + 1] \in 1 .. n
    BY <1>1, <1>2, <2>1
  <2>. QED BY <2>2
<1>4. ASSUME NEW k \in 1 .. l, NEW m \in 1 .. Len(parts[k])
      PROVE  other[off[k] + m] = line[off[k] + m]
  <2>1. /\ Len(parts[k]) \in Nat /\ off[k] \in Nat
        /\ off[k] + Len(parts[k]) <= n
    BY <1>1, <1>2
  <2> DEFINE i == off[k] + m
  <2>2. i \in 1 .. n
    BY <2>1
  <2> HIDE DEF i
  <2>3. other[i] = line[i]
    BY <2>2
  <2>. QED BY <2>3 DEF i
<1>5. \A k \in 1 .. l - 1 : /\ off[k + 1] = off[k] + Len(parts[k]) + 1
                            /\ other[off[k + 1]] = Bar
  BY <1>3 DEF Splits
<1>6. \A k \in 1 .. l : \A m \in 1 .. Len(parts[k]) :
        parts[k][m] = other[off[k] + m] /\ other[off[k] + m] # Bar
  <2> TAKE k \in 1 .. l
  <2> TAKE m \in 1 .. Len(parts[k])
  <2>1. parts[k][m] = line[off[k] + m] /\ line[off[k] + m] # Bar
    BY DEF Splits
  <2>2. other[off[k] + m] = line[off[k] + m]
    BY <1>4
  <2>. QED BY <2>1, <2>2
<1>. QED BY <1>5, <1>6 DEF Splits

(* As many bars stand before a part as there are parts before it. *)
LEMMA BarsBefore ==
  ASSUME NEW line, NEW n \in Nat, NEW parts, NEW off, Splits(parts, off, line, n)
  PROVE  \A k \in 1 .. Len(parts) :
           Cardinality({j \in 1 .. off[k] : line[j] = Bar}) = k - 1
<1> DEFINE l == Len(parts)
           Bars(k) == {j \in 1 .. off[k] : line[j] = Bar}
           I == {d \in Nat : d < l =>
                   IsFiniteSet(Bars(d + 1)) /\ Cardinality(Bars(d + 1)) = d}
<1>1. /\ l \in Nat /\ l >= 1
      /\ \A k \in 1 .. l : Len(parts[k]) \in Nat /\ off[k] \in Nat
  BY SplitsTypes
<1>2. 0 \in I
  <2>1. Bars(1) = {}
    BY DEF Splits
  <2>. QED BY <2>1, FS_EmptySet
<1>3. ASSUME NEW d \in Nat, d \in I
      PROVE  d + 1 \in I
  <2> SUFFICES ASSUME d + 1 < l
               PROVE  IsFiniteSet(Bars(d + 2)) /\ Cardinality(Bars(d + 2)) = d + 1
    OBVIOUS
  <2> DEFINE k == d + 1
  <2>1. k \in 1 .. l - 1 /\ k \in 1 .. l /\ k + 1 \in 1 .. l /\ k + 1 = d + 2
    BY <1>1
  <2>2. IsFiniteSet(Bars(k)) /\ Cardinality(Bars(k)) = d
    BY <1>1, <1>3
  <2> HIDE DEF k
  <2>3. off[k + 1] = off[k] + Len(parts[k]) + 1 /\ line[off[k + 1]] = Bar
    BY <2>1 DEF Splits
  <2>4. \A j \in off[k] + 1 .. off[k] + Len(parts[k]) : line[j] # Bar
    <3> TAKE j \in off[k] + 1 .. off[k] + Len(parts[k])
    <3>1. j - off[k] \in 1 .. Len(parts[k]) /\ off[k] + (j - off[k]) = j
      BY <1>1, <2>1
    <3>. QED BY <2>1, <3>1 DEF Splits
  <2>5. Bars(k + 1) = Bars(k) \cup {off[k + 1]} /\ off[k + 1] \notin Bars(k)
    <3>1. /\ off[k] \in Nat /\ Len(parts[k]) \in Nat /\ off[k + 1] \in Nat
          /\ off[k + 1] > off[k]
      BY <1>1, <2>1, <2>3
    <3>2. \A j \in 1 .. off[k + 1] : \/ j \in 1 .. off[k] \/ j = off[k + 1]
                                    \/ j \in off[k] + 1 .. off[k] + Len(parts[k])
      BY <2>3, <3>1
    <3>3. off[k + 1] \in 1 .. off[k + 1] /\ off[k + 1] \notin 1 .. off[k]
          /\ \A j \in 1 .. off[k] : j \in 1 .. off[k + 1]
      BY <3>1
    <3>. QED BY <2>3, <2>4, <3>2, <3>3
  <2> HIDE DEF Bars
  <2>6. IsFiniteSet(Bars(k + 1)) /\ Cardinality(Bars(k + 1)) = d + 1
    <3>1. /\ IsFiniteSet(Bars(k) \cup {off[k + 1]})
          /\ Cardinality(Bars(k) \cup {off[k + 1]}) = Cardinality(Bars(k)) + 1
      BY <2>2, <2>5, FS_AddElement
    <3>. QED BY <2>2, <2>5, <3>1
  <2>. QED BY <2>1, <2>6
<1> HIDE DEF I
<1>4. \A d \in Nat : d \in I
  BY <1>2, <1>3, SetInduction
<1>5. ASSUME NEW k \in 1 .. l
      PROVE  Cardinality(Bars(k)) = k - 1
  <2>1. k - 1 \in Nat /\ k - 1 < l /\ (k - 1) + 1 = k
    BY <1>1
  <2>. QED BY <1>4, <2>1 DEF I
<1>. QED BY <1>5

LEMMA CommandOfPlace ==
  ASSUME NEW line, NEW n \in Nat, NEW parts, NEW off, Splits(parts, off, line, n),
         NEW k \in 1 .. Len(parts), NEW i \in Stretch(parts, off, k)
  PROVE  i \in 1 .. n /\ line[i] # Bar /\ CommandAt(line, i) = k
<1>1. /\ Len(parts) \in Nat /\ Len(parts[k]) \in Nat /\ off[k] \in Nat
      /\ off[k] + Len(parts[k]) <= n
  BY SplitsTypes, PartsWithin
<1>2. i \in 1 .. n /\ i > off[k]
  BY <1>1 DEF Stretch
<1>3. \A j \in Stretch(parts, off, k) : line[j] # Bar
  <2> TAKE j \in Stretch(parts, off, k)
  <2>1. j - off[k] \in 1 .. Len(parts[k]) /\ off[k] + (j - off[k]) = j
    BY <1>1 DEF Stretch
  <2>. QED BY <2>1 DEF Splits
<1>4. {j \in 1 .. i - 1 : line[j] = Bar} = {j \in 1 .. off[k] : line[j] = Bar}
  <2>1. \A j \in 1 .. i - 1 : j \in 1 .. off[k] \/ j \in Stretch(parts, off, k)
    BY <1>1, <1>2 DEF Stretch
  <2>2. \A j \in 1 .. off[k] : j \in 1 .. i - 1
    BY <1>1, <1>2
  <2>. QED BY <1>3, <2>1, <2>2
<1>5. CommandAt(line, i) = 1 + (k - 1)
  <2>1. Cardinality({j \in 1 .. off[k] : line[j] = Bar}) = k - 1
    BY BarsBefore
  <2>. QED BY <1>4, <2>1 DEF CommandAt
<1>. QED BY <1>1, <1>2, <1>3, <1>5

(* Each place that holds no bar is in a part. *)
LEMMA PartOfPlace ==
  ASSUME NEW line, NEW n \in Nat, NEW parts, NEW off, Splits(parts, off, line, n),
         NEW i \in 1 .. n, line[i] # Bar
  PROVE  \E k \in 1 .. Len(parts) : i \in Stretch(parts, off, k)
<1> DEFINE l == Len(parts)
           K == {k \in 1 .. l : off[k] < i}
           k == Max(K)
<1>1. /\ l \in Nat /\ l >= 1
      /\ \A j \in 1 .. l : Len(parts[j]) \in Nat /\ off[j] \in Nat
  BY SplitsTypes
<1>2. k \in K /\ \A j \in K : j <= k
  <2>1. 1 \in K
    BY <1>1 DEF Splits
  <2>. QED BY <1>1, <2>1, GreatestElement
<1>3. k \in 1 .. l /\ off[k] < i
  BY <1>2
<1> HIDE DEF k
<1>4. CASE k = l
  <2>1. off[k] + Len(parts[k]) = n /\ off[k] \in Nat
    BY <1>1, <1>4 DEF Splits
  <2>. QED BY <1>3, <2>1 DEF Stretch
<1>5. CASE k # l
  <2>1. k \in 1 .. l - 1 /\ k + 1 \in 1 .. l
    BY <1>1, <1>3, <1>5
  <2>2. off[k + 1] = off[k] + Len(parts[k]) + 1 /\ line[off[k + 1]] = Bar
    BY <2>1 DEF Splits
  <2>3. ~(off[k + 1] < i)
    BY <1>2, <1>3, <2>1
  <2>. QED BY <1>1, <1>3, <2>1, <2>2, <2>3 DEF Stretch
<1>. QED BY <1>4, <1>5

LEMMA PlacesOfPart ==
  ASSUME NEW line, NEW n \in Nat, NEW parts, NEW off, Splits(parts, off, line, n),
         End(line) = n + 1, NEW k \in Nat
  PROVE  PositionsOf(line, k) =
           IF k \in 1 .. Len(parts) THEN Stretch(parts, off, k) ELSE {}
<1>1. PositionsOf(line, k) = {i \in 1 .. n : line[i] # Bar /\ CommandAt(line, i) = k}
  BY DEF PositionsOf
<1>2. ASSUME NEW i \in PositionsOf(line, k)
      PROVE  k \in 1 .. Len(parts) /\ i \in Stretch(parts, off, k)
  <2>1. i \in 1 .. n /\ line[i] # Bar /\ CommandAt(line, i) = k
    BY <1>1
  <2>2. PICK j \in 1 .. Len(parts) : i \in Stretch(parts, off, j)
    BY <2>1, PartOfPlace
  <2>3. CommandAt(line, i) = j
    BY <2>2, CommandOfPlace
  <2>. QED BY <2>1, <2>2, <2>3
<1>3. k \in 1 .. Len(parts) => Stretch(parts, off, k) \subseteq PositionsOf(line, k)
  BY <1>1, CommandOfPlace
<1>. QED BY <1>2, <1>3

-----------------------------------------------------------------------------
(* What the parser makes of a line.                                        *)

LEMMA PrefixTo ==
  ASSUME NEW S, NEW s \in Seq(S), NEW i \in 0 .. Len(s)
  PROVE  /\ Before(s, i) \in Seq(S)
         /\ Len(Before(s, i)) = IF i = 0 THEN Len(s) ELSE i - 1
         /\ \A j \in 1 .. Len(Before(s, i)) : j \in 1 .. Len(s) /\ Before(s, i)[j] = s[j]
<1>1. Len(s) \in Nat
  BY LenProperties
<1>2. CASE i = 0
  BY <1>1, <1>2 DEF Before
<1>3. CASE i # 0
  <2>1. i - 1 \in Int /\ 1 <= i /\ \A j \in 1 .. i - 1 : j \in 1 .. Len(s) /\ s[j] \in S
    BY <1>1, <1>3, ElementOfSeq
  <2>2. /\ SubSeq(s, 1, i - 1) \in Seq(S)
        /\ Len(SubSeq(s, 1, i - 1)) = IF 1 <= i - 1 THEN (i - 1) - 1 + 1 ELSE 0
        /\ \A j \in 1 .. (i - 1) - 1 + 1 : SubSeq(s, 1, i - 1)[j] = s[1 + j - 1]
    BY <2>1, SubSeqProperties
  <2>. QED BY <1>1, <1>3, <2>1, <2>2 DEF Before
<1>. QED BY <1>2, <1>3

(* What the parser searches for. *)
AmpersandOf(line) == SelectInSeq(line, LAMBDA t : t = Ampersand)
EmptyOf(parts) == SelectInSeq(parts, LAMBDA part : part = <<>>)
RedirectionOf(part) == SelectInSeq(part, LAMBDA t : t \in {Less, Greater})

LEMMA EmptyPart ==
  ASSUME NEW parts \in Seq(Seq(AnyWord)), NEW e, e = EmptyOf(parts)
  PROVE  /\ e \in 0 .. Len(parts)
         /\ e # 0 => parts[e] = <<>>
         /\ \A j \in 1 .. Len(parts) : j < e \/ e = 0 => parts[j] # <<>>
<1> DEFINE I == {j \in 1 .. Len(parts) : parts[j] = <<>>}
<1>1. Len(parts) \in Nat /\ I \in SUBSET (1 .. Len(parts))
  BY LenProperties
<1>2. e = IF I # {} THEN Min(I) ELSE 0
  BY DEF EmptyOf, SelectInSeq
<1>3. \A j \in 1 .. Len(parts) : j \in I <=> parts[j] = <<>>
  OBVIOUS
<1> HIDE DEF I
<1>4. /\ e \in 0 .. Len(parts) /\ (e = 0 <=> I = {})
      /\ e # 0 => e \in I /\ \A j \in 1 .. e - 1 : j \notin I
  BY <1>1, <1>2, FirstPlace
<1>. QED BY <1>1, <1>3, <1>4

LEMMA FirstRedirection ==
  ASSUME NEW part \in Seq(AnyWord), NEW r, r = RedirectionOf(part)
  PROVE  /\ r \in 0 .. Len(part)
         /\ r # 0 => part[r] \in {Less, Greater}
         /\ \A j \in 1 .. Len(part) : j < r \/ r = 0 => part[j] \notin {Less, Greater}
<1> DEFINE I == {j \in 1 .. Len(part) : part[j] \in {Less, Greater}}
<1>1. Len(part) \in Nat /\ I \in SUBSET (1 .. Len(part))
  BY LenProperties
<1>2. r = IF I # {} THEN Min(I) ELSE 0
  BY DEF RedirectionOf, SelectInSeq
<1>3. \A j \in 1 .. Len(part) : j \in I <=> part[j] \in {Less, Greater}
  OBVIOUS
<1> HIDE DEF I
<1>4. /\ r \in 0 .. Len(part) /\ (r = 0 <=> I = {})
      /\ r # 0 => r \in I /\ \A j \in 1 .. r - 1 : j \notin I
  BY <1>1, <1>2, FirstPlace
<1>. QED BY <1>1, <1>3, <1>4

LEMMA LineEnds ==
  ASSUME NEW line \in Seq(AnyWord), NEW a, a = AmpersandOf(line)
  PROVE  /\ a \in 0 .. Len(line) /\ End(line) \in 1 .. Len(line) + 1
         /\ a = 0 <=> End(line) > Len(line)
         /\ Before(line, a) \in Seq(AnyWord)
         /\ Len(Before(line, a)) = End(line) - 1
         /\ \A i \in 1 .. End(line) - 1 :
              Before(line, a)[i] = line[i] /\ line[i] # Ampersand
<1> DEFINE I == {i \in 1 .. Len(line) : line[i] = Ampersand}
<1>1. Len(line) \in Nat /\ DOMAIN line = 1 .. Len(line)
  BY LenProperties
<1>2. a = (IF I # {} THEN Min(I) ELSE 0)
  BY DEF AmpersandOf, SelectInSeq
<1>3. End(line) = IF I = {} THEN Len(line) + 1 ELSE Min(I)
  BY <1>1 DEF End
<1>4. I \in SUBSET (1 .. Len(line))
  OBVIOUS
<1>5. /\ a \in 0 .. Len(line) /\ (a = 0 <=> I = {})
      /\ a # 0 => a \in I /\ \A j \in 1 .. a - 1 : j \notin I
  BY <1>1, <1>2, <1>4, FirstPlace
<1>6. End(line) = IF a = 0 THEN Len(line) + 1 ELSE a
  BY <1>2, <1>3, <1>5
<1>7. /\ Before(line, a) \in Seq(AnyWord)
      /\ Len(Before(line, a)) = IF a = 0 THEN Len(line) ELSE a - 1
      /\ \A j \in 1 .. Len(Before(line, a)) :
           j \in 1 .. Len(line) /\ Before(line, a)[j] = line[j]
  BY <1>5, PrefixTo
<1>8. Len(Before(line, a)) = End(line) - 1
  BY <1>1, <1>5, <1>6, <1>7
<1>9. ASSUME NEW i \in 1 .. End(line) - 1
      PROVE  Before(line, a)[i] = line[i] /\ line[i] # Ampersand
  <2>1. i \in 1 .. Len(line) /\ i \notin I
    <3> HIDE DEF I
    <3>1. CASE a = 0
      BY <1>1, <1>5, <1>6, <3>1
    <3>2. CASE a # 0
      BY <1>1, <1>5, <1>6, <3>2
    <3>. QED BY <3>1, <3>2
  <2>2. line[i] # Ampersand
    BY <2>1
  <2>. QED BY <1>7, <1>8, <2>2
<1>10. a = 0 <=> End(line) > Len(line)
  BY <1>1, <1>5, <1>6
<1>11. End(line) \in 1 .. Len(line) + 1
  BY <1>1, <1>5, <1>6
<1>. QED BY <1>5, <1>7, <1>8, <1>9, <1>10, <1>11

(* The commands of a line are its parts up to the first empty one.         *)
Parsed(line, commands, parts, off) ==
  /\ Splits(parts, off, line, End(line) - 1)
  /\ Len(commands) \in 0 .. Len(parts) /\ DOMAIN commands = 1 .. Len(commands)
  /\ \A k \in 1 .. Len(commands) :
       /\ parts[k] # <<>>
       /\ commands[k] = [parseSingleCmdLine(parts[k]) EXCEPT
                        !.blocking = k = Len(commands) /\ End(line) > Len(line)]
  /\ Len(commands) < Len(parts) => parts[Len(commands) + 1] = <<>>

LEMMA ParserParses ==
  ASSUME NEW line \in Seq(AnyWord)
  PROVE  \E parts, off : Parsed(line, parseCmdLines(line), parts, off)
<1> DEFINE a == AmpersandOf(line)
           s == Before(line, a)
           parts == Parts(s)
           e == EmptyOf(parts)
           full == Before(parts, e)
           commands == parseCmdLines(line)
<1>1. /\ End(line) \in 1 .. Len(line) + 1
      /\ a = 0 <=> End(line) > Len(line)
      /\ s \in Seq(AnyWord) /\ Len(s) = End(line) - 1
      /\ \A j \in 1 .. End(line) - 1 : s[j] = line[j]
  BY LineEnds
<1>2. Len(line) \in Nat /\ End(line) - 1 \in Nat
  BY <1>1, LenProperties
<1>3. PICK off : Splits(parts, off, s, Len(s))
  BY <1>1, PartsSplit
<1>4. Splits(parts, off, line, End(line) - 1)
  BY <1>1, <1>2, <1>3, SplitsSame
<1>5. parts \in Seq(Seq(AnyWord)) /\ Len(parts) \in Nat
  BY <1>3, LenProperties DEF Splits
<1> HIDE DEF s, parts
<1>6. /\ e \in 0 .. Len(parts)
      /\ e # 0 => parts[e] = <<>>
      /\ \A j \in 1 .. Len(parts) : j < e \/ e = 0 => parts[j] # <<>>
  BY <1>5, EmptyPart
<1> HIDE DEF e
<1>7. /\ full \in Seq(Seq(AnyWord)) /\ Len(full) = IF e = 0 THEN Len(parts) ELSE e - 1
      /\ \A j \in 1 .. Len(full) : j \in 1 .. Len(parts) /\ full[j] = parts[j]
  <2>1. parts \in Seq(Seq(AnyWord)) /\ e \in 0 .. Len(parts)
    BY <1>5, <1>6
  <2>2. full = Before(parts, e)
    OBVIOUS
  <2> HIDE DEF full
  <2>. QED BY <2>1, <2>2, PrefixTo
<1>8. Len(full) \in Nat /\ DOMAIN full = 1 .. Len(full)
  BY <1>7, LenProperties
<1>9. commands = [k \in 1 .. Len(full) |->
                 [parseSingleCmdLine(full[k]) EXCEPT
                    !.blocking = k = Len(full) /\ a = 0]]
  <2> DEFINE inner == [k \in 1 .. Len(full) |-> parseSingleCmdLine(full[k])]
  <2>1. Chain(s) = inner
    BY <1>8 DEF Chain, parts, e, EmptyOf
  <2>2. DOMAIN inner = 1 .. Len(full) /\ Len(inner) = Len(full)
    BY <1>8
  <2>. QED BY <2>1, <2>2 DEF parseCmdLines, s, AmpersandOf
<1> HIDE DEF full, a, commands
<1>10. Len(commands) = Len(full) /\ DOMAIN commands = 1 .. Len(full)
  BY <1>8, <1>9
<1>11. /\ Len(commands) \in 0 .. Len(parts) /\ DOMAIN commands = 1 .. Len(commands)
       /\ Len(commands) < Len(parts) => parts[Len(commands) + 1] = <<>>
  BY <1>5, <1>6, <1>7, <1>8, <1>10
<1>12. ASSUME NEW k \in 1 .. Len(commands)
       PROVE  /\ parts[k] # <<>>
              /\ commands[k] = [parseSingleCmdLine(parts[k]) EXCEPT
                               !.blocking = k = Len(commands) /\ End(line) > Len(line)]
  <2>1. full[k] = parts[k] /\ k \in 1 .. Len(parts) /\ (k < e \/ e = 0)
    BY <1>5, <1>6, <1>7, <1>10
  <2>. QED BY <1>1, <1>6, <1>9, <1>10, <2>1 DEF a
<1>. QED BY <1>4, <1>11, <1>12 DEF Parsed, commands

(* A command: its words up to the first redirection, and no more than fit. *)
LEMMA CommandParses ==
  ASSUME NEW part \in Seq(AnyWord)
  PROVE  \E w \in 0 .. Len(part) :
           LET args == parseSingleCmdLine(part).arguments
           IN /\ \A j \in 1 .. w : part[j] \notin {Less, Greater}
              /\ w < Len(part) => part[w + 1] \in {Less, Greater}
              /\ args \in Seq(AnyWord)
              /\ Len(args) = IF w < MAX_ARGUMENTS THEN w ELSE MAX_ARGUMENTS - 1
              /\ \A j \in 1 .. Len(args) : j \in 1 .. w /\ args[j] = part[j]
<1> DEFINE r == RedirectionOf(part)
           words == Before(part, r)
           w == Len(words)
           m == IF w < MAX_ARGUMENTS THEN w ELSE MAX_ARGUMENTS - 1
           args == parseSingleCmdLine(part).arguments
<1>1. Len(part) \in Nat /\ MAX_ARGUMENTS \in Nat /\ MAX_ARGUMENTS >= 2
  BY LenProperties, LineParserAssumption
<1>3. args = SubSeq(words, 1, m)
  BY DEF parseSingleCmdLine, RedirectionOf
<1>5. /\ r \in 0 .. Len(part)
      /\ r # 0 => part[r] \in {Less, Greater}
      /\ \A j \in 1 .. Len(part) : j < r \/ r = 0 => part[j] \notin {Less, Greater}
  BY FirstRedirection
<1> HIDE DEF r, args
<1>6. /\ words \in Seq(AnyWord) /\ w = IF r = 0 THEN Len(part) ELSE r - 1
      /\ \A j \in 1 .. w : words[j] = part[j]
  BY <1>5, PrefixTo
<1> HIDE DEF words
<1>7. w \in 0 .. Len(part) /\ w \in Nat
  BY <1>1, <1>5, <1>6
<1>8. /\ \A j \in 1 .. w : part[j] \notin {Less, Greater}
      /\ w < Len(part) => part[w + 1] \in {Less, Greater}
  BY <1>1, <1>5, <1>6
<1>9. m \in Nat /\ m <= w /\ \A j \in 1 .. m : j \in 1 .. w /\ words[j] \in AnyWord
  BY <1>1, <1>6, <1>7, ElementOfSeq
<1> HIDE DEF w
<1>10. /\ args \in Seq(AnyWord)
       /\ Len(args) = IF 1 <= m THEN m - 1 + 1 ELSE 0
       /\ \A j \in 1 .. m - 1 + 1 : args[j] = words[1 + j - 1]
  <2>1. m \in Int /\ 1 \in Int
    BY <1>9
  <2> HIDE DEF m
  <2>. QED BY <1>3, <1>9, <2>1, SubSeqProperties
<1>11. Len(args) = m /\ \A j \in 1 .. m : j \in 1 .. w /\ args[j] = part[j]
  <2> HIDE DEF m
  <2>1. Len(args) = m /\ \A j \in 1 .. m : args[j] = words[j]
    BY <1>9, <1>10
  <2>. QED BY <1>6, <1>9, <2>1
<1>. QED BY <1>7, <1>8, <1>10, <1>11 DEF args

-----------------------------------------------------------------------------
(* The parser is right.                                                    *)

LEMMA CommandFields ==
  ASSUME NEW part, NEW b \in BOOLEAN,
         NEW command, command = [parseSingleCmdLine(part) EXCEPT !.blocking = b]
  PROVE  /\ command.arguments = parseSingleCmdLine(part).arguments
         /\ command.inputRedirect = extractRedirections(part, Less)
         /\ command.outputRedirect = extractRedirections(part, Greater)
         /\ command.blocking <=> b
BY DEF parseSingleCmdLine

(* Where the last redirection of a kind is. *)
LastOf(part, symbol) == SelectLastInSeq(part, LAMBDA t : t = symbol)

LEMMA LastRedirection ==
  ASSUME NEW part \in Seq(AnyWord), NEW symbol, NEW r, r = LastOf(part, symbol)
  PROVE  /\ r \in 0 .. Len(part)
         /\ r # 0 => part[r] = symbol
         /\ \A j \in 1 .. Len(part) : part[j] = symbol => j <= r
<1> DEFINE I == {j \in 1 .. Len(part) : part[j] = symbol}
<1>1. Len(part) \in Nat /\ I \in SUBSET (1 .. Len(part))
  BY LenProperties
<1>2. r = IF I # {} THEN Max(I) ELSE 0
  BY DEF LastOf, SelectLastInSeq
<1>3. \A j \in 1 .. Len(part) : j \in I <=> part[j] = symbol
  OBVIOUS
<1> HIDE DEF I
<1>4. CASE I = {}
  BY <1>1, <1>2, <1>3, <1>4
<1>5. CASE I # {}
  <2>1. r \in I /\ \A c \in I : c <= r
    BY <1>1, <1>2, <1>5, GreatestElement
  <2>. QED BY <1>1, <1>3, <2>1
<1>. QED BY <1>4, <1>5

LEMMA RedirectionRight ==
  ASSUME NEW line, NEW n \in Nat, NEW parts, NEW off, Splits(parts, off, line, n),
         End(line) = n + 1, \A i \in 1 .. n : line[i] # Ampersand,
         NEW k \in 1 .. Len(parts), NEW symbol
  PROVE  extractRedirections(parts[k], symbol) = PathOf(line, k, symbol)
<1> DEFINE part == parts[k]
           r == LastOf(part, symbol)
           at == {i \in PositionsOf(line, k) : line[i] = symbol}
           o == off[k]
           l == Len(part)
<1>1. part \in Seq(AnyWord) /\ l \in Nat /\ o \in Nat /\ k \in Nat
  <2>1. Len(parts) \in Nat
    BY SplitsTypes
  <2>. QED BY <2>1, SplitsTypes
<1>2. /\ r \in 0 .. l
      /\ r # 0 => part[r] = symbol
      /\ \A j \in 1 .. l : part[j] = symbol => j <= r
  BY <1>1, LastRedirection
<1>3. extractRedirections(part, symbol) =
        IF r = 0 THEN NoPath ELSE cloneFirstWord(part, r)
  BY DEF extractRedirections, LastOf
<1>4. PositionsOf(line, k) = o + 1 .. o + l
  BY <1>1, PlacesOfPart DEF Stretch
<1>5. \A j \in 1 .. l : line[o + j] = part[j] /\ part[j] # Bar
  BY DEF Splits
<1>6. PathOf(line, k, symbol) =
        IF at = {} THEN NoPath
        ELSE IF Max(at) + 1 \in PositionsOf(line, k) /\ line[Max(at) + 1] \notin Symbol
             THEN line[Max(at) + 1] ELSE NoPath
  BY DEF PathOf
<1>7. \A i : i \in at <=> i \in PositionsOf(line, k) /\ line[i] = symbol
  OBVIOUS
<1>8. cloneFirstWord(part, r) =
        IF r < l /\ part[r + 1] \notin {Less, Greater} THEN part[r + 1] ELSE NoPath
  BY DEF cloneFirstWord
<1>9. o + l <= n
  BY PartsWithin
<1> HIDE DEF r, at, part, o, l
<1>10. o \in Nat /\ l \in Nat
  BY <1>1
<1>11. ASSUME NEW i \in at
       PROVE  i - o \in 1 .. l /\ i \in Nat /\ i <= o + r
  <2>1. i \in o + 1 .. o + l /\ line[i] = symbol
    BY <1>4, <1>7
  <2>2. i - o \in 1 .. l /\ o + (i - o) = i /\ i \in Nat
    BY <1>10, <2>1
  <2>3. part[i - o] = symbol
    BY <1>5, <2>1, <2>2
  <2>4. i - o <= r
    BY <1>2, <2>2, <2>3
  <2>. QED BY <1>2, <1>10, <2>2, <2>4
<1>12. CASE r = 0
  <2>1. at = {}
    BY <1>10, <1>11, <1>12
  <2>. QED BY <1>3, <1>6, <1>12, <2>1 DEF part
<1>13. CASE r # 0
  <2>1. r \in 1 .. l /\ part[r] = symbol /\ r \in Nat
    BY <1>2, <1>10, <1>13
  <2>2. o + r \in o + 1 .. o + l
    BY <1>10, <2>1
  <2>3. o + r \in at
    BY <1>4, <1>5, <1>7, <2>1, <2>2
  <2>4. at \in SUBSET (1 .. o + l) /\ o + l \in Nat
    BY <1>4, <1>7, <1>10
  <2>5. Max(at) \in at /\ \A c \in at : c <= Max(at)
    BY <2>3, <2>4, GreatestElement
  <2>6. PICK m \in at : m = Max(at)
    BY <2>5
  <2>7. m = o + r
    <3>1. m \in Nat /\ m <= o + r
      BY <1>11
    <3>2. o + r <= m
      BY <2>3, <2>5, <2>6
    <3>. QED BY <1>10, <2>1, <3>1, <3>2
  <2>8. m + 1 \in PositionsOf(line, k) <=> r < l
    <3>1. m + 1 \in o + 1 .. o + l <=> r < l
      BY <1>10, <2>1, <2>7
    <3>. QED BY <1>4, <3>1
  <2>9. ASSUME r < l
        PROVE  /\ line[m + 1] = part[r + 1]
               /\ line[m + 1] \notin Symbol <=> part[r + 1] \notin {Less, Greater}
    <3>1. r + 1 \in 1 .. l /\ m + 1 = o + (r + 1) /\ m + 1 \in 1 .. n
      BY <1>9, <1>10, <2>1, <2>7, <2>9
    <3>2. line[m + 1] = part[r + 1] /\ part[r + 1] # Bar
      BY <1>5, <3>1
    <3>3. line[m + 1] # Ampersand
      BY <3>1
    <3>. QED BY <3>2, <3>3 DEF Symbol
  <2>. QED BY <1>3, <1>6, <1>8, <1>13, <2>3, <2>6, <2>8, <2>9 DEF part
<1>. QED BY <1>12, <1>13

(* What the line says of the arguments of its k-th command.                *)
ArgumentsSay(line, k, args) ==
  LET at == ArgumentsAt(line, k)
  IN /\ Len(args) = IF Cardinality(at) < MAX_ARGUMENTS THEN Cardinality(at)
                    ELSE MAX_ARGUMENTS - 1
     /\ \A i \in at : LET m == Cardinality({j \in at : j <= i})
                      IN m <= Len(args) => args[m] = line[i]

LEMMA ArgumentsRight ==
  ASSUME NEW line, NEW n \in Nat, NEW parts, NEW off, Splits(parts, off, line, n),
         End(line) = n + 1, \A i \in 1 .. n : line[i] # Ampersand,
         NEW k \in 1 .. Len(parts)
  PROVE  ArgumentsSay(line, k, parseSingleCmdLine(parts[k]).arguments)
<1> DEFINE part == parts[k]
           args == parseSingleCmdLine(part).arguments
           at == ArgumentsAt(line, k)
           o == off[k]
<1>1. /\ part \in Seq(AnyWord) /\ Len(part) \in Nat /\ o \in Nat /\ k \in Nat
      /\ MAX_ARGUMENTS \in Nat
  <2>1. Len(parts) \in Nat
    BY SplitsTypes
  <2>. QED BY <2>1, SplitsTypes, LineParserAssumption
<1>2. PICK w \in 0 .. Len(part) :
        /\ \A j \in 1 .. w : part[j] \notin {Less, Greater}
        /\ w < Len(part) => part[w + 1] \in {Less, Greater}
        /\ Len(args) = IF w < MAX_ARGUMENTS THEN w ELSE MAX_ARGUMENTS - 1
        /\ \A j \in 1 .. Len(args) : j \in 1 .. w /\ args[j] = part[j]
  BY <1>1, CommandParses
<1>3. PositionsOf(line, k) = o + 1 .. o + Len(part)
  BY <1>1, PlacesOfPart DEF Stretch
<1>4. \A j \in 1 .. Len(part) : line[o + j] = part[j] /\ part[j] # Bar
  BY DEF Splits
<1>5. \A i \in o + 1 .. o + Len(part) : i - o \in 1 .. Len(part) /\ o + (i - o) = i
  BY <1>1
<1>6. o + Len(part) <= n
  BY PartsWithin
<1> HIDE DEF part, args, at, o
<1>7. \A j \in 1 .. Len(part) : line[o + j] \in Symbol <=> part[j] \in {Less, Greater}
  <2> TAKE j \in 1 .. Len(part)
  <2>1. o + j \in 1 .. n
    BY <1>1, <1>6
  <2>2. line[o + j] # Ampersand
    BY <2>1
  <2>. QED BY <1>4, <2>2 DEF Symbol
<1>8. at = o + 1 .. o + w
  <2>1. at = {i \in PositionsOf(line, k) :
                \A j \in PositionsOf(line, k) : j <= i => line[j] \notin Symbol}
    BY DEF at, ArgumentsAt
  <2>2. ASSUME NEW i \in o + 1 .. o + w
        PROVE  i \in at
    <3>1. i \in PositionsOf(line, k)
      BY <1>1, <1>3
    <3>2. ASSUME NEW j \in PositionsOf(line, k), j <= i
          PROVE  line[j] \notin Symbol
      <4>1. j - o \in 1 .. Len(part) /\ o + (j - o) = j /\ j - o \in 1 .. w
        BY <1>1, <1>3, <1>5, <3>2
      <4>. QED BY <1>2, <1>7, <4>1
    <3>. QED BY <2>1, <3>1, <3>2
  <2>3. ASSUME NEW i \in at
        PROVE  i \in o + 1 .. o + w
    <3>1. i \in o + 1 .. o + Len(part)
      BY <1>3, <2>1
    <3>2. ASSUME i > o + w
          PROVE  FALSE
      <4>1. w + 1 \in 1 .. Len(part) /\ o + (w + 1) \in PositionsOf(line, k) /\ o + (w + 1) <= i
        BY <1>1, <1>3, <3>1, <3>2
      <4>2. line[o + (w + 1)] \in Symbol
        BY <1>1, <1>2, <1>7, <4>1
      <4>. QED BY <2>1, <4>1, <4>2
    <3>. QED BY <1>1, <3>1, <3>2
  <2>. QED BY <2>2, <2>3
<1>9. Cardinality(at) = w
  <2>1. o + 1 \in Int /\ o + w \in Int
    BY <1>1
  <2>2. Cardinality(o + 1 .. o + w) =
          IF o + 1 > o + w THEN 0 ELSE (o + w) - (o + 1) + 1
    BY <2>1, FS_Interval
  <2>. QED BY <1>1, <1>8, <2>2
<1>10. ASSUME NEW i \in at, NEW m, m = Cardinality({j \in at : j <= i}), m <= Len(args)
       PROVE  args[m] = line[i]
  <2>1. i \in o + 1 .. o + w /\ o + 1 \in Int /\ i \in Int
    BY <1>1, <1>8
  <2>2. {j \in at : j <= i} = o + 1 .. i
    BY <1>1, <1>8, <2>1
  <2>3. Cardinality(o + 1 .. i) = IF o + 1 > i THEN 0 ELSE i - (o + 1) + 1
    BY <2>1, FS_Interval
  <2>4. m = i - o /\ m \in 1 .. w /\ o + m = i /\ m \in 1 .. Len(part)
    <3>1. w \in Nat /\ w <= Len(part) /\ o \in Nat /\ Len(part) \in Nat
      BY <1>1
    <3>2. m = IF o + 1 > i THEN 0 ELSE i - (o + 1) + 1
      BY <1>10, <2>2, <2>3
    <3>. QED BY <2>1, <3>1, <3>2
  <2>5. Len(args) \in Int
    BY <1>1, <1>2
  <2>6. m \in 1 .. Len(args)
    BY <1>10, <2>4, <2>5
  <2>. QED BY <1>2, <1>4, <2>4, <2>6
<1>11. Len(args) = IF Cardinality(at) < MAX_ARGUMENTS THEN Cardinality(at)
                   ELSE MAX_ARGUMENTS - 1
  BY <1>2, <1>9
<1>. QED BY <1>10, <1>11 DEF ArgumentsSay, at, args, part

LEMMA CountRight ==
  ASSUME NEW line, NEW n \in Nat, NEW parts, NEW off, Splits(parts, off, line, n),
         End(line) = n + 1, n <= Len(line), Len(line) \in Nat,
         NEW c \in 0 .. Len(parts), \A k \in 1 .. c : parts[k] # <<>>,
         c < Len(parts) => parts[c + 1] = <<>>
  PROVE  CommandCount(line) = c
<1>1. /\ Len(parts) \in Nat /\ c \in Nat
      /\ \A k \in 1 .. Len(parts) :
           /\ parts[k] \in Seq(AnyWord) /\ Len(parts[k]) \in Nat /\ off[k] \in Nat
           /\ off[k] + Len(parts[k]) <= n
  <2>1. Len(parts) \in Nat
    BY SplitsTypes
  <2>2. \A k \in 1 .. Len(parts) :
          parts[k] \in Seq(AnyWord) /\ Len(parts[k]) \in Nat /\ off[k] \in Nat
    BY SplitsTypes, Zenon
  <2>3. \A k \in 1 .. Len(parts) : off[k] + Len(parts[k]) <= n
    BY PartsWithin, Zenon
  <2>. QED BY <2>1, <2>2, <2>3
<1>2. ASSUME NEW k \in 1 .. c
      PROVE  PositionsOf(line, k) # {} /\ k <= Len(line)
  <2>1. k \in 1 .. Len(parts) /\ k \in Nat
    BY <1>1
  <2>2. Len(parts[k]) # 0
    BY <1>1, <2>1, EmptySeq
  <2>3. off[k] + 1 \in Stretch(parts, off, k)
    BY <1>1, <2>1, <2>2 DEF Stretch
  <2>4. off[k] >= k - 1
    <3>1. Cardinality({j \in 1 .. off[k] : line[j] = Bar}) = k - 1
      BY <2>1, BarsBefore
    <3>2. IsFiniteSet(1 .. off[k]) /\ Cardinality(1 .. off[k]) = off[k]
      <4>1. PICK o \in Nat : o = off[k]
        BY <1>1, <2>1
      <4>2. 1 \in Int /\ o \in Int
        OBVIOUS
      <4>3. /\ IsFiniteSet(1 .. o)
            /\ Cardinality(1 .. o) = IF 1 > o THEN 0 ELSE o - 1 + 1
        BY <4>2, FS_Interval
      <4>. QED BY <4>1, <4>3
    <3>3. {j \in 1 .. off[k] : line[j] = Bar} \subseteq 1 .. off[k]
      OBVIOUS
    <3>4. Cardinality({j \in 1 .. off[k] : line[j] = Bar}) <= Cardinality(1 .. off[k])
      BY <3>2, <3>3, FS_Subset
    <3>. QED BY <3>1, <3>2, <3>4
  <2>5. k <= Len(line)
    BY <1>1, <2>1, <2>2, <2>4
  <2>. QED BY <2>1, <2>3, <2>5, PlacesOfPart
<1>3. PositionsOf(line, c + 1) = {}
  <2>1. CASE c + 1 \in 1 .. Len(parts)
    <3>1. Len(parts[c + 1]) = 0
      BY <1>1, <2>1, EmptySeq
    <3>2. Stretch(parts, off, c + 1) = {}
      BY <1>1, <2>1, <3>1 DEF Stretch
    <3>. QED BY <1>1, <2>1, <3>2, PlacesOfPart
  <2>2. CASE c + 1 \notin 1 .. Len(parts)
    BY <1>1, <2>2, PlacesOfPart
  <2>. QED BY <2>1, <2>2
<1> DEFINE K == {k \in 1 .. Len(line) : \A j \in 1 .. k : PositionsOf(line, j) # {}}
<1>4. K = 1 .. c
  <2>1. ASSUME NEW k \in K
        PROVE  k \in 1 .. c
    <3>1. ~(c + 1 \in 1 .. k)
      BY <1>3
    <3>. QED BY <1>1, <3>1
  <2>2. ASSUME NEW k \in 1 .. c
        PROVE  k \in K
    <3>1. \A j \in 1 .. k : j \in 1 .. c
      BY <1>1
    <3>2. k \in 1 .. Len(line)
      BY <1>1, <1>2
    <3>. QED BY <1>2, <3>1, <3>2
  <2> HIDE DEF K
  <2>. QED BY <2>1, <2>2
<1>5. Cardinality(1 .. c) = c
  <2>1. 1 \in Int /\ c \in Int
    BY <1>1
  <2>. QED BY <1>1, <2>1, FS_Interval
<1>. QED BY <1>4, <1>5 DEF CommandCount

(* parseCmdLines makes of every line, however long, what its tokens say.   *)
THEOREM ParserRight ==
  ASSUME NEW line \in Seq(AnyWord)
  PROVE  SaysWhatTheLineSays(line, parseCmdLines(line))
<1> DEFINE s == parseCmdLines(line)
           n == End(line) - 1
<1>1. PICK parts, off : Parsed(line, s, parts, off)
  BY ParserParses
<1>2. /\ n \in Nat /\ End(line) = n + 1 /\ n <= Len(line) /\ Len(line) \in Nat
      /\ \A i \in 1 .. n : line[i] # Ampersand
  <2>1. /\ End(line) \in 1 .. Len(line) + 1 /\ Len(line) \in Nat
        /\ \A i \in 1 .. End(line) - 1 : line[i] # Ampersand
    BY LineEnds, LenProperties
  <2>. QED BY <2>1
<1> HIDE DEF s, n
<1>3. /\ Splits(parts, off, line, n)
      /\ Len(s) \in 0 .. Len(parts) /\ DOMAIN s = 1 .. Len(s) /\ Len(parts) \in Nat
      /\ \A k \in 1 .. Len(s) : parts[k] # <<>> /\ k \in 1 .. Len(parts)
      /\ Len(s) < Len(parts) => parts[Len(s) + 1] = <<>>
  <2>1. Splits(parts, off, line, n) /\ Len(s) \in 0 .. Len(parts)
    BY <1>1 DEF Parsed, n
  <2>2. Len(parts) \in Nat
    BY <1>2, <2>1, SplitsTypes
  <2>. QED BY <1>1, <2>1, <2>2 DEF Parsed
<1>4. Len(s) = CommandCount(line)
  BY <1>2, <1>3, CountRight
<1>5. ASSUME NEW k \in DOMAIN s
      PROVE  /\ s[k].arguments = parseSingleCmdLine(parts[k]).arguments
             /\ s[k].inputRedirect = extractRedirections(parts[k], Less)
             /\ s[k].outputRedirect = extractRedirections(parts[k], Greater)
             /\ s[k].blocking <=> k = Len(s) /\ End(line) > Len(line)
  <2> DEFINE b == k = Len(s) /\ End(line) > Len(line)
  <2>1. s[k] = [parseSingleCmdLine(parts[k]) EXCEPT !.blocking = b]
    BY <1>1, <1>3 DEF Parsed
  <2>2. b \in BOOLEAN
    OBVIOUS
  <2> HIDE DEF b
  <2>3. /\ s[k].arguments = parseSingleCmdLine(parts[k]).arguments
        /\ s[k].inputRedirect = extractRedirections(parts[k], Less)
        /\ s[k].outputRedirect = extractRedirections(parts[k], Greater)
        /\ s[k].blocking <=> b
    BY <2>1, <2>2, CommandFields
  <2>. QED BY <2>3 DEF b
<1>6. ASSUME NEW k \in DOMAIN s
      PROVE  /\ ArgumentsSay(line, k, s[k].arguments)
             /\ s[k].inputRedirect = PathOf(line, k, Less)
             /\ s[k].outputRedirect = PathOf(line, k, Greater)
  <2>1. k \in 1 .. Len(parts)
    BY <1>3
  <2>2. /\ extractRedirections(parts[k], Less) = PathOf(line, k, Less)
        /\ extractRedirections(parts[k], Greater) = PathOf(line, k, Greater)
    BY <1>2, <1>3, <2>1, RedirectionRight
  <2>3. ArgumentsSay(line, k, parseSingleCmdLine(parts[k]).arguments)
    BY <1>2, <1>3, <2>1, ArgumentsRight
  <2>. QED BY <1>5, <2>2, <2>3
<1>. QED BY <1>4, <1>5, <1>6 DEF SaysWhatTheLineSays, ArgumentsSay, s

-----------------------------------------------------------------------------
(* Joined words.                                                           *)

Joins(f, ws, n) ==
  f = [i \in 1 .. n |-> IF i = 1 THEN ws[i] ELSE f[i - 1] \o ws[i]]

LEMMA FlattenJoins ==
  ASSUME NEW ws, Len(ws) # 0
  PROVE  FlattenSeq(ws) = (CHOOSE f : Joins(f, ws, Len(ws)))[Len(ws)]
BY DEF FlattenSeq, Joins

LEMMA JoinExists ==
  ASSUME NEW ws
  PROVE  \A n \in Nat : \E f : Joins(f, ws, n)
<1> DEFINE I == {n \in Nat : \E f : Joins(f, ws, n)}
<1>1. 0 \in I
  <2> DEFINE f == [i \in 1 .. 0 |-> <<>>]
  <2>1. Joins(f, ws, 0)
    BY DEF Joins
  <2>. QED BY <2>1
<1>2. ASSUME NEW n \in Nat, n \in I
      PROVE  n + 1 \in I
  <2>1. PICK f : Joins(f, ws, n)
    BY <1>2
  <2> DEFINE g == [i \in 1 .. n + 1 |->
                     IF i = n + 1 THEN IF i = 1 THEN ws[i] ELSE f[n] \o ws[i] ELSE f[i]]
  <2>2. ASSUME NEW i \in 1 .. n + 1
        PROVE  g[i] = IF i = 1 THEN ws[i] ELSE g[i - 1] \o ws[i]
    <3>1. CASE i = n + 1
      <4>1. i # 1 => i - 1 = n /\ n \in 1 .. n + 1 /\ n # n + 1
        BY <3>1
      <4>. QED BY <3>1, <4>1
    <3>2. CASE i # n + 1
      <4>1. i \in 1 .. n /\ (i # 1 => i - 1 \in 1 .. n + 1 /\ i - 1 # n + 1)
        BY <3>2
      <4>2. f[i] = IF i = 1 THEN ws[i] ELSE f[i - 1] \o ws[i]
        BY <2>1, <4>1 DEF Joins
      <4>. QED BY <3>2, <4>1, <4>2
    <3>. QED BY <3>1, <3>2
  <2>3. Joins(g, ws, n + 1)
    BY <2>2 DEF Joins
  <2>. QED BY <2>3
<1> HIDE DEF I
<1>3. \A n \in Nat : n \in I
  BY <1>1, <1>2, SetInduction
<1>. QED BY <1>3 DEF I

(* Joined words are a word, and one of several is not a single atom.       *)
LEMMA JoinedWord ==
  ASSUME NEW ws \in Seq(AnyWord), Len(ws) >= 1
  PROVE  /\ FlattenSeq(ws) \in AnyWord
         /\ FlattenSeq(ws) = Plain("~") => ws[1] = Plain("~")
<1> DEFINE n == Len(ws)
           f == CHOOSE g : Joins(g, ws, n)
           I == {k \in Nat : k + 1 <= n =>
                   /\ f[k + 1] \in AnyWord /\ Len(f[k + 1]) >= k + 1
                   /\ k = 0 => f[k + 1] = ws[1]}
<1>1. n \in Nat /\ n >= 1 /\ Joins(f, ws, n)
  BY JoinExists, LenProperties
<1>2. FlattenSeq(ws) = f[n]
  BY <1>1, FlattenJoins
<1> HIDE DEF f
<1>3. \A i \in 1 .. n : /\ f[i] = IF i = 1 THEN ws[i] ELSE f[i - 1] \o ws[i]
                        /\ ws[i] \in AnyWord /\ ws[i] \in Seq(Nat \X Text)
                        /\ Len(ws[i]) \in Nat /\ Len(ws[i]) >= 1
  <2> TAKE i \in 1 .. n
  <2>1. f[i] = IF i = 1 THEN ws[i] ELSE f[i - 1] \o ws[i]
    BY <1>1 DEF Joins
  <2>2. ws[i] \in AnyWord /\ ws[i] \in Seq(Nat \X Text) /\ ws[i] # <<>>
    BY ElementOfSeq DEF AnyWord
  <2>3. Len(ws[i]) \in Nat \ {0}
    BY <2>2, EmptySeq
  <2>. QED BY <2>1, <2>2, <2>3
<1>4. 0 \in I
  BY <1>1, <1>3
<1>5. ASSUME NEW k \in Nat, k \in I
      PROVE  k + 1 \in I
  <2> SUFFICES ASSUME k + 2 <= n
               PROVE  f[k + 2] \in AnyWord /\ Len(f[k + 2]) >= k + 2
    BY <1>1
  <2> DEFINE p == f[k + 1]
             w == ws[k + 2]
  <2>1. p \in AnyWord /\ Len(p) >= k + 1
    BY <1>1, <1>5
  <2>2. f[k + 2] = p \o w /\ w \in Seq(Nat \X Text) /\ Len(w) \in Nat /\ Len(w) >= 1
    <3>1. k + 2 \in 1 .. n /\ k + 2 # 1 /\ (k + 2) - 1 = k + 1
      BY <1>1
    <3>. QED BY <1>3, <3>1
  <2>3. p \in Seq(Nat \X Text) /\ Len(p) \in Nat
    BY <2>1, LenProperties DEF AnyWord
  <2> HIDE DEF p, w
  <2>4. p \o w \in Seq(Nat \X Text) /\ Len(p \o w) = Len(p) + Len(w)
    BY <2>2, <2>3, ConcatProperties
  <2>5. Len(p \o w) >= k + 2
    BY <2>1, <2>2, <2>3, <2>4
  <2>6. p \o w # <<>>
    <3>1. Len(<<>>) = 0
      BY EmptySeq
    <3>. QED BY <2>5, <3>1
  <2>. QED BY <2>2, <2>4, <2>5, <2>6 DEF AnyWord
<1> HIDE DEF I
<1>6. \A k \in Nat : k \in I
  BY <1>4, <1>5, SetInduction
<1>7. /\ f[n] \in AnyWord /\ Len(f[n]) >= n
      /\ n = 1 => f[n] = ws[1]
  <2>1. n - 1 \in Nat /\ (n - 1) + 1 = n
    BY <1>1
  <2>2. n - 1 \in I
    BY <1>6, <2>1
  <2>. QED BY <1>1, <2>1, <2>2 DEF I
<1>8. Len(Plain("~")) = 1
  BY DEF Plain
<1> HIDE DEF n
<1>9. ASSUME f[n] = Plain("~") PROVE ws[1] = Plain("~")
  <2>1. n = 1
    <3>1. Len(f[n]) = 1
      BY <1>8, <1>9
    <3>. QED BY <1>1, <1>7, <3>1
  <2>. QED BY <1>7, <1>9, <2>1
<1>. QED BY <1>2, <1>7, <1>9

-----------------------------------------------------------------------------
(* What a command consists of.                                             *)

Command == [arguments : Seq(AnyWord), inputRedirect : AnyWord \cup {NoPath},
            outputRedirect : AnyWord \cup {NoPath}, blocking : BOOLEAN]

LEMMA PathType ==
  ASSUME NEW part \in Seq(AnyWord), NEW symbol
  PROVE  extractRedirections(part, symbol) \in AnyWord \cup {NoPath}
<1> DEFINE r == LastOf(part, symbol)
<1>1. r \in 0 .. Len(part) /\ Len(part) \in Nat
  BY LastRedirection, LenProperties
<1>2. extractRedirections(part, symbol) = IF r = 0 THEN NoPath ELSE cloneFirstWord(part, r)
  BY DEF extractRedirections, LastOf
<1> HIDE DEF r
<1>3. ASSUME r < Len(part) PROVE part[r + 1] \in AnyWord
  <2>1. r + 1 \in 1 .. Len(part)
    BY <1>1, <1>3
  <2>. QED BY <2>1, ElementOfSeq
<1>. QED BY <1>1, <1>2, <1>3 DEF cloneFirstWord

LEMMA CommandType ==
  ASSUME NEW part \in Seq(AnyWord), NEW b \in BOOLEAN
  PROVE  [parseSingleCmdLine(part) EXCEPT !.blocking = b] \in Command
<1> DEFINE args == parseSingleCmdLine(part).arguments
           in == extractRedirections(part, Less)
           out == extractRedirections(part, Greater)
<1>1. args \in Seq(AnyWord)
  BY CommandParses
<1>2. in \in AnyWord \cup {NoPath} /\ out \in AnyWord \cup {NoPath}
  BY PathType
<1>3. parseSingleCmdLine(part) \in Command
  <2>1. parseSingleCmdLine(part) =
          [arguments |-> args, inputRedirect |-> in, outputRedirect |-> out,
           blocking |-> FALSE]
    BY DEF parseSingleCmdLine
  <2> HIDE DEF args, in, out
  <2>. QED BY <1>1, <1>2, <2>1 DEF Command
<1>. QED BY <1>3 DEF Command

LEMMA ChainType ==
  ASSUME NEW line \in Seq(AnyWord)
  PROVE  parseCmdLines(line) \in Seq(Command)
<1> DEFINE s == parseCmdLines(line)
<1>1. PICK parts, off : Parsed(line, s, parts, off)
  BY ParserParses
<1>2. Len(s) \in Nat /\ DOMAIN s = 1 .. Len(s)
  <2>1. Len(parts) \in Nat
    BY <1>1, LenProperties DEF Parsed, Splits
  <2>. QED BY <1>1, <2>1 DEF Parsed
<1>3. s = [k \in DOMAIN s |-> s[k]]
  BY DEF parseCmdLines
<1> HIDE DEF s
<1>4. ASSUME NEW k \in 1 .. Len(s)
      PROVE  s[k] \in Command
  <2> DEFINE b == k = Len(s) /\ End(line) > Len(line)
  <2>1. s[k] = [parseSingleCmdLine(parts[k]) EXCEPT !.blocking = b]
    BY <1>1, <1>2 DEF Parsed
  <2>2. b \in BOOLEAN
    OBVIOUS
  <2>3. parts[k] \in Seq(AnyWord)
    <3>1. Len(parts) \in Nat /\ parts \in Seq(Seq(AnyWord)) /\ k \in 1 .. Len(parts)
      BY <1>1, <1>2, LenProperties DEF Parsed, Splits
    <3>. QED BY <3>1, ElementOfSeq
  <2> HIDE DEF b
  <2>. QED BY <2>1, <2>2, <2>3, CommandType
<1>5. s \in [1 .. Len(s) -> Command]
  BY <1>2, <1>3, <1>4
<1>. QED BY <1>2, <1>5 DEF s

(* The first command begins the line, and has no words only if a           *)
(* redirection does.                                                       *)
LEMMA FirstWords ==
  ASSUME NEW line \in Seq(AnyWord), parseCmdLines(line) # <<>>
  PROVE  LET args == parseCmdLines(line)[1].arguments
         IN /\ Len(parseCmdLines(line)) >= 1
            /\ args = <<>> => line[1] \in {Less, Greater}
            /\ \A i \in DOMAIN args : i \in DOMAIN line /\ args[i] = line[i]
<1> DEFINE s == parseCmdLines(line)
           args == s[1].arguments
<1>1. PICK parts, off : Parsed(line, s, parts, off)
  BY ParserParses
<1>2. Len(s) \in Nat /\ Len(s) >= 1 /\ 1 \in 1 .. Len(s)
  <2>1. s \in Seq(Command)
    BY ChainType
  <2>. QED BY <2>1, EmptySeq
<1>3. /\ Len(line) \in Nat /\ End(line) \in 1 .. Len(line) + 1
      /\ DOMAIN line = 1 .. Len(line)
  BY LineEnds, LenProperties
<1> HIDE DEF s
<1>4. /\ Splits(parts, off, line, End(line) - 1) /\ parts[1] # <<>>
      /\ s[1] = [parseSingleCmdLine(parts[1]) EXCEPT
                   !.blocking = 1 = Len(s) /\ End(line) > Len(line)]
  BY <1>1, <1>2 DEF Parsed
<1>5. /\ Len(parts) >= 1 /\ parts[1] \in Seq(AnyWord) /\ Len(parts[1]) \in Nat \ {0}
      /\ off[1] = 0 /\ off[1] + Len(parts[1]) <= End(line) - 1
  <2>1. End(line) - 1 \in Nat
    BY <1>3
  <2>2. Len(parts) \in Nat /\ 1 \in 1 .. Len(parts) /\ parts[1] \in Seq(AnyWord)
    BY <1>4, <2>1, SplitsTypes
  <2>3. Len(parts[1]) \in Nat \ {0}
    BY <1>4, <2>2, EmptySeq
  <2>4. off[1] + Len(parts[1]) <= End(line) - 1
    BY <1>4, <2>1, <2>2, PartsWithin
  <2>5. Len(parts) >= 1 /\ off[1] = 0
    BY <1>4 DEF Splits
  <2>. QED BY <2>2, <2>3, <2>4, <2>5
<1>6. \A m \in 1 .. Len(parts[1]) : parts[1][m] = line[m] /\ m \in 1 .. Len(line)
  <2> TAKE m \in 1 .. Len(parts[1])
  <2>1. 1 \in 1 .. Len(parts) /\ 0 + m = m
    BY <1>4, <1>5 DEF Splits
  <2>. QED BY <1>3, <1>4, <1>5, <2>1 DEF Splits
<1>7. args = parseSingleCmdLine(parts[1]).arguments
  <2> DEFINE b == 1 = Len(s) /\ End(line) > Len(line)
  <2>1. s[1] = [parseSingleCmdLine(parts[1]) EXCEPT !.blocking = b] /\ b \in BOOLEAN
    BY <1>4
  <2> HIDE DEF b
  <2>. QED BY <2>1, CommandFields
<1>8. PICK w \in 0 .. Len(parts[1]) :
        /\ w < Len(parts[1]) => parts[1][w + 1] \in {Less, Greater}
        /\ args \in Seq(AnyWord)
        /\ Len(args) = IF w < MAX_ARGUMENTS THEN w ELSE MAX_ARGUMENTS - 1
        /\ \A j \in 1 .. Len(args) : j \in 1 .. w /\ args[j] = parts[1][j]
  BY <1>5, <1>7, CommandParses
<1> HIDE DEF args
<1>9. DOMAIN args = 1 .. Len(args)
  BY <1>8, LenProperties
<1>10. ASSUME args = <<>> PROVE line[1] \in {Less, Greater}
  <2>1. Len(args) = 0 /\ MAX_ARGUMENTS \in Nat /\ MAX_ARGUMENTS >= 2
    BY <1>10, EmptySeq, LineParserAssumption
  <2>2. w = 0 /\ 1 \in 1 .. Len(parts[1]) /\ w < Len(parts[1])
    BY <1>5, <1>8, <2>1
  <2>3. parts[1][1] \in {Less, Greater}
    BY <1>8, <2>2
  <2>. QED BY <1>6, <2>2, <2>3
<1>11. ASSUME NEW i \in DOMAIN args
       PROVE  i \in DOMAIN line /\ args[i] = line[i]
  <2>1. i \in 1 .. w /\ args[i] = parts[1][i] /\ i \in 1 .. Len(parts[1])
    BY <1>5, <1>8, <1>9
  <2>. QED BY <1>3, <1>6, <2>1
<1>. QED BY <1>2, <1>10, <1>11 DEF s, args

-----------------------------------------------------------------------------
(* The blocks of a list.                                                   *)

(* The three blocks of a node: its name, its value and its link. *)
BlockOf(v, f) == IF f = 1 THEN v.at.name ELSE IF f = 2 THEN v.at.value ELSE v.at.link

(* The blocks h are those of the nodes a to n of the list, each block once. *)
Owns(list, a, n, h) ==
  /\ \A i \in a .. n, f \in 1 .. 3 : BlockOf(list[i], f) \in h
  /\ \A b \in h : \E i \in a .. n, f \in 1 .. 3 : b = BlockOf(list[i], f)
  /\ \A i, j \in a .. n, f, g \in 1 .. 3 :
       BlockOf(list[i], f) = BlockOf(list[j], g) => i = j /\ f = g

LEMMA OwnsCount ==
  ASSUME NEW list, NEW a \in Nat, NEW n \in Nat, a <= n + 1,
         NEW h, Owns(list, a, n, h)
  PROVE  IsFiniteSet(h) /\ Cardinality(h) = 3 * (n + 1 - a)
<1> DEFINE P == (a .. n) \X (1 .. 3)
           F == [t \in P |-> BlockOf(list[t[1]], t[2])]
<1>1. IsFiniteSet(a .. n) /\ Cardinality(a .. n) = n + 1 - a
  <2>1. a \in Int /\ n \in Int
    OBVIOUS
  <2>2. IsFiniteSet(a .. n) /\ Cardinality(a .. n) = IF a > n THEN 0 ELSE n - a + 1
    BY <2>1, FS_Interval
  <2>. QED BY <2>2
<1>2. IsFiniteSet(1 .. 3) /\ Cardinality(1 .. 3) = 3
  <2>1. 1 \in Int /\ 3 \in Int
    OBVIOUS
  <2>2. IsFiniteSet(1 .. 3) /\ Cardinality(1 .. 3) = IF 1 > 3 THEN 0 ELSE 3 - 1 + 1
    BY <2>1, FS_Interval
  <2>. QED BY <2>2
<1>3. IsFiniteSet(P) /\ Cardinality(P) = (n + 1 - a) * 3
  <2>1. /\ IsFiniteSet(P)
        /\ Cardinality(P) = Cardinality(a .. n) * Cardinality(1 .. 3)
    BY <1>1, <1>2, FS_Product, Zenon
  <2>. QED BY <1>1, <1>2, <2>1, Zenon
<1>4. \A t \in P : t[1] \in a .. n /\ t[2] \in 1 .. 3 /\ t = <<t[1], t[2]>>
  OBVIOUS
<1>5. F \in [P -> h]
  BY <1>4 DEF Owns
<1>6. \A b \in h : \E t \in P : F[t] = b
  <2> TAKE b \in h
  <2>1. PICK i \in a .. n, f \in 1 .. 3 : b = BlockOf(list[i], f)
    BY DEF Owns
  <2>2. <<i, f>> \in P /\ F[<<i, f>>] = b
    BY <2>1
  <2>. QED BY <2>2
<1>7. \A t, u \in P : F[t] = F[u] => t = u
  <2> SUFFICES ASSUME NEW t \in P, NEW u \in P, F[t] = F[u]
               PROVE  t = u
    OBVIOUS
  <2>1. BlockOf(list[t[1]], t[2]) = BlockOf(list[u[1]], u[2])
    OBVIOUS
  <2>2. t[1] = u[1] /\ t[2] = u[2]
    BY <1>4, <2>1 DEF Owns
  <2>. QED BY <1>4, <2>2
<1> HIDE DEF F, P
<1>8. F \in Bijection(P, h)
  BY <1>5, <1>6, <1>7 DEF Bijection, Injection, Surjection, IsInjective
<1>9. ExistsBijection(P, h)
  BY <1>8 DEF ExistsBijection
<1>10. IsFiniteSet(h) /\ Cardinality(h) = Cardinality(P)
  BY <1>3, <1>9, FS_Bijection
<1>. QED BY <1>3, <1>10

(* A new node gets three blocks of its own, in front or at the end. *)
LEMMA OwnsAdded ==
  ASSUME NEW list, NEW a \in Nat, NEW n \in Nat, a <= n + 1, NEW h, Owns(list, a, n, h),
         NEW d \in {0, 1}, NEW p, p = IF d = 1 THEN a ELSE n + 1,
         NEW longer, \A i \in a .. n : longer[i + d] = list[i],
         \A f \in 1 .. 3 : BlockOf(longer[p], f) \notin h,
         \A f, g \in 1 .. 3 :
           BlockOf(longer[p], f) = BlockOf(longer[p], g) => f = g
  PROVE  Owns(longer, a, n + 1, h \cup {BlockOf(longer[p], f) : f \in 1 .. 3})
<1> DEFINE N == {BlockOf(longer[p], f) : f \in 1 .. 3}
<1>1. ASSUME NEW i \in a .. n + 1, i # p
      PROVE  i - d \in a .. n /\ longer[i] = list[i - d]
  <2>1. i - d \in a .. n /\ (i - d) + d = i
    BY <1>1
  <2>2. PICK j \in a .. n : j = i - d
    BY <2>1
  <2>3. longer[j + d] = list[j] /\ j + d = i
    BY <2>1, <2>2
  <2>. QED BY <2>1, <2>2, <2>3
<1>2. p \in a .. n + 1 /\ \A i \in a .. n : i + d \in a .. n + 1 /\ i + d # p
  OBVIOUS
<1>3. \A f \in 1 .. 3 : BlockOf(longer[p], f) \in N
  OBVIOUS
<1>4. \A b \in N : \E f \in 1 .. 3 : b = BlockOf(longer[p], f)
  OBVIOUS
<1> HIDE DEF N
<1>5. \A i \in a .. n + 1, f \in 1 .. 3 : BlockOf(longer[i], f) \in h \cup N
  <2> TAKE i \in a .. n + 1, f \in 1 .. 3
  <2>1. CASE i = p
    BY <1>3, <2>1
  <2>2. CASE i - d \in a .. n /\ longer[i] = list[i - d]
    BY <2>2 DEF Owns
  <2>. QED BY <1>1, <2>1, <2>2
<1>6. \A b \in h \cup N : \E i \in a .. n + 1, f \in 1 .. 3 : b = BlockOf(longer[i], f)
  <2> TAKE b \in h \cup N
  <2>1. CASE b \in h
    <3>1. PICK i \in a .. n, f \in 1 .. 3 : b = BlockOf(list[i], f)
      BY <2>1 DEF Owns
    <3>2. i + d \in a .. n + 1 /\ longer[i + d] = list[i]
      BY <1>2
    <3>. QED BY <3>1, <3>2
  <2>2. CASE b \in N
    BY <1>2, <1>4, <2>2
  <2>. QED BY <2>1, <2>2
<1>7. ASSUME NEW i \in a .. n + 1, NEW j \in a .. n + 1, NEW f \in 1 .. 3, NEW g \in 1 .. 3,
             BlockOf(longer[i], f) = BlockOf(longer[j], g)
      PROVE  i = j /\ f = g
  <2>1. CASE i = p /\ j = p
    BY <1>7, <2>1
  <2>2. CASE i = p /\ j # p
    <3>1. BlockOf(longer[j], g) \in h
      BY <1>1, <2>2 DEF Owns
    <3>. QED BY <1>7, <2>2, <3>1
  <2>3. CASE i # p /\ j = p
    <3>1. BlockOf(longer[i], f) \in h
      BY <1>1, <2>3 DEF Owns
    <3>. QED BY <1>7, <2>3, <3>1
  <2>4. CASE i # p /\ j # p
    <3>1. /\ i - d \in a .. n /\ longer[i] = list[i - d]
          /\ j - d \in a .. n /\ longer[j] = list[j - d]
      BY <1>1, <2>4
    <3> DEFINE x == i - d
               y == j - d
    <3>2. BlockOf(list[x], f) = BlockOf(list[y], g) /\ x \in a .. n /\ y \in a .. n
      BY <1>7, <3>1
    <3> HIDE DEF x, y
    <3>3. x = y /\ f = g
      BY <3>2 DEF Owns
    <3>. QED BY <3>3 DEF x, y
  <2>. QED BY <2>1, <2>2, <2>3, <2>4
<1>8. Owns(longer, a, n + 1, h \cup N)
  BY <1>5, <1>6, <1>7 DEF Owns
<1>. QED BY <1>8 DEF N

LEMMA OwnsInFront ==
  ASSUME NEW list, NEW n \in Nat, NEW h, Owns(list, 1, n, h),
         NEW longer, \A i \in 1 .. n : longer[i + 1] = list[i],
         NEW v, v = longer[1], \A f \in 1 .. 3 : BlockOf(v, f) \notin h,
         \A f, g \in 1 .. 3 : BlockOf(v, f) = BlockOf(v, g) => f = g
  PROVE  Owns(longer, 1, n + 1, h \cup {BlockOf(v, f) : f \in 1 .. 3})
<1>1. \E d \in {0, 1} : d = 1
  OBVIOUS
<1>2. PICK d \in {0, 1} : d = 1
  BY <1>1
<1>3. /\ 1 \in Nat /\ 1 <= n + 1 /\ 1 = (IF d = 1 THEN 1 ELSE n + 1)
      /\ \A i \in 1 .. n : longer[i + d] = list[i]
  BY <1>2
<1>. QED BY <1>3, OwnsAdded

LEMMA OwnsAtEnd ==
  ASSUME NEW list, NEW a \in Nat, NEW n \in Nat, a <= n + 1, NEW h, Owns(list, a, n, h),
         NEW longer, \A i \in a .. n : longer[i] = list[i],
         NEW v, v = longer[n + 1], \A f \in 1 .. 3 : BlockOf(v, f) \notin h,
         \A f, g \in 1 .. 3 : BlockOf(v, f) = BlockOf(v, g) => f = g
  PROVE  Owns(longer, a, n + 1, h \cup {BlockOf(v, f) : f \in 1 .. 3})
<1>1. PICK d \in {0, 1} : d = 0
  OBVIOUS
<1>2. PICK p : p = n + 1
  OBVIOUS
<1>3. /\ p = (IF d = 1 THEN a ELSE n + 1)
      /\ \A i \in a .. n : longer[i + d] = list[i]
  BY <1>1, <1>2
<1>. QED BY <1>2, <1>3, OwnsAdded

(* A new value gets a block of its own, that of the old one is freed. *)
LEMMA OwnsReplaced ==
  ASSUME NEW list, NEW a, NEW n, NEW h, Owns(list, a, n, h),
         NEW i \in a .. n, NEW clone, clone \notin h,
         NEW other, \A j \in a .. n : j # i => other[j] = list[j],
         BlockOf(other[i], 1) = BlockOf(list[i], 1),
         BlockOf(other[i], 2) = clone,
         BlockOf(other[i], 3) = BlockOf(list[i], 3)
  PROVE  Owns(other, a, n, (h \cup {clone}) \ {BlockOf(list[i], 2)})
<1> DEFINE old == BlockOf(list[i], 2)
           k == (h \cup {clone}) \ {old}
<1>1. old \in h /\ old # clone
  BY DEF Owns
<1>2. ASSUME NEW j \in a .. n, NEW f \in 1 .. 3
      PROVE  BlockOf(other[j], f) = IF j = i /\ f = 2 THEN clone ELSE BlockOf(list[j], f)
  <2>1. f = 1 \/ f = 2 \/ f = 3
    OBVIOUS
  <2>. QED BY <2>1
<1>3. \A j \in a .. n, f \in 1 .. 3 : BlockOf(list[j], f) = old => j = i /\ f = 2
  <2>1. 2 \in 1 .. 3
    OBVIOUS
  <2>. QED BY <2>1 DEF Owns
<1> HIDE DEF old
<1>4. \A j \in a .. n, f \in 1 .. 3 : BlockOf(other[j], f) \in k
  BY <1>1, <1>2, <1>3 DEF Owns
<1>5. \A b \in k : \E j \in a .. n, f \in 1 .. 3 : b = BlockOf(other[j], f)
  <2> TAKE b \in k
  <2>1. CASE b = clone
    BY <1>2, <2>1
  <2>2. CASE b # clone
    <3>1. PICK j \in a .. n, f \in 1 .. 3 : b = BlockOf(list[j], f)
      BY <2>2 DEF Owns
    <3>2. ~(j = i /\ f = 2)
      BY <3>1 DEF old
    <3>. QED BY <1>2, <3>1, <3>2
  <2>. QED BY <2>1, <2>2
<1>6. ASSUME NEW j \in a .. n, NEW m \in a .. n, NEW f \in 1 .. 3, NEW g \in 1 .. 3,
             BlockOf(other[j], f) = BlockOf(other[m], g)
      PROVE  j = m /\ f = g
  BY <1>2, <1>6 DEF Owns
<1>. QED BY <1>4, <1>5, <1>6 DEF Owns, old

LEMMA OwnsNothing ==
  ASSUME NEW list, NEW a \in Nat, NEW n \in Nat, n < a
  PROVE  Owns(list, a, n, {})
<1>1. a .. n = {}
  OBVIOUS
<1>. QED BY <1>1 DEF Owns

-----------------------------------------------------------------------------
(* What set does to the list.                                              *)

LEMMA FreshBlock ==
  ASSUME NEW h, IsFiniteSet(h), Cardinality(h) < 3 * (MaxVars + 1)
  PROVE  Actual!Fresh(h) \in Nat \ h
<1> DEFINE B == 1 .. 3 * (MaxVars + 1)
<1>1. MaxVars \in Nat
  BY VariablesAssumption
<1>2. IsFiniteSet(B) /\ Cardinality(B) = 3 * (MaxVars + 1)
  <2> DEFINE m == 3 * (MaxVars + 1)
  <2>1. 1 \in Int /\ m \in Int /\ m >= 1
    BY <1>1
  <2> HIDE DEF m
  <2>2. IsFiniteSet(1 .. m) /\ Cardinality(1 .. m) = IF 1 > m THEN 0 ELSE m - 1 + 1
    BY <2>1, FS_Interval
  <2>3. IsFiniteSet(1 .. m) /\ Cardinality(1 .. m) = m
    BY <2>1, <2>2
  <2>. QED BY <2>3 DEF m
<1>3. B \ h # {}
  <2> SUFFICES ASSUME B \subseteq h
               PROVE  FALSE
    OBVIOUS
  <2> HIDE DEF B
  <2>1. Cardinality(B) <= Cardinality(h) /\ Cardinality(h) \in Nat
    BY FS_Subset, FS_CardinalityType
  <2>. QED BY <1>1, <1>2, <2>1
<1>4. B \ h \in SUBSET Nat /\ 0 \notin B
  BY <1>1
<1> HIDE DEF B
<1>5. Min(B \ h) \in B \ h
  BY <1>3, <1>4, LeastElement
<1>6. Actual!Fresh(h) = Min(B \ h)
  BY DEF Actual!Fresh, Actual!Block, Min, B
<1>. QED BY <1>4, <1>5, <1>6

LEMMA SameFresh == \A h : Warmup!Fresh(h) = Actual!Fresh(h)
BY DEF Actual!Fresh, Warmup!Fresh, Actual!Block, Warmup!Block

LEMMA AddOne ==
  ASSUME NEW h, IsFiniteSet(h), NEW b, b \notin h
  PROVE  IsFiniteSet(h \cup {b}) /\ Cardinality(h \cup {b}) = Cardinality(h) + 1
BY FS_AddElement

(* Three blocks, one after the other. *)
Block1(h) == Actual!Fresh(h)
Block2(h) == Actual!Fresh(h \cup {Block1(h)})
Block3(h) == Actual!Fresh(h \cup {Block1(h), Block2(h)})

LEMMA ThreeBlocks ==
  ASSUME NEW h, IsFiniteSet(h), Cardinality(h) + 2 < 3 * (MaxVars + 1)
  PROVE  /\ Block1(h) \in Nat \ h /\ Block2(h) \in Nat \ h /\ Block3(h) \in Nat \ h
         /\ Block1(h) # Block2(h) /\ Block1(h) # Block3(h) /\ Block2(h) # Block3(h)
<1> DEFINE c == Cardinality(h)
           h1 == h \cup {Block1(h)}
           h2 == h1 \cup {Block2(h)}
<1>1. MaxVars \in Nat /\ c \in Nat
  BY VariablesAssumption, FS_CardinalityType
<1>2. Block1(h) \in Nat \ h
  <2>1. c < 3 * (MaxVars + 1)
    BY <1>1
  <2>. QED BY <2>1, FreshBlock DEF Block1
<1>3. IsFiniteSet(h1) /\ Cardinality(h1) = c + 1
  BY <1>2, AddOne
<1>4. Block2(h) = Actual!Fresh(h1)
  BY DEF Block2
<1>5. h2 = h \cup {Block1(h), Block2(h)}
  OBVIOUS
<1>6. Block3(h) = Actual!Fresh(h2)
  BY <1>5 DEF Block3
<1> HIDE DEF h1
<1>7. Block2(h) \in Nat \ h1
  <2>1. Cardinality(h1) < 3 * (MaxVars + 1)
    BY <1>1, <1>3
  <2>. QED BY <1>3, <1>4, <2>1, FreshBlock
<1>8. IsFiniteSet(h2) /\ Cardinality(h2) = c + 2
  <2>1. IsFiniteSet(h2) /\ Cardinality(h2) = Cardinality(h1) + 1
    BY <1>3, <1>7, AddOne
  <2>. QED BY <1>1, <1>3, <2>1
<1> HIDE DEF h2
<1>9. Block3(h) \in Nat \ h2
  <2>1. Cardinality(h2) < 3 * (MaxVars + 1)
    BY <1>1, <1>8
  <2>. QED BY <1>6, <1>8, <2>1, FreshBlock
<1>. QED BY <1>2, <1>7, <1>9 DEF h1, h2

ActualNode ==
  [name : AnyWord, value : AnyWord, at : [name : Nat, value : Nat, link : Nat]]

(* The list of the later shell and its blocks. *)
ActualList(list, h) ==
  /\ list \in Seq(ActualNode)
  /\ Len(list) <= MaxVars
  /\ Owns(list, 1, Len(list), h)

LEMMA ActualReplaces ==
  ASSUME ActualList(var_list, heap), NEW i \in 1 .. Len(var_list), NEW value \in AnyWord,
         Actual!ReplaceValue(i, value)
  PROVE  ActualList(var_list', heap')
<1> DEFINE l == Len(var_list)
           clone == Actual!Fresh(heap)
           v == var_list[i]
           w == [v EXCEPT !.value = value, !.at.value = clone]
<1>1. /\ MaxVars \in Nat /\ l \in Nat /\ l <= MaxVars /\ var_list \in Seq(ActualNode)
      /\ Owns(var_list, 1, l, heap)
  BY VariablesAssumption, LenProperties DEF ActualList
<1>2. IsFiniteSet(heap) /\ Cardinality(heap) = 3 * l
  <2>1. IsFiniteSet(heap) /\ Cardinality(heap) = 3 * (l + 1 - 1)
    BY <1>1, OwnsCount
  <2>. QED BY <1>1, <2>1
<1>3. clone \in Nat \ heap
  BY <1>1, <1>2, FreshBlock
<1>4. v \in ActualNode
  BY <1>1, ElementOfSeq
<1>5. /\ var_list' = [var_list EXCEPT ![i] = w]
      /\ heap' = (heap \cup {clone}) \ {v.at.value}
  BY DEF Actual!ReplaceValue
<1> HIDE DEF clone
<1>6. /\ w \in ActualNode
      /\ w.at.name = v.at.name /\ w.at.value = clone /\ w.at.link = v.at.link
  BY <1>3, <1>4 DEF ActualNode
<1> HIDE DEF w
<1>7. /\ var_list' \in Seq(ActualNode) /\ Len(var_list') = l
      /\ \A j \in 1 .. l : var_list'[j] = IF j = i THEN w ELSE var_list[j]
  BY <1>1, <1>5, <1>6, ExceptSeq
<1>8. BlockOf(v, 2) = v.at.value
  BY DEF BlockOf
<1>9. Owns(var_list', 1, l, (heap \cup {clone}) \ {BlockOf(v, 2)})
  <2>1. /\ BlockOf(w, 1) = BlockOf(v, 1) /\ BlockOf(w, 2) = clone
        /\ BlockOf(w, 3) = BlockOf(v, 3)
    BY <1>6 DEF BlockOf
  <2>2. var_list'[i] = w /\ \A j \in 1 .. l : j # i => var_list'[j] = var_list[j]
    BY <1>7
  <2>. QED BY <1>1, <1>3, <2>1, <2>2, OwnsReplaced
<1>. QED BY <1>1, <1>5, <1>7, <1>8, <1>9 DEF ActualList

LEMMA ActualAdds ==
  ASSUME ActualList(var_list, heap), NEW name \in AnyWord, NEW value \in AnyWord,
         Actual!AddVar(name, value)
  PROVE  ActualList(var_list', heap')
<1> DEFINE l == Len(var_list)
<1>1. /\ l \in Nat /\ var_list \in Seq(ActualNode) /\ Owns(var_list, 1, l, heap)
      /\ l < MaxVars /\ MaxVars \in Nat
  BY VariablesAssumption, LenProperties DEF ActualList, Actual!AddVar
<1>2. IsFiniteSet(heap) /\ Cardinality(heap) = 3 * l
  <2>1. IsFiniteSet(heap) /\ Cardinality(heap) = 3 * (l + 1 - 1)
    BY <1>1, OwnsCount
  <2>. QED BY <1>1, <2>1
<1> DEFINE b1 == Block1(heap)
           b2 == Block2(heap)
           b3 == Block3(heap)
<1>3. /\ var_list' = <<[name |-> name, value |-> value,
                        at |-> [value |-> b1, name |-> b2, link |-> b3]]>> \o var_list
      /\ heap' = heap \cup {b1, b2, b3}
  BY DEF Actual!AddVar, Block1, Block2, Block3
<1> DEFINE v == [name |-> name, value |-> value,
                 at |-> [value |-> b1, name |-> b2, link |-> b3]]
<1>4. /\ b1 \in Nat \ heap /\ b2 \in Nat \ heap /\ b3 \in Nat \ heap
      /\ b1 # b2 /\ b1 # b3 /\ b2 # b3
  <2>1. Cardinality(heap) + 2 < 3 * (MaxVars + 1)
    BY <1>1, <1>2
  <2>. QED BY <1>2, <2>1, ThreeBlocks
<1> HIDE DEF b1, b2, b3
<1>5. /\ v \in ActualNode
      /\ BlockOf(v, 1) = b2 /\ BlockOf(v, 2) = b1 /\ BlockOf(v, 3) = b3
  BY <1>4 DEF ActualNode, BlockOf
<1>6. var_list' = <<v>> \o var_list
  BY <1>3
<1> HIDE DEF v
<1>7. /\ var_list' \in Seq(ActualNode) /\ Len(var_list') = l + 1 /\ var_list'[1] = v
      /\ \A i \in 1 .. l : var_list'[i + 1] = var_list[i]
  <2>1. <<v>> \in Seq(ActualNode) /\ Len(<<v>>) = 1 /\ <<v>>[1] = v
    BY <1>5
  <2>2. /\ <<v>> \o var_list \in Seq(ActualNode)
        /\ Len(<<v>> \o var_list) = 1 + l
        /\ \A i \in 1 .. 1 + l :
             (<<v>> \o var_list)[i] = IF i <= 1 THEN <<v>>[i] ELSE var_list[i - 1]
    BY <1>1, <2>1, ConcatProperties
  <2>3. ASSUME NEW i \in 1 .. l PROVE var_list'[i + 1] = var_list[i]
    <3>1. i + 1 \in 1 .. 1 + l /\ ~(i + 1 <= 1) /\ (i + 1) - 1 = i
      BY <1>1
    <3>. QED BY <1>6, <2>2, <3>1
  <2>4. 1 \in 1 .. 1 + l /\ 1 <= 1
    BY <1>1
  <2>. QED BY <1>1, <1>6, <2>1, <2>2, <2>3, <2>4
<1>8. \A f \in 1 .. 3 : f = 1 \/ f = 2 \/ f = 3
  OBVIOUS
<1>9. {BlockOf(v, f) : f \in 1 .. 3} = {b1, b2, b3}
  BY <1>5, <1>8
<1>10. Owns(var_list', 1, l + 1, heap \cup {BlockOf(v, f) : f \in 1 .. 3})
  <2>1. \A f \in 1 .. 3 : BlockOf(v, f) \notin heap
    BY <1>4, <1>5, <1>8
  <2>2. \A f, g \in 1 .. 3 : BlockOf(v, f) = BlockOf(v, g) => f = g
    BY <1>4, <1>5, <1>8
  <2>3. /\ l \in Nat /\ Owns(var_list, 1, l, heap) /\ v = var_list'[1]
        /\ \A i \in 1 .. l : var_list'[i + 1] = var_list[i]
    BY <1>1, <1>7
  <2> HIDE DEF l
  <2>. QED BY <2>1, <2>2, <2>3, OwnsInFront
<1>11. l + 1 <= MaxVars
  BY <1>1
<1>12. heap' = heap \cup {BlockOf(v, f) : f \in 1 .. 3}
  BY <1>3, <1>9
<1>. QED BY <1>7, <1>10, <1>11, <1>12 DEF ActualList

LEMMA SameCardinality ==
  \A S : Actual!Cardinality(S) = Cardinality(S) /\ Warmup!Cardinality(S) = Cardinality(S)
BY DEF Actual!Cardinality, Warmup!Cardinality, Cardinality

LEMMA ActualFinds ==
  ASSUME NEW S, var_list \in Seq(S), NEW name
  PROVE  Actual!find_var_by_name(name) \in 0 .. Len(var_list)
<1> DEFINE i == Actual!find_var_by_name(name)
           I == {j \in 1 .. Len(var_list) : var_list[j].name = name}
<1>1. Len(var_list) \in Nat /\ I \in SUBSET (1 .. Len(var_list))
  BY LenProperties
<1>2. i = IF I # {} THEN Min(I) ELSE 0
  BY DEF Actual!find_var_by_name, Actual!SelectInSeq, Actual!Min, Min
<1> HIDE DEF i, I
<1>3. i \in 0 .. Len(var_list)
  BY <1>1, <1>2, FirstPlace
<1>. QED BY <1>3 DEF i

LEMMA ActualExact ==
  ASSUME ActualList(var_list, heap)
  PROVE  Actual!HeapExact /\ heap \ UNION {Actual!BlocksOf(v) : v \in ToSet(var_list)} = {}
<1> DEFINE l == Len(var_list)
<1>1. /\ l \in Nat /\ DOMAIN var_list = 1 .. l /\ Owns(var_list, 1, l, heap)
  BY LenProperties DEF ActualList
<1>2. Cardinality(heap) = 3 * l
  <2>1. Cardinality(heap) = 3 * (l + 1 - 1)
    BY <1>1, OwnsCount
  <2>. QED BY <1>1, <2>1
<1>3. ASSUME NEW b \in heap
      PROVE  b \in UNION {Actual!BlocksOf(v) : v \in ToSet(var_list)}
  <2>1. PICK i \in 1 .. l, f \in 1 .. 3 : b = BlockOf(var_list[i], f)
    BY <1>1 DEF Owns
  <2>2. b \in Actual!BlocksOf(var_list[i])
    BY <2>1 DEF Actual!BlocksOf, BlockOf
  <2>3. var_list[i] \in ToSet(var_list)
    BY <1>1 DEF ToSet
  <2>. QED BY <2>2, <2>3
<1>4. ASSUME NEW v \in ToSet(var_list), NEW b \in Actual!BlocksOf(v)
      PROVE  b \in heap
  <2>1. PICK i \in 1 .. l : v = var_list[i]
    BY <1>1 DEF ToSet
  <2>2. BlockOf(v, 1) \in heap /\ BlockOf(v, 2) \in heap /\ BlockOf(v, 3) \in heap
    <3>1. 1 \in 1 .. 3 /\ 2 \in 1 .. 3 /\ 3 \in 1 .. 3
      OBVIOUS
    <3>. QED BY <1>1, <2>1, <3>1 DEF Owns
  <2>. QED BY <2>2 DEF Actual!BlocksOf, BlockOf
<1>5. heap = UNION {Actual!BlocksOf(v) : v \in ToSet(var_list)}
  BY <1>3, <1>4
<1>6. Actual!ToSet(var_list) = ToSet(var_list)
  BY DEF Actual!ToSet, ToSet
<1>7. Actual!HeapExact
  BY <1>2, <1>5, <1>6, SameCardinality DEF Actual!HeapExact
<1>. QED BY <1>5, <1>7

WarmupNode ==
  [expand_name : AnyWord, value : AnyWord \cup {NoPath}, shouldFree : BOOLEAN,
   at : [name : Nat, value : Nat, link : Nat]]

(* The list of the earlier shell: in front the node for ~, which nothing   *)
(* changes, behind it the variables and their blocks.  Without a HOME no   *)
(* variable has the value ~.                                               *)
WarmupList(list, h, hm) ==
  /\ list \in Seq(WarmupNode)
  /\ 1 <= Len(list) /\ Len(list) <= MaxVars + 1
  /\ list[1].expand_name = Plain("~") /\ list[1].value = hm
  /\ list[1].at = Warmup!NotAllocated
  /\ ~list[1].shouldFree
  /\ \A i \in 2 .. Len(list) : /\ list[i].shouldFree
                               /\ list[i].value # NoPath
                               /\ hm = NoPath => list[i].value # Plain("~")
  /\ Owns(list, 2, Len(list), h)

LEMMA WarmupFinds ==
  ASSUME NEW S, var_list \in Seq(S), NEW name, NEW i, i = Warmup!address_of_var(name)
  PROVE  /\ i \in 0 .. Len(var_list)
         /\ i # 0 => var_list[i].expand_name = name
         /\ i = 0 => \A j \in 1 .. Len(var_list) : var_list[j].expand_name # name
<1> DEFINE I == {j \in 1 .. Len(var_list) : var_list[j].expand_name = name}
<1>1. Len(var_list) \in Nat /\ I \in SUBSET (1 .. Len(var_list))
  BY LenProperties
<1>2. i = IF I # {} THEN Min(I) ELSE 0
  BY DEF Warmup!address_of_var, Warmup!SelectInSeq, Warmup!Min, Min
<1>3. \A j \in 1 .. Len(var_list) : j \in I <=> var_list[j].expand_name = name
  OBVIOUS
<1> HIDE DEF I
<1>4. i \in 0 .. Len(var_list) /\ (i = 0 <=> I = {}) /\ (i # 0 => i \in I)
  BY <1>1, <1>2, FirstPlace
<1>. QED BY <1>1, <1>3, <1>4

LEMMA WarmupBlocks ==
  ASSUME WarmupList(var_list, heap, home)
  PROVE  /\ Len(var_list) \in Nat /\ MaxVars \in Nat
         /\ var_list \in Seq(WarmupNode) /\ DOMAIN var_list = 1 .. Len(var_list)
         /\ Owns(var_list, 2, Len(var_list), heap)
         /\ IsFiniteSet(heap) /\ Cardinality(heap) = 3 * (Len(var_list) - 1)
<1> DEFINE l == Len(var_list)
<1>1. /\ l \in Nat /\ l >= 1 /\ MaxVars \in Nat /\ DOMAIN var_list = 1 .. l
      /\ var_list \in Seq(WarmupNode) /\ Owns(var_list, 2, l, heap)
  BY VariablesAssumption, LenProperties DEF WarmupList
<1>2. IsFiniteSet(heap) /\ Cardinality(heap) = 3 * (l + 1 - 2)
  BY <1>1, OwnsCount
<1>. QED BY <1>1, <1>2

LEMMA WarmupReplaces ==
  ASSUME WarmupList(var_list, heap, home), NEW i \in 2 .. Len(var_list),
         NEW value \in AnyWord, home = NoPath => value # Plain("~"),
         Warmup!ReplaceValue(i, value)
  PROVE  WarmupList(var_list', heap', home)
<1> DEFINE l == Len(var_list)
           clone == Warmup!Allocated.value
           v == var_list[i]
           w == [v EXCEPT !.value = value, !.at.value = clone]
<1>1. /\ MaxVars \in Nat /\ l \in Nat /\ l >= 1 /\ l <= MaxVars + 1
      /\ var_list \in Seq(WarmupNode)
      /\ Owns(var_list, 2, l, heap)
      /\ IsFiniteSet(heap) /\ Cardinality(heap) = 3 * (l - 1)
  BY WarmupBlocks DEF WarmupList
<1>2. clone = Block2(heap)
  BY SameFresh DEF Warmup!Allocated, Block1, Block2
<1>3. clone \in Nat \ heap
  <2>1. Cardinality(heap) + 2 < 3 * (MaxVars + 1)
    BY <1>1
  <2>. QED BY <1>1, <1>2, <2>1, ThreeBlocks
<1>4. v \in WarmupNode /\ i \in 1 .. l /\ i # 1
  <2>1. i \in 1 .. l /\ i # 1
    BY <1>1
  <2>. QED BY <1>1, <2>1, ElementOfSeq
<1>5. /\ var_list' = [var_list EXCEPT ![i] = w]
      /\ heap' = (heap \cup {clone}) \ {v.at.value}
  BY DEF Warmup!ReplaceValue
<1> HIDE DEF clone
<1>6. /\ w \in WarmupNode
      /\ w.value = value /\ w.expand_name = v.expand_name
      /\ w.shouldFree <=> v.shouldFree
      /\ w.at.name = v.at.name /\ w.at.value = clone /\ w.at.link = v.at.link
  BY <1>3, <1>4 DEF WarmupNode
<1> HIDE DEF w
<1>7. /\ var_list' \in Seq(WarmupNode) /\ Len(var_list') = l
      /\ \A j \in 1 .. l : var_list'[j] = IF j = i THEN w ELSE var_list[j]
  BY <1>1, <1>4, <1>5, <1>6, ExceptSeq
<1>8. BlockOf(v, 2) = v.at.value
  BY DEF BlockOf
<1>9. Owns(var_list', 2, l, (heap \cup {clone}) \ {BlockOf(v, 2)})
  <2>1. /\ BlockOf(w, 1) = BlockOf(v, 1) /\ BlockOf(w, 2) = clone
        /\ BlockOf(w, 3) = BlockOf(v, 3)
    BY <1>6 DEF BlockOf
  <2>2. var_list'[i] = w /\ \A j \in 2 .. l : j # i => var_list'[j] = var_list[j]
    BY <1>1, <1>4, <1>7
  <2>. QED BY <1>1, <1>3, <2>1, <2>2, OwnsReplaced
<1>10. var_list'[1] = var_list[1]
  BY <1>1, <1>4, <1>7
<1>11. ASSUME NEW j \in 2 .. l
       PROVE  /\ var_list'[j].shouldFree
              /\ var_list'[j].value # NoPath
              /\ home = NoPath => var_list'[j].value # Plain("~")
  <2>1. j \in 1 .. l
    BY <1>1
  <2>2. CASE j = i
    <3>1. var_list'[j] = w /\ v.shouldFree
      BY <1>7, <2>1, <2>2 DEF WarmupList
    <3>. QED BY <1>6, <3>1 DEF AnyWord, NoPath
  <2>3. CASE j # i
    BY <1>7, <2>1, <2>3 DEF WarmupList
  <2>. QED BY <2>2, <2>3
<1>12. /\ var_list[1].expand_name = Plain("~") /\ var_list[1].value = home
       /\ var_list[1].at = Warmup!NotAllocated /\ ~var_list[1].shouldFree
  BY DEF WarmupList
<1>. QED BY <1>1, <1>5, <1>7, <1>8, <1>9, <1>10, <1>11, <1>12 DEF WarmupList

LEMMA WarmupAdds ==
  ASSUME WarmupList(var_list, heap, home), NEW name \in AnyWord,
         NEW value \in AnyWord, home = NoPath => value # Plain("~"),
         Warmup!AddVar(name, value)
  PROVE  WarmupList(var_list', heap', home)
<1> DEFINE l == Len(var_list)
           b1 == Block1(heap)
           b2 == Block2(heap)
           b3 == Block3(heap)
           v == [expand_name |-> name, value |-> value, shouldFree |-> TRUE,
                 at |-> [name |-> b1, value |-> b2, link |-> b3]]
<1>1. /\ MaxVars \in Nat /\ l \in Nat /\ l >= 1 /\ l <= MaxVars
      /\ var_list \in Seq(WarmupNode)
      /\ Owns(var_list, 2, l, heap)
      /\ IsFiniteSet(heap) /\ Cardinality(heap) = 3 * (l - 1)
  BY WarmupBlocks DEF WarmupList, Warmup!AddVar
<1>2. Warmup!Allocated = [name |-> b1, value |-> b2, link |-> b3]
  BY SameFresh DEF Warmup!Allocated, Block1, Block2, Block3
<1>3. /\ b1 \in Nat \ heap /\ b2 \in Nat \ heap /\ b3 \in Nat \ heap
      /\ b1 # b2 /\ b1 # b3 /\ b2 # b3
  <2>1. Cardinality(heap) + 2 < 3 * (MaxVars + 1)
    BY <1>1
  <2>. QED BY <1>1, <2>1, ThreeBlocks
<1>4. var_list' = Append(var_list, v) /\ heap' = heap \cup {b1, b2, b3}
  BY <1>2 DEF Warmup!AddVar
<1> HIDE DEF b1, b2, b3
<1>5. /\ v \in WarmupNode /\ v.value = value /\ v.shouldFree
      /\ BlockOf(v, 1) = b1 /\ BlockOf(v, 2) = b2 /\ BlockOf(v, 3) = b3
  BY <1>3 DEF WarmupNode, BlockOf
<1> HIDE DEF v
<1>6. /\ var_list' \in Seq(WarmupNode) /\ Len(var_list') = l + 1 /\ var_list'[l + 1] = v
      /\ \A i \in 1 .. l : var_list'[i] = var_list[i]
  BY <1>1, <1>4, <1>5, AppendProperties
<1>7. \A f \in 1 .. 3 : f = 1 \/ f = 2 \/ f = 3
  OBVIOUS
<1>8. {BlockOf(v, f) : f \in 1 .. 3} = {b1, b2, b3}
  BY <1>5, <1>7
<1>9. Owns(var_list', 2, l + 1, heap \cup {BlockOf(v, f) : f \in 1 .. 3})
  <2>1. \A f \in 1 .. 3 : BlockOf(v, f) \notin heap
    BY <1>3, <1>5, <1>7
  <2>2. \A f, g \in 1 .. 3 : BlockOf(v, f) = BlockOf(v, g) => f = g
    BY <1>3, <1>5, <1>7
  <2>3. 2 \in Nat /\ 2 <= l + 1 /\ \A i \in 2 .. l : var_list'[i] = var_list[i]
    BY <1>1, <1>6
  <2>4. l \in Nat /\ Owns(var_list, 2, l, heap) /\ v = var_list'[l + 1]
    BY <1>1, <1>6
  <2> HIDE DEF l
  <2>. QED BY <2>1, <2>2, <2>3, <2>4, OwnsAtEnd
<1>10. heap' = heap \cup {BlockOf(v, f) : f \in 1 .. 3}
  BY <1>4, <1>8
<1>11. ASSUME NEW i \in 2 .. l + 1
       PROVE  /\ var_list'[i].shouldFree
              /\ var_list'[i].value # NoPath
              /\ home = NoPath => var_list'[i].value # Plain("~")
  <2>1. CASE i = l + 1
    BY <1>5, <1>6, <2>1 DEF AnyWord, NoPath
  <2>2. CASE i # l + 1
    <3>1. i \in 2 .. l /\ i \in 1 .. l
      BY <1>1, <2>2
    <3>. QED BY <1>6, <3>1 DEF WarmupList
  <2>. QED BY <2>1, <2>2
<1>12. var_list'[1] = var_list[1] /\ 1 <= l + 1 /\ l + 1 <= MaxVars + 1
  BY <1>1, <1>6
<1>13. /\ var_list[1].expand_name = Plain("~") /\ var_list[1].value = home
       /\ var_list[1].at = Warmup!NotAllocated /\ ~var_list[1].shouldFree
  BY DEF WarmupList
<1>. QED BY <1>6, <1>9, <1>10, <1>11, <1>12, <1>13 DEF WarmupList

LEMMA WarmupExact ==
  ASSUME WarmupList(var_list, heap, home)
  PROVE  Warmup!HeapExact /\ heap \ Warmup!Freed = {}
<1> DEFINE l == Len(var_list)
           own == {v \in ToSet(var_list) : v.shouldFree}
           F == [i \in 2 .. l |-> var_list[i]]
           blocks(v) == {v.at.name, v.at.value, v.at.link}
<1>1. /\ l \in Nat /\ l >= 1 /\ DOMAIN var_list = 1 .. l
      /\ Owns(var_list, 2, l, heap)
      /\ Cardinality(heap) = 3 * (l - 1)
  BY WarmupBlocks DEF WarmupList
<1>2. \A i \in 2 .. l : var_list[i] \in own
  <2> TAKE i \in 2 .. l
  <2>1. i \in 1 .. l /\ var_list[i].shouldFree
    BY <1>1 DEF WarmupList
  <2>. QED BY <1>1, <2>1 DEF ToSet
<1>3. \A v \in ToSet(var_list) : v = var_list[1] \/ \E i \in 2 .. l : v = var_list[i]
  <2> TAKE v \in ToSet(var_list)
  <2>1. PICK i \in 1 .. l : v = var_list[i]
    BY <1>1 DEF ToSet
  <2>2. i = 1 \/ i \in 2 .. l
    BY <1>1
  <2>. QED BY <2>1, <2>2
<1>4. var_list[1] \notin own
  BY DEF WarmupList
<1>5. \A v \in own : \E i \in 2 .. l : v = var_list[i]
  BY <1>3, <1>4
<1>6. ASSUME NEW b \in heap
      PROVE  b \in UNION {blocks(v) : v \in own}
  <2>1. PICK i \in 2 .. l, f \in 1 .. 3 : b = BlockOf(var_list[i], f)
    BY <1>1 DEF Owns
  <2>2. b \in blocks(var_list[i])
    BY <2>1 DEF BlockOf
  <2> HIDE DEF blocks, own
  <2>. QED BY <1>2, <2>2
<1>7. ASSUME NEW v \in own, NEW b \in blocks(v)
      PROVE  b \in heap
  <2>1. PICK i \in 2 .. l : v = var_list[i]
    BY <1>5
  <2>2. BlockOf(v, 1) \in heap /\ BlockOf(v, 2) \in heap /\ BlockOf(v, 3) \in heap
    <3>1. 1 \in 1 .. 3 /\ 2 \in 1 .. 3 /\ 3 \in 1 .. 3
      OBVIOUS
    <3>. QED BY <1>1, <2>1, <3>1 DEF Owns
  <2>. QED BY <2>2 DEF BlockOf
<1>8. heap = UNION {blocks(v) : v \in own}
  <2> HIDE DEF blocks, own
  <2>. QED BY <1>6, <1>7
<1>9. Cardinality(own) = l - 1
  <2>1. IsFiniteSet(2 .. l) /\ Cardinality(2 .. l) = l - 1
    <3>1. 2 \in Int /\ l \in Int
      BY <1>1
    <3>2. IsFiniteSet(2 .. l) /\ Cardinality(2 .. l) = IF 2 > l THEN 0 ELSE l - 2 + 1
      BY <3>1, FS_Interval
    <3>. QED BY <1>1, <3>2
  <2> HIDE DEF own
  <2>2. F \in [2 .. l -> own] /\ \A v \in own : \E i \in 2 .. l : F[i] = v
    BY <1>2, <1>5
  <2>3. ASSUME NEW i \in 2 .. l, NEW j \in 2 .. l, F[i] = F[j]
        PROVE  i = j
    <3>1. BlockOf(var_list[i], 1) = BlockOf(var_list[j], 1) /\ 1 \in 1 .. 3
      BY <2>3
    <3>. QED BY <1>1, <3>1 DEF Owns
  <2> HIDE DEF F
  <2>4. F \in Bijection(2 .. l, own)
    BY <2>2, <2>3 DEF Bijection, Injection, Surjection, IsInjective
  <2>5. ExistsBijection(2 .. l, own)
    BY <2>4 DEF ExistsBijection
  <2>. QED BY <2>1, <2>5, FS_Bijection
<1>10. \A v \in ToSet(var_list) \ own : v.at = Warmup!NotAllocated /\ v.value = home
  BY <1>2, <1>3 DEF WarmupList
<1>11. Warmup!Freed = UNION {blocks(v) : v \in own}
  BY DEF Warmup!Freed, Warmup!ToSet, ToSet
<1>12. Cardinality(heap) = 3 * Cardinality(own)
  BY <1>1, <1>9
<1>13. Warmup!ToSet(var_list) = ToSet(var_list)
  BY DEF Warmup!ToSet, ToSet
<1>14. Warmup!HeapExact
  BY <1>8, <1>10, <1>12, <1>13, SameCardinality DEF Warmup!HeapExact
<1>. QED BY <1>8, <1>11, <1>14

-----------------------------------------------------------------------------
(* The front ends have the parser in common.                               *)

LEMMA SameWords ==
  /\ \A text : Actual!Plain(text) = Plain(text) /\ Warmup!Plain(text) = Plain(text)
  /\ \A word : Actual!Dollar(word) = Dollar(word) /\ Warmup!Dollar(word) = Dollar(word)
  /\ \A word : Actual!Undollar(word) = Undollar(word) /\ Warmup!Undollar(word) = Undollar(word)
  /\ Actual!NoPath = NoPath /\ Warmup!NoPath = NoPath
BY DEF Plain, Dollar, Undollar, NoPath,
   Actual!Plain, Actual!Dollar, Actual!Undollar, Actual!NoPath,
   Warmup!Plain, Warmup!Dollar, Warmup!Undollar, Warmup!NoPath

LEMMA SameFlatten == \A ws : Warmup!FlattenSeq(ws) = FlattenSeq(ws)
BY DEF FlattenSeq, Warmup!FlattenSeq

LEMMA SameReplaced ==
  \A c, words : Actual!Replaced(c, words) = Replaced(c, words)
BY DEF Replaced, Actual!Replaced

ActualEmpty(parts) == Actual!SelectInSeq(parts, LAMBDA part : part = <<>>)
ActualAmpersand(line) == Actual!SelectInSeq(line, LAMBDA t : t = Actual!Ampersand)

LEMMA ActualParts == \A line : Actual!Parts(line) = Parts(line)
BY Zenon DEF
  Max, Actual!Max, Parts, Actual!Parts, FoldLeft, Actual!FoldLeft,
  MapThenFoldSet, Actual!MapThenFoldSet, Bar, Actual!Bar, Plain,
  Actual!Plain

LEMMA ActualCommand == \A s : Actual!parseSingleCmdLine(s) = parseSingleCmdLine(s)
BY Zenon DEF
  parseSingleCmdLine, Actual!parseSingleCmdLine, extractRedirections,
  Actual!extractRedirections, cloneFirstWord, Actual!cloneFirstWord,
  Before, Actual!Before, SelectInSeq, Actual!SelectInSeq,
  SelectLastInSeq, Actual!SelectLastInSeq, Max, Actual!Max, Min,
  Actual!Min, Less, Actual!Less, Greater, Actual!Greater, NoPath,
  Actual!NoPath, Plain, Actual!Plain

LEMMA ActualSearches ==
  /\ \A s : ActualEmpty(s) = EmptyOf(s)
  /\ \A s : ActualAmpersand(s) = AmpersandOf(s)
  /\ \A s, i : Actual!Before(s, i) = Before(s, i)
<1>1. \A s : ActualEmpty(s) = EmptyOf(s)
  BY Zenon DEF EmptyOf, ActualEmpty, SelectInSeq, Actual!SelectInSeq, Min, Actual!Min
<1>2. \A s : ActualAmpersand(s) = AmpersandOf(s)
  BY Zenon DEF AmpersandOf, ActualAmpersand,
    SelectInSeq, Actual!SelectInSeq, Min, Actual!Min, Ampersand,
  Actual!Ampersand, Plain, Actual!Plain
<1>3. \A s, i : Actual!Before(s, i) = Before(s, i)
  BY DEF Before, Actual!Before
<1>. QED BY <1>1, <1>2, <1>3

LEMMA ActualChain == \A line : Actual!Chain(line) = Chain(line)
<1> TAKE line
<1> DEFINE full == Before(Parts(line), EmptyOf(Parts(line)))
<1>1. Chain(line) = [k \in DOMAIN full |-> parseSingleCmdLine(full[k])]
  BY Zenon DEF Chain, EmptyOf
<1>2. Actual!Chain(line) =
        LET f == Actual!Before(Actual!Parts(line), ActualEmpty(Actual!Parts(line)))
        IN [k \in DOMAIN f |-> Actual!parseSingleCmdLine(f[k])]
  BY Zenon DEF Actual!Chain, ActualEmpty
<1>3. Actual!Before(Actual!Parts(line), ActualEmpty(Actual!Parts(line))) = full
  BY ActualParts, ActualSearches
<1>4. Actual!Chain(line) = [k \in DOMAIN full |-> Actual!parseSingleCmdLine(full[k])]
  BY <1>2, <1>3, Zenon
<1> HIDE DEF full
<1>5. [k \in DOMAIN full |-> Actual!parseSingleCmdLine(full[k])] =
        [k \in DOMAIN full |-> parseSingleCmdLine(full[k])]
  BY ActualCommand
<1>. QED BY <1>1, <1>4, <1>5

LEMMA ActualParses == \A line : Actual!parseCmdLines(line) = parseCmdLines(line)
<1> TAKE line
<1> DEFINE a == AmpersandOf(line)
           c == Chain(Before(line, a))
<1>1. parseCmdLines(line) =
        [k \in DOMAIN c |-> [c[k] EXCEPT !.blocking = k = Len(c) /\ a = 0]]
  BY Zenon DEF parseCmdLines, AmpersandOf
<1>2. Actual!parseCmdLines(line) =
        LET b == ActualAmpersand(line)
            d == Actual!Chain(Actual!Before(line, b))
        IN [k \in DOMAIN d |-> [d[k] EXCEPT !.blocking = k = Len(d) /\ b = 0]]
  BY Zenon DEF Actual!parseCmdLines, ActualAmpersand
<1>3. ActualAmpersand(line) = a /\ Actual!Chain(Actual!Before(line, a)) = c
  BY ActualSearches, ActualChain
<1> HIDE DEF a, c
<1>4. Actual!parseCmdLines(line) =
        [k \in DOMAIN c |-> [c[k] EXCEPT !.blocking = k = Len(c) /\ a = 0]]
  BY <1>2, <1>3
<1>. QED BY <1>1, <1>4

LEMMA ActualSymbols ==
  /\ Actual!Less = Less /\ Actual!Greater = Greater
  /\ Actual!NoPath = NoPath /\ Actual!Symbol = Symbol
BY DEF
  Plain, Actual!Plain, Less, Actual!Less, Greater, Actual!Greater,
  NoPath, Actual!NoPath, Symbol, Actual!Symbol, Bar, Actual!Bar,
  Ampersand, Actual!Ampersand

LEMMA ActualPlaces ==
  /\ \A line, k : Actual!PositionsOf(line, k) = PositionsOf(line, k)
  /\ \A line : Actual!CommandCount(line) = CommandCount(line) /\ Actual!End(line) = End(line)
<1>1. \A line, k : Actual!PositionsOf(line, k) = PositionsOf(line, k)
  BY Zenon DEF
    PositionsOf, Actual!PositionsOf, End, Actual!End, CommandAt,
  Actual!CommandAt, Bar, Actual!Bar, Ampersand, Actual!Ampersand,
  Plain, Actual!Plain, Min, Actual!Min, Cardinality,
  Actual!Cardinality
<1>2. \A line : Actual!CommandCount(line) = CommandCount(line) /\ Actual!End(line) = End(line)
  BY Zenon DEF
    CommandCount, Actual!CommandCount, PositionsOf, Actual!PositionsOf,
  End, Actual!End, CommandAt, Actual!CommandAt, Bar, Actual!Bar,
  Ampersand, Actual!Ampersand, Plain, Actual!Plain, Min, Actual!Min,
  Cardinality, Actual!Cardinality
<1>. QED BY <1>1, <1>2

LEMMA ActualArguments == \A line, k : Actual!ArgumentsAt(line, k) = ArgumentsAt(line, k)
BY ActualPlaces, ActualSymbols, Zenon DEF ArgumentsAt, Actual!ArgumentsAt

LEMMA ActualPaths ==
  \A line, k, symbol : Actual!PathOf(line, k, symbol) = PathOf(line, k, symbol)
<1> TAKE line, k, symbol
<1> DEFINE pos == PositionsOf(line, k)
           at == {i \in pos : line[i] = symbol}
<1>1. \A S : Actual!Max(S) = Max(S)
  BY DEF Max, Actual!Max
<1>2. Actual!PathOf(line, k, symbol) =
        IF at = {} THEN NoPath
        ELSE IF Actual!Max(at) + 1 \in pos /\ line[Actual!Max(at) + 1] \notin Symbol
             THEN line[Actual!Max(at) + 1] ELSE NoPath
  BY ActualPlaces, ActualSymbols DEF Actual!PathOf
<1>. QED BY <1>1, <1>2 DEF PathOf

LEMMA ActualReads ==
  ASSUME NEW line, NEW s, SaysWhatTheLineSays(line, s)
  PROVE  Actual!SaysWhatTheLineSays(line, s)
<1>1. Len(s) = Actual!CommandCount(line)
  BY ActualPlaces DEF SaysWhatTheLineSays
<1>2. ASSUME NEW k \in DOMAIN s
      PROVE  LET at == Actual!ArgumentsAt(line, k)
                 args == s[k].arguments
                 n == Actual!Cardinality(at)
             IN
             /\ Len(args) = IF n < MAX_ARGUMENTS THEN n ELSE MAX_ARGUMENTS - 1
             /\ \A i \in at : LET m == Actual!Cardinality({j \in at : j <= i})
                              IN m <= Len(args) => args[m] = line[i]
             /\ s[k].inputRedirect = Actual!PathOf(line, k, Actual!Less)
             /\ s[k].outputRedirect = Actual!PathOf(line, k, Actual!Greater)
             /\ s[k].blocking <=> k = Len(s) /\ Actual!End(line) > Len(line)
  <2>1. Actual!End(line) = End(line)
    BY ActualPlaces
  <2>2. Actual!ArgumentsAt(line, k) = ArgumentsAt(line, k)
    BY ActualArguments
  <2>3. /\ Actual!PathOf(line, k, Actual!Less) = PathOf(line, k, Less)
        /\ Actual!PathOf(line, k, Actual!Greater) = PathOf(line, k, Greater)
    BY ActualPaths, ActualSymbols
  <2>4. \A S : Actual!Cardinality(S) = Cardinality(S)
    BY SameCardinality
  <2>. QED BY <2>1, <2>2, <2>3, <2>4 DEF SaysWhatTheLineSays
<1>. QED BY <1>1, <1>2, Zenon DEF Actual!SaysWhatTheLineSays

WarmupEmpty(parts) == Warmup!SelectInSeq(parts, LAMBDA part : part = <<>>)
WarmupAmpersand(line) == Warmup!SelectInSeq(line, LAMBDA t : t = Warmup!Ampersand)

LEMMA WarmupParts == \A line : Warmup!Parts(line) = Parts(line)
BY Zenon DEF
  Max, Warmup!Max, Parts, Warmup!Parts, FoldLeft, Warmup!FoldLeft,
  MapThenFoldSet, Warmup!MapThenFoldSet, Bar, Warmup!Bar, Plain,
  Warmup!Plain

LEMMA WarmupCommand == \A s : Warmup!parseSingleCmdLine(s) = parseSingleCmdLine(s)
BY Zenon DEF
  parseSingleCmdLine, Warmup!parseSingleCmdLine, extractRedirections,
  Warmup!extractRedirections, cloneFirstWord, Warmup!cloneFirstWord,
  Before, Warmup!Before, SelectInSeq, Warmup!SelectInSeq,
  SelectLastInSeq, Warmup!SelectLastInSeq, Max, Warmup!Max, Min,
  Warmup!Min, Less, Warmup!Less, Greater, Warmup!Greater, NoPath,
  Warmup!NoPath, Plain, Warmup!Plain

LEMMA WarmupSearches ==
  /\ \A s : WarmupEmpty(s) = EmptyOf(s)
  /\ \A s : WarmupAmpersand(s) = AmpersandOf(s)
  /\ \A s, i : Warmup!Before(s, i) = Before(s, i)
<1>1. \A s : WarmupEmpty(s) = EmptyOf(s)
  BY Zenon DEF EmptyOf, WarmupEmpty, SelectInSeq, Warmup!SelectInSeq, Min, Warmup!Min
<1>2. \A s : WarmupAmpersand(s) = AmpersandOf(s)
  BY Zenon DEF AmpersandOf, WarmupAmpersand,
    SelectInSeq, Warmup!SelectInSeq, Min, Warmup!Min, Ampersand,
  Warmup!Ampersand, Plain, Warmup!Plain
<1>3. \A s, i : Warmup!Before(s, i) = Before(s, i)
  BY DEF Before, Warmup!Before
<1>. QED BY <1>1, <1>2, <1>3

LEMMA WarmupChain == \A line : Warmup!Chain(line) = Chain(line)
<1> TAKE line
<1> DEFINE full == Before(Parts(line), EmptyOf(Parts(line)))
<1>1. Chain(line) = [k \in DOMAIN full |-> parseSingleCmdLine(full[k])]
  BY Zenon DEF Chain, EmptyOf
<1>2. Warmup!Chain(line) =
        LET f == Warmup!Before(Warmup!Parts(line), WarmupEmpty(Warmup!Parts(line)))
        IN [k \in DOMAIN f |-> Warmup!parseSingleCmdLine(f[k])]
  BY Zenon DEF Warmup!Chain, WarmupEmpty
<1>3. Warmup!Before(Warmup!Parts(line), WarmupEmpty(Warmup!Parts(line))) = full
  BY WarmupParts, WarmupSearches
<1>4. Warmup!Chain(line) = [k \in DOMAIN full |-> Warmup!parseSingleCmdLine(full[k])]
  BY <1>2, <1>3, Zenon
<1> HIDE DEF full
<1>5. [k \in DOMAIN full |-> Warmup!parseSingleCmdLine(full[k])] =
        [k \in DOMAIN full |-> parseSingleCmdLine(full[k])]
  BY WarmupCommand
<1>. QED BY <1>1, <1>4, <1>5

LEMMA WarmupParses == \A line : Warmup!parseCmdLines(line) = parseCmdLines(line)
<1> TAKE line
<1> DEFINE a == AmpersandOf(line)
           c == Chain(Before(line, a))
<1>1. parseCmdLines(line) =
        [k \in DOMAIN c |-> [c[k] EXCEPT !.blocking = k = Len(c) /\ a = 0]]
  BY Zenon DEF parseCmdLines, AmpersandOf
<1>2. Warmup!parseCmdLines(line) =
        LET b == WarmupAmpersand(line)
            d == Warmup!Chain(Warmup!Before(line, b))
        IN [k \in DOMAIN d |-> [d[k] EXCEPT !.blocking = k = Len(d) /\ b = 0]]
  BY Zenon DEF Warmup!parseCmdLines, WarmupAmpersand
<1>3. WarmupAmpersand(line) = a /\ Warmup!Chain(Warmup!Before(line, a)) = c
  BY WarmupSearches, WarmupChain
<1> HIDE DEF a, c
<1>4. Warmup!parseCmdLines(line) =
        [k \in DOMAIN c |-> [c[k] EXCEPT !.blocking = k = Len(c) /\ a = 0]]
  BY <1>2, <1>3
<1>. QED BY <1>1, <1>4

LEMMA WarmupSymbols ==
  /\ Warmup!Less = Less /\ Warmup!Greater = Greater
  /\ Warmup!NoPath = NoPath /\ Warmup!Symbol = Symbol
BY DEF
  Plain, Warmup!Plain, Less, Warmup!Less, Greater, Warmup!Greater,
  NoPath, Warmup!NoPath, Symbol, Warmup!Symbol, Bar, Warmup!Bar,
  Ampersand, Warmup!Ampersand

LEMMA WarmupPlaces ==
  /\ \A line, k : Warmup!PositionsOf(line, k) = PositionsOf(line, k)
  /\ \A line : Warmup!CommandCount(line) = CommandCount(line) /\ Warmup!End(line) = End(line)
<1>1. \A line, k : Warmup!PositionsOf(line, k) = PositionsOf(line, k)
  BY Zenon DEF
    PositionsOf, Warmup!PositionsOf, End, Warmup!End, CommandAt,
  Warmup!CommandAt, Bar, Warmup!Bar, Ampersand, Warmup!Ampersand,
  Plain, Warmup!Plain, Min, Warmup!Min, Cardinality,
  Warmup!Cardinality
<1>2. \A line : Warmup!CommandCount(line) = CommandCount(line) /\ Warmup!End(line) = End(line)
  BY Zenon DEF
    CommandCount, Warmup!CommandCount, PositionsOf, Warmup!PositionsOf,
  End, Warmup!End, CommandAt, Warmup!CommandAt, Bar, Warmup!Bar,
  Ampersand, Warmup!Ampersand, Plain, Warmup!Plain, Min, Warmup!Min,
  Cardinality, Warmup!Cardinality
<1>. QED BY <1>1, <1>2

LEMMA WarmupArguments == \A line, k : Warmup!ArgumentsAt(line, k) = ArgumentsAt(line, k)
BY WarmupPlaces, WarmupSymbols, Zenon DEF ArgumentsAt, Warmup!ArgumentsAt

LEMMA WarmupPaths ==
  \A line, k, symbol : Warmup!PathOf(line, k, symbol) = PathOf(line, k, symbol)
<1> TAKE line, k, symbol
<1> DEFINE pos == PositionsOf(line, k)
           at == {i \in pos : line[i] = symbol}
<1>1. \A S : Warmup!Max(S) = Max(S)
  BY DEF Max, Warmup!Max
<1>2. Warmup!PathOf(line, k, symbol) =
        IF at = {} THEN NoPath
        ELSE IF Warmup!Max(at) + 1 \in pos /\ line[Warmup!Max(at) + 1] \notin Symbol
             THEN line[Warmup!Max(at) + 1] ELSE NoPath
  BY WarmupPlaces, WarmupSymbols DEF Warmup!PathOf
<1>. QED BY <1>1, <1>2 DEF PathOf

LEMMA WarmupReads ==
  ASSUME NEW line, NEW s, SaysWhatTheLineSays(line, s)
  PROVE  Warmup!SaysWhatTheLineSays(line, s)
<1>1. Len(s) = Warmup!CommandCount(line)
  BY WarmupPlaces DEF SaysWhatTheLineSays
<1>2. ASSUME NEW k \in DOMAIN s
      PROVE  LET at == Warmup!ArgumentsAt(line, k)
                 args == s[k].arguments
                 n == Warmup!Cardinality(at)
             IN
             /\ Len(args) = IF n < MAX_ARGUMENTS THEN n ELSE MAX_ARGUMENTS - 1
             /\ \A i \in at : LET m == Warmup!Cardinality({j \in at : j <= i})
                              IN m <= Len(args) => args[m] = line[i]
             /\ s[k].inputRedirect = Warmup!PathOf(line, k, Warmup!Less)
             /\ s[k].outputRedirect = Warmup!PathOf(line, k, Warmup!Greater)
             /\ s[k].blocking <=> k = Len(s) /\ Warmup!End(line) > Len(line)
  <2>1. Warmup!End(line) = End(line)
    BY WarmupPlaces
  <2>2. Warmup!ArgumentsAt(line, k) = ArgumentsAt(line, k)
    BY WarmupArguments
  <2>3. /\ Warmup!PathOf(line, k, Warmup!Less) = PathOf(line, k, Less)
        /\ Warmup!PathOf(line, k, Warmup!Greater) = PathOf(line, k, Greater)
    BY WarmupPaths, WarmupSymbols
  <2>4. \A S : Warmup!Cardinality(S) = Cardinality(S)
    BY SameCardinality
  <2>. QED BY <2>1, <2>2, <2>3, <2>4 DEF SaysWhatTheLineSays
<1>. QED BY <1>1, <1>2, Zenon DEF Warmup!SaysWhatTheLineSays

-----------------------------------------------------------------------------
(* The inductive invariant.                                                *)

Versions == {"actual", "task1", "task2", "warmup", "warmup2"}

(* What is left of the list, in either version.                            *)
ListRight ==
  IF OfActual THEN ActualList(var_list, heap)
  ELSE IF pc = "exited" THEN var_list = <<>> /\ heap = {}
       ELSE WarmupList(var_list, heap, home)

(* The line is in the hands of the loop.                                   *)
AtLine == pc \in {"expand", "handle"}

(* Without a HOME no ~ is left in the words that were replaced.            *)
NoTilde ==
  ~OfActual /\ home = NoPath /\ (pc = "handle" \/ (pc = "expand" /\ pass # 0)) =>
    \A i \in DOMAIN chain[1].arguments : i > 1 => chain[1].arguments[i] # Plain("~")

FrontInv ==
  /\ version \in Versions
  /\ pass \in Nat
  /\ typed \in Seq(AnyWord)
  /\ chain \in Seq(Command)
  /\ AtLine => 1 \in DOMAIN chain
  /\ home \in {NoPath, Plain("h")}
  /\ ListRight
  /\ pc = "expand" /\ (OfActual \/ pass = 0) => chain = parseCmdLines(typed)
  /\ NoTilde
  /\ DiesOnlyOfRedirections

(* The steps, as far as the invariant is concerned. *)
Reading(line) ==
  /\ parseCmdLines(line) # <<>>
  /\ typed' = line /\ chain' = parseCmdLines(line)
  /\ pc \notin {"exited", "crashed"}
  /\ \/ chain'[1].arguments = <<>> /\ pc' = "crashed"
     \/ pc' = "expand" /\ (OfActual \/ pass' = 0)
     \/ pc' = "handle" /\ OfActual
  /\ pass' \in Nat
  /\ UNCHANGED <<version, var_list, heap, home>>

Ending ==
  /\ pc' = "exited"
  /\ var_list' = <<>> /\ heap' = {}
  /\ UNCHANGED <<typed, chain>> \/ (typed' = <<>> /\ chain' = <<>>)
  /\ pass' \in Nat
  /\ UNCHANGED <<version, home>>

Quiet ==
  /\ pc # "exited" /\ pc' \in {"free", "freeandquit", "prompt"}
  /\ UNCHANGED <<typed, chain>> \/ (typed' = <<>> /\ chain' = <<>>)
  /\ pass' \in Nat
  /\ UNCHANGED <<version, var_list, heap, home>>

Setting ==
  /\ pc = "handle" /\ pc' = "free"
  /\ IF OfActual THEN Actual!SetVar ELSE Warmup!SetVar
  /\ UNCHANGED <<version, pass, typed, chain, home>>

Expanding ==
  /\ pc = "expand" /\ OfActual
  /\ pc' = "handle"
  /\ chain' = Replaced(chain, Actual!ExpandedWords)
  /\ UNCHANGED <<version, pass, typed, var_list, heap, home>>

(* One call of expand_variables. *)
Found(i) == i > 1 /\ Warmup!address_of_var(chain[1].arguments[i]) # 0
ValueAt(i) == var_list[Warmup!address_of_var(chain[1].arguments[i])].value

Expanding1 ==
  /\ pc = "expand" /\ ~OfActual
  /\ IF \E i \in DOMAIN chain[1].arguments : Found(i) /\ ValueAt(i) = NoPath
     THEN pc' = "crashed" /\ UNCHANGED chain
     ELSE /\ pc' = "handle" \/ (pc' = "expand" /\ pass' # 0)
          /\ chain' = [chain EXCEPT ![1].arguments =
                         [i \in DOMAIN chain[1].arguments |->
                            IF Found(i) THEN ValueAt(i) ELSE chain[1].arguments[i]]]
  /\ pass' \in Nat
  /\ UNCHANGED <<version, typed, var_list, heap, home>>

LEMMA ActualCleared ==
  ASSUME FrontInv, OfActual
  PROVE  heap \ UNION {{v.at.name, v.at.value, v.at.link} : v \in Actual!ToSet(var_list)} = {}
<1>1. heap \ UNION {Actual!BlocksOf(v) : v \in ToSet(var_list)} = {}
  BY ActualExact DEF FrontInv, ListRight
<1>2. Actual!ToSet(var_list) = ToSet(var_list)
  BY DEF Actual!ToSet, ToSet
<1>. QED BY <1>1, <1>2 DEF Actual!BlocksOf

LEMMA WarmupCleared ==
  ASSUME FrontInv, ~OfActual, pc # "exited"
  PROVE  heap \ Warmup!Freed = {}
BY WarmupExact DEF FrontInv, ListRight

LEMMA ActualMoves ==
  ASSUME FrontInv, version = "actual", Actual!FrontNext, UNCHANGED <<version, pass>>
  PROVE  \/ \E line \in Typed : Reading(line)
         \/ Ending \/ Quiet \/ Setting \/ Expanding
<1> USE DEF OfActual
<1>. pass \in Nat /\ OfActual
  BY DEF FrontInv
<1>1. ASSUME NEW line \in Typed, Actual!ReadLine(line) PROVE Reading(line)
  BY <1>1, ActualParses DEF Actual!ReadLine, Reading
<1>2. CASE Actual!EndOfInput
  BY <1>2, ActualCleared DEF Actual!EndOfInput, Ending
<1>3. CASE Actual!Expand
  BY <1>3, SameReplaced DEF Actual!Expand, Expanding
<1>4. CASE Actual!SetVar
  BY <1>4 DEF Actual!SetVar, Actual!Handles, Setting
<1>5. CASE Actual!ChangeDirectory \/ Actual!PrintVars \/ Actual!Execute
  BY <1>5 DEF Actual!ChangeDirectory, Actual!PrintVars, Actual!Execute, Actual!Handles, Quiet
<1>6. CASE Actual!FreeCmdLines
  BY <1>6, ActualCleared DEF Actual!FreeCmdLines, Quiet, Ending
<1>. QED BY <1>1, <1>2, <1>3, <1>4, <1>5, <1>6 DEF Actual!FrontNext

LEMMA Task1Moves ==
  ASSUME FrontInv, version = "task1", Task1, UNCHANGED <<version, pass>>
  PROVE  (\E line \in Typed : Reading(line)) \/ Ending \/ Quiet
<1> USE DEF OfActual
<1>. pass \in Nat /\ OfActual
  BY DEF FrontInv
<1>1. ASSUME NEW line \in Typed, Task1Read(line) PROVE Reading(line)
  BY <1>1 DEF Task1Read, Reading
<1>2. CASE Actual!EndOfInput
  BY <1>2, ActualCleared DEF Actual!EndOfInput, Ending
<1>3. CASE Task1Handle
  BY <1>3 DEF Task1Handle, Actual!ChangeDirectory, Task1Execute, Actual!Handles, Quiet
<1>4. CASE Actual!FreeCmdLines
  BY <1>4, ActualCleared DEF Actual!FreeCmdLines, Quiet, Ending
<1>. QED BY <1>1, <1>2, <1>3, <1>4 DEF Task1

LEMMA Task2Moves ==
  ASSUME FrontInv, version = "task2", Task2, UNCHANGED <<version, pass>>
  PROVE  \/ \E line \in Typed : Reading(line)
         \/ Ending \/ Quiet \/ Setting \/ Expanding
<1> USE DEF OfActual
<1>. pass \in Nat /\ OfActual
  BY DEF FrontInv
<1>1. ASSUME NEW line \in Typed, Actual!ReadLine(line) PROVE Reading(line)
  BY <1>1, ActualParses DEF Actual!ReadLine, Reading
<1>2. CASE Task2Expand
  BY <1>2, SameReplaced DEF Task2Expand, Actual!Expand, Expanding
<1>3. CASE Task2SetVar
  BY <1>3 DEF Task2SetVar, Actual!SetVar, Actual!Handles, Setting
<1>4. CASE Actual!ChangeDirectory \/ Actual!PrintVars \/ Task2Execute
  BY <1>4 DEF Actual!ChangeDirectory, Actual!PrintVars, Task2Execute, Actual!Handles, Quiet
<1>5. CASE Task2Free
  BY <1>5, ActualCleared
     DEF Task2Free, Actual!EndOfInput, Actual!FreeCmdLines, Quiet, Ending
<1>. QED BY <1>1, <1>2, <1>3, <1>4, <1>5 DEF Task2, Task2Builtins

LEMMA WarmupReads2 ==
  ASSUME ~OfActual, NEW line, Warmup!ReadLine(line), UNCHANGED version
  PROVE  Reading(line)
BY WarmupParses DEF Warmup!ReadLine, Reading

LEMMA WarmupMoves ==
  ASSUME FrontInv, version = "warmup", Warmup!FrontNext, UNCHANGED version
  PROVE  \/ \E line \in Typed : Reading(line)
         \/ Ending \/ Quiet \/ Setting \/ Expanding1
<1>. pass \in Nat /\ ~OfActual
  BY DEF FrontInv, OfActual
<1>1. ASSUME NEW line \in Typed, Warmup!ReadLine(line) PROVE Reading(line)
  BY <1>1, WarmupReads2
<1>2. CASE Warmup!EndOfInput
  BY <1>2, WarmupCleared DEF Warmup!EndOfInput, Ending
<1>3. CASE Warmup!ExpandVariables
  BY <1>3, SameWords DEF Warmup!ExpandVariables, Expanding1, Found, ValueAt
<1>4. CASE Warmup!SetVar
  BY <1>4 DEF Warmup!SetVar, Warmup!Handles, Setting
<1>5. CASE \/ Warmup!SetTooFew \/ Warmup!ChangeDirectory \/ Warmup!PrintVars
           \/ Warmup!Execute \/ Warmup!QuitCommand
  BY <1>5 DEF Warmup!SetTooFew, Warmup!ChangeDirectory, Warmup!PrintVars,
     Warmup!Execute, Warmup!QuitCommand, Warmup!Handles, Quiet
<1>6. CASE Warmup!FreeCmdLines
  BY <1>6, WarmupCleared DEF Warmup!FreeCmdLines, Quiet, Ending
<1>. QED BY <1>1, <1>2, <1>3, <1>4, <1>5, <1>6 DEF Warmup!FrontNext

LEMMA Warmup2Moves ==
  ASSUME FrontInv, version = "warmup2", Warmup2, UNCHANGED version
  PROVE  \/ \E line \in Typed : Reading(line)
         \/ Ending \/ Quiet \/ Setting \/ Expanding1
<1>. pass \in Nat /\ ~OfActual
  BY DEF FrontInv, OfActual
<1>1. ASSUME NEW line \in Typed, Warmup!ReadLine(line) PROVE Reading(line)
  BY <1>1, WarmupReads2
<1>2. CASE Warmup2Expand
  BY <1>2, SameWords DEF Warmup2Expand, Expanding1, Found, ValueAt
<1>3. CASE Warmup!SetVar
  BY <1>3 DEF Warmup!SetVar, Warmup!Handles, Setting
<1>4. CASE \/ (Warmup!SetTooFew /\ pc' = "free") \/ Warmup!ChangeDirectory
           \/ Warmup!PrintVars \/ Warmup!QuitCommand \/ Warmup2Execute
  BY <1>4 DEF Warmup!SetTooFew, Warmup!ChangeDirectory, Warmup!PrintVars,
     Warmup!QuitCommand, Warmup2Execute, Warmup!Handles, Quiet
<1>5. CASE Warmup!EndOfInput
  BY <1>5, WarmupCleared DEF Warmup!EndOfInput, Ending
<1>6. CASE Warmup!FreeCmdLines
  BY <1>6, WarmupCleared DEF Warmup!FreeCmdLines, Quiet, Ending
<1>. QED BY <1>1, <1>2, <1>3, <1>4, <1>5, <1>6
     DEF Warmup2, Warmup2SetVar, Warmup2Builtins, Warmup2Free

(* Words. *)
LEMMA WordFacts ==
  ASSUME NEW w \in AnyWord
  PROVE  /\ w # NoPath /\ 1 \in DOMAIN w
         /\ w[1] = <<w[1][1], w[1][2]>> /\ w[1][1] \in Nat /\ w[1][2] \in Text
<1>1. w \in Seq(Nat \X Text) /\ w # <<>>
  BY DEF AnyWord
<1>2. Len(w) \in Nat \ {0} /\ DOMAIN w = 1 .. Len(w)
  BY <1>1, EmptySeq, LenProperties
<1>3. w[1] \in Nat \X Text
  BY <1>1, <1>2, ElementOfSeq
<1>. QED BY <1>1, <1>2, <1>3 DEF NoPath

LEMMA PlainWords ==
  Plain("h") \in AnyWord /\ Plain("~") \in AnyWord
<1>1. <<0, "h">> \in Nat \X Text /\ <<0, "~">> \in Nat \X Text
  BY DEF Text
<1>2. ASSUME NEW a \in Nat \X Text
      PROVE  <<a>> \in Seq(Nat \X Text) \ {<<>>}
  OBVIOUS
<1>. QED BY <1>1, <1>2 DEF Plain, AnyWord

LEMMA DollarWord ==
  ASSUME NEW w \in AnyWord
  PROVE  Dollar(w) \in AnyWord /\ Dollar(w) # Plain("~")
<1> DEFINE a == <<w[1][1] + 1, w[1][2]>>
<1>1. /\ w \in Seq(Nat \X Text) /\ 1 \in 1 .. Len(w) /\ a \in Nat \X Text
      /\ w[1][1] \in Nat /\ Dollar(w) = [w EXCEPT ![1] = a]
  <2>1. w \in Seq(Nat \X Text) /\ w # <<>>
    BY DEF AnyWord
  <2>2. Len(w) \in Nat \ {0}
    BY <2>1, EmptySeq
  <2>. QED BY <2>1, <2>2, WordFacts DEF Dollar
<1>2. /\ [w EXCEPT ![1] = a] \in Seq(Nat \X Text)
      /\ \A j \in 1 .. Len(w) : [w EXCEPT ![1] = a][j] = IF j = 1 THEN a ELSE w[j]
      /\ Len([w EXCEPT ![1] = a]) = Len(w)
  BY <1>1, ExceptSeq
<1>3. Dollar(w)[1][1] # 0 /\ Len(Dollar(w)) # 0
  BY <1>1, <1>2
<1>4. Plain("~")[1][1] = 0
  BY DEF Plain
<1>5. Len(<<>>) = 0
  OBVIOUS
<1>. QED BY <1>1, <1>2, <1>3, <1>4, <1>5 DEF AnyWord

LEMMA FirstArguments ==
  ASSUME FrontInv, 1 \in DOMAIN chain
  PROVE  /\ chain[1] \in Command /\ 1 \in 1 .. Len(chain)
         /\ chain[1].arguments \in Seq(AnyWord)
         /\ Len(chain[1].arguments) \in Nat
         /\ DOMAIN chain[1].arguments = 1 .. Len(chain[1].arguments)
         /\ \A i \in DOMAIN chain[1].arguments : chain[1].arguments[i] \in AnyWord
<1>1. chain \in Seq(Command) /\ DOMAIN chain = 1 .. Len(chain)
  BY LenProperties DEF FrontInv
<1>2. chain[1] \in Command
  BY <1>1, ElementOfSeq
<1> DEFINE args == chain[1].arguments
<1>3. args \in Seq(AnyWord)
  BY <1>2 DEF Command
<1> HIDE DEF args
<1>4. Len(args) \in Nat /\ DOMAIN args = 1 .. Len(args)
  BY <1>3, LenProperties
<1>5. \A i \in DOMAIN args : args[i] \in AnyWord
  BY <1>3, <1>4, ElementOfSeq
<1>. QED BY <1>1, <1>2, <1>3, <1>4, <1>5 DEF args

-----------------------------------------------------------------------------
(* Each kind of step keeps the invariant.                                  *)

LEMMA ReadingKeeps ==
  ASSUME FrontInv, NEW line \in Typed, Reading(line)
  PROVE  FrontInv'
<1> DEFINE s == parseCmdLines(line)
<1>1. line \in Seq(AnyWord) /\ s # <<>> /\ chain' = s /\ typed' = line
  BY VariablesAssumption DEF Reading
<1>2. s \in Seq(Command) /\ Len(s) >= 1 /\ DOMAIN s = 1 .. Len(s)
  BY <1>1, ChainType, FirstWords, LenProperties
<1>3. 1 \in DOMAIN s
  BY <1>2, LenProperties
<1>4. s[1].arguments = <<>> => line[1] \in {Less, Greater}
  BY <1>1, FirstWords
<1> HIDE DEF s
<1>5. /\ version' = version /\ home' = home /\ (OfActual' <=> OfActual)
      /\ ListRight'
  <2>1. /\ version' = version /\ home' = home /\ var_list' = var_list /\ heap' = heap
        /\ pc # "exited" /\ pc' # "exited"
    BY DEF Reading
  <2>2. OfActual' <=> OfActual
    BY <2>1 DEF OfActual
  <2>. QED BY <2>1, <2>2 DEF FrontInv, ListRight
<1>6. pc' = "crashed" => typed'[1] \in {Less, Greater}
  BY <1>1, <1>4 DEF Reading
<1>7. DiesOnlyOfRedirections'
  BY <1>6 DEF DiesOnlyOfRedirections
<1>8. NoTilde'
  BY <1>5 DEF Reading, NoTilde
<1>. QED BY <1>1, <1>2, <1>3, <1>5, <1>7, <1>8 DEF Reading, FrontInv, AtLine, s

LEMMA EndingKeeps ==
  ASSUME FrontInv, Ending
  PROVE  FrontInv'
<1>1. ActualList(<<>>, {})
  <2>1. Len(<<>>) = 0 /\ <<>> \in Seq(ActualNode) /\ MaxVars \in Nat
    BY VariablesAssumption
  <2>2. Owns(<<>>, 1, 0, {})
    BY OwnsNothing
  <2>. QED BY <2>1, <2>2 DEF ActualList
<1>2. <<>> \in Seq(AnyWord) /\ <<>> \in Seq(Command)
  OBVIOUS
<1>3. ListRight'
  BY <1>1 DEF ListRight, Ending
<1>. QED BY <1>2, <1>3 DEF Ending, FrontInv, AtLine, NoTilde, DiesOnlyOfRedirections

LEMMA QuietKeeps ==
  ASSUME FrontInv, Quiet
  PROVE  FrontInv'
<1>2. <<>> \in Seq(AnyWord) /\ <<>> \in Seq(Command)
  OBVIOUS
<1>3. ListRight'
  BY DEF FrontInv, ListRight, Quiet, OfActual
<1>. QED BY <1>2, <1>3 DEF Quiet, FrontInv, AtLine, NoTilde, DiesOnlyOfRedirections

LEMMA ActualSets ==
  ASSUME FrontInv, OfActual, pc = "handle", Actual!SetVar
  PROVE  ActualList(var_list', heap')
<1> DEFINE args == chain[1].arguments
<1>1. ActualList(var_list, heap) /\ 1 \in DOMAIN chain
  BY DEF FrontInv, ListRight, AtLine
<1>2. args \in Seq(AnyWord) /\ DOMAIN args = 1 .. Len(args)
      /\ \A i \in DOMAIN args : args[i] \in AnyWord
  BY <1>1, FirstArguments
<1> HIDE DEF args
<1>3. CASE Len(args) = 3
  <2> DEFINE i == Actual!find_var_by_name(args[2])
  <2>1. args[2] \in AnyWord /\ args[3] \in AnyWord
    BY <1>2, <1>3
  <2>2. i \in 0 .. Len(var_list) /\ Len(var_list) \in Nat
    BY <1>1, ActualFinds, LenProperties DEF ActualList
  <2>3. IF i # 0 THEN Actual!ReplaceValue(i, args[3]) ELSE Actual!AddVar(args[2], args[3])
    BY <1>3 DEF Actual!SetVar, Actual!arguments, args
  <2> HIDE DEF i
  <2>4. CASE i # 0
    <3>1. i \in 1 .. Len(var_list)
      BY <2>2, <2>4
    <3>. QED BY <1>1, <2>1, <2>3, <2>4, <3>1, ActualReplaces
  <2>5. CASE i = 0
    BY <1>1, <2>1, <2>3, <2>5, ActualAdds
  <2>. QED BY <2>4, <2>5
<1>4. CASE Len(args) # 3
  <2>1. UNCHANGED <<var_list, heap>>
    BY <1>4 DEF Actual!SetVar, Actual!arguments, args
  <2>. QED BY <1>1, <2>1
<1>. QED BY <1>3, <1>4

(* The words of set in the earlier shell. *)
LEMMA WarmupSetWords ==
  ASSUME FrontInv, ~OfActual, pc = "handle", Warmup!SetVar
  PROVE  LET args == chain[1].arguments
             name == Dollar(args[2])
             value == FlattenSeq(SubSeq(args, 3, Len(args)))
             i == Warmup!address_of_var(name)
         IN /\ WarmupList(var_list, heap, home) /\ Len(args) >= 3
            /\ name \in AnyWord /\ name # Plain("~") /\ value \in AnyWord
            /\ home = NoPath => value # Plain("~")
            /\ IF i # 0 THEN Warmup!ReplaceValue(i, value) ELSE Warmup!AddVar(name, value)
<1> DEFINE args == chain[1].arguments
           words == SubSeq(args, 3, Len(args))
           name == Dollar(args[2])
           value == FlattenSeq(words)
<1>1. /\ WarmupList(var_list, heap, home) /\ 1 \in DOMAIN chain
      /\ home = NoPath => \A i \in DOMAIN args : i > 1 => args[i] # Plain("~")
  BY DEF FrontInv, ListRight, AtLine, NoTilde
<1>2. /\ args \in Seq(AnyWord) /\ DOMAIN args = 1 .. Len(args) /\ Len(args) \in Nat
      /\ \A i \in DOMAIN args : args[i] \in AnyWord
  BY <1>1, FirstArguments
<1>3. /\ Len(args) >= 3
      /\ LET i == Warmup!address_of_var(name)
         IN IF i # 0 THEN Warmup!ReplaceValue(i, value) ELSE Warmup!AddVar(name, value)
  BY SameWords, SameFlatten DEF Warmup!SetVar, Warmup!arguments
<1> HIDE DEF args
<1>4. words \in Seq(AnyWord) /\ Len(words) >= 1 /\ words[1] = args[3]
  <2>1. 3 \in Int /\ Len(args) \in Int /\ \A i \in 3 .. Len(args) : args[i] \in AnyWord
    BY <1>2
  <2>2. /\ words \in Seq(AnyWord)
        /\ Len(words) = IF 3 <= Len(args) THEN Len(args) - 3 + 1 ELSE 0
        /\ \A i \in 1 .. Len(args) - 3 + 1 : words[i] = args[3 + i - 1]
    BY <2>1, SubSeqProperties
  <2>. QED BY <1>2, <1>3, <2>2
<1> HIDE DEF words
<1>5. value \in AnyWord /\ (value = Plain("~") => args[3] = Plain("~"))
  BY <1>4, JoinedWord
<1>6. home = NoPath => value # Plain("~")
  BY <1>1, <1>2, <1>3, <1>5
<1>7. name \in AnyWord /\ name # Plain("~")
  BY <1>2, <1>3, DollarWord
<1>. QED BY <1>1, <1>3, <1>5, <1>6, <1>7 DEF args, words

LEMMA WarmupSets ==
  ASSUME FrontInv, ~OfActual, pc = "handle", Warmup!SetVar
  PROVE  WarmupList(var_list', heap', home)
<1> DEFINE args == chain[1].arguments
           name == Dollar(args[2])
           value == FlattenSeq(SubSeq(args, 3, Len(args)))
           i == Warmup!address_of_var(name)
<1>1. /\ WarmupList(var_list, heap, home)
      /\ name \in AnyWord /\ name # Plain("~") /\ value \in AnyWord
      /\ home = NoPath => value # Plain("~")
      /\ IF i # 0 THEN Warmup!ReplaceValue(i, value) ELSE Warmup!AddVar(name, value)
  BY WarmupSetWords
<1>2. /\ i \in 0 .. Len(var_list) /\ Len(var_list) \in Nat
      /\ i # 0 => var_list[i].expand_name = name
  BY <1>1, WarmupFinds, WarmupBlocks DEF WarmupList
<1> HIDE DEF i, name, value
<1>3. CASE i # 0
  <2>1. i # 1
    BY <1>1, <1>2, <1>3 DEF WarmupList
  <2>2. i \in 2 .. Len(var_list)
    BY <1>2, <1>3, <2>1
  <2>. QED BY <1>1, <1>3, <2>2, WarmupReplaces
<1>4. CASE i = 0
  BY <1>1, <1>4, WarmupAdds
<1>. QED BY <1>3, <1>4

LEMMA SettingKeeps ==
  ASSUME FrontInv, Setting
  PROVE  FrontInv'
<1>1. ListRight'
  <2>1. CASE OfActual
    <3>1. ActualList(var_list', heap')
      BY <2>1, ActualSets DEF Setting
    <3>. QED BY <2>1, <3>1 DEF Setting, ListRight, OfActual
  <2>2. CASE ~OfActual
    <3>1. WarmupList(var_list', heap', home)
      BY <2>2, WarmupSets DEF Setting
    <3>. QED BY <2>2, <3>1 DEF Setting, ListRight, OfActual
  <2>. QED BY <2>1, <2>2
<1>. QED BY <1>1 DEF Setting, FrontInv, AtLine, NoTilde, DiesOnlyOfRedirections

LEMMA ChangedArguments ==
  ASSUME NEW c \in Command, NEW w \in Seq(AnyWord)
  PROVE  [c EXCEPT !.arguments = w] \in Command
BY DEF Command

LEMMA ExpandedWord ==
  ASSUME FrontInv, OfActual, NEW arg \in AnyWord
  PROVE  Actual!expand_cmd_arg(arg) \in AnyWord
<1>1. Plain("h") \in AnyWord
  BY PlainWords
<1>2. home = Actual!NoPath \/ home \in AnyWord
  BY <1>1, SameWords DEF FrontInv
<1>3. var_list \in Seq(ActualNode)
  BY DEF FrontInv, ListRight, ActualList
<1> DEFINE i == Actual!find_var_by_name(Actual!Undollar(arg))
<1>4. i \in 0 .. Len(var_list) /\ Len(var_list) \in Nat
  BY <1>3, ActualFinds, LenProperties
<1>5. /\ Actual!expand_cmd_arg(arg) \in {arg, var_list[i].value, home}
      /\ i = 0 => Actual!expand_cmd_arg(arg) \in {arg, home}
      /\ home = Actual!NoPath => Actual!expand_cmd_arg(arg) \in {arg, var_list[i].value}
      /\ home = Actual!NoPath /\ i = 0 => Actual!expand_cmd_arg(arg) = arg
  BY DEF Actual!expand_cmd_arg
<1> HIDE DEF i
<1>6. i # 0 => var_list[i].value \in AnyWord
  <2>1. i # 0 => i \in 1 .. Len(var_list)
    BY <1>4
  <2>2. i # 0 => var_list[i] \in ActualNode
    BY <1>3, <2>1, ElementOfSeq
  <2>. QED BY <2>2 DEF ActualNode
<1>. QED BY <1>2, <1>5, <1>6

LEMMA ExpandingKeeps ==
  ASSUME FrontInv, Expanding
  PROVE  FrontInv'
<1> DEFINE W == Actual!ExpandedWords
           n == Len(chain)
<1>1. /\ chain \in Seq(Command) /\ n \in Nat /\ DOMAIN chain = 1 .. n
      /\ \A k \in 1 .. n : chain[k] \in Command
  <2>1. chain \in Seq(Command)
    BY DEF FrontInv
  <2>. QED BY <2>1, LenProperties, ElementOfSeq
<1>2. ASSUME NEW k \in 1 .. n
      PROVE  [chain[k] EXCEPT !.arguments = W[k]] \in Command
  <2> DEFINE args == chain[k].arguments
  <2>1. args \in Seq(AnyWord)
    BY <1>1 DEF Command
  <2>2. W[k] = [i \in DOMAIN args |-> Actual!expand_cmd_arg(args[i])]
    BY <1>1 DEF Actual!ExpandedWords
  <2> HIDE DEF W, args
  <2>3. Len(args) \in Nat /\ DOMAIN args = 1 .. Len(args)
        /\ \A i \in 1 .. Len(args) : args[i] \in AnyWord
    BY <2>1, LenProperties, ElementOfSeq
  <2>4. \A i \in 1 .. Len(args) : Actual!expand_cmd_arg(args[i]) \in AnyWord
    BY <2>3, ExpandedWord DEF Expanding
  <2>5. W[k] \in [1 .. Len(args) -> AnyWord]
    BY <2>2, <2>3, <2>4
  <2>6. W[k] \in Seq(AnyWord)
    BY <2>3, <2>5
  <2>. QED BY <1>1, <2>6, ChangedArguments
<1>3. chain' = [k \in 1 .. n |-> [chain[k] EXCEPT !.arguments = W[k]]]
  BY <1>1 DEF Expanding, Replaced
<1> HIDE DEF W
<1>4. chain' \in [1 .. n -> Command] /\ DOMAIN chain' = 1 .. n
  BY <1>2, <1>3
<1>5. chain' \in Seq(Command)
  BY <1>1, <1>4
<1>6. 1 \in DOMAIN chain'
  BY <1>1, <1>4 DEF FrontInv, AtLine, Expanding
<1>7. ListRight' /\ (OfActual' <=> OfActual) /\ OfActual
  BY DEF FrontInv, ListRight, Expanding, OfActual
<1>. QED BY <1>5, <1>6, <1>7 DEF Expanding, FrontInv, AtLine, NoTilde, DiesOnlyOfRedirections

(* What expand_variables finds is a value, but for the node of ~.          *)
LEMMA FoundValue ==
  ASSUME FrontInv, ~OfActual, pc = "expand", NEW i \in DOMAIN chain[1].arguments, Found(i)
  PROVE  /\ ValueAt(i) \in AnyWord \cup {NoPath}
         /\ ValueAt(i) = NoPath => /\ home = NoPath
                                   /\ chain[1].arguments[i] = Plain("~")
         /\ home = NoPath => ValueAt(i) # Plain("~")
<1> DEFINE word == chain[1].arguments[i]
           a == Warmup!address_of_var(word)
<1>1. WarmupList(var_list, heap, home) /\ a # 0
  BY DEF FrontInv, ListRight, Found
<1>2. /\ a \in 0 .. Len(var_list) /\ Len(var_list) \in Nat
      /\ a # 0 => var_list[a].expand_name = word
      /\ var_list \in Seq(WarmupNode)
  BY <1>1, WarmupFinds, WarmupBlocks DEF WarmupList
<1>3. ValueAt(i) = var_list[a].value
  BY DEF ValueAt
<1> HIDE DEF a
<1>4. a \in 1 .. Len(var_list) /\ var_list[a] \in WarmupNode
  <2>1. a \in 1 .. Len(var_list)
    BY <1>1, <1>2
  <2>. QED BY <1>2, <2>1, ElementOfSeq
<1>5. var_list[a].value \in AnyWord \cup {NoPath}
  BY <1>4 DEF WarmupNode
<1>6. CASE a = 1
  <2>1. var_list[a].value = home /\ word = Plain("~")
    BY <1>1, <1>2, <1>6 DEF WarmupList
  <2>2. NoPath # Plain("~")
    BY DEF NoPath, Plain
  <2>. QED BY <1>3, <1>5, <2>1, <2>2
<1>7. CASE a # 1
  <2>1. a \in 2 .. Len(var_list)
    BY <1>2, <1>4, <1>7
  <2>2. var_list[a].value # NoPath /\ (home = NoPath => var_list[a].value # Plain("~"))
    BY <1>1, <2>1 DEF WarmupList
  <2>. QED BY <1>3, <1>5, <2>2
<1>. QED BY <1>6, <1>7

LEMMA Expanding1Keeps ==
  ASSUME FrontInv, Expanding1
  PROVE  FrontInv'
<1> DEFINE args == chain[1].arguments
           new == [i \in DOMAIN args |-> IF Found(i) THEN ValueAt(i) ELSE args[i]]
<1>1. /\ 1 \in DOMAIN chain /\ ~OfActual /\ pc = "expand" /\ pass \in Nat
      /\ chain \in Seq(Command) /\ typed \in Seq(AnyWord)
  BY DEF FrontInv, AtLine, Expanding1
<1>2. /\ chain[1] \in Command /\ 1 \in 1 .. Len(chain)
      /\ args \in Seq(AnyWord) /\ Len(args) \in Nat /\ DOMAIN args = 1 .. Len(args)
      /\ \A i \in DOMAIN args : args[i] \in AnyWord
  BY <1>1, FirstArguments
<1>3. ListRight' /\ ~OfActual'
  BY <1>1 DEF FrontInv, ListRight, Expanding1, OfActual
(* At the first call the words are those of the line. *)
<1>4. pass = 0 => \A i \in DOMAIN args : i \in DOMAIN typed /\ args[i] = typed[i]
  <2>1. pass = 0 => chain = parseCmdLines(typed)
    BY <1>1 DEF FrontInv
  <2>2. chain # <<>>
    BY <1>1
  <2>. QED BY <1>1, <2>1, <2>2, FirstWords
<1>5. CASE \E i \in DOMAIN args : Found(i) /\ ValueAt(i) = NoPath
  <2>1. PICK i \in DOMAIN args : Found(i) /\ ValueAt(i) = NoPath
    BY <1>5
  <2>2. home = NoPath /\ args[i] = Plain("~")
    BY <1>1, <2>1, FoundValue
  <2>3. pass = 0
    BY <1>1, <2>1, <2>2 DEF FrontInv, NoTilde, Found
  <2>4. Plain("~") \in ToSet(typed)
    BY <1>4, <2>2, <2>3 DEF ToSet
  <2>5. pc' = "crashed" /\ chain' = chain
    BY <1>5 DEF Expanding1
  <2>. QED BY <1>3, <2>2, <2>4, <2>5
       DEF Expanding1, FrontInv, AtLine, NoTilde, DiesOnlyOfRedirections
<1>6. CASE ~\E i \in DOMAIN args : Found(i) /\ ValueAt(i) = NoPath
  <2>1. /\ pc' = "handle" \/ (pc' = "expand" /\ pass' # 0)
        /\ chain' = [chain EXCEPT ![1].arguments = new]
    BY <1>6 DEF Expanding1
  <2>2. \A i \in DOMAIN args :
          /\ new[i] \in AnyWord
          /\ home = NoPath /\ i > 1 => new[i] # Plain("~")
    <3> TAKE i \in DOMAIN args
    <3>1. CASE Found(i)
      <4>1. new[i] = ValueAt(i) /\ ValueAt(i) # NoPath
        BY <1>6, <3>1
      <4>. QED BY <1>1, <3>1, <4>1, FoundValue
    <3>2. CASE ~Found(i)
      <4>1. new[i] = args[i]
        BY <3>2
      <4>2. home = NoPath /\ i > 1 => args[i] # Plain("~")
        <5>1. SUFFICES ASSUME home = NoPath, i > 1, args[i] = Plain("~") PROVE FALSE
          OBVIOUS
        <5>2. WarmupList(var_list, heap, home)
          BY <1>1 DEF FrontInv, ListRight
        <5>3. Warmup!address_of_var(args[i]) = 0
          BY <3>2, <5>1 DEF Found
        <5>4. var_list \in Seq(WarmupNode) /\ 1 \in 1 .. Len(var_list)
              /\ var_list[1].expand_name = Plain("~")
          BY <5>2, WarmupBlocks DEF WarmupList
        <5>. QED BY <5>1, <5>3, <5>4, WarmupFinds
      <4>. QED BY <1>2, <4>1, <4>2
    <3>. QED BY <3>1, <3>2
  <2>3. DOMAIN new = 1 .. Len(args)
    BY <1>2
  <2> HIDE DEF new
  <2>4. new \in Seq(AnyWord)
    <3>1. new = [i \in DOMAIN args |-> new[i]]
      BY DEF new
    <3>2. new \in [1 .. Len(args) -> AnyWord]
      BY <1>2, <2>2, <3>1
    <3>. QED BY <1>2, <3>2
  <2> DEFINE first == [chain[1] EXCEPT !.arguments = new]
  <2>5. chain' = [chain EXCEPT ![1] = first]
    BY <2>1
  <2>6. first \in Command /\ first.arguments = new
    BY <1>2, <2>4, ChangedArguments DEF Command
  <2> HIDE DEF first
  <2>7. chain' \in Seq(Command) /\ chain'[1].arguments = new /\ 1 \in DOMAIN chain'
    <3>1. /\ chain' \in Seq(Command) /\ chain'[1] = first
          /\ Len(chain') = Len(chain)
      BY <1>1, <1>2, <2>5, <2>6, ExceptSeq
    <3>2. DOMAIN chain' = 1 .. Len(chain')
      BY <3>1, LenProperties
    <3>. QED BY <1>2, <2>6, <3>1, <3>2
  <2>8. NoTilde'
    BY <2>2, <2>3, <2>7, <1>2 DEF NoTilde, Expanding1
  <2>9. DiesOnlyOfRedirections'
    BY <2>1 DEF DiesOnlyOfRedirections
  <2>. QED BY <1>3, <2>1, <2>7, <2>8, <2>9 DEF Expanding1, FrontInv, AtLine
<1>. QED BY <1>5, <1>6

-----------------------------------------------------------------------------
(* The inductive invariant holds.                                          *)

LEMMA FrontInvInit == StagesInit => FrontInv
<1> SUFFICES ASSUME StagesInit PROVE FrontInv
  OBVIOUS
<1>1. <<>> \in Seq(AnyWord) /\ <<>> \in Seq(Command)
  OBVIOUS
<1>2. CASE version \in {"actual", "task1", "task2"} /\ Actual!Init /\ pass = 0
  <2>1. ActualList(<<>>, {})
    <3>1. Len(<<>>) = 0 /\ <<>> \in Seq(ActualNode) /\ MaxVars \in Nat
      BY VariablesAssumption
    <3>2. Owns(<<>>, 1, 0, {})
      BY OwnsNothing
    <3>. QED BY <3>1, <3>2 DEF ActualList
  <2>2. OfActual /\ ListRight
    BY <1>2, <2>1 DEF OfActual, ListRight, Actual!Init
  <2>3. home \in {NoPath, Plain("h")}
    BY <1>2, SameWords DEF Actual!Init
  <2>. QED BY <1>1, <1>2, <2>2, <2>3
       DEF Actual!Init, FrontInv, Versions, AtLine, NoTilde, DiesOnlyOfRedirections
<1>3. CASE version \in {"warmup", "warmup2"} /\ Warmup!Init
  <2>1. home \in {NoPath, Plain("h")} /\ ~OfActual
    BY <1>3, SameWords DEF Warmup!Init, OfActual
  <2> DEFINE v == [expand_name |-> Plain("~"), value |-> home, shouldFree |-> FALSE,
                   at |-> Warmup!NotAllocated]
  <2>2. var_list = <<v>> /\ heap = {}
    BY <1>3, SameWords DEF Warmup!Init
  <2>3. v \in WarmupNode
    <3>1. Plain("~") \in AnyWord /\ Plain("h") \in AnyWord
      BY PlainWords
    <3>. QED BY <2>1, <3>1 DEF WarmupNode, Warmup!NotAllocated
  <2>4. Owns(<<v>>, 2, 1, {})
    BY OwnsNothing
  <2>5. WarmupList(var_list, heap, home)
    <3>1. v.expand_name = Plain("~") /\ v.value = home /\ v.at = Warmup!NotAllocated
          /\ ~v.shouldFree
      OBVIOUS
    <3> HIDE DEF v
    <3>2. <<v>> \in Seq(WarmupNode) /\ Len(<<v>>) = 1 /\ <<v>>[1] = v /\ 2 .. 1 = {}
      BY <2>3
    <3>. QED BY <2>2, <2>4, <3>1, <3>2, VariablesAssumption DEF WarmupList
  <2>. QED BY <1>1, <1>3, <2>1, <2>5
       DEF Warmup!Init, FrontInv, ListRight, Versions, AtLine, NoTilde,
           DiesOnlyOfRedirections
<1>. QED BY <1>2, <1>3 DEF StagesInit

LEMMA FrontInvStep == FrontInv /\ [StagesNext]_stageVars => FrontInv'
<1> SUFFICES ASSUME FrontInv, [StagesNext]_stageVars PROVE FrontInv'
  OBVIOUS
<1>1. CASE StagesNext
  <2>1. \/ \E line \in Typed : Reading(line)
        \/ Ending \/ Quiet \/ Setting \/ Expanding \/ Expanding1
    BY <1>1, ActualMoves, Task1Moves, Task2Moves, WarmupMoves, Warmup2Moves DEF StagesNext
  <2>. QED BY <2>1, ReadingKeeps, EndingKeeps, QuietKeeps, SettingKeeps,
              ExpandingKeeps, Expanding1Keeps
<1>2. CASE UNCHANGED stageVars
  BY <1>2 DEF stageVars, FrontInv, Versions, AtLine, ListRight, OfActual,
     NoTilde, DiesOnlyOfRedirections
<1>. QED BY <1>1, <1>2

LEMMA FrontInvHolds == StagesSpec => []FrontInv
BY FrontInvInit, FrontInvStep, PTL DEF StagesSpec

(* The front ends handle a line as its tokens read, position by position,  *)
(* for every line and every number of arguments that fit: parseCmdLines,   *)
(* _parseCmdLines, parseSingleCmdLine and extractRedirections of           *)
(* LineParser.c.                                                           *)
THEOREM ParsesAsItReads == StagesSpec => []ParserAgrees
<1>1. ASSUME FrontInv PROVE ParserAgrees
  <2>1. typed \in Seq(AnyWord)
    BY <1>1 DEF FrontInv
  <2>2. SaysWhatTheLineSays(typed, parseCmdLines(typed))
    BY <2>1, ParserRight
  <2>3. CASE OfActual
    <3>1. pc = "expand" => chain = parseCmdLines(typed)
      BY <1>1, <2>3 DEF FrontInv
    <3>2. pc = "expand" => Actual!SaysWhatTheLineSays(typed, chain)
      BY <2>2, <3>1, ActualReads
    <3>. QED BY <2>3, <3>2 DEF ParserAgrees, Actual!ParserAgrees
  <2>4. CASE ~OfActual
    <3>1. pc = "expand" /\ pass = 0 => chain = parseCmdLines(typed)
      BY <1>1, <2>4 DEF FrontInv
    <3>2. pc = "expand" /\ pass = 0 => Warmup!SaysWhatTheLineSays(typed, chain)
      BY <2>2, <3>1, WarmupReads
    <3>. QED BY <2>4, <3>2 DEF ParserAgrees, Warmup!ParserAgrees
  <2>. QED BY <2>3, <2>4
<1>. QED BY <1>1, FrontInvHolds, PTL

(* The blocks allocated for the variables are those that the list points   *)
(* to, each once, however often variables are set again and also when the  *)
(* list was freed: set_var, free_var and free_var_list leak nothing and    *)
(* leave nothing dangling.                                                 *)
THEOREM ListOwnsHeap == StagesSpec => []HeapExact
<1>1. ASSUME FrontInv PROVE HeapExact
  <2>1. CASE OfActual
    BY <1>1, <2>1, ActualExact DEF FrontInv, ListRight, HeapExact
  <2>2. CASE ~OfActual /\ pc # "exited"
    BY <1>1, <2>2, WarmupExact DEF FrontInv, ListRight, HeapExact
  <2>3. CASE ~OfActual /\ pc = "exited"
    <3>1. var_list = <<>> /\ heap = {}
      BY <1>1, <2>3 DEF FrontInv, ListRight
    <3>2. Warmup!ToSet(var_list) = {}
      BY <3>1 DEF Warmup!ToSet
    <3>3. Warmup!Cardinality({}) = 0
      BY SameCardinality, FS_EmptySet
    <3>4. {v \in Warmup!ToSet(var_list) : v.shouldFree} = {}
      BY <3>2
    <3>5. UNION {{v.at.name, v.at.value, v.at.link} : v \in {}} = {}
      OBVIOUS
    <3>6. Warmup!Cardinality(heap) = 3 * Warmup!Cardinality({})
      BY <3>1, <3>3
    <3>7. Warmup!HeapExact
      BY <3>1, <3>2, <3>4, <3>5, <3>6, Zenon DEF Warmup!HeapExact
    <3>. QED BY <2>3, <3>7 DEF HeapExact
  <2>. QED BY <2>1, <2>2, <2>3
<1>. QED BY <1>1, FrontInvHolds, PTL

(* A NULL pointer ends the shell only at a line that begins with a         *)
(* redirection, which leaves no word to look a builtin up by, and in the   *)
(* earlier shell at one with ~ when there is no HOME to clone.             *)
THEOREM OnlyRedirectionsKill == StagesSpec => []DiesOnlyOfRedirections
<1>1. FrontInv => DiesOnlyOfRedirections
  BY DEF FrontInv
<1>. QED BY <1>1, FrontInvHolds, PTL
-----------------------------------------------------------------------------
(* The parser of the specification Environment is this one, too.           *)

EnvEmpty(parts) == Env!SelectInSeq(parts, LAMBDA part : part = <<>>)
EnvAmpersand(line) == Env!SelectInSeq(line, LAMBDA t : t = Env!Ampersand)

LEMMA EnvParts == \A line : Env!Parts(line) = Parts(line)
BY Zenon DEF
  Max, Env!Max, Parts, Env!Parts, FoldLeft, Env!FoldLeft,
  MapThenFoldSet, Env!MapThenFoldSet, Bar, Env!Bar, Plain,
  Env!Plain

LEMMA EnvCommand == \A s : Env!parseSingleCmdLine(s) = parseSingleCmdLine(s)
BY Zenon DEF
  parseSingleCmdLine, Env!parseSingleCmdLine, extractRedirections,
  Env!extractRedirections, cloneFirstWord, Env!cloneFirstWord,
  Before, Env!Before, SelectInSeq, Env!SelectInSeq,
  SelectLastInSeq, Env!SelectLastInSeq, Max, Env!Max, Min,
  Env!Min, Less, Env!Less, Greater, Env!Greater, NoPath,
  Env!NoPath, Plain, Env!Plain

LEMMA EnvSearches ==
  /\ \A s : EnvEmpty(s) = EmptyOf(s)
  /\ \A s : EnvAmpersand(s) = AmpersandOf(s)
  /\ \A s, i : Env!Before(s, i) = Before(s, i)
<1>1. \A s : EnvEmpty(s) = EmptyOf(s)
  BY Zenon DEF EmptyOf, EnvEmpty, SelectInSeq, Env!SelectInSeq, Min, Env!Min
<1>2. \A s : EnvAmpersand(s) = AmpersandOf(s)
  BY Zenon DEF AmpersandOf, EnvAmpersand,
    SelectInSeq, Env!SelectInSeq, Min, Env!Min, Ampersand,
  Env!Ampersand, Plain, Env!Plain
<1>3. \A s, i : Env!Before(s, i) = Before(s, i)
  BY DEF Before, Env!Before
<1>. QED BY <1>1, <1>2, <1>3

LEMMA EnvChain == \A line : Env!Chain(line) = Chain(line)
<1> TAKE line
<1> DEFINE full == Before(Parts(line), EmptyOf(Parts(line)))
<1>1. Chain(line) = [k \in DOMAIN full |-> parseSingleCmdLine(full[k])]
  BY Zenon DEF Chain, EmptyOf
<1>2. Env!Chain(line) =
        LET f == Env!Before(Env!Parts(line), EnvEmpty(Env!Parts(line)))
        IN [k \in DOMAIN f |-> Env!parseSingleCmdLine(f[k])]
  BY Zenon DEF Env!Chain, EnvEmpty
<1>3. Env!Before(Env!Parts(line), EnvEmpty(Env!Parts(line))) = full
  BY EnvParts, EnvSearches
<1>4. Env!Chain(line) = [k \in DOMAIN full |-> Env!parseSingleCmdLine(full[k])]
  BY <1>2, <1>3, Zenon
<1> HIDE DEF full
<1>5. [k \in DOMAIN full |-> Env!parseSingleCmdLine(full[k])] =
        [k \in DOMAIN full |-> parseSingleCmdLine(full[k])]
  BY EnvCommand
<1>. QED BY <1>1, <1>4, <1>5

LEMMA EnvParses == \A line : Env!parseCmdLines(line) = parseCmdLines(line)
<1> TAKE line
<1> DEFINE a == AmpersandOf(line)
           c == Chain(Before(line, a))
<1>1. parseCmdLines(line) =
        [k \in DOMAIN c |-> [c[k] EXCEPT !.blocking = k = Len(c) /\ a = 0]]
  BY Zenon DEF parseCmdLines, AmpersandOf
<1>2. Env!parseCmdLines(line) =
        LET b == EnvAmpersand(line)
            d == Env!Chain(Env!Before(line, b))
        IN [k \in DOMAIN d |-> [d[k] EXCEPT !.blocking = k = Len(d) /\ b = 0]]
  BY Zenon DEF Env!parseCmdLines, EnvAmpersand
<1>3. EnvAmpersand(line) = a /\ Env!Chain(Env!Before(line, a)) = c
  BY EnvSearches, EnvChain
<1> HIDE DEF a, c
<1>4. Env!parseCmdLines(line) =
        [k \in DOMAIN c |-> [c[k] EXCEPT !.blocking = k = Len(c) /\ a = 0]]
  BY <1>2, <1>3, Zenon
<1>. QED BY <1>1, <1>4, Zenon

LEMMA EnvWords ==
  /\ \A text : Env!Plain(text) = Plain(text)
  /\ \A word : Env!Dollar(word) = Dollar(word)
  /\ \A ws : Env!FlattenSeq(ws) = FlattenSeq(ws)
BY DEF Plain, Env!Plain, Dollar, Env!Dollar, FlattenSeq, Env!FlattenSeq

-----------------------------------------------------------------------------
(* A word that is replaced n times.                                        *)

ValueIn(m, word) == IF word \in DOMAIN m THEN m[word] ELSE word

TimesIn(m, word, n) ==
  LET value[k \in 0 .. n] == IF k = 0 THEN word ELSE ValueIn(m, value[k - 1])
  IN value[n]

LEMMA EnvTimes == \A word, n : Env!ReplacedTimes(word, n) = TimesIn(EnvOf, word, n)
BY DEF Env!ReplacedTimes, Env!Value, TimesIn, ValueIn

Replaces(m, f, word, n) ==
  f = [k \in 0 .. n |-> IF k = 0 THEN word ELSE ValueIn(m, f[k - 1])]

LEMMA TimesIs ==
  ASSUME NEW m, NEW word, NEW n
  PROVE  TimesIn(m, word, n) = (CHOOSE f : Replaces(m, f, word, n))[n]
BY DEF TimesIn, Replaces

LEMMA ReplacesExists ==
  ASSUME NEW m, NEW word
  PROVE  \A n \in Nat : \E f : Replaces(m, f, word, n)
<1> DEFINE S == {n \in Nat : \E f : Replaces(m, f, word, n)}
<1>1. 0 \in S
  <2> DEFINE f == [k \in 0 .. 0 |-> word]
  <2>1. f = [k \in 0 .. 0 |-> IF k = 0 THEN word ELSE ValueIn(m, f[k - 1])]
    OBVIOUS
  <2>. QED BY <2>1 DEF Replaces
<1>2. ASSUME NEW n \in Nat, n \in S PROVE n + 1 \in S
  <2>1. PICK f : Replaces(m, f, word, n)
    BY <1>2
  <2> DEFINE g == [k \in 0 .. n + 1 |-> IF k \in 0 .. n THEN f[k] ELSE ValueIn(m, f[n])]
  <2>2. ASSUME NEW k \in 0 .. n + 1
        PROVE  g[k] = IF k = 0 THEN word ELSE ValueIn(m, g[k - 1])
    <3>1. CASE k = 0
      BY <2>1, <3>1 DEF Replaces
    <3>2. CASE k \in 1 .. n
      <4>1. k \in 0 .. n /\ k - 1 \in 0 .. n /\ k - 1 \in 0 .. n + 1 /\ k # 0
        BY <3>2
      <4>2. f[k] = ValueIn(m, f[k - 1])
        BY <2>1, <4>1 DEF Replaces
      <4>. QED BY <4>1, <4>2
    <3>3. CASE k = n + 1
      <4>1. k - 1 = n /\ n \in 0 .. n /\ n \in 0 .. n + 1 /\ k \notin 0 .. n /\ k # 0
        BY <3>3
      <4>. QED BY <4>1
    <3>. QED BY <3>1, <3>2, <3>3
  <2> DEFINE h == [k \in 0 .. n + 1 |-> IF k = 0 THEN word ELSE ValueIn(m, g[k - 1])]
  <2>3. g = h
    <3>1. DOMAIN g = 0 .. n + 1 /\ DOMAIN h = 0 .. n + 1
      OBVIOUS
    <3>2. \A k \in 0 .. n + 1 : g[k] = h[k]
      BY <2>2
    <3>3. g = [k \in 0 .. n + 1 |-> g[k]] /\ h = [k \in 0 .. n + 1 |-> h[k]]
      OBVIOUS
    <3> HIDE DEF g, h
    <3>. QED BY <3>2, <3>3
  <2>4. Replaces(m, g, word, n + 1)
    BY <2>3 DEF Replaces
  <2>. QED BY <2>4
<1>3. S = {n \in Nat : n \in S}
  OBVIOUS
<1> HIDE DEF S
<1>4. \A n \in Nat : n \in S
  BY <1>1, <1>2, SetInduction
<1>. QED BY <1>4 DEF S

(* Two of them agree where both are. *)
LEMMA ReplacesAgree ==
  ASSUME NEW m, NEW word, NEW f, NEW g, NEW l \in Nat, NEW n \in Nat,
         Replaces(m, f, word, l), Replaces(m, g, word, n)
  PROVE  \A k \in Nat : k <= l /\ k <= n => f[k] = g[k]
<1> DEFINE S == {k \in Nat : k <= l /\ k <= n => f[k] = g[k]}
<1>1. 0 \in S
  <2>1. 0 \in 0 .. l /\ 0 \in 0 .. n
    OBVIOUS
  <2>2. f[0] = word /\ g[0] = word
    BY <2>1 DEF Replaces
  <2>. QED BY <2>2
<1>2. ASSUME NEW k \in Nat, k \in S PROVE k + 1 \in S
  <2>1. SUFFICES ASSUME k + 1 <= l, k + 1 <= n PROVE f[k + 1] = g[k + 1]
    BY <1>2
  <2>2. f[k] = g[k]
    BY <1>2, <2>1
  <2>3. k + 1 \in 0 .. l /\ k + 1 \in 0 .. n /\ k + 1 # 0 /\ (k + 1) - 1 = k
    BY <2>1
  <2>4. f[k + 1] = ValueIn(m, f[(k + 1) - 1])
    BY <2>3 DEF Replaces
  <2>5. g[k + 1] = ValueIn(m, g[(k + 1) - 1])
    BY <2>3 DEF Replaces
  <2>. QED BY <2>2, <2>3, <2>4, <2>5
<1> HIDE DEF S
<1>3. \A k \in Nat : k \in S
  BY <1>1, <1>2, SetInduction
<1>. QED BY <1>3 DEF S

LEMMA Times ==
  ASSUME NEW m, NEW word
  PROVE  /\ TimesIn(m, word, 0) = word
         /\ \A n \in Nat : TimesIn(m, word, n + 1) = ValueIn(m, TimesIn(m, word, n))
<1> DEFINE F(n) == CHOOSE f : Replaces(m, f, word, n)
<1>1. \A n \in Nat : Replaces(m, F(n), word, n)
  BY ReplacesExists
<1>2. \A n : TimesIn(m, word, n) = F(n)[n]
  BY TimesIs
<1> HIDE DEF F
<1>3. TimesIn(m, word, 0) = word
  <2>1. 0 \in 0 .. 0
    OBVIOUS
  <2>2. F(0)[0] = word
    BY <1>1, <2>1 DEF Replaces
  <2>. QED BY <1>2, <2>2
<1>4. ASSUME NEW n \in Nat
      PROVE  TimesIn(m, word, n + 1) = ValueIn(m, TimesIn(m, word, n))
  <2>1. n + 1 \in 0 .. n + 1 /\ n + 1 # 0 /\ (n + 1) - 1 = n /\ n + 1 \in Nat
    OBVIOUS
  <2>2. F(n + 1)[n + 1] = ValueIn(m, F(n + 1)[(n + 1) - 1])
    <3>1. Replaces(m, F(n + 1), word, n + 1)
      BY <1>1, <2>1
    <3>. QED BY <2>1, <3>1 DEF Replaces
  <2>3. F(n + 1)[n] = F(n)[n]
    <3>1. Replaces(m, F(n + 1), word, n + 1) /\ Replaces(m, F(n), word, n)
      BY <1>1, <2>1
    <3>2. n <= n + 1 /\ n <= n
      OBVIOUS
    <3>. QED BY <2>1, <3>1, <3>2, ReplacesAgree
  <2>. QED BY <1>2, <2>1, <2>2, <2>3
<1>. QED BY <1>3, <1>4
-----------------------------------------------------------------------------
(* The list as a map.                                                      *)

LEMMA Undollared ==
  ASSUME NEW w \in AnyWord
  PROVE  /\ Dollar(w)[1][1] # 0 /\ IsUserVar(Dollar(w)) /\ Undollar(Dollar(w)) = w
         /\ IsUserVar(w) => Undollar(w) \in AnyWord /\ Dollar(Undollar(w)) = w
<1> DEFINE up == <<w[1][1] + 1, w[1][2]>>
           down == <<w[1][1] - 1, w[1][2]>>
<1>1. /\ w \in Seq(Nat \X Text) /\ Len(w) \in Nat /\ 1 \in 1 .. Len(w)
      /\ w[1] = <<w[1][1], w[1][2]>> /\ w[1][1] \in Nat /\ w[1][2] \in Text
      /\ DOMAIN w = 1 .. Len(w) /\ w = [j \in DOMAIN w |-> w[j]]
  <2>1. w \in Seq(Nat \X Text) /\ w # <<>>
    BY DEF AnyWord
  <2>2. Len(w) \in Nat \ {0} /\ w \in [1 .. Len(w) -> Nat \X Text]
    BY <2>1, EmptySeq, LenProperties
  <2>3. DOMAIN w = 1 .. Len(w) /\ w = [j \in DOMAIN w |-> w[j]]
    BY <2>2
  <2>. QED BY <2>1, <2>2, <2>3, WordFacts
<1>2. Dollar(w) = [w EXCEPT ![1] = up] /\ Undollar(w) = [w EXCEPT ![1] = down]
  BY DEF Dollar, Undollar
<1>3. up \in Nat \X Text /\ up[1] = w[1][1] + 1 /\ up[2] = w[1][2]
  BY <1>1
<1>4. /\ Dollar(w)[1] = up /\ DOMAIN Dollar(w) = DOMAIN w
      /\ \A j \in DOMAIN w : j # 1 => Dollar(w)[j] = w[j]
  BY <1>1, <1>2
<1>5. Dollar(w)[1][1] # 0 /\ IsUserVar(Dollar(w))
  BY <1>1, <1>3, <1>4 DEF IsUserVar
<1>6. Undollar(Dollar(w)) = w
  <2>1. <<up[1] - 1, up[2]>> = w[1]
    BY <1>1, <1>3
  <2>2. Undollar(Dollar(w)) = [Dollar(w) EXCEPT ![1] = w[1]]
    BY <1>4, <2>1 DEF Undollar
  <2>3. [Dollar(w) EXCEPT ![1] = w[1]] = [j \in DOMAIN w |-> w[j]]
    BY <1>4
  <2>. QED BY <1>1, <2>2, <2>3
<1>7. ASSUME IsUserVar(w)
      PROVE  Undollar(w) \in AnyWord /\ Dollar(Undollar(w)) = w
  <2>1. down \in Nat \X Text /\ down[1] = w[1][1] - 1 /\ down[2] = w[1][2]
    BY <1>1, <1>7 DEF IsUserVar
  <2>2. /\ Undollar(w)[1] = down /\ DOMAIN Undollar(w) = DOMAIN w
        /\ \A j \in DOMAIN w : j # 1 => Undollar(w)[j] = w[j]
    BY <1>1, <1>2
  <2>3. <<down[1] + 1, down[2]>> = w[1]
    BY <1>1, <2>1
  <2>4. Dollar(Undollar(w)) = [Undollar(w) EXCEPT ![1] = w[1]]
    BY <2>2, <2>3 DEF Dollar
  <2>5. [Undollar(w) EXCEPT ![1] = w[1]] = [j \in DOMAIN w |-> w[j]]
    BY <2>2
  <2>6. Undollar(w) \in Seq(Nat \X Text) /\ Len(Undollar(w)) = Len(w)
    BY <1>1, <1>2, <2>1, ExceptSeq
  <2>7. Undollar(w) # <<>>
    BY <1>1, <2>6
  <2>. QED BY <1>1, <2>4, <2>5, <2>6, <2>7 DEF AnyWord
<1>. QED BY <1>5, <1>6, <1>7

Tilde == Plain("~")

LEMMA TildeIs == Tilde \in AnyWord /\ Tilde # NoPath /\ ~IsUserVar(Tilde)
<1>1. Tilde[1][1] = 0
  BY DEF Tilde, Plain
<1>. QED BY <1>1, PlainWords DEF Tilde, IsUserVar, Plain, NoPath

(* The first of n keys that is this one, 0 if none is. *)
First(keys, n, key) ==
  LET I == {j \in 1 .. n : keys[j] = key}
  IN IF I # {} THEN Min(I) ELSE 0

LEMMA FirstIs ==
  ASSUME NEW keys, NEW n \in Nat, NEW key, NEW i, i = First(keys, n, key)
  PROVE  /\ i \in 0 .. n
         /\ i = 0 => \A j \in 1 .. n : keys[j] # key
         /\ i # 0 => keys[i] = key /\ \A j \in 1 .. i - 1 : keys[j] # key
<1> DEFINE I == {j \in 1 .. n : keys[j] = key}
<1>1. \A j \in 1 .. n : j \in I <=> keys[j] = key
  OBVIOUS
<1>2. I \in SUBSET (1 .. n) /\ i = IF I # {} THEN Min(I) ELSE 0
  BY DEF First
<1> HIDE DEF I
<1>3. /\ i \in 0 .. n /\ (i = 0 <=> I = {})
      /\ i # 0 => i \in I /\ \A j \in 1 .. i - 1 : j \notin I
  BY <1>2, FirstPlace
<1>. QED BY <1>1, <1>2, <1>3

LEMMA FirstOnly ==
  ASSUME NEW keys, NEW n \in Nat, NEW key, NEW i \in 1 .. n,
         keys[i] = key, \A j \in 1 .. i - 1 : keys[j] # key
  PROVE  First(keys, n, key) = i
<1> DEFINE f == First(keys, n, key)
<1>1. /\ f \in 0 .. n
      /\ f = 0 => \A j \in 1 .. n : keys[j] # key
      /\ f # 0 => keys[f] = key /\ \A j \in 1 .. f - 1 : keys[j] # key
  BY FirstIs
<1> HIDE DEF f
<1>2. f = i
  BY <1>1
<1>. QED BY <1>2 DEF f

Keys(keys, n) == {keys[i] : i \in 1 .. n}

(* The map of a list: what is first under a key is its value, and ~ is the *)
(* home.                                                                   *)
MapOf(keys, vals, n, hm) ==
  [w \in ({keys[i] : i \in 1 .. n} \ {Tilde}) \cup (IF hm = NoPath THEN {} ELSE {Tilde}) |->
     IF w = Tilde THEN hm ELSE vals[First(keys, n, w)]]

Assigned(map, key, value) ==
  [w \in DOMAIN map \cup {key} |-> IF w = key THEN value ELSE map[w]]

(* A list in which what is first under one key has changed. *)
Changed(keys, vals, n, new, values, m, key, value) ==
  /\ key # Tilde
  /\ Keys(new, m) = Keys(keys, n) \cup {key}
  /\ values[First(new, m, key)] = value
  /\ \A w \in Keys(keys, n) \ {Tilde} :
       w # key => values[First(new, m, w)] = vals[First(keys, n, w)]

LEMMA MapChanges ==
  ASSUME NEW keys, NEW vals, NEW n, NEW hm,
         NEW new, NEW values, NEW m, NEW key, NEW value,
         Changed(keys, vals, n, new, values, m, key, value)
  PROVE  MapOf(new, values, m, hm) = Assigned(MapOf(keys, vals, n, hm), key, value)
<1> DEFINE K == {keys[i] : i \in 1 .. n}
           T == IF hm = NoPath THEN {} ELSE {Tilde}
           D == (K \ {Tilde}) \cup T
           E == ((K \cup {key}) \ {Tilde}) \cup T
           old == MapOf(keys, vals, n, hm)
           newer == MapOf(new, values, m, hm)
<1>0. K = Keys(keys, n) /\ {new[i] : i \in 1 .. m} = K \cup {key}
  BY DEF Keys, Changed
<1>1. /\ DOMAIN old = D
      /\ \A w \in D : old[w] = IF w = Tilde THEN hm ELSE vals[First(keys, n, w)]
  BY DEF MapOf
<1>2. newer = [w \in E |-> IF w = Tilde THEN hm ELSE values[First(new, m, w)]]
  BY <1>0 DEF MapOf
<1>3. E = D \cup {key}
  BY DEF Changed
<1>4. T \subseteq {Tilde}
  OBVIOUS
<1> HIDE DEF old, newer, K, T
<1>5. ASSUME NEW w \in E
      PROVE  (IF w = Tilde THEN hm ELSE values[First(new, m, w)]) =
               IF w = key THEN value ELSE old[w]
  <2>1. CASE w = key
    BY <2>1 DEF Changed
  <2>2. CASE w # key
    <3>1. w \in D
      BY <1>3, <2>2
    <3>2. w # Tilde => w \in K \ {Tilde}
      BY <1>4, <3>1
    <3>. QED BY <1>0, <1>1, <2>2, <3>1, <3>2 DEF Changed
  <2>. QED BY <2>1, <2>2
<1> HIDE DEF E, D
<1>6. newer = [w \in E |-> IF w = key THEN value ELSE old[w]]
  BY <1>2, <1>5
<1>7. DOMAIN old \cup {key} = E
  BY <1>1, <1>3
<1>. QED BY <1>6, <1>7 DEF Assigned, old, newer
ActualKeys(list) == [i \in 1 .. Len(list) |-> Dollar(list[i].name)]
WarmupKeys(list) == [i \in 1 .. Len(list) |-> list[i].expand_name]
Values(list) == [i \in 1 .. Len(list) |-> list[i].value]

PlaceOfName(list, name) ==
  LET I == {j \in 1 .. Len(list) : list[j].name = name}
  IN IF I # {} THEN Min(I) ELSE 0

ActualMap(list, hm) ==
  [w \in {Dollar(v.name) : v \in ToSet(list)} \cup (IF hm = NoPath THEN {} ELSE {Tilde}) |->
     IF w = Tilde THEN hm ELSE list[PlaceOfName(list, Undollar(w))].value]

LEMMA ActualEnvUnfolds ==
  Actual!EnvOf = ActualMap(var_list, home) /\ Actual!EnvOf' = ActualMap(var_list', home')
<1>1. \A name : Actual!find_var_by_name(name) = PlaceOfName(var_list, name)
  BY DEF Actual!find_var_by_name, Actual!SelectInSeq, Actual!Min, Min, PlaceOfName
<1>2. \A name : Actual!find_var_by_name(name)' = PlaceOfName(var_list', name)
  BY DEF Actual!find_var_by_name, Actual!SelectInSeq, Actual!Min, Min, PlaceOfName
<1>3. Actual!ToSet(var_list) = ToSet(var_list) /\ Actual!ToSet(var_list') = ToSet(var_list')
  BY DEF Actual!ToSet, ToSet
<1>4. Actual!EnvOf = ActualMap(var_list, home)
  BY <1>1, <1>3, SameWords DEF Actual!EnvOf, ActualMap, Tilde
<1>5. Actual!EnvOf' = ActualMap(var_list', home')
  BY <1>2, <1>3, SameWords DEF Actual!EnvOf, ActualMap, Tilde
<1>. QED BY <1>4, <1>5

LEMMA ActualMapIs ==
  ASSUME NEW list \in Seq(ActualNode), NEW hm
  PROVE  /\ ActualMap(list, hm) = MapOf(ActualKeys(list), Values(list), Len(list), hm)
         /\ \A i \in 1 .. Len(list) : /\ list[i].name \in AnyWord
                                      /\ ActualKeys(list)[i] = Dollar(list[i].name)
                                      /\ ActualKeys(list)[i] # Tilde
         /\ \A name \in AnyWord :
              PlaceOfName(list, name) = First(ActualKeys(list), Len(list), Dollar(name))
<1> DEFINE l == Len(list)
           K == ActualKeys(list)
<1>1. l \in Nat /\ DOMAIN list = 1 .. l /\ \A i \in 1 .. l : list[i] \in ActualNode
  BY LenProperties, ElementOfSeq
<1>2. \A i \in 1 .. l : list[i].name \in AnyWord /\ K[i] = Dollar(list[i].name)
  BY <1>1 DEF ActualNode, ActualKeys
<1>3. \A i \in 1 .. l : K[i] # Tilde
  BY <1>2, DollarWord DEF Tilde
<1>4. ASSUME NEW name \in AnyWord
      PROVE  PlaceOfName(list, name) = First(K, l, Dollar(name))
  <2>1. \A i \in 1 .. l : list[i].name = name <=> K[i] = Dollar(name)
    <3> TAKE i \in 1 .. l
    <3>1. Undollar(Dollar(name)) = name /\ Undollar(Dollar(list[i].name)) = list[i].name
      BY <1>2, Undollared
    <3>. QED BY <1>2, <3>1
  <2> HIDE DEF K
  <2>2. {j \in 1 .. l : list[j].name = name} = {j \in 1 .. l : K[j] = Dollar(name)}
    BY <2>1
  <2>. QED BY <2>2 DEF PlaceOfName, First
<1>5. {Dollar(v.name) : v \in ToSet(list)} = {K[i] : i \in 1 .. l} \ {Tilde}
  <2>1. \A v \in ToSet(list) : \E i \in 1 .. l : v = list[i]
    BY <1>1 DEF ToSet
  <2>2. \A i \in 1 .. l : list[i] \in ToSet(list)
    BY <1>1 DEF ToSet
  <2>3. {Dollar(v.name) : v \in ToSet(list)} = {Dollar(list[i].name) : i \in 1 .. l}
    BY <2>1, <2>2
  <2> HIDE DEF K
  <2>4. {K[i] : i \in 1 .. l} = {Dollar(list[i].name) : i \in 1 .. l}
    BY <1>2, Zenon
  <2>5. Tilde \notin {K[i] : i \in 1 .. l}
    BY <1>3, Zenon
  <2>. QED BY <2>3, <2>4, <2>5, Zenon
<1> DEFINE D == {Dollar(v.name) : v \in ToSet(list)}
           T == IF hm = NoPath THEN {} ELSE {Tilde}
<1>6. ASSUME NEW w \in D \cup T, w # Tilde
      PROVE  list[PlaceOfName(list, Undollar(w))].value = Values(list)[First(K, l, w)]
  <2>1. w \in {K[i] : i \in 1 .. l}
    BY <1>5, <1>6
  <2>2. PICK i \in 1 .. l : w = Dollar(list[i].name)
    BY <1>2, <2>1
  <2> DEFINE p == First(K, l, w)
  <2>3. Undollar(w) \in AnyWord /\ Dollar(Undollar(w)) = w
    BY <1>2, <2>2, Undollared
  <2>4. PlaceOfName(list, Undollar(w)) = p
    BY <1>4, <2>3
  <2>5. p \in 0 .. l /\ (p = 0 => \A j \in 1 .. l : K[j] # w)
    <3> HIDE DEF K, D, T
    <3>1. l \in Nat
      BY <1>1
    <3> HIDE DEF l
    <3>. QED BY <3>1, FirstIs
  <2> HIDE DEF p, K
  <2>6. p # 0
    BY <1>2, <2>2, <2>5
  <2>7. p \in 1 .. l
    BY <1>1, <2>5, <2>6
  <2>. QED BY <2>4, <2>7 DEF Values, p
<1>7. ActualMap(list, hm) = MapOf(K, Values(list), l, hm)
  <2> DEFINE f(w) == IF w = Tilde THEN hm ELSE list[PlaceOfName(list, Undollar(w))].value
             g(w) == IF w = Tilde THEN hm ELSE Values(list)[First(K, l, w)]
  <2>1. \A w \in D \cup T : f(w) = g(w)
    BY <1>6
  <2>2. ActualMap(list, hm) = [w \in D \cup T |-> f(w)]
    BY DEF ActualMap
  <2>3. MapOf(K, Values(list), l, hm) = [w \in D \cup T |-> g(w)]
    BY <1>5 DEF MapOf
  <2> HIDE DEF f, g, D, T
  <2>. QED BY <2>1, <2>2, <2>3
<1>. QED BY <1>2, <1>3, <1>4, <1>7

(* What the later shell replaces a word by is its value in the map.        *)
LEMMA ActualValue ==
  ASSUME ActualList(var_list, heap), OfActual, NEW w \in AnyWord
  PROVE  Actual!expand_cmd_arg(w) = ValueIn(EnvOf, w)
<1> DEFINE l == Len(var_list)
           K == ActualKeys(var_list)
           m == MapOf(K, Values(var_list), l, home)
           T == IF home = NoPath THEN {} ELSE {Tilde}
<1>1. l \in Nat /\ var_list \in Seq(ActualNode)
  BY LenProperties DEF ActualList
<1>2. ValueIn(EnvOf, w) = IF w \in DOMAIN m THEN m[w] ELSE w
  <2>1. EnvOf = m
    BY <1>1, ActualMapIs, ActualEnvUnfolds DEF EnvOf
  <2>. QED BY <2>1 DEF ValueIn
<1>3. /\ DOMAIN m = ({K[i] : i \in 1 .. l} \ {Tilde}) \cup T
      /\ \A u \in DOMAIN m : m[u] = IF u = Tilde THEN home ELSE Values(var_list)[First(K, l, u)]
  BY DEF MapOf
<1> DEFINE i == IF IsUserVar(w) THEN PlaceOfName(var_list, Undollar(w)) ELSE 0
<1>4. Actual!expand_cmd_arg(w) =
        IF w = Tilde THEN IF home = NoPath THEN w ELSE home
        ELSE IF i = 0 THEN w ELSE var_list[i].value
  <2>1. \A name : Actual!find_var_by_name(name) = PlaceOfName(var_list, name)
    BY DEF Actual!find_var_by_name, Actual!SelectInSeq, Actual!Min, Min, PlaceOfName
  <2>2. Actual!IsUserVar(w) = IsUserVar(w)
    BY DEF Actual!IsUserVar, IsUserVar
  <2>. QED BY <2>1, <2>2, SameWords DEF Actual!expand_cmd_arg, Tilde
<1>5. /\ \A j \in 1 .. l : K[j] # Tilde /\ IsUserVar(K[j])
      /\ IsUserVar(w) => PlaceOfName(var_list, Undollar(w)) = First(K, l, w)
  <2>1. \A j \in 1 .. l : /\ var_list[j].name \in AnyWord /\ K[j] # Tilde
                          /\ K[j] = Dollar(var_list[j].name)
    BY <1>1, ActualMapIs
  <2>2. IsUserVar(w) => Undollar(w) \in AnyWord /\ Dollar(Undollar(w)) = w
    BY Undollared
  <2>3. IsUserVar(w) => PlaceOfName(var_list, Undollar(w)) = First(K, l, w)
    BY <1>1, <2>2, ActualMapIs
  <2>. QED BY <2>1, <2>3, Undollared
<1> DEFINE p == First(K, l, w)
<1>6. /\ p \in 0 .. l /\ (p = 0 => \A j \in 1 .. l : K[j] # w)
      /\ p # 0 => K[p] = w
  BY <1>1, FirstIs
<1>7. p # 0 => Values(var_list)[p] = var_list[p].value
  BY <1>1, <1>6 DEF Values
<1>8. i = IF IsUserVar(w) THEN p ELSE 0
  BY <1>5
<1> HIDE DEF i, p, m, K
<1>9. CASE w = Tilde
  BY <1>2, <1>3, <1>4, <1>9
<1>10. CASE w # Tilde /\ p # 0
  <2>1. p \in 1 .. l /\ K[p] = w /\ IsUserVar(w)
    BY <1>1, <1>5, <1>6, <1>10
  <2>2. w \in DOMAIN m
    BY <1>3, <1>10, <2>1
  <2>. QED BY <1>2, <1>3, <1>4, <1>7, <1>8, <1>10, <2>1, <2>2 DEF p
<1>11. CASE w # Tilde /\ p = 0
  <2>1. w \notin DOMAIN m
    BY <1>3, <1>6, <1>11
  <2>. QED BY <1>2, <1>4, <1>8, <1>11, <2>1
<1>. QED BY <1>9, <1>10, <1>11
(* The same for the list of the earlier shell, whose nodes are named with  *)
(* their dollar sign, but for the first.                                   *)
PlaceOfKey(list, key) ==
  LET I == {j \in 1 .. Len(list) : list[j].expand_name = key}
  IN IF I # {} THEN Min(I) ELSE 0

WarmupMap(list) ==
  [w \in {v.expand_name : v \in {u \in ToSet(list) : u.value # NoPath}} |->
     list[PlaceOfKey(list, w)].value]

OneTilde(list) == \A i \in 2 .. Len(list) : list[i].expand_name # Tilde

LEMMA WarmupEnvUnfolds ==
  Warmup!EnvOf = WarmupMap(var_list) /\ Warmup!EnvOf' = WarmupMap(var_list')
<1>1. \A key : Warmup!address_of_var(key) = PlaceOfKey(var_list, key)
  BY DEF Warmup!address_of_var, Warmup!SelectInSeq, Warmup!Min, Min, PlaceOfKey
<1>2. \A key : Warmup!address_of_var(key)' = PlaceOfKey(var_list', key)
  BY DEF Warmup!address_of_var, Warmup!SelectInSeq, Warmup!Min, Min, PlaceOfKey
<1>3. Warmup!ToSet(var_list) = ToSet(var_list) /\ Warmup!ToSet(var_list') = ToSet(var_list')
  BY DEF Warmup!ToSet, ToSet
<1>4. Warmup!EnvOf = WarmupMap(var_list)
  BY <1>1, <1>3, SameWords DEF Warmup!EnvOf, WarmupMap
<1>5. Warmup!EnvOf' = WarmupMap(var_list')
  BY <1>2, <1>3, SameWords DEF Warmup!EnvOf, WarmupMap
<1>. QED BY <1>4, <1>5

LEMMA WarmupMapIs ==
  ASSUME NEW list, NEW h, NEW hm, WarmupList(list, h, hm), OneTilde(list)
  PROVE  /\ WarmupMap(list) = MapOf(WarmupKeys(list), Values(list), Len(list), hm)
         /\ \A i \in 1 .. Len(list) : /\ WarmupKeys(list)[i] = list[i].expand_name
                                      /\ Values(list)[i] = list[i].value
         /\ \A key : PlaceOfKey(list, key) = First(WarmupKeys(list), Len(list), key)
<1> DEFINE l == Len(list)
           K == WarmupKeys(list)
           T == IF hm = NoPath THEN {} ELSE {Tilde}
           set == {u \in ToSet(list) : u.value # NoPath}
<1>1. /\ l \in Nat /\ 1 <= l /\ DOMAIN list = 1 .. l
      /\ list[1].expand_name = Tilde /\ list[1].value = hm
      /\ \A i \in 2 .. l : list[i].value # NoPath /\ list[i].expand_name # Tilde
  BY LenProperties DEF WarmupList, OneTilde, Tilde
<1>2. \A i \in 1 .. l : K[i] = list[i].expand_name /\ Values(list)[i] = list[i].value
  BY DEF WarmupKeys, Values
<1>3. \A key : PlaceOfKey(list, key) = First(K, l, key)
  <2> TAKE key
  <2> HIDE DEF K
  <2>1. {j \in 1 .. l : list[j].expand_name = key} = {j \in 1 .. l : K[j] = key}
    BY <1>2
  <2>. QED BY <2>1 DEF PlaceOfKey, First
<1>4. {v.expand_name : v \in set} = ({K[i] : i \in 1 .. l} \ {Tilde}) \cup T
  <2>1. \A i \in 1 .. l : i = 1 \/ i \in 2 .. l
    BY <1>1
  <2>2. \A v \in ToSet(list) : \E i \in 1 .. l : v = list[i]
    BY <1>1 DEF ToSet
  <2>3. \A i \in 1 .. l : list[i] \in ToSet(list)
    BY <1>1 DEF ToSet
  <2> HIDE DEF K
  <2>4. ASSUME NEW v \in set PROVE v.expand_name \in ({K[i] : i \in 1 .. l} \ {Tilde}) \cup T
    <3>1. PICK i \in 1 .. l : v = list[i]
      BY <2>2
    <3>2. CASE i = 1
      <4>1. hm # NoPath
        BY <1>1, <3>1, <3>2
      <4>. QED BY <1>1, <3>1, <3>2, <4>1
    <3>3. CASE i \in 2 .. l
      BY <1>1, <1>2, <3>1, <3>3
    <3>. QED BY <2>1, <3>2, <3>3
  <2>5. ASSUME NEW w \in {K[i] : i \in 1 .. l} \ {Tilde}
        PROVE  w \in {v.expand_name : v \in set}
    <3>1. PICK i \in 1 .. l : w = K[i]
      OBVIOUS
    <3>2. i \in 2 .. l
      BY <1>1, <1>2, <2>1, <3>1
    <3>3. list[i] \in set /\ list[i].expand_name = w
      BY <1>1, <1>2, <2>3, <3>1, <3>2
    <3>. QED BY <3>3
  <2>6. ASSUME hm # NoPath PROVE Tilde \in {v.expand_name : v \in set}
    <3>1. list[1] \in set /\ list[1].expand_name = Tilde
      BY <1>1, <2>3, <2>6
    <3>. QED BY <3>1
  <2> HIDE DEF set
  <2>. QED BY <2>4, <2>5, <2>6
<1> DEFINE D == ({K[i] : i \in 1 .. l} \ {Tilde}) \cup T
<1>5. ASSUME NEW w \in D
      PROVE  list[PlaceOfKey(list, w)].value =
               IF w = Tilde THEN hm ELSE Values(list)[First(K, l, w)]
  <2> DEFINE p == First(K, l, w)
  <2>1. /\ p \in 0 .. l /\ (p = 0 => \A j \in 1 .. l : K[j] # w)
        /\ p # 0 => K[p] = w
    BY <1>1, FirstIs
  <2> HIDE DEF p, K
  <2>2. CASE w = Tilde
    <3>1. K[1] = w /\ 1 \in 1 .. l
      BY <1>1, <1>2, <2>2
    <3>2. p \in 1 .. l /\ K[p] = w
      BY <1>1, <2>1, <3>1
    <3>3. p = 1
      <4>1. p \in 2 .. l => K[p] # Tilde
        BY <1>1, <1>2, <3>2
      <4>. QED BY <1>1, <2>2, <3>2, <4>1
    <3>. QED BY <1>1, <1>3, <2>2, <3>3 DEF p
  <2>3. CASE w # Tilde
    <3>1. w \in {K[i] : i \in 1 .. l}
      BY <2>3
    <3>2. p \in 1 .. l
      BY <1>1, <2>1, <3>1
    <3>. QED BY <1>2, <1>3, <2>3, <3>2 DEF p
  <2>. QED BY <2>2, <2>3
<1>6. WarmupMap(list) = MapOf(K, Values(list), l, hm)
  <2> DEFINE f(w) == list[PlaceOfKey(list, w)].value
             g(w) == IF w = Tilde THEN hm ELSE Values(list)[First(K, l, w)]
  <2>1. \A w \in D : f(w) = g(w)
    BY <1>5
  <2>2. WarmupMap(list) = [w \in D |-> f(w)]
    BY <1>4 DEF WarmupMap
  <2>3. MapOf(K, Values(list), l, hm) = [w \in D |-> g(w)]
    BY DEF MapOf
  <2> HIDE DEF f, g, D
  <2>. QED BY <2>1, <2>2, <2>3
<1>. QED BY <1>2, <1>3, <1>6

(* One call of expand_variables replaces a word by its value in the map,   *)
(* unless it meets ~ without a HOME.                                       *)
LEMMA WarmupValue ==
  ASSUME WarmupList(var_list, heap, home), OneTilde(var_list), ~OfActual, NEW w,
         NEW a, a = Warmup!address_of_var(w), a # 0 => var_list[a].value # NoPath
  PROVE  ValueIn(EnvOf, w) = IF a # 0 THEN var_list[a].value ELSE w
<1> DEFINE l == Len(var_list)
           K == WarmupKeys(var_list)
           m == MapOf(K, Values(var_list), l, home)
           T == IF home = NoPath THEN {} ELSE {Tilde}
<1>1. l \in Nat /\ 1 <= l /\ var_list[1].expand_name = Tilde /\ var_list[1].value = home
  BY LenProperties DEF WarmupList, Tilde
<1>2. ValueIn(EnvOf, w) = IF w \in DOMAIN m THEN m[w] ELSE w
  <2>1. EnvOf = m
    BY WarmupMapIs, WarmupEnvUnfolds DEF EnvOf
  <2>. QED BY <2>1 DEF ValueIn
<1>3. /\ DOMAIN m = ({K[i] : i \in 1 .. l} \ {Tilde}) \cup T
      /\ \A u \in DOMAIN m : m[u] = IF u = Tilde THEN home ELSE Values(var_list)[First(K, l, u)]
  BY DEF MapOf
<1>4. a = First(K, l, w)
  <2>1. a = PlaceOfKey(var_list, w)
    BY DEF Warmup!address_of_var, Warmup!SelectInSeq, Warmup!Min, Min, PlaceOfKey
  <2>. QED BY <2>1, WarmupMapIs
<1>5. \A i \in 1 .. l : K[i] = var_list[i].expand_name /\ Values(var_list)[i] = var_list[i].value
  BY WarmupMapIs
<1>6. \A i \in 2 .. l : K[i] # Tilde
  <2> TAKE i \in 2 .. l
  <2>1. i \in 1 .. l
    BY <1>1
  <2>. QED BY <1>5, <2>1 DEF OneTilde
<1>7. /\ a \in 0 .. l /\ (a = 0 => \A j \in 1 .. l : K[j] # w)
      /\ a # 0 => K[a] = w
  BY <1>1, <1>4, FirstIs
<1> HIDE DEF m, K
<1>8. CASE a = 0
  <2>1. w # Tilde
    <3>1. K[1] = Tilde /\ 1 \in 1 .. l
      BY <1>1, <1>5
    <3>. QED BY <1>7, <1>8, <3>1
  <2>2. w \notin DOMAIN m
    BY <1>3, <1>7, <1>8, <2>1
  <2>. QED BY <1>2, <1>8, <2>2
<1>9. CASE a = 1
  <2>1. w = Tilde /\ var_list[a].value = home /\ home # NoPath
    BY <1>1, <1>5, <1>7, <1>9
  <2>2. w \in DOMAIN m
    BY <1>3, <2>1
  <2>. QED BY <1>2, <1>3, <1>9, <2>1, <2>2
<1>10. CASE a \in 2 .. l
  <2>1. a \in 1 .. l /\ a # 0 /\ w # Tilde /\ K[a] = w
    BY <1>1, <1>6, <1>7, <1>10
  <2>2. w \in DOMAIN m
    BY <1>3, <2>1
  <2>. QED BY <1>2, <1>3, <1>4, <1>5, <2>1, <2>2
<1>11. a = 0 \/ a = 1 \/ a \in 2 .. l
  BY <1>1, <1>7
<1>. QED BY <1>8, <1>9, <1>10, <1>11

-----------------------------------------------------------------------------
(* What a new value, or a new variable, does to the map.                   *)

LEMMA FirstSame ==
  ASSUME NEW keys, NEW new, NEW n \in Nat, NEW key,
         \A j \in 1 .. n : new[j] = keys[j]
  PROVE  First(new, n, key) = First(keys, n, key)
<1>1. {j \in 1 .. n : new[j] = key} = {j \in 1 .. n : keys[j] = key}
  OBVIOUS
<1>. QED BY <1>1 DEF First

(* The three ways in which a list changes. *)
ReplacedAt(i, keys, vals, n, new, values, key, value) ==
  /\ n \in Nat /\ i \in 1 .. n /\ i = First(keys, n, key)
  /\ key # Tilde
  /\ \A j \in 1 .. n : new[j] = keys[j] /\ values[j] = IF j = i THEN value ELSE vals[j]

AddedInFront(keys, vals, n, new, values, key, value) ==
  /\ n \in Nat /\ First(keys, n, key) = 0
  /\ key # Tilde
  /\ new[1] = key /\ values[1] = value
  /\ \A j \in 1 .. n : new[j + 1] = keys[j] /\ values[j + 1] = vals[j]

AddedAtEnd(keys, vals, n, new, values, key, value) ==
  /\ n \in Nat /\ First(keys, n, key) = 0
  /\ key # Tilde
  /\ new[n + 1] = key /\ values[n + 1] = value
  /\ \A j \in 1 .. n : new[j] = keys[j] /\ values[j] = vals[j]

LEMMA MapReplaced ==
  ASSUME NEW i, NEW keys, NEW vals, NEW new, NEW values, NEW n, NEW hm,
         NEW key, NEW value, ReplacedAt(i, keys, vals, n, new, values, key, value)
  PROVE  MapOf(new, values, n, hm) = Assigned(MapOf(keys, vals, n, hm), key, value)
<1> USE DEF ReplacedAt
<1>1. \A w : First(new, n, w) = First(keys, n, w)
  BY FirstSame
<1>2. keys[i] = key
  BY FirstIs
<1>3. Keys(new, n) = Keys(keys, n) \cup {key}
  BY <1>2 DEF Keys
<1>4. values[First(new, n, key)] = value
  BY <1>1
<1>5. ASSUME NEW w \in Keys(keys, n) \ {Tilde}, w # key
      PROVE  values[First(new, n, w)] = vals[First(keys, n, w)]
  <2> DEFINE p == First(keys, n, w)
  <2>1. /\ p \in 0 .. n /\ (p = 0 => \A j \in 1 .. n : keys[j] # w)
        /\ p # 0 => keys[p] = w
    BY FirstIs
  <2>2. p = First(new, n, w)
    BY <1>1
  <2> HIDE DEF p
  <2>3. p \in 1 .. n /\ p # i
    BY <1>2, <1>5, <2>1 DEF Keys
  <2>. QED BY <2>2, <2>3 DEF p
<1>6. Changed(keys, vals, n, new, values, n, key, value)
  BY <1>3, <1>4, <1>5 DEF Changed
<1>. QED BY <1>6, MapChanges

LEMMA MapInFront ==
  ASSUME NEW keys, NEW vals, NEW new, NEW values, NEW n, NEW hm,
         NEW key, NEW value, AddedInFront(keys, vals, n, new, values, key, value)
  PROVE  MapOf(new, values, n + 1, hm) = Assigned(MapOf(keys, vals, n, hm), key, value)
<1> USE DEF AddedInFront
<1>1. First(new, n + 1, key) = 1
  <2> DEFINE m == n + 1
  <2>1. 1 \in 1 .. m /\ m \in Nat /\ new[1] = key
    OBVIOUS
  <2>2. \A j \in 1 .. 1 - 1 : new[j] # key
    OBVIOUS
  <2> HIDE DEF m, AddedInFront
  <2>3. First(new, m, key) = 1
    BY <2>1, <2>2, FirstOnly
  <2>. QED BY <2>3 DEF m
<1>2. ASSUME NEW w \in Keys(keys, n) \ {Tilde}, w # key
      PROVE  values[First(new, n + 1, w)] = vals[First(keys, n, w)]
  <2> DEFINE p == First(keys, n, w)
  <2>1. /\ p \in 0 .. n /\ (p = 0 => \A j \in 1 .. n : keys[j] # w)
        /\ p # 0 => keys[p] = w /\ \A j \in 1 .. p - 1 : keys[j] # w
    BY FirstIs
  <2> HIDE DEF p
  <2>2. p \in 1 .. n
    BY <2>1 DEF Keys
  <2>3. p + 1 \in 1 .. n + 1 /\ n + 1 \in Nat /\ new[p + 1] = w
    BY <2>1, <2>2
  <2>4. ASSUME NEW j \in 1 .. (p + 1) - 1 PROVE new[j] # w
    <3>1. CASE j = 1
      BY <1>2, <3>1
    <3>2. CASE j # 1
      <4>1. j - 1 \in 1 .. p - 1 /\ j - 1 \in 1 .. n /\ (j - 1) + 1 = j
        BY <2>2, <3>2
      <4>2. new[(j - 1) + 1] = keys[j - 1]
        BY <4>1
      <4>. QED BY <2>1, <2>2, <4>1, <4>2
    <3>. QED BY <3>1, <3>2
  <2>5. First(new, n + 1, w) = p + 1
    BY <2>3, <2>4, FirstOnly
  <2>. QED BY <2>2, <2>5 DEF p
<1>3. Keys(new, n + 1) = Keys(keys, n) \cup {key}
  <2>1. \A j \in 1 .. n + 1 : j = 1 \/ (j - 1 \in 1 .. n /\ (j - 1) + 1 = j)
    OBVIOUS
  <2>2. \A j \in 1 .. n : j + 1 \in 1 .. n + 1
    OBVIOUS
  <2>3. \A j \in 1 .. n + 1 : new[j] \in {keys[x] : x \in 1 .. n} \cup {key}
    <3> TAKE j \in 1 .. n + 1
    <3>1. CASE j = 1
      BY <3>1
    <3>2. CASE j - 1 \in 1 .. n /\ (j - 1) + 1 = j
      <4>1. new[(j - 1) + 1] = keys[j - 1]
        BY <3>2
      <4>. QED BY <3>2, <4>1
    <3>. QED BY <2>1, <3>1, <3>2
  <2>4. \A x \in 1 .. n : keys[x] \in {new[j] : j \in 1 .. n + 1}
    BY <2>2
  <2>5. key \in {new[j] : j \in 1 .. n + 1}
    <3>1. 1 \in 1 .. n + 1
      OBVIOUS
    <3>. QED BY <3>1
  <2>. QED BY <2>3, <2>4, <2>5 DEF Keys
<1>4. values[First(new, n + 1, key)] = value
  BY <1>1
<1>6. Changed(keys, vals, n, new, values, n + 1, key, value)
  BY <1>2, <1>3, <1>4 DEF Changed
<1>. QED BY <1>6, MapChanges

LEMMA MapAtEnd ==
  ASSUME NEW keys, NEW vals, NEW new, NEW values, NEW n, NEW hm,
         NEW key, NEW value, AddedAtEnd(keys, vals, n, new, values, key, value)
  PROVE  MapOf(new, values, n + 1, hm) = Assigned(MapOf(keys, vals, n, hm), key, value)
<1> USE DEF AddedAtEnd
<1>0. n + 1 \in Nat /\ n + 1 \in 1 .. n + 1 /\ (n + 1) - 1 = n
  OBVIOUS
<1>1. First(new, n + 1, key) = n + 1
  <2>1. \A j \in 1 .. n : keys[j] # key
    BY FirstIs
  <2>2. \A j \in 1 .. (n + 1) - 1 : new[j] # key
    BY <1>0, <2>1
  <2>. QED BY <1>0, <2>2, FirstOnly
<1>2. ASSUME NEW w \in Keys(keys, n) \ {Tilde}, w # key
      PROVE  values[First(new, n + 1, w)] = vals[First(keys, n, w)]
  <2> DEFINE p == First(keys, n, w)
  <2>1. /\ p \in 0 .. n /\ (p = 0 => \A j \in 1 .. n : keys[j] # w)
        /\ p # 0 => keys[p] = w /\ \A j \in 1 .. p - 1 : keys[j] # w
    BY FirstIs
  <2> HIDE DEF p
  <2>2. p \in 1 .. n
    BY <2>1 DEF Keys
  <2>3. p \in 1 .. n + 1 /\ new[p] = w /\ \A j \in 1 .. p - 1 : new[j] # w
    BY <2>1, <2>2
  <2>4. First(new, n + 1, w) = p
    BY <1>0, <2>3, FirstOnly
  <2>. QED BY <2>2, <2>4 DEF p
<1>3. Keys(new, n + 1) = Keys(keys, n) \cup {key}
  <2>1. \A j \in 1 .. n + 1 : j = n + 1 \/ j \in 1 .. n
    OBVIOUS
  <2>2. \A j \in 1 .. n : j \in 1 .. n + 1
    OBVIOUS
  <2>3. \A j \in 1 .. n + 1 : new[j] \in {keys[x] : x \in 1 .. n} \cup {key}
    BY <2>1
  <2>4. \A x \in 1 .. n : keys[x] \in {new[j] : j \in 1 .. n + 1}
    BY <2>2
  <2>5. key \in {new[j] : j \in 1 .. n + 1}
    BY <1>0
  <2>. QED BY <2>3, <2>4, <2>5 DEF Keys
<1>4. values[First(new, n + 1, key)] = value
  BY <1>1
<1>6. Changed(keys, vals, n, new, values, n + 1, key, value)
  BY <1>2, <1>3, <1>4 DEF Changed
<1>. QED BY <1>6, MapChanges

LEMMA ActualAssigns ==
  ASSUME ActualList(var_list, heap), NEW name \in AnyWord, NEW value \in AnyWord,
         NEW i, i = Actual!find_var_by_name(name), UNCHANGED home,
         IF i # 0 THEN Actual!ReplaceValue(i, value) ELSE Actual!AddVar(name, value)
  PROVE  Actual!EnvOf' = Assigned(Actual!EnvOf, Dollar(name), value)
<1> DEFINE l == Len(var_list)
           K == ActualKeys(var_list)
           V == Values(var_list)
           L == ActualKeys(var_list')
           W == Values(var_list')
           key == Dollar(name)
<1>1. /\ var_list \in Seq(ActualNode) /\ l \in Nat
      /\ DOMAIN var_list = 1 .. l /\ key # Tilde
      /\ \A j \in 1 .. l : K[j] = Dollar(var_list[j].name) /\ V[j] = var_list[j].value
  BY LenProperties, DollarWord DEF ActualList, Tilde, ActualKeys, Values
<1>2. i = First(K, l, key)
  <2>1. i = PlaceOfName(var_list, name)
    BY DEF Actual!find_var_by_name, Actual!SelectInSeq, Actual!Min, Min, PlaceOfName
  <2>. QED BY <1>1, <2>1, ActualMapIs
<1>3. i \in 0 .. l
  BY <1>1, <1>2, FirstIs
<1>4. Actual!EnvOf = MapOf(K, V, l, home)
  BY <1>1, ActualMapIs, ActualEnvUnfolds
<1>5. CASE i # 0
  <2>1. i \in 1 .. l
    BY <1>1, <1>3, <1>5
  <2>2. Actual!ReplaceValue(i, value)
    BY <1>5
  <2>3. ActualList(var_list', heap')
    BY <2>1, <2>2, ActualReplaces
  <2>4. /\ Len(var_list') = l
        /\ \A j \in 1 .. l : /\ var_list'[j].name = var_list[j].name
                             /\ var_list'[j].value = IF j = i THEN value ELSE var_list[j].value
    <3> DEFINE clone == Actual!Fresh(heap)
               w == [var_list[i] EXCEPT !.value = value, !.at.value = clone]
    <3>1. var_list[i] \in ActualNode
      BY <1>1, <2>1, ElementOfSeq
    <3>2. var_list' = [var_list EXCEPT ![i] = w]
      BY <2>2 DEF Actual!ReplaceValue
    <3> HIDE DEF clone
    <3>3. w.name = var_list[i].name /\ w.value = value
      BY <3>1 DEF ActualNode
    <3> HIDE DEF w
    <3>4. DOMAIN var_list' = 1 .. l /\ \A j \in 1 .. l : var_list'[j] = IF j = i THEN w ELSE var_list[j]
      BY <1>1, <2>1, <3>2
    <3>5. Len(var_list') = l
      <4>1. var_list' \in Seq(ActualNode)
        BY <2>3 DEF ActualList
      <4>. QED BY <1>1, <3>4, <4>1, LenProperties
    <3>. QED BY <3>3, <3>4, <3>5
  <2>5. \A j \in 1 .. l : L[j] = K[j] /\ W[j] = IF j = i THEN value ELSE V[j]
    BY <1>1, <2>4 DEF ActualKeys, Values
  <2>6. Actual!EnvOf' = MapOf(L, W, l, home)
    <3>1. Actual!EnvOf' = ActualMap(var_list', home)
      BY ActualEnvUnfolds
    <3>2. var_list' \in Seq(ActualNode)
      BY <2>3 DEF ActualList
    <3>3. ActualMap(var_list', home) = MapOf(L, W, Len(var_list'), home)
      BY <3>2, ActualMapIs
    <3> HIDE DEF L, W
    <3>. QED BY <2>4, <3>1, <3>3
  <2> HIDE DEF K, V, L, W, key
  <2>7. MapOf(L, W, l, home) = Assigned(MapOf(K, V, l, home), key, value)
    <3>1. ReplacedAt(i, K, V, l, L, W, key, value)
      BY <1>1, <1>2, <2>1, <2>5 DEF ReplacedAt, key
    <3>. QED BY <3>1, MapReplaced
  <2>. QED BY <1>4, <2>6, <2>7 DEF key
<1>6. CASE i = 0
  <2>2. Actual!AddVar(name, value)
    BY <1>6
  <2>3. ActualList(var_list', heap')
    BY <2>2, ActualAdds
  <2>4. /\ Len(var_list') = l + 1
        /\ var_list'[1].name = name /\ var_list'[1].value = value
        /\ \A j \in 1 .. l : var_list'[j + 1] = var_list[j]
    <3> DEFINE b1 == Block1(heap)
               b2 == Block2(heap)
               b3 == Block3(heap)
               v == [name |-> name, value |-> value,
                     at |-> [value |-> b1, name |-> b2, link |-> b3]]
    <3>1. var_list' = <<v>> \o var_list
      BY <2>2 DEF Actual!AddVar, Block1, Block2, Block3
    <3>2. v.name = name /\ v.value = value
      OBVIOUS
    <3> HIDE DEF v
    <3>3. <<v>> \in Seq({v}) /\ Len(<<v>>) = 1 /\ <<v>>[1] = v
      OBVIOUS
    <3>4. /\ Len(<<v>> \o var_list) = 1 + l
          /\ \A j \in 1 .. 1 + l :
               (<<v>> \o var_list)[j] = IF j <= 1 THEN <<v>>[j] ELSE var_list[j - 1]
      <4>1. <<v>> \in Seq(ActualNode \cup {v}) /\ var_list \in Seq(ActualNode \cup {v})
        BY <1>1
      <4>. QED BY <3>3, <4>1, ConcatProperties
    <3>5. ASSUME NEW j \in 1 .. l PROVE var_list'[j + 1] = var_list[j]
      <4>1. j + 1 \in 1 .. 1 + l /\ ~(j + 1 <= 1) /\ (j + 1) - 1 = j
        BY <1>1
      <4>. QED BY <3>1, <3>4, <4>1
    <3>6. 1 \in 1 .. 1 + l /\ 1 <= 1 /\ 1 + l = l + 1
      BY <1>1
    <3>. QED BY <3>1, <3>2, <3>3, <3>4, <3>5, <3>6
  <2>5. /\ L[1] = key /\ W[1] = value
        /\ \A j \in 1 .. l : L[j + 1] = K[j] /\ W[j + 1] = V[j]
    <3>1. 1 \in 1 .. l + 1 /\ \A j \in 1 .. l : j + 1 \in 1 .. l + 1
      BY <1>1
    <3>2. \A j \in 1 .. l + 1 : L[j] = Dollar(var_list'[j].name) /\ W[j] = var_list'[j].value
      BY <2>4 DEF ActualKeys, Values
    <3> HIDE DEF K, V, L, W
    <3>. QED BY <1>1, <2>4, <3>1, <3>2
  <2>6. Actual!EnvOf' = MapOf(L, W, l + 1, home)
    <3>1. Actual!EnvOf' = ActualMap(var_list', home)
      BY ActualEnvUnfolds
    <3>2. var_list' \in Seq(ActualNode)
      BY <2>3 DEF ActualList
    <3>3. ActualMap(var_list', home) = MapOf(L, W, Len(var_list'), home)
      BY <3>2, ActualMapIs
    <3> HIDE DEF L, W
    <3>. QED BY <2>4, <3>1, <3>3
  <2> HIDE DEF K, V, L, W, key
  <2>7. MapOf(L, W, l + 1, home) = Assigned(MapOf(K, V, l, home), key, value)
    <3>1. AddedInFront(K, V, l, L, W, key, value)
      BY <1>1, <1>2, <1>6, <2>5 DEF AddedInFront, key
    <3>. QED BY <3>1, MapInFront
  <2>. QED BY <1>4, <2>6, <2>7 DEF key
<1>. QED BY <1>5, <1>6

LEMMA WarmupAssigns ==
  ASSUME WarmupList(var_list, heap, home), OneTilde(var_list),
         NEW name \in AnyWord, name # Tilde,
         NEW value \in AnyWord, home = NoPath => value # Tilde,
         NEW i, i = Warmup!address_of_var(name), UNCHANGED home,
         IF i # 0 THEN Warmup!ReplaceValue(i, value) ELSE Warmup!AddVar(name, value)
  PROVE  /\ Warmup!EnvOf' = Assigned(Warmup!EnvOf, name, value)
         /\ OneTilde(var_list')
<1> DEFINE l == Len(var_list)
           K == WarmupKeys(var_list)
           V == Values(var_list)
           L == WarmupKeys(var_list')
           W == Values(var_list')
<1>1. /\ var_list \in Seq(WarmupNode) /\ l \in Nat /\ l >= 1
      /\ DOMAIN var_list = 1 .. l /\ var_list[1].expand_name = Tilde
      /\ \A j \in 1 .. l : K[j] = var_list[j].expand_name /\ V[j] = var_list[j].value
  BY LenProperties DEF WarmupList, Tilde, WarmupKeys, Values
<1>2. i = First(K, l, name)
  <2>1. i = PlaceOfKey(var_list, name)
    BY DEF Warmup!address_of_var, Warmup!SelectInSeq, Warmup!Min, Min, PlaceOfKey
  <2>. QED BY <1>1, <2>1, WarmupMapIs
<1>3. i \in 0 .. l /\ (i # 0 => K[i] = name)
  BY <1>1, <1>2, FirstIs
<1>4. Warmup!EnvOf = MapOf(K, V, l, home)
  BY <1>1, WarmupMapIs, WarmupEnvUnfolds
<1>5. CASE i # 0
  <2>1. i \in 2 .. l
    <3>1. K[1] = Tilde /\ 1 \in 1 .. l
      BY <1>1
    <3> HIDE DEF K
    <3>2. i # 1
      BY <1>3, <1>5, <3>1
    <3>. QED BY <1>1, <1>3, <1>5, <3>2
  <2>2. Warmup!ReplaceValue(i, value)
    BY <1>5
  <2>3. WarmupList(var_list', heap', home)
    BY <2>1, <2>2, WarmupReplaces DEF Tilde
  <2>4. /\ Len(var_list') = l
        /\ \A j \in 1 .. l : /\ var_list'[j].expand_name = var_list[j].expand_name
                             /\ var_list'[j].value = IF j = i THEN value ELSE var_list[j].value
    <3> DEFINE clone == Warmup!Allocated.value
               w == [var_list[i] EXCEPT !.value = value, !.at.value = clone]
    <3>1. var_list[i] \in WarmupNode /\ i \in 1 .. l
      BY <1>1, <2>1, ElementOfSeq
    <3>2. var_list' = [var_list EXCEPT ![i] = w]
      BY <2>2 DEF Warmup!ReplaceValue
    <3> HIDE DEF clone
    <3>3. w.expand_name = var_list[i].expand_name /\ w.value = value
      BY <3>1 DEF WarmupNode
    <3> HIDE DEF w
    <3>4. DOMAIN var_list' = 1 .. l /\ \A j \in 1 .. l : var_list'[j] = IF j = i THEN w ELSE var_list[j]
      BY <1>1, <3>1, <3>2
    <3>5. Len(var_list') = l
      <4>1. var_list' \in Seq(WarmupNode)
        BY <2>3 DEF WarmupList
      <4>. QED BY <1>1, <3>4, <4>1, LenProperties
    <3>. QED BY <3>3, <3>4, <3>5
  <2>5. \A j \in 1 .. l : L[j] = K[j] /\ W[j] = IF j = i THEN value ELSE V[j]
    BY <1>1, <2>4 DEF WarmupKeys, Values
  <2>6. OneTilde(var_list')
    <3>1. \A j \in 2 .. l : j \in 1 .. l
      BY <1>1
    <3>. QED BY <2>4, <3>1 DEF OneTilde
  <2>7. Warmup!EnvOf' = MapOf(L, W, l, home)
    <3>1. Warmup!EnvOf' = WarmupMap(var_list')
      BY WarmupEnvUnfolds
    <3>2. WarmupList(var_list', heap', home)
      BY <2>3
    <3>3. WarmupMap(var_list') = MapOf(L, W, Len(var_list'), home)
      BY <2>6, <3>2, WarmupMapIs
    <3> HIDE DEF L, W
    <3>. QED BY <2>4, <3>1, <3>3
  <2> HIDE DEF K, V, L, W
  <2>8. MapOf(L, W, l, home) = Assigned(MapOf(K, V, l, home), name, value)
    <3>1. i \in 1 .. l
      BY <1>1, <2>1
    <3>2. ReplacedAt(i, K, V, l, L, W, name, value)
      BY <1>1, <1>2, <2>5, <3>1 DEF ReplacedAt
    <3>. QED BY <3>2, MapReplaced
  <2>. QED BY <1>4, <2>6, <2>7, <2>8
<1>6. CASE i = 0
  <2>2. Warmup!AddVar(name, value)
    BY <1>6
  <2>3. WarmupList(var_list', heap', home)
    BY <2>2, WarmupAdds DEF Tilde
  <2>4. /\ Len(var_list') = l + 1
        /\ var_list'[l + 1].expand_name = name /\ var_list'[l + 1].value = value
        /\ \A j \in 1 .. l : var_list'[j] = var_list[j]
    <3> DEFINE at == Warmup!Allocated
               v == [expand_name |-> name, value |-> value, shouldFree |-> TRUE, at |-> at]
    <3>1. var_list' = Append(var_list, v)
      BY <2>2 DEF Warmup!AddVar
    <3>2. v.expand_name = name /\ v.value = value
      OBVIOUS
    <3> HIDE DEF v
    <3>3. var_list \in Seq(WarmupNode \cup {v}) /\ v \in WarmupNode \cup {v}
      BY <1>1
    <3>4. /\ Len(Append(var_list, v)) = l + 1 /\ Append(var_list, v)[l + 1] = v
          /\ \A j \in 1 .. l : Append(var_list, v)[j] = var_list[j]
      BY <3>3, AppendProperties
    <3>. QED BY <3>1, <3>2, <3>4
  <2>5. /\ L[l + 1] = name /\ W[l + 1] = value
        /\ \A j \in 1 .. l : L[j] = K[j] /\ W[j] = V[j]
    <3>1. l + 1 \in 1 .. l + 1 /\ \A j \in 1 .. l : j \in 1 .. l + 1
      BY <1>1
    <3>2. \A j \in 1 .. l + 1 : L[j] = var_list'[j].expand_name /\ W[j] = var_list'[j].value
      BY <2>4 DEF WarmupKeys, Values
    <3> HIDE DEF K, V, L, W
    <3>. QED BY <1>1, <2>4, <3>1, <3>2
  <2>6. OneTilde(var_list')
    <3>1. \A j \in 2 .. l + 1 : j = l + 1 \/ (j \in 2 .. l /\ j \in 1 .. l)
      BY <1>1
    <3>. QED BY <2>4, <3>1 DEF OneTilde
  <2>7. Warmup!EnvOf' = MapOf(L, W, l + 1, home)
    <3>1. Warmup!EnvOf' = WarmupMap(var_list')
      BY WarmupEnvUnfolds
    <3>2. WarmupList(var_list', heap', home)
      BY <2>3
    <3>3. WarmupMap(var_list') = MapOf(L, W, Len(var_list'), home)
      BY <2>6, <3>2, WarmupMapIs
    <3> HIDE DEF L, W
    <3>. QED BY <2>4, <3>1, <3>3
  <2> HIDE DEF K, V, L, W
  <2>8. MapOf(L, W, l + 1, home) = Assigned(MapOf(K, V, l, home), name, value)
    <3>1. AddedAtEnd(K, V, l, L, W, name, value)
      BY <1>1, <1>2, <1>6, <2>5 DEF AddedAtEnd
    <3>. QED BY <3>1, MapAtEnd
  <2>. QED BY <1>4, <2>6, <2>7, <2>8
<1>. QED BY <1>5, <1>6

-----------------------------------------------------------------------------
(* Lines.                                                                  *)

LEMMA LinePlaces ==
  ASSUME NEW line \in Seq(AnyWord)
  PROVE  LET s == parseCmdLines(line)
         IN /\ s \in Seq(Command) /\ Len(s) \in 0 .. Len(line) /\ DOMAIN s = 1 .. Len(s)
            /\ \A k \in DOMAIN s :
                 /\ s[k].arguments \in Seq(AnyWord)
                 /\ DOMAIN s[k].arguments = 1 .. Len(s[k].arguments)
                 /\ Len(s[k].arguments) \in 0 .. Len(line)
<1> DEFINE s == parseCmdLines(line)
           l == Len(line)
<1>1. s \in Seq(Command) /\ SaysWhatTheLineSays(line, s)
  BY ChainType, ParserRight
<1>2. l \in Nat /\ End(line) \in 1 .. l + 1
  BY LineEnds, LenProperties
<1> HIDE DEF s
<1>3. Len(s) \in Nat /\ DOMAIN s = 1 .. Len(s) /\ \A k \in 1 .. Len(s) : s[k] \in Command
  BY <1>1, LenProperties, ElementOfSeq
<1>4. ASSUME NEW T \in SUBSET (1 .. l) PROVE Cardinality(T) \in 0 .. l
  <2> DEFINE I == 1 .. l
  <2>1. IsFiniteSet(I) /\ Cardinality(I) = l
    <3> HIDE DEF l
    <3>1. 1 \in Int /\ l \in Int
      BY <1>2
    <3>2. IsFiniteSet(I) /\ Cardinality(I) = IF 1 > l THEN 0 ELSE l - 1 + 1
      BY <3>1, FS_Interval
    <3> HIDE DEF I
    <3>. QED BY <1>2, <3>2
  <2>2. IsFiniteSet(T) /\ Cardinality(T) <= l
    <3>1. T \in SUBSET I
      OBVIOUS
    <3> HIDE DEF I
    <3>. QED BY <2>1, <3>1, FS_Subset
  <2>3. Cardinality(T) \in Nat
    BY <2>2, FS_CardinalityType
  <2>. QED BY <1>2, <2>2, <2>3
<1>5. Len(s) \in 0 .. l
  <2> DEFINE T == {k \in 1 .. l : \A j \in 1 .. k : PositionsOf(line, j) # {}}
  <2>1. Len(s) = Cardinality(T)
    BY <1>1 DEF SaysWhatTheLineSays, CommandCount
  <2>2. T \in SUBSET (1 .. l)
    OBVIOUS
  <2> HIDE DEF T
  <2>. QED BY <1>4, <2>1, <2>2
<1>6. ASSUME NEW k \in DOMAIN s
      PROVE  /\ s[k].arguments \in Seq(AnyWord)
             /\ DOMAIN s[k].arguments = 1 .. Len(s[k].arguments)
             /\ Len(s[k].arguments) \in 0 .. l
  <2> DEFINE args == s[k].arguments
             at == ArgumentsAt(line, k)
  <2>1. args \in Seq(AnyWord)
    BY <1>3 DEF Command
  <2>2. Len(args) \in Nat /\ DOMAIN args = 1 .. Len(args)
    BY <2>1, LenProperties
  <2>3. Len(args) = IF Cardinality(at) < MAX_ARGUMENTS THEN Cardinality(at)
                                                      ELSE MAX_ARGUMENTS - 1
    BY <1>1 DEF SaysWhatTheLineSays
  <2>4. at \in SUBSET (1 .. l)
    <3>1. 1 .. End(line) - 1 \in SUBSET (1 .. l)
      BY <1>2
    <3>. QED BY <3>1 DEF ArgumentsAt, PositionsOf
  <2> HIDE DEF at, args
  <2>5. Cardinality(at) \in 0 .. l
    BY <1>4, <2>4
  <2>6. MAX_ARGUMENTS \in Nat /\ MAX_ARGUMENTS >= 2
    BY LineParserAssumption
  <2>7. Len(args) \in 0 .. l
    BY <1>2, <2>2, <2>3, <2>5, <2>6
  <2>. QED BY <2>1, <2>2, <2>7 DEF args
<1>. QED BY <1>1, <1>3, <1>5, <1>6 DEF s

LEMMA NoLine == parseCmdLines(<<>>) = <<>>
<1>1. <<>> \in Seq(AnyWord) /\ Len(<<>>) = 0
  OBVIOUS
<1> DEFINE none == <<>>
<1> HIDE DEF none
<1>2. parseCmdLines(none) \in Seq(Command) /\ Len(parseCmdLines(none)) \in 0 .. 0
  BY <1>1, LinePlaces DEF none
<1>3. Len(parseCmdLines(none)) = 0
  BY <1>2
<1>. QED BY <1>2, <1>3, EmptySeq DEF none

(* The commands and arguments of a line that is typed can be counted.      *)
LEMMA Placed ==
  ASSUME NEW line \in Typed, NEW k \in DOMAIN parseCmdLines(line),
         NEW i \in DOMAIN parseCmdLines(line)[k].arguments
  PROVE  <<Len(parseCmdLines(line)), k, i>> \in Position
<1> DEFINE s == parseCmdLines(line)
<1>1. line \in Seq(AnyWord) /\ 1 .. Len(line) \subseteq Count
  BY VariablesAssumption
<1>2. /\ Len(s) \in 0 .. Len(line) /\ DOMAIN s = 1 .. Len(s)
      /\ DOMAIN s[k].arguments = 1 .. Len(s[k].arguments)
      /\ Len(s[k].arguments) \in 0 .. Len(line)
      /\ Len(line) \in Nat
  BY <1>1, LinePlaces, LenProperties
<1> DEFINE m == Len(s[k].arguments)
           n == Len(s)
<1>3. i \in 1 .. m /\ k \in 1 .. n
  BY <1>2
<1> HIDE DEF m, n
<1>4. n \in 1 .. Len(line) /\ k \in 1 .. Len(line) /\ i \in 1 .. Len(line)
  BY <1>2, <1>3 DEF m, n
<1>. QED BY <1>1, <1>4 DEF Position, n

LEMMA RoundsAre ==
  ASSUME version \in Versions, NEW n, NEW k, NEW i, <<n, k, i>> \in Position
  PROVE  /\ version \in {"actual", "task2"} => Rounds[version][<<n, k, i>>] = 1
         /\ version = "task1" => Rounds[version][<<n, k, i>>] = 0
         /\ version = "warmup" =>
              Rounds[version][<<n, k, i>>] = IF k = 1 /\ i > 1 THEN n ELSE 0
         /\ version = "warmup2" =>
              Rounds[version][<<n, k, i>>] = IF k = 1 /\ i > 1 THEN 1 ELSE 0
<1> DEFINE t == <<n, k, i>>
<1>1. t[1] = n /\ t[2] = k /\ t[3] = i /\ t \in Position
  OBVIOUS
<1> HIDE DEF t
<1>2. Rounds[version] =
        [u \in Position |->
           CASE version \in {"actual", "task2"} -> 1
             [] version = "task1" -> 0
             [] version = "warmup" -> IF u[2] = 1 /\ u[3] > 1 THEN u[1] ELSE 0
             [] version = "warmup2" -> IF u[2] = 1 /\ u[3] > 1 THEN 1 ELSE 0]
  BY DEF Rounds, Shell, Versions
<1>3. Rounds[version][t] =
           CASE version \in {"actual", "task2"} -> 1
             [] version = "task1" -> 0
             [] version = "warmup" -> IF k = 1 /\ i > 1 THEN n ELSE 0
             [] version = "warmup2" -> IF k = 1 /\ i > 1 THEN 1 ELSE 0
  BY <1>1, <1>2
<1>4. CASE version \in {"actual", "task2"}
  BY <1>3, <1>4 DEF t
<1>5. CASE version = "task1"
  BY <1>3, <1>5 DEF t
<1>6. CASE version = "warmup"
  BY <1>3, <1>6 DEF t
<1>7. CASE version = "warmup2"
  BY <1>3, <1>7 DEF t
<1>. QED BY <1>4, <1>5, <1>6, <1>7 DEF Versions

(* What is joined of one word. *)
LEMMA OneJoined ==
  ASSUME NEW args \in Seq(AnyWord), Len(args) = 3
  PROVE  FlattenSeq(SubSeq(args, 3, 3)) = args[3]
<1> DEFINE ws == SubSeq(args, 3, 3)
<1>1. \A i \in 3 .. 3 : args[i] \in AnyWord
  <2>1. \A i \in 3 .. 3 : i \in 1 .. Len(args)
    OBVIOUS
  <2>. QED BY <2>1, ElementOfSeq
<1>2. 1 \in 1 .. 1
  OBVIOUS
<1>3. ws \in Seq(AnyWord) /\ Len(ws) = 1 /\ ws[1] = args[3]
  <2> DEFINE m == 3
  <2>1. m \in Int /\ m <= m /\ m - m + 1 = 1 /\ m + 1 - 1 = m
    OBVIOUS
  <2>2. \A i \in m .. m : args[i] \in AnyWord
    BY <1>1
  <2> HIDE DEF m
  <2>3. /\ SubSeq(args, m, m) \in Seq(AnyWord)
        /\ Len(SubSeq(args, m, m)) = IF m <= m THEN m - m + 1 ELSE 0
        /\ \A i \in 1 .. m - m + 1 : SubSeq(args, m, m)[i] = args[m + i - 1]
    BY <2>1, <2>2, SubSeqProperties
  <2>4. /\ SubSeq(args, m, m) \in Seq(AnyWord) /\ Len(SubSeq(args, m, m)) = 1
        /\ SubSeq(args, m, m)[1] = args[m]
    BY <1>2, <2>1, <2>3
  <2>. QED BY <2>4 DEF m
<1> DEFINE n == Len(ws)
           f == CHOOSE g : Joins(g, ws, n)
<1> HIDE DEF ws
<1>4. FlattenSeq(ws) = f[n]
  <2>1. Len(ws) # 0
    BY <1>3
  <2>. QED BY <2>1, FlattenJoins
<1>5. n \in Nat /\ n = 1
  BY <1>3
<1>6. Joins(f, ws, n)
  <2> HIDE DEF n
  <2>. QED BY <1>5, JoinExists
<1> HIDE DEF f, n
<1>7. f[n] = ws[n]
  <2>1. n \in 1 .. n
    BY <1>5
  <2>. QED BY <1>5, <1>6, <2>1 DEF Joins
<1>. QED BY <1>3, <1>4, <1>5, <1>7 DEF ws

(* The name that is looked for is the one found. *)
LEMMA FindsSet ==
  ASSUME NEW w
  PROVE  /\ Actual!find_predefined_cmd(w) = "set" <=> w = Plain("set")
         /\ Warmup!find_predefined_cmd(w) = "set" <=> w = Plain("set")
<1> DEFINE B == {"quit", "cd", "set", "vars"}
           f == IF \E b \in B : w = Plain(b) THEN CHOOSE b \in B : w = Plain(b) ELSE "none"
<1>1. Actual!find_predefined_cmd(w) = f /\ Warmup!find_predefined_cmd(w) = f
  BY SameWords DEF Actual!find_predefined_cmd, Warmup!find_predefined_cmd,
     Actual!Builtin, Warmup!Builtin
<1>2. \A b, c : Plain(b) = Plain(c) => b = c
  <2> SUFFICES ASSUME NEW b, NEW c, Plain(b) = Plain(c) PROVE b = c
    OBVIOUS
  <2>1. Plain(b)[1][2] = b /\ Plain(c)[1][2] = c
    BY DEF Plain
  <2>. QED BY <2>1
<1>3. "none" # "set" /\ "set" \in B
  OBVIOUS
<1> HIDE DEF B
<1>4. f = "set" <=> w = Plain("set")
  <2>1. CASE \E b \in B : w = Plain(b)
    <3>1. f \in B /\ w = Plain(f)
      BY <2>1
    <3> HIDE DEF f
    <3>. QED BY <1>2, <3>1
  <2>2. CASE ~ \E b \in B : w = Plain(b)
    BY <1>3, <2>2
  <2>. QED BY <2>1, <2>2
<1>. QED BY <1>1, <1>4

LEMMA Assigning ==
  ASSUME NEW line, version \in Versions
  PROVE  Env!IsAssignment(line) <=>
           /\ parseCmdLines(line) # <<>> /\ parseCmdLines(line)[1].arguments # <<>>
           /\ parseCmdLines(line)[1].arguments[1] = Plain("set") /\ version # "task1"
<1>1. Env!parseCmdLines(line) = parseCmdLines(line) /\ \A t : Env!Plain(t) = Plain(t)
  BY EnvParses, EnvWords
<1>2. Setters[version] = IF version = "task1" THEN {} ELSE {"set"}
  BY DEF Setters, Shell, Versions
<1> DEFINE w == parseCmdLines(line)[1].arguments[1]
<1>3. w \in {Plain(name) : name \in Setters[version]} <=>
        w = Plain("set") /\ version # "task1"
  BY <1>2
<1> HIDE DEF w
<1>. QED BY <1>1, <1>3 DEF Env!IsAssignment, w

-----------------------------------------------------------------------------
(* The inductive invariant of the refinement: the words of the chain are   *)
(* those that were typed, replaced as often as the shell has so far.       *)

SoFar(k, i) ==
  IF pc = "handle" THEN Rounds[version][<<Len(parseCmdLines(typed)), k, i>>]
  ELSE IF ~OfActual /\ k = 1 /\ i > 1 THEN pass ELSE 0

SaidWords ==
  LET s == parseCmdLines(typed)
  IN /\ Len(chain) = Len(s)
     /\ \A k \in DOMAIN s :
          /\ DOMAIN chain[k].arguments = DOMAIN s[k].arguments
          /\ \A i \in DOMAIN s[k].arguments :
               chain[k].arguments[i] = TimesIn(EnvOf, s[k].arguments[i], SoFar(k, i))

SetLine ==
  parseCmdLines(typed)[1].arguments[1] = Plain("set") /\ version # "task1"

LineInv ==
  /\ typed \in Typed /\ done = <<>>
  /\ parseCmdLines(typed) # <<>> /\ parseCmdLines(typed)[1].arguments # <<>>
  /\ predef_cmd = "set" <=> SetLine
  /\ SaidWords

ExpandInv ==
  /\ version # "task1"
  /\ version = "warmup" => pass < Len(chain)
  /\ version = "warmup2" => pass = 0

EnvInv ==
  /\ pc \in {"prompt", "exited"} => typed = <<>> /\ done = <<>>
  /\ AtLine => LineInv
  /\ pc = "expand" => ExpandInv
  /\ ~OfActual /\ pc # "exited" => OneTilde(var_list)

(* The steps, as far as the map is concerned. *)
Reads(line) ==
  /\ pc = "prompt"
  /\ line \in Typed /\ parseCmdLines(line) # <<>>
  /\ typed' = line /\ chain' = parseCmdLines(line)
  /\ \/ pc' = "crashed"
     \/ /\ parseCmdLines(line)[1].arguments # <<>>
        /\ predef_cmd' = "set" <=>
             parseCmdLines(line)[1].arguments[1] = Plain("set") /\ version # "task1"
        /\ \/ pc' = "expand" /\ version # "task1" /\ (OfActual \/ pass' = 0)
           \/ pc' = "handle" /\ version = "task1"
  /\ UNCHANGED <<version, var_list, home, done>>

Closes ==
  /\ pc # "exited" /\ pc' \in {"prompt", "exited"}
  /\ typed' = <<>> /\ done' = <<>>
  /\ IF pc' = "prompt" THEN UNCHANGED var_list ELSE var_list' = <<>>
  /\ UNCHANGED <<version, home>>

Stays ==
  /\ pc # "exited" /\ pc' \notin {"prompt", "expand", "handle", "exited"}
  /\ UNCHANGED <<version, typed, done, var_list, home>>

Hands ==
  /\ pc = "handle" /\ predef_cmd # "set" /\ pc' = "free"
  /\ done' \in {[k \in DOMAIN chain |-> chain[k].arguments], FirstCommand}
  /\ UNCHANGED <<version, typed, var_list, home>>

Sets == Setting /\ predef_cmd = "set" /\ UNCHANGED done

ExpandsAll == Expanding /\ UNCHANGED <<predef_cmd, done>>

ExpandsFirst ==
  /\ Expanding1
  /\ \/ pc' = "crashed"
     \/ /\ version = "warmup" /\ pass' = pass + 1
        /\ pc' = IF pass + 1 = Len(chain) THEN "handle" ELSE "expand"
     \/ version = "warmup2" /\ pass' = pass /\ pc' = "handle"
  /\ UNCHANGED <<predef_cmd, done>>

EnvMoves ==
  \/ \E line \in Typed : Reads(line)
  \/ Closes \/ Stays \/ Hands \/ Sets \/ ExpandsAll \/ ExpandsFirst

LEMMA ActualEnvMoves ==
  ASSUME FrontInv, EnvInv, version = "actual", Actual!FrontNext, UNCHANGED <<version, pass>>
  PROVE  EnvMoves
<1>. OfActual /\ version # "task1"
  BY DEF OfActual
<1>0. AtLine => done = <<>>
  BY DEF EnvInv, LineInv
<1>1. ASSUME NEW line \in Typed, Actual!ReadLine(line) PROVE Reads(line)
  BY <1>1, ActualParses, FindsSet DEF Actual!ReadLine, Reads
<1>2. CASE Actual!EndOfInput
  BY <1>2 DEF Actual!EndOfInput, Closes, EnvMoves, EnvInv
<1>3. CASE Actual!Expand
  BY <1>3, SameReplaced DEF Actual!Expand, Expanding, ExpandsAll, EnvMoves
<1>4. CASE Actual!SetVar
  BY <1>4 DEF Actual!SetVar, Actual!Handles, Setting, Sets, EnvMoves
<1>5. CASE Actual!ChangeDirectory \/ Actual!PrintVars \/ Actual!Execute
  BY <1>0, <1>5 DEF Actual!ChangeDirectory, Actual!PrintVars, Actual!Execute,
     Actual!Handles, Hands, Stays, EnvMoves, AtLine
<1>6. CASE Actual!FreeCmdLines
  BY <1>6 DEF Actual!FreeCmdLines, Closes, EnvMoves
<1>. QED BY <1>1, <1>2, <1>3, <1>4, <1>5, <1>6 DEF Actual!FrontNext, EnvMoves

LEMMA Task1EnvMoves ==
  ASSUME FrontInv, EnvInv, version = "task1", Task1, UNCHANGED <<version, pass>>
  PROVE  EnvMoves
<1>0. AtLine => done = <<>>
  BY DEF EnvInv, LineInv
<1>1. ASSUME NEW line \in Typed, Task1Read(line) PROVE Reads(line)
  <2>1. ASSUME NEW w PROVE Task1Builtin(w) # "set"
    <3>1. CASE w \in {Plain("quit"), Plain("cd")}
      <4>1. w # Plain("set")
        <5>1. Plain("quit")[1][2] = "quit" /\ Plain("cd")[1][2] = "cd"
              /\ Plain("set")[1][2] = "set"
          BY DEF Plain
        <5>. QED BY <3>1, <5>1
      <4>. QED BY <3>1, <4>1, FindsSet DEF Task1Builtin
    <3>2. CASE w \notin {Plain("quit"), Plain("cd")}
      BY <3>2 DEF Task1Builtin
    <3>. QED BY <3>1, <3>2
  <2>. QED BY <1>1, <2>1 DEF Task1Read, Reads
<1>2. CASE Actual!EndOfInput
  BY <1>2 DEF Actual!EndOfInput, Closes, EnvMoves, EnvInv
<1>3. CASE Task1Handle
  BY <1>0, <1>3 DEF Task1Handle, Actual!ChangeDirectory, Task1Execute,
     Actual!Handles, Hands, Stays, EnvMoves, AtLine
<1>4. CASE Actual!FreeCmdLines
  BY <1>4 DEF Actual!FreeCmdLines, Closes, EnvMoves
<1>. QED BY <1>1, <1>2, <1>3, <1>4 DEF Task1, EnvMoves

LEMMA Task2EnvMoves ==
  ASSUME FrontInv, EnvInv, version = "task2", Task2, UNCHANGED <<version, pass>>
  PROVE  EnvMoves
<1>. OfActual /\ version # "task1"
  BY DEF OfActual
<1>0. AtLine => done = <<>>
  BY DEF EnvInv, LineInv
<1>1. ASSUME NEW line \in Typed, Actual!ReadLine(line) PROVE Reads(line)
  BY <1>1, ActualParses, FindsSet DEF Actual!ReadLine, Reads
<1>2. CASE Task2Expand
  BY <1>2, SameReplaced DEF Task2Expand, Actual!Expand, Expanding, ExpandsAll, EnvMoves
<1>3. CASE Task2SetVar
  BY <1>3 DEF Task2SetVar, Actual!SetVar, Actual!Handles, Setting, Sets, EnvMoves
<1>4. CASE Actual!ChangeDirectory \/ Actual!PrintVars \/ Task2Execute
  BY <1>0, <1>4 DEF Actual!ChangeDirectory, Actual!PrintVars, Task2Execute,
     Actual!Handles, Hands, Stays, EnvMoves, AtLine
<1>5. CASE Task2Free
  BY <1>5 DEF Task2Free, Actual!EndOfInput, Actual!FreeCmdLines, Closes, EnvMoves, EnvInv
<1>. QED BY <1>1, <1>2, <1>3, <1>4, <1>5 DEF Task2, Task2Builtins, EnvMoves

LEMMA WarmupReadsOne ==
  ASSUME version \in {"warmup", "warmup2"}, NEW line \in Typed, Warmup!ReadLine(line),
         UNCHANGED version
  PROVE  Reads(line)
BY WarmupParses, FindsSet DEF Warmup!ReadLine, Reads

LEMMA WarmupEnvMoves ==
  ASSUME FrontInv, EnvInv, version = "warmup", Warmup!FrontNext, UNCHANGED version
  PROVE  EnvMoves
<1>. ~OfActual
  BY DEF OfActual
<1>0. AtLine => done = <<>>
  BY DEF EnvInv, LineInv
<1>1. ASSUME NEW line \in Typed, Warmup!ReadLine(line) PROVE Reads(line)
  BY <1>1, WarmupReadsOne
<1>2. CASE Warmup!EndOfInput
  BY <1>2 DEF Warmup!EndOfInput, Closes, EnvMoves, EnvInv
<1>3. CASE Warmup!ExpandVariables
  <2>1. Expanding1
    <3>1. pass \in Nat
      BY DEF FrontInv
    <3>. QED BY <1>3, <3>1, SameWords DEF Warmup!ExpandVariables, Expanding1, Found, ValueAt
  <2>2. /\ pass' = pass + 1
        /\ pc' \in {"crashed", IF pass + 1 = Len(chain) THEN "handle" ELSE "expand"}
        /\ UNCHANGED <<predef_cmd, done>>
    BY <1>3 DEF Warmup!ExpandVariables
  <2>. QED BY <2>1, <2>2 DEF ExpandsFirst, EnvMoves
<1>4. CASE Warmup!SetVar
  BY <1>4 DEF Warmup!SetVar, Warmup!Handles, Setting, Sets, EnvMoves
<1>5. CASE \/ Warmup!SetTooFew \/ Warmup!ChangeDirectory \/ Warmup!PrintVars
           \/ Warmup!Execute \/ Warmup!QuitCommand
  BY <1>0, <1>5 DEF Warmup!SetTooFew, Warmup!ChangeDirectory, Warmup!PrintVars,
     Warmup!Execute, Warmup!QuitCommand, Warmup!Handles, Hands, Stays, EnvMoves, AtLine
<1>6. CASE Warmup!FreeCmdLines
  BY <1>6 DEF Warmup!FreeCmdLines, Closes, EnvMoves
<1>. QED BY <1>1, <1>2, <1>3, <1>4, <1>5, <1>6 DEF Warmup!FrontNext, EnvMoves

LEMMA Warmup2EnvMoves ==
  ASSUME FrontInv, EnvInv, version = "warmup2", Warmup2, UNCHANGED version
  PROVE  EnvMoves
<1>. ~OfActual
  BY DEF OfActual
<1>0. AtLine => done = <<>>
  BY DEF EnvInv, LineInv
<1>1. ASSUME NEW line \in Typed, Warmup!ReadLine(line) PROVE Reads(line)
  BY <1>1, WarmupReadsOne
<1>2. CASE Warmup2Expand
  <2>1. Expanding1
    <3>1. pass \in Nat
      BY DEF FrontInv
    <3>. QED BY <1>2, <3>1, SameWords DEF Warmup2Expand, Expanding1, Found, ValueAt
  <2>2. pass' = pass /\ pc' \in {"crashed", "handle"} /\ UNCHANGED <<predef_cmd, done>>
    BY <1>2 DEF Warmup2Expand
  <2>. QED BY <2>1, <2>2 DEF ExpandsFirst, EnvMoves
<1>3. CASE Warmup!SetVar
  BY <1>3 DEF Warmup!SetVar, Warmup!Handles, Setting, Sets, EnvMoves
<1>4. CASE \/ (Warmup!SetTooFew /\ pc' = "free") \/ Warmup!ChangeDirectory
           \/ Warmup!PrintVars \/ Warmup!QuitCommand \/ Warmup2Execute
  BY <1>0, <1>4 DEF Warmup!SetTooFew, Warmup!ChangeDirectory, Warmup!PrintVars,
     Warmup!QuitCommand, Warmup2Execute, Warmup!Handles, Hands, Stays, EnvMoves, AtLine
<1>5. CASE Warmup!EndOfInput
  BY <1>5 DEF Warmup!EndOfInput, Closes, EnvMoves, EnvInv
<1>6. CASE Warmup!FreeCmdLines
  BY <1>6 DEF Warmup!FreeCmdLines, Closes, EnvMoves
<1>. QED BY <1>1, <1>2, <1>3, <1>4, <1>5, <1>6
     DEF Warmup2, Warmup2SetVar, Warmup2Builtins, Warmup2Free, EnvMoves

-----------------------------------------------------------------------------
(* Each kind of step keeps the invariant and is a step of Environment, or  *)
(* none.                                                                   *)

LEMMA SameMap ==
  ASSUME UNCHANGED <<version, var_list, home>>
  PROVE  EnvOf' = EnvOf /\ (OfActual' <=> OfActual) /\ (OneTilde(var_list') <=> OneTilde(var_list))
<1>1. OfActual' <=> OfActual
  BY DEF OfActual
<1>2. Actual!EnvOf' = Actual!EnvOf
  BY ActualEnvUnfolds
<1>3. Warmup!EnvOf' = Warmup!EnvOf
  BY WarmupEnvUnfolds
<1>. QED BY <1>1, <1>2, <1>3 DEF EnvOf

LEMMA ReadsMaps ==
  ASSUME FrontInv, EnvInv, NEW line \in Typed, Reads(line)
  PROVE  EnvInv' /\ Env!Type
<1> DEFINE s == parseCmdLines(line)
<1>1. EnvOf' = EnvOf /\ (OfActual' <=> OfActual) /\ (OneTilde(var_list') <=> OneTilde(var_list))
  BY SameMap DEF Reads
<1>2. /\ s # <<>> /\ typed' = line /\ chain' = s /\ typed = <<>> /\ done' = <<>>
      /\ done = <<>> /\ version' = version /\ pc = "prompt"
      /\ pc' \in {"crashed", "expand", "handle"}
  BY DEF Reads, EnvInv
<1>3. Env!Type
  <2>1. line # <<>>
    BY <1>2, NoLine
  <2>. QED BY <1>1, <1>2, <2>1 DEF Env!Type
<1>4. line \in Seq(AnyWord) /\ version \in Versions
  BY VariablesAssumption DEF FrontInv
<1>5. s \in Seq(Command) /\ Len(s) \in Nat /\ Len(s) >= 1
  <2>1. s \in Seq(Command)
    BY <1>4, ChainType
  <2>. QED BY <1>2, <2>1, EmptySeq, LenProperties
<1>6. ASSUME pc' # "crashed"
      PROVE  LineInv'
  <2>1. /\ s[1].arguments # <<>>
        /\ predef_cmd' = "set" <=> s[1].arguments[1] = Plain("set") /\ version # "task1"
        /\ \/ pc' = "expand" /\ version # "task1" /\ (OfActual \/ pass' = 0)
           \/ pc' = "handle" /\ version = "task1"
    BY <1>6 DEF Reads
  <2>2. ASSUME NEW k \in DOMAIN s, NEW i \in DOMAIN s[k].arguments
        PROVE  SoFar(k, i)' = 0
    <3>1. CASE pc' = "expand"
      BY <1>1, <2>1, <3>1 DEF SoFar
    <3>2. CASE pc' = "handle"
      <4>1. version = "task1"
        BY <2>1, <3>2
      <4>2. <<Len(s), k, i>> \in Position
        BY Placed
      <4>3. Rounds[version][<<Len(s), k, i>>] = 0
        BY <1>4, <4>1, <4>2, RoundsAre
      <4>4. Rounds' = Rounds
        BY DEF Rounds, Shell, Position
      <4>. QED BY <1>2, <3>2, <4>3, <4>4 DEF SoFar
    <3>. QED BY <2>1, <3>1, <3>2
  <2>3. \A w : TimesIn(EnvOf', w, 0) = w
    BY Times
  <2>4. SaidWords'
    <3>1. ASSUME NEW k \in DOMAIN s, NEW i \in DOMAIN s[k].arguments
          PROVE  s[k].arguments[i] = TimesIn(EnvOf', s[k].arguments[i], SoFar(k, i)')
      BY <2>2, <2>3
    <3>2. parseCmdLines(typed') = s /\ chain' = s
      BY <1>2
    <3> HIDE DEF s
    <3>. QED BY <3>1, <3>2 DEF SaidWords
  <2>5. SetLine' <=> s[1].arguments[1] = Plain("set") /\ version # "task1"
    BY <1>2 DEF SetLine
  <2>. QED BY <1>2, <2>1, <2>4, <2>5 DEF LineInv
<1>7. pc' = "expand" => ExpandInv'
  <2>1. pc' = "expand" => version # "task1" /\ (OfActual \/ pass' = 0)
    BY DEF Reads
  <2>2. version \in {"warmup", "warmup2"} => ~OfActual
    BY DEF OfActual
  <2>. QED BY <1>2, <1>5, <2>1, <2>2 DEF ExpandInv
<1>8. EnvInv'
  <2>1. ~OfActual' /\ pc' # "exited" => OneTilde(var_list')
    BY <1>1, <1>2 DEF EnvInv
  <2>. QED BY <1>2, <1>6, <1>7, <2>1 DEF EnvInv, AtLine
<1>. QED BY <1>3, <1>8

LEMMA ClosesMaps ==
  ASSUME FrontInv, EnvInv, Closes
  PROVE  EnvInv' /\ (Env!Forget \/ Env!Leave)
<1>1. CASE pc' = "prompt"
  <2>1. EnvOf' = EnvOf /\ (OfActual' <=> OfActual) /\ (OneTilde(var_list') <=> OneTilde(var_list))
    BY <1>1, SameMap DEF Closes
  <2>2. EnvInv'
    BY <1>1, <2>1 DEF EnvInv, Closes, AtLine
  <2>3. Env!Forget
    BY <1>1, <2>1 DEF Env!Forget, Closes
  <2>. QED BY <2>2, <2>3
<1>2. CASE pc' = "exited"
  <2>1. var_list' = <<>>
    BY <1>2 DEF Closes
  <2>2. ToSet(<<>>) = {}
    BY DEF ToSet
  <2>3. DOMAIN Actual!EnvOf' \subseteq {Tilde}
    BY <2>1, <2>2, ActualEnvUnfolds DEF ActualMap
  <2>4. DOMAIN Warmup!EnvOf' \subseteq {Tilde}
    BY <2>1, <2>2, WarmupEnvUnfolds DEF WarmupMap
  <2>5. DOMAIN EnvOf' \subseteq {Tilde}
    BY <2>3, <2>4 DEF EnvOf
  <2>6. Env!Home = Tilde
    BY EnvWords DEF Env!Home, Tilde
  <2>7. Env!Leave
    BY <1>2, <2>5, <2>6 DEF Env!Leave, Closes
  <2>8. EnvInv'
    BY <1>2 DEF EnvInv, Closes, AtLine
  <2>. QED BY <2>7, <2>8
<1>. QED BY <1>1, <1>2 DEF Closes

LEMMA StaysMaps ==
  ASSUME FrontInv, EnvInv, Stays
  PROVE  EnvInv' /\ UNCHANGED <<version, EnvOf, typed, done, pc = "exited">>
<1>1. EnvOf' = EnvOf /\ (OfActual' <=> OfActual) /\ (OneTilde(var_list') <=> OneTilde(var_list))
  BY SameMap DEF Stays
<1>2. EnvInv'
  BY <1>1 DEF EnvInv, Stays, AtLine
<1>3. UNCHANGED <<version, EnvOf, typed, done, pc = "exited">>
  BY <1>1 DEF Stays
<1>. QED BY <1>2, <1>3

(* What the map makes of the words of the line is what they are at last.   *)
LEMMA HandledWords ==
  ASSUME FrontInv, EnvInv, pc = "handle"
  PROVE  /\ DOMAIN chain = 1 .. Len(chain) /\ Len(chain) \in Nat \ {0}
         /\ DOMAIN Env!Words(typed) = 1 .. Len(chain)
         /\ \A k \in 1 .. Len(chain) : Env!Words(typed)[k] = chain[k].arguments
<1> DEFINE s == parseCmdLines(typed)
<1>1. LineInv /\ typed \in Typed /\ SaidWords /\ s # <<>>
  BY DEF EnvInv, AtLine, LineInv
<1>2. typed \in Seq(AnyWord) /\ s \in Seq(Command) /\ chain \in Seq(Command)
  BY ChainType DEF FrontInv
<1>3. /\ Len(s) \in Nat \ {0} /\ DOMAIN s = 1 .. Len(s) /\ DOMAIN chain = 1 .. Len(chain)
      /\ Len(chain) = Len(s)
  <2>1. Len(chain) = Len(s)
    BY <1>1 DEF SaidWords
  <2> HIDE DEF s
  <2>. QED BY <1>1, <1>2, <2>1, EmptySeq, LenProperties
<1>4. Env!Words(typed) =
        [k \in DOMAIN s |-> [i \in DOMAIN s[k].arguments |->
           TimesIn(EnvOf, s[k].arguments[i], Rounds[version][<<Len(s), k, i>>])]]
  BY EnvParses, EnvTimes DEF Env!Words
<1>5. \A k, i : SoFar(k, i) = Rounds[version][<<Len(s), k, i>>]
  BY DEF SoFar
<1>6. ASSUME NEW k \in DOMAIN s
      PROVE  Env!Words(typed)[k] = chain[k].arguments
  <2> DEFINE args == chain[k].arguments
             D == DOMAIN s[k].arguments
  <2>1. DOMAIN args = D
        /\ \A i \in D : args[i] = TimesIn(EnvOf, s[k].arguments[i], SoFar(k, i))
    BY <1>1 DEF SaidWords
  <2>2. args \in Seq(AnyWord)
    <3>1. chain[k] \in Command
      BY <1>2, <1>3, ElementOfSeq
    <3>. QED BY <3>1 DEF Command
  <2>3. args = [i \in DOMAIN args |-> args[i]]
    <3> HIDE DEF args
    <3>. QED BY <2>2
  <2>4. Env!Words(typed)[k] = [i \in D |-> TimesIn(EnvOf, s[k].arguments[i], SoFar(k, i))]
    BY <1>4, <1>5
  <2> HIDE DEF args, D
  <2>. QED BY <2>1, <2>3, <2>4 DEF args
<1>7. DOMAIN Env!Words(typed) = DOMAIN s
  BY <1>4
<1> HIDE DEF s
<1>. QED BY <1>3, <1>6, <1>7

(* The words of the first n commands. *)
LEMMA FirstOfSeq ==
  ASSUME NEW W, NEW m \in Nat, DOMAIN W = 1 .. m, NEW n \in 1 .. m
  PROVE  SubSeq(W, 1, n) = [k \in 1 .. n |-> W[k]]
<1> DEFINE S == {W[k] : k \in 1 .. m}
           t == SubSeq(W, 1, n)
<1>1. 1 \in Int /\ n \in Int /\ 1 <= n /\ n - 1 + 1 = n
      /\ \A i \in 1 .. n : W[i] \in S /\ 1 + i - 1 = i
  OBVIOUS
<1> HIDE DEF S
<1>2. /\ t \in Seq(S) /\ Len(t) = n
      /\ \A i \in 1 .. n : t[i] = W[i]
  <2>1. /\ t \in Seq(S) /\ Len(t) = IF 1 <= n THEN n - 1 + 1 ELSE 0
        /\ \A i \in 1 .. n - 1 + 1 : t[i] = W[1 + i - 1]
    BY <1>1, SubSeqProperties
  <2>. QED BY <1>1, <2>1
<1> HIDE DEF t
<1>3. DOMAIN t = 1 .. n /\ t = [k \in DOMAIN t |-> t[k]]
  BY <1>2, LenProperties
<1>. QED BY <1>2, <1>3 DEF t

LEMMA HandsMaps ==
  ASSUME FrontInv, EnvInv, Hands
  PROVE  EnvInv' /\ Env!Hand
<1> DEFINE W == Env!Words(typed)
           l == Len(chain)
<1>1. EnvOf' = EnvOf /\ (OfActual' <=> OfActual) /\ (OneTilde(var_list') <=> OneTilde(var_list))
  BY SameMap DEF Hands
<1>2. pc = "handle" /\ LineInv /\ predef_cmd # "set" /\ version \in Versions
  BY DEF Hands, EnvInv, AtLine, FrontInv
<1>3. EnvInv'
  BY <1>1, <1>2 DEF EnvInv, Hands, AtLine
<1>4. ~Env!IsAssignment(typed)
  BY <1>2, Assigning DEF LineInv, SetLine
<1>5. /\ DOMAIN chain = 1 .. l /\ l \in Nat \ {0} /\ DOMAIN W = 1 .. l
      /\ \A k \in 1 .. l : W[k] = chain[k].arguments
  BY <1>2, HandledWords
<1> HIDE DEF W, l
<1>6. \E n \in DOMAIN W : done' = SubSeq(W, 1, n)
  <2>1. CASE done' = [k \in DOMAIN chain |-> chain[k].arguments]
    <3>1. done' = [k \in 1 .. l |-> W[k]]
      BY <1>5, <2>1
    <3>2. l \in Nat /\ l \in 1 .. l
      BY <1>5
    <3>3. SubSeq(W, 1, l) = [k \in 1 .. l |-> W[k]]
      BY <1>5, <3>2, FirstOfSeq
    <3>. QED BY <1>5, <3>1, <3>2, <3>3
  <2>2. CASE done' = FirstCommand
    <3>1. l \in Nat /\ 1 \in 1 .. l
      BY <1>5
    <3>2. done' = <<W[1]>>
      BY <1>5, <2>2, <3>1 DEF FirstCommand
    <3>3. SubSeq(W, 1, 1) = [k \in 1 .. 1 |-> W[k]]
      BY <1>5, <3>1, FirstOfSeq
    <3>4. [k \in 1 .. 1 |-> W[k]] = <<W[1]>>
      OBVIOUS
    <3>. QED BY <1>5, <3>1, <3>2, <3>3, <3>4
  <2>. QED BY <2>1, <2>2 DEF Hands
<1>7. Env!Hand
  BY <1>1, <1>2, <1>4, <1>6 DEF Env!Hand, Hands, LineInv, W
<1>. QED BY <1>3, <1>7

LEMMA AssignsMaps ==
  ASSUME FrontInv, EnvInv, Sets,
         NEW value, Len(chain[1].arguments) >= 3,
         value = FlattenSeq(SubSeq(chain[1].arguments, 3, Len(chain[1].arguments))),
         EnvOf' = Assigned(EnvOf, Dollar(chain[1].arguments[2]), value)
  PROVE  Env!Assign
<1> DEFINE args == chain[1].arguments
           W == Env!Words(typed)
<1>1. /\ pc = "handle" /\ predef_cmd = "set" /\ pc' = "free" /\ version \in Versions
      /\ LineInv /\ UNCHANGED <<version, typed, done>>
  BY DEF Sets, Setting, EnvInv, AtLine, FrontInv
<1>2. Env!IsAssignment(typed)
  BY <1>1, Assigning DEF LineInv, SetLine
<1>3. W[1] = args
  BY <1>1, HandledWords
<1>4. /\ Env!Dollar(args[2]) = Dollar(args[2])
      /\ Env!FlattenSeq(SubSeq(args, 3, Len(args))) = value
  BY EnvWords
<1> HIDE DEF W
<1>5. EnvOf' = [w \in DOMAIN EnvOf \cup {Env!Dollar(args[2])} |->
                  IF w = Env!Dollar(args[2]) THEN Env!FlattenSeq(SubSeq(args, 3, Len(args)))
                  ELSE EnvOf[w]]
  BY <1>4 DEF Assigned
<1> HIDE DEF args
<1>6. Len(args) >= 3
  BY DEF args
<1>. QED BY <1>1, <1>2, <1>3, <1>5, <1>6 DEF Env!Assign, W

LEMMA SetsMaps ==
  ASSUME FrontInv, EnvInv, Sets
  PROVE  EnvInv' /\ (Env!Assign \/ UNCHANGED <<version, EnvOf, typed, done, pc = "exited">>)
<1> DEFINE args == chain[1].arguments
<1>1. /\ pc = "handle" /\ pc' = "free" /\ 1 \in DOMAIN chain
      /\ UNCHANGED <<version, typed, done, home>> /\ (OfActual' <=> OfActual)
      /\ ~OfActual => OneTilde(var_list)
  BY DEF Sets, Setting, EnvInv, FrontInv, AtLine, OfActual
<1>2. /\ args \in Seq(AnyWord) /\ DOMAIN args = 1 .. Len(args) /\ Len(args) \in Nat
      /\ \A i \in DOMAIN args : args[i] \in AnyWord
  BY <1>1, FirstArguments
<1>3. CASE OfActual
  <2>1. Actual!SetVar /\ ActualList(var_list, heap)
    BY <1>3 DEF Sets, Setting, FrontInv, ListRight
  <2>2. EnvInv'
    BY <1>1, <1>3 DEF EnvInv, AtLine
  <2>3. CASE Len(args) = 3
    <3> DEFINE i == Actual!find_var_by_name(args[2])
    <3>1. IF i # 0 THEN Actual!ReplaceValue(i, args[3]) ELSE Actual!AddVar(args[2], args[3])
      BY <2>1, <2>3 DEF Actual!SetVar, Actual!arguments
    <3>2. args[2] \in AnyWord /\ args[3] \in AnyWord
      BY <1>2, <2>3
    <3> HIDE DEF args
    <3>3. Actual!EnvOf' = Assigned(Actual!EnvOf, Dollar(args[2]), args[3])
      BY <1>1, <2>1, <3>1, <3>2, ActualAssigns
    <3>4. EnvOf' = Assigned(EnvOf, Dollar(args[2]), args[3])
      BY <1>1, <1>3, <3>3 DEF EnvOf
    <3>5. FlattenSeq(SubSeq(args, 3, Len(args))) = args[3]
      BY <1>2, <2>3, OneJoined
    <3>6. Len(args) >= 3
      BY <2>3
    <3>7. Env!Assign
      BY <3>4, <3>5, <3>6, AssignsMaps DEF args
    <3>. QED BY <2>2, <3>7
  <2>4. CASE Len(args) # 3
    <3>1. UNCHANGED var_list
      BY <2>1, <2>4 DEF Actual!SetVar, Actual!arguments
    <3>2. EnvOf' = EnvOf
      BY <1>1, <3>1, SameMap
    <3>. QED BY <1>1, <2>2, <3>2
  <2>. QED BY <2>3, <2>4
<1>4. CASE ~OfActual
  <2> DEFINE name == Dollar(args[2])
             value == FlattenSeq(SubSeq(args, 3, Len(args)))
             i == Warmup!address_of_var(name)
  <2>1. /\ WarmupList(var_list, heap, home) /\ Len(args) >= 3
        /\ name \in AnyWord /\ name # Tilde /\ value \in AnyWord
        /\ home = NoPath => value # Tilde
        /\ IF i # 0 THEN Warmup!ReplaceValue(i, value) ELSE Warmup!AddVar(name, value)
    <3>1. Warmup!SetVar
      BY <1>4 DEF Sets, Setting
    <3>. QED BY <1>1, <1>4, <3>1, WarmupSetWords DEF Tilde
  <2> HIDE DEF name, value, i
  <2>2. Warmup!EnvOf' = Assigned(Warmup!EnvOf, name, value) /\ OneTilde(var_list')
    BY <1>1, <1>4, <2>1, WarmupAssigns DEF i
  <2>3. EnvOf' = Assigned(EnvOf, name, value)
    BY <1>1, <1>4, <2>2 DEF EnvOf
  <2>4. Env!Assign
    BY <2>1, <2>3, AssignsMaps DEF name, value
  <2>5. EnvInv'
    BY <1>1, <2>2 DEF EnvInv, AtLine
  <2>. QED BY <2>4, <2>5
<1>. QED BY <1>3, <1>4

(* The words of the chain after one more replacement. *)
LEMMA SaidMore ==
  ASSUME FrontInv, EnvInv, pc = "expand", pc' \in {"expand", "handle"},
         UNCHANGED <<version, typed, predef_cmd, done, var_list, home>>,
         Len(chain') = Len(chain),
         \A k \in DOMAIN chain :
           /\ DOMAIN chain'[k].arguments = DOMAIN chain[k].arguments
           /\ \A i \in DOMAIN chain[k].arguments :
                \/ /\ chain'[k].arguments[i] = ValueIn(EnvOf, chain[k].arguments[i])
                   /\ SoFar(k, i) \in Nat
                   /\ <<Len(chain), k, i>> \in Position => SoFar(k, i)' = SoFar(k, i) + 1
                \/ /\ chain'[k].arguments[i] = chain[k].arguments[i]
                   /\ <<Len(chain), k, i>> \in Position => SoFar(k, i)' = SoFar(k, i)
  PROVE  LineInv'
<1> DEFINE s == parseCmdLines(typed)
<1>1. LineInv /\ typed \in Typed /\ SaidWords /\ s # <<>> /\ EnvOf' = EnvOf
  BY SameMap DEF EnvInv, AtLine, LineInv
<1>2. /\ Len(chain) = Len(s) /\ DOMAIN s = DOMAIN chain
      /\ \A k \in DOMAIN s :
          /\ DOMAIN chain[k].arguments = DOMAIN s[k].arguments
          /\ \A i \in DOMAIN s[k].arguments :
               chain[k].arguments[i] = TimesIn(EnvOf, s[k].arguments[i], SoFar(k, i))
  <2>1. s \in Seq(Command) /\ chain \in Seq(Command)
    BY ChainType DEF FrontInv
  <2> HIDE DEF s
  <2>2. DOMAIN s = 1 .. Len(s) /\ DOMAIN chain = 1 .. Len(chain)
    BY <2>1, LenProperties
  <2>. QED BY <1>1, <2>2 DEF SaidWords, s
<1>3. ASSUME NEW k \in DOMAIN s, NEW i \in DOMAIN s[k].arguments
      PROVE  chain'[k].arguments[i] = TimesIn(EnvOf, s[k].arguments[i], SoFar(k, i)')
  <2> DEFINE w == s[k].arguments[i]
             n == SoFar(k, i)
  <2>1. <<Len(chain), k, i>> \in Position
    BY <1>1, <1>2, Placed
  <2>2. chain[k].arguments[i] = TimesIn(EnvOf, w, n)
    BY <1>2
  <2>3. k \in DOMAIN chain /\ i \in DOMAIN chain[k].arguments
    BY <1>2
  <2> HIDE DEF w, n, s
  <2>4. \/ /\ chain'[k].arguments[i] = ValueIn(EnvOf, TimesIn(EnvOf, w, n))
           /\ n \in Nat /\ SoFar(k, i)' = n + 1
        \/ chain'[k].arguments[i] = TimesIn(EnvOf, w, n) /\ SoFar(k, i)' = n
    BY <2>1, <2>2, <2>3 DEF n
  <2>5. n \in Nat => TimesIn(EnvOf, w, n + 1) = ValueIn(EnvOf, TimesIn(EnvOf, w, n))
    BY Times
  <2>6. chain'[k].arguments[i] = TimesIn(EnvOf, w, SoFar(k, i)')
    BY <2>4, <2>5
  <2>. QED BY <2>6 DEF w
<1>4. \A k \in DOMAIN s : DOMAIN chain'[k].arguments = DOMAIN s[k].arguments
  BY <1>2
<1>5. parseCmdLines(typed') = s
  OBVIOUS
<1>6. SaidWords'
  <2> HIDE DEF s
  <2>. QED BY <1>1, <1>2, <1>3, <1>4, <1>5 DEF SaidWords
<1>7. SetLine' <=> SetLine
  BY DEF SetLine
<1>. QED BY <1>1, <1>6, <1>7 DEF LineInv

LEMMA SameLength ==
  ASSUME NEW m \in Nat, NEW n \in Nat, 1 .. m = 1 .. n
  PROVE  m = n
<1>1. m \in 1 .. m \/ m = 0
  OBVIOUS
<1>2. n \in 1 .. n \/ n = 0
  OBVIOUS
<1>3. m <= n /\ n <= m
  BY <1>1, <1>2
<1>. QED BY <1>3

LEMMA ExpandsAllMaps ==
  ASSUME FrontInv, EnvInv, ExpandsAll
  PROVE  EnvInv' /\ UNCHANGED <<version, EnvOf, typed, done, pc = "exited">>
<1>1. /\ pc = "expand" /\ pc' = "handle" /\ OfActual /\ version \in {"actual", "task2"}
      /\ UNCHANGED <<version, typed, predef_cmd, done, var_list, home>>
      /\ chain' = Replaced(chain, Actual!ExpandedWords)
      /\ ActualList(var_list, heap)
  BY DEF ExpandsAll, Expanding, EnvInv, ExpandInv, OfActual, FrontInv, ListRight
<1>2. EnvOf' = EnvOf /\ (OfActual' <=> OfActual)
  BY <1>1, SameMap
<1>3. chain \in Seq(Command) /\ chain' \in Seq(Command) /\ version \in Versions
  <2>1. FrontInv'
    BY ExpandingKeeps DEF ExpandsAll
  <2>. QED BY <2>1 DEF FrontInv
<1>4. /\ Len(chain) \in Nat /\ DOMAIN chain = 1 .. Len(chain) /\ DOMAIN chain' = 1 .. Len(chain')
      /\ Len(chain') \in Nat /\ \A k \in 1 .. Len(chain) : chain[k] \in Command
  BY <1>3, LenProperties, ElementOfSeq
<1>5. Len(chain') = Len(chain)
  <2>1. DOMAIN chain' = DOMAIN chain
    BY <1>1 DEF Replaced
  <2>2. 1 .. Len(chain') = 1 .. Len(chain)
    BY <1>4, <2>1
  <2>3. Len(chain) \in Nat /\ Len(chain') \in Nat
    BY <1>4
  <2>. QED BY <2>2, <2>3, SameLength
<1>6. ASSUME NEW k \in DOMAIN chain
      PROVE  /\ DOMAIN chain'[k].arguments = DOMAIN chain[k].arguments
             /\ \A i \in DOMAIN chain[k].arguments :
                  /\ chain'[k].arguments[i] = ValueIn(EnvOf, chain[k].arguments[i])
                  /\ SoFar(k, i) \in Nat
                  /\ <<Len(chain), k, i>> \in Position => SoFar(k, i)' = SoFar(k, i) + 1
  <2> DEFINE args == chain[k].arguments
  <2>1. args \in Seq(AnyWord)
    BY <1>4 DEF Command
  <2>2. chain'[k].arguments = [i \in DOMAIN args |-> Actual!expand_cmd_arg(args[i])]
    <3>1. chain'[k] = [chain[k] EXCEPT !.arguments = Actual!ExpandedWords[k]]
      BY <1>1 DEF Replaced
    <3>2. chain'[k].arguments = Actual!ExpandedWords[k]
      BY <1>4, <3>1 DEF Command
    <3>. QED BY <3>2 DEF Actual!ExpandedWords
  <2> HIDE DEF args
  <2>3. DOMAIN args = 1 .. Len(args) /\ \A i \in 1 .. Len(args) : args[i] \in AnyWord
    BY <2>1, LenProperties, ElementOfSeq
  <2>4. ASSUME NEW i \in DOMAIN args
        PROVE  /\ chain'[k].arguments[i] = ValueIn(EnvOf, args[i])
               /\ SoFar(k, i) \in Nat
               /\ <<Len(chain), k, i>> \in Position => SoFar(k, i)' = SoFar(k, i) + 1
    <3>1. chain'[k].arguments[i] = ValueIn(EnvOf, args[i])
      <4>1. args[i] \in AnyWord
        BY <2>3
      <4>2. Actual!expand_cmd_arg(args[i]) = ValueIn(EnvOf, args[i])
        BY <1>1, <4>1, ActualValue
      <4>. QED BY <2>2, <4>2
    <3>2. SoFar(k, i) = 0
      BY <1>1 DEF SoFar
    <3>3. ASSUME <<Len(chain), k, i>> \in Position PROVE SoFar(k, i)' = 1
      <4>1. Len(chain) = Len(parseCmdLines(typed))
        BY <1>1 DEF EnvInv, AtLine, LineInv, SaidWords
      <4>2. Rounds[version][<<Len(chain), k, i>>] = 1
        BY <1>1, <1>3, <3>3, RoundsAre
      <4>3. Rounds' = Rounds
        BY DEF Rounds, Shell, Position
      <4>. QED BY <1>1, <4>1, <4>2, <4>3 DEF SoFar
    <3>. QED BY <3>1, <3>2, <3>3
  <2>5. DOMAIN chain'[k].arguments = DOMAIN args
    BY <2>2
  <2>. QED BY <2>4, <2>5 DEF args
<1>7. LineInv'
  BY <1>1, <1>5, <1>6, SaidMore
<1>8. EnvInv'
  BY <1>1, <1>2, <1>7 DEF EnvInv, AtLine
<1>. QED BY <1>1, <1>2, <1>8

LEMMA ExpandsFirstMaps ==
  ASSUME FrontInv, EnvInv, ExpandsFirst
  PROVE  EnvInv' /\ UNCHANGED <<version, EnvOf, typed, done, pc = "exited">>
<1> DEFINE args == chain[1].arguments
<1>1. /\ pc = "expand" /\ ~OfActual /\ version \in {"warmup", "warmup2"}
      /\ UNCHANGED <<version, typed, predef_cmd, done, var_list, home>>
      /\ WarmupList(var_list, heap, home) /\ OneTilde(var_list) /\ pass \in Nat
      /\ LineInv /\ ExpandInv /\ version \in Versions
  BY DEF ExpandsFirst, Expanding1, EnvInv, AtLine, OfActual, FrontInv, Versions, ListRight
<1>2. /\ EnvOf' = EnvOf /\ (OfActual' <=> OfActual)
      /\ (OneTilde(var_list') <=> OneTilde(var_list))
  BY <1>1, SameMap
<1>3. CASE pc' = "crashed"
  <2>1. EnvInv'
    BY <1>1, <1>2, <1>3 DEF EnvInv, AtLine
  <2>. QED BY <1>1, <1>2, <1>3, <2>1
<1>4. CASE pc' # "crashed"
  <2> DEFINE new == [i \in DOMAIN args |-> IF Found(i) THEN ValueAt(i) ELSE args[i]]
  <2>1. /\ ~ \E i \in DOMAIN args : Found(i) /\ ValueAt(i) = NoPath
        /\ chain' = [chain EXCEPT ![1].arguments = new]
        /\ pc' \in {"handle", "expand"}
    BY <1>4 DEF ExpandsFirst, Expanding1
  <2>2. /\ version = "warmup" =>
             pass' = pass + 1 /\ pc' = IF pass + 1 = Len(chain) THEN "handle" ELSE "expand"
        /\ version = "warmup2" => pass' = pass /\ pc' = "handle"
    BY <1>4 DEF ExpandsFirst
  <2>3. chain \in Seq(Command) /\ chain' \in Seq(Command) /\ 1 \in DOMAIN chain
    <3>1. FrontInv'
      BY Expanding1Keeps DEF ExpandsFirst
    <3>. QED BY <1>1, <3>1 DEF FrontInv, AtLine
  <2>4. /\ Len(chain) \in Nat /\ DOMAIN chain = 1 .. Len(chain)
        /\ DOMAIN chain' = 1 .. Len(chain') /\ Len(chain') \in Nat
        /\ \A k \in DOMAIN chain : chain[k] \in Command
    BY <2>3, LenProperties, ElementOfSeq
  <2> HIDE DEF new
  <2>5. /\ Len(chain') = Len(chain)
        /\ chain'[1].arguments = new
        /\ \A k \in DOMAIN chain : k # 1 => chain'[k] = chain[k]
    <3>1. DOMAIN chain' = DOMAIN chain
      BY <2>1
    <3>2. Len(chain') = Len(chain)
      <4>1. 1 .. Len(chain') = 1 .. Len(chain)
        BY <2>4, <3>1
      <4>2. Len(chain) \in Nat /\ Len(chain') \in Nat
        BY <2>4
      <4>. QED BY <4>1, <4>2, SameLength
    <3>3. chain[1] \in Command
      BY <2>3, <2>4
    <3>4. chain'[1].arguments = new
      BY <2>1, <2>3, <3>3 DEF Command
    <3>. QED BY <2>1, <3>2, <3>4
  <2>6. DOMAIN new = DOMAIN args
    BY DEF new
  <2>7. ASSUME NEW i \in DOMAIN args, i > 1
        PROVE  new[i] = ValueIn(EnvOf, args[i])
    <3> DEFINE a == Warmup!address_of_var(args[i])
               w == args[i]
    <3>1. Found(i) <=> a # 0
      BY <2>7 DEF Found
    <3>2. ValueAt(i) = var_list[a].value
      BY DEF ValueAt
    <3>3. new[i] = IF a # 0 THEN var_list[a].value ELSE w
      BY <3>1, <3>2 DEF new
    <3>4. a # 0 => var_list[a].value # NoPath
      BY <2>1, <3>1, <3>2
    <3>5. a = Warmup!address_of_var(w)
      OBVIOUS
    <3> HIDE DEF a, w
    <3>6. ValueIn(EnvOf, w) = IF a # 0 THEN var_list[a].value ELSE w
      BY <1>1, <3>4, <3>5, WarmupValue
    <3>. QED BY <3>3, <3>6 DEF w
  <2>8. ASSUME NEW i \in DOMAIN args, ~(i > 1)
        PROVE  new[i] = args[i]
    BY <2>8 DEF new, Found
  <2>9. \A k, i : SoFar(k, i) = IF k = 1 /\ i > 1 THEN pass ELSE 0
    BY <1>1 DEF SoFar
  <2>10. ASSUME NEW k, NEW i, <<Len(chain), k, i>> \in Position
         PROVE  SoFar(k, i)' = IF k = 1 /\ i > 1 THEN pass + 1 ELSE 0
    <3>1. CASE pc' = "expand"
      <4>1. pass' = pass + 1
        BY <1>1, <2>2, <3>1
      <4>. QED BY <1>1, <1>2, <3>1, <4>1 DEF SoFar
    <3>2. CASE pc' = "handle"
      <4>1. Len(parseCmdLines(typed)) = Len(chain)
        BY <1>1 DEF LineInv, SaidWords
      <4>2. Rounds' = Rounds
        BY DEF Rounds, Shell, Position
      <4>3. SoFar(k, i)' = Rounds[version][<<Len(chain), k, i>>]
        BY <1>1, <3>2, <4>1, <4>2 DEF SoFar
      <4>4. CASE version = "warmup"
        <5>1. pass + 1 = Len(chain)
          BY <2>2, <3>2, <4>4
        <5>. QED BY <1>1, <2>10, <4>3, <4>4, <5>1, RoundsAre
      <4>5. CASE version = "warmup2"
        <5>1. pass = 0
          BY <1>1, <4>5 DEF ExpandInv
        <5>. QED BY <1>1, <2>10, <4>3, <4>5, <5>1, RoundsAre
      <4>. QED BY <1>1, <4>4, <4>5
    <3>. QED BY <2>1, <3>1, <3>2
  <2>11. ASSUME NEW k \in DOMAIN chain
         PROVE  /\ DOMAIN chain'[k].arguments = DOMAIN chain[k].arguments
                /\ \A i \in DOMAIN chain[k].arguments :
                     \/ /\ chain'[k].arguments[i] = ValueIn(EnvOf, chain[k].arguments[i])
                        /\ SoFar(k, i) \in Nat
                        /\ <<Len(chain), k, i>> \in Position => SoFar(k, i)' = SoFar(k, i) + 1
                     \/ /\ chain'[k].arguments[i] = chain[k].arguments[i]
                        /\ <<Len(chain), k, i>> \in Position => SoFar(k, i)' = SoFar(k, i)
    <3>1. CASE k # 1
      <4>1. chain'[k] = chain[k]
        BY <2>5, <3>1
      <4>. QED BY <2>9, <2>10, <3>1, <4>1
    <3>2. CASE k = 1
      <4>1. DOMAIN chain'[k].arguments = DOMAIN chain[k].arguments
        BY <2>5, <2>6, <3>2
      <4>2. ASSUME NEW i \in DOMAIN chain[k].arguments, i > 1
            PROVE  /\ chain'[k].arguments[i] = ValueIn(EnvOf, chain[k].arguments[i])
                   /\ SoFar(k, i) \in Nat
                   /\ <<Len(chain), k, i>> \in Position => SoFar(k, i)' = SoFar(k, i) + 1
        BY <1>1, <2>5, <2>7, <2>9, <2>10, <3>2, <4>2
      <4>3. ASSUME NEW i \in DOMAIN chain[k].arguments, ~(i > 1)
            PROVE  /\ chain'[k].arguments[i] = chain[k].arguments[i]
                   /\ <<Len(chain), k, i>> \in Position => SoFar(k, i)' = SoFar(k, i)
        BY <2>5, <2>8, <2>9, <2>10, <3>2, <4>3
      <4>. QED BY <4>1, <4>2, <4>3
    <3>. QED BY <3>1, <3>2
  <2>12. LineInv'
    BY <1>1, <2>1, <2>5, <2>11, SaidMore
  <2>13. pc' = "expand" => ExpandInv'
    <3>1. SUFFICES ASSUME pc' = "expand" PROVE ExpandInv'
      OBVIOUS
    <3>2. version = "warmup" /\ pass' = pass + 1 /\ pass + 1 # Len(chain)
      BY <1>1, <2>2, <3>1
    <3>3. pass < Len(chain)
      BY <1>1, <3>2 DEF ExpandInv
    <3>4. pass' < Len(chain')
      <4>1. pass \in Nat /\ Len(chain) \in Nat
        BY <1>1, <2>4
      <4>2. pass + 1 < Len(chain)
        BY <3>2, <3>3, <4>1
      <4>3. Len(chain') = Len(chain) /\ pass' = pass + 1
        BY <2>5, <3>2
      <4>. QED BY <4>2, <4>3
    <3>. QED BY <1>1, <3>2, <3>4 DEF ExpandInv
  <2>14. EnvInv'
    BY <1>1, <1>2, <2>1, <2>12, <2>13 DEF EnvInv, AtLine
  <2>. QED BY <1>1, <1>2, <2>1, <2>14
<1>. QED BY <1>3, <1>4

-----------------------------------------------------------------------------
LEMMA EnvInitMaps == StagesInit => EnvInv /\ Env!EnvInit
<1> SUFFICES ASSUME StagesInit PROVE EnvInv /\ Env!EnvInit
  OBVIOUS
<1>1. pc = "prompt" /\ typed = <<>> /\ done = <<>>
  BY DEF StagesInit, Actual!Init, Warmup!Init
<1>2. FrontInv
  BY FrontInvInit
<1>3. Env!Home = Tilde
  BY EnvWords DEF Env!Home, Tilde
<1>4. CASE OfActual
  <2>1. var_list = <<>>
    BY <1>4 DEF StagesInit, Actual!Init, OfActual
  <2>2. ToSet(<<>>) = {}
    BY DEF ToSet
  <2>3. DOMAIN Actual!EnvOf \subseteq {Tilde}
    BY <2>1, <2>2, ActualEnvUnfolds DEF ActualMap
  <2>. QED BY <1>1, <1>3, <1>4, <2>3 DEF EnvInv, AtLine, EnvOf, Env!EnvInit
<1>5. CASE ~OfActual
  <2>1. WarmupList(var_list, heap, home) /\ Len(var_list) = 1
    <3>1. WarmupList(var_list, heap, home)
      BY <1>1, <1>2, <1>5 DEF FrontInv, ListRight
    <3>2. Len(var_list) = 1
      BY <1>5 DEF StagesInit, Warmup!Init, OfActual
    <3>. QED BY <3>1, <3>2
  <2>2. OneTilde(var_list)
    BY <2>1 DEF OneTilde
  <2>3. var_list[1].expand_name = Tilde /\ DOMAIN var_list = 1 .. 1
    BY <2>1, LenProperties DEF WarmupList, Tilde
  <2>4. \A v \in ToSet(var_list) : v = var_list[1]
    BY <2>3 DEF ToSet
  <2>5. DOMAIN Warmup!EnvOf \subseteq {Tilde}
    BY <2>3, <2>4, WarmupEnvUnfolds DEF WarmupMap
  <2>. QED BY <1>1, <1>3, <1>5, <2>2, <2>5 DEF EnvInv, AtLine, EnvOf, Env!EnvInit
<1>. QED BY <1>4, <1>5

LEMMA EnvStepMaps ==
  FrontInv /\ EnvInv /\ [StagesNext]_stageVars => EnvInv' /\ [Env!EnvNext]_(Env!envVars)
<1> SUFFICES ASSUME FrontInv, EnvInv, [StagesNext]_stageVars
             PROVE  EnvInv' /\ [Env!EnvNext]_(Env!envVars)
  OBVIOUS
<1>1. CASE StagesNext
  <2>1. EnvMoves
    BY <1>1, ActualEnvMoves, Task1EnvMoves, Task2EnvMoves, WarmupEnvMoves, Warmup2EnvMoves
       DEF StagesNext
  <2>2. /\ EnvInv'
        /\ \/ Env!Type \/ Env!Forget \/ Env!Leave \/ Env!Hand \/ Env!Assign
           \/ UNCHANGED <<version, EnvOf, typed, done, pc = "exited">>
    BY <2>1, ReadsMaps, ClosesMaps, StaysMaps, HandsMaps, SetsMaps,
       ExpandsAllMaps, ExpandsFirstMaps DEF EnvMoves
  <2>. QED BY <2>2 DEF Env!EnvNext, Env!envVars
<1>2. CASE UNCHANGED stageVars
  <2>1. EnvOf' = EnvOf /\ (OfActual' <=> OfActual) /\ (OneTilde(var_list') <=> OneTilde(var_list))
    BY <1>2, SameMap DEF stageVars
  <2>2. \A k, i : SoFar(k, i)' = SoFar(k, i)
    <3>1. Rounds' = Rounds
      BY DEF Rounds, Shell, Position
    <3>. QED BY <1>2, <2>1, <3>1 DEF SoFar, stageVars
  <2>3. EnvInv'
    BY <1>2, <2>1, <2>2 DEF stageVars, EnvInv, AtLine, LineInv, SaidWords, SetLine, ExpandInv
  <2>4. UNCHANGED Env!envVars
    BY <1>2, <2>1 DEF stageVars, Env!envVars
  <2>. QED BY <2>3, <2>4
<1>. QED BY <1>1, <1>2

(* The lists of variables are a map, in each of the five shells: what a    *)
(* program, cd or set gets are the words of the line with the values set   *)
(* last, each replaced as often as that shell replaces it, and nothing but *)
(* set changes a value; however long the line and however many variables.  *)
THEOREM ListIsMap == StagesSpec => ImplementsEnvironment
<1>1. StagesInit => EnvInv /\ Env!EnvInit
  BY EnvInitMaps
<1>2. FrontInv /\ EnvInv /\ [StagesNext]_stageVars => EnvInv' /\ [Env!EnvNext]_(Env!envVars)
  BY EnvStepMaps
<1>. QED BY <1>1, <1>2, FrontInvHolds, PTL
     DEF StagesSpec, ImplementsEnvironment, Env!EnvSpec
=============================================================================
