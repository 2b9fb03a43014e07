---------------------------- MODULE HexEditProofs ----------------------------
(***************************************************************************)
(* Proofs about the hex editors and their stages, for every length and     *)
(* place of the buffer, width of an int and of an address, contents of the *)
(* file, and sets of numbers and unit sizes that an int holds.             *)
(***************************************************************************)
EXTENDS HexEditStages, SequenceTheorems, TLAPS

-----------------------------------------------------------------------------
(* Arithmetic modulo the width of an int.                                  *)

LEMMA DivMod ==
  ASSUME NEW n \in Int, NEW w \in Nat \ {0}
  PROVE  /\ n \div w \in Int /\ n % w \in 0 .. w - 1
         /\ n = w * (n \div w) + (n % w)
OBVIOUS

LEMMA ModOf ==
  ASSUME NEW w \in Nat \ {0}, NEW q \in Int, NEW r \in 0 .. w - 1
  PROVE  (w * q + r) % w = r
<1> DEFINE n == w * q + r
<1>1. n \in Int
  OBVIOUS
<1> DEFINE d == n \div w  m == n % w
<1>2. d \in Int /\ m \in 0 .. w - 1 /\ n = w * d + m
  BY <1>1, DivMod
<1> HIDE DEF d, m
<1>3. w * (q - d) = m - r
  BY <1>2
<1>4. q - d = 0
  <2>1. CASE q - d >= 1
    <3>1. w * (q - d) >= w
      BY <1>2, <2>1
    <3> QED BY <1>2, <1>3, <3>1
  <2>2. CASE q - d <= -1
    <3>1. w * (q - d) <= -w
      BY <1>2, <2>2
    <3> QED BY <1>2, <1>3, <3>1
  <2> QED BY <1>2, <2>1, <2>2
<1>5. m = r
  BY <1>2, <1>3, <1>4
<1> QED BY <1>5 DEF m

LEMMA ModProduct ==
  ASSUME NEW w \in Nat \ {0}, NEW a \in Int, NEW b \in Int
  PROVE  ((a % w) * (b % w)) % w = (a * b) % w
<1> DEFINE qa == a \div w  ra == a % w  qb == b \div w  rb == b % w
<1>1. qa \in Int /\ ra \in 0 .. w - 1 /\ a = w * qa + ra
  BY DivMod
<1>2. qb \in Int /\ rb \in 0 .. w - 1 /\ b = w * qb + rb
  BY DivMod
<1> HIDE DEF qa, ra, qb, rb
<1> DEFINE qp == (ra * rb) \div w  rp == (ra * rb) % w
<1>3. qp \in Int /\ rp \in 0 .. w - 1 /\ ra * rb = w * qp + rp
  BY <1>1, <1>2, DivMod
<1> HIDE DEF qp, rp
<1>4. a * b = w * (w * qa * qb + qa * rb + ra * qb + qp) + rp
  <2>1. a * b = (w * qa + ra) * (w * qb + rb)
    BY <1>1, <1>2
  <2>2. (w * qa + ra) * (w * qb + rb) = w * (w * qa * qb + qa * rb + ra * qb) + ra * rb
    BY <1>1, <1>2
  <2> QED BY <1>1, <1>2, <1>3, <2>1, <2>2
<1>5. w * qa * qb + qa * rb + ra * qb + qp \in Int
  BY <1>1, <1>2, <1>3
<1>6. (a * b) % w = rp
  BY <1>3, <1>4, <1>5, ModOf
<1> QED BY <1>6 DEF rp, ra, rb

(* What the assumption says, without the division. *)
LEMMA Widths ==
  /\ Wrap \in Nat \ {0} /\ BufLen \in Nat \ {0} /\ MaxFile \in Nat
  /\ Wrap \div 2 \in Nat /\ 2 * (Wrap \div 2) <= Wrap
  /\ BufLen < Wrap \div 2 /\ MaxFile < Wrap \div 2
  /\ CInt \subseteq Int
  /\ \A n \in Int : n \in CInt <=> -(Wrap \div 2) <= n /\ n < Wrap \div 2
  /\ Base \in Nat /\ Base + BufLen < Wrap
BY HexEditAssumption DEF HexEditAssumption, CInt

(* An int as a size_t. *)
LEMMA SizeTOf ==
  ASSUME NEW n \in CInt
  PROVE  SizeT(n) = IF n >= 0 THEN n ELSE n + Wrap
<1>1. CASE n >= 0
  <2>1. n = Wrap * 0 + n /\ n \in 0 .. Wrap - 1
    BY <1>1, Widths
  <2> QED BY <1>1, <2>1, Widths, ModOf DEF SizeT
<1>2. CASE n < 0
  <2>1. n = Wrap * (-1) + (n + Wrap) /\ n + Wrap \in 0 .. Wrap - 1 /\ -1 \in Int
    BY <1>2, Widths
  <2>2. (Wrap * (-1) + (n + Wrap)) % Wrap = n + Wrap
    BY <2>1, Widths, ModOf
  <2> QED BY <1>2, <2>1, <2>2, Widths DEF SizeT
<1> QED BY <1>1, <1>2, Widths

-----------------------------------------------------------------------------
LEMMA RequestIs ==
  ASSUME TypeOK, NEW action, action # "none", Doing(action)
  PROVE  req \in Request /\ req.action = action
<1>1. req \in Request \cup {NoRequest} /\ req.action = action
  BY DEF TypeOK, Doing
<1>2. req # NoRequest
  BY <1>1 DEF NoRequest
<1> QED BY <1>1, <1>2

LEMMA EnteredInts ==
  /\ Number \subseteq CInt /\ UnitSize \cup {1} \subseteq CInt /\ 0 \in Byte
  /\ 0 \in CInt /\ \A n \in CInt : n \in Int
<1>1. 1 \in CInt /\ 0 \in CInt
  BY Widths DEF CInt
<1> QED BY <1>1, Widths, HexEditAssumption DEF HexEditAssumption

LEMMA Entered ==
  ASSUME TypeOK
  PROVE  /\ unit_size \in CInt /\ req.count \in CInt /\ req.location \in CInt
         /\ unit_size \in Int /\ req.count \in Int /\ req.location \in Int
         /\ Bytes \in Int /\ LastByteOffset \in Int
         /\ req.action = "modify" => req.val \in Byte
<1>1. req \in Request \cup {NoRequest} /\ unit_size \in UnitSize \cup {1}
  BY DEF TypeOK
<1>2. /\ req.count \in Number \cup {0} /\ req.location \in Number \cup {0}
      /\ req.action = "modify" => req.val \in Byte
  BY <1>1 DEF Request, NoRequest
<1>3. unit_size \in CInt /\ req.count \in CInt /\ req.location \in CInt
  BY <1>1, <1>2, EnteredInts
<1>4. unit_size \in Int /\ req.count \in Int /\ req.location \in Int
  BY <1>3, EnteredInts
<1> QED BY <1>2, <1>3, <1>4 DEF Bytes, LastByteOffset

(* The number of bytes that fread and fwrite make of what they are given   *)
(* is the product, modulo the width of a size_t.                           *)
LEMMA RequestedOf ==
  ASSUME TypeOK
  PROVE  /\ Requested = Bytes % Wrap /\ Requested \in 0 .. Wrap - 1
         /\ Bytes \in CInt => Requested = IF Bytes >= 0 THEN Bytes ELSE Bytes + Wrap
         /\ Bytes >= 0 => Requested <= Bytes
<1>1. unit_size \in Int /\ req.count \in Int /\ Bytes \in Int /\ Wrap \in Nat \ {0}
  BY Entered, Widths
<1>2. ((unit_size % Wrap) * (req.count % Wrap)) % Wrap = (unit_size * req.count) % Wrap
  BY <1>1, ModProduct
<1>3. Requested = Bytes % Wrap
  BY <1>2 DEF Requested, SizeT, Bytes
<1>4. Bytes \in CInt => Requested = IF Bytes >= 0 THEN Bytes ELSE Bytes + Wrap
  BY <1>3, SizeTOf DEF SizeT
<1>5. Requested \in 0 .. Wrap - 1 /\ (Bytes >= 0 => Requested <= Bytes)
  <2> DEFINE B == Bytes  q == B \div Wrap  r == B % Wrap
  <2>1. q \in Int /\ r \in 0 .. Wrap - 1 /\ B = Wrap * q + r /\ B \in Int
    BY <1>1, DivMod
  <2>2. Requested = r
    BY <1>3
  <2> HIDE DEF B, q, r
  <2>3. ASSUME B >= 0 PROVE r <= B
    <3>1. q >= 0
      <4>1. q <= -1 => Wrap * q <= -Wrap
        BY <1>1, <2>1
      <4> QED BY <1>1, <2>1, <2>3, <4>1
    <3>2. Wrap * q >= 0
      BY <1>1, <2>1, <3>1
    <3> QED BY <1>1, <2>1, <3>2
  <2> QED BY <2>1, <2>2, <2>3 DEF B
<1> QED BY <1>3, <1>4, <1>5

(* What is behind the start of the buffer by less than the address space   *)
(* that follows it is there; nothing that is behind it is found further.   *)
LEMMA AddressOf ==
  ASSUME NEW n \in Nat
  PROVE  /\ Address(n) \in 0 .. Wrap - 1 /\ Address(n) <= Base + n
         /\ Base + n < Wrap => Address(n) = Base + n
<1>1. Base + n \in Nat /\ Base + n \in Int /\ Wrap \in Nat \ {0}
  BY Widths
<1> DEFINE m == Base + n  q == m \div Wrap  r == m % Wrap
<1>2. q \in Int /\ r \in 0 .. Wrap - 1 /\ m = Wrap * q + r
  BY <1>1, DivMod
<1>3. Address(n) = r
  BY DEF Address
<1> HIDE DEF m, q, r
<1>4. m \in Nat
  BY <1>1 DEF m
<1>5. q >= 0
  <2>1. q <= -1 => Wrap * q <= -Wrap
    BY <1>1, <1>2
  <2> QED BY <1>1, <1>2, <1>4, <2>1
<1>6. r <= m
  <2>1. Wrap * q >= 0
    BY <1>1, <1>2, <1>5
  <2> QED BY <1>1, <1>2, <1>4, <2>1
<1>7. m < Wrap => r = m
  <2>1. q >= 1 => Wrap * q >= Wrap
    BY <1>1, <1>2
  <2>2. q = 0 => Wrap * q = 0
    BY <1>1
  <2> QED BY <1>1, <1>2, <1>4, <1>5, <2>1, <2>2
<1> QED BY <1>2, <1>3, <1>6, <1>7 DEF m

LEMMA AvailableOf ==
  ASSUME TypeOK
  PROVE  /\ Available \in Int /\ Available <= Requested /\ Len(file) \in Nat
         /\ req.location >= 0 =>
              Available \in Nat /\ (Available = 0 \/ req.location + Available <= Len(file))
<1>1. file \in Seq(Byte) /\ Len(file) \in Nat
  BY LenProperties DEF TypeOK
<1>2. req.location \in Int /\ Requested \in Nat
  BY Entered, RequestedOf, Widths
<1> QED BY <1>1, <1>2 DEF Available, Least

(* The product of the numbers that fread is given is beyond a size_t. *)
Wraps == SizeT(unit_size) * SizeT(req.count) >= Wrap

(* Unless it is, a load counts no more than it read.  A count that is no   *)
(* int becomes negative, and counts nothing.                               *)
LEMMA LoadCounts ==
  ASSUME TypeOK, Available \in Nat, Available <= BufLen
  PROVE  /\ UnitsRead \in 0 .. Wrap - 1 /\ Signed(UnitsRead) \in Int
         /\ Signed(UnitsRead) >= 0 =>
              Signed(UnitsRead) = UnitsRead /\ UnitsRead <= (Wrap \div 2) - 1
         /\ UnitsRead <= Available \/ (UnitsRead = SizeT(req.count) /\ Wraps)
<1> DEFINE R == Requested  A == Available  u == SizeT(unit_size)  c == SizeT(req.count)
           U == UnitsRead
<1>1. u \in 0 .. Wrap - 1 /\ c \in 0 .. Wrap - 1 /\ Wrap \in Nat \ {0}
  <2>1. unit_size \in Int /\ req.count \in Int /\ Wrap \in Nat \ {0}
    BY Entered, Widths
  <2> QED BY <2>1, DivMod DEF SizeT
<1>2. R = (u * c) % Wrap /\ R \in 0 .. Wrap - 1 /\ A <= R /\ A \in Nat
  BY RequestedOf, AvailableOf DEF Requested
<1>3. U = IF R = 0 THEN 0 ELSE IF A = R THEN c ELSE A \div u
  BY DEF UnitsRead
<1>4. Wraps <=> u * c >= Wrap
  BY DEF Wraps
<1>5. A <= BufLen
  OBVIOUS
<1> HIDE DEF R, A, u, c, U
<1>6. U \in 0 .. Wrap - 1 /\ (U <= A \/ (U = c /\ u * c >= Wrap))
  <2>1. CASE R = 0
    BY <1>1, <1>2, <1>3, <2>1
  <2>2. CASE R # 0 /\ A = R
    <3>1. U = c
      BY <1>3, <2>2
    <3>2. CASE u * c >= Wrap
      BY <1>1, <3>1, <3>2
    <3>3. CASE u * c < Wrap
      <4>1. u * c \in Nat
        BY <1>1
      <4>2. R = u * c
        <5>1. u * c = Wrap * 0 + u * c /\ u * c \in 0 .. Wrap - 1
          BY <1>1, <3>3, <4>1
        <5>2. (Wrap * 0 + u * c) % Wrap = u * c
          BY <1>1, <5>1, ModOf
        <5> QED BY <1>2, <5>1, <5>2
      <4>3. u >= 1
        BY <1>1, <2>2, <4>2
      <4>4. c <= u * c
        BY <1>1, <4>3
      <4> QED BY <1>1, <2>2, <3>1, <4>2, <4>4
    <3> QED BY <1>1, <3>2, <3>3
  <2>3. CASE R # 0 /\ A # R
    <3>1. U = A \div u
      BY <1>3, <2>3
    <3>2. u >= 1
      <4>1. u = 0 => u * c = 0 /\ (u * c) % Wrap = 0
        <5>1. (Wrap * 0 + 0) % Wrap = 0
          BY <1>1, ModOf
        <5> QED BY <1>1, <5>1
      <4> QED BY <1>1, <1>2, <2>3, <4>1
    <3> DEFINE q == A \div u  r == A % u
    <3>3. q \in Int /\ r \in 0 .. u - 1 /\ A = u * q + r
      <4>1. A \in Int /\ u \in Nat \ {0}
        BY <1>1, <1>2, <3>2
      <4> QED BY <4>1, DivMod
    <3> HIDE DEF q, r
    <3>4. q >= 0
      <4>1. q <= -1 => u * q <= -u
        BY <1>1, <3>3
      <4> QED BY <1>1, <1>2, <3>3, <4>1
    <3>5. q <= u * q
      BY <1>1, <3>2, <3>3, <3>4
    <3>6. q <= A
      BY <1>1, <1>2, <3>3, <3>5
    <3>7. U = q
      BY <3>1 DEF q
    <3> QED BY <1>1, <1>2, <3>3, <3>4, <3>6, <3>7
  <2> QED BY <2>1, <2>2, <2>3
<1>7. /\ Signed(U) \in Int
      /\ Signed(U) >= 0 => Signed(U) = U /\ U <= (Wrap \div 2) - 1
  BY <1>6, Widths DEF Signed
<1> QED BY <1>4, <1>6, <1>7 DEF U, c, A

(* What passes the test before a save, and stays in the buffer, is counted *)
(* and is no negative number of bytes.  What does not stay there is a      *)
(* negative number, or gets past the test because its end is beyond the    *)
(* address space, or because more is counted than the buffer holds.        *)
LEMMA EnoughOf ==
  ASSUME TypeOK, Bytes \in CInt, EnoughBytes
  PROVE  /\ Requested <= BufLen => Requested = Bytes /\ Bytes \in 0 .. mem_count
         /\ Requested > BufLen =>
              Bytes < 0 \/ Base + Bytes >= Wrap \/ mem_count > BufLen
<1> DEFINE B == Bytes  R == Requested
<1>1. B \in Int /\ -(Wrap \div 2) <= B /\ B < Wrap \div 2
  BY Entered, Widths
<1>2. R = IF B >= 0 THEN B ELSE B + Wrap
  BY RequestedOf
<1>3. mem_count \in Nat
  BY Widths DEF TypeOK
<1>4. B = mem_count \/ Address(B) <= Address(mem_count)
  <2>1. BufferEnd = B
    BY DEF EnoughBytes
  <2>2. CASE Address(B) > Address(mem_count)
    BY <2>1, <2>2 DEF BufferEnd
  <2>3. CASE ~(Address(B) > Address(mem_count))
    <3>1. Address(mem_count) \in Int
      BY <1>3, AddressOf
    <3>2. Address(B) \in Int
      BY <1>1, Widths, DivMod DEF Address
    <3> QED BY <2>3, <3>1, <3>2
  <2> QED BY <2>2, <2>3
<1>5. B >= 0 /\ Base + B < Wrap => B <= mem_count
  <2> SUFFICES ASSUME B >= 0, Base + B < Wrap PROVE B <= mem_count
    OBVIOUS
  <2>1. Address(B) = Base + B
    BY <1>1, AddressOf
  <2>2. Address(mem_count) <= Base + mem_count /\ Address(mem_count) \in Int
    BY <1>3, AddressOf
  <2> QED BY <1>1, <1>3, <1>4, <2>1, <2>2, Widths
<1> HIDE DEF B, R
<1>6. /\ R <= BufLen => R = B /\ B \in 0 .. mem_count
      /\ R > BufLen => B < 0 \/ Base + B >= Wrap \/ mem_count > BufLen
  BY <1>1, <1>2, <1>3, <1>5, Widths
<1> QED BY <1>6 DEF B, R

(* A display shows no more than is asked for, and no more than is counted. *)
LEMMA ShownOf ==
  ASSUME TypeOK, Bytes >= 0, Shown > 0
  PROVE  Shown \in Nat /\ Shown <= Least(Bytes, mem_count)
<1>1. Bytes \in Nat /\ mem_count \in Nat /\ Base \in Nat
  BY Entered, Widths DEF TypeOK
<1>2. /\ Address(Bytes) \in Int /\ Address(Bytes) <= Base + Bytes
      /\ Address(mem_count) \in Int /\ Address(mem_count) <= Base + mem_count
  BY <1>1, AddressOf
<1>3. CASE Address(Bytes) > Address(mem_count)
  <2>1. Shown = Address(mem_count) - Base
    BY <1>3 DEF Shown, BufferEnd
  <2> QED BY <1>1, <1>2, <1>3, <2>1 DEF Least
<1>4. CASE ~(Address(Bytes) > Address(mem_count))
  <2>1. Shown = Address(Bytes) - Base
    BY <1>4 DEF Shown, BufferEnd
  <2> QED BY <1>1, <1>2, <1>4, <2>1 DEF Least
<1> QED BY <1>3, <1>4

LEMMA ModifyBounds ==
  ASSUME TypeOK, Doing("modify"), ~OutOfBounds
  PROVE  LastByteOffset \in 0 .. BufLen - 1 /\ SizeT(LastByteOffset) = LastByteOffset
<1>1. LastByteOffset \in CInt /\ LastByteOffset \in Int
  BY Entered DEF Doing, Overflows
<1>2. SizeT(LastByteOffset) = IF LastByteOffset >= 0 THEN LastByteOffset ELSE LastByteOffset + Wrap
  BY <1>1, SizeTOf
<1>3. SizeT(LastByteOffset) < BufLen
  BY <1>1, <1>2, Widths DEF OutOfBounds
<1> QED BY <1>1, <1>2, <1>3, Widths
-----------------------------------------------------------------------------
(* The steps.                                                              *)

(* How a step may change the file, and how it may raise the count.  *)
Exact ==
  file' # file =>
    /\ req.action = "save"
    /\ Bytes \in 0 .. mem_count
    /\ req.location <= Len(file)
    /\ file' = Written(IF req.location < 0 THEN Len(file) ELSE req.location, Bytes)

Grows == mem_count' # mem_count /\ mem_count' > BufLen => req.action = "load" /\ Wraps

Keeps == TypeOK' /\ Exact /\ Grows

(* What excuses a fault in every version. *)
Excused ==
  \/ file_name = "long"
  \/ unit_size \notin {1, 2, 4}
  \/ req.count < 0 \/ req.location < 0
  \/ Overflows
  \/ req.action = "display" /\ Least(Bytes, mem_count) > BufLen - (IntSize - 1)
  \/ req.action = "save" /\ Base + Bytes >= Wrap

LEMMA ReturnsType ==
  ASSUME TypeOK, Returns, mem_buf' \in [0 .. BufLen - 1 -> Byte],
         mem_count' \in 0 .. (Wrap \div 2) - 1, file' \in Seq(Byte)
  PROVE  TypeOK' /\ pc' # "fault"
BY DEF TypeOK, Returns

LEMMA FaultsType ==
  ASSUME TypeOK, Faults
  PROVE  /\ Keeps
         /\ req' = req /\ mem_count' = mem_count /\ Bytes' = Bytes
         /\ Excused => Excused'
BY DEF TypeOK, Faults, Keeps, Exact, Grows, Excused, Overflows, Bytes, LastByteOffset

LEMMA MenuStep ==
  ASSUME TypeOK, Menu
  PROVE  Keeps /\ mem_count' = mem_count /\ (pc' = "fault" => Excused')
<1>1. ASSUME NEW name \in FileName, SetFileName(name)
      PROVE  Keeps /\ mem_count' = mem_count /\ (pc' = "fault" => Excused')
  BY <1>1 DEF TypeOK, SetFileName, Keeps, Exact, Grows, Excused
<1>2. ASSUME NEW n \in UnitSize, SetUnitSize(n)
      PROVE  Keeps /\ mem_count' = mem_count /\ pc' # "fault"
  BY <1>2 DEF TypeOK, SetUnitSize, Keeps, Exact, Grows
<1>3. ASSUME NEW r \in Request, Ask(r)
      PROVE  Keeps /\ mem_count' = mem_count /\ pc' # "fault"
  BY <1>3 DEF TypeOK, Ask, Keeps, Exact, Grows
<1>4. ASSUME Quit
      PROVE  Keeps /\ mem_count' = mem_count /\ pc' # "fault"
  BY <1>4 DEF TypeOK, Quit, Keeps, Exact, Grows
<1> QED BY <1>1, <1>2, <1>3, <1>4 DEF Menu

LEMMA OverflowStep ==
  ASSUME TypeOK, Overflow
  PROVE  Keeps /\ mem_count' = mem_count /\ Excused'
BY FaultsType DEF Overflow, Excused

(* The actions that leave the buffer and the file alone. *)
LEMMA UnchangedStep ==
  ASSUME TypeOK, Returns, UNCHANGED <<mem_buf, mem_count, file>>
  PROVE  Keeps /\ mem_count' = mem_count /\ pc' # "fault"
BY DEF TypeOK, Returns, Keeps, Exact, Grows

LEMMA RefusedStep ==
  ASSUME TypeOK, LoadFails \/ SaveRefused \/ WarmupSaveRefused \/ ModifyRefused
  PROVE  Keeps /\ mem_count' = mem_count /\ pc' # "fault"
<1>1. Returns /\ UNCHANGED <<mem_buf, mem_count, file>>
  BY DEF LoadFails, SaveRefused, WarmupSaveRefused, ModifyRefused
<1> QED BY <1>1, UnchangedStep

(* Numbers that excuse nothing ask for at least as many bytes as units. *)
LEMMA BytesOf ==
  ASSUME TypeOK, ~Excused
  PROVE  Bytes >= 0 /\ req.count <= Bytes /\ req.count >= 0 /\ unit_size \in {1, 2, 4}
<1>1. unit_size \in {1, 2, 4} /\ req.count \in Int /\ req.count >= 0
  BY Entered DEF Excused
<1>2. unit_size * req.count >= req.count
  BY <1>1
<1> QED BY <1>1, <1>2 DEF Bytes

LEMMA DisplayStep ==
  ASSUME TypeOK, Display
  PROVE  Keeps /\ mem_count' = mem_count /\ (pc' = "fault" => Excused')
<1>1. CASE Shown > 0 /\ (unit_size \notin {1, 2, 4} \/ LastUnit + IntSize > BufLen)
  <2>1. Faults
    BY <1>1 DEF Display
  <2>2. Excused
    <3> SUFFICES ASSUME ~Excused PROVE FALSE
      OBVIOUS
    <3>1. unit_size \in {1, 2, 4} /\ Bytes >= 0
      BY BytesOf
    <3>2. Shown \in Nat /\ Shown <= Least(Bytes, mem_count)
      BY <1>1, <3>1, ShownOf
    <3> DEFINE n == Shown - 1  q == n \div unit_size  r == n % unit_size
    <3>3. q \in Int /\ r \in 0 .. unit_size - 1 /\ n = unit_size * q + r
      <4>1. n \in Int /\ unit_size \in Nat \ {0}
        BY <3>1, <3>2
      <4> QED BY <4>1, DivMod
    <3>4. LastUnit = unit_size * q
      BY DEF LastUnit
    <3>5. LastUnit + 4 > BufLen
      BY <1>1, <3>1 DEF IntSize
    <3> HIDE DEF q, r
    <3>6. Shown > BufLen - 3
      <4>1. unit_size * q <= Shown - 1 /\ unit_size * q \in Int
        BY <3>1, <3>2, <3>3
      <4> QED BY <3>2, <3>4, <3>5, <4>1, Widths
    <3>7. Least(Bytes, mem_count) > BufLen - 3
      <4>1. Least(Bytes, mem_count) \in Int
        BY Entered, Widths DEF TypeOK, Least
      <4> QED BY <3>2, <3>6, <4>1, Widths
    <3>8. req.action = "display"
      BY DEF Display, Doing
    <3> QED BY <3>7, <3>8 DEF Excused, IntSize
  <2> QED BY <2>1, <2>2, FaultsType
<1>2. CASE ~(Shown > 0 /\ (unit_size \notin {1, 2, 4} \/ LastUnit + IntSize > BufLen))
  <2>1. Returns /\ UNCHANGED <<mem_buf, mem_count, file>>
    BY <1>2 DEF Display
  <2> QED BY <2>1, UnchangedStep
<1> QED BY <1>1, <1>2

-----------------------------------------------------------------------------
(* The buffer after a load. *)
LEMMA OverlaidType ==
  ASSUME TypeOK, NEW n \in Nat, n = 0 \/ req.location + n <= Len(file),
         req.location \in Nat
  PROVE  Overlaid(n) \in [0 .. BufLen - 1 -> Byte]
<1>1. DOMAIN mem_buf = 0 .. BufLen - 1 /\ \A i \in 0 .. BufLen - 1 : mem_buf[i] \in Byte
  BY DEF TypeOK
<1>2. \A i \in 0 .. BufLen - 1 : i < n => file[req.location + i + 1] \in Byte
  <2>1. file \in Seq(Byte) /\ Len(file) \in Nat
    BY LenProperties DEF TypeOK
  <2> SUFFICES ASSUME NEW i \in 0 .. BufLen - 1, i < n
               PROVE  file[req.location + i + 1] \in Byte
    OBVIOUS
  <2>2. req.location + i + 1 \in 1 .. Len(file)
    BY <2>1
  <2> QED BY <2>1, <2>2, ElementOfSeq
<1> QED BY <1>1, <1>2 DEF Overlaid

(* A load that leaves the buffer asks for more than it holds, or for as    *)
(* much, in the version that ends it with a zero.                          *)
LEMMA LoadFault ==
  ASSUME TypeOK, ~Excused, Available \in Nat
  PROVE  /\ Available > BufLen => Bytes > BufLen
         /\ Available <= BufLen /\ Signed(UnitsRead) >= BufLen => Bytes >= BufLen
<1>1. Bytes \in Int /\ Bytes >= 0 /\ req.count \in Int /\ req.count >= 0 /\ req.count <= Bytes
      /\ BufLen \in Nat
  BY BytesOf, Entered, Widths
<1>2. Available <= Bytes
  <2>1. Available <= Requested /\ Requested <= Bytes /\ Requested \in Int
    BY <1>1, AvailableOf, RequestedOf, Widths
  <2> QED BY <1>1, <2>1
<1>3. ASSUME Available <= BufLen, Signed(UnitsRead) >= BufLen
      PROVE  Bytes >= BufLen
  <2>1. /\ UnitsRead \in 0 .. Wrap - 1 /\ Signed(UnitsRead) \in Int
        /\ Signed(UnitsRead) >= 0 => Signed(UnitsRead) = UnitsRead
        /\ UnitsRead <= Available \/ UnitsRead = SizeT(req.count)
    BY <1>3, LoadCounts
  <2>2. SizeT(req.count) = req.count
    BY <1>1, Entered, SizeTOf
  <2>3. UnitsRead >= BufLen
    BY <1>1, <1>3, <2>1
  <2> QED BY <1>1, <1>2, <2>1, <2>2, <2>3, Widths
<1> QED BY <1>1, <1>2, <1>3

LEMMA LoadStep ==
  ASSUME TypeOK, Load
  PROVE  Keeps /\ (pc' = "fault" => DefinedInRange')
<1>1. req.action = "load" /\ req.location \in Nat /\ BufLen \in Nat
  BY Entered, Widths DEF Load, Doing
<1>2. Available \in Nat /\ (Available = 0 \/ req.location + Available <= Len(file))
  BY <1>1, AvailableOf
<1>3. CASE Available > BufLen
  <2>1. Faults
    BY <1>3 DEF Load
  <2>2. Excused \/ Bytes > BufLen
    BY <1>2, <1>3, LoadFault
  <2>3. Keeps /\ req' = req /\ Bytes' = Bytes /\ (Excused => Excused')
    BY <2>1, FaultsType
  <2> QED BY <1>1, <2>2, <2>3 DEF DefinedInRange, Excused
<1>4. CASE ~(Available > BufLen)
  <2>1. /\ mem_buf' = Overlaid(Available)
        /\ mem_count' = IF Signed(UnitsRead) < 0 THEN mem_count
                        ELSE Greatest(mem_count, UnitsRead)
        /\ Returns /\ file' = file
    BY <1>4 DEF Load
  <2>2. mem_buf' \in [0 .. BufLen - 1 -> Byte] /\ file' \in Seq(Byte)
    BY <1>1, <1>2, <2>1, OverlaidType DEF TypeOK
  <2>3. Available <= BufLen
    BY <1>1, <1>2, <1>4
  <2>4. /\ UnitsRead \in 0 .. Wrap - 1 /\ Signed(UnitsRead) \in Int
        /\ Signed(UnitsRead) >= 0 =>
             Signed(UnitsRead) = UnitsRead /\ UnitsRead <= (Wrap \div 2) - 1
        /\ UnitsRead <= Available \/ Wraps
    BY <1>2, <2>3, LoadCounts
  <2>5. mem_count \in 0 .. (Wrap \div 2) - 1 /\ Wrap \div 2 \in Nat /\ Wrap \in Nat
    BY Widths DEF TypeOK
  <2>6. /\ mem_count' \in 0 .. (Wrap \div 2) - 1
        /\ mem_count' # mem_count /\ mem_count' > BufLen => Wraps
    <3>1. CASE Signed(UnitsRead) < 0
      BY <2>1, <2>5, <3>1
    <3>2. CASE ~(Signed(UnitsRead) < 0)
      BY <1>1, <1>2, <2>1, <2>3, <2>4, <2>5, <3>2 DEF Greatest
    <3> QED BY <3>1, <3>2
  <2> QED BY <1>1, <2>1, <2>2, <2>6, ReturnsType DEF Keeps, Exact, Grows
<1> QED BY <1>3, <1>4

LEMMA WarmupLoadStep ==
  ASSUME TypeOK, mem_count <= BufLen, WarmupLoad
  PROVE  Keeps /\ mem_count' <= BufLen /\ (pc' = "fault" => WarmupDefinedInRange')
<1>1. req.action = "load" /\ req.location \in Nat /\ BufLen \in Nat
  BY Entered, Widths DEF WarmupLoad, Doing
<1>2. Available \in Nat /\ (Available = 0 \/ req.location + Available <= Len(file))
  BY <1>1, AvailableOf
<1>3. CASE Available > BufLen \/ Signed(UnitsRead) >= BufLen
  <2>1. Faults
    BY <1>3 DEF WarmupLoad
  <2>2. Excused \/ Bytes >= BufLen
    <3>1. Available > BufLen \/ Available <= BufLen
      BY <1>1, <1>2
    <3>2. Bytes \in Int
      BY Entered
    <3> QED BY <1>1, <1>2, <1>3, <3>1, <3>2, LoadFault
  <2>3. Keeps /\ req' = req /\ Bytes' = Bytes /\ mem_count' = mem_count /\ (Excused => Excused')
    BY <2>1, FaultsType
  <2> QED BY <1>1, <2>2, <2>3 DEF WarmupDefinedInRange, Excused
<1>4. CASE ~(Available > BufLen \/ Signed(UnitsRead) >= BufLen)
  <2>1. /\ mem_buf' = IF Signed(UnitsRead) < 0 THEN Overlaid(Available)
                      ELSE [Overlaid(Available) EXCEPT ![UnitsRead] = 0]
        /\ mem_count' = IF Signed(UnitsRead) < 0 THEN mem_count ELSE UnitsRead
        /\ Returns /\ file' = file
    BY <1>4 DEF WarmupLoad
  <2>2. mem_buf' \in [0 .. BufLen - 1 -> Byte] /\ file' \in Seq(Byte)
    <3>1. Overlaid(Available) \in [0 .. BufLen - 1 -> Byte] /\ 0 \in Byte
      BY <1>1, <1>2, OverlaidType, EnteredInts
    <3> QED BY <2>1, <3>1 DEF TypeOK
  <2>3. Available <= BufLen
    BY <1>1, <1>2, <1>4
  <2>4. /\ UnitsRead \in 0 .. Wrap - 1 /\ Signed(UnitsRead) \in Int
        /\ Signed(UnitsRead) >= 0 => Signed(UnitsRead) = UnitsRead
    BY <1>2, <2>3, LoadCounts
  <2>5. mem_count \in 0 .. (Wrap \div 2) - 1 /\ BufLen < Wrap \div 2 /\ Wrap \div 2 \in Nat
    BY Widths DEF TypeOK
  <2>6. mem_count' \in 0 .. (Wrap \div 2) - 1 /\ mem_count' <= BufLen
    <3>1. CASE Signed(UnitsRead) < 0
      BY <2>1, <2>5, <3>1
    <3>2. CASE ~(Signed(UnitsRead) < 0)
      <4>1. UnitsRead < BufLen /\ UnitsRead \in Nat
        BY <1>1, <1>4, <2>4, <3>2
      <4> QED BY <1>1, <2>1, <2>5, <3>2, <4>1
    <3> QED BY <3>1, <3>2
  <2>7. ~(mem_count' > BufLen)
    BY <1>1, <2>5, <2>6
  <2> QED BY <2>1, <2>2, <2>6, <2>7, ReturnsType DEF Keeps, Exact, Grows
<1> QED BY <1>3, <1>4

-----------------------------------------------------------------------------
LEMMA WrittenType ==
  ASSUME TypeOK, NEW at \in Nat, NEW n \in 0 .. BufLen
  PROVE  Written(at, n) \in Seq(Byte)
<1>1. file \in Seq(Byte) /\ Len(file) \in Nat /\ 0 \in Byte
  BY LenProperties, EnteredInts DEF TypeOK
<1>2. mem_buf \in [0 .. BufLen - 1 -> Byte] /\ BufLen \in Nat
  BY Widths DEF TypeOK
<1> DEFINE len == Greatest(Len(file), at + n)
<1>3. len \in Nat
  BY <1>1, <1>2 DEF Greatest
<1>4. ASSUME NEW i \in 1 .. len
      PROVE  (IF i > at /\ i <= at + n THEN mem_buf[i - at - 1]
              ELSE IF i <= Len(file) THEN file[i] ELSE 0) \in Byte
  <2>1. CASE i > at /\ i <= at + n
    <3>1. i - at - 1 \in 0 .. BufLen - 1
      BY <1>2, <1>3, <2>1
    <3> QED BY <1>2, <2>1, <3>1
  <2>2. CASE ~(i > at /\ i <= at + n) /\ i <= Len(file)
    <3>1. i \in 1 .. Len(file)
      BY <1>1, <1>3, <2>2
    <3> QED BY <1>1, <2>2, <3>1, ElementOfSeq
  <2>3. CASE ~(i > at /\ i <= at + n) /\ ~(i <= Len(file))
    BY <1>1, <2>3
  <2> QED BY <2>1, <2>2, <2>3
<1>5. Written(at, n) \in [1 .. len -> Byte]
  BY <1>4 DEF Written
<1> QED BY <1>3, <1>5, IsASeq

(* A save, at the position the version takes: what it writes was counted. *)
LEMMA SaveStep ==
  ASSUME TypeOK, Save \/ WarmupSave
  PROVE  /\ Keeps /\ mem_count' = mem_count
         /\ pc' = "fault" => Excused' \/ (req.action = "save" /\ mem_count > BufLen)'
<1>1. /\ req.action = "save" /\ Bytes \in CInt /\ EnoughBytes
      /\ req.location \in Int /\ req.location <= Len(file) /\ Len(file) \in Nat
      /\ IF Requested > BufLen THEN Faults
         ELSE file' = Written(SavePosition, Requested) /\ Returns
              /\ mem_buf' = mem_buf /\ mem_count' = mem_count
  <2>1. Doing("save") /\ EnoughBytes
    BY DEF Save, WarmupSave
  <2>2. req.action = "save" /\ Bytes \in CInt
    BY <2>1 DEF Doing, Overflows
  <2>3. req.location \in Int /\ Len(file) \in Nat
    BY Entered, AvailableOf
  <2>4. CASE Save
    <3>1. SavePosition = req.location /\ req.location <= Len(file)
      BY <2>3, <2>4 DEF Save, PositionExists, SavePosition
    <3> QED BY <2>1, <2>2, <2>3, <2>4, <3>1 DEF Save
  <2>5. CASE WarmupSave
    BY <2>1, <2>2, <2>3, <2>5 DEF WarmupSave
  <2> QED BY <2>4, <2>5
<1>2. /\ Requested <= BufLen => Requested = Bytes /\ Bytes \in 0 .. mem_count
      /\ Requested > BufLen => Bytes < 0 \/ Base + Bytes >= Wrap \/ mem_count > BufLen
  BY <1>1, EnoughOf
<1>3. Requested \in Nat /\ BufLen \in Nat
  BY RequestedOf, Widths
<1>4. CASE Requested > BufLen
  <2>1. Faults
    BY <1>1, <1>4
  <2>2. Keeps /\ req' = req /\ mem_count' = mem_count /\ (Excused => Excused')
    BY <2>1, FaultsType
  <2>3. Excused \/ Bytes >= 0
    BY BytesOf
  <2>4. Excused \/ mem_count > BufLen
    <3>1. Bytes \in Int
      BY Entered
    <3> QED BY <1>1, <1>2, <1>4, <2>3, <3>1 DEF Excused
  <2> QED BY <1>1, <2>2, <2>4
<1>5. CASE ~(Requested > BufLen)
  <2>1. Requested = Bytes /\ Bytes \in 0 .. mem_count /\ Requested \in 0 .. BufLen
    BY <1>2, <1>3, <1>5
  <2>2. file' = Written(SavePosition, Requested) /\ Returns /\ mem_buf' = mem_buf
        /\ mem_count' = mem_count
    BY <1>1, <1>5
  <2>3. SavePosition \in Nat
    BY <1>1 DEF SavePosition
  <2>4. file' \in Seq(Byte)
    BY <2>1, <2>2, <2>3, WrittenType
  <2>5. mem_buf' \in [0 .. BufLen - 1 -> Byte] /\ mem_count' \in 0 .. (Wrap \div 2) - 1
    BY <2>2 DEF TypeOK
  <2>6. Exact
    BY <1>1, <2>1, <2>2 DEF Exact, SavePosition
  <2> QED BY <2>2, <2>4, <2>5, <2>6, ReturnsType DEF Keeps, Grows
<1> QED BY <1>4, <1>5

LEMMA ModifyStep ==
  ASSUME TypeOK, Modify
  PROVE  /\ Keeps /\ (mem_count <= BufLen => mem_count' <= BufLen)
         /\ pc' = "fault" => Excused'
<1>1. /\ LastByteOffset \in 0 .. BufLen - 1 /\ SizeT(LastByteOffset) = LastByteOffset
      /\ req.action = "modify" /\ req.val \in Byte
  BY ModifyBounds, Entered DEF Modify, Doing
<1>2. CASE req.location < 0 /\ unit_size \in {1, 2, 4}
  <2>1. Faults
    BY <1>2 DEF Modify
  <2> QED BY <1>2, <2>1, FaultsType DEF Excused
<1>3. CASE ~(req.location < 0 /\ unit_size \in {1, 2, 4})
  <2>1. /\ mem_buf' = Modified /\ Returns /\ file' = file
        /\ mem_count' = Greatest(mem_count, LastByteOffset)
    BY <1>1, <1>3 DEF Modify
  <2>2. mem_buf' \in [0 .. BufLen - 1 -> Byte] /\ file' \in Seq(Byte)
    BY <1>1, <2>1 DEF TypeOK, Modified
  <2>3. mem_count \in 0 .. (Wrap \div 2) - 1 /\ BufLen < Wrap \div 2 /\ Wrap \div 2 \in Nat
        /\ BufLen \in Nat
    BY Widths DEF TypeOK
  <2>4. /\ mem_count' \in 0 .. (Wrap \div 2) - 1
        /\ mem_count' = mem_count \/ (mem_count' \in Nat /\ mem_count' <= BufLen)
    BY <1>1, <2>1, <2>3 DEF Greatest
  <2> QED BY <2>1, <2>2, <2>3, <2>4, ReturnsType DEF Keeps, Exact, Grows
<1> QED BY <1>2, <1>3

-----------------------------------------------------------------------------
(* The invariant.  A fault is reached by a step of the version that runs,  *)
(* and from then on nothing steps.  That the warmup never counts more than *)
(* the buffer holds is what its saves need.                                *)
HInv ==
  /\ TypeOK /\ version \in Versions /\ InRangeOfVersion
  /\ version = "warmup" => mem_count <= BufLen

LEMMA StagesInitInv ==
  ASSUME StagesInit
  PROVE  HInv
<1>1. \A n \in 0 .. MaxFile : [1 .. n -> Byte] \subseteq Seq(Byte)
  BY IsASeq, Widths
<1>2. file \in Seq(Byte)
  BY <1>1 DEF StagesInit, Init
<1>3. 0 \in 0 .. (Wrap \div 2) - 1 /\ 0 \in Byte /\ 0 <= BufLen
  BY Widths, EnteredInts
<1>4. TypeOK
  BY <1>2, <1>3 DEF StagesInit, Init, TypeOK, FileName
<1> QED BY <1>3, <1>4 DEF HInv, StagesInit, Init, InRangeOfVersion, DefinedInRange,
           WarmupDefinedInRange

(* Every step of the later editor, and of the two stages before it. *)
LEMMA NextStep ==
  ASSUME TypeOK, Next
  PROVE  Keeps /\ (pc' = "fault" => DefinedInRange')
<1>1. Excused' \/ (req.action = "save" /\ mem_count > BufLen)' => DefinedInRange'
  BY DEF Excused, DefinedInRange
<1>2. CASE Menu
  BY <1>1, <1>2, MenuStep
<1>3. CASE Overflow
  BY <1>1, <1>3, OverflowStep
<1>4. CASE LoadFails \/ SaveRefused \/ ModifyRefused
  BY <1>4, RefusedStep
<1>5. CASE Load
  BY <1>5, LoadStep
<1>6. CASE Display
  BY <1>1, <1>6, DisplayStep
<1>7. CASE Save
  BY <1>1, <1>7, SaveStep
<1>8. CASE Modify
  BY <1>1, <1>8, ModifyStep
<1> QED BY <1>2, <1>3, <1>4, <1>5, <1>6, <1>7, <1>8 DEF Next

LEMMA WarmupNextStep ==
  ASSUME TypeOK, mem_count <= BufLen, WarmupNext
  PROVE  Keeps /\ mem_count' <= BufLen /\ (pc' = "fault" => WarmupDefinedInRange')
<1>1. Excused' => WarmupDefinedInRange'
  BY DEF Excused, WarmupDefinedInRange
<1>2. CASE Menu
  BY <1>1, <1>2, MenuStep
<1>3. CASE Overflow
  BY <1>1, <1>3, OverflowStep
<1>4. CASE LoadFails \/ WarmupSaveRefused \/ ModifyRefused
  BY <1>4, RefusedStep
<1>5. CASE WarmupLoad
  BY <1>5, WarmupLoadStep
<1>6. CASE Display
  BY <1>1, <1>6, DisplayStep
<1>7. CASE WarmupSave
  <2>1. mem_count \in Int /\ BufLen \in Int
    BY Widths DEF TypeOK
  <2> QED BY <1>1, <1>7, <2>1, SaveStep
<1>8. CASE Modify
  BY <1>1, <1>8, ModifyStep
<1> QED BY <1>2, <1>3, <1>4, <1>5, <1>6, <1>7, <1>8 DEF WarmupNext

(* What the two earlier stages do, the later editor does too. *)
LEMMA StagesAreNext ==
  ASSUME Task0Next \/ Task1cNext
  PROVE  Next
BY DEF Task0Next, Task0Settings, Task1cNext, Task1cSettings, Task1cLoad, Task1cDisplay, Next, Menu

LEMMA StagesStep ==
  ASSUME HInv, [StagesNext]_stagesVars
  PROVE  /\ HInv' /\ Exact
         /\ mem_count' # mem_count /\ mem_count' > BufLen =>
              version # "warmup" /\ req.action = "load" /\ Wraps
<1>1. CASE UNCHANGED stagesVars
  BY <1>1 DEF HInv, TypeOK, InRangeOfVersion, DefinedInRange, WarmupDefinedInRange,
     Overflows, Bytes, LastByteOffset, Exact, stagesVars, vars
<1>2. CASE StagesNext /\ version = "warmup"
  <2>1. WarmupNext /\ version' = version
    BY <1>2 DEF StagesNext
  <2>2. Keeps /\ mem_count' <= BufLen /\ (pc' = "fault" => WarmupDefinedInRange')
    BY <1>2, <2>1, WarmupNextStep DEF HInv
  <2>3. ~(mem_count' > BufLen)
    BY <2>2, Widths DEF Keeps, TypeOK
  <2> QED BY <1>2, <2>1, <2>2, <2>3 DEF HInv, Keeps, InRangeOfVersion, WarmupDefinedInRange
<1>3. CASE StagesNext /\ version # "warmup"
  <2>1. Next /\ version' = version
    BY <1>3, StagesAreNext DEF StagesNext
  <2>2. Keeps /\ (pc' = "fault" => DefinedInRange')
    BY <2>1, NextStep DEF HInv
  <2> QED BY <1>3, <2>1, <2>2 DEF HInv, Keeps, Grows, InRangeOfVersion, DefinedInRange
<1> QED BY <1>1, <1>2, <1>3

-----------------------------------------------------------------------------
LEMMA HInvHolds == StagesSpec => []HInv
<1>1. StagesInit => HInv
  BY StagesInitInv
<1>2. HInv /\ [StagesNext]_stagesVars => HInv'
  BY StagesStep
<1> QED BY <1>1, <1>2, PTL DEF StagesSpec

(* Whatever numbers and sizes are entered, as far as the C language says   *)
(* what is done with them: the count stays an int that is not negative,    *)
(* the buffer keeps its length, and every byte of the file is one.         *)
THEOREM HexTypeCorrect == StagesSpec => []TypeOK
<1>1. HInv => TypeOK
  BY DEF HInv
<1> QED BY <1>1, HInvHolds, PTL

(* Whatever loads, saves, displays and modifications are made, and for     *)
(* every length and place of the buffer: a stage that leaves the buffer,   *)
(* overflows an int or prints without a format does so for one of the      *)
(* causes that InRangeOfVersion lists for its version.                     *)
THEOREM FaultsOnlyOutOfRange == StagesSpec => []InRangeOfVersion
<1>1. HInv => InRangeOfVersion
  BY DEF HInv
<1> QED BY <1>1, HInvHolds, PTL

(* A save writes exactly the bytes it is asked for, all of them counted,   *)
(* at the position it is asked for, and changes no other byte of the file; *)
(* nothing but a save changes the file.                                    *)
THEOREM SavesExactly == StagesSpec => SaveIsExact
<1>1. HInv /\ [StagesNext]_stagesVars =>
        [file' # file =>
           /\ req.action = "save"
           /\ Bytes \in 0 .. mem_count
           /\ req.location <= Len(file)
           /\ file' = Written(IF req.location < 0 THEN Len(file) ELSE req.location, Bytes)]_vars
  BY StagesStep DEF Exact
<1> QED BY <1>1, HInvHolds, PTL DEF StagesSpec, SaveIsExact

(* Modifications and saves never count more than the buffer holds, the     *)
(* warmup never does, and a load of the later editor only if the size and  *)
(* the length it is given multiply beyond a size_t.                        *)
THEOREM OutgrowsOnlyByWrap == StagesSpec => CountOutgrowsOnlyByWrap
<1>1. HInv /\ [StagesNext]_stagesVars =>
        [mem_count' # mem_count /\ mem_count' > BufLen =>
           /\ version # "warmup"
           /\ req.action = "load" /\ SizeT(unit_size) * SizeT(req.count) >= Wrap]_stagesVars
  BY StagesStep DEF Wraps
<1> QED BY <1>1, HInvHolds, PTL DEF StagesSpec, CountOutgrowsOnlyByWrap
=============================================================================
