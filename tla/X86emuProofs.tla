----------------------------- MODULE X86emuProofs ------------------------------
(***************************************************************************)
(* Proofs about the emulator.                                              *)
(*                                                                         *)
(* The 512 entries of the two tables are not gone through once for each    *)
(* property: they are gone through once, for any set K of machines that is *)
(* closed under what the operations are made of, and each theorem chooses  *)
(* the sets.                                                               *)
(*                                                                         *)
(*   - FetchClosed, ReadClosed, DataClosed, Closed: what K is closed       *)
(*     under; W are the widths that registers may be written in.           *)
(*   - up to the tables: an operation on a machine of K ends in K.         *)
(*   - StepType: what an iteration of the loop leaves.                     *)
(*   - MachinesClosed: the typed machines are such a set.  From it come    *)
(*     Inv, which is inductive, and TypeOK and NoStackSegmentLeft.         *)
(*   - Calm and Like(m) show what a faulting division leaves, Narrow(m)    *)
(*     and Code(m) that the upper halves of the registers stay.            *)
(***************************************************************************)
EXTENDS X86emu, Inductions

(***************************************************************************)
(* Powers of two.                                                          *)
(***************************************************************************)

\* A power of two is a positive number: it counts the subsets of a finite set.
LEMMA PowPositive ==
  ASSUME NEW n \in Nat
  PROVE  2^n \in Nat /\ 2^n > 0
<1> DEFINE A == SUBSET (1..n)
<1>1. IsFiniteSet(1..n) /\ Cardinality(1..n) = n
  BY FS_Interval
<1>2. IsFiniteSet(A) /\ Cardinality(A) = 2^n
  BY <1>1, FS_SUBSET
<1>3. {} \in A
  OBVIOUS
<1> HIDE DEF A
<1>4. Cardinality(A) \in Nat /\ Cardinality(A) # 0
  BY <1>2, <1>3, FS_CardinalityType, FS_EmptySet
<1> QED
  BY <1>2, <1>4

\* The next power: the subsets without the new element and those with it.
LEMMA PowNext ==
  ASSUME NEW n \in Nat
  PROVE  2^(n + 1) = 2 * 2^n
<1> DEFINE A == SUBSET (1..n)
           C == SUBSET (1..n + 1)
           B == C \ A
           f == [s \in A |-> s \cup {n + 1}]
<1>1. /\ IsFiniteSet(1..n) /\ Cardinality(1..n) = n
      /\ IsFiniteSet(1..n + 1) /\ Cardinality(1..n + 1) = n + 1
  BY FS_Interval
<1>2. IsFiniteSet(A) /\ Cardinality(A) = 2^n /\ IsFiniteSet(C) /\ Cardinality(C) = 2^(n + 1)
  BY <1>1, FS_SUBSET
<1>3. f \in Bijection(A, B)
  <2>1. ASSUME NEW s \in A
        PROVE  s \cup {n + 1} \in B
    OBVIOUS
  <2>2. ASSUME NEW s \in A, NEW t \in A, s \cup {n + 1} = t \cup {n + 1}
        PROVE  s = t
    <3>1. n + 1 \notin s /\ n + 1 \notin t
      OBVIOUS
    <3> QED
      BY <2>2, <3>1
  <2>3. ASSUME NEW t \in B
        PROVE  \E s \in A : t = s \cup {n + 1}
    <3>1. n + 1 \in t
      <4>1. PICK x \in t : x \notin 1..n
        BY <2>3
      <4> QED
        BY <2>3, <4>1
    <3>2. t \ {n + 1} \in A /\ t = (t \ {n + 1}) \cup {n + 1}
      BY <3>1
    <3> QED
      BY <3>2
  <2> QED
    BY <2>1, <2>2, <2>3 DEF Bijection, Injection, Surjection, IsInjective
<1>4. A \cap B = {} /\ C = A \cup B
  OBVIOUS
<1> HIDE DEF A, B, C, f
<1>5. IsFiniteSet(B) /\ Cardinality(B) = Cardinality(A)
  BY <1>2, <1>3, FS_Bijection DEF ExistsBijection
<1>6. Cardinality(C) = Cardinality(A) + Cardinality(B) - Cardinality(A \cap B)
  BY <1>2, <1>4, <1>5, FS_Union
<1>7. Cardinality(A \cap B) = 0
  BY <1>4, FS_EmptySet
<1>8. 2^n \in Nat
  BY PowPositive
<1> QED
  BY <1>2, <1>5, <1>6, <1>7, <1>8

LEMMA PowSum ==
  ASSUME NEW a \in Nat, NEW b \in Nat
  PROVE  2^(a + b) = 2^a * 2^b
<1> DEFINE S == {n \in Nat : 2^(a + n) = 2^a * 2^n}
<1>1. 0 \in S
  <2>1. 2^a \in Nat /\ 2^0 = 1
    BY PowPositive
  <2> QED
    BY <2>1
<1>2. ASSUME NEW n \in Nat, n \in S
      PROVE  n + 1 \in S
  <2>1. 2^(a + (n + 1)) = 2 * 2^(a + n)
    <3>1. a + (n + 1) = (a + n) + 1 /\ a + n \in Nat
      OBVIOUS
    <3> QED
      BY <3>1, PowNext
  <2>2. 2^(n + 1) = 2 * 2^n
    BY PowNext
  <2>3. 2^a \in Nat /\ 2^n \in Nat
    BY PowPositive
  <2>4. ASSUME NEW x \in Nat, NEW y \in Nat
        PROVE  2 * (x * y) = x * (2 * y)
    OBVIOUS
  <2> QED
    BY <1>2, <2>1, <2>2, <2>3, <2>4
<1> HIDE DEF S
<1>3. b \in S
  BY <1>1, <1>2, ReachedFromZero
<1> QED
  BY <1>3 DEF S

(***************************************************************************)
(* Widths, and the numbers that fit in them.                               *)
(***************************************************************************)
Widths == {8, 16, LongBits}

LEMMA WidthType ==
  ASSUME NEW w \in Widths
  PROVE  /\ w \in Nat /\ w >= 8 /\ w <= LongBits
         /\ Bytes(w) \in Nat /\ Bytes(w) >= 1 /\ w = 8 * Bytes(w)
<1>1. LongBits = 8 * (LongBits \div 8) /\ LongBits \div 8 \in Nat /\ LongBits \div 8 >= 3
  BY WidthAssumption
<1>2. w \in Nat /\ w >= 8 /\ w <= LongBits
  BY WidthAssumption DEF Widths
<1>3. CASE w = 8
  BY <1>2, <1>3 DEF Bytes
<1>4. CASE w = 16
  BY <1>2, <1>4 DEF Bytes
<1>5. CASE w = LongBits
  BY <1>1, <1>2, <1>5 DEF Bytes
<1> QED
  BY <1>3, <1>4, <1>5 DEF Widths

LEMMA ModType ==
  ASSUME NEW w \in Nat, NEW x \in Int
  PROVE  Mod(w, x) \in Values(w) /\ Mod(w, x) \in Nat /\ Mod(w, x) \in Int
BY PowPositive DEF Mod, Values

LEMMA PowGrows ==
  ASSUME NEW a \in Nat, NEW b \in Nat, a <= b
  PROVE  2^a <= 2^b
<1> DEFINE c == b - a
<1>1. c \in Nat /\ a + c = b
  OBVIOUS
<1> HIDE DEF c
<1>2. 2^b = 2^a * 2^c
  BY <1>1, PowSum
<1>3. 2^a \in Nat /\ 2^c \in Nat /\ 2^c >= 1
  BY <1>1, PowPositive
<1>4. ASSUME NEW x \in Nat, NEW y \in Nat, y >= 1
      PROVE  x <= x * y
  <2>1. y - 1 \in Nat /\ x * y = x + x * (y - 1)
    BY <1>4
  <2>2. ASSUME NEW z \in Nat
        PROVE  x * z \in Nat
    OBVIOUS
  <2> QED
    BY <2>1, <2>2
<1> QED
  BY <1>2, <1>3, <1>4

LEMMA ValuesGrow ==
  ASSUME NEW a \in Nat, NEW b \in Nat, a <= b
  PROVE  Values(a) \subseteq Values(b)
<1>1. 2^a \in Nat /\ 2^b \in Nat /\ 2^a <= 2^b
  BY PowPositive, PowGrows
<1> QED
  BY <1>1 DEF Values

LEMMA ValuesNat ==
  ASSUME NEW w \in Nat
  PROVE  Values(w) \subseteq Nat /\ Values(w) \subseteq Int /\ 0 \in Values(w)
BY PowPositive DEF Values

LEMMA Values8 ==
  ASSUME NEW w, w = 8
  PROVE  Values(w) = 0..255 /\ 2^w = 256
BY DEF Values

\* A number of i bytes: one of a byte less, and a byte.
LEMMA OneByteMore ==
  ASSUME NEW i \in Nat, i > 0, NEW x \in Values(8 * (i - 1)), NEW b \in 0..255
  PROVE  256 * x + b \in Values(8 * i)
<1> DEFINE j == 8 * (i - 1)
           p == 2^j
<1>1. j \in Nat /\ 8 * i = j + 8
  OBVIOUS
<1> HIDE DEF j
<1>2. 2^(j + 8) = p * 2^8
  BY <1>1, PowSum
<1>3. 2^8 = 256
  BY Values8
<1>4. p \in Nat
  BY <1>1, PowPositive
<1>5. x \in 0..p - 1
  BY DEF Values, j
<1> HIDE DEF p
<1>6. 256 * x + b \in 0..p * 256 - 1
  BY <1>4, <1>5
<1>7. 2^(8 * i) = p * 256
  BY <1>1, <1>2, <1>3
<1> QED
  BY <1>6, <1>7 DEF Values

LEMMA KnownGrow ==
  ASSUME NEW w \in Widths
  PROVE  /\ Values(8) \subseteq Values(w) /\ Values(w) \subseteq Values(LongBits)
         /\ Values(w) \subseteq Nat /\ Values(w) \subseteq Int /\ 0 \in Values(w) /\ 1 \in Values(w)
<1>1. w \in Nat /\ w >= 8 /\ w <= LongBits /\ LongBits \in Nat
  BY WidthType, WidthAssumption
<1>2. Values(8) \subseteq Values(w) /\ Values(w) \subseteq Values(LongBits)
  BY <1>1, ValuesGrow
<1>3. 1 \in Values(8)
  <2>1. Values(8) = 0..255
    BY Values8
  <2> QED
    BY <2>1
<1> QED
  BY <1>1, <1>2, <1>3, ValuesNat

LEMMA WordBelow ==
  ASSUME NEW w, w = 16, NEW x \in Values(w)
  PROVE  x \in Nat /\ x < 65536
BY DEF Values

LEMMA LongAbove ==
  ASSUME NEW x \in Nat, x < 131072
  PROVE  x \in Values(LongBits)
<1>1. ASSUME NEW w, w = 17
      PROVE  2^w <= 2^LongBits /\ 2^w = 131072
  <2>1. w \in Nat /\ w <= LongBits /\ LongBits \in Nat
    BY <1>1, WidthAssumption
  <2>2. 2^w <= 2^LongBits
    BY <2>1, PowGrows
  <2>3. 2^w = 131072
    BY <1>1
  <2> QED
    BY <2>2, <2>3
<1>2. 2^LongBits \in Nat
  BY WidthAssumption, PowPositive
<1>3. 131072 <= 2^LongBits
  BY <1>1
<1>4. x \in 0..2^LongBits - 1
  BY <1>2, <1>3
<1> QED
  BY <1>4 DEF Values

LEMMA SignedType ==
  ASSUME NEW w \in Nat, w >= 1, NEW x \in Values(w)
  PROVE  Signed(w, x) \in Int
<1>1. 2^w \in Nat /\ x \in Int
  BY PowPositive, ValuesNat
<1> QED
  BY <1>1 DEF Signed

(***************************************************************************)
(* Iterations.                                                             *)
(***************************************************************************)

\* What holds at the start and is kept by every step holds at the end.
LEMMA KeptBySteps ==
  ASSUME NEW n \in Nat, NEW f, NEW Y,
         f[0] \in Y[0],
         \A i \in 1..n : f[i - 1] \in Y[i - 1] => f[i] \in Y[i]
  PROVE  \A i \in 0..n : f[i] \in Y[i]
<1> DEFINE S == {i \in Nat : i <= n => f[i] \in Y[i]}
<1>1. 0 \in S
  OBVIOUS
<1>2. ASSUME NEW i \in Nat, i \in S
      PROVE  i + 1 \in S
  <2>1. CASE i + 1 <= n
    <3>1. i + 1 \in 1..n /\ (i + 1) - 1 = i /\ i <= n
      BY <2>1
    <3> QED
      BY <1>2, <3>1
  <2>2. CASE ~(i + 1 <= n)
    BY <2>2
  <2> QED
    BY <2>1, <2>2
<1> HIDE DEF S
<1>3. ASSUME NEW i \in 0..n
      PROVE  i \in S
  <2>1. i \in Nat
    OBVIOUS
  <2> QED
    BY <1>1, <1>2, <2>1, ReachedFromZero
<1>4. ASSUME NEW i \in 0..n
      PROVE  f[i] \in Y[i]
  BY <1>3, <1>4 DEF S
<1> QED
  BY <1>4

\* The same with one set.
LEMMA KeptByStepsIn ==
  ASSUME NEW n \in Nat, NEW f, NEW X,
         f[0] \in X,
         \A i \in 1..n : f[i - 1] \in X => f[i] \in X
  PROVE  f[n] \in X
<1> DEFINE Y == [i \in 0..n |-> X]
<1>1. f[0] \in Y[0]
  OBVIOUS
<1>2. ASSUME NEW i \in 1..n, f[i - 1] \in Y[i - 1]
      PROVE  f[i] \in Y[i]
  <2>1. i - 1 \in 0..n /\ i \in 0..n
    OBVIOUS
  <2> QED
    BY <1>2, <2>1
<1> HIDE DEF Y
<1>3. \A i \in 0..n : f[i] \in Y[i]
  BY <1>1, <1>2, KeptBySteps
<1> QED
  BY <1>3 DEF Y

(***************************************************************************)
(* Sets of bits.                                                           *)
(***************************************************************************)

\* A number has no bit above its width.
LEMMA BitsType ==
  ASSUME NEW w \in Widths, NEW x \in Values(w)
  PROVE  Bits(x) \subseteq 0..w - 1
<1>1. w \in Nat /\ x \in Nat /\ LongBits \in Nat
  BY WidthType, KnownGrow, WidthAssumption
<1>2. ASSUME NEW i \in 0..LongBits - 1, i >= w
      PROVE  ~Bit(x, i)
  <2>1. 2^i \in Nat /\ 2^i > 0 /\ 2^w \in Nat /\ 2^w <= 2^i /\ x < 2^w
    <3>1. i \in Nat
      BY <1>1
    <3> QED
      BY <1>1, <1>2, <3>1, PowPositive, PowGrows DEF Values
  <2>2. x \div 2^i = 0
    BY <1>1, <2>1
  <2> QED
    BY <2>2 DEF Bit
<1> QED
  BY <1>1, <1>2 DEF Bits

\* The bits below w make a number of w bits.
LEMMA NumberType ==
  ASSUME NEW w \in Widths, NEW b, b \subseteq 0..w - 1
  PROVE  Number(b) \in Values(w)
<1> DEFINE Add(x, i) == x + (IF i - 1 \in b THEN 2^(i - 1) ELSE 0)
           sum[i \in 0..LongBits] == IF i = 0 THEN 0 ELSE Add(sum[i - 1], i)
<1>1. Number(b) = sum[LongBits]
  BY DEF Number, Iterate
<1>2. w \in Nat /\ w <= LongBits /\ LongBits \in Nat
  BY WidthType, WidthAssumption
<1>3. ASSUME NEW x \in Nat, NEW i \in 1..LongBits
      PROVE  Add(x, i) \in Nat
  <2>1. i - 1 \in Nat
    BY <1>2
  <2>2. 2^(i - 1) \in Nat
    BY <2>1, PowPositive
  <2> QED
    BY <2>2
<1>4. sum = [i \in 0..LongBits |-> IF i = 0 THEN 0 ELSE Add(sum[i - 1], i)]
  <2> DEFINE step == [i \in 1..LongBits |-> [x \in Nat |-> Add(x, i)]]
  <2>1. step \in [1..LongBits -> [Nat -> Nat]]
    BY <1>3
  <2> HIDE DEF Add
  <2>2. \A i \in 1..LongBits : \A x \in Nat : step[i][x] = Add(x, i)
    OBVIOUS
  <2> HIDE DEF step
  <2>3. PICK f : IterateOf(f, LongBits, Nat, 0, step)
    <3>1. 0 \in Nat
      OBVIOUS
    <3> QED
      BY <1>2, <2>1, <3>1, Recursion
  <2>4. f \in [0..LongBits -> Nat] /\ f[0] = 0 /\ \A i \in 1..LongBits : f[i] = Add(f[i - 1], i)
    BY <1>2, <2>2, <2>3 DEF IterateOf
  <2>5. f = [i \in 0..LongBits |-> IF i = 0 THEN 0 ELSE Add(f[i - 1], i)]
    BY <1>2, <2>4
  <2> QED
    BY <2>5
<1> DEFINE Y == [i \in 0..LongBits |-> Values(IF i <= w THEN i ELSE w)]
<1> HIDE DEF sum
<1>5. sum[0] \in Y[0]
  <2>1. sum[0] = 0 /\ Y[0] = Values(0)
    BY <1>2, <1>4
  <2> QED
    BY <2>1, ValuesNat
<1>6. ASSUME NEW i \in 1..LongBits, sum[i - 1] \in Y[i - 1]
      PROVE  sum[i] \in Y[i]
  <2>1. i - 1 \in 0..LongBits /\ i \in 0..LongBits /\ i # 0 /\ i - 1 \in Nat
    BY <1>2
  <2>2. sum[i] = Add(sum[i - 1], i)
    BY <1>4, <2>1
  <2>3. CASE i <= w
    <3>1. Y[i - 1] = Values(i - 1) /\ Y[i] = Values(i)
      BY <2>1, <2>3, <1>2
    <3>2. 2^((i - 1) + 1) = 2 * 2^(i - 1) /\ (i - 1) + 1 = i
      BY <2>1, PowNext
    <3>3. 2^(i - 1) \in Nat /\ sum[i - 1] \in 0..2^(i - 1) - 1
      BY <1>6, <2>1, <3>1, PowPositive DEF Values
    <3>4. 2^i = 2 * 2^(i - 1)
      BY <3>2
    <3>5. Add(sum[i - 1], i) \in 0..2^i - 1
      BY <3>3, <3>4
    <3> QED
      BY <2>2, <3>1, <3>5 DEF Values
  <2>4. CASE ~(i <= w)
    <3>1. i - 1 \notin b
      BY <1>2, <2>1, <2>4
    <3>2. sum[i - 1] \in Values(w) /\ Y[i] = Values(w)
      BY <1>2, <1>6, <2>1, <2>4
    <3>3. sum[i - 1] \in Nat
      BY <1>2, <3>2, ValuesNat
    <3> QED
      BY <2>2, <3>1, <3>2, <3>3
  <2> QED
    BY <2>3, <2>4
<1> HIDE DEF Y, Add
<1>7. \A i \in 0..LongBits : sum[i] \in Y[i]
  BY <1>2, <1>5, <1>6, KeptBySteps
<1>8. Y[LongBits] = Values(w)
  BY <1>2 DEF Y
<1> QED
  BY <1>1, <1>2, <1>7, <1>8

LEMMA LogicType ==
  ASSUME NEW w \in Widths, NEW x \in Values(w), NEW y \in Values(w)
  PROVE  And(x, y) \in Values(w) /\ Or(x, y) \in Values(w) /\ Xor(x, y) \in Values(w)
<1>1. Bits(x) \subseteq 0..w - 1 /\ Bits(y) \subseteq 0..w - 1
  BY BitsType
<1>2. /\ Bits(x) \cap Bits(y) \subseteq 0..w - 1
      /\ Bits(x) \cup Bits(y) \subseteq 0..w - 1
      /\ (Bits(x) \cup Bits(y)) \ (Bits(x) \cap Bits(y)) \subseteq 0..w - 1
  BY <1>1
<1> QED
  BY <1>2, NumberType DEF And, Or, Xor

(***************************************************************************)
(* Machines, and what a set of machines may be closed under: fetching code *)
(* moves IP, and halts when it is read outside the memory; decoding an     *)
(* address may mark the stack; and the rest.  W is the set of widths that  *)
(* the registers are written in.                                           *)
(***************************************************************************)
Memories == UNION {[D -> Values(8)] : D \in SUBSET (0..MemSize - 1)}
Machines ==
  [r : Registers, seg : [Segments -> Values(16)], ip : Values(16), f : SUBSET FlagBits,
   mode : SUBSET Modes, intr : SUBSET Interrupts, intno : Values(8),
   mem : Memories, io : Seq(Outputs), in : Values(8), undef : Values(8)]

FetchClosed(K) ==
  /\ K \subseteq Machines
  /\ \A m \in K : X86EMU_halt_sys(m) \in K /\ \A ip \in Values(16) : [m EXCEPT !.ip = ip] \in K

ReadClosed(K) == FetchClosed(K) /\ \A m \in K : Stack(m) \in K

DataClosed(K, W) ==
  /\ FetchClosed(K)
  /\ W \subseteq Widths /\ 8 \in W /\ 16 \in W
  /\ \A m \in K :
       /\ OpSize(m) \in W
       /\ Crash(m) \in K
       /\ \A f \in SUBSET FlagBits : Flags(m, f) \in K
       /\ \A name \in Segments : \A v \in Values(16) : SetSeg(m, name, v) \in K
       /\ \A w \in W : \A n \in 0..7 : \A v \in Values(w) : SetReg(m, w, n, v) \in K
       /\ \A g \in Memories : [m EXCEPT !.mem = g] \in K
       /\ \A q \in Seq(Outputs) : [m EXCEPT !.io = q] \in K

Closed(K, W) ==
  /\ DataClosed(K, W)
  /\ ReadClosed(K)
  /\ \A m \in K : \A s \in SUBSET Modes : [m EXCEPT !.mode = @ \ s] \in K

\* What is read, and the operands.
Read(K, w)  == [m : K, v : Values(w)]
Operands(K) == {o \in [m : K, rh : 0..7, mem : BOOLEAN, at : Values(LongBits)] : ~o.mem => o.at \in 0..7}
LoadedOperands(K, w) ==
  {o \in [m : K, rh : 0..7, mem : BOOLEAN, at : Values(LongBits), v : Values(w)] : ~o.mem => o.at \in 0..7}

LEMMA MachineType ==
  ASSUME NEW m \in Machines
  PROVE  /\ m.r \in Registers /\ m.seg \in [Segments -> Values(16)] /\ m.ip \in Values(16)
         /\ m.f \subseteq FlagBits /\ m.mode \subseteq Modes /\ m.intr \subseteq Interrupts
         /\ m.intno \in Values(8) /\ m.mem \in Memories /\ m.io \in Seq(Outputs)
         /\ m.in \in Values(8) /\ m.undef \in Values(8)
BY DEF Machines

LEMMA MemoryType ==
  ASSUME NEW g \in Memories
  PROVE  DOMAIN g \subseteq 0..MemSize - 1 /\ \A a \in DOMAIN g : g[a] \in Values(8)
<1>1. PICK D \in SUBSET (0..MemSize - 1) : g \in [D -> Values(8)]
  BY DEF Memories
<1> QED
  BY <1>1

LEMMA IsMemory ==
  ASSUME NEW D, D \subseteq 0..MemSize - 1, NEW g \in [D -> Values(8)]
  PROVE  g \in Memories
BY DEF Memories

\* What is read from memory fits the bytes that are read.
LEMMA RdType ==
  ASSUME NEW K, FetchClosed(K), NEW m \in K, NEW a \in Nat, NEW n \in Nat
  PROVE  rd(m, a, n) \in Read(K, 8 * n)
<1> DEFINE at(i) == IF a + i >= MemSize THEN m.undef
                    ELSE IF a + i \in DOMAIN m.mem THEN m.mem[a + i] ELSE 0
           Shift(x, i) == 256 * x + at(n - i)
           sum[i \in 0..n] == IF i = 0 THEN 0 ELSE Shift(sum[i - 1], i)
<1>1. rd(m, a, n) = [m |-> IF InMemory(a, n) THEN m ELSE X86EMU_halt_sys(m), v |-> sum[n]]
  BY DEF rd, Iterate
<1>2. m \in Machines /\ X86EMU_halt_sys(m) \in K
  BY DEF FetchClosed
<1>3. ASSUME NEW i
      PROVE  at(i) \in 0..255
  <2>1. m.undef \in Values(8) /\ m.mem \in Memories
    BY <1>2, MachineType
  <2>2. a + i \in DOMAIN m.mem => m.mem[a + i] \in Values(8)
    BY <2>1, MemoryType
  <2>3. Values(8) = 0..255
    BY Values8
  <2> QED
    BY <2>1, <2>2, <2>3
<1> HIDE DEF at
<1>4. ASSUME NEW x \in Nat, NEW i
      PROVE  Shift(x, i) \in Nat
  BY <1>3
<1>5. sum = [i \in 0..n |-> IF i = 0 THEN 0 ELSE Shift(sum[i - 1], i)]
  <2> DEFINE step == [i \in 1..n |-> [x \in Nat |-> Shift(x, i)]]
  <2>1. step \in [1..n -> [Nat -> Nat]]
    BY <1>4
  <2> HIDE DEF Shift
  <2>2. \A i \in 1..n : \A x \in Nat : step[i][x] = Shift(x, i)
    OBVIOUS
  <2> HIDE DEF step
  <2>3. PICK f : IterateOf(f, n, Nat, 0, step)
    <3>1. 0 \in Nat
      OBVIOUS
    <3> QED
      BY <2>1, <3>1, Recursion
  <2>4. f \in [0..n -> Nat] /\ f[0] = 0 /\ \A i \in 1..n : f[i] = Shift(f[i - 1], i)
    BY <2>2, <2>3 DEF IterateOf
  <2>5. f = [i \in 0..n |-> IF i = 0 THEN 0 ELSE Shift(f[i - 1], i)]
    BY <2>4
  <2> QED
    BY <2>5
<1> HIDE DEF sum
<1> DEFINE Y == [i \in 0..n |-> Values(8 * i)]
<1>6. sum[0] \in Y[0]
  <2>1. sum[0] = 0 /\ Y[0] = Values(0)
    BY <1>5
  <2> QED
    BY <2>1, ValuesNat
<1>7. ASSUME NEW i \in 1..n, sum[i - 1] \in Y[i - 1]
      PROVE  sum[i] \in Y[i]
  <2>1. i - 1 \in 0..n /\ i \in 0..n /\ i # 0 /\ 8 * (i - 1) \in Nat /\ 8 * i = 8 * (i - 1) + 8
    OBVIOUS
  <2>2. sum[i] = Shift(sum[i - 1], i) /\ at(n - i) \in 0..255
    BY <1>3, <1>5, <2>1
  <2>3. sum[i - 1] \in Values(8 * (i - 1))
    BY <1>7, <2>1
  <2>4. i \in Nat /\ i > 0
    BY <2>1
  <2>5. ASSUME NEW x, x = sum[i - 1], NEW b, b = at(n - i)
        PROVE  256 * x + b \in Values(8 * i)
    <3>1. x \in Values(8 * (i - 1)) /\ b \in 0..255
      BY <2>2, <2>3, <2>5
    <3> QED
      BY <2>4, <3>1, OneByteMore, Zenon
  <2> QED
    BY <2>1, <2>2, <2>5
<1> HIDE DEF Y, Shift
<1>8. \A i \in 0..n : sum[i] \in Y[i]
  BY <1>6, <1>7, KeptBySteps
<1>9. sum[n] \in Values(8 * n)
  BY <1>8 DEF Y
<1> QED
  BY <1>1, <1>2, <1>9 DEF Read

LEMMA WrType ==
  ASSUME NEW K, NEW W, DataClosed(K, W), NEW m \in K, NEW a \in Nat, NEW n \in Nat, NEW v \in Nat
  PROVE  wr(m, a, n, v) \in K
<1> DEFINE new == {x \in a..a + n - 1 : x < MemSize}
           base == IF InMemory(a, n) THEN m ELSE X86EMU_halt_sys(m)
           g == [x \in DOMAIN base.mem \cup new |->
                   IF x \in new THEN Mod(8, v \div 2^(8 * (x - a))) ELSE base.mem[x]]
<1>1. base \in K /\ base \in Machines
  BY DEF DataClosed, FetchClosed
<1>2. wr(m, a, n, v) = [base EXCEPT !.mem = g]
  BY DEF wr
<1> HIDE DEF base
<1>3. base.mem \in Memories
  BY <1>1, MachineType
<1>4. DOMAIN base.mem \subseteq 0..MemSize - 1 /\ \A x \in DOMAIN base.mem : base.mem[x] \in Values(8)
  BY <1>3, MemoryType
<1>5. new \subseteq 0..MemSize - 1
  BY WidthAssumption
<1>6. ASSUME NEW x \in new
      PROVE  Mod(8, v \div 2^(8 * (x - a))) \in Values(8)
  <2>1. 8 * (x - a) \in Nat
    OBVIOUS
  <2>2. 2^(8 * (x - a)) \in Nat /\ 2^(8 * (x - a)) > 0
    BY <2>1, PowPositive
  <2>3. v \div 2^(8 * (x - a)) \in Int
    BY <2>2
  <2> QED
    BY <2>3, ModType
<1> HIDE DEF new
<1>7. g \in [DOMAIN base.mem \cup new -> Values(8)]
  BY <1>4, <1>6
<1>8. g \in Memories
  BY <1>4, <1>5, <1>7, IsMemory
<1> HIDE DEF g
<1> QED
  BY <1>1, <1>2, <1>8 DEF DataClosed

(***************************************************************************)
(* Registers, code and data.                                               *)
(***************************************************************************)
LEMMA LinearType ==
  ASSUME NEW segment \in Int, NEW offset \in Int
  PROVE  Linear(segment, offset) \in Values(LongBits) /\ Linear(segment, offset) \in Nat
BY WidthAssumption, ModType DEF Linear

LEMMA RegType ==
  ASSUME NEW m \in Machines, NEW n \in 0..7
  PROVE  /\ Reg8(m, n) \in Values(8) /\ Reg16(m, n) \in Values(16) /\ Reg32(m, n) \in Values(LongBits)
         /\ Reg8(m, n) \in Nat /\ Reg16(m, n) \in Nat /\ m.r[n] \in Nat /\ m.r[n] \in Values(LongBits)
         /\ \A w \in Widths : Reg(m, w, n) \in Values(w) /\ Reg(m, w, n) \in Nat
<1>1. m.r \in [0..7 -> Values(LongBits)] /\ Values(LongBits) \subseteq Nat
  BY MachineType, ValuesNat, WidthAssumption DEF Registers
<1>2. m.r[n] \in Values(LongBits) /\ m.r[n] \in Nat
  BY <1>1
<1>3. Reg8(m, n) \in Values(8)
  <2>1. CASE n < 4
    <3>1. Mod(8, m.r[n]) \in Values(8)
      <4>1. m.r[n] \in Int
        BY <1>2
      <4> QED
        BY <4>1, ModType
    <3> QED
      BY <2>1, <3>1 DEF Reg8
  <2>2. CASE ~(n < 4)
    <3>1. n - 4 \in 0..7
      BY <2>2
    <3>2. m.r[n - 4] \div 256 \in Int
      BY <1>1, <3>1
    <3> QED
      <4>1. Mod(8, m.r[n - 4] \div 256) \in Values(8)
        BY <3>2, ModType
      <4> QED
        BY <2>2, <4>1 DEF Reg8
  <2> QED
    BY <2>1, <2>2
<1>4. Reg16(m, n) \in Values(16)
  <2>1. m.r[n] \in Int
    BY <1>2
  <2>2. Mod(16, m.r[n]) \in Values(16)
    BY <2>1, ModType
  <2> QED
    BY <2>2 DEF Reg16
<1>5. Values(8) \subseteq Nat /\ Values(16) \subseteq Nat
  BY ValuesNat
<1>6. \A w \in Widths : Reg(m, w, n) \in Values(w) /\ Values(w) \subseteq Nat
  BY <1>2, <1>3, <1>4, KnownGrow DEF Reg, Reg32, Widths
<1> QED
  BY <1>2, <1>3, <1>4, <1>5, <1>6 DEF Reg32

LEMMA SegType ==
  ASSUME NEW m \in Machines, NEW name \in Segments
  PROVE  m.seg[name] \in Values(16) /\ m.seg[name] \in Nat /\ m.ip \in Nat /\ m.ip \in Values(16)
<1>1. m.seg \in [Segments -> Values(16)] /\ m.ip \in Values(16) /\ Values(16) \subseteq Nat
  BY MachineType, ValuesNat
<1> QED
  BY <1>1

LEMMA SetIpType ==
  ASSUME NEW K, FetchClosed(K), NEW m \in K, NEW ip \in Int
  PROVE  SetIp(m, ip) \in K
<1>1. Mod(16, ip) \in Values(16)
  BY ModType
<1> QED
  BY <1>1 DEF SetIp, FetchClosed

LEMMA ReadAbsType ==
  ASSUME NEW K, FetchClosed(K), NEW m \in K, NEW w \in Widths, NEW segment \in Int, NEW offset \in Int
  PROVE  fetch_data_abs(m, w, segment, offset) \in Read(K, w)
<1>1. Bytes(w) \in Nat /\ w = 8 * Bytes(w)
  BY WidthType
<1>2. rd(m, Linear(segment, offset), Bytes(w)) \in Read(K, 8 * Bytes(w))
  BY <1>1, LinearType, RdType
<1> QED
  BY <1>1, <1>2 DEF fetch_data_abs

LEMMA FetchImmType ==
  ASSUME NEW K, FetchClosed(K), NEW m \in K, NEW w \in Widths
  PROVE  fetch_imm(m, w) \in Read(K, w)
<1> DEFINE b == rd(m, Linear(m.seg["CS"], m.ip), Bytes(w))
<1>1. m \in Machines
  BY DEF FetchClosed
<1>2. m.seg["CS"] \in Int /\ m.ip \in Int
  BY <1>1, SegType DEF Segments
<1>3. b \in Read(K, w)
  BY <1>2, ReadAbsType DEF fetch_data_abs
<1> HIDE DEF b
<1>4. b.m \in K /\ b.m \in Machines
  BY <1>3 DEF Read, FetchClosed
<1>5. b.m.ip \in Int /\ Bytes(w) \in Int
  BY <1>4, SegType, WidthType DEF Segments
<1>6. SetIp(b.m, b.m.ip + Bytes(w)) \in K
  BY <1>4, <1>5, SetIpType
<1>7. fetch_imm(m, w) = [b EXCEPT !.m = SetIp(b.m, b.m.ip + Bytes(w))]
  BY DEF fetch_imm, Skip, b
<1> QED
  BY <1>3, <1>6, <1>7 DEF Read

LEMMA FetchType ==
  ASSUME NEW K, FetchClosed(K), NEW m \in K
  PROVE  /\ fetch_byte_imm(m) \in Read(K, 8) /\ fetch_word_imm(m) \in Read(K, 16)
         /\ fetch_long_imm(m) \in Read(K, LongBits)
BY FetchImmType DEF fetch_byte_imm, fetch_word_imm, fetch_long_imm, Widths

LEMMA DataSegmentType ==
  ASSUME NEW K, FetchClosed(K), NEW m \in K
  PROVE  get_data_segment(m) \in Read(K, 16)
<1> DEFINE o == m.mode \cap DOMAIN SegOvr
<1>1. m \in Machines /\ X86EMU_halt_sys(m) \in K
  BY DEF FetchClosed
<1>2. m.seg["SS"] \in Values(16) /\ m.seg["DS"] \in Values(16) /\ 0 \in Values(16)
  BY <1>1, SegType, ValuesNat DEF Segments
<1>3. CASE o = {}
  BY <1>2, <1>3 DEF get_data_segment, Read
<1>4. CASE o # {} /\ Cardinality(o) > 1
  BY <1>1, <1>2, <1>4 DEF get_data_segment, Read
<1>5. CASE o # {} /\ ~(Cardinality(o) > 1)
  <2> DEFINE c == CHOOSE x \in o : TRUE
  <2>1. c \in o
    BY <1>5
  <2>2. c \in DOMAIN SegOvr
    BY <2>1
  <2>3. SegOvr[c] \in Segments
    <3>1. DOMAIN SegOvr = {"SEGOVR_ES", "SEGOVR_CS", "SEGOVR_SS", "SEGOVR_DS", "SEGOVR_FS", "SEGOVR_GS"}
      BY DEF SegOvr
    <3>2. /\ SegOvr["SEGOVR_ES"] = "ES" /\ SegOvr["SEGOVR_CS"] = "CS" /\ SegOvr["SEGOVR_SS"] = "SS"
          /\ SegOvr["SEGOVR_DS"] = "DS" /\ SegOvr["SEGOVR_FS"] = "FS" /\ SegOvr["SEGOVR_GS"] = "GS"
      BY DEF SegOvr
    <3> HIDE DEF c
    <3> QED
      BY <2>2, <3>1, <3>2 DEF Segments
  <2>4. get_data_segment(m) = [m |-> m, v |-> m.seg[SegOvr[c]]]
    BY <1>5 DEF get_data_segment
  <2> HIDE DEF c
  <2>5. m.seg[SegOvr[c]] \in Values(16)
    BY <1>1, <2>3, SegType
  <2> QED
    BY <2>4, <2>5 DEF Read
<1> QED
  BY <1>3, <1>4, <1>5

LEMMA FetchDataType ==
  ASSUME NEW K, FetchClosed(K), NEW m \in K, NEW w \in Widths, NEW offset \in Int
  PROVE  fetch_data(m, w, offset) \in Read(K, w)
<1> DEFINE s == get_data_segment(m)
<1>1. s \in Read(K, 16)
  BY DataSegmentType
<1> HIDE DEF s
<1>2. s.m \in K /\ s.v \in Int
  BY <1>1, ValuesNat DEF Read
<1>3. fetch_data(m, w, offset) = fetch_data_abs(s.m, w, s.v, offset)
  BY DEF fetch_data, FetchIn, s
<1> QED
  BY <1>2, <1>3, ReadAbsType

LEMMA StoreAbsType ==
  ASSUME NEW K, NEW W, DataClosed(K, W), NEW m \in K, NEW w \in Widths,
         NEW segment \in Int, NEW offset \in Int, NEW v \in Nat
  PROVE  store_data_abs(m, w, segment, offset, v) \in K
<1>1. Bytes(w) \in Nat
  BY WidthType
<1> QED
  BY <1>1, LinearType, WrType DEF store_data_abs

LEMMA StoreDataType ==
  ASSUME NEW K, NEW W, DataClosed(K, W), NEW m \in K, NEW w \in Widths, NEW offset \in Int, NEW v \in Nat
  PROVE  store_data(m, w, offset, v) \in K
<1> DEFINE s == get_data_segment(m)
<1>1. s \in Read(K, 16)
  BY DataSegmentType DEF DataClosed
<1> HIDE DEF s
<1>2. s.m \in K /\ s.v \in Int
  BY <1>1, ValuesNat DEF Read
<1>3. store_data(m, w, offset, v) = store_data_abs(s.m, w, s.v, offset, v)
  BY DEF store_data, StoreIn, s
<1> QED
  BY <1>2, <1>3, StoreAbsType

(***************************************************************************)
(* The address of an operand.                                              *)
(***************************************************************************)
LEMMA PlusType ==
  ASSUME NEW K, NEW a, a.m \in K, a.v \in Int, NEW d \in Int
  PROVE  Plus(a, d) \in Read(K, LongBits)
<1>1. a.v + d \in Int /\ LongBits \in Nat
  BY WidthAssumption
<1>2. Mod(LongBits, a.v + d) \in Values(LongBits)
  BY <1>1, ModType
<1> QED
  BY <1>2 DEF Plus, Read

LEMMA OneOfEight ==
  ASSUME NEW S, NEW a \in S, NEW b \in S, NEW c \in S, NEW d \in S,
         NEW e \in S, NEW f \in S, NEW g \in S, NEW h \in S, NEW rm \in 0..7
  PROVE  <<a, b, c, d, e, f, g, h>>[rm + 1] \in S
OBVIOUS

LEMMA Base16Type ==
  ASSUME NEW K, ReadClosed(K), NEW m \in K, NEW rm \in 0..7
  PROVE  Base16(m, rm) \in Read(K, LongBits)
<1> DEFINE bx == Reg16(m, BX)
           si == Reg16(m, SI)
           di == Reg16(m, DI)
           bp == Reg16(m, BP)
           q == <<bx + si, bx + di, bp + si, bp + di, si, di, bp, bx>>
<1>1. m \in Machines /\ Stack(m) \in K
  BY DEF ReadClosed, FetchClosed
<1>2. ASSUME NEW n \in 0..7
      PROVE  Reg16(m, n) \in Nat /\ Reg16(m, n) < 65536
  <2>1. Reg16(m, n) \in Values(16)
    BY <1>1, RegType
  <2> QED
    BY <2>1, WordBelow
<1>3. bx \in Nat /\ bx < 65536 /\ si \in Nat /\ si < 65536 /\ di \in Nat /\ di < 65536 /\ bp \in Nat /\ bp < 65536
  <2>1. BX \in 0..7 /\ SI \in 0..7 /\ DI \in 0..7 /\ BP \in 0..7
    BY DEF BX, SI, DI, BP
  <2> QED
    BY <1>2, <2>1
<1>4. Base16(m, rm) = [m |-> IF rm \in {2, 3, 6} THEN Stack(m) ELSE m, v |-> q[rm + 1]]
  BY DEF Base16
<1> HIDE DEF bx, si, di, bp
<1>5. /\ bx + si \in Values(LongBits) /\ bx + di \in Values(LongBits)
      /\ bp + si \in Values(LongBits) /\ bp + di \in Values(LongBits)
      /\ si \in Values(LongBits) /\ di \in Values(LongBits)
      /\ bp \in Values(LongBits) /\ bx \in Values(LongBits)
  BY <1>3, LongAbove
<1>6. q[rm + 1] \in Values(LongBits)
  BY <1>5, OneOfEight
<1> HIDE DEF q
<1> QED
  BY <1>1, <1>4, <1>6 DEF Read

LEMMA SibType ==
  ASSUME NEW K, ReadClosed(K), NEW m \in K, NEW sib \in Values(8), NEW mod \in 0..3
  PROVE  decode_sib_address(m, sib, mod) \in Read(K, LongBits)
<1> DEFINE b == sib % 8
           x == (sib \div 8) % 8
           scale == sib \div 64
<1>1. FetchClosed(K) /\ m \in Machines /\ Stack(m) \in K
  BY DEF ReadClosed, FetchClosed
<1>2. sib \in 0..255
  BY Values8
<1>3. b \in 0..7 /\ x \in 0..7 /\ scale \in Nat
  BY <1>2
<1> HIDE DEF b, x, scale
<1>4. SibBase(m, b, mod) \in Read(K, LongBits)
  <2>1. fetch_long_imm(m) \in Read(K, LongBits)
    BY <1>1, FetchType
  <2>2. m.r[SP] \in Values(LongBits) /\ m.r[b] \in Values(LongBits)
    BY <1>1, <1>3, RegType DEF SP
  <2>3. CASE b = 5 /\ mod = 0
    BY <2>1, <2>3 DEF SibBase
  <2>4. CASE b \in {4, 5} /\ ~(b = 5 /\ mod = 0)
    BY <1>1, <2>2, <2>4 DEF SibBase, Read
  <2>5. CASE ~(b = 5 /\ mod = 0) /\ ~(b \in {4, 5} /\ ~(b = 5 /\ mod = 0))
    BY <2>2, <2>5 DEF SibBase, Read
  <2> QED
    BY <2>3, <2>4, <2>5
<1>5. SibIndex(m, x, scale) \in Int
  <2>1. m.r[x] \in Nat /\ 2^scale \in Nat
    BY <1>1, <1>3, RegType, PowPositive
  <2> QED
    BY <2>1 DEF SibIndex
<1>6. decode_sib_address(m, sib, mod) = Plus(SibBase(m, b, mod), SibIndex(m, x, scale))
  BY DEF decode_sib_address, b, x, scale
<1>7. SibBase(m, b, mod).m \in K /\ SibBase(m, b, mod).v \in Int
  BY <1>4, ValuesNat, WidthAssumption DEF Read
<1> QED
  BY <1>5, <1>6, <1>7, PlusType

LEMMA RegisterType ==
  ASSUME NEW K, FetchClosed(K), NEW m \in K, NEW rm \in 0..7
  PROVE  Register(m, rm) \in Read(K, LongBits)
<1>1. m \in Machines
  BY DEF FetchClosed
<1>2. m.r[rm] \in Values(LongBits)
  BY <1>1, RegType
<1> QED
  BY <1>2 DEF Register, Read

LEMMA SibFetchType ==
  ASSUME NEW K, ReadClosed(K), NEW m \in K, NEW mod \in 0..3
  PROVE  Sib(fetch_byte_imm(m), mod) \in Read(K, LongBits)
<1> DEFINE s == fetch_byte_imm(m)
<1>1. s \in Read(K, 8)
  BY FetchType DEF ReadClosed
<1> HIDE DEF s
<1>2. s.m \in K /\ s.v \in Values(8)
  BY <1>1 DEF Read
<1>3. Sib(s, mod) \in Read(K, LongBits)
  BY <1>2, SibType DEF Sib
<1> QED
  BY <1>3 DEF s

\* A displacement leaves an address.
LEMMA PlusImmType ==
  ASSUME NEW K, FetchClosed(K), NEW a \in Read(K, LongBits)
  PROVE  /\ PlusByte(a) \in Read(K, LongBits) /\ PlusWord(a) \in Read(K, LongBits)
         /\ PlusLong(a) \in Read(K, LongBits)
<1>1. a.m \in K /\ a.v \in Int
  BY ValuesNat, WidthAssumption DEF Read
<1>2. ASSUME NEW w \in Nat, NEW d \in Read(K, w), NEW x \in Int
      PROVE  Plus([m |-> d.m, v |-> a.v], x) \in Read(K, LongBits)
  <2>1. d.m \in K
    BY DEF Read
  <2> DEFINE e == [m |-> d.m, v |-> a.v]
  <2>2. e.m \in K /\ e.v \in Int
    BY <1>1, <2>1
  <2> HIDE DEF e
  <2>3. Plus(e, x) \in Read(K, LongBits)
    BY <2>2, PlusType
  <2> QED
    BY <2>3 DEF e
<1>3. PlusByte(a) \in Read(K, LongBits)
  <2> DEFINE d == fetch_byte_imm(a.m)
  <2>1. d \in Read(K, 8)
    BY <1>1, FetchType
  <2> HIDE DEF d
  <2>2. d.v \in Values(8)
    BY <2>1 DEF Read
  <2>3. Signed(8, d.v) \in Int
    BY <2>2, SignedType
  <2>4. Plus([m |-> d.m, v |-> a.v], Signed(8, d.v)) \in Read(K, LongBits)
    BY <1>2, <2>1, <2>3
  <2> QED
    BY <2>4 DEF PlusByte, d
<1>4. ASSUME NEW w \in Nat, NEW d \in Read(K, w)
      PROVE  PlusImm(a, d) \in Read(K, LongBits)
  <2>1. d.v \in Int
    BY ValuesNat DEF Read
  <2> QED
    BY <1>2, <2>1 DEF PlusImm
<1>5. fetch_word_imm(a.m) \in Read(K, 16) /\ fetch_long_imm(a.m) \in Read(K, LongBits)
  BY <1>1, FetchType
<1>6. PlusWord(a) \in Read(K, LongBits)
  BY <1>4, <1>5 DEF PlusWord
<1>7. PlusLong(a) \in Read(K, LongBits)
  BY <1>4, <1>5, WidthAssumption DEF PlusLong
<1> QED
  BY <1>3, <1>6, <1>7

LEMMA Grown ==
  ASSUME NEW K, NEW x, x \in Read(K, 8) \/ x \in Read(K, 16) \/ x \in Read(K, LongBits)
  PROVE  x \in Read(K, LongBits)
BY KnownGrow DEF Read, Widths

LEMMA AddressType ==
  ASSUME NEW K, ReadClosed(K), NEW m \in K, NEW rm \in 0..7
  PROVE  /\ decode_rm00_address(m, rm) \in Read(K, LongBits)
         /\ decode_rm01_address(m, rm) \in Read(K, LongBits)
         /\ decode_rm10_address(m, rm) \in Read(K, LongBits)
<1>1. FetchClosed(K) /\ Stack(m) \in K
  BY DEF ReadClosed
<1>2. /\ \A mod \in 0..3 : Sib(fetch_byte_imm(m), mod) \in Read(K, LongBits)
      /\ Register(m, rm) \in Read(K, LongBits)
      /\ Register(Stack(m), rm) \in Read(K, LongBits)
      /\ Base16(m, rm) \in Read(K, LongBits)
      /\ fetch_word_imm(m) \in Read(K, LongBits)
      /\ fetch_long_imm(m) \in Read(K, LongBits)
  <2>1. \A mod \in 0..3 : Sib(fetch_byte_imm(m), mod) \in Read(K, LongBits)
    BY SibFetchType
  <2>2. Register(m, rm) \in Read(K, LongBits) /\ Register(Stack(m), rm) \in Read(K, LongBits)
    BY <1>1, RegisterType
  <2>3. Base16(m, rm) \in Read(K, LongBits)
    BY Base16Type
  <2>4. fetch_word_imm(m) \in Read(K, 16) /\ fetch_long_imm(m) \in Read(K, LongBits)
    BY <1>1, FetchType
  <2> QED
    BY <2>1, <2>2, <2>3, <2>4, Grown
<1>3. decode_rm00_address(m, rm) \in Read(K, LongBits)
  <2>1. CASE "PREFIX_ADDR" \in m.mode
    <3>1. CASE rm = 4
      BY <1>2, <2>1, <3>1 DEF decode_rm00_address
    <3>2. CASE rm = 5
      BY <1>2, <2>1, <3>2 DEF decode_rm00_address
    <3>3. CASE rm # 4 /\ rm # 5
      BY <1>2, <2>1, <3>3 DEF decode_rm00_address
    <3> QED
      BY <3>1, <3>2, <3>3
  <2>2. CASE "PREFIX_ADDR" \notin m.mode
    BY <1>2, <2>2 DEF decode_rm00_address
  <2> QED
    BY <2>1, <2>2
<1>4. decode_rm01_address(m, rm) \in Read(K, LongBits)
  <2> DEFINE a == IF "PREFIX_ADDR" \notin m.mode THEN Base16(m, rm)
                  ELSE IF rm = 4 THEN Sib(fetch_byte_imm(m), 1) ELSE Register(m, rm)
  <2>1. a \in Read(K, LongBits)
    BY <1>2
  <2> HIDE DEF a
  <2>2. PlusByte(a) \in Read(K, LongBits)
    BY <1>1, <2>1, PlusImmType
  <2> QED
    BY <2>2 DEF decode_rm01_address, a
<1>5. decode_rm10_address(m, rm) \in Read(K, LongBits)
  <2>1. CASE "PREFIX_ADDR" \notin m.mode
    <3>1. PlusWord(Base16(m, rm)) \in Read(K, LongBits)
      BY <1>1, <1>2, PlusImmType
    <3> QED
      BY <2>1, <3>1 DEF decode_rm10_address
  <2>2. CASE "PREFIX_ADDR" \in m.mode
    <3> DEFINE a == CASE rm = 4 -> Sib(fetch_byte_imm(m), 2)
                      [] rm = 2 -> Register(Stack(m), rm)
                      [] OTHER  -> Register(m, rm)
    <3>1. a \in Read(K, LongBits)
      <4>1. CASE rm = 4
        BY <1>2, <4>1
      <4>2. CASE rm = 2
        BY <1>2, <4>2
      <4>3. CASE rm # 4 /\ rm # 2
        BY <1>2, <4>3
      <4> QED
        BY <4>1, <4>2, <4>3
    <3> HIDE DEF a
    <3>2. PlusLong(a) \in Read(K, LongBits)
      BY <1>1, <3>1, PlusImmType
    <3> QED
      BY <2>2, <3>2 DEF decode_rm10_address, a
  <2> QED
    BY <2>1, <2>2
<1> QED
  BY <1>3, <1>4, <1>5

\* The four parts of a ModRM byte: mod is 3 for a register.
Decoded(K) == [m : K, mod : 0..3, rh : 0..7, rl : 0..7]

LEMMA ModRMType ==
  ASSUME NEW K, FetchClosed(K), NEW m \in K
  PROVE  fetch_decode_modrm(m) \in Decoded(K)
<1> DEFINE b == fetch_byte_imm(m)
<1>1. b \in Read(K, 8)
  BY FetchType
<1> HIDE DEF b
<1>2. b.m \in K /\ b.v \in 0..255
  BY <1>1, Values8 DEF Read
<1>3. b.v \div 64 \in 0..3 /\ (b.v \div 8) % 8 \in 0..7 /\ b.v % 8 \in 0..7
  BY <1>2
<1>4. SplitModRM(b) \in Decoded(K)
  BY <1>2, <1>3 DEF SplitModRM, Decoded
<1> QED
  BY <1>4 DEF fetch_decode_modrm, b

LEMMA OperandType ==
  ASSUME NEW K, ReadClosed(K), NEW d \in Decoded(K)
  PROVE  Operand(d) \in Operands(K)
<1>1. d.m \in K /\ d.mod \in 0..3 /\ d.rh \in 0..7 /\ d.rl \in 0..7
  BY DEF Decoded
<1>2. CASE d.mod = 3
  <2>1. d.rl \in Values(LongBits)
    <3>1. d.rl \in Values(8)
      BY <1>1, Values8
    <3> QED
      BY <3>1, KnownGrow DEF Widths
  <2> QED
    BY <1>1, <1>2, <2>1 DEF Operand, Operands
<1>3. CASE d.mod # 3
  <2> DEFINE a == decode_address(d)
  <2>1. a \in Read(K, LongBits)
    <3>1. CASE d.mod = 0
      BY <1>1, <3>1, AddressType DEF decode_address
    <3>2. CASE d.mod = 1
      BY <1>1, <3>2, AddressType DEF decode_address
    <3>3. CASE d.mod = 2
      BY <1>1, <3>3, AddressType DEF decode_address
    <3> QED
      BY <1>1, <1>3, <3>1, <3>2, <3>3
  <2> HIDE DEF a
  <2>2. AtAddress(a, d.rh) \in Operands(K)
    BY <1>1, <2>1 DEF AtAddress, Read, Operands
  <2> QED
    BY <1>3, <2>2 DEF Operand, a
<1> QED
  BY <1>2, <1>3

LEMMA DecodeType ==
  ASSUME NEW K, ReadClosed(K), NEW m \in K
  PROVE  Decode(m) \in Operands(K)
<1>1. fetch_decode_modrm(m) \in Decoded(K)
  BY ModRMType DEF ReadClosed
<1> QED
  BY <1>1, OperandType DEF Decode

(***************************************************************************)
(* Operands, registers and the stack.  What an instruction ends with is a  *)
(* machine without the prefixes, or one that followed a null pointer.      *)
(***************************************************************************)
Ended(K) == {Done(m) : m \in K} \cup {Crash(m) : m \in K}

\* What a closed set has.
LEMMA ClosedUnder ==
  ASSUME NEW K, NEW W, Closed(K, W)
  PROVE  /\ FetchClosed(K) /\ ReadClosed(K) /\ DataClosed(K, W) /\ K \subseteq Machines
         /\ W \subseteq Widths /\ 8 \in W /\ 16 \in W
BY DEF Closed, DataClosed, FetchClosed

LEMMA ClosedSteps ==
  ASSUME NEW K, NEW W, Closed(K, W), NEW m \in K
  PROVE  /\ m \in Machines /\ OpSize(m) \in W /\ OpSize(m) \in Widths
         /\ X86EMU_halt_sys(m) \in K
         /\ Done(m) \in Ended(K) /\ Crash(m) \in Ended(K)
         /\ \A f \in SUBSET FlagBits : Flags(m, f) \in K
         /\ \A name \in Segments : \A v \in Values(16) : SetSeg(m, name, v) \in K
         /\ \A w \in W : \A n \in 0..7 : \A v \in Values(w) : SetReg(m, w, n, v) \in K
<1>1. Done(m) \in Ended(K) /\ Crash(m) \in Ended(K)
  BY DEF Ended
<1>2. m \in Machines /\ X86EMU_halt_sys(m) \in K
  BY DEF Closed, DataClosed, FetchClosed
<1>3. OpSize(m) \in W /\ OpSize(m) \in Widths
  BY DEF Closed, DataClosed
<1> QED
  BY <1>1, <1>2, <1>3 DEF Closed, DataClosed

LEMMA OperandHas ==
  ASSUME NEW K, NEW o \in Operands(K)
  PROVE  /\ o.m \in K /\ o.rh \in 0..7 /\ o.mem \in BOOLEAN /\ o.at \in Values(LongBits)
         /\ ~o.mem => o.at \in 0..7
         /\ \A n \in K : [o EXCEPT !.m = n] \in Operands(K)
BY DEF Operands

LEMMA LoadedHas ==
  ASSUME NEW K, NEW w \in Widths, NEW o \in LoadedOperands(K, w)
  PROVE  /\ o.m \in K /\ o.rh \in 0..7 /\ o.mem \in BOOLEAN /\ o.at \in Values(LongBits)
         /\ o.v \in Values(w) /\ o.v \in Nat
         /\ ~o.mem => o.at \in 0..7
         /\ \A n \in K : [o EXCEPT !.m = n] \in LoadedOperands(K, w)
BY KnownGrow DEF LoadedOperands

LEMMA LoadType ==
  ASSUME NEW K, FetchClosed(K), NEW w \in Widths, NEW o \in Operands(K)
  PROVE  Loaded(w, o) \in LoadedOperands(K, w)
<1> DEFINE d == Load(o.m, w, o)
<1>1. o.m \in K /\ o.rh \in 0..7 /\ o.mem \in BOOLEAN /\ o.at \in Values(LongBits) /\ (~o.mem => o.at \in 0..7)
  BY OperandHas
<1>2. d \in Read(K, w)
  <2>1. CASE o.mem
    <3>1. o.at \in Int
      BY <1>1, ValuesNat, WidthAssumption
    <3>2. fetch_data(o.m, w, o.at) \in Read(K, w)
      BY <1>1, <3>1, FetchDataType
    <3> QED
      BY <2>1, <3>2 DEF Load
  <2>2. CASE ~o.mem
    <3>1. Reg(o.m, w, o.at) \in Values(w)
      <4>1. o.m \in Machines /\ o.at \in 0..7
        BY <1>1, <2>2 DEF FetchClosed
      <4> QED
        BY <4>1, RegType
    <3> QED
      BY <1>1, <2>2, <3>1 DEF Load, Read
  <2> QED
    BY <2>1, <2>2
<1> HIDE DEF d
<1>3. d.m \in K /\ d.v \in Values(w)
  BY <1>2 DEF Read
<1>4. WithValue(o, d) \in LoadedOperands(K, w)
  BY <1>1, <1>3 DEF WithValue, LoadedOperands
<1> QED
  BY <1>4 DEF Loaded, d

\* Where an operand is stored is told by o.mem and o.at alone: its machine may be another one.
LEMMA StoreType ==
  ASSUME NEW K, NEW W, DataClosed(K, W), NEW m \in K, NEW w \in W, NEW o,
         o.mem \in BOOLEAN, o.at \in Values(LongBits), ~o.mem => o.at \in 0..7, NEW v \in Values(w)
  PROVE  Store(m, w, o, v) \in K
<1>1. w \in Widths
  BY DEF DataClosed
<1>2. CASE o.mem
  <2>1. o.at \in Int /\ v \in Nat
    BY <1>1, ValuesNat, KnownGrow, WidthAssumption
  <2>2. store_data(m, w, o.at, v) \in K
    BY <1>1, <2>1, StoreDataType
  <2> QED
    BY <1>2, <2>2 DEF Store
<1>3. CASE ~o.mem
  <2>1. SetReg(m, w, o.at, v) \in K
    BY <1>3 DEF DataClosed
  <2> QED
    BY <1>3, <2>1 DEF Store
<1> QED
  BY <1>2, <1>3

LEMMA LoadDecoded ==
  ASSUME NEW K, NEW W, Closed(K, W), NEW m \in K, NEW w \in Widths
  PROVE  /\ Decode(m) \in Operands(K)
         /\ Loaded(w, Decode(m)) \in LoadedOperands(K, w)
         /\ fetch_imm(m, w) \in Read(K, w)
BY ClosedUnder, DecodeType, LoadType, FetchImmType

LEMMA ReadHas ==
  ASSUME NEW K, NEW w \in Widths, NEW i \in Read(K, w)
  PROVE  i.m \in K /\ i.v \in Values(w) /\ i.v \in Nat
BY KnownGrow DEF Read

\* A word in a register, from any number.
LEMMA SetWordType ==
  ASSUME NEW K, NEW W, DataClosed(K, W), NEW m \in K, NEW n \in 0..7, NEW v \in Int
  PROVE  SetReg16(m, n, v) \in K
<1> DEFINE x == Mod(16, v)
<1>1. x \in Values(16)
  BY ModType
<1>2. SetReg16(m, n, x) = SetReg16(m, n, v)
  <2>1. Mod(16, x) = x
    <3>1. 2^16 \in Nat /\ 2^16 > 0
      BY PowPositive
    <3> HIDE DEF x
    <3> QED
      BY <1>1, <3>1 DEF Mod, Values
  <2> QED
    BY <2>1 DEF SetReg16
<1> HIDE DEF x
<1>3. SetReg(m, 16, n, x) \in K
  BY <1>1 DEF DataClosed
<1>4. SetReg(m, 16, n, x) = SetReg16(m, n, x)
  BY DEF SetReg
<1> QED
  BY <1>2, <1>3, <1>4

LEMMA PushType ==
  ASSUME NEW K, NEW W, DataClosed(K, W), NEW m \in K, NEW w \in Widths, NEW v \in Nat
  PROVE  push(m, w, v) \in K
<1> DEFINE n == SetReg16(m, SP, Reg16(m, SP) - Bytes(w))
<1>1. SP \in 0..7 /\ m \in Machines /\ "SS" \in Segments
  BY DEF SP, DataClosed, FetchClosed, Segments
<1>2. Reg16(m, SP) \in Nat /\ Bytes(w) \in Nat
  BY <1>1, RegType, WidthType
<1>3. n \in K
  <2>1. Reg16(m, SP) - Bytes(w) \in Int
    BY <1>2
  <2> QED
    BY <1>1, <2>1, SetWordType
<1> HIDE DEF n
<1>4. n \in Machines
  BY <1>3 DEF DataClosed, FetchClosed
<1>5. n.seg["SS"] \in Int /\ Reg16(n, SP) \in Int
  BY <1>1, <1>4, SegType, RegType
<1>6. PutTop(n, w, v) \in K
  BY <1>3, <1>5, StoreAbsType DEF PutTop
<1> QED
  BY <1>6 DEF push, n

LEMMA PopType ==
  ASSUME NEW K, NEW W, DataClosed(K, W), NEW m \in K, NEW w \in Widths
  PROVE  pop(m, w) \in Read(K, w)
<1> DEFINE s == fetch_data_abs(m, w, m.seg["SS"], Reg16(m, SP))
<1>1. SP \in 0..7 /\ m \in Machines /\ "SS" \in Segments /\ FetchClosed(K)
  BY DEF SP, DataClosed, FetchClosed, Segments
<1>2. m.seg["SS"] \in Int /\ Reg16(m, SP) \in Int
  BY <1>1, SegType, RegType
<1>3. s \in Read(K, w)
  BY <1>1, <1>2, ReadAbsType
<1> HIDE DEF s
<1>4. s.m \in K /\ s.m \in Machines
  BY <1>3 DEF Read, DataClosed, FetchClosed
<1>5. Reg16(s.m, SP) \in Nat /\ Bytes(w) \in Nat
  BY <1>1, <1>4, RegType, WidthType
<1>6. SetReg16(s.m, SP, Reg16(s.m, SP) + Bytes(w)) \in K
  <2>1. Reg16(s.m, SP) + Bytes(w) \in Int
    BY <1>5
  <2> QED
    BY <1>1, <1>4, <2>1, SetWordType
<1>7. Popped(s, w) = [s EXCEPT !.m = SetReg16(s.m, SP, Reg16(s.m, SP) + Bytes(w))]
  BY DEF Popped
<1>8. Popped(s, w) \in Read(K, w)
  BY <1>3, <1>6, <1>7 DEF Read
<1> QED
  BY <1>8 DEF pop, s

\* Words are pushed one after the other.
LEMMA PushAllType ==
  ASSUME NEW K, NEW W, DataClosed(K, W), NEW m \in K, NEW w \in Widths, NEW n \in Nat,
         NEW vs \in [1..n -> Nat], Len(vs) = n
  PROVE  PushAll(m, w, vs) \in K
<1> DEFINE after[i \in 0..n] == IF i = 0 THEN m ELSE push(after[i - 1], w, vs[i])
           step == [i \in 1..n |-> [x \in K |-> push(x, w, vs[i])]]
<1>1. PushAll(m, w, vs) = after[n]
  BY DEF PushAll, Iterate
<1>2. ASSUME NEW x \in K, NEW i \in 1..n
      PROVE  push(x, w, vs[i]) \in K
  BY PushType
<1>3. step \in [1..n -> [K -> K]] /\ \A i \in 1..n : \A x \in K : step[i][x] = push(x, w, vs[i])
  BY <1>2
<1> HIDE DEF step
<1>4. PICK f : IterateOf(f, n, K, m, step)
  BY <1>3, Recursion
<1>5. f \in [0..n -> K] /\ f[0] = m /\ \A i \in 1..n : f[i] = push(f[i - 1], w, vs[i])
  BY <1>3, <1>4 DEF IterateOf
<1>6. f = [i \in 0..n |-> IF i = 0 THEN m ELSE push(f[i - 1], w, vs[i])]
  BY <1>5
<1>7. after = [i \in 0..n |-> IF i = 0 THEN m ELSE push(after[i - 1], w, vs[i])]
  BY <1>6
<1> HIDE DEF after
<1>8. after[0] \in K
  BY <1>7
<1>9. ASSUME NEW i \in 1..n, after[i - 1] \in K
      PROVE  after[i] \in K
  BY <1>2, <1>7, <1>9
<1>10. after[n] \in K
  BY <1>8, <1>9, KeptByStepsIn
<1> QED
  BY <1>1, <1>10

(***************************************************************************)
(* Arithmetic: a result fits its width, and the flags are flags.           *)
(***************************************************************************)
Results(w) == Values(w) \X SUBSET FlagBits

LEMMA ResultIs ==
  ASSUME NEW w \in Nat, NEW v \in Values(w), NEW f \in SUBSET FlagBits
  PROVE  <<v, f>> \in Results(w)
BY DEF Results

LEMMA FlagsKnown ==
  F_MSK \subseteq FlagBits /\ F_ALWAYS_ON \subseteq FlagBits /\ 0..15 \subseteq FlagBits
  /\ {CF, PF, AF, ZF, SF, TF, IF_, DF, OF} \subseteq FlagBits
<1>1. 0..23 \subseteq FlagBits
  BY WidthAssumption DEF FlagBits
<1>2. {CF, PF, AF, ZF, SF, TF, IF_, DF, OF} \subseteq 0..23
  BY DEF CF, PF, AF, ZF, SF, TF, IF_, DF, OF
<1>3. F_ALWAYS_ON \subseteq 0..23
  BY DEF F_ALWAYS_ON
<1> QED
  BY <1>1, <1>2, <1>3 DEF F_MSK

\* The flags of a result are flags.
LEMMA SZPType ==
  ASSUME NEW f \in SUBSET FlagBits, NEW w, NEW res
  PROVE  SetSZP(f, w, res) \in SUBSET FlagBits
<1>1. {SF, ZF, PF} \subseteq FlagBits
  BY FlagsKnown
<1> QED
  BY <1>1 DEF SetSZP

LEMMA SumType ==
  ASSUME NEW w \in Widths, NEW f \in SUBSET FlagBits, NEW d \in Int, NEW s \in Int, NEW c \in Int
  PROVE  Sum(w, f, d, s, c) \in Results(w)
<1> DEFINE full == d + s + c
           res == Mod(w, full)
           g == SetIf(f, full >= 2^w, CF)
           h == SetSZP(g, w, res)
           x == SetChain(h, w, LAMBDA i : Carry(d, s, res, i))
<1>1. w \in Nat /\ full \in Int
  BY WidthType
<1>2. res \in Values(w)
  BY <1>1, ModType
<1> HIDE DEF res
<1>3. {CF, AF, OF} \subseteq FlagBits
  BY FlagsKnown
<1>4. g \in SUBSET FlagBits
  BY <1>3 DEF SetIf
<1> HIDE DEF g
<1>5. h \in SUBSET FlagBits
  BY <1>4, SZPType
<1> HIDE DEF h
<1>6. x \in SUBSET FlagBits
  BY <1>3, <1>5 DEF SetChain, SetIf
<1>7. Sum(w, f, d, s, c) = <<res, x>>
  BY DEF Sum, res, g, h
<1> HIDE DEF x
<1> QED
  BY <1>1, <1>2, <1>6, <1>7, ResultIs

LEMMA DifferenceType ==
  ASSUME NEW w \in Widths, NEW f \in SUBSET FlagBits, NEW d \in Int, NEW s \in Int, NEW c \in Int
  PROVE  Difference(w, f, d, s, c) \in Results(w)
<1> DEFINE res == Mod(w, d - s - c)
           g == SetSZP(f, w, res)
           h == SetIf(g, Borrow(d, s, res, w - 1), CF)
           x == SetChain(h, w, LAMBDA i : Borrow(d, s, res, i))
<1>1. w \in Nat /\ d - s - c \in Int
  BY WidthType
<1>2. res \in Values(w)
  BY <1>1, ModType
<1> HIDE DEF res
<1>3. {CF, AF, OF} \subseteq FlagBits
  BY FlagsKnown
<1>4. g \in SUBSET FlagBits
  BY SZPType
<1> HIDE DEF g
<1>5. h \in SUBSET FlagBits
  BY <1>3, <1>4 DEF SetIf
<1> HIDE DEF h
<1>6. x \in SUBSET FlagBits
  BY <1>3, <1>5 DEF SetChain, SetIf
<1>7. Difference(w, f, d, s, c) = <<res, x>>
  BY DEF Difference, res, g, h
<1> HIDE DEF x
<1> QED
  BY <1>1, <1>2, <1>6, <1>7, ResultIs

LEMMA LogicResult ==
  ASSUME NEW w \in Widths, NEW f \in SUBSET FlagBits, NEW res \in Values(w)
  PROVE  Logic(w, f, res) \in Results(w)
<1>1. f \ {OF, CF, AF} \in SUBSET FlagBits /\ w \in Nat
  BY WidthType
<1>2. SetSZP(f \ {OF, CF, AF}, w, res) \in SUBSET FlagBits
  BY <1>1, SZPType
<1> QED
  BY <1>1, <1>2, ResultIs DEF Logic

\* The operations on two operands.
LEMMA BinaryType ==
  ASSUME NEW w \in Widths, NEW f \in SUBSET FlagBits, NEW d \in Values(w), NEW s \in Values(w)
  PROVE  /\ add(w, f, d, s) \in Results(w) /\ or(w, f, d, s) \in Results(w)
         /\ adc(w, f, d, s) \in Results(w) /\ sbb(w, f, d, s) \in Results(w)
         /\ and(w, f, d, s) \in Results(w) /\ sub(w, f, d, s) \in Results(w)
         /\ xor(w, f, d, s) \in Results(w) /\ cmp(w, f, d, s) \in Results(w)
         /\ test(w, f, d, s) \in Results(w) /\ Second(w, f, d, s) \in Results(w)
<1>1. d \in Int /\ s \in Int /\ w \in Nat
  BY WidthType, KnownGrow
<1>2. add(w, f, d, s) \in Results(w) /\ adc(w, f, d, s) \in Results(w)
  <2>1. \A c \in {0, 1} : Sum(w, f, d, s, c) \in Results(w)
    BY <1>1, SumType
  <2> QED
    BY <2>1 DEF add, adc
<1>3. sub(w, f, d, s) \in Results(w) /\ sbb(w, f, d, s) \in Results(w) /\ cmp(w, f, d, s) \in Results(w)
  <2>1. \A c \in {0, 1} : Difference(w, f, d, s, c) \in Results(w)
    BY <1>1, DifferenceType
  <2>2. Difference(w, f, d, s, 0)[2] \in SUBSET FlagBits
    BY <2>1 DEF Results
  <2> QED
    BY <1>1, <2>1, <2>2, ResultIs DEF sub, sbb, cmp
<1>4. and(w, f, d, s) \in Results(w) /\ or(w, f, d, s) \in Results(w) /\ xor(w, f, d, s) \in Results(w)
  <2>1. And(d, s) \in Values(w) /\ Or(d, s) \in Values(w) /\ Xor(d, s) \in Values(w)
    BY LogicType
  <2> QED
    BY <2>1, LogicResult DEF and, or, xor
<1>5. test(w, f, d, s) \in Results(w)
  <2>1. f \ {OF, CF} \in SUBSET FlagBits
    OBVIOUS
  <2>2. SetSZP(f \ {OF, CF}, w, And(d, s)) \in SUBSET FlagBits
    BY <2>1, SZPType
  <2> QED
    BY <1>1, <2>2, ResultIs DEF test
<1>6. Second(w, f, d, s) \in Results(w)
  BY <1>1, ResultIs DEF Second
<1> QED
  BY <1>2, <1>3, <1>4, <1>5, <1>6

LEMMA ArithType ==
  ASSUME NEW w \in Widths, NEW f \in SUBSET FlagBits, NEW d \in Values(w), NEW s \in Values(w), NEW op \in 0..7
  PROVE  Arith(op, w, f, d, s) \in Results(w)
<1>1. /\ add(w, f, d, s) \in Results(w) /\ or(w, f, d, s) \in Results(w)
      /\ adc(w, f, d, s) \in Results(w) /\ sbb(w, f, d, s) \in Results(w)
      /\ and(w, f, d, s) \in Results(w) /\ sub(w, f, d, s) \in Results(w)
      /\ xor(w, f, d, s) \in Results(w) /\ cmp(w, f, d, s) \in Results(w)
  BY BinaryType
<1>2. op \in {0, 1, 2, 3, 4, 5, 6, 7}
  OBVIOUS
<1> QED
  BY <1>1, <1>2 DEF Arith

\* The operations on one.
LEMMA UnaryType ==
  ASSUME NEW w \in Widths, NEW f \in SUBSET FlagBits, NEW d \in Values(w)
  PROVE  /\ inc(w, f, d) \in Results(w) /\ dec(w, f, d) \in Results(w)
         /\ neg(w, f, d) \in Results(w) /\ not(w, f, d) \in Results(w)
<1>1. d \in Int /\ w \in Nat /\ d + 1 \in Int /\ d - 1 \in Int /\ -d \in Int
  BY WidthType, KnownGrow
<1>2. {CF, AF, OF} \subseteq FlagBits
  BY FlagsKnown
<1>3. inc(w, f, d) \in Results(w)
  <2> DEFINE res == Mod(w, d + 1)
             g == SetSZP(f, w, res)
             x == SetChain(g, w, LAMBDA i : Carry(d, 1, res, i))
  <2>1. res \in Values(w)
    BY <1>1, ModType
  <2> HIDE DEF res
  <2>2. g \in SUBSET FlagBits
    BY SZPType
  <2> HIDE DEF g
  <2>3. x \in SUBSET FlagBits
    BY <1>2, <2>2 DEF SetChain, SetIf
  <2>4. inc(w, f, d) = <<res, x>>
    BY DEF inc, res, g
  <2> HIDE DEF x
  <2> QED
    BY <1>1, <2>1, <2>3, <2>4, ResultIs
<1>4. dec(w, f, d) \in Results(w)
  <2> DEFINE res == Mod(w, d - 1)
             g == SetSZP(f, w, res)
             x == SetChain(g, w, LAMBDA i : Borrow(d, 1, res, i))
  <2>1. res \in Values(w)
    BY <1>1, ModType
  <2> HIDE DEF res
  <2>2. g \in SUBSET FlagBits
    BY SZPType
  <2> HIDE DEF g
  <2>3. x \in SUBSET FlagBits
    BY <1>2, <2>2 DEF SetChain, SetIf
  <2>4. dec(w, f, d) = <<res, x>>
    BY DEF dec, res, g
  <2> HIDE DEF x
  <2> QED
    BY <1>1, <2>1, <2>3, <2>4, ResultIs
<1>5. neg(w, f, d) \in Results(w)
  <2> DEFINE res == Mod(w, -d)
             g == SetIf(f, d # 0, CF)
             h == SetSZP(g, w, res)
             x == SetChain(h, w, LAMBDA i : Bit(res, i) \/ Bit(d, i))
  <2>1. res \in Values(w)
    BY <1>1, ModType
  <2> HIDE DEF res
  <2>2. g \in SUBSET FlagBits
    BY <1>2 DEF SetIf
  <2> HIDE DEF g
  <2>3. h \in SUBSET FlagBits
    BY <2>2, SZPType
  <2> HIDE DEF h
  <2>4. x \in SUBSET FlagBits
    BY <1>2, <2>3 DEF SetChain, SetIf
  <2>5. neg(w, f, d) = <<res, x>>
    BY DEF neg, res, g, h
  <2> HIDE DEF x
  <2> QED
    BY <1>1, <2>1, <2>4, <2>5, ResultIs
<1>6. not(w, f, d) \in Results(w)
  <2>1. 2^w \in Nat /\ d \in 0..2^w - 1
    BY <1>1, PowPositive DEF Values
  <2>2. 2^w - 1 - d \in 0..2^w - 1
    BY <2>1
  <2> QED
    BY <1>1, <2>2, ResultIs DEF not, Values
<1> QED
  BY <1>3, <1>4, <1>5, <1>6

(***************************************************************************)
(* Decimal adjustment.                                                     *)
(***************************************************************************)
LEMMA WordAbove ==
  ASSUME NEW x \in Nat, x < 65536
  PROVE  x \in Values(16)
<1>1. ASSUME NEW w, w = 16
      PROVE  x \in Values(w)
  BY <1>1 DEF Values
<1> QED
  BY <1>1

LEMMA DecimalType ==
  ASSUME NEW f \in SUBSET FlagBits, NEW d \in Nat
  PROVE  /\ daa_byte(f, d) \in Results(8) /\ das_byte(f, d) \in Results(8)
         /\ aad_word(f, d) \in Results(16)
         /\ d \in Values(8) => aam_word(f, d) \in Results(16)
         /\ aaa_word(f, d) \in Results(16) /\ aas_word(f, d) \in Results(16)
<1>1. {CF, AF, OF, SF, ZF, PF} \subseteq FlagBits
  BY FlagsKnown
<1>2. 8 \in Widths /\ 16 \in Widths /\ 8 \in Nat /\ 16 \in Nat
  BY DEF Widths
<1>3. daa_byte(f, d) \in Results(8)
  <2> DEFINE low  == d % 16 > 9 \/ AF \in f
             r1   == IF low THEN d + 6 ELSE d
             high == r1 > 159 \/ CF \in f
             res  == Mod(8, IF high THEN r1 + 96 ELSE r1)
             g == f \cup (IF low THEN {AF} ELSE {}) \cup (IF high THEN {CF} ELSE {})
             x == SetSZP(g, 8, res)
  <2>1. r1 \in Int /\ r1 + 96 \in Int
    OBVIOUS
  <2>2. g \in SUBSET FlagBits
    BY <1>1
  <2> HIDE DEF r1, g
  <2>3. (IF high THEN r1 + 96 ELSE r1) \in Int
    BY <2>1
  <2>4. res \in Values(8)
    BY <2>3, ModType
  <2> HIDE DEF res
  <2>5. x \in SUBSET FlagBits
    BY <2>2, SZPType
  <2>6. daa_byte(f, d) = <<res, x>>
    BY DEF daa_byte, r1, res, g
  <2> HIDE DEF x
  <2> QED
    BY <1>2, <2>4, <2>5, <2>6, ResultIs
<1>4. das_byte(f, d) \in Results(8)
  <2> DEFINE low  == d % 16 > 9 \/ AF \in f
             r1   == Mod(8, IF low THEN d - 6 ELSE d)
             high == r1 > 159 \/ CF \in f
             res  == Mod(8, IF high THEN r1 - 96 ELSE r1)
             g == f \cup (IF low THEN {AF} ELSE {}) \cup (IF high THEN {CF} ELSE {})
             x == SetSZP(g, 8, res)
  <2>1. (IF low THEN d - 6 ELSE d) \in Int
    OBVIOUS
  <2>2. r1 \in Int
    BY <2>1, ModType
  <2>3. g \in SUBSET FlagBits
    BY <1>1
  <2> HIDE DEF r1, g
  <2>4. (IF high THEN r1 - 96 ELSE r1) \in Int
    BY <2>2
  <2>5. res \in Values(8)
    BY <2>4, ModType
  <2> HIDE DEF res
  <2>6. x \in SUBSET FlagBits
    BY <2>3, SZPType
  <2>7. das_byte(f, d) = <<res, x>>
    BY DEF das_byte, r1, res, g
  <2> HIDE DEF x
  <2> QED
    BY <1>2, <2>5, <2>6, <2>7, ResultIs
<1>5. ASSUME NEW l \in Values(16)
      PROVE  <<l, SetSZP(f \ {CF, AF, OF}, 8, l)>> \in Results(16)
  <2>1. f \ {CF, AF, OF} \in SUBSET FlagBits
    OBVIOUS
  <2>2. SetSZP(f \ {CF, AF, OF}, 8, l) \in SUBSET FlagBits
    BY <2>1, SZPType
  <2> QED
    BY <1>2, <2>2, ResultIs
<1>6. aad_word(f, d) \in Results(16)
  <2> DEFINE y == Mod(8, d) + 10 * (d \div 256)
             l == Mod(8, y)
  <2>1. Mod(8, d) \in Int
    BY ModType
  <2>2. y \in Int
    <3>1. d \div 256 \in Int
      OBVIOUS
    <3> QED
      BY <2>1, <3>1
  <2> HIDE DEF y
  <2>3. l \in Values(8)
    BY <2>2, ModType
  <2>4. l \in Values(16)
    BY <1>2, <2>3, KnownGrow
  <2>5. aad_word(f, d) = <<l, SetSZP(f \ {CF, AF, OF}, 8, l)>>
    BY DEF aad_word, y
  <2> HIDE DEF l
  <2> QED
    BY <1>5, <2>4, <2>5
<1>7. ASSUME d \in Values(8)
      PROVE  aam_word(f, d) \in Results(16)
  <2> DEFINE l == (d % 10) + 256 * (d \div 10)
  <2>1. Values(8) = 0..255
    BY Values8
  <2>2. l \in Nat /\ l < 65536
    BY <1>7, <2>1
  <2>3. aam_word(f, d) = <<l, SetSZP(f \ {CF, AF, OF}, 8, l)>>
    BY DEF aam_word
  <2> HIDE DEF l
  <2>4. l \in Values(16)
    BY <2>2, WordAbove
  <2> QED
    BY <1>5, <2>3, <2>4
<1>8. ASSUME NEW step \in Int
      PROVE  Unpack(f, d, step) \in Results(16)
  <2> DEFINE adjust == d % 16 > 9 \/ AF \in f
             y == Mod(16, IF adjust THEN d + step ELSE d)
             res == And(y, 65295)
             f1 == IF adjust THEN f \cup {AF, CF} ELSE f \ {AF, CF}
             x == SetIf(SetIf(f1 \ {SF}, res = 0, ZF), PARITY(res), PF)
  <2>1. (IF adjust THEN d + step ELSE d) \in Int
    OBVIOUS
  <2>2. y \in Values(16)
    BY <2>1, ModType
  <2>3. f1 \in SUBSET FlagBits
    BY <1>1
  <2> HIDE DEF y, f1
  <2>4. 65295 \in Values(16)
    BY WordAbove
  <2>5. res \in Values(16)
    BY <1>2, <2>2, <2>4, LogicType
  <2> HIDE DEF res
  <2>6. x \in SUBSET FlagBits
    BY <1>1, <2>3 DEF SetIf
  <2>7. Unpack(f, d, step) = <<res, x>>
    BY DEF Unpack, y, res, f1
  <2> HIDE DEF x
  <2> QED
    BY <1>2, <2>5, <2>6, <2>7, ResultIs
<1>9. aaa_word(f, d) \in Results(16) /\ aas_word(f, d) \in Results(16)
  BY <1>8 DEF aaa_word, aas_word
<1> QED
  BY <1>3, <1>4, <1>6, <1>7, <1>9

(***************************************************************************)
(* Rotations and shifts: two parts of a number that do not overlap.        *)
(***************************************************************************)

\* The upper and the lower part of a number.
LEMMA Split ==
  ASSUME NEW p \in Nat, p > 0, NEW q \in Nat, q > 0, NEW x \in 0..p * q - 1
  PROVE  x \div q \in 0..p - 1 /\ x % q \in 0..q - 1
<1>1. x = q * (x \div q) + (x % q) /\ x % q \in 0..q - 1 /\ x \div q \in Nat
  OBVIOUS
<1> DEFINE h == x \div q
<1>2. h \in Nat /\ q * h <= x
  BY <1>1
<1> HIDE DEF h
<1>3. ~(h >= p)
  <2>1. ASSUME h >= p
        PROVE  FALSE
    <3>1. PICK k \in Nat : h = p + k
      <4>1. h - p \in Nat /\ h = p + (h - p)
        BY <1>2, <2>1
      <4> QED
        BY <4>1
    <3>2. q * (p + k) = p * q + q * k /\ q * k \in Nat
      OBVIOUS
    <3> QED
      BY <1>2, <3>1, <3>2
  <2> QED
    BY <2>1
<1>4. h \in 0..p - 1
  BY <1>2, <1>3
<1> QED
  BY <1>1, <1>4 DEF h

\* A number shifted left by n, below which there are n free bits.
LEMMA ShiftParts ==
  ASSUME NEW w \in Nat, NEW n \in 0..w, NEW d \in Values(w), NEW e \in Values(w)
  PROVE  /\ Shl(w, d, n) \in Nat /\ Shl(w, d, n) <= 2^w - 2^n
         /\ e \div 2^(w - n) \in Nat /\ e \div 2^(w - n) < 2^n
         /\ Shl(w, d, n) + e \div 2^(w - n) \in Values(w)
<1>1. w - n \in Nat /\ n \in Nat /\ (w - n) + n = w
  OBVIOUS
<1>2. 2^w = 2^(w - n) * 2^n
  BY <1>1, PowSum
<1>3. 2^(w - n) \in Nat /\ 2^(w - n) > 0 /\ 2^n \in Nat /\ 2^n > 0
  BY <1>1, PowPositive
<1> DEFINE p == 2^(w - n)
           q == 2^n
<1>4. d \in Nat /\ e \in 0..q * p - 1
  <2>1. q * p = p * q
    BY <1>3
  <2> QED
    BY <1>2, <2>1, ValuesNat DEF Values
<1> HIDE DEF p, q
<1>5. p \in Nat /\ p > 0 /\ q \in Nat /\ q > 0
  BY <1>3 DEF p, q
<1>6. e \div p \in 0..q - 1
  BY <1>4, <1>5, Split
<1>7. d % p \in 0..p - 1
  BY <1>4, <1>5
<1>8. (d % p) * q \in Nat /\ (d % p) * q <= p * q - q
  <2>1. ASSUME NEW x \in 0..p - 1
        PROVE  x * q \in Nat /\ x * q <= p * q - q
    <3>1. PICK k \in Nat : p = x + 1 + k
      <4>1. p - 1 - x \in Nat /\ p = x + 1 + (p - 1 - x)
        BY <1>5
      <4> QED
        BY <4>1
    <3>2. (x + 1 + k) * q = x * q + q + k * q /\ k * q \in Nat /\ x * q \in Nat
      BY <1>5
    <3> QED
      BY <1>5, <3>1, <3>2
  <2> QED
    BY <1>7, <2>1
<1>9. Shl(w, d, n) = (d % p) * q /\ e \div 2^(w - n) = e \div p /\ 2^w = p * q
  BY <1>2 DEF Shl, p, q
<1> DEFINE a == (d % p) * q
           b == e \div p
<1>10. a \in Nat /\ a <= p * q - q /\ b \in Nat /\ b < q /\ p * q \in Nat
  BY <1>5, <1>6, <1>8
<1> HIDE DEF a, b
<1>11. a + b \in 0..p * q - 1
  <2>1. ASSUME NEW z \in Nat, a <= z - q
        PROVE  a + b \in 0..z - 1
    BY <1>5, <1>10, <2>1
  <2> QED
    BY <1>10, <2>1
<1> QED
  BY <1>9, <1>10, <1>11 DEF a, b, q, Values

LEMMA RolType ==
  ASSUME NEW w \in Widths, NEW f \in SUBSET FlagBits, NEW d \in Values(w), NEW s \in Nat
  PROVE  rol(w, f, d, s) \in Results(w) /\ ror(w, f, d, s) \in Results(w)
<1>1. w \in Nat /\ w > 0 /\ CF \in FlagBits /\ OF \in FlagBits
  BY WidthType, FlagsKnown
<1> DEFINE cnt == s % w
<1>2. cnt \in 0..w - 1
  BY <1>1
<1> HIDE DEF cnt
<1>3. rol(w, f, d, s) \in Results(w)
  <2> DEFINE res == IF cnt = 0 THEN d ELSE Shl(w, d, cnt) + d \div 2^(w - cnt)
             g   == IF cnt = 0 THEN f
                    ELSE SetIf(f, s = 1 /\ Bit(res, 0) # Bit(res, w - 1), OF)
             x   == IF s = 0 THEN g ELSE SetIf(g, Bit(res, 0), CF)
  <2>1. res \in Values(w)
    <3>1. cnt \in 0..w
      BY <1>1, <1>2
    <3>2. Shl(w, d, cnt) + d \div 2^(w - cnt) \in Values(w)
      BY <1>1, <3>1, ShiftParts
    <3> QED
      BY <3>2
  <2> HIDE DEF res
  <2>2. g \in SUBSET FlagBits
    BY <1>1 DEF SetIf
  <2> HIDE DEF g
  <2>3. x \in SUBSET FlagBits
    BY <1>1, <2>2 DEF SetIf
  <2>4. rol(w, f, d, s) = <<res, x>>
    BY DEF rol, res, g, cnt
  <2> HIDE DEF x
  <2> QED
    BY <1>1, <2>1, <2>3, <2>4, ResultIs
<1>4. ror(w, f, d, s) \in Results(w)
  <2> DEFINE res == IF cnt = 0 THEN d ELSE Shl(w, d, w - cnt) + d \div 2^cnt
             g   == IF cnt = 0 THEN f
                    ELSE SetIf(f, s = 1 /\ Xor2(res, w - 2), OF)
             x   == IF s = 0 THEN g ELSE SetIf(g, Bit(res, w - 1), CF)
  <2>1. res \in Values(w)
    <3>1. w - cnt \in 0..w /\ w - (w - cnt) = cnt
      BY <1>1, <1>2
    <3>2. Shl(w, d, w - cnt) + d \div 2^(w - (w - cnt)) \in Values(w)
      BY <1>1, <3>1, ShiftParts
    <3> QED
      BY <3>1, <3>2
  <2> HIDE DEF res
  <2>2. g \in SUBSET FlagBits
    BY <1>1 DEF SetIf
  <2> HIDE DEF g
  <2>3. x \in SUBSET FlagBits
    BY <1>1, <2>2 DEF SetIf
  <2>4. ror(w, f, d, s) = <<res, x>>
    BY DEF ror, res, g, cnt
  <2> HIDE DEF x
  <2> QED
    BY <1>1, <2>1, <2>3, <2>4, ResultIs
<1> QED
  BY <1>3, <1>4

LEMMA RclType ==
  ASSUME NEW u, NEW w \in Widths, NEW f \in SUBSET FlagBits, NEW d \in Values(w), NEW s \in Nat
  PROVE  rcl(u, w, f, d, s) \in Results(w)
<1>1. w \in Nat /\ w > 0 /\ CF \in FlagBits /\ OF \in FlagBits
  BY WidthType, FlagsKnown
<1> DEFINE cnt == s % (w + 1)
           low == d \div 2^(w + 1 - cnt)
           sum == Shl(w, d, cnt) + One(f, CF) * 2^(cnt - 1) + low
           res == IF u /\ cnt = LongBits THEN Or(d, sum) ELSE sum
           cf  == Bit(d, w - cnt)
           x   == SetIf(SetIf(f, cf, CF), cnt = 1 /\ cf # Bit(res, w - 1), OF)
<1>2. cnt \in 0..w
  BY <1>1
<1> HIDE DEF cnt
<1>3. CASE cnt = 0
  <2>1. rcl(u, w, f, d, s) = <<d, f>>
    BY <1>3 DEF rcl, cnt
  <2> QED
    BY <1>1, <2>1, ResultIs
<1>4. CASE cnt # 0
  <2>1. cnt - 1 \in Nat /\ (cnt - 1) + 1 = cnt /\ w - (cnt - 1) = w + 1 - cnt /\ cnt - 1 \in 0..w
    BY <1>1, <1>2, <1>4
  <2>2. 2^cnt = 2 * 2^(cnt - 1) /\ 2^(cnt - 1) \in Nat
    BY <2>1, PowNext, PowPositive
  <2>3. low \in Nat /\ low < 2^(cnt - 1)
    BY <1>1, <2>1, ShiftParts
  <2>4. Shl(w, d, cnt) \in Nat /\ Shl(w, d, cnt) <= 2^w - 2^cnt /\ 2^w \in Nat
    BY <1>1, <1>2, ShiftParts, PowPositive
  <2>5. ASSUME NEW h \in Nat, NEW p \in Nat, NEW t \in Nat, NEW l \in Nat, h <= t - 2 * p, l < p,
               NEW c \in {0, 1}
        PROVE  h + c * p + l \in 0..t - 1
    BY <2>5
  <2>6. One(f, CF) \in {0, 1}
    BY DEF One
  <2> HIDE DEF low
  <2>7. Shl(w, d, cnt) <= 2^w - 2 * 2^(cnt - 1)
    BY <2>2, <2>4
  <2>8. sum \in Values(w)
    <3>1. sum \in 0..2^w - 1
      BY <2>2, <2>3, <2>4, <2>5, <2>6, <2>7
    <3> QED
      BY <3>1 DEF Values
  <2> HIDE DEF sum
  <2>9. res \in Values(w)
    BY <2>8, LogicType
  <2> HIDE DEF res
  <2>10. x \in SUBSET FlagBits
    BY <1>1 DEF SetIf
  <2>11. rcl(u, w, f, d, s) = <<res, x>>
    BY <1>4 DEF rcl, res, sum, low, cnt
  <2> HIDE DEF x
  <2> QED
    BY <1>1, <2>9, <2>10, <2>11, ResultIs
<1> QED
  BY <1>3, <1>4

LEMMA RcrType ==
  ASSUME NEW w \in Widths, NEW f \in SUBSET FlagBits, NEW d \in Values(w), NEW s \in Nat
  PROVE  rcr(w, f, d, s) \in Results(w)
<1>1. w \in Nat /\ w > 0 /\ CF \in FlagBits /\ OF \in FlagBits /\ d \in Int
  BY WidthType, FlagsKnown, KnownGrow
<1> DEFINE cnt == s % (w + 1)
           a == d \div 2^cnt
           b == One(f, CF) * 2^(w - cnt)
           c == IF cnt = 1 THEN 0 ELSE (d % 2^(cnt - 1)) * 2^(w + 1 - cnt)
           res == Mod(w, a + b + c)
           g == SetIf(f, Bit(d, cnt - 1), CF)
           x == IF cnt = 1 THEN SetIf(g, (CF \in f) # Bit(d, w - 1), OF) ELSE g
<1>2. cnt \in 0..w
  BY <1>1
<1> HIDE DEF cnt
<1>3. CASE cnt = 0
  <2>1. rcr(w, f, d, s) = <<d, f>>
    BY <1>3 DEF rcr, cnt
  <2> QED
    BY <1>1, <2>1, ResultIs
<1>4. CASE cnt # 0
  <2>1. cnt \in Nat /\ cnt - 1 \in Nat /\ w - cnt \in Nat /\ w + 1 - cnt \in Nat
    BY <1>1, <1>2, <1>4
  <2>2. /\ 2^cnt \in Nat /\ 2^cnt > 0 /\ 2^(w - cnt) \in Nat /\ 2^(w + 1 - cnt) \in Nat
        /\ 2^(cnt - 1) \in Nat /\ 2^(cnt - 1) > 0
    BY <2>1, PowPositive
  <2>3. a \in Int
    BY <1>1, <2>2
  <2>4. b \in Int
    BY <2>2 DEF One
  <2>5. c \in Int
    <3>1. d % 2^(cnt - 1) \in Int
      BY <1>1, <2>2
    <3> QED
      BY <2>2, <3>1
  <2> HIDE DEF a, b, c
  <2>6. a + b + c \in Int
    BY <2>3, <2>4, <2>5
  <2>7. res \in Values(w)
    BY <1>1, <2>6, ModType
  <2> HIDE DEF res
  <2>8. g \in SUBSET FlagBits
    BY <1>1 DEF SetIf
  <2> HIDE DEF g
  <2>9. x \in SUBSET FlagBits
    BY <1>1, <2>8 DEF SetIf
  <2>10. rcr(w, f, d, s) = <<res, x>>
    BY <1>4 DEF rcr, res, a, b, c, g, cnt
  <2> HIDE DEF x
  <2> QED
    BY <1>1, <2>7, <2>9, <2>10, ResultIs
<1> QED
  BY <1>3, <1>4

LEMMA ShiftType ==
  ASSUME NEW u, NEW w \in Widths, NEW f \in SUBSET FlagBits, NEW d \in Values(w),
         NEW fill \in Values(w), NEW s \in Nat
  PROVE  ShiftedLeft(u, w, f, d, fill, s) \in Results(w) /\ ShiftedRight(u, w, f, d, fill, s) \in Results(w)
<1>1. w \in Nat /\ w > 0 /\ {CF, PF, AF, ZF, SF, OF} \subseteq FlagBits /\ 0 \in Values(w)
  BY WidthType, FlagsKnown, KnownGrow
<1>2. f \ {OF} \in SUBSET FlagBits
  OBVIOUS
<1>3. s = 0 \/ s \in 1..w - 1 \/ s >= w
  BY <1>1
<1>4. ShiftedLeft(u, w, f, d, fill, s) \in Results(w)
  <2> DEFINE res   == Shl(w, d, s) + fill \div 2^(w - s)
             h     == SetIf(f, Bit(d, w - s), CF)
             g     == SetSZP(h, w, res)
             x     == SetIf(g, s = 1 /\ Bit(res, w - 1) # (CF \in g), OF)
             y     == SetIf(f \ {OF}, IF s > 32 THEN u ELSE s = w /\ Bit(d, 0), CF)
             z     == SetSZP(y, w, 0)
  <2>1. CASE s = 0
    <3>1. s \notin 1..w - 1 /\ ~(s >= w)
      BY <1>1, <2>1
    <3>2. ShiftedLeft(u, w, f, d, fill, s) = <<d, f \ {OF}>>
      BY <2>1, <3>1 DEF ShiftedLeft
    <3> QED
      BY <1>1, <1>2, <3>2, ResultIs
  <2>2. CASE s \in 1..w - 1
    <3>1. res \in Values(w)
      <4>1. s \in 0..w
        BY <1>1, <2>2
      <4> QED
        BY <1>1, <4>1, ShiftParts
    <3> HIDE DEF res
    <3>2. h \in SUBSET FlagBits
      BY <1>1 DEF SetIf
    <3> HIDE DEF h
    <3>3. g \in SUBSET FlagBits
      BY <3>2, SZPType
    <3> HIDE DEF g
    <3>4. x \in SUBSET FlagBits
      BY <1>1, <3>3 DEF SetIf
    <3>5. s # 0 /\ ~(s >= w)
      BY <1>1, <2>2
    <3>6. ShiftedLeft(u, w, f, d, fill, s) = <<res, x>>
      BY <2>2, <3>5 DEF ShiftedLeft, res, h, g
    <3> HIDE DEF x
    <3> QED
      BY <1>1, <3>1, <3>4, <3>6, ResultIs
  <2>3. CASE s >= w
    <3>1. y \in SUBSET FlagBits
      BY <1>1, <1>2 DEF SetIf
    <3> HIDE DEF y
    <3>2. z \in SUBSET FlagBits
      BY <3>1, SZPType
    <3>3. s # 0 /\ s \notin 1..w - 1
      BY <1>1, <2>3
    <3>4. ShiftedLeft(u, w, f, d, fill, s) = <<0, z>>
      BY <2>3, <3>3 DEF ShiftedLeft, y
    <3> HIDE DEF z
    <3> QED
      BY <1>1, <3>2, <3>4, ResultIs
  <2> QED
    BY <1>3, <2>1, <2>2, <2>3
<1>5. ShiftedRight(u, w, f, d, fill, s) \in Results(w)
  <2> DEFINE res == d \div 2^s + Shl(w, fill, w - s)
             h   == SetIf(f, Bit(d, s - 1), CF)
             g   == SetSZP(h, w, res)
             x   == SetIf(g, s = 1 /\ Xor2(res, w - 2), OF)
  <2>1. CASE s = 0
    <3>1. s \notin 1..w - 1 /\ ~(s >= w)
      BY <1>1, <2>1
    <3>2. ShiftedRight(u, w, f, d, fill, s) = <<d, f \ {OF}>>
      BY <2>1, <3>1 DEF ShiftedRight
    <3> QED
      BY <1>1, <1>2, <3>2, ResultIs
  <2>2. CASE s \in 1..w - 1
    <3>1. res \in Values(w)
      <4>1. w - s \in 0..w /\ w - (w - s) = s
        BY <1>1, <2>2
      <4>2. /\ Shl(w, fill, w - s) + d \div 2^(w - (w - s)) \in Values(w)
            /\ Shl(w, fill, w - s) \in Nat /\ d \div 2^(w - (w - s)) \in Nat
        BY <1>1, <4>1, ShiftParts
      <4>3. ASSUME NEW a \in Nat, NEW b \in Nat
            PROVE  a + b = b + a
        OBVIOUS
      <4>4. Shl(w, fill, w - s) + d \div 2^s \in Values(w) /\ Shl(w, fill, w - s) \in Nat /\ d \div 2^s \in Nat
        BY <4>1, <4>2
      <4> QED
        BY <4>3, <4>4
    <3> HIDE DEF res
    <3>2. h \in SUBSET FlagBits
      BY <1>1 DEF SetIf
    <3> HIDE DEF h
    <3>3. g \in SUBSET FlagBits
      BY <3>2, SZPType
    <3> HIDE DEF g
    <3>4. x \in SUBSET FlagBits
      BY <1>1, <3>3 DEF SetIf
    <3>5. s # 0 /\ ~(s >= w)
      BY <1>1, <2>2
    <3>6. ShiftedRight(u, w, f, d, fill, s) = <<res, x>>
      BY <2>2, <3>5 DEF ShiftedRight, res, h, g
    <3> HIDE DEF x
    <3> QED
      BY <1>1, <3>1, <3>4, <3>6, ResultIs
  <2>3. CASE s >= w
    <3>1. s # 0 /\ s \notin 1..w - 1
      BY <1>1, <2>3
    <3>2. ShiftedRight(u, w, f, d, fill, s) = ShiftedOut(u, w, f, d, s)
      BY <2>3, <3>1 DEF ShiftedRight
    <3>3. CASE w = 8
      <4> DEFINE y == SetIf(f \ {OF}, IF s > 32 THEN u ELSE s = 8 /\ Bit(d, 7), CF)
                 z == SetSZP(y, w, 0)
      <4>1. y \in SUBSET FlagBits
        BY <1>1, <1>2 DEF SetIf
      <4> HIDE DEF y
      <4>2. z \in SUBSET FlagBits
        BY <4>1, SZPType
      <4>3. ShiftedOut(u, w, f, d, s) = <<0, z>>
        BY <3>3 DEF ShiftedOut, y
      <4> HIDE DEF z
      <4> QED
        BY <1>1, <3>2, <4>2, <4>3, ResultIs
    <3>4. CASE w # 8
      <4>1. (f \ {CF, OF, SF, PF}) \cup {ZF} \in SUBSET FlagBits
        BY <1>1
      <4>2. ShiftedOut(u, w, f, d, s) = <<0, (f \ {CF, OF, SF, PF}) \cup {ZF}>>
        BY <3>4 DEF ShiftedOut
      <4> QED
        BY <1>1, <3>2, <4>1, <4>2, ResultIs
    <3> QED
      BY <3>3, <3>4
  <2> QED
    BY <1>3, <2>1, <2>2, <2>3
<1> QED
  BY <1>4, <1>5

LEMMA SarType ==
  ASSUME NEW w \in Widths, NEW f \in SUBSET FlagBits, NEW d \in Values(w), NEW s \in Nat
  PROVE  sar(w, f, d, s) \in Results(w)
<1>1. w \in Nat /\ w > 0 /\ CF \in FlagBits
  BY WidthType, FlagsKnown
<1> DEFINE cnt == s % w
           low == d \div 2^cnt
           res == low + (IF Bit(d, w - 1) THEN 2^w - 2^(w - cnt) ELSE 0)
           g == SetIf(f, Bit(d, cnt - 1), CF)
           x == SetSZP(g, w, res)
<1>2. cnt \in 0..w - 1
  BY <1>1
<1> HIDE DEF cnt
<1>3. CASE cnt = 0
  <2>1. sar(w, f, d, s) = <<d, f>>
    BY <1>3 DEF sar, cnt
  <2> QED
    BY <1>1, <2>1, ResultIs
<1>4. CASE cnt # 0
  <2>1. w - cnt \in 0..w /\ w - (w - cnt) = cnt /\ w - cnt <= w /\ w - cnt \in Nat
    BY <1>1, <1>2
  <2>2. low \in Nat /\ low < 2^(w - cnt)
    <3>1. d \div 2^(w - (w - cnt)) \in Nat /\ d \div 2^(w - (w - cnt)) < 2^(w - cnt)
      BY <1>1, <2>1, ShiftParts
    <3> QED
      BY <2>1, <3>1
  <2>3. 2^w \in Nat /\ 2^(w - cnt) \in Nat /\ 2^(w - cnt) <= 2^w
    BY <1>1, <2>1, PowPositive, PowGrows
  <2> HIDE DEF low
  <2>4. res \in 0..2^w - 1
    BY <2>2, <2>3
  <2> HIDE DEF res
  <2>5. g \in SUBSET FlagBits
    BY <1>1 DEF SetIf
  <2> HIDE DEF g
  <2>6. x \in SUBSET FlagBits
    BY <2>5, SZPType
  <2>7. sar(w, f, d, s) = <<res, x>>
    BY <1>4 DEF sar, res, low, g, cnt
  <2> HIDE DEF x
  <2> QED
    BY <1>1, <2>4, <2>6, <2>7, ResultIs DEF Values
<1> QED
  BY <1>3, <1>4

LEMMA RotateType ==
  ASSUME NEW u, NEW op \in 0..7, NEW w \in Widths, NEW f \in SUBSET FlagBits, NEW d \in Values(w), NEW s \in Nat
  PROVE  Rotate(u, op, w, f, d, s) \in Results(w)
<1>1. rol(w, f, d, s) \in Results(w) /\ ror(w, f, d, s) \in Results(w)
  BY RolType
<1>2. rcl(u, w, f, d, s) \in Results(w) /\ rcr(w, f, d, s) \in Results(w) /\ sar(w, f, d, s) \in Results(w)
  BY RclType, RcrType, SarType
<1>3. shl(u, w, f, d, s) \in Results(w) /\ shr(u, w, f, d, s) \in Results(w)
  <2>1. 0 \in Values(w)
    BY KnownGrow
  <2> QED
    BY <2>1, ShiftType DEF shl, shr
<1>4. op \in {0, 1, 2, 3, 4, 5, 6, 7}
  OBVIOUS
<1> QED
  BY <1>1, <1>2, <1>3, <1>4 DEF Rotate

(***************************************************************************)
(* Numbers of two registers.                                               *)
(***************************************************************************)
Pairs(w) == Values(w) \X Values(w)

LEMMA NegateType ==
  ASSUME NEW w \in Widths, NEW p \in Pairs(w), NEW x \in Values(w)
  PROVE  /\ Negate(w, p) \in Pairs(w) /\ Magnitude(w, x) \in Values(w)
         /\ x # 0 => Magnitude(w, x) # 0
<1>1. w \in Nat /\ w - 1 \in Nat /\ 2^w \in Nat /\ 2^w > 0 /\ 0 \in Values(w)
  BY WidthType, PowPositive, KnownGrow
<1>2. p[1] \in 0..2^w - 1 /\ p[2] \in 0..2^w - 1 /\ x \in 0..2^w - 1
  BY DEF Pairs, Values
<1>3. Negate(w, p) \in Pairs(w)
  <2>1. Mod(w, -p[1]) \in Values(w)
    <3>1. -p[1] \in Int
      BY <1>1, <1>2
    <3> QED
      BY <1>1, <3>1, ModType
  <2>2. CASE p[2] = 0
    BY <1>1, <2>1, <2>2 DEF Negate, Pairs
  <2>3. CASE p[2] # 0
    <3>1. 2^w - 1 - p[1] \in 0..2^w - 1 /\ 2^w - p[2] \in 0..2^w - 1
      BY <1>1, <1>2, <2>3
    <3> QED
      BY <2>3, <3>1 DEF Negate, Pairs, Values
  <2> QED
    BY <2>2, <2>3
<1>4. Magnitude(w, x) \in Values(w) /\ (x # 0 => Magnitude(w, x) # 0)
  <2>1. CASE x = 0
    <3>1. 2^(w - 1) \in Nat /\ 2^(w - 1) > 0
      BY <1>1, PowPositive
    <3>2. ~Bit(x, w - 1)
      BY <2>1, <3>1 DEF Bit
    <3> QED
      BY <2>1, <3>2 DEF Magnitude
  <2>2. CASE x # 0
    <3>1. 2^w - x \in 0..2^w - 1 /\ 2^w - x # 0
      BY <1>1, <1>2, <2>2
    <3> QED
      BY <2>2, <3>1 DEF Magnitude, Values
  <2> QED
    BY <2>1, <2>2
<1> QED
  BY <1>3, <1>4

LEMMA ProductType ==
  ASSUME NEW w \in Widths, NEW a \in Values(w), NEW b
  PROVE  Product(w, a, b) \in Pairs(w)
<1> DEFINE Lo(p, i) == 2 * p[2] + (IF Bit(b, w - i) THEN a ELSE 0)
           Next_(p, i) == <<Mod(w, 2 * p[1] + Lo(p, i) \div 2^w), Mod(w, Lo(p, i))>>
           start == <<0, 0>>
           after[i \in 0..w] == IF i = 0 THEN start ELSE Next_(after[i - 1], i)
           step == [i \in 1..w |-> [x \in Pairs(w) |-> Next_(x, i)]]
<1>1. Product(w, a, b) = after[w]
  BY DEF Product, Iterate
<1>2. w \in Nat /\ 2^w \in Nat /\ 2^w > 0 /\ 0 \in Values(w) /\ a \in Int
  BY WidthType, PowPositive, KnownGrow
<1>3. ASSUME NEW x \in Pairs(w), NEW i
      PROVE  Next_(x, i) \in Pairs(w)
  <2>1. x[1] \in Int /\ x[2] \in Int
    BY <1>2, ValuesNat DEF Pairs
  <2>2. Lo(x, i) \in Int
    BY <1>2, <2>1
  <2> HIDE DEF Lo
  <2>3. 2 * x[1] + Lo(x, i) \div 2^w \in Int
    <3>1. Lo(x, i) \div 2^w \in Int
      BY <1>2, <2>2
    <3> QED
      BY <2>1, <3>1
  <2>4. Mod(w, 2 * x[1] + Lo(x, i) \div 2^w) \in Values(w) /\ Mod(w, Lo(x, i)) \in Values(w)
    BY <1>2, <2>2, <2>3, ModType
  <2> QED
    BY <2>4 DEF Pairs
<1> HIDE DEF Next_, Lo
<1>4. step \in [1..w -> [Pairs(w) -> Pairs(w)]] /\ \A i \in 1..w : \A x \in Pairs(w) : step[i][x] = Next_(x, i)
  BY <1>3
<1> HIDE DEF step
<1>5. start \in Pairs(w)
  BY <1>2 DEF Pairs
<1> HIDE DEF start
<1>6. PICK f : IterateOf(f, w, Pairs(w), start, step)
  BY <1>2, <1>4, <1>5, Recursion
<1>7. f \in [0..w -> Pairs(w)] /\ f[0] = start /\ \A i \in 1..w : f[i] = Next_(f[i - 1], i)
  BY <1>2, <1>4, <1>6 DEF IterateOf
<1>8. f = [i \in 0..w |-> IF i = 0 THEN start ELSE Next_(f[i - 1], i)]
  BY <1>2, <1>7
<1>9. after = [i \in 0..w |-> IF i = 0 THEN start ELSE Next_(after[i - 1], i)]
  BY <1>8
<1> HIDE DEF after
<1>10. after[0] \in Pairs(w)
  BY <1>2, <1>5, <1>9
<1>11. ASSUME NEW i \in 1..w, after[i - 1] \in Pairs(w)
       PROVE  after[i] \in Pairs(w)
  <2>1. i \in 0..w /\ i # 0
    BY <1>2
  <2> QED
    BY <1>3, <1>9, <1>11, <2>1
<1>12. after[w] \in Pairs(w)
  BY <1>2, <1>10, <1>11, KeptByStepsIn
<1> QED
  BY <1>1, <1>12

LEMMA SignedProductType ==
  ASSUME NEW w \in Widths, NEW a \in Values(w), NEW b \in Values(w)
  PROVE  SignedProduct(w, a, b) \in Pairs(w)
<1> DEFINE p == Product(w, Magnitude(w, a), Magnitude(w, b))
<1>1. <<a, b>> \in Pairs(w)
  BY DEF Pairs
<1>2. Magnitude(w, a) \in Values(w)
  BY <1>1, NegateType
<1>3. p \in Pairs(w)
  BY <1>2, ProductType
<1>4. SignedProduct(w, a, b) = IF Bit(a, w - 1) # Bit(b, w - 1) THEN Negate(w, p) ELSE p
  BY DEF SignedProduct
<1> HIDE DEF p
<1>5. Negate(w, p) \in Pairs(w)
  BY <1>3, NegateType
<1> QED
  BY <1>3, <1>4, <1>5

LEMMA ImulDirectType ==
  ASSUME NEW a \in Values(LongBits), NEW b \in Values(LongBits)
  PROVE  imul_long_direct(a, b) \in Pairs(LongBits)
<1>1. LongBits \in Widths
  BY DEF Widths
<1> DEFINE lo == SignedProduct(LongBits, a, b)[2]
<1>2. lo \in Values(LongBits)
  BY <1>1, SignedProductType DEF Pairs
<1>3. 2^LongBits - 1 \in Values(LongBits) /\ 0 \in Values(LongBits)
  BY WidthAssumption, PowPositive DEF Values
<1>4. imul_long_direct(a, b) = <<IF Bit(lo, LongBits - 1) THEN 2^LongBits - 1 ELSE 0, lo>>
  BY DEF imul_long_direct
<1> HIDE DEF lo
<1> QED
  BY <1>2, <1>3, <1>4 DEF Pairs

LEMMA WideType ==
  ASSUME NEW m \in Machines, NEW w \in Widths
  PROVE  Wide(m, w) \in Pairs(w)
<1>1. {AH, AL, DX, AX} \subseteq 0..7
  BY DEF AH, AL, DX, AX
<1>2. CASE w = 8
  <2>1. Reg8(m, AH) \in Values(8) /\ Reg8(m, AL) \in Values(8)
    BY <1>1, RegType
  <2> QED
    BY <1>2, <2>1 DEF Wide, Pairs
<1>3. CASE w # 8
  <2>1. Reg(m, w, DX) \in Values(w) /\ Reg(m, w, AX) \in Values(w)
    BY <1>1, RegType
  <2> QED
    BY <1>3, <2>1 DEF Wide, Pairs
<1> QED
  BY <1>2, <1>3

LEMMA SetWideType ==
  ASSUME NEW K, NEW W, DataClosed(K, W), NEW m \in K, NEW w \in W, NEW p \in Pairs(w), NEW f \in SUBSET FlagBits
  PROVE  SetWide(m, w, p) \in K /\ [SetWide(m, w, p) EXCEPT !.f = f] \in K
<1>1. {AH, AL, DX, AX} \subseteq 0..7
  BY DEF AH, AL, DX, AX
<1>2. p[1] \in Values(w) /\ p[2] \in Values(w)
  BY DEF Pairs
<1>3. SetReg(m, w, AX, p[2]) \in K
  BY <1>1, <1>2 DEF DataClosed
<1>4. SetWide(m, w, p) \in K
  BY <1>1, <1>2, <1>3 DEF SetWide, DataClosed
<1> DEFINE n == SetWide(m, w, p)
<1> HIDE DEF n
<1>5. n \in K
  BY <1>4 DEF n
<1>6. Flags(n, f) \in K
  BY <1>5 DEF DataClosed
<1> QED
  BY <1>4, <1>6 DEF Flags, n

LEMMA CFOFType ==
  ASSUME NEW f \in SUBSET FlagBits, NEW c
  PROVE  SetCFOF(f, c) \in SUBSET FlagBits
<1>1. CF \in FlagBits /\ OF \in FlagBits
  BY FlagsKnown
<1> QED
  BY <1>1 DEF SetCFOF, SetIf

\* The flags of what was made of a machine are flags.
LEMMA MachineFlags ==
  ASSUME NEW K, FetchClosed(K), NEW m \in K
  PROVE  m.f \in SUBSET FlagBits
BY MachineType DEF FetchClosed

LEMMA MulType ==
  ASSUME NEW K, NEW W, DataClosed(K, W), NEW m \in K, NEW w \in W, NEW s \in Values(w)
  PROVE  mul(m, w, s) \in K /\ imul(m, w, s) \in K
<1>1. w \in Widths /\ FetchClosed(K) /\ m \in Machines /\ AX \in 0..7
  BY DEF DataClosed, FetchClosed, AX
<1>2. Reg(m, w, AX) \in Values(w) /\ 0 \in Values(w)
  BY <1>1, RegType, KnownGrow
<1>3. ASSUME NEW p \in Pairs(w), NEW c
      PROVE  [SetWide(m, w, p) EXCEPT !.f = SetCFOF(@, c)] \in K
  <2> DEFINE n == SetWide(m, w, p)
  <2>1. {} \in SUBSET FlagBits
    OBVIOUS
  <2>2. n \in K
    BY <2>1, SetWideType
  <2> HIDE DEF n
  <2>3. SetCFOF(n.f, c) \in SUBSET FlagBits
    BY <1>1, <2>2, MachineFlags, CFOFType
  <2>4. Flags(n, SetCFOF(n.f, c)) \in K
    BY <2>2, <2>3 DEF DataClosed
  <2> QED
    BY <2>4 DEF Flags, n
<1>4. mul(m, w, s) \in K
  <2> DEFINE full == Product(w, Reg(m, w, AX), s)
             p    == IF w = LongBits THEN <<0, full[2]>> ELSE full
  <2>1. full \in Pairs(w)
    BY <1>1, <1>2, ProductType
  <2>2. p \in Pairs(w)
    <3> HIDE DEF full
    <3> QED
      BY <1>2, <2>1 DEF Pairs
  <2>3. mul(m, w, s) = [SetWide(m, w, p) EXCEPT !.f = SetCFOF(@, p[1] # 0)]
    BY DEF mul
  <2> HIDE DEF p
  <2> QED
    BY <1>3, <2>2, <2>3
<1>5. imul(m, w, s) \in K
  <2> DEFINE p   == IF w = LongBits THEN imul_long_direct(Reg(m, w, AX), s)
                                    ELSE SignedProduct(w, Reg(m, w, AX), s)
             fit == p[1] = (IF Bit(p[2], w - 1) THEN 255 ELSE 0)
  <2>1. p \in Pairs(w)
    <3>1. SignedProduct(w, Reg(m, w, AX), s) \in Pairs(w)
      BY <1>1, <1>2, SignedProductType
    <3>2. w = LongBits => imul_long_direct(Reg(m, w, AX), s) \in Pairs(w)
      BY <1>2, ImulDirectType
    <3> QED
      BY <3>1, <3>2
  <2>2. imul(m, w, s) = [SetWide(m, w, p) EXCEPT !.f = SetCFOF(@, ~fit)]
    BY DEF imul
  <2> HIDE DEF p
  <2> QED
    BY <1>3, <2>1, <2>2
<1> QED
  BY <1>4, <1>5

\* The quotient of the lower register and the remainder fit, whatever the quotient of
\* the upper one is.
LEMMA QuotientType ==
  ASSUME NEW w \in Widths, NEW p \in Pairs(w), NEW s \in Values(w), s # 0
  PROVE  Quotient(w, p, s)[1][2] \in Values(w) /\ Quotient(w, p, s)[2] \in Values(w)
<1> DEFINE T(a, i) == 2 * a[2] + (IF Bit(p[2], w - i) THEN 1 ELSE 0)
           Next_(a, i) == <<2 * a[1] + T(a, i) \div s, T(a, i) % s>>
           start == <<0, p[1] % s>>
           X == Nat \X (0..s - 1)
           after[i \in 0..w] == IF i = 0 THEN start ELSE Next_(after[i - 1], i)
           step == [i \in 1..w |-> [x \in X |-> Next_(x, i)]]
<1>1. w \in Nat /\ p[1] \in Nat /\ s \in Nat /\ s > 0
  BY WidthType, KnownGrow DEF Pairs
<1>2. Quotient(w, p, s)[1][2] = after[w][1] /\ Quotient(w, p, s)[2] = after[w][2]
  BY DEF Quotient, Iterate
<1>3. ASSUME NEW x \in X, NEW i
      PROVE  /\ Next_(x, i)[1] \in {2 * x[1], 2 * x[1] + 1}
             /\ Next_(x, i)[2] \in 0..s - 1
             /\ Next_(x, i) \in X
  <2>1. x[1] \in Nat /\ x[2] \in 0..s - 1
    OBVIOUS
  <2>2. T(x, i) \in Nat /\ T(x, i) < 2 * s
    BY <1>1, <2>1
  <2> DEFINE t == T(x, i)
  <2>3. t \in 0..2 * s - 1
    BY <1>1, <2>2
  <2> HIDE DEF t, T
  <2>4. t \div s \in 0..1 /\ t % s \in 0..s - 1
    BY <1>1, <2>3, Split
  <2>5. Next_(x, i) = <<2 * x[1] + t \div s, t % s>>
    BY DEF t
  <2> QED
    BY <2>1, <2>4, <2>5
<1> HIDE DEF Next_, T
<1>4. start \in X
  BY <1>1
<1> HIDE DEF X
<1>5. step \in [1..w -> [X -> X]] /\ \A i \in 1..w : \A x \in X : step[i][x] = Next_(x, i)
  BY <1>3
<1> HIDE DEF step, start
<1>6. PICK f : IterateOf(f, w, X, start, step)
  BY <1>1, <1>4, <1>5, Recursion
<1>7. f \in [0..w -> X] /\ f[0] = start /\ \A i \in 1..w : f[i] = Next_(f[i - 1], i)
  BY <1>1, <1>5, <1>6 DEF IterateOf
<1>8. f = [i \in 0..w |-> IF i = 0 THEN start ELSE Next_(f[i - 1], i)]
  BY <1>1, <1>7
<1>9. after = [i \in 0..w |-> IF i = 0 THEN start ELSE Next_(after[i - 1], i)]
  BY <1>8
<1> HIDE DEF after
<1> DEFINE Y == [i \in 0..w |-> {x \in X : x[1] < 2^i}]
<1>10. after[0] \in Y[0]
  <2>1. after[0] = start /\ Y[0] = {x \in X : x[1] < 2^0} /\ 2^0 = 1
    BY <1>1, <1>9
  <2>2. start[1] = 0
    BY DEF start
  <2> QED
    BY <1>4, <2>1, <2>2
<1>11. ASSUME NEW i \in 1..w, after[i - 1] \in Y[i - 1]
       PROVE  after[i] \in Y[i]
  <2>1. i \in 0..w /\ i # 0 /\ i - 1 \in 0..w /\ i - 1 \in Nat /\ (i - 1) + 1 = i
    BY <1>1
  <2>2. after[i] = Next_(after[i - 1], i)
    BY <1>9, <2>1
  <2>3. after[i - 1] \in X /\ after[i - 1][1] < 2^(i - 1)
    BY <1>11, <2>1
  <2>4. /\ Next_(after[i - 1], i)[1] \in {2 * after[i - 1][1], 2 * after[i - 1][1] + 1}
        /\ Next_(after[i - 1], i) \in X /\ after[i - 1][1] \in Nat
    BY <1>3, <2>3 DEF X
  <2>5. 2^i = 2 * 2^(i - 1) /\ 2^(i - 1) \in Nat
    BY <2>1, PowNext, PowPositive
  <2>6. Next_(after[i - 1], i)[1] < 2^i
    BY <2>3, <2>4, <2>5
  <2> QED
    BY <2>1, <2>2, <2>4, <2>6
<1> HIDE DEF Y
<1>12. \A i \in 0..w : after[i] \in Y[i]
  BY <1>1, <1>10, <1>11, KeptBySteps
<1>13. after[w] \in X /\ after[w][1] < 2^w
  BY <1>1, <1>12 DEF Y
<1>14. after[w][1] \in Values(w)
  BY <1>1, <1>13, PowPositive DEF X, Values
<1>15. after[w][2] \in Values(w)
  <2>1. after[w][2] \in 0..s - 1 /\ s \in 0..2^w - 1 /\ 2^w \in Nat
    BY <1>1, <1>13, PowPositive DEF X, Values
  <2>2. after[w][2] \in 0..2^w - 1
    BY <1>1, <2>1
  <2> QED
    BY <2>2 DEF Values
<1> QED
  BY <1>2, <1>14, <1>15

LEMMA DivideFlagsType ==
  ASSUME NEW f \in SUBSET FlagBits, NEW w \in Widths, NEW zero, NEW mod
  PROVE  DivideFlags(f, w, zero, mod) \in SUBSET FlagBits
<1>1. {CF, PF, AF, ZF, SF} \subseteq FlagBits
  BY FlagsKnown
<1>2. LongBits # 8 /\ LongBits # 16
  BY WidthAssumption
<1>3. CASE w = 8
  BY <1>2, <1>3 DEF DivideFlags
<1>4. CASE w = 16
  BY <1>1, <1>2, <1>4 DEF DivideFlags, SetIf
<1>5. CASE w = LongBits
  BY <1>1, <1>2, <1>5 DEF DivideFlags, SetIf
<1> QED
  BY <1>3, <1>4, <1>5 DEF Widths

\* A division is made, or it raises its interrupt and does nothing else.
LEMMA DivType ==
  ASSUME NEW K, NEW W, DataClosed(K, W), NEW m \in K, NEW w \in W, NEW s \in Values(w)
  PROVE  /\ div(m, w, s) \in K \/ div(m, w, s) = x86emu_intr_raise(m, 0)
         /\ idiv(m, w, s) \in K \/ idiv(m, w, s) = x86emu_intr_raise(m, 0)
<1>1. w \in Widths /\ w \in Nat /\ FetchClosed(K) /\ m \in Machines /\ Crash(m) \in K
  BY WidthType DEF DataClosed, FetchClosed
<1>2. Wide(m, w) \in Pairs(w)
  BY <1>1, WideType
<1>3. ASSUME NEW p \in Pairs(w), NEW zero, NEW mod
      PROVE  [SetWide(m, w, p) EXCEPT !.f = DivideFlags(@, w, zero, mod)] \in K
  <2> DEFINE n == SetWide(m, w, p)
  <2>1. {} \in SUBSET FlagBits
    OBVIOUS
  <2>2. n \in K
    BY <2>1, SetWideType
  <2> HIDE DEF n
  <2>3. DivideFlags(n.f, w, zero, mod) \in SUBSET FlagBits
    BY <1>1, <2>2, MachineFlags, DivideFlagsType
  <2>4. Flags(n, DivideFlags(n.f, w, zero, mod)) \in K
    BY <2>2, <2>3 DEF DataClosed
  <2> QED
    BY <2>4 DEF Flags, n
<1>4. div(m, w, s) \in K \/ div(m, w, s) = x86emu_intr_raise(m, 0)
  <2>1. CASE s = 0
    BY <2>1 DEF div
  <2>2. CASE s # 0
    <3> DEFINE d == Quotient(w, Wide(m, w), s)
    <3>1. d[1][2] \in Values(w) /\ d[2] \in Values(w)
      BY <1>1, <1>2, <2>2, QuotientType
    <3>2. \/ div(m, w, s) = x86emu_intr_raise(m, 0)
          \/ div(m, w, s) = [SetWide(m, w, <<d[2], d[1][2]>>) EXCEPT
                               !.f = DivideFlags(@, w, d[1] = <<0, 0>>, d[2])]
      BY DEF div
    <3> HIDE DEF d
    <3>3. <<d[2], d[1][2]>> \in Pairs(w)
      BY <3>1 DEF Pairs
    <3>4. [SetWide(m, w, <<d[2], d[1][2]>>) EXCEPT
             !.f = DivideFlags(@, w, d[1] = <<0, 0>>, d[2])] \in K
      BY <1>3, <3>3
    <3> QED
      BY <3>2, <3>4
  <2> QED
    BY <2>1, <2>2
<1>5. idiv(m, w, s) \in K \/ idiv(m, w, s) = x86emu_intr_raise(m, 0)
  <2>1. CASE s = 0
    BY <2>1 DEF idiv
  <2>2. CASE s # 0
    <3> DEFINE dvd  == Wide(m, w)
               neg_ == Bit(dvd[1], w - 1)
               n    == IF neg_ THEN Negate(w, dvd) ELSE dvd
               d    == Quotient(w, n, Magnitude(w, s))
               q    == IF neg_ # Bit(s, w - 1) THEN Mod(w, -d[1][2]) ELSE d[1][2]
               mod  == IF neg_ THEN Mod(w, -d[2]) ELSE d[2]
    <3>1. Magnitude(w, s) \in Values(w) /\ Magnitude(w, s) # 0 /\ Negate(w, dvd) \in Pairs(w)
      BY <1>1, <1>2, <2>2, NegateType
    <3>2. n \in Pairs(w)
      BY <1>2, <3>1
    <3> HIDE DEF n
    <3>3. d[1][2] \in Values(w) /\ d[2] \in Values(w)
      BY <1>1, <3>1, <3>2, QuotientType
    <3>4. \/ idiv(m, w, s) = x86emu_intr_raise(m, 0)
          \/ idiv(m, w, s) = Crash(m)
          \/ idiv(m, w, s) = [SetWide(m, w, <<mod, q>>) EXCEPT
                                !.f = DivideFlags(@, w, d[1] = <<0, 0>>, mod)]
      BY DEF idiv, n
    <3> HIDE DEF d
    <3>5. ASSUME NEW x \in Values(w)
          PROVE  Mod(w, -x) \in Values(w)
      <4>1. -x \in Int
        BY <1>1, ValuesNat
      <4> QED
        BY <1>1, <4>1, ModType
    <3>6. q \in Values(w) /\ mod \in Values(w)
      BY <3>3, <3>5
    <3> HIDE DEF q, mod
    <3>7. <<mod, q>> \in Pairs(w)
      BY <3>6 DEF Pairs
    <3>8. [SetWide(m, w, <<mod, q>>) EXCEPT !.f = DivideFlags(@, w, d[1] = <<0, 0>>, mod)] \in K
      BY <1>3, <3>7
    <3> QED
      BY <1>1, <3>4, <3>8
  <2> QED
    BY <2>1, <2>2
<1> QED
  BY <1>4, <1>5

(***************************************************************************)
(* The shapes of the instructions that compute.                            *)
(***************************************************************************)
LEMMA FlagsResultType ==
  ASSUME NEW K, NEW W, Closed(K, W), NEW o, o.m \in K, NEW x, x[2] \in SUBSET FlagBits
  PROVE  Flags(o.m, x[2]) \in K /\ FlagsResult(o, x) \in Ended(K)
<1>1. Flags(o.m, x[2]) \in K
  BY ClosedSteps
<1> QED
  BY <1>1, ClosedSteps DEF FlagsResult

LEMMA RegResultType ==
  ASSUME NEW K, NEW W, Closed(K, W), NEW w \in W, NEW o, o.m \in K, NEW rh \in 0..7, NEW x \in Results(w)
  PROVE  RegResult(w, o, rh, x) \in Ended(K)
<1>1. x[1] \in Values(w) /\ x[2] \in SUBSET FlagBits
  BY DEF Results
<1>2. Flags(o.m, x[2]) \in K
  BY <1>1, FlagsResultType
<1> DEFINE n == Flags(o.m, x[2])
           v == x[1]
<1>3. n \in K /\ v \in Values(w)
  BY <1>1, <1>2
<1>4. RegResult(w, o, rh, x) = Done(SetReg(n, w, rh, v))
  BY DEF RegResult
<1> HIDE DEF n, v
<1>5. SetReg(n, w, rh, v) \in K
  BY <1>3, ClosedSteps
<1> QED
  BY <1>4, <1>5, ClosedSteps

LEMMA StoreResultType ==
  ASSUME NEW K, NEW W, Closed(K, W), NEW w \in W, NEW o, o.m \in K, o.mem \in BOOLEAN,
         o.at \in Values(LongBits), ~o.mem => o.at \in 0..7, NEW x \in Results(w)
  PROVE  StoreResult(w, o, x) \in Ended(K)
<1>1. x[1] \in Values(w) /\ x[2] \in SUBSET FlagBits
  BY DEF Results
<1>2. Flags(o.m, x[2]) \in K
  BY <1>1, FlagsResultType
<1>3. Store(Flags(o.m, x[2]), w, o, x[1]) \in K
  BY <1>1, <1>2, StoreType, ClosedUnder
<1> QED
  BY <1>3, ClosedSteps DEF StoreResult

\* An operand that was loaded, with the register beside it.
LEMMA LoadedWithReg ==
  ASSUME NEW K, NEW W, Closed(K, W), NEW m \in K, NEW w \in W, NEW o, o = Loaded(w, Decode(m))
  PROVE  /\ o \in LoadedOperands(K, w) /\ w \in Widths
         /\ o.m \in K /\ o.m.f \in SUBSET FlagBits /\ o.rh \in 0..7 /\ o.mem \in BOOLEAN
         /\ o.at \in Values(LongBits) /\ (~o.mem => o.at \in 0..7) /\ o.v \in Values(w)
         /\ Reg(o.m, w, o.rh) \in Values(w)
<1>1. w \in Widths /\ FetchClosed(K) /\ K \subseteq Machines
  BY ClosedUnder
<1>2. o \in LoadedOperands(K, w)
  BY <1>1, LoadDecoded
<1>3. /\ o.m \in K /\ o.rh \in 0..7 /\ o.mem \in BOOLEAN /\ o.at \in Values(LongBits)
      /\ (~o.mem => o.at \in 0..7) /\ o.v \in Values(w)
  BY <1>1, <1>2, LoadedHas
<1>4. o.m.f \in SUBSET FlagBits /\ Reg(o.m, w, o.rh) \in Values(w)
  BY <1>1, <1>3, MachineFlags, RegType
<1> QED
  BY <1>1, <1>2, <1>3, <1>4

LEMMA FetchedImm ==
  ASSUME NEW K, NEW W, Closed(K, W), NEW m \in K, NEW w \in W, NEW i, i = fetch_imm(m, w)
  PROVE  /\ i \in Read(K, w) /\ w \in Widths /\ i.m \in K /\ i.m \in Machines /\ i.m.f \in SUBSET FlagBits
         /\ i.v \in Values(w) /\ i.v \in Nat /\ Reg(i.m, w, AX) \in Values(w)
<1>1. w \in Widths /\ FetchClosed(K) /\ K \subseteq Machines /\ AX \in 0..7
  BY ClosedUnder DEF AX
<1>2. i \in Read(K, w)
  BY <1>1, LoadDecoded
<1>3. i.m \in K /\ i.v \in Values(w) /\ i.v \in Nat
  BY <1>1, <1>2, ReadHas
<1>4. i.m.f \in SUBSET FlagBits /\ Reg(i.m, w, AX) \in Values(w)
  BY <1>1, <1>3, MachineFlags, RegType
<1> QED
  BY <1>1, <1>2, <1>3, <1>4

LEMMA RM_RType ==
  ASSUME NEW K, NEW W, Closed(K, W), NEW m \in K, NEW w \in W
  PROVE  /\ RM_R(add, w, m) \in Ended(K)
         /\ RM_R(or, w, m) \in Ended(K)
         /\ RM_R(adc, w, m) \in Ended(K)
         /\ RM_R(sbb, w, m) \in Ended(K)
         /\ RM_R(and, w, m) \in Ended(K)
         /\ RM_R(sub, w, m) \in Ended(K)
         /\ RM_R(xor, w, m) \in Ended(K)
<1> DEFINE o == Loaded(w, Decode(m))
<1>1. /\ w \in Widths /\ o.m \in K /\ o.m.f \in SUBSET FlagBits /\ o.mem \in BOOLEAN
      /\ o.at \in Values(LongBits) /\ (~o.mem => o.at \in 0..7) /\ o.v \in Values(w)
      /\ Reg(o.m, w, o.rh) \in Values(w)
  BY LoadedWithReg
<1> DEFINE d == o.v
           s == Reg(o.m, w, o.rh)
           f == o.m.f
<1>2. /\ RM_R(add, w, m) = StoreResult(w, o, add(w, f, d, s))
      /\ RM_R(or, w, m) = StoreResult(w, o, or(w, f, d, s))
      /\ RM_R(adc, w, m) = StoreResult(w, o, adc(w, f, d, s))
      /\ RM_R(sbb, w, m) = StoreResult(w, o, sbb(w, f, d, s))
      /\ RM_R(and, w, m) = StoreResult(w, o, and(w, f, d, s))
      /\ RM_R(sub, w, m) = StoreResult(w, o, sub(w, f, d, s))
      /\ RM_R(xor, w, m) = StoreResult(w, o, xor(w, f, d, s))
  BY DEF RM_R, Store_RM_R, Op_RM_R
<1>3. /\ add(w, f, d, s) \in Results(w)
      /\ or(w, f, d, s) \in Results(w)
      /\ adc(w, f, d, s) \in Results(w)
      /\ sbb(w, f, d, s) \in Results(w)
      /\ and(w, f, d, s) \in Results(w)
      /\ sub(w, f, d, s) \in Results(w)
      /\ xor(w, f, d, s) \in Results(w)
  BY <1>1, BinaryType
<1> HIDE DEF o, d, s, f
<1>4. ASSUME NEW x \in Results(w)
      PROVE  StoreResult(w, o, x) \in Ended(K)
  BY <1>1, StoreResultType
<1> QED
  BY <1>2, <1>3, <1>4

LEMMA R_RMType ==
  ASSUME NEW K, NEW W, Closed(K, W), NEW m \in K, NEW w \in W
  PROVE  /\ R_RM(add, w, m) \in Ended(K)
         /\ R_RM(or, w, m) \in Ended(K)
         /\ R_RM(adc, w, m) \in Ended(K)
         /\ R_RM(sbb, w, m) \in Ended(K)
         /\ R_RM(and, w, m) \in Ended(K)
         /\ R_RM(sub, w, m) \in Ended(K)
         /\ R_RM(xor, w, m) \in Ended(K)
         /\ R_RM(Second, w, m) \in Ended(K)
<1> DEFINE o == Loaded(w, Decode(m))
<1>1. /\ w \in Widths /\ o.m \in K /\ o.m.f \in SUBSET FlagBits /\ o.rh \in 0..7
      /\ o.v \in Values(w) /\ Reg(o.m, w, o.rh) \in Values(w)
  BY LoadedWithReg
<1> DEFINE s == o.v
           d == Reg(o.m, w, o.rh)
           f == o.m.f
<1>2. /\ R_RM(add, w, m) = RegResult(w, o, o.rh, add(w, f, d, s))
      /\ R_RM(or, w, m) = RegResult(w, o, o.rh, or(w, f, d, s))
      /\ R_RM(adc, w, m) = RegResult(w, o, o.rh, adc(w, f, d, s))
      /\ R_RM(sbb, w, m) = RegResult(w, o, o.rh, sbb(w, f, d, s))
      /\ R_RM(and, w, m) = RegResult(w, o, o.rh, and(w, f, d, s))
      /\ R_RM(sub, w, m) = RegResult(w, o, o.rh, sub(w, f, d, s))
      /\ R_RM(xor, w, m) = RegResult(w, o, o.rh, xor(w, f, d, s))
      /\ R_RM(Second, w, m) = RegResult(w, o, o.rh, Second(w, f, d, s))
  BY DEF R_RM, Store_R_RM, Op_R_RM
<1>3. /\ add(w, f, d, s) \in Results(w)
      /\ or(w, f, d, s) \in Results(w)
      /\ adc(w, f, d, s) \in Results(w)
      /\ sbb(w, f, d, s) \in Results(w)
      /\ and(w, f, d, s) \in Results(w)
      /\ sub(w, f, d, s) \in Results(w)
      /\ xor(w, f, d, s) \in Results(w)
      /\ Second(w, f, d, s) \in Results(w)
  BY <1>1, BinaryType
<1> HIDE DEF o, d, s, f
<1>4. ASSUME NEW x \in Results(w)
      PROVE  RegResult(w, o, o.rh, x) \in Ended(K)
  BY <1>1, RegResultType
<1> QED
  BY <1>2, <1>3, <1>4

LEMMA A_IMMType ==
  ASSUME NEW K, NEW W, Closed(K, W), NEW m \in K, NEW w \in W
  PROVE  /\ A_IMM(add, w, m) \in Ended(K)
         /\ A_IMM(or, w, m) \in Ended(K)
         /\ A_IMM(adc, w, m) \in Ended(K)
         /\ A_IMM(sbb, w, m) \in Ended(K)
         /\ A_IMM(and, w, m) \in Ended(K)
         /\ A_IMM(sub, w, m) \in Ended(K)
         /\ A_IMM(xor, w, m) \in Ended(K)
<1> DEFINE i == fetch_imm(m, w)
<1>1. /\ w \in Widths /\ i.m \in K /\ i.m.f \in SUBSET FlagBits
      /\ i.v \in Values(w) /\ Reg(i.m, w, AX) \in Values(w)
  BY FetchedImm
<1> DEFINE s == i.v
           d == Reg(i.m, w, AX)
           f == i.m.f
<1>2. /\ A_IMM(add, w, m) = RegResult(w, i, AX, add(w, f, d, s))
      /\ A_IMM(or, w, m) = RegResult(w, i, AX, or(w, f, d, s))
      /\ A_IMM(adc, w, m) = RegResult(w, i, AX, adc(w, f, d, s))
      /\ A_IMM(sbb, w, m) = RegResult(w, i, AX, sbb(w, f, d, s))
      /\ A_IMM(and, w, m) = RegResult(w, i, AX, and(w, f, d, s))
      /\ A_IMM(sub, w, m) = RegResult(w, i, AX, sub(w, f, d, s))
      /\ A_IMM(xor, w, m) = RegResult(w, i, AX, xor(w, f, d, s))
  BY DEF A_IMM, Store_A_IMM, Op_A_IMM
<1>3. /\ add(w, f, d, s) \in Results(w)
      /\ or(w, f, d, s) \in Results(w)
      /\ adc(w, f, d, s) \in Results(w)
      /\ sbb(w, f, d, s) \in Results(w)
      /\ and(w, f, d, s) \in Results(w)
      /\ sub(w, f, d, s) \in Results(w)
      /\ xor(w, f, d, s) \in Results(w)
  BY <1>1, BinaryType
<1> HIDE DEF i, d, s, f
<1>4. ASSUME NEW x \in Results(w)
      PROVE  RegResult(w, i, AX, x) \in Ended(K)
  BY <1>1, RegResultType DEF AX
<1> QED
  BY <1>2, <1>3, <1>4

LEMMA FlagsType ==
  ASSUME NEW K, NEW W, Closed(K, W), NEW m \in K, NEW w \in W
  PROVE  /\ FlagsRM_R(cmp, w, m) \in Ended(K) /\ FlagsRM_R(test, w, m) \in Ended(K)
         /\ FlagsR_RM(cmp, w, m) \in Ended(K)
         /\ FlagsA_IMM(cmp, w, m) \in Ended(K) /\ FlagsA_IMM(test, w, m) \in Ended(K)
<1>1. ASSUME NEW f \in SUBSET FlagBits, NEW d \in Values(w), NEW s \in Values(w)
      PROVE  cmp(w, f, d, s)[2] \in SUBSET FlagBits /\ test(w, f, d, s)[2] \in SUBSET FlagBits
  <2>1. w \in Widths
    BY ClosedUnder
  <2>2. cmp(w, f, d, s) \in Results(w) /\ test(w, f, d, s) \in Results(w)
    BY <2>1, BinaryType
  <2> QED
    BY <2>2 DEF Results
<1>2. /\ FlagsRM_R(cmp, w, m) \in Ended(K) /\ FlagsRM_R(test, w, m) \in Ended(K)
      /\ FlagsR_RM(cmp, w, m) \in Ended(K)
  <2> DEFINE o == Loaded(w, Decode(m))
  <2>1. /\ o.m \in K /\ o.m.f \in SUBSET FlagBits /\ o.v \in Values(w)
        /\ Reg(o.m, w, o.rh) \in Values(w)
    BY LoadedWithReg
  <2> DEFINE d == o.v
             s == Reg(o.m, w, o.rh)
             f == o.m.f
  <2>2. /\ FlagsRM_R(cmp, w, m) = FlagsResult(o, cmp(w, f, d, s))
        /\ FlagsRM_R(test, w, m) = FlagsResult(o, test(w, f, d, s))
        /\ FlagsR_RM(cmp, w, m) = FlagsResult(o, cmp(w, f, s, d))
    BY DEF FlagsRM_R, Flags_RM_R, Op_RM_R, FlagsR_RM, Flags_R_RM, Op_R_RM
  <2>3. /\ cmp(w, f, d, s)[2] \in SUBSET FlagBits /\ test(w, f, d, s)[2] \in SUBSET FlagBits
        /\ cmp(w, f, s, d)[2] \in SUBSET FlagBits
    BY <1>1, <2>1
  <2> HIDE DEF o, d, s, f
  <2>4. ASSUME NEW x, x[2] \in SUBSET FlagBits
        PROVE  FlagsResult(o, x) \in Ended(K)
    BY <2>1, <2>4, FlagsResultType
  <2> QED
    BY <2>2, <2>3, <2>4
<1>3. FlagsA_IMM(cmp, w, m) \in Ended(K) /\ FlagsA_IMM(test, w, m) \in Ended(K)
  <2> DEFINE i == fetch_imm(m, w)
  <2>1. i.m \in K /\ i.m.f \in SUBSET FlagBits /\ i.v \in Values(w) /\ Reg(i.m, w, AX) \in Values(w)
    BY FetchedImm
  <2> DEFINE d == Reg(i.m, w, AX)
             s == i.v
             f == i.m.f
  <2>2. /\ FlagsA_IMM(cmp, w, m) = FlagsResult(i, cmp(w, f, d, s))
        /\ FlagsA_IMM(test, w, m) = FlagsResult(i, test(w, f, d, s))
    BY DEF FlagsA_IMM, Flags_A_IMM, Op_A_IMM
  <2>3. cmp(w, f, d, s)[2] \in SUBSET FlagBits /\ test(w, f, d, s)[2] \in SUBSET FlagBits
    BY <1>1, <2>1
  <2> HIDE DEF i, d, s, f
  <2>4. ASSUME NEW x, x[2] \in SUBSET FlagBits
        PROVE  FlagsResult(i, x) \in Ended(K)
    BY <2>1, <2>4, FlagsResultType
  <2> QED
    BY <2>2, <2>3, <2>4
<1> QED
  BY <1>2, <1>3

\* The instructions on two operands.
LEMMA ArithmeticHandlers ==
  ASSUME NEW K, NEW W, Closed(K, W), NEW m \in K
  PROVE  /\ add_byte_RM_R(m) \in Ended(K) /\ add_byte_R_RM(m) \in Ended(K)
         /\ add_word_RM_R(m) \in Ended(K) /\ add_word_R_RM(m) \in Ended(K)
         /\ add_byte_AL_IMM(m) \in Ended(K) /\ add_word_AX_IMM(m) \in Ended(K)
         /\ or_byte_RM_R(m) \in Ended(K) /\ or_byte_R_RM(m) \in Ended(K)
         /\ or_word_RM_R(m) \in Ended(K) /\ or_word_R_RM(m) \in Ended(K)
         /\ or_byte_AL_IMM(m) \in Ended(K) /\ or_word_AX_IMM(m) \in Ended(K)
         /\ adc_byte_RM_R(m) \in Ended(K) /\ adc_byte_R_RM(m) \in Ended(K)
         /\ adc_word_RM_R(m) \in Ended(K) /\ adc_word_R_RM(m) \in Ended(K)
         /\ adc_byte_AL_IMM(m) \in Ended(K) /\ adc_word_AX_IMM(m) \in Ended(K)
         /\ sbb_byte_RM_R(m) \in Ended(K) /\ sbb_byte_R_RM(m) \in Ended(K)
         /\ sbb_word_RM_R(m) \in Ended(K) /\ sbb_word_R_RM(m) \in Ended(K)
         /\ sbb_byte_AL_IMM(m) \in Ended(K) /\ sbb_word_AX_IMM(m) \in Ended(K)
         /\ and_byte_RM_R(m) \in Ended(K) /\ and_byte_R_RM(m) \in Ended(K)
         /\ and_word_RM_R(m) \in Ended(K) /\ and_word_R_RM(m) \in Ended(K)
         /\ and_byte_AL_IMM(m) \in Ended(K) /\ and_word_AX_IMM(m) \in Ended(K)
         /\ sub_byte_RM_R(m) \in Ended(K) /\ sub_byte_R_RM(m) \in Ended(K)
         /\ sub_word_RM_R(m) \in Ended(K) /\ sub_word_R_RM(m) \in Ended(K)
         /\ sub_byte_AL_IMM(m) \in Ended(K) /\ sub_word_AX_IMM(m) \in Ended(K)
         /\ xor_byte_RM_R(m) \in Ended(K) /\ xor_byte_R_RM(m) \in Ended(K)
         /\ xor_word_RM_R(m) \in Ended(K) /\ xor_word_R_RM(m) \in Ended(K)
         /\ xor_byte_AL_IMM(m) \in Ended(K) /\ xor_word_AX_IMM(m) \in Ended(K)
         /\ cmp_byte_RM_R(m) \in Ended(K) /\ cmp_byte_R_RM(m) \in Ended(K)
         /\ cmp_word_RM_R(m) \in Ended(K) /\ cmp_word_R_RM(m) \in Ended(K)
         /\ cmp_byte_AL_IMM(m) \in Ended(K) /\ cmp_word_AX_IMM(m) \in Ended(K)
         /\ test_byte_RM_R(m) \in Ended(K) /\ test_word_RM_R(m) \in Ended(K)
         /\ test_AL_IMM(m) \in Ended(K) /\ test_AX_IMM(m) \in Ended(K) /\ mov_byte_R_RM(m) \in Ended(K)
         /\ mov_word_R_RM(m) \in Ended(K)
<1>1. 8 \in W /\ OpSize(m) \in W
  BY ClosedUnder, ClosedSteps
<1>2. ASSUME NEW w \in W
      PROVE  /\ RM_R(add, w, m) \in Ended(K) /\ R_RM(add, w, m) \in Ended(K) /\ A_IMM(add, w, m) \in Ended(K)
             /\ RM_R(or, w, m) \in Ended(K) /\ R_RM(or, w, m) \in Ended(K) /\ A_IMM(or, w, m) \in Ended(K)
             /\ RM_R(adc, w, m) \in Ended(K) /\ R_RM(adc, w, m) \in Ended(K) /\ A_IMM(adc, w, m) \in Ended(K)
             /\ RM_R(sbb, w, m) \in Ended(K) /\ R_RM(sbb, w, m) \in Ended(K) /\ A_IMM(sbb, w, m) \in Ended(K)
             /\ RM_R(and, w, m) \in Ended(K) /\ R_RM(and, w, m) \in Ended(K) /\ A_IMM(and, w, m) \in Ended(K)
             /\ RM_R(sub, w, m) \in Ended(K) /\ R_RM(sub, w, m) \in Ended(K) /\ A_IMM(sub, w, m) \in Ended(K)
             /\ RM_R(xor, w, m) \in Ended(K) /\ R_RM(xor, w, m) \in Ended(K) /\ A_IMM(xor, w, m) \in Ended(K)
             /\ R_RM(Second, w, m) \in Ended(K)
             /\ FlagsRM_R(cmp, w, m) \in Ended(K) /\ FlagsRM_R(test, w, m) \in Ended(K)
             /\ FlagsR_RM(cmp, w, m) \in Ended(K)
             /\ FlagsA_IMM(cmp, w, m) \in Ended(K) /\ FlagsA_IMM(test, w, m) \in Ended(K)
  BY RM_RType, R_RMType, A_IMMType, FlagsType
<1>3. /\ add_byte_RM_R(m) \in Ended(K) /\ add_byte_R_RM(m) \in Ended(K)
      /\ add_word_RM_R(m) \in Ended(K) /\ add_word_R_RM(m) \in Ended(K)
      /\ add_byte_AL_IMM(m) \in Ended(K) /\ add_word_AX_IMM(m) \in Ended(K)
  BY <1>1, <1>2 DEF add_byte_RM_R, add_byte_R_RM, add_word_RM_R, add_word_R_RM, add_byte_AL_IMM,
     add_word_AX_IMM
<1>4. /\ or_byte_RM_R(m) \in Ended(K) /\ or_byte_R_RM(m) \in Ended(K)
      /\ or_word_RM_R(m) \in Ended(K) /\ or_word_R_RM(m) \in Ended(K)
      /\ or_byte_AL_IMM(m) \in Ended(K) /\ or_word_AX_IMM(m) \in Ended(K)
  BY <1>1, <1>2 DEF or_byte_RM_R, or_byte_R_RM, or_word_RM_R, or_word_R_RM, or_byte_AL_IMM,
     or_word_AX_IMM
<1>5. /\ adc_byte_RM_R(m) \in Ended(K) /\ adc_byte_R_RM(m) \in Ended(K)
      /\ adc_word_RM_R(m) \in Ended(K) /\ adc_word_R_RM(m) \in Ended(K)
      /\ adc_byte_AL_IMM(m) \in Ended(K) /\ adc_word_AX_IMM(m) \in Ended(K)
  BY <1>1, <1>2 DEF adc_byte_RM_R, adc_byte_R_RM, adc_word_RM_R, adc_word_R_RM, adc_byte_AL_IMM,
     adc_word_AX_IMM
<1>6. /\ sbb_byte_RM_R(m) \in Ended(K) /\ sbb_byte_R_RM(m) \in Ended(K)
      /\ sbb_word_RM_R(m) \in Ended(K) /\ sbb_word_R_RM(m) \in Ended(K)
      /\ sbb_byte_AL_IMM(m) \in Ended(K) /\ sbb_word_AX_IMM(m) \in Ended(K)
  BY <1>1, <1>2 DEF sbb_byte_RM_R, sbb_byte_R_RM, sbb_word_RM_R, sbb_word_R_RM, sbb_byte_AL_IMM,
     sbb_word_AX_IMM
<1>7. /\ and_byte_RM_R(m) \in Ended(K) /\ and_byte_R_RM(m) \in Ended(K)
      /\ and_word_RM_R(m) \in Ended(K) /\ and_word_R_RM(m) \in Ended(K)
      /\ and_byte_AL_IMM(m) \in Ended(K) /\ and_word_AX_IMM(m) \in Ended(K)
  BY <1>1, <1>2 DEF and_byte_RM_R, and_byte_R_RM, and_word_RM_R, and_word_R_RM, and_byte_AL_IMM,
     and_word_AX_IMM
<1>8. /\ sub_byte_RM_R(m) \in Ended(K) /\ sub_byte_R_RM(m) \in Ended(K)
      /\ sub_word_RM_R(m) \in Ended(K) /\ sub_word_R_RM(m) \in Ended(K)
      /\ sub_byte_AL_IMM(m) \in Ended(K) /\ sub_word_AX_IMM(m) \in Ended(K)
  BY <1>1, <1>2 DEF sub_byte_RM_R, sub_byte_R_RM, sub_word_RM_R, sub_word_R_RM, sub_byte_AL_IMM,
     sub_word_AX_IMM
<1>9. /\ xor_byte_RM_R(m) \in Ended(K) /\ xor_byte_R_RM(m) \in Ended(K)
      /\ xor_word_RM_R(m) \in Ended(K) /\ xor_word_R_RM(m) \in Ended(K)
      /\ xor_byte_AL_IMM(m) \in Ended(K) /\ xor_word_AX_IMM(m) \in Ended(K)
  BY <1>1, <1>2 DEF xor_byte_RM_R, xor_byte_R_RM, xor_word_RM_R, xor_word_R_RM, xor_byte_AL_IMM,
     xor_word_AX_IMM
<1>10. /\ cmp_byte_RM_R(m) \in Ended(K) /\ cmp_byte_R_RM(m) \in Ended(K)
      /\ cmp_word_RM_R(m) \in Ended(K) /\ cmp_word_R_RM(m) \in Ended(K)
      /\ cmp_byte_AL_IMM(m) \in Ended(K) /\ cmp_word_AX_IMM(m) \in Ended(K)
      /\ test_byte_RM_R(m) \in Ended(K) /\ test_word_RM_R(m) \in Ended(K)
      /\ test_AL_IMM(m) \in Ended(K) /\ test_AX_IMM(m) \in Ended(K) /\ mov_byte_R_RM(m) \in Ended(K)
      /\ mov_word_R_RM(m) \in Ended(K)
  BY <1>1, <1>2 DEF cmp_byte_RM_R, cmp_byte_R_RM, cmp_word_RM_R, cmp_word_R_RM, cmp_byte_AL_IMM,
     cmp_word_AX_IMM, test_byte_RM_R, test_word_RM_R, test_AL_IMM, test_AX_IMM,
     mov_byte_R_RM, mov_word_R_RM
<1> QED
  BY <1>3, <1>4, <1>5, <1>6, <1>7, <1>8, <1>9, <1>10

LEMMA RegisterNumbers ==
  {AX, CX, DX, BX, SP, BP, SI, DI, AL, CL, DL, BL, AH, CH, DH, BH} \subseteq 0..7
BY DEF AX, CX, DX, BX, SP, BP, SI, DI, AL, CL, DL, BL, AH, CH, DH, BH

LEMMA SignedImmType ==
  ASSUME NEW K, NEW w \in Widths, NEW iw \in Widths, NEW i \in Read(K, iw)
  PROVE  SignedImm(w, iw, i) \in Read(K, w)
<1>1. i.m \in K /\ i.v \in Values(iw) /\ w \in Nat /\ iw \in Nat /\ iw >= 1
  BY WidthType DEF Read
<1>2. Signed(iw, i.v) \in Int
  BY <1>1, SignedType
<1>3. Mod(w, Signed(iw, i.v)) \in Values(w)
  BY <1>1, <1>2, ModType
<1>4. SignedImm(w, iw, i) = [i EXCEPT !.v = Mod(w, Signed(iw, i.v))]
  BY DEF SignedImm
<1> QED
  BY <1>1, <1>3, <1>4 DEF Read

LEMMA RM_IMMType ==
  ASSUME NEW K, NEW W, Closed(K, W), NEW m \in K, NEW w \in W, NEW iw \in W
  PROVE  RM_IMM(w, iw, m) \in Ended(K)
<1> DEFINE o == Loaded(w, Decode(m))
           i == SignedImm(w, iw, fetch_imm(o.m, iw))
           x == Arith(o.rh, w, i.m.f, o.v, i.v)
           p == [o EXCEPT !.m = i.m]
<1>1. /\ o \in LoadedOperands(K, w) /\ w \in Widths /\ o.m \in K /\ o.mem \in BOOLEAN /\ o.rh \in 0..7
      /\ o.at \in Values(LongBits) /\ (~o.mem => o.at \in 0..7) /\ o.v \in Values(w)
  BY LoadedWithReg
<1>2. RM_IMM(w, iw, m) = IF o.rh = 7 THEN FlagsResult(i, x) ELSE StoreResult(w, p, x)
  BY DEF RM_IMM, FetchImm, WithImm, Arith_IMM
<1> HIDE DEF o
<1>3. iw \in Widths /\ fetch_imm(o.m, iw) \in Read(K, iw)
  BY <1>1, FetchedImm
<1>4. i \in Read(K, w)
  BY <1>1, <1>3, SignedImmType
<1> HIDE DEF i
<1>5. i.m \in K /\ i.v \in Values(w) /\ i.m.f \in SUBSET FlagBits
  <2>1. i.m \in K /\ i.v \in Values(w)
    BY <1>4 DEF Read
  <2> QED
    BY <2>1, ClosedUnder, MachineFlags
<1>6. x \in Results(w)
  BY <1>1, <1>5, ArithType
<1> HIDE DEF x
<1>7. FlagsResult(i, x) \in Ended(K)
  <2>1. x[2] \in SUBSET FlagBits
    BY <1>6 DEF Results
  <2> QED
    BY <1>5, <2>1, FlagsResultType
<1>8. StoreResult(w, p, x) \in Ended(K)
  <2>1. p.m = i.m /\ p.mem = o.mem /\ p.at = o.at
    BY <1>1 DEF LoadedOperands
  <2> HIDE DEF p
  <2> QED
    BY <1>1, <1>5, <1>6, <2>1, StoreResultType
<1> QED
  BY <1>2, <1>7, <1>8

LEMMA ImmediateHandlers ==
  ASSUME NEW K, NEW W, Closed(K, W), NEW m \in K
  PROVE  /\ opc80_byte_RM_IMM(m) \in Ended(K) /\ opc81_word_RM_IMM(m) \in Ended(K)
         /\ opc82_byte_RM_IMM(m) \in Ended(K) /\ opc83_word_RM_IMM(m) \in Ended(K)
<1>1. 8 \in W /\ OpSize(m) \in W
  BY ClosedUnder, ClosedSteps
<1> QED
  BY <1>1, RM_IMMType DEF opc80_byte_RM_IMM, opc81_word_RM_IMM, opc82_byte_RM_IMM, opc83_word_RM_IMM

\* What is made of the registers alone.
LEMMA OnRegisters ==
  ASSUME NEW K, NEW W, Closed(K, W), NEW m \in K, NEW n \in 0..7
  PROVE  /\ m.f \in SUBSET FlagBits /\ m \in Machines
         /\ \A w \in W : w \in Widths /\ Reg(m, w, n) \in Values(w)
         /\ \A w \in W : \A x \in Results(w) : RegResult(w, [m |-> m], n, x) \in Ended(K)
<1>1. m.f \in SUBSET FlagBits /\ m \in Machines /\ W \subseteq Widths
  BY ClosedUnder, MachineFlags
<1>2. \A w \in W : Reg(m, w, n) \in Values(w)
  BY <1>1, RegType
<1>3. ASSUME NEW w \in W, NEW x \in Results(w)
      PROVE  RegResult(w, [m |-> m], n, x) \in Ended(K)
  <2> DEFINE o == [m |-> m]
  <2>1. o.m \in K
    OBVIOUS
  <2> HIDE DEF o
  <2>2. RegResult(w, o, n, x) \in Ended(K)
    BY <2>1, RegResultType
  <2> QED
    BY <2>2 DEF o
<1> QED
  BY <1>1, <1>2, <1>3

LEMMA DecimalHandlers ==
  ASSUME NEW K, NEW W, Closed(K, W), NEW m \in K
  PROVE  /\ daa(m) \in Ended(K) /\ das(m) \in Ended(K) /\ aaa(m) \in Ended(K) /\ aas(m) \in Ended(K)
         /\ aam(m) \in Ended(K) /\ aad(m) \in Ended(K)
<1>1. AL \in 0..7 /\ AX \in 0..7 /\ 8 \in W /\ 16 \in W /\ FetchClosed(K) /\ m \in Machines
  BY ClosedUnder DEF AL, AX
<1>2. m.f \in SUBSET FlagBits
  BY <1>1, MachineFlags
<1>3. Reg8(m, AL) \in Values(8) /\ Reg8(m, AL) \in Nat /\ Reg16(m, AX) \in Nat
  BY <1>1, RegType
<1>4. daa_byte(m.f, Reg8(m, AL)) \in Results(8) /\ das_byte(m.f, Reg8(m, AL)) \in Results(8)
  BY <1>2, <1>3, DecimalType
<1>5. aaa_word(m.f, Reg16(m, AX)) \in Results(16) /\ aas_word(m.f, Reg16(m, AX)) \in Results(16)
  BY <1>2, <1>3, DecimalType
<1>6. daa(m) \in Ended(K) /\ das(m) \in Ended(K)
  BY <1>1, <1>4, OnRegisters DEF daa, das
<1>7. aaa(m) \in Ended(K) /\ aas(m) \in Ended(K)
  BY <1>1, <1>5, OnRegisters DEF aaa, aas
<1>8. aam_word(m.f, Reg8(m, AL)) \in Results(16)
  BY <1>2, <1>3, DecimalType
<1>9. aad_word(m.f, Reg16(m, AX)) \in Results(16)
  BY <1>2, <1>3, DecimalType
<1> DEFINE i == fetch_byte_imm(m)
           b == BaseTen(i)
<1>10. i \in Read(K, 8) /\ i.m \in K
  BY <1>1, FetchType DEF Read
<1>11. b.m \in K
  <2> HIDE DEF i
  <2>1. X86EMU_halt_sys(i.m) \in K
    BY <1>10, ClosedSteps
  <2> QED
    BY <1>10, <2>1 DEF BaseTen, HaltIf, Read
<1>12. aam(m) \in Ended(K)
  <2>1. aam(m) = RegResult(16, b, AX, aam_word(m.f, Reg8(m, AL)))
    BY DEF aam
  <2> HIDE DEF b
  <2> QED
    BY <1>1, <1>8, <1>11, <2>1, RegResultType
<1>13. aad(m) \in Ended(K)
  <2>1. aad(m) = RegResult(16, i, AX, aad_word(m.f, Reg16(m, AX)))
    BY DEF aad
  <2> HIDE DEF i
  <2> QED
    BY <1>1, <1>9, <1>10, <2>1, RegResultType
<1> QED
  BY <1>6, <1>7, <1>12, <1>13

LEMMA RegOpType ==
  ASSUME NEW K, NEW W, Closed(K, W), NEW m \in K, NEW n \in 0..7
  PROVE  RegOp(inc, m, n) \in Ended(K) /\ RegOp(dec, m, n) \in Ended(K)
<1> DEFINE w == OpSize(m)
<1>1. w \in W
  BY ClosedSteps
<1>2. m.f \in SUBSET FlagBits /\ w \in Widths /\ Reg(m, w, n) \in Values(w)
  BY <1>1, OnRegisters
<1>3. inc(w, m.f, Reg(m, w, n)) \in Results(w) /\ dec(w, m.f, Reg(m, w, n)) \in Results(w)
  BY <1>2, UnaryType
<1>4. /\ RegOp(inc, m, n) = RegResult(w, [m |-> m], n, inc(w, m.f, Reg(m, w, n)))
      /\ RegOp(dec, m, n) = RegResult(w, [m |-> m], n, dec(w, m.f, Reg(m, w, n)))
  BY DEF RegOp
<1> HIDE DEF w
<1> QED
  BY <1>1, <1>3, <1>4, OnRegisters

LEMMA RegOpHandlers ==
  ASSUME NEW K, NEW W, Closed(K, W), NEW m \in K
  PROVE  /\ inc_AX(m) \in Ended(K) /\ inc_CX(m) \in Ended(K) /\ inc_DX(m) \in Ended(K) /\ inc_BX(m) \in Ended(K)
         /\ inc_SP(m) \in Ended(K) /\ inc_BP(m) \in Ended(K) /\ inc_SI(m) \in Ended(K) /\ inc_DI(m) \in Ended(K)
         /\ dec_AX(m) \in Ended(K) /\ dec_CX(m) \in Ended(K) /\ dec_DX(m) \in Ended(K) /\ dec_BX(m) \in Ended(K)
         /\ dec_SP(m) \in Ended(K) /\ dec_BP(m) \in Ended(K) /\ dec_SI(m) \in Ended(K) /\ dec_DI(m) \in Ended(K)
<1>1. \A n \in 0..7 : RegOp(inc, m, n) \in Ended(K) /\ RegOp(dec, m, n) \in Ended(K)
  BY RegOpType
<1>2. {AX, CX, DX, BX, SP, BP, SI, DI} \subseteq 0..7
  BY RegisterNumbers
<1> QED
  BY <1>1, <1>2 DEF inc_AX, inc_CX, inc_DX, inc_BX, inc_SP, inc_BP, inc_SI, inc_DI,
                    dec_AX, dec_CX, dec_DX, dec_BX, dec_SP, dec_BP, dec_SI, dec_DI

LEMMA ImulPairType ==
  ASSUME NEW w \in {16, LongBits}, NEW a \in Values(w), NEW b \in Values(w)
  PROVE  ImulPair(w, a, b) \in Pairs(w)
<1>1. CASE w = LongBits
  <2>1. imul_long_direct(a, b) \in Pairs(LongBits)
    BY <1>1, ImulDirectType
  <2> QED
    BY <1>1, <2>1 DEF ImulPair
<1>2. CASE w # LongBits
  <2>1. w = 16 /\ w \in Widths
    BY <1>2 DEF Widths
  <2>2. SignedProduct(w, a, b) \in Pairs(w)
    BY <2>1, SignedProductType
  <2> QED
    BY <1>2, <2>1, <2>2 DEF ImulPair
<1> QED
  BY <1>1, <1>2

LEMMA ImulResultType ==
  ASSUME NEW K, NEW W, Closed(K, W), NEW w \in W, NEW i, i.m \in K, NEW rh \in 0..7, NEW p \in Pairs(w)
  PROVE  ImulResult(w, rh, i, p) \in Ended(K)
<1> DEFINE f == SetCFOF(i.m.f, p[1] # 0)
<1>1. i.m.f \in SUBSET FlagBits /\ w \in Nat
  BY ClosedUnder, MachineFlags, WidthType
<1>2. f \in SUBSET FlagBits
  BY <1>1, CFOFType
<1>3. ImulResult(w, rh, i, p) = RegResult(w, i, rh, <<p[2], f>>)
  BY DEF ImulResult
<1> HIDE DEF f
<1>4. <<p[2], f>> \in Results(w)
  BY <1>2 DEF Pairs, Results
<1> QED
  BY <1>3, <1>4, RegResultType

LEMMA ImulHandlers ==
  ASSUME NEW K, NEW W, Closed(K, W), NEW m \in K
  PROVE  imul_word_IMM(m) \in Ended(K) /\ imul_byte_IMM(m) \in Ended(K)
<1> DEFINE w == OpSize(m)
<1>1. w \in W /\ w \in {16, LongBits} /\ w \in Widths /\ 8 \in W
  BY ClosedSteps, ClosedUnder DEF OpSize
<1> HIDE DEF w
<1>2. ASSUME NEW iw \in W
      PROVE  ImulFetch(w, iw, Loaded(w, Decode(m))) \in Ended(K)
  <2> DEFINE o == Loaded(w, Decode(m))
             i == SignedImm(w, iw, fetch_imm(o.m, iw))
             p == ImulPair(w, o.v, i.v)
  <2>1. o.m \in K /\ o.rh \in 0..7 /\ o.v \in Values(w)
    BY <1>1, LoadedWithReg
  <2>2. ImulFetch(w, iw, o) = ImulResult(w, o.rh, i, p)
    BY DEF ImulFetch, ImulWith
  <2> HIDE DEF o
  <2>3. iw \in Widths /\ fetch_imm(o.m, iw) \in Read(K, iw)
    BY <2>1, FetchedImm
  <2>4. i \in Read(K, w)
    BY <1>1, <2>3, SignedImmType
  <2> HIDE DEF i
  <2>5. i.m \in K /\ i.v \in Values(w)
    BY <2>4 DEF Read
  <2>6. p \in Pairs(w)
    BY <1>1, <2>1, <2>5, ImulPairType
  <2> HIDE DEF p
  <2>7. ImulResult(w, o.rh, i, p) \in Ended(K)
    BY <1>1, <2>1, <2>5, <2>6, ImulResultType
  <2> QED
    BY <2>2, <2>7 DEF o
<1>3. imul_word_IMM(m) = ImulFetch(w, w, Loaded(w, Decode(m))) /\ imul_byte_IMM(m) = ImulFetch(w, 8, Loaded(w, Decode(m)))
  BY DEF imul_word_IMM, imul_byte_IMM, ImulImm, w
<1> QED
  BY <1>1, <1>2, <1>3

(***************************************************************************)
(* Rotations and shifts of an operand.                                     *)
(***************************************************************************)
LEMMA RotateRMType ==
  ASSUME NEW K, NEW W, Closed(K, W), NEW w \in W, NEW o \in Operands(K), NEW m \in K, NEW amt \in Nat
  PROVE  RotateRM(w, o, m, amt) \in Ended(K)
<1> DEFINE p == [o EXCEPT !.m = m]
           l == Loaded(w, p)
           x == Rotate(l.m.undef # 0, l.rh, w, l.m.f, l.v, amt)
<1>1. w \in Widths /\ FetchClosed(K) /\ p \in Operands(K)
  BY ClosedUnder, OperandHas
<1>2. RotateRM(w, o, m, amt) = StoreResult(w, l, x)
  BY DEF RotateRM, RotateLoaded
<1> HIDE DEF p
<1>3. l \in LoadedOperands(K, w)
  BY <1>1, LoadType
<1> HIDE DEF l
<1>4. /\ l.m \in K /\ l.rh \in 0..7 /\ l.mem \in BOOLEAN /\ l.at \in Values(LongBits)
      /\ (~l.mem => l.at \in 0..7) /\ l.v \in Values(w)
  BY <1>1, <1>3, LoadedHas
<1>5. l.m.f \in SUBSET FlagBits
  BY <1>1, <1>4, MachineFlags
<1>6. x \in Results(w)
  BY <1>1, <1>4, <1>5, RotateType
<1> HIDE DEF x
<1> QED
  BY <1>2, <1>4, <1>6, StoreResultType

LEMMA RotateHandlers ==
  ASSUME NEW K, NEW W, Closed(K, W), NEW m \in K
  PROVE  /\ opcC0_byte_RM_MEM(m) \in Ended(K) /\ opcC1_word_RM_MEM(m) \in Ended(K)
         /\ opcD0_byte_RM_1(m) \in Ended(K) /\ opcD1_word_RM_1(m) \in Ended(K)
         /\ opcD2_byte_RM_CL(m) \in Ended(K) /\ opcD3_word_RM_CL(m) \in Ended(K)
<1> DEFINE o == Decode(m)
<1>1. 8 \in W /\ OpSize(m) \in W /\ FetchClosed(K) /\ ReadClosed(K) /\ K \subseteq Machines
  BY ClosedSteps, ClosedUnder
<1>2. o \in Operands(K) /\ o.m \in K
  BY <1>1, DecodeType, OperandHas
<1> HIDE DEF o
<1>3. ASSUME NEW w \in W
      PROVE  RotateImm(w, o) \in Ended(K) /\ RotateOne(w, o) \in Ended(K) /\ RotateCL(w, o) \in Ended(K)
  <2>1. fetch_byte_imm(o.m) \in Read(K, 8)
    BY <1>1, <1>2, FetchType
  <2> DEFINE i == fetch_byte_imm(o.m)
  <2>2. i.m \in K /\ i.v \in Nat
    BY <2>1, ValuesNat DEF Read
  <2>3. RotateImm(w, o) = RotateRM(w, o, i.m, i.v)
    BY DEF RotateImm, RotateBy
  <2> HIDE DEF i
  <2>4. RotateRM(w, o, i.m, i.v) \in Ended(K)
    BY <1>2, <2>2, RotateRMType
  <2>5. Reg8(o.m, CL) \in Nat
    BY <1>1, <1>2, RegType DEF CL
  <2>6. RotateRM(w, o, o.m, 1) \in Ended(K)
    BY <1>2, RotateRMType
  <2>7. RotateRM(w, o, o.m, Reg8(o.m, CL)) \in Ended(K)
    BY <1>2, <2>5, RotateRMType
  <2> QED
    BY <2>3, <2>4, <2>6, <2>7 DEF RotateOne, RotateCL
<1> QED
  BY <1>1, <1>3 DEF opcC0_byte_RM_MEM, opcC1_word_RM_MEM, opcD0_byte_RM_1, opcD1_word_RM_1,
                    opcD2_byte_RM_CL, opcD3_word_RM_CL, o

(***************************************************************************)
(* The groups of one operand.                                              *)
(***************************************************************************)
LEMMA UnaryHandlers ==
  ASSUME NEW K, NEW W, Closed(K, W), NEW w \in W, NEW o \in LoadedOperands(K, w)
  PROVE  /\ Unary(inc, w, o) \in Ended(K) /\ Unary(dec, w, o) \in Ended(K)
         /\ Unary(neg, w, o) \in Ended(K) /\ Unary(not, w, o) \in Ended(K)
<1>1. w \in Widths /\ FetchClosed(K)
  BY ClosedUnder
<1>2. /\ o.m \in K /\ o.mem \in BOOLEAN /\ o.at \in Values(LongBits)
      /\ (~o.mem => o.at \in 0..7) /\ o.v \in Values(w)
  BY <1>1, LoadedHas
<1>3. o.m.f \in SUBSET FlagBits
  BY <1>1, <1>2, MachineFlags
<1>4. /\ inc(w, o.m.f, o.v) \in Results(w) /\ dec(w, o.m.f, o.v) \in Results(w)
      /\ neg(w, o.m.f, o.v) \in Results(w) /\ not(w, o.m.f, o.v) \in Results(w)
  BY <1>1, <1>2, <1>3, UnaryType
<1>5. ASSUME NEW x \in Results(w)
      PROVE  StoreResult(w, o, x) \in Ended(K)
  BY <1>2, StoreResultType
<1> QED
  BY <1>4, <1>5 DEF Unary

LEMMA GroupFEType ==
  ASSUME NEW K, NEW W, Closed(K, W), NEW m \in K
  PROVE  opcFE_byte_RM(m) \in Ended(K)
<1> DEFINE o == Decode(m)
<1>1. 8 \in W /\ 8 \in Widths /\ FetchClosed(K) /\ ReadClosed(K)
  BY ClosedUnder
<1>2. o \in Operands(K)
  BY <1>1, DecodeType
<1> HIDE DEF o
<1>3. o.m \in K /\ Loaded(8, o) \in LoadedOperands(K, 8)
  BY <1>1, <1>2, OperandHas, LoadType
<1>4. Unary(inc, 8, Loaded(8, o)) \in Ended(K) /\ Unary(dec, 8, Loaded(8, o)) \in Ended(K) /\ Done(o.m) \in Ended(K)
  BY <1>1, <1>3, UnaryHandlers, ClosedSteps
<1>5. GroupFE(o) \in Ended(K)
  <2>1. CASE o.rh = 0
    BY <1>4, <2>1 DEF GroupFE
  <2>2. CASE o.rh = 1
    BY <1>4, <2>2 DEF GroupFE
  <2>3. CASE o.rh # 0 /\ o.rh # 1
    BY <1>4, <2>3 DEF GroupFE
  <2> QED
    BY <2>1, <2>2, <2>3
<1> QED
  BY <1>5 DEF opcFE_byte_RM, o

\* Group F6: only a division may do something that is not in K, and it has done nothing then.
LEMMA GroupF6Type ==
  ASSUME NEW K, NEW W, Closed(K, W), NEW w \in W, NEW d \in Decoded(K)
  PROVE  \/ GroupF6(w, d) \in Ended(K)
         \/ /\ d.rh \in {6, 7}
            /\ GroupF6(w, d) = Done(x86emu_intr_raise(Loaded(w, Operand(d)).m, 0))
<1>1. /\ w \in Widths /\ w \in Nat /\ FetchClosed(K) /\ ReadClosed(K) /\ DataClosed(K, W)
      /\ d.m \in K /\ d.rh \in 0..7
  BY ClosedUnder, WidthType DEF Decoded
<1>2. CASE d.rh = 1
  <2>1. X86EMU_halt_sys(d.m) \in K
    BY <1>1, ClosedSteps
  <2> QED
    BY <1>2, <2>1, ClosedSteps DEF GroupF6
<1>3. CASE d.rh # 1
  <2> DEFINE o == Operand(d)
             l == Loaded(w, o)
  <2>1. o \in Operands(K) /\ o.rh = d.rh
    BY <1>1, OperandType DEF Operand, AtAddress
  <2>2. GroupF6(w, d) = IF o.rh = 0 THEN TestFetch(w, o, fetch_imm(o.m, w)) ELSE OneOperand(w, l)
    BY <1>3 DEF GroupF6, GroupF6Of
  <2> HIDE DEF o
  <2>3. o.m \in K
    BY <2>1, OperandHas
  <2>4. CASE o.rh = 0
    <3> DEFINE i == fetch_imm(o.m, w)
               p == [o EXCEPT !.m = i.m]
               q == Loaded(w, p)
               x == test(w, q.m.f, q.v, i.v)
    <3>1. i.m \in K /\ i.v \in Values(w)
      BY <2>3, FetchedImm
    <3>2. TestFetch(w, o, i) = FlagsResult(q, x)
      BY DEF TestFetch, TestImm
    <3> HIDE DEF i
    <3>3. p \in Operands(K)
      BY <2>1, <3>1, OperandHas
    <3> HIDE DEF p
    <3>4. q \in LoadedOperands(K, w)
      BY <1>1, <3>3, LoadType
    <3> HIDE DEF q
    <3>5. q.m \in K /\ q.v \in Values(w)
      BY <1>1, <3>4, LoadedHas
    <3>6. q.m.f \in SUBSET FlagBits
      BY <1>1, <3>5, MachineFlags
    <3>7. x \in Results(w)
      BY <1>1, <3>1, <3>5, <3>6, BinaryType
    <3>8. x[2] \in SUBSET FlagBits
      BY <3>7 DEF Results
    <3> HIDE DEF x
    <3>9. FlagsResult(q, x) \in Ended(K)
      BY <3>5, <3>8, FlagsResultType
    <3> QED
      BY <2>2, <2>4, <3>2, <3>9 DEF i
  <2>5. CASE o.rh # 0
    <3>1. l \in LoadedOperands(K, w) /\ l.rh = o.rh
      BY <1>1, <2>1, LoadType DEF Loaded, WithValue
    <3>2. GroupF6(w, d) = OneOperand(w, l) /\ l = Loaded(w, Operand(d))
      BY <2>2, <2>5 DEF o
    <3> HIDE DEF l
    <3>3. l.m \in K /\ l.v \in Values(w)
      BY <1>1, <3>1, LoadedHas
    <3>4. l.rh \in {2, 3, 4, 5, 6, 7} /\ l.rh = d.rh
      BY <1>1, <1>3, <2>1, <2>5, <3>1
    <3>5. CASE l.rh = 2
      BY <3>1, <3>2, <3>5, UnaryHandlers DEF OneOperand
    <3>6. CASE l.rh = 3
      BY <3>1, <3>2, <3>6, UnaryHandlers DEF OneOperand
    <3>7. CASE l.rh \in {4, 5}
      <4>1. mul(l.m, w, l.v) \in K /\ imul(l.m, w, l.v) \in K
        BY <1>1, <3>3, MulType
      <4>2. Done(mul(l.m, w, l.v)) \in Ended(K) /\ Done(imul(l.m, w, l.v)) \in Ended(K)
        BY <4>1, ClosedSteps
      <4> QED
        BY <3>2, <3>7, <4>2 DEF OneOperand
    <3>8. CASE l.rh \in {6, 7}
      <4>1. /\ div(l.m, w, l.v) \in K \/ div(l.m, w, l.v) = x86emu_intr_raise(l.m, 0)
            /\ idiv(l.m, w, l.v) \in K \/ idiv(l.m, w, l.v) = x86emu_intr_raise(l.m, 0)
        BY <1>1, <3>3, DivType
      <4>2. GroupF6(w, d) = Done(div(l.m, w, l.v)) \/ GroupF6(w, d) = Done(idiv(l.m, w, l.v))
        BY <3>2, <3>8 DEF OneOperand
      <4>3. ASSUME NEW n, n \in K \/ n = x86emu_intr_raise(l.m, 0), GroupF6(w, d) = Done(n)
            PROVE  GroupF6(w, d) \in Ended(K) \/ GroupF6(w, d) = Done(x86emu_intr_raise(l.m, 0))
        BY <4>3, ClosedSteps
      <4> QED
        BY <3>2, <3>4, <3>8, <4>1, <4>2, <4>3
    <3> QED
      BY <3>4, <3>5, <3>6, <3>7, <3>8
  <2> QED
    BY <2>4, <2>5
<1> QED
  BY <1>2, <1>3

(***************************************************************************)
(* Moves.                                                                  *)
(***************************************************************************)
LEMMA EndOf ==
  ASSUME NEW K, NEW m \in K
  PROVE  Done(m) \in Ended(K) /\ Crash(m) \in Ended(K)
BY DEF Ended

LEMMA SetFromType ==
  ASSUME NEW K, NEW W, Closed(K, W), NEW i, i.m \in K
  PROVE  /\ \A w \in W : \A n \in 0..7 : i.v \in Values(w) => SetFrom(w, n, i) \in Ended(K)
         /\ \A name \in Segments : i.v \in Values(16) => SegFrom(name, i) \in Ended(K)
<1>1. ASSUME NEW w \in W, NEW n \in 0..7, i.v \in Values(w)
      PROVE  SetFrom(w, n, i) \in Ended(K)
  <2>1. SetReg(i.m, w, n, i.v) \in K
    BY <1>1, ClosedSteps
  <2> QED
    BY <2>1, EndOf DEF SetFrom
<1>2. ASSUME NEW name \in Segments, i.v \in Values(16)
      PROVE  SegFrom(name, i) \in Ended(K)
  <2>1. SetSeg(i.m, name, i.v) \in K
    BY <1>2, ClosedSteps
  <2> QED
    BY <2>1, EndOf DEF SegFrom
<1> QED
  BY <1>1, <1>2

LEMMA StoreFromType ==
  ASSUME NEW K, NEW W, Closed(K, W), NEW w \in W, NEW o \in Operands(K), NEW i, i.m \in K, i.v \in Values(w)
  PROVE  StoreFrom(w, o, i) \in Ended(K)
<1>1. Store(i.m, w, o, i.v) \in K
  BY ClosedUnder, OperandHas, StoreType
<1> QED
  BY <1>1, EndOf DEF StoreFrom

\* A ModRM byte with a number that is no operation halts the machine.
LEMMA HaltIfType ==
  ASSUME NEW K, NEW W, Closed(K, W), NEW c \in BOOLEAN, NEW d \in Decoded(K)
  PROVE  Operand(HaltIf(c, d)) \in Operands(K)
<1>1. d.m \in K
  BY DEF Decoded
<1>2. X86EMU_halt_sys(d.m) \in K
  BY <1>1, ClosedSteps
<1>3. HaltIf(c, d) \in Decoded(K)
  BY <1>2 DEF HaltIf, Decoded
<1> QED
  BY <1>3, OperandType, ClosedUnder

LEMMA OnlyZeroType ==
  ASSUME NEW K, NEW W, Closed(K, W), NEW m \in K
  PROVE  OnlyZero(fetch_decode_modrm(m)) \in Operands(K)
<1> DEFINE d == fetch_decode_modrm(m)
<1>1. d \in Decoded(K)
  BY ClosedUnder, ModRMType
<1> HIDE DEF d
<1>2. (d.rh # 0) \in BOOLEAN
  OBVIOUS
<1>3. Operand(HaltIf(d.rh # 0, d)) \in Operands(K)
  BY <1>1, <1>2, HaltIfType
<1> QED
  BY <1>3 DEF OnlyZero, d

LEMMA StoreHandlers ==
  ASSUME NEW K, NEW W, Closed(K, W), NEW m \in K
  PROVE  /\ mov_byte_RM_R(m) \in Ended(K) /\ mov_word_RM_R(m) \in Ended(K)
         /\ mov_byte_RM_IMM(m) \in Ended(K) /\ mov_word_RM_IMM(m) \in Ended(K)
<1>1. 8 \in W /\ OpSize(m) \in W /\ W \subseteq Widths
  BY ClosedUnder, ClosedSteps
<1>2. ASSUME NEW w \in W
      PROVE  StoreReg(w, Decode(m)) \in Ended(K)
  <2> DEFINE o == Decode(m)
  <2>1. o \in Operands(K)
    BY ClosedUnder, DecodeType
  <2> HIDE DEF o
  <2>2. o.m \in K /\ o.m \in Machines /\ o.rh \in 0..7
    BY <2>1, OperandHas, ClosedUnder
  <2>3. Reg(o.m, w, o.rh) \in Values(w)
    BY <1>1, <2>2, RegType
  <2>4. Store(o.m, w, o, Reg(o.m, w, o.rh)) \in K
    BY <2>1, <2>2, <2>3, ClosedUnder, OperandHas, StoreType
  <2> QED
    BY <2>4, EndOf DEF StoreReg, o
<1>3. ASSUME NEW w \in W
      PROVE  StoreImm(w, OnlyZero(fetch_decode_modrm(m))) \in Ended(K)
  <2> DEFINE o == OnlyZero(fetch_decode_modrm(m))
             i == fetch_imm(o.m, w)
  <2>1. o \in Operands(K)
    BY OnlyZeroType
  <2> HIDE DEF o
  <2>2. o.m \in K
    BY <2>1, OperandHas
  <2>3. i.m \in K /\ i.v \in Values(w)
    BY <2>2, FetchedImm
  <2> HIDE DEF i
  <2>4. StoreFrom(w, o, i) \in Ended(K)
    BY <2>1, <2>3, StoreFromType
  <2> QED
    BY <2>4 DEF StoreImm, o, i
<1> QED
  BY <1>1, <1>2, <1>3 DEF mov_byte_RM_R, mov_word_RM_R, mov_byte_RM_IMM, mov_word_RM_IMM

LEMMA MovImmType ==
  ASSUME NEW K, NEW W, Closed(K, W), NEW m \in K, NEW w \in W, NEW n \in 0..7
  PROVE  MovImm(w, m, n) \in Ended(K)
<1> DEFINE i == fetch_imm(m, w)
<1>1. i.m \in K /\ i.v \in Values(w)
  BY FetchedImm
<1> HIDE DEF i
<1>2. SetFrom(w, n, i) \in Ended(K)
  BY <1>1, SetFromType
<1> QED
  BY <1>2 DEF MovImm, i

LEMMA MovImmHandlers ==
  ASSUME NEW K, NEW W, Closed(K, W), NEW m \in K
  PROVE  /\ mov_byte_AL_IMM(m) \in Ended(K) /\ mov_byte_CL_IMM(m) \in Ended(K)
         /\ mov_byte_DL_IMM(m) \in Ended(K) /\ mov_byte_BL_IMM(m) \in Ended(K)
         /\ mov_byte_AH_IMM(m) \in Ended(K) /\ mov_byte_CH_IMM(m) \in Ended(K)
         /\ mov_byte_DH_IMM(m) \in Ended(K) /\ mov_byte_BH_IMM(m) \in Ended(K)
         /\ mov_word_AX_IMM(m) \in Ended(K) /\ mov_word_CX_IMM(m) \in Ended(K)
         /\ mov_word_DX_IMM(m) \in Ended(K) /\ mov_word_BX_IMM(m) \in Ended(K)
         /\ mov_word_SP_IMM(m) \in Ended(K) /\ mov_word_BP_IMM(m) \in Ended(K)
         /\ mov_word_SI_IMM(m) \in Ended(K) /\ mov_word_DI_IMM(m) \in Ended(K)
<1>1. 8 \in W /\ OpSize(m) \in W
  BY ClosedUnder, ClosedSteps
<1>2. \A n \in 0..7 : MovImm(8, m, n) \in Ended(K) /\ MovImm(OpSize(m), m, n) \in Ended(K)
  BY <1>1, MovImmType
<1> QED
  BY <1>2, RegisterNumbers
     DEF mov_byte_AL_IMM, mov_byte_CL_IMM, mov_byte_DL_IMM, mov_byte_BL_IMM,
         mov_byte_AH_IMM, mov_byte_CH_IMM, mov_byte_DH_IMM, mov_byte_BH_IMM,
         mov_word_AX_IMM, mov_word_CX_IMM, mov_word_DX_IMM, mov_word_BX_IMM,
         mov_word_SP_IMM, mov_word_BP_IMM, mov_word_SI_IMM, mov_word_DI_IMM

LEMMA MovAddressHandlers ==
  ASSUME NEW K, NEW W, Closed(K, W), NEW m \in K
  PROVE  /\ mov_AL_M_IMM(m) \in Ended(K) /\ mov_AX_M_IMM(m) \in Ended(K)
         /\ mov_M_AL_IMM(m) \in Ended(K) /\ mov_M_AX_IMM(m) \in Ended(K)
<1> DEFINE i == fetch_word_imm(m)
<1>1. 8 \in W /\ OpSize(m) \in W /\ W \subseteq Widths /\ AX \in 0..7
  BY ClosedUnder, ClosedSteps, RegisterNumbers
<1>2. i \in Read(K, 16)
  BY ClosedUnder, FetchType
<1>3. 16 \in Widths
  BY DEF Widths
<1> HIDE DEF i
<1>4. i.m \in K /\ i.m \in Machines /\ i.v \in Int
  BY <1>2, <1>3, ReadHas, ClosedUnder
<1>5. ASSUME NEW w \in W
      PROVE  MovA_M(w, m) \in Ended(K) /\ MovM_A(w, m) \in Ended(K)
  <2> DEFINE d == FetchAt(w, i)
  <2>1. w \in Widths
    BY <1>1
  <2>2. d \in Read(K, w)
    BY <1>4, <2>1, ClosedUnder, FetchDataType DEF FetchAt
  <2> HIDE DEF d
  <2>3. SetFrom(w, AX, d) \in Ended(K)
    BY <1>1, <2>1, <2>2, ReadHas, SetFromType
  <2>4. Reg(i.m, w, AX) \in Nat
    BY <1>1, <1>4, <2>1, RegType
  <2>5. store_data(i.m, w, i.v, Reg(i.m, w, AX)) \in K
    BY <1>4, <2>1, <2>4, ClosedUnder, StoreDataType
  <2>6. StoreAt(w, i) \in Ended(K)
    BY <2>5, EndOf DEF StoreAt
  <2> QED
    BY <2>3, <2>6 DEF MovA_M, MovM_A, d, i
<1> QED
  BY <1>1, <1>5 DEF mov_AL_M_IMM, mov_AX_M_IMM, mov_M_AL_IMM, mov_M_AX_IMM

LEMMA SegmentNames ==
  /\ {"ES", "CS", "SS", "DS", "FS", "GS"} = Segments
  /\ \A n \in 0..7 : IsSegment(n) => decode_rm_seg_register[n + 1] \in Segments
<1>1. {"ES", "CS", "SS", "DS", "FS", "GS"} = Segments
  BY DEF Segments
<1>2. ASSUME NEW n \in 0..7, IsSegment(n)
      PROVE  decode_rm_seg_register[n + 1] \in Segments
  <2>1. n \in 0..5
    BY <1>2 DEF IsSegment
  <2> QED
    BY <2>1 DEF decode_rm_seg_register, Segments
<1> QED
  BY <1>1, <1>2

LEMMA SegmentHandlers ==
  ASSUME NEW K, NEW W, Closed(K, W), NEW m \in K
  PROVE  mov_word_RM_SR(m) \in Ended(K) /\ mov_word_SR_RM(m) \in Ended(K)
<1>1. mov_word_RM_SR(m) \in Ended(K)
  <2> DEFINE o == Decode(m)
  <2>1. o \in Operands(K)
    BY ClosedUnder, DecodeType
  <2> HIDE DEF o
  <2>2. o.m \in K /\ o.m \in Machines /\ o.rh \in 0..7
    BY <2>1, OperandHas, ClosedUnder
  <2>3. ASSUME IsSegment(o.rh)
        PROVE  Store(o.m, 16, o, SegReg(o.m, o.rh)) \in K
    <3>1. SegReg(o.m, o.rh) \in Values(16)
      BY <2>2, <2>3, SegmentNames, SegType DEF SegReg
    <3> QED
      BY <2>1, <2>2, <3>1, ClosedUnder, OperandHas, StoreType
  <2>4. StoreSeg(o) \in Ended(K)
    BY <2>2, <2>3, EndOf DEF StoreSeg
  <2> QED
    BY <2>4 DEF mov_word_RM_SR, o
<1>2. mov_word_SR_RM(m) \in Ended(K)
  <2> DEFINE o == Loaded(16, Decode(m))
  <2>1. 16 \in W
    BY ClosedUnder
  <2>2. o.m \in K /\ o.rh \in 0..7 /\ o.v \in Values(16)
    BY <2>1, LoadedWithReg
  <2> HIDE DEF o
  <2>3. LoadSeg(o) \in Ended(K)
    BY <2>2, SegmentNames, SetFromType, EndOf DEF LoadSeg
  <2> QED
    BY <2>3 DEF mov_word_SR_RM, o
<1> QED
  BY <1>1, <1>2

LEMMA LeaType ==
  ASSUME NEW K, NEW W, Closed(K, W), NEW m \in K
  PROVE  lea_word_R_M(m) \in Ended(K)
<1> DEFINE o == Decode(m)
<1>1. o \in Operands(K)
  BY ClosedUnder, DecodeType
<1> HIDE DEF o
<1>2. o.m \in K /\ o.rh \in 0..7 /\ o.at \in Values(LongBits)
  BY <1>1, OperandHas
<1>3. o.at \in Int
  BY <1>2, ValuesNat, WidthAssumption
<1>4. SetReg16(o.m, o.rh, o.at) \in K
  BY <1>2, <1>3, ClosedUnder, SetWordType
<1>5. Lea(o) \in Ended(K)
  BY <1>2, <1>4, EndOf DEF Lea
<1> QED
  BY <1>5 DEF lea_word_R_M, o

LEMMA NextWordType ==
  ASSUME NEW K, NEW W, Closed(K, W), NEW m \in K, NEW o, o.at \in Values(LongBits)
  PROVE  NextWord(m, o) \in Read(K, 16)
<1>1. o.at \in Int /\ 16 \in Widths /\ LongBits \in Nat
  BY ValuesNat, WidthAssumption DEF Widths
<1> DEFINE a == o.at + 2
           b == Mod(LongBits, a)
<1>2. a \in Int
  BY <1>1
<1> HIDE DEF a
<1>3. b \in Int
  BY <1>1, <1>2, ModType
<1> HIDE DEF b
<1>4. fetch_data(m, 16, b) \in Read(K, 16)
  BY <1>1, <1>3, ClosedUnder, FetchDataType
<1> QED
  BY <1>4 DEF NextWord, a, b

LEMMA LoadFarType ==
  ASSUME NEW K, NEW W, Closed(K, W), NEW m \in K, NEW name \in Segments
  PROVE  LoadFar(m, name) \in Ended(K)
<1> DEFINE o == Decode(m)
           l == Loaded(16, o)
<1>1. 16 \in W /\ 16 \in Widths
  BY ClosedUnder DEF Widths
<1>2. o.m \in K
  BY ClosedUnder, DecodeType, OperandHas
<1>3. l.m \in K /\ l.rh \in 0..7 /\ l.v \in Values(16) /\ l.at \in Values(LongBits)
  BY <1>1, LoadedWithReg
<1> HIDE DEF o, l
<1>4. l.v \in Int
  BY <1>1, <1>3, KnownGrow
<1>5. SetReg16(l.m, l.rh, l.v) \in K
  BY <1>3, <1>4, ClosedUnder, SetWordType
<1>6. NextWord(SetReg16(l.m, l.rh, l.v), l) \in Read(K, 16)
  BY <1>3, <1>5, NextWordType
<1>7. Far(l, name) \in Ended(K)
  BY <1>1, <1>6, ReadHas, SetFromType DEF Far
<1>8. LoadFarAt(o, name) \in Ended(K)
  BY <1>2, <1>7, EndOf DEF LoadFarAt, l
<1> QED
  BY <1>8 DEF LoadFar, o

LEMMA ExchangeHandlers ==
  ASSUME NEW K, NEW W, Closed(K, W), NEW m \in K
  PROVE  xchg_byte_RM_R(m) \in Ended(K) /\ xchg_word_RM_R(m) \in Ended(K)
<1>1. 8 \in W /\ OpSize(m) \in W
  BY ClosedUnder, ClosedSteps
<1>2. ASSUME NEW w \in W
      PROVE  Exchange(w, Loaded(w, Decode(m))) \in Ended(K)
  <2> DEFINE o == Loaded(w, Decode(m))
  <2>1. /\ o.m \in K /\ o.rh \in 0..7 /\ o.mem \in BOOLEAN /\ o.v \in Values(w)
        /\ o.at \in Values(LongBits) /\ (~o.mem => o.at \in 0..7) /\ Reg(o.m, w, o.rh) \in Values(w)
    BY LoadedWithReg
  <2> HIDE DEF o
  <2>2. SetReg(o.m, w, o.rh, o.v) \in K
    BY <2>1, ClosedSteps
  <2>3. Store(SetReg(o.m, w, o.rh, o.v), w, o, Reg(o.m, w, o.rh)) \in K
    BY <2>1, <2>2, ClosedUnder, StoreType
  <2> QED
    BY <2>3, EndOf DEF Exchange, o
<1> QED
  BY <1>1, <1>2 DEF xchg_byte_RM_R, xchg_word_RM_R

LEMMA ExchangeAXHandlers ==
  ASSUME NEW K, NEW W, Closed(K, W), NEW m \in K
  PROVE  /\ xchg_word_AX_CX(m) \in Ended(K) /\ xchg_word_AX_DX(m) \in Ended(K) /\ xchg_word_AX_BX(m) \in Ended(K)
         /\ xchg_word_AX_SP(m) \in Ended(K) /\ xchg_word_AX_BP(m) \in Ended(K)
         /\ xchg_word_AX_SI(m) \in Ended(K) /\ xchg_word_AX_DI(m) \in Ended(K)
<1>1. ASSUME NEW n \in 0..7
      PROVE  XchgAX(m, n) \in Ended(K)
  <2> DEFINE w == OpSize(m)
  <2>1. w \in W /\ AX \in 0..7
    BY ClosedSteps, RegisterNumbers
  <2> HIDE DEF w
  <2>2. Reg(m, w, n) \in Values(w) /\ Reg(m, w, AX) \in Values(w)
    BY <2>1, OnRegisters
  <2>3. SetReg(m, w, AX, Reg(m, w, n)) \in K
    BY <2>1, <2>2, ClosedSteps
  <2>4. SetReg(SetReg(m, w, AX, Reg(m, w, n)), w, n, Reg(m, w, AX)) \in K
    BY <2>1, <2>2, <2>3, ClosedSteps
  <2> QED
    BY <2>4, EndOf DEF XchgAX, w
<1> QED
  BY <1>1, RegisterNumbers
     DEF xchg_word_AX_CX, xchg_word_AX_DX, xchg_word_AX_BX, xchg_word_AX_SP,
         xchg_word_AX_BP, xchg_word_AX_SI, xchg_word_AX_DI

LEMMA OtherDataHandlers ==
  ASSUME NEW K, NEW W, Closed(K, W), NEW m \in K
  PROVE  cbw(m) \in Ended(K) /\ cwd(m) \in Ended(K) /\ xlat(m) \in Ended(K)
<1>1. /\ m \in Machines /\ OpSize(m) \in W /\ OpSize(m) \in Widths /\ 8 \in W /\ 16 \in W
      /\ AX \in 0..7 /\ AL \in 0..7 /\ DX \in 0..7 /\ BX \in 0..7
      /\ LongBits \in Nat /\ LongBits # 8 /\ LongBits # 16 /\ 8 \in Widths
  BY ClosedSteps, ClosedUnder, RegisterNumbers, WidthAssumption DEF Widths
<1>2. /\ Reg16(m, AX) \in Values(16) /\ Reg8(m, AL) \in Values(8)
      /\ Reg16(m, BX) \in Nat /\ Reg8(m, AL) \in Nat
  BY <1>1, RegType
<1>3. Signed(16, Reg16(m, AX)) \in Int /\ Signed(8, Reg8(m, AL)) \in Int
  BY <1>2, SignedType
<1>4. cbw(m) \in Ended(K)
  <2> DEFINE s == Signed(16, Reg16(m, AX))
  <2>1. SetReg16(m, AX, Signed(8, Reg8(m, AL))) \in K
    BY <1>1, <1>3, ClosedUnder, SetWordType
  <2>2. ASSUME OpSize(m) = LongBits
        PROVE  SetReg32(m, AX, s) \in K
    <3>1. s \in Int
      BY <1>3
    <3> HIDE DEF s
    <3>2. Mod(LongBits, s) \in Values(LongBits)
      BY <1>1, <3>1, ModType
    <3>3. SetReg(m, LongBits, AX, Mod(LongBits, s)) \in K
      BY <1>1, <2>2, <3>2, ClosedSteps
    <3>4. SetReg(m, LongBits, AX, Mod(LongBits, s)) = SetReg32(m, AX, Mod(LongBits, s))
      BY <1>1 DEF SetReg
    <3>5. Mod(LongBits, Mod(LongBits, s)) = Mod(LongBits, s)
      BY <1>1, <3>1, PowPositive DEF Mod
    <3> QED
      BY <3>3, <3>4, <3>5 DEF SetReg32
  <2> QED
    BY <2>1, <2>2, EndOf DEF cbw
<1>5. cwd(m) \in Ended(K)
  <2> DEFINE w == OpSize(m)
             v == IF Bit(Reg(m, w, AX), w - 1) THEN 2^w - 1 ELSE 0
  <2>1. w \in W /\ w \in Widths
    BY <1>1
  <2>2. w \in Nat
    BY <2>1, WidthType
  <2> HIDE DEF w
  <2>3. v \in Values(w)
    BY <2>2, PowPositive DEF Values
  <2> HIDE DEF v
  <2>4. SetReg(m, w, DX, v) \in K
    BY <1>1, <2>1, <2>3, ClosedSteps
  <2> QED
    BY <2>4, EndOf DEF cwd, w, v
<1>6. xlat(m) \in Ended(K)
  <2> DEFINE d == fetch_data(m, 8, Mod(16, Reg16(m, BX) + Reg8(m, AL)))
  <2>1. Mod(16, Reg16(m, BX) + Reg8(m, AL)) \in Int
    BY <1>2, ModType
  <2>2. d \in Read(K, 8)
    BY <1>1, <2>1, ClosedUnder, FetchDataType
  <2> HIDE DEF d
  <2>3. SetFrom(8, AL, d) \in Ended(K)
    BY <1>1, <2>2, ReadHas, SetFromType
  <2> QED
    BY <2>3 DEF xlat, d
<1> QED
  BY <1>4, <1>5, <1>6

(***************************************************************************)
(* The stack.                                                              *)
(***************************************************************************)
LEMMA PushedIs ==
  ASSUME NEW K, NEW W, Closed(K, W), NEW m \in K, NEW w \in W, NEW v, v \in Nat \/ v \in Values(w) \/ v \in Values(16)
  PROVE  push(m, w, v) \in K /\ Done(push(m, w, v)) \in Ended(K)
<1>1. w \in Widths /\ 16 \in Widths
  BY ClosedUnder DEF Widths
<1>2. v \in Nat
  BY <1>1, KnownGrow
<1>3. push(m, w, v) \in K
  BY <1>1, <1>2, ClosedUnder, PushType
<1> QED
  BY <1>3, EndOf

LEMMA PoppedIs ==
  ASSUME NEW K, NEW W, Closed(K, W), NEW m \in K, NEW w \in W
  PROVE  /\ pop(m, w) \in Read(K, w) /\ pop(m, w).m \in K
         /\ pop(m, w).v \in Values(w) /\ pop(m, w).v \in Nat
<1>1. w \in Widths
  BY ClosedUnder
<1>2. pop(m, w) \in Read(K, w)
  BY <1>1, ClosedUnder, PopType
<1> QED
  BY <1>1, <1>2, ReadHas

LEMMA PushRegType ==
  ASSUME NEW K, NEW W, Closed(K, W), NEW m \in K
  PROVE  /\ \A n \in 0..7 : PushReg(m, n) \in Ended(K) /\ PopReg(m, n) \in Ended(K)
         /\ \A name \in Segments : PushSeg(m, name) \in Ended(K) /\ PopSeg(m, name) \in Ended(K)
<1>1. OpSize(m) \in W /\ 16 \in W /\ m \in Machines
  BY ClosedUnder, ClosedSteps
<1>2. ASSUME NEW n \in 0..7
      PROVE  PushReg(m, n) \in Ended(K) /\ PopReg(m, n) \in Ended(K)
  <2> DEFINE w == OpSize(m)
             p == pop(m, w)
             v == Reg(m, w, n)
  <2>1. w \in W
    BY <1>1
  <2>2. v \in Values(w)
    BY <2>1, OnRegisters
  <2> HIDE DEF w, v
  <2>3. Done(push(m, w, v)) \in Ended(K)
    BY <2>1, <2>2, PushedIs
  <2>4. p.m \in K /\ p.v \in Values(w)
    BY <2>1, PoppedIs
  <2> HIDE DEF p
  <2>5. SetFrom(w, n, p) \in Ended(K)
    BY <2>1, <2>4, SetFromType
  <2> QED
    BY <2>3, <2>5 DEF PushReg, PopReg, w, v, p
<1>3. ASSUME NEW name \in Segments
      PROVE  PushSeg(m, name) \in Ended(K) /\ PopSeg(m, name) \in Ended(K)
  <2> DEFINE p == pop(m, 16)
  <2>1. m.seg[name] \in Values(16)
    BY <1>1, SegType
  <2>2. Done(push(m, 16, m.seg[name])) \in Ended(K)
    BY <1>1, <2>1, PushedIs
  <2>3. p.m \in K /\ p.v \in Values(16)
    BY <1>1, PoppedIs
  <2> HIDE DEF p
  <2>4. SegFrom(name, p) \in Ended(K)
    BY <2>3, SetFromType
  <2> QED
    BY <2>2, <2>4 DEF PushSeg, PopSeg, p
<1> QED
  BY <1>2, <1>3

LEMMA PushHandlers ==
  ASSUME NEW K, NEW W, Closed(K, W), NEW m \in K
  PROVE  /\ push_AX(m) \in Ended(K) /\ push_CX(m) \in Ended(K) /\ push_DX(m) \in Ended(K) /\ push_BX(m) \in Ended(K)
         /\ push_SP(m) \in Ended(K) /\ push_BP(m) \in Ended(K) /\ push_SI(m) \in Ended(K) /\ push_DI(m) \in Ended(K)
         /\ pop_AX(m) \in Ended(K) /\ pop_CX(m) \in Ended(K) /\ pop_DX(m) \in Ended(K) /\ pop_BX(m) \in Ended(K)
         /\ pop_SP(m) \in Ended(K) /\ pop_BP(m) \in Ended(K) /\ pop_SI(m) \in Ended(K) /\ pop_DI(m) \in Ended(K)
         /\ push_ES(m) \in Ended(K) /\ push_CS(m) \in Ended(K) /\ push_SS(m) \in Ended(K) /\ push_DS(m) \in Ended(K)
         /\ pop_ES(m) \in Ended(K) /\ pop_SS(m) \in Ended(K) /\ pop_DS(m) \in Ended(K)
         /\ push_FS(m) \in Ended(K) /\ push_GS(m) \in Ended(K) /\ pop_FS(m) \in Ended(K) /\ pop_GS(m) \in Ended(K)
<1>1. /\ push_AX(m) \in Ended(K) /\ push_CX(m) \in Ended(K) /\ push_DX(m) \in Ended(K) /\ push_BX(m) \in Ended(K)
      /\ push_SP(m) \in Ended(K) /\ push_BP(m) \in Ended(K) /\ push_SI(m) \in Ended(K) /\ push_DI(m) \in Ended(K)
  BY PushRegType, RegisterNumbers
     DEF push_AX, push_CX, push_DX, push_BX, push_SP, push_BP, push_SI, push_DI
<1>2. /\ pop_AX(m) \in Ended(K) /\ pop_CX(m) \in Ended(K) /\ pop_DX(m) \in Ended(K) /\ pop_BX(m) \in Ended(K)
      /\ pop_SP(m) \in Ended(K) /\ pop_BP(m) \in Ended(K) /\ pop_SI(m) \in Ended(K) /\ pop_DI(m) \in Ended(K)
  BY PushRegType, RegisterNumbers
     DEF pop_AX, pop_CX, pop_DX, pop_BX, pop_SP, pop_BP, pop_SI, pop_DI
<1>3. /\ push_ES(m) \in Ended(K) /\ push_CS(m) \in Ended(K) /\ push_SS(m) \in Ended(K) /\ push_DS(m) \in Ended(K)
      /\ push_FS(m) \in Ended(K) /\ push_GS(m) \in Ended(K)
  BY PushRegType, SegmentNames DEF push_ES, push_CS, push_SS, push_DS, push_FS, push_GS
<1>4. /\ pop_ES(m) \in Ended(K) /\ pop_SS(m) \in Ended(K) /\ pop_DS(m) \in Ended(K)
      /\ pop_FS(m) \in Ended(K) /\ pop_GS(m) \in Ended(K)
  BY PushRegType, SegmentNames DEF pop_ES, pop_SS, pop_DS, pop_FS, pop_GS
<1> QED
  BY <1>1, <1>2, <1>3, <1>4

LEMMA PushFromType ==
  ASSUME NEW K, NEW W, Closed(K, W), NEW w \in W, NEW i, i.m \in K, i.v \in Values(w)
  PROVE  PushFrom(w, i) \in Ended(K)
BY PushedIs DEF PushFrom

LEMMA PushImmHandlers ==
  ASSUME NEW K, NEW W, Closed(K, W), NEW m \in K
  PROVE  push_word_IMM(m) \in Ended(K) /\ push_byte_IMM(m) \in Ended(K)
<1> DEFINE w == OpSize(m)
           i == fetch_imm(m, w)
           b == fetch_byte_imm(m)
           s == SignedImm(w, 8, b)
<1>1. w \in W /\ w \in Widths /\ 8 \in Widths
  BY ClosedSteps DEF Widths
<1> HIDE DEF w
<1>2. i.m \in K /\ i.v \in Values(w)
  BY <1>1, FetchedImm
<1> HIDE DEF i
<1>3. PushFrom(w, i) \in Ended(K)
  BY <1>1, <1>2, PushFromType
<1>4. b \in Read(K, 8)
  BY ClosedUnder, FetchType
<1> HIDE DEF b
<1>5. s.m \in K /\ s.v \in Values(w)
  BY <1>1, <1>4, SignedImmType, ReadHas
<1> HIDE DEF s
<1>6. PushFrom(w, s) \in Ended(K)
  BY <1>1, <1>5, PushFromType
<1> QED
  BY <1>3, <1>6 DEF push_word_IMM, push_byte_IMM, w, i, b, s

LEMMA PopRMType ==
  ASSUME NEW K, NEW W, Closed(K, W), NEW m \in K
  PROVE  pop_RM(m) \in Ended(K)
<1> DEFINE w == OpSize(m)
           o == OnlyZero(fetch_decode_modrm(m))
           p == pop(o.m, w)
<1>1. w \in W
  BY ClosedSteps
<1> HIDE DEF w
<1>2. o \in Operands(K) /\ o.m \in K
  BY OnlyZeroType, OperandHas
<1> HIDE DEF o
<1>3. p.m \in K /\ p.v \in Values(w)
  BY <1>1, <1>2, PoppedIs
<1> HIDE DEF p
<1>4. StoreFrom(w, o, p) \in Ended(K)
  BY <1>1, <1>2, <1>3, StoreFromType
<1> QED
  BY <1>4 DEF pop_RM, PopTo, w, o, p

LEMMA PushAllHandler ==
  ASSUME NEW K, NEW W, Closed(K, W), NEW m \in K
  PROVE  push_all(m) \in Ended(K)
<1> DEFINE w == OpSize(m)
           vs == [n \in 1..8 |-> Reg(m, w, n - 1)]
<1>1. w \in Widths /\ m \in Machines
  BY ClosedSteps
<1> HIDE DEF w
<1>2. ASSUME NEW n \in 1..8
      PROVE  Reg(m, w, n - 1) \in Nat
  <2>1. n - 1 \in 0..7
    OBVIOUS
  <2> QED
    BY <1>1, <2>1, RegType
<1>3. vs \in [1..8 -> Nat] /\ Len(vs) = 8 /\ 8 \in Nat
  BY <1>2
<1> HIDE DEF vs
<1>4. PushAll(m, w, vs) \in K
  BY <1>1, <1>3, ClosedUnder, PushAllType
<1> QED
  BY <1>4, EndOf DEF push_all, w, vs

LEMMA PopNextType ==
  ASSUME NEW K, NEW W, Closed(K, W), NEW m \in K, NEW w \in W, NEW n \in 0..7
  PROVE  PopNext(w, n, m) \in K
<1>1. w \in Widths /\ m \in Machines /\ SP \in 0..7
  BY ClosedUnder, ClosedSteps, RegisterNumbers
<1>2. Reg(m, w, SP) \in Nat /\ Bytes(w) \in Nat /\ w \in Nat
  BY <1>1, RegType, WidthType
<1> DEFINE x == Reg(m, w, SP) + Bytes(w)
           v == Mod(w, x)
           q == pop(m, w)
<1>3. x \in Int
  BY <1>2
<1> HIDE DEF x
<1>4. v \in Values(w)
  BY <1>2, <1>3, ModType
<1> HIDE DEF v
<1>5. SetReg(m, w, SP, v) \in K
  BY <1>1, <1>4, ClosedSteps
<1>6. q.m \in K /\ q.v \in Values(w)
  BY PoppedIs
<1> HIDE DEF q
<1>7. SetReg(q.m, w, n, q.v) \in K
  BY <1>6, ClosedSteps
<1> QED
  BY <1>5, <1>7 DEF PopNext, v, x, q

LEMMA PopAllHandler ==
  ASSUME NEW K, NEW W, Closed(K, W), NEW m \in K
  PROVE  pop_all(m) \in Ended(K)
<1> DEFINE w == OpSize(m)
<1>1. w \in W
  BY ClosedSteps
<1> HIDE DEF w
<1> DEFINE after[i \in 0..8] == IF i = 0 THEN m ELSE PopNext(w, 8 - i, after[i - 1])
           step == [i \in 1..8 |-> [x \in K |-> PopNext(w, 8 - i, x)]]
<1>2. pop_all(m) = Done(after[8])
  BY DEF pop_all, Iterate, w
<1>3. ASSUME NEW x \in K, NEW i \in 1..8
      PROVE  PopNext(w, 8 - i, x) \in K
  <2>1. 8 - i \in 0..7
    OBVIOUS
  <2> QED
    BY <1>1, <2>1, PopNextType
<1>4. step \in [1..8 -> [K -> K]] /\ \A i \in 1..8 : \A x \in K : step[i][x] = PopNext(w, 8 - i, x)
  BY <1>3
<1> HIDE DEF step
<1>5. PICK f : IterateOf(f, 8, K, m, step)
  BY <1>4, Recursion
<1>6. f \in [0..8 -> K] /\ f[0] = m /\ \A i \in 1..8 : f[i] = PopNext(w, 8 - i, f[i - 1])
  BY <1>4, <1>5 DEF IterateOf
<1>7. f = [i \in 0..8 |-> IF i = 0 THEN m ELSE PopNext(w, 8 - i, f[i - 1])]
  BY <1>6
<1>8. after = [i \in 0..8 |-> IF i = 0 THEN m ELSE PopNext(w, 8 - i, after[i - 1])]
  BY <1>7
<1> HIDE DEF after
<1>9. after[0] \in K
  BY <1>8
<1>10. ASSUME NEW i \in 1..8, after[i - 1] \in K
       PROVE  after[i] \in K
  <2>1. i \in 0..8 /\ i # 0
    OBVIOUS
  <2> QED
    BY <1>3, <1>8, <1>10, <2>1
<1>11. after[8] \in K
  BY <1>9, <1>10, KeptByStepsIn
<1> QED
  BY <1>2, <1>11, EndOf

(***************************************************************************)
(* Flags.                                                                  *)
(***************************************************************************)
LEMMA FlagsFromType ==
  ASSUME NEW K, NEW W, Closed(K, W), NEW w \in Widths, NEW p \in Read(K, w)
  PROVE  FlagsFrom(p) \in Ended(K)
<1>1. p.m \in K
  BY ReadHas
<1>2. Bits(p.v) \in SUBSET FlagBits
  BY DEF Bits, FlagBits
<1>3. Flags(p.m, Bits(p.v)) \in K
  BY <1>1, <1>2, ClosedSteps
<1> QED
  BY <1>3, EndOf DEF FlagsFrom

LEMMA FlagNumber ==
  /\ \A f : Number((f \cap F_MSK) \cup F_ALWAYS_ON) \in Values(16)
  /\ \A f \in SUBSET FlagBits : Number({b \in f : b < 8} \cup {1}) \in Values(8)
  /\ \A f \in SUBSET FlagBits : Number({b \in f : b < 16}) \in Values(16)
<1>1. 8 \in Widths /\ 16 \in Widths
  BY DEF Widths
<1>2. F_MSK \subseteq 0..15 /\ F_ALWAYS_ON \subseteq 0..15
  BY DEF F_MSK, F_ALWAYS_ON, CF, PF, AF, ZF, SF, TF, IF_, DF, OF
<1>3. ASSUME NEW f
      PROVE  Number((f \cap F_MSK) \cup F_ALWAYS_ON) \in Values(16)
  <2> DEFINE b == (f \cap F_MSK) \cup F_ALWAYS_ON
  <2>1. b \subseteq 0..15
    BY <1>2
  <2> HIDE DEF b
  <2>2. 0..15 = 0..16 - 1
    OBVIOUS
  <2>3. Number(b) \in Values(16)
    BY <1>1, <2>1, <2>2, NumberType
  <2> QED
    BY <2>3 DEF b
<1>4. ASSUME NEW f \in SUBSET FlagBits
      PROVE  Number({b \in f : b < 8} \cup {1}) \in Values(8) /\ Number({b \in f : b < 16}) \in Values(16)
  <2> DEFINE c == {b \in f : b < 8} \cup {1}
             d == {b \in f : b < 16}
  <2>1. LongBits \in Nat /\ f \subseteq 0..LongBits - 1
    BY WidthAssumption DEF FlagBits
  <2>2. ASSUME NEW x \in d
        PROVE  x \in 0..15
    BY <2>1
  <2>3. ASSUME NEW x \in c
        PROVE  x \in 0..7
    BY <2>1
  <2> HIDE DEF c, d
  <2>4. c \subseteq 0..8 - 1 /\ d \subseteq 0..16 - 1
    BY <2>2, <2>3
  <2>5. Number(c) \in Values(8) /\ Number(d) \in Values(16)
    BY <1>1, <2>4, NumberType
  <2> QED
    BY <2>5 DEF c, d
<1> QED
  BY <1>3, <1>4

LEMMA FlagHandlers ==
  ASSUME NEW K, NEW W, Closed(K, W), NEW m \in K
  PROVE  /\ pushf_word(m) \in Ended(K) /\ popf_word(m) \in Ended(K) /\ sahf(m) \in Ended(K) /\ lahf(m) \in Ended(K)
         /\ clc(m) \in Ended(K) /\ stc(m) \in Ended(K) /\ cmc(m) \in Ended(K) /\ cli(m) \in Ended(K)
         /\ sti(m) \in Ended(K) /\ cld(m) \in Ended(K) /\ std(m) \in Ended(K)
<1>1. /\ m \in Machines /\ OpSize(m) \in W /\ OpSize(m) \in Widths /\ OpSize(m) \in Int /\ 8 \in W /\ 16 \in W
      /\ AH \in 0..7 /\ m.f \in SUBSET FlagBits
  BY ClosedSteps, ClosedUnder, RegisterNumbers, MachineFlags, WidthType
<1>2. pushf_word(m) \in Ended(K)
  <2> DEFINE v == Number((m.f \cap F_MSK) \cup F_ALWAYS_ON)
  <2>1. v \in Values(16)
    BY FlagNumber
  <2> HIDE DEF v
  <2> QED
    BY <1>1, <2>1, PushedIs DEF pushf_word, v
<1>3. popf_word(m) \in Ended(K)
  BY <1>1, PoppedIs, FlagsFromType DEF popf_word
<1>4. ASSUME NEW f \in SUBSET FlagBits
      PROVE  Done(Flags(m, f)) \in Ended(K)
  BY ClosedSteps, EndOf
<1>5. sahf(m) \in Ended(K)
  <2>1. {b \in m.f : b >= 8} \cup Bits(Reg8(m, AH)) \in SUBSET FlagBits
    BY <1>1 DEF Bits, FlagBits
  <2> QED
    BY <1>4, <2>1 DEF sahf
<1>6. lahf(m) \in Ended(K)
  <2> DEFINE v == Number({b \in m.f : b < 8} \cup {1})
  <2>1. v \in Values(8)
    BY <1>1, FlagNumber
  <2> HIDE DEF v
  <2>2. SetReg(m, 8, AH, v) \in K
    BY <1>1, <2>1, ClosedSteps
  <2>3. SetReg(m, 8, AH, v) = SetReg8(m, AH, v)
    BY DEF SetReg
  <2> QED
    BY <2>2, <2>3, EndOf DEF lahf, v
<1>7. /\ m.f \ {CF} \in SUBSET FlagBits /\ m.f \cup {CF} \in SUBSET FlagBits
      /\ SetIf(m.f, CF \notin m.f, CF) \in SUBSET FlagBits
      /\ m.f \ {IF_} \in SUBSET FlagBits /\ m.f \cup {IF_} \in SUBSET FlagBits
      /\ m.f \ {DF} \in SUBSET FlagBits /\ m.f \cup {DF} \in SUBSET FlagBits
  BY <1>1, FlagsKnown DEF SetIf
<1>8. /\ clc(m) \in Ended(K) /\ stc(m) \in Ended(K) /\ cmc(m) \in Ended(K) /\ cli(m) \in Ended(K)
      /\ sti(m) \in Ended(K) /\ cld(m) \in Ended(K) /\ std(m) \in Ended(K)
  BY <1>4, <1>7 DEF clc, stc, cmc, cli, sti, cld, std
<1> QED
  BY <1>2, <1>3, <1>5, <1>6, <1>8

(***************************************************************************)
(* Frames.                                                                 *)
(***************************************************************************)
LEMMA CopyLinkType ==
  ASSUME NEW K, NEW W, Closed(K, W), NEW m \in K
  PROVE  CopyLink(m) \in K
<1> DEFINE a == Reg16(m, BP) - 2
           n == SetReg16(m, BP, a)
           d == fetch_data_abs(n, 16, n.seg["SS"], Reg16(n, BP))
<1>1. BP \in 0..7 /\ m \in Machines /\ 16 \in W /\ 16 \in Widths /\ "SS" \in Segments
  BY ClosedUnder, RegisterNumbers, SegmentNames DEF Widths
<1>2. Reg16(m, BP) \in Nat
  BY <1>1, RegType
<1>3. a \in Int
  BY <1>2
<1> HIDE DEF a
<1>4. n \in K /\ n \in Machines
  BY <1>1, <1>3, ClosedUnder, SetWordType
<1> HIDE DEF n
<1>5. n.seg["SS"] \in Int /\ Reg16(n, BP) \in Int
  BY <1>1, <1>4, SegType, RegType
<1>6. d \in Read(K, 16)
  BY <1>1, <1>4, <1>5, ClosedUnder, ReadAbsType
<1> HIDE DEF d
<1>7. d.m \in K /\ d.v \in Nat
  BY <1>1, <1>6, ReadHas
<1>8. push(d.m, 16, d.v) \in K
  BY <1>1, <1>7, PushedIs
<1> QED
  BY <1>8 DEF CopyLink, PushLink, PushWord, d, n, a

LEMMA CopyLinksType ==
  ASSUME NEW K, NEW W, Closed(K, W), NEW m \in K, NEW n \in Nat
  PROVE  Repeat(m, n, CopyLink) \in K
<1> DEFINE after[i \in 0..n] == IF i = 0 THEN m ELSE CopyLink(after[i - 1])
           step == [i \in 1..n |-> [x \in K |-> CopyLink(x)]]
<1>1. Repeat(m, n, CopyLink) = after[n]
  BY DEF Repeat, Iterate
<1>2. \A x \in K : CopyLink(x) \in K
  BY CopyLinkType
<1>3. step \in [1..n -> [K -> K]] /\ \A i \in 1..n : \A x \in K : step[i][x] = CopyLink(x)
  BY <1>2
<1> HIDE DEF step
<1>4. PICK f : IterateOf(f, n, K, m, step)
  BY <1>3, Recursion
<1>5. f \in [0..n -> K] /\ f[0] = m /\ \A i \in 1..n : f[i] = CopyLink(f[i - 1])
  BY <1>3, <1>4 DEF IterateOf
<1>6. f = [i \in 0..n |-> IF i = 0 THEN m ELSE CopyLink(f[i - 1])]
  BY <1>5
<1>7. after = [i \in 0..n |-> IF i = 0 THEN m ELSE CopyLink(after[i - 1])]
  BY <1>6
<1> HIDE DEF after
<1>8. after[0] \in K
  BY <1>7
<1>9. ASSUME NEW i \in 1..n, after[i - 1] \in K
      PROVE  after[i] \in K
  <2>1. i \in 0..n /\ i # 0
    OBVIOUS
  <2> QED
    BY <1>2, <1>7, <1>9, <2>1
<1>10. after[n] \in K
  BY <1>8, <1>9, KeptByStepsIn
<1> QED
  BY <1>1, <1>10

LEMMA FrameType ==
  ASSUME NEW K, NEW W, Closed(K, W), NEW m \in K, NEW local \in Nat, NEW nesting \in Nat
  PROVE  Frame(m, local, nesting) \in K
<1> DEFINE frame == Reg16(m, SP)
           n == IF nesting > 0 THEN push(Repeat(m, nesting - 1, CopyLink), 16, frame) ELSE m
           p == SetReg16(n, BP, frame)
           a == Reg16(p, SP) - local
<1>1. BP \in 0..7 /\ SP \in 0..7 /\ m \in Machines /\ 16 \in W
  BY ClosedUnder, RegisterNumbers
<1>2. frame \in Nat /\ frame \in Int
  BY <1>1, RegType
<1> HIDE DEF frame
<1>3. n \in K
  <2>1. CASE nesting > 0
    <3> DEFINE k == nesting - 1
    <3>1. k \in Nat
      BY <2>1
    <3> HIDE DEF k
    <3>2. Repeat(m, k, CopyLink) \in K
      BY <3>1, CopyLinksType
    <3>3. push(Repeat(m, k, CopyLink), 16, frame) \in K
      BY <1>1, <1>2, <3>2, PushedIs
    <3> QED
      BY <2>1, <3>3 DEF k
  <2>2. CASE ~(nesting > 0)
    BY <2>2
  <2> QED
    BY <2>1, <2>2
<1> HIDE DEF n
<1>4. p \in K /\ p \in Machines
  BY <1>1, <1>2, <1>3, ClosedUnder, SetWordType
<1> HIDE DEF p
<1>5. Reg16(p, SP) \in Nat
  BY <1>1, <1>4, RegType
<1>6. a \in Int
  BY <1>5
<1> HIDE DEF a
<1>7. SetReg16(p, SP, a) \in K
  BY <1>1, <1>4, <1>6, ClosedUnder, SetWordType
<1> QED
  BY <1>7 DEF Frame, TakeLocal, PushFrame, a, p, n, frame

LEMMA FrameHandlers ==
  ASSUME NEW K, NEW W, Closed(K, W), NEW m \in K
  PROVE  enter(m) \in Ended(K) /\ leave(m) \in Ended(K)
<1>1. BP \in 0..7 /\ SP \in 0..7 /\ m \in Machines /\ 16 \in W /\ 16 \in Widths /\ 8 \in Widths
  BY ClosedUnder, RegisterNumbers DEF Widths
<1>2. enter(m) \in Ended(K)
  <2> DEFINE l == fetch_word_imm(m)
             i == fetch_byte_imm(l.m)
             v == Reg16(i.m, BP)
  <2>1. l.m \in K /\ l.v \in Nat
    BY <1>1, ClosedUnder, FetchType, ReadHas
  <2> HIDE DEF l
  <2>2. i.m \in K /\ i.v \in Nat /\ i.m \in Machines
    BY <1>1, <2>1, ClosedUnder, FetchType, ReadHas
  <2> HIDE DEF i
  <2>3. v \in Nat
    BY <1>1, <2>2, RegType
  <2> HIDE DEF v
  <2>4. push(i.m, 16, v) \in K
    BY <1>1, <2>2, <2>3, PushedIs
  <2>5. Frame(push(i.m, 16, v), l.v, i.v) \in K
    BY <2>1, <2>2, <2>4, FrameType
  <2> QED
    BY <2>5, EndOf DEF enter, EnterLocal, EnterNested, l, i, v
<1>3. leave(m) \in Ended(K)
  <2> DEFINE n == SetReg16(m, SP, Reg16(m, BP))
             p == pop(n, 16)
  <2>1. Reg16(m, BP) \in Int
    BY <1>1, RegType
  <2>2. n \in K
    BY <1>1, <2>1, ClosedUnder, SetWordType
  <2> HIDE DEF n
  <2>3. p.m \in K /\ p.v \in Values(16)
    BY <1>1, <2>2, PoppedIs
  <2> HIDE DEF p
  <2>4. SetFrom(16, BP, p) \in Ended(K)
    BY <1>1, <2>3, SetFromType
  <2> QED
    BY <2>4 DEF leave, n, p
<1> QED
  BY <1>2, <1>3

(***************************************************************************)
(* Jumps, calls and returns.                                               *)
(***************************************************************************)
LEMMA RelativeType ==
  ASSUME NEW K, NEW W, Closed(K, W), NEW m \in K, NEW w \in Widths
  PROVE  Relative(m, w) \in Read(K, 16)
<1> DEFINE i == fetch_imm(m, w)
           a == i.m.ip + Signed(w, i.v)
<1>1. i.m \in K /\ i.v \in Values(w) /\ i.m \in Machines
  BY ClosedUnder, FetchImmType, ReadHas
<1> HIDE DEF i
<1>2. i.m.ip \in Nat
  BY <1>1, SegType, SegmentNames
<1>3. w \in Nat /\ w >= 1
  BY WidthType
<1>4. Signed(w, i.v) \in Int
  BY <1>1, <1>3, SignedType
<1>5. a \in Int
  BY <1>2, <1>4
<1> HIDE DEF a
<1>6. Mod(16, a) \in Values(16)
  BY <1>5, ModType
<1>7. Relative(m, w) = [i EXCEPT !.v = Mod(16, a)]
  BY DEF Relative, Target, i, a
<1>8. i \in Read(K, w)
  BY ClosedUnder, FetchImmType DEF i
<1>9. [i EXCEPT !.v = Mod(16, a)] \in Read(K, 16)
  BY <1>6, <1>8 DEF Read
<1> QED
  BY <1>7, <1>9

LEMMA SetIpIn ==
  ASSUME NEW K, NEW W, Closed(K, W), NEW m \in K
  PROVE  \A v : v \in Values(16) \/ v \in Nat => SetIp(m, v) \in K
<1>1. ASSUME NEW v, v \in Values(16) \/ v \in Nat
      PROVE  SetIp(m, v) \in K
  <2>1. v \in Int
    BY <1>1, KnownGrow DEF Widths
  <2> QED
    BY <2>1, ClosedUnder, SetIpType
<1> QED
  BY <1>1

LEMMA GoIfType ==
  ASSUME NEW K, NEW W, Closed(K, W), NEW t, t.m \in K, t.v \in Values(16), NEW c
  PROVE  GoIf(t, c) \in Ended(K)
<1>1. SetIp(t.m, t.v) \in K
  BY SetIpIn
<1> QED
  BY <1>1, EndOf DEF GoIf

LEMMA JumpIfType ==
  ASSUME NEW K, NEW W, Closed(K, W), NEW m \in K, NEW w \in {8, 16}
  PROVE  /\ Relative(m, w).m \in K /\ Relative(m, w).v \in Values(16)
         /\ \A c : GoIf(Relative(m, w), c) \in Ended(K)
<1> DEFINE t == Relative(m, w)
<1>1. w \in Widths /\ 16 \in Widths
  BY DEF Widths
<1>2. t.m \in K /\ t.v \in Values(16)
  BY <1>1, RelativeType, ReadHas
<1> HIDE DEF t
<1>3. \A c : GoIf(t, c) \in Ended(K)
  BY <1>2, GoIfType
<1> QED
  BY <1>2, <1>3 DEF t

LEMMA CondJumps ==
  ASSUME NEW K, NEW W, Closed(K, W), NEW m \in K, NEW c
  PROVE  JumpIf(m, c) \in Ended(K)
BY JumpIfType DEF JumpIf

LEMMA LoopType ==
  ASSUME NEW K, NEW W, Closed(K, W), NEW m \in K, NEW c
  PROVE  LoopIf(m, c) \in Ended(K)
<1> DEFINE t == Relative(m, 8)
           a == Reg16(t.m, CX) - 1
           d == CountDown(t)
<1>1. CX \in 0..7 /\ 8 \in Widths /\ 16 \in Widths
  BY RegisterNumbers DEF Widths
<1>2. t \in Read(K, 16)
  BY <1>1, RelativeType
<1> HIDE DEF t
<1>3. t.m \in K /\ t.m \in Machines
  BY <1>1, <1>2, ReadHas, ClosedUnder
<1>4. Reg16(t.m, CX) \in Nat
  BY <1>1, <1>3, RegType
<1>5. a \in Int
  BY <1>4
<1> HIDE DEF a
<1>6. SetReg16(t.m, CX, a) \in K
  BY <1>1, <1>3, <1>5, ClosedUnder, SetWordType
<1>7. d = [t EXCEPT !.m = SetReg16(t.m, CX, a)]
  BY DEF CountDown, a
<1>8. d \in Read(K, 16)
  BY <1>2, <1>6, <1>7 DEF Read
<1> HIDE DEF d
<1>9. d.m \in K /\ d.v \in Values(16)
  BY <1>1, <1>8, ReadHas
<1>10. GoIf(d, Reg16(d.m, CX) # 0 /\ c) \in Ended(K)
  BY <1>9, GoIfType
<1> QED
  BY <1>10 DEF LoopIf, LoopWhile, d, t

LEMMA JumpHandlers ==
  ASSUME NEW K, NEW W, Closed(K, W), NEW m \in K
  PROVE  /\ jump_near_O(m) \in Ended(K) /\ jump_near_NO(m) \in Ended(K)
         /\ jump_near_B(m) \in Ended(K) /\ jump_near_NB(m) \in Ended(K)
         /\ jump_near_Z(m) \in Ended(K) /\ jump_near_NZ(m) \in Ended(K)
         /\ jump_near_BE(m) \in Ended(K) /\ jump_near_NBE(m) \in Ended(K)
         /\ jump_near_S(m) \in Ended(K) /\ jump_near_NS(m) \in Ended(K)
         /\ jump_near_P(m) \in Ended(K) /\ jump_near_NP(m) \in Ended(K)
         /\ jump_near_L(m) \in Ended(K) /\ jump_near_NL(m) \in Ended(K)
         /\ jump_near_LE(m) \in Ended(K) /\ jump_near_NLE(m) \in Ended(K)
         /\ jcxz(m) \in Ended(K) /\ loop(m) \in Ended(K) /\ loope(m) \in Ended(K) /\ loopne(m) \in Ended(K)
         /\ jump_byte_IMM(m) \in Ended(K) /\ jump_near_IMM(m) \in Ended(K)
<1> USE CondJumps
<1>1. jump_near_O(m) \in Ended(K) /\ jump_near_NO(m) \in Ended(K)
  BY DEF jump_near_O, jump_near_NO
<1>2. jump_near_B(m) \in Ended(K) /\ jump_near_NB(m) \in Ended(K)
  BY DEF jump_near_B, jump_near_NB
<1>3. jump_near_Z(m) \in Ended(K) /\ jump_near_NZ(m) \in Ended(K)
  BY DEF jump_near_Z, jump_near_NZ
<1>4. jump_near_BE(m) \in Ended(K) /\ jump_near_NBE(m) \in Ended(K)
  BY DEF jump_near_BE, jump_near_NBE
<1>5. jump_near_S(m) \in Ended(K) /\ jump_near_NS(m) \in Ended(K)
  BY DEF jump_near_S, jump_near_NS
<1>6. jump_near_P(m) \in Ended(K) /\ jump_near_NP(m) \in Ended(K)
  BY DEF jump_near_P, jump_near_NP
<1>7. jump_near_L(m) \in Ended(K) /\ jump_near_NL(m) \in Ended(K)
  BY DEF jump_near_L, jump_near_NL
<1>8. jump_near_LE(m) \in Ended(K) /\ jump_near_NLE(m) \in Ended(K)
  BY DEF jump_near_LE, jump_near_NLE
<1>9. jcxz(m) \in Ended(K)
  BY DEF jcxz
<1>10. loop(m) \in Ended(K) /\ loope(m) \in Ended(K) /\ loopne(m) \in Ended(K)
  BY LoopType DEF loop, loope, loopne
<1>11. jump_byte_IMM(m) \in Ended(K) /\ jump_near_IMM(m) \in Ended(K)
  BY JumpIfType DEF jump_byte_IMM, jump_near_IMM
<1> QED
  BY <1>1, <1>2, <1>3, <1>4, <1>5, <1>6, <1>7, <1>8, <1>9, <1>10, <1>11

LEMMA JumpFarType ==
  ASSUME NEW K, NEW W, Closed(K, W), NEW m \in K, NEW cs \in Values(16), NEW ip \in Values(16)
  PROVE  JumpFar(m, cs, ip) \in K /\ CallFar(m, cs, ip) \in K
<1> DEFINE vs == <<m.seg["CS"], m.ip>>
<1>1. "CS" \in Segments /\ m \in Machines /\ 16 \in Widths
  BY SegmentNames, ClosedUnder DEF Widths
<1>2. ASSUME NEW n \in K
      PROVE  JumpFar(n, cs, ip) \in K
  <2>1. SetSeg(n, "CS", cs) \in K
    BY <1>1, ClosedSteps
  <2> QED
    BY <2>1, SetIpIn DEF JumpFar
<1>3. m.seg["CS"] \in Nat /\ m.ip \in Nat
  BY <1>1, SegType
<1>4. vs \in [1..2 -> Nat] /\ Len(vs) = 2
  BY <1>3
<1> HIDE DEF vs
<1>5. PushAll(m, 16, vs) \in K
  BY <1>1, <1>4, ClosedUnder, PushAllType
<1> QED
  BY <1>2, <1>5 DEF CallFar, vs

LEMMA FarTargets ==
  ASSUME NEW K, NEW W, Closed(K, W), NEW ip \in Values(16), NEW cs \in Read(K, 16)
  PROVE  JumpTo(ip, cs) \in K /\ CallTo(ip, cs) \in K
<1>1. cs.m \in K /\ cs.v \in Values(16)
  BY DEF Read
<1> QED
  BY <1>1, JumpFarType DEF JumpTo, CallTo

LEMMA ReturnType ==
  ASSUME NEW K, NEW W, Closed(K, W), NEW m \in K
  PROVE  Return(m) \in K /\ ReturnFar(m) \in K
<1>1. 16 \in W /\ "CS" \in Segments
  BY ClosedUnder, SegmentNames
<1>2. Return(m) \in K
  <2> DEFINE p == pop(m, 16)
  <2>1. p.m \in K /\ p.v \in Values(16)
    BY <1>1, PoppedIs
  <2> HIDE DEF p
  <2>2. SetIp(p.m, p.v) \in K
    BY <2>1, SetIpIn
  <2> QED
    BY <2>2 DEF Return, IpFrom, p
<1>3. ReturnFar(m) \in K
  <2> DEFINE p == pop(Return(m), 16)
  <2>1. p.m \in K /\ p.v \in Values(16)
    BY <1>1, <1>2, PoppedIs
  <2> HIDE DEF p
  <2>2. SetSeg(p.m, "CS", p.v) \in K
    BY <1>1, <2>1, ClosedSteps
  <2> QED
    BY <2>2 DEF ReturnFar, CsFrom, p
<1> QED
  BY <1>2, <1>3

LEMMA ReleaseType ==
  ASSUME NEW K, NEW W, Closed(K, W), NEW m \in K, NEW n \in Nat
  PROVE  Release(m, n) \in Ended(K)
<1> DEFINE a == Reg16(m, SP) + n
<1>1. SP \in 0..7 /\ m \in Machines
  BY RegisterNumbers, ClosedUnder
<1>2. Reg16(m, SP) \in Nat
  BY <1>1, RegType
<1>3. a \in Int
  BY <1>2
<1> HIDE DEF a
<1>4. SetReg16(m, SP, a) \in K
  BY <1>1, <1>3, ClosedUnder, SetWordType
<1> QED
  BY <1>4, EndOf DEF Release, a

LEMMA CallHandlers ==
  ASSUME NEW K, NEW W, Closed(K, W), NEW m \in K
  PROVE  /\ call_near_IMM(m) \in Ended(K) /\ jump_far_IMM(m) \in Ended(K) /\ call_far_IMM(m) \in Ended(K)
         /\ ret_near(m) \in Ended(K) /\ ret_far(m) \in Ended(K)
         /\ ret_near_IMM(m) \in Ended(K) /\ ret_far_IMM(m) \in Ended(K) /\ iret(m) \in Ended(K)
<1>1. 16 \in W /\ 16 \in Widths /\ "CS" \in Segments /\ 16 \in Int
  BY ClosedUnder, SegmentNames DEF Widths
<1> DEFINE i == fetch_word_imm(m)
<1>2. i.m \in K /\ i.v \in Values(16) /\ i.v \in Nat
  BY <1>1, ClosedUnder, FetchType, ReadHas
<1>3. call_near_IMM(m) \in Ended(K)
  <2> DEFINE t == Relative(m, 16)
  <2>1. t.m \in K /\ t.v \in Values(16)
    BY JumpIfType
  <2> HIDE DEF t
  <2>2. t.m.ip \in Nat
    BY <1>1, <2>1, SegType, ClosedUnder
  <2>3. push(t.m, 16, t.m.ip) \in K
    BY <1>1, <2>1, <2>2, PushedIs
  <2>4. SetIp(push(t.m, 16, t.m.ip), t.v) \in K
    BY <2>1, <2>3, SetIpIn
  <2> QED
    BY <2>4, EndOf DEF call_near_IMM, CallNear, t
<1>4. jump_far_IMM(m) \in Ended(K) /\ call_far_IMM(m) \in Ended(K)
  <2> HIDE DEF i
  <2>1. fetch_word_imm(i.m) \in Read(K, 16)
    BY <1>2, ClosedUnder, FetchType
  <2>2. JumpWords(i) \in K /\ CallWords(i) \in K
    BY <1>2, <2>1, FarTargets DEF JumpWords, CallWords
  <2> QED
    BY <2>2, EndOf DEF jump_far_IMM, call_far_IMM, i
<1>5. ret_near(m) \in Ended(K) /\ ret_far(m) \in Ended(K)
  BY ReturnType, EndOf DEF ret_near, ret_far
<1>6. ret_near_IMM(m) \in Ended(K) /\ ret_far_IMM(m) \in Ended(K)
  <2> HIDE DEF i
  <2>1. Return(i.m) \in K /\ ReturnFar(i.m) \in K
    BY <1>2, ReturnType
  <2>2. RetNearFrom(i) \in Ended(K) /\ RetFarFrom(i) \in Ended(K)
    BY <1>2, <2>1, ReleaseType DEF RetNearFrom, RetFarFrom
  <2> QED
    BY <2>2 DEF ret_near_IMM, ret_far_IMM, i
<1>7. iret(m) \in Ended(K)
  BY <1>1, ReturnType, PoppedIs, FlagsFromType DEF iret
<1> QED
  BY <1>3, <1>4, <1>5, <1>6, <1>7

\* A call of the operand, near and far.
LEMMA IndirectType ==
  ASSUME NEW K, NEW W, Closed(K, W), NEW o \in LoadedOperands(K, 16)
  PROVE  PushIp(o) \in Ended(K) /\ CallFarTo(o) \in Ended(K) /\ JumpFarTo(o) \in Ended(K) /\ GoIf(o, TRUE) \in Ended(K)
<1>1. 16 \in W /\ 16 \in Widths /\ "CS" \in Segments
  BY ClosedUnder, SegmentNames DEF Widths
<1>2. /\ o.m \in K /\ o.m \in Machines /\ o.mem \in BOOLEAN /\ o.at \in Values(LongBits)
      /\ o.v \in Values(16) /\ (~o.mem => o.at \in 0..7)
  BY <1>1, LoadedHas, ClosedUnder
<1>3. PushIp(o) \in Ended(K)
  <2> DEFINE n == push(o.m, 16, o.m.ip)
  <2>1. o.m.ip \in Nat
    BY <1>1, <1>2, SegType
  <2>2. n \in K /\ n \in Machines
    BY <1>1, <1>2, <2>1, PushedIs, ClosedUnder
  <2> HIDE DEF n
  <2>3. ~o.mem => Reg16(n, o.at) \in Nat
    BY <1>2, <2>2, RegType
  <2> DEFINE v == IF o.mem THEN o.v ELSE Reg16(n, o.at)
  <2>4. v \in Values(16) \/ v \in Nat
    BY <1>2, <2>3
  <2> HIDE DEF v
  <2>5. SetIp(n, v) \in K
    BY <2>2, <2>4, SetIpIn
  <2> QED
    BY <2>5, EndOf DEF PushIp, CallNearTo, n, v
<1>4. NextWord(o.m, o) \in Read(K, 16)
  BY <1>2, NextWordType
<1>5. CallFarTo(o) \in Ended(K) /\ JumpFarTo(o) \in Ended(K)
  BY <1>2, <1>4, FarTargets, EndOf DEF CallFarTo, JumpFarTo
<1>6. GoIf(o, TRUE) \in Ended(K)
  BY <1>2, GoIfType
<1> QED
  BY <1>3, <1>5, <1>6

LEMMA GroupFFType ==
  ASSUME NEW K, NEW W, Closed(K, W), NEW m \in K
  PROVE  opcFF_word_RM(m) \in Ended(K)
<1> DEFINE w == OpSize(m)
           o == Decode(m)
           l == Loaded(w, o)
           n == Loaded(16, o)
<1>1. w \in W /\ w \in Widths /\ 16 \in Widths
  BY ClosedSteps DEF Widths
<1> HIDE DEF w
<1>2. o \in Operands(K) /\ o.m \in K /\ o.rh \in 0..7
  BY ClosedUnder, DecodeType, OperandHas
<1> HIDE DEF o
<1>3. l \in LoadedOperands(K, w) /\ n \in LoadedOperands(K, 16)
  BY <1>1, <1>2, ClosedUnder, LoadType
<1> HIDE DEF l, n
<1>4. Unary(inc, w, l) \in Ended(K) /\ Unary(dec, w, l) \in Ended(K)
  BY <1>1, <1>3, UnaryHandlers
<1>5. PushIp(n) \in Ended(K) /\ CallFarTo(n) \in Ended(K) /\ JumpFarTo(n) \in Ended(K) /\ GoIf(n, TRUE) \in Ended(K)
  BY <1>3, IndirectType
<1>6. PushFrom(w, l) \in Ended(K)
  BY <1>1, <1>3, LoadedHas, PushFromType
<1>7. Done(X86EMU_halt_sys(o.m)) \in Ended(K) /\ Done(o.m) \in Ended(K)
  BY <1>2, ClosedSteps, EndOf
<1>8. \/ o.rh = 0 \/ o.rh = 1 \/ o.rh = 2 \/ o.rh = 3 \/ o.rh = 4 \/ o.rh = 5 \/ o.rh = 6 \/ o.rh = 7
  BY <1>2
<1>9. GroupFF(w, o) \in Ended(K)
  <2>1. CASE o.rh = 0
    BY <1>4, <2>1 DEF GroupFF, l
  <2>2. CASE o.rh = 1
    BY <1>4, <2>2 DEF GroupFF, l
  <2>3. CASE o.rh = 2
    BY <1>5, <2>3 DEF GroupFF, n
  <2>4. CASE o.rh = 3
    BY <1>5, <1>7, <2>4 DEF GroupFF, n
  <2>5. CASE o.rh = 4
    <3>1. Done(SetIp(n.m, n.v)) \in Ended(K)
      BY <1>5 DEF GoIf
    <3> QED
      BY <2>5, <3>1 DEF GroupFF, GoIf, n
  <2>6. CASE o.rh = 5
    BY <1>5, <1>7, <2>6 DEF GroupFF, n
  <2>7. CASE o.rh = 6
    BY <1>6, <2>7 DEF GroupFF, l
  <2>8. CASE o.rh = 7
    BY <1>7, <2>8 DEF GroupFF
  <2> QED
    BY <1>8, <2>1, <2>2, <2>3, <2>4, <2>5, <2>6, <2>7, <2>8
<1> QED
  BY <1>9 DEF opcFF_word_RM, w, o

(***************************************************************************)
(* What does nothing, and the prefixes that a repetition takes for its own. *)
(***************************************************************************)
LEMMA IdleHandlers ==
  ASSUME NEW K, NEW W, Closed(K, W), NEW m \in K
  PROVE  /\ nop(m) \in Ended(K) /\ wait(m) \in Ended(K) /\ lock(m) \in Ended(K) /\ halt(m) \in Ended(K)
         /\ esc_coprocess_d8(m) \in Ended(K) /\ esc_coprocess_d9(m) \in Ended(K)
         /\ esc_coprocess_da(m) \in Ended(K) /\ esc_coprocess_db(m) \in Ended(K)
         /\ esc_coprocess_dc(m) \in Ended(K) /\ esc_coprocess_dd(m) \in Ended(K)
         /\ esc_coprocess_de(m) \in Ended(K) /\ esc_coprocess_df(m) \in Ended(K)
<1>1. Decode(m).m \in K /\ X86EMU_halt_sys(m) \in K
  BY ClosedUnder, ClosedSteps, DecodeType, OperandHas
<1>2. nop(m) \in Ended(K) /\ wait(m) \in Ended(K) /\ lock(m) \in Ended(K) /\ halt(m) \in Ended(K)
  BY <1>1, EndOf DEF nop, wait, lock, halt
<1>3. /\ esc_coprocess_d8(m) \in Ended(K) /\ esc_coprocess_d9(m) \in Ended(K)
      /\ esc_coprocess_da(m) \in Ended(K) /\ esc_coprocess_db(m) \in Ended(K)
      /\ esc_coprocess_dc(m) \in Ended(K) /\ esc_coprocess_dd(m) \in Ended(K)
      /\ esc_coprocess_de(m) \in Ended(K) /\ esc_coprocess_df(m) \in Ended(K)
  BY <1>1, EndOf DEF esc_coprocess_d8, esc_coprocess_d9, esc_coprocess_da, esc_coprocess_db,
                     esc_coprocess_dc, esc_coprocess_dd, esc_coprocess_de, esc_coprocess_df
<1> QED
  BY <1>2, <1>3

(***************************************************************************)
(* Ports and strings.                                                      *)
(***************************************************************************)
\* What a port answers fits the register.
LEMMA SysInType ==
  ASSUME NEW m \in Machines, NEW w \in Widths
  PROVE  sys_in(m, w) \in Values(w) /\ sys_in(m, w) \in Nat
<1> DEFINE n == Bytes(w)
           Shift(x) == 256 * x + m.in
           sum[i \in 0..n] == IF i = 0 THEN 0 ELSE Shift(sum[i - 1])
           step == [i \in 1..n |-> [x \in Nat |-> Shift(x)]]
           Y == [i \in 0..n |-> Values(8 * i)]
<1>1. sys_in(m, w) = sum[n]
  BY DEF sys_in, Iterate
<1>2. n \in Nat /\ w = 8 * n
  BY WidthType
<1> HIDE DEF n
<1>3. m.in \in 0..255
  BY MachineType, Values8
<1>4. \A x \in Nat : Shift(x) \in Nat
  BY <1>3
<1>5. step \in [1..n -> [Nat -> Nat]]
  BY <1>4
<1> HIDE DEF Shift
<1>6. \A i \in 1..n : \A x \in Nat : step[i][x] = Shift(x)
  OBVIOUS
<1> HIDE DEF step
<1>7. 0 \in Nat
  OBVIOUS
<1>8. PICK f : IterateOf(f, n, Nat, 0, step)
  BY <1>2, <1>5, <1>7, Recursion
<1>9. f \in [0..n -> Nat] /\ f[0] = 0 /\ \A i \in 1..n : f[i] = Shift(f[i - 1])
  <2>1. f \in [0..n -> Nat] /\ f[0] = 0 /\ \A i \in 1..n : f[i] = step[i][f[i - 1]]
    BY <1>8 DEF IterateOf
  <2>2. ASSUME NEW i \in 1..n
        PROVE  f[i - 1] \in Nat
    <3>1. i - 1 \in 0..n
      BY <1>2
    <3> QED
      BY <2>1, <3>1
  <2> QED
    BY <1>6, <2>1, <2>2
<1>10. f = [i \in 0..n |-> IF i = 0 THEN 0 ELSE Shift(f[i - 1])]
  BY <1>2, <1>9
<1>11. sum = [i \in 0..n |-> IF i = 0 THEN 0 ELSE Shift(sum[i - 1])]
  BY <1>10
<1> HIDE DEF sum
<1>12. sum[0] \in Y[0]
  <2>1. sum[0] = 0 /\ Y[0] = Values(0)
    BY <1>2, <1>11
  <2> QED
    BY <2>1, ValuesNat
<1>13. ASSUME NEW i \in 1..n, sum[i - 1] \in Y[i - 1]
       PROVE  sum[i] \in Y[i]
  <2>1. i - 1 \in 0..n /\ i \in 0..n /\ i # 0 /\ 8 * (i - 1) \in Nat /\ 8 * i = 8 * (i - 1) + 8
    BY <1>2
  <2>2. sum[i] = 256 * sum[i - 1] + m.in
    BY <1>11, <2>1 DEF Shift
  <2>3. sum[i - 1] \in Values(8 * (i - 1))
    BY <1>13, <2>1
  <2>4. i \in Nat /\ i > 0
    BY <1>2, <2>1
  <2>5. ASSUME NEW x, x = sum[i - 1], NEW b, b = m.in
        PROVE  256 * x + b \in Values(8 * i)
    <3>1. x \in Values(8 * (i - 1)) /\ b \in 0..255
      BY <1>3, <2>3, <2>5
    <3> QED
      BY <2>4, <3>1, OneByteMore, Zenon
  <2> QED
    BY <2>1, <2>2, <2>5
<1> HIDE DEF Y
<1>14. \A i \in 0..n : sum[i] \in Y[i]
  BY <1>2, <1>12, <1>13, KeptBySteps
<1>15. sum[n] \in Values(8 * n)
  BY <1>2, <1>14 DEF Y
<1>16. sys_in(m, w) \in Values(w)
  BY <1>1, <1>2, <1>15
<1> QED
  BY <1>16, KnownGrow

LEMMA SysOutType ==
  ASSUME NEW K, NEW W, Closed(K, W), NEW m \in K, NEW port \in Values(16), NEW w \in W, NEW v \in Values(w)
  PROVE  sys_out(m, port, w, v) \in K
<1>1. w \in Widths /\ m \in Machines
  BY ClosedUnder
<1>2. <<port, w, v>> \in Outputs
  BY <1>1, KnownGrow DEF Outputs, Widths
<1>3. m.io \in Seq(Outputs)
  BY <1>1, MachineType
<1> DEFINE q == Append(m.io, <<port, w, v>>)
<1>4. q \in Seq(Outputs)
  BY <1>2, <1>3
<1>5. sys_out(m, port, w, v) = [m EXCEPT !.io = q]
  BY DEF sys_out
<1> HIDE DEF q
<1>6. [m EXCEPT !.io = q] \in K
  BY <1>4, ClosedUnder DEF DataClosed
<1> QED
  BY <1>5, <1>6

LEMMA PortHandlers ==
  ASSUME NEW K, NEW W, Closed(K, W), NEW m \in K
  PROVE  /\ in_byte_AL_DX(m) \in Ended(K) /\ in_word_AX_DX(m) \in Ended(K)
         /\ in_byte_AL_IMM(m) \in Ended(K) /\ in_word_AX_IMM(m) \in Ended(K)
         /\ out_byte_DX_AL(m) \in Ended(K) /\ out_word_DX_AX(m) \in Ended(K)
         /\ out_byte_IMM_AL(m) \in Ended(K) /\ out_word_IMM_AX(m) \in Ended(K)
<1>1. AL \in 0..7 /\ AX \in 0..7 /\ DX \in 0..7 /\ 8 \in W /\ 8 \in Widths /\ 16 \in Widths
  BY RegisterNumbers, ClosedUnder DEF Widths
<1>2. ASSUME NEW n \in K
      PROVE  in_byte_AL_DX(n) \in Ended(K) /\ in_word_AX_DX(n) \in Ended(K)
  <2> DEFINE w == OpSize(n)
  <2>1. w \in W /\ w \in Widths /\ n \in Machines
    BY ClosedSteps
  <2> HIDE DEF w
  <2>2. sys_in(n, 8) \in Values(8) /\ sys_in(n, w) \in Values(w)
    BY <1>1, <2>1, SysInType
  <2>3. SetReg(n, 8, AL, sys_in(n, 8)) \in K /\ SetReg(n, w, AX, sys_in(n, w)) \in K
    BY <1>1, <2>1, <2>2, ClosedSteps
  <2> QED
    BY <2>3, EndOf DEF in_byte_AL_DX, in_word_AX_DX, w
<1>3. ASSUME NEW n \in K, NEW port \in Values(16), NEW w \in W
      PROVE  Out(n, port, w) \in Ended(K)
  <2>1. Reg(n, w, AX) \in Values(w)
    BY <1>1, OnRegisters
  <2>2. sys_out(n, port, w, Reg(n, w, AX)) \in K
    BY <2>1, SysOutType
  <2> QED
    BY <2>2, EndOf DEF Out
<1> DEFINE i == fetch_byte_imm(m)
<1>4. i.m \in K /\ i.v \in Values(16)
  <2>1. i.m \in K /\ i.v \in Values(8)
    BY <1>1, ClosedUnder, FetchType, ReadHas
  <2> QED
    BY <1>1, <2>1, KnownGrow
<1> HIDE DEF i
<1>5. Reg16(m, DX) \in Values(16) /\ OpSize(m) \in W
  BY <1>1, RegType, ClosedSteps
<1>6. in_byte_AL_IMM(m) \in Ended(K) /\ in_word_AX_IMM(m) \in Ended(K)
  BY <1>2, <1>4 DEF in_byte_AL_IMM, in_word_AX_IMM, i
<1>7. out_byte_DX_AL(m) \in Ended(K) /\ out_word_DX_AX(m) \in Ended(K)
  BY <1>1, <1>3, <1>5 DEF out_byte_DX_AL, out_word_DX_AX
<1>8. out_byte_IMM_AL(m) \in Ended(K) /\ out_word_IMM_AX(m) \in Ended(K)
  BY <1>1, <1>3, <1>4, <1>5 DEF out_byte_IMM_AL, out_word_IMM_AX, OutFrom, i
<1> QED
  BY <1>2, <1>6, <1>7, <1>8

LEMMA AdvanceType ==
  ASSUME NEW K, NEW W, Closed(K, W), NEW m \in K, NEW n \in 0..7, NEW w \in Widths
  PROVE  Advance(m, n, w) \in K
<1> DEFINE a == Reg16(m, n) + Step(m, w)
<1>1. Reg16(m, n) \in Nat /\ Bytes(w) \in Nat
  BY ClosedUnder, RegType, WidthType
<1>2. Step(m, w) \in Int
  BY <1>1 DEF Step
<1>3. a \in Int
  BY <1>1, <1>2
<1> HIDE DEF a
<1>4. SetReg16(m, n, a) \in K
  BY <1>3, ClosedUnder, SetWordType
<1> QED
  BY <1>4 DEF Advance, a

\* What a string instruction reads and writes.
LEMMA StringAccess ==
  ASSUME NEW K, NEW W, Closed(K, W), NEW m \in K, NEW w \in W, NEW n \in 0..7
  PROVE  /\ fetch_data(m, w, Reg16(m, n)) \in Read(K, w)
         /\ fetch_data_abs(m, w, m.seg["ES"], Reg16(m, n)) \in Read(K, w)
         /\ \A name \in Segments : \A x \in K : \A v : v \in Values(w) \/ v \in Nat =>
              store_data_abs(x, w, m.seg[name], Reg16(x, n), v) \in K
<1>1. w \in Widths /\ m \in Machines /\ "ES" \in Segments
  BY ClosedUnder, SegmentNames
<1>2. Reg16(m, n) \in Int /\ \A name \in Segments : m.seg[name] \in Int
  BY <1>1, RegType, SegType
<1>3. fetch_data(m, w, Reg16(m, n)) \in Read(K, w)
  BY <1>1, <1>2, ClosedUnder, FetchDataType
<1>4. fetch_data_abs(m, w, m.seg["ES"], Reg16(m, n)) \in Read(K, w)
  BY <1>1, <1>2, ClosedUnder, ReadAbsType
<1>5. ASSUME NEW name \in Segments, NEW x \in K, NEW v, v \in Values(w) \/ v \in Nat
      PROVE  store_data_abs(x, w, m.seg[name], Reg16(x, n), v) \in K
  <2>1. Reg16(x, n) \in Int /\ v \in Nat
    BY <1>1, <1>5, ClosedUnder, RegType, KnownGrow
  <2> QED
    BY <1>1, <1>2, <2>1, ClosedUnder, StoreAbsType
<1> QED
  BY <1>3, <1>4, <1>5

LEMMA MovsType ==
  ASSUME NEW K, NEW W, Closed(K, W), NEW m \in K, NEW w \in W
  PROVE  Movs(w, m) \in K /\ Stos(w, m) \in K /\ Lods(w, m) \in K
<1> DEFINE d == fetch_data(m, w, Reg16(m, SI))
<1>1. w \in Widths /\ SI \in 0..7 /\ DI \in 0..7 /\ AX \in 0..7 /\ "ES" \in Segments
  BY ClosedUnder, RegisterNumbers, SegmentNames
<1>2. d \in Read(K, w)
  BY <1>1, StringAccess
<1> HIDE DEF d
<1>3. d.m \in K /\ d.v \in Values(w)
  BY <1>1, <1>2, ReadHas
<1>4. Movs(w, m) \in K
  <2> DEFINE n == store_data_abs(d.m, w, m.seg["ES"], Reg16(d.m, DI), d.v)
  <2>1. n \in K
    BY <1>1, <1>3, StringAccess
  <2> HIDE DEF n
  <2>2. Advance(n, SI, w) \in K
    BY <1>1, <2>1, AdvanceType
  <2>3. Advance(Advance(n, SI, w), DI, w) \in K
    BY <1>1, <2>2, AdvanceType
  <2> QED
    BY <2>3 DEF Movs, CopyTo, Both, n, d
<1>5. Stos(w, m) \in K
  <2>1. Reg(m, w, AX) \in Values(w)
    BY <1>1, OnRegisters
  <2>2. store_data_abs(m, w, m.seg["ES"], Reg16(m, DI), Reg(m, w, AX)) \in K
    BY <1>1, <2>1, StringAccess
  <2> QED
    BY <1>1, <2>2, AdvanceType DEF Stos
<1>6. Lods(w, m) \in K
  <2>1. SetReg(d.m, w, AX, d.v) \in K
    BY <1>1, <1>3, ClosedSteps
  <2> QED
    BY <1>1, <2>1, AdvanceType DEF Lods, LodsFrom, d
<1> QED
  BY <1>4, <1>5, <1>6

LEMMA CmpsType ==
  ASSUME NEW K, NEW W, Closed(K, W), NEW m \in K, NEW w \in W
  PROVE  Cmps(w, m) \in K /\ Scas(w, m) \in K
<1>1. w \in Widths /\ SI \in 0..7 /\ DI \in 0..7 /\ AX \in 0..7
  BY ClosedUnder, RegisterNumbers
<1>2. ASSUME NEW x \in K, NEW a \in Values(w)
      PROVE  CmpWith(w, a, AtDI(w, x)) \in K
  <2> DEFINE b == AtDI(w, x)
  <2>1. b \in Read(K, w)
    BY <1>1, StringAccess DEF AtDI
  <2> HIDE DEF b
  <2>2. b.m \in K /\ b.v \in Values(w)
    BY <1>1, <2>1, ReadHas
  <2>3. b.m.f \in SUBSET FlagBits
    BY <2>2, ClosedUnder, MachineFlags
  <2>4. cmp(w, b.m.f, a, b.v) \in Results(w)
    BY <1>1, <2>2, <2>3, BinaryType
  <2>5. cmp(w, b.m.f, a, b.v)[2] \in SUBSET FlagBits
    BY <2>4 DEF Results
  <2>6. Flags(b.m, cmp(w, b.m.f, a, b.v)[2]) \in K
    BY <2>2, <2>5, ClosedSteps
  <2> QED
    BY <2>6 DEF CmpWith, b
<1>3. Cmps(w, m) \in K
  <2> DEFINE a == fetch_data(m, w, Reg16(m, SI))
             n == CmpWith(w, a.v, AtDI(w, a.m))
  <2>1. a.m \in K /\ a.v \in Values(w)
    BY <1>1, StringAccess, ReadHas
  <2> HIDE DEF a
  <2>2. n \in K
    BY <1>2, <2>1
  <2> HIDE DEF n
  <2>3. Advance(Advance(n, SI, w), DI, w) \in K
    BY <1>1, <2>2, AdvanceType
  <2> QED
    BY <2>3 DEF Cmps, CmpsFrom, Both, a, n
<1>4. Scas(w, m) \in K
  <2>1. Reg(m, w, AX) \in Values(w)
    BY <1>1, OnRegisters
  <2>2. CmpWith(w, Reg(m, w, AX), AtDI(w, m)) \in K
    BY <1>2, <2>1
  <2> QED
    BY <1>1, <2>2, AdvanceType DEF Scas
<1> QED
  BY <1>3, <1>4

LEMMA PortOnceType ==
  ASSUME NEW K, NEW W, Closed(K, W), NEW m \in K, NEW w \in W
  PROVE  InsOnce(m, w) \in K /\ OutsOnce(m, w) \in K
<1>1. /\ w \in Widths /\ m \in Machines /\ SI \in 0..7 /\ DI \in 0..7 /\ DX \in 0..7
      /\ "ES" \in Segments
  BY ClosedUnder, RegisterNumbers, SegmentNames
<1>2. InsOnce(m, w) \in K
  <2>1. sys_in(m, w) \in Values(w)
    BY <1>1, SysInType
  <2>2. store_data_abs(m, w, m.seg["ES"], Reg16(m, DI), sys_in(m, w)) \in K
    BY <1>1, <2>1, StringAccess
  <2> QED
    BY <1>1, <2>2, AdvanceType DEF InsOnce
<1>3. OutsOnce(m, w) \in K
  <2> DEFINE d == fetch_data_abs(m, w, m.seg["ES"], Reg16(m, SI))
  <2>1. d \in Read(K, w)
    BY <1>1, StringAccess
  <2> HIDE DEF d
  <2>2. d.m \in K /\ d.v \in Values(w)
    BY <1>1, <2>1, ReadHas
  <2>3. Reg16(m, DX) \in Values(16)
    BY <1>1, RegType
  <2>4. sys_out(d.m, Reg16(m, DX), w, d.v) \in K
    BY <2>2, <2>3, SysOutType
  <2> QED
    BY <1>1, <2>4, AdvanceType DEF OutsOnce, d
<1> QED
  BY <1>2, <1>3

\* Each of them, n times over.
MovsTimes(w, m, n) == Repeat(m, n, LAMBDA x : Movs(w, x))
StosTimes(w, m, n) == Repeat(m, n, LAMBDA x : Stos(w, x))
LodsTimes(w, m, n) == Repeat(m, n, LAMBDA x : Lods(w, x))
InsTimes(w, m, n) == Repeat(m, n, LAMBDA x : InsOnce(x, w))
OutsTimes(w, m, n) == Repeat(m, n, LAMBDA x : OutsOnce(x, w))

LEMMA MovsTimesType ==
  ASSUME NEW K, NEW W, Closed(K, W), NEW m \in K, NEW w \in W, NEW n \in Nat
  PROVE  MovsTimes(w, m, n) \in K
<1> DEFINE after[i \in 0..n] == IF i = 0 THEN m ELSE Movs(w, after[i - 1])
           step == [i \in 1..n |-> [x \in K |-> Movs(w, x)]]
<1>1. MovsTimes(w, m, n) = after[n]
  BY DEF MovsTimes, Repeat, Iterate
<1>2. \A x \in K : Movs(w, x) \in K
  BY MovsType
<1>3. step \in [1..n -> [K -> K]] /\ \A i \in 1..n : \A x \in K : step[i][x] = Movs(w, x)
  BY <1>2
<1> HIDE DEF step
<1>4. PICK f : IterateOf(f, n, K, m, step)
  BY <1>3, Recursion
<1>5. f \in [0..n -> K] /\ f[0] = m /\ \A i \in 1..n : f[i] = Movs(w, f[i - 1])
  BY <1>3, <1>4 DEF IterateOf
<1>6. f = [i \in 0..n |-> IF i = 0 THEN m ELSE Movs(w, f[i - 1])]
  BY <1>5
<1>7. after = [i \in 0..n |-> IF i = 0 THEN m ELSE Movs(w, after[i - 1])]
  BY <1>6
<1> HIDE DEF after
<1>8. after[0] \in K
  BY <1>7
<1>9. ASSUME NEW i \in 1..n, after[i - 1] \in K
      PROVE  after[i] \in K
  <2>1. i \in 0..n /\ i # 0
    OBVIOUS
  <2> QED
    BY <1>2, <1>7, <1>9, <2>1
<1>10. after[n] \in K
  BY <1>8, <1>9, KeptByStepsIn
<1> QED
  BY <1>1, <1>10

LEMMA StosTimesType ==
  ASSUME NEW K, NEW W, Closed(K, W), NEW m \in K, NEW w \in W, NEW n \in Nat
  PROVE  StosTimes(w, m, n) \in K
<1> DEFINE after[i \in 0..n] == IF i = 0 THEN m ELSE Stos(w, after[i - 1])
           step == [i \in 1..n |-> [x \in K |-> Stos(w, x)]]
<1>1. StosTimes(w, m, n) = after[n]
  BY DEF StosTimes, Repeat, Iterate
<1>2. \A x \in K : Stos(w, x) \in K
  BY MovsType
<1>3. step \in [1..n -> [K -> K]] /\ \A i \in 1..n : \A x \in K : step[i][x] = Stos(w, x)
  BY <1>2
<1> HIDE DEF step
<1>4. PICK f : IterateOf(f, n, K, m, step)
  BY <1>3, Recursion
<1>5. f \in [0..n -> K] /\ f[0] = m /\ \A i \in 1..n : f[i] = Stos(w, f[i - 1])
  BY <1>3, <1>4 DEF IterateOf
<1>6. f = [i \in 0..n |-> IF i = 0 THEN m ELSE Stos(w, f[i - 1])]
  BY <1>5
<1>7. after = [i \in 0..n |-> IF i = 0 THEN m ELSE Stos(w, after[i - 1])]
  BY <1>6
<1> HIDE DEF after
<1>8. after[0] \in K
  BY <1>7
<1>9. ASSUME NEW i \in 1..n, after[i - 1] \in K
      PROVE  after[i] \in K
  <2>1. i \in 0..n /\ i # 0
    OBVIOUS
  <2> QED
    BY <1>2, <1>7, <1>9, <2>1
<1>10. after[n] \in K
  BY <1>8, <1>9, KeptByStepsIn
<1> QED
  BY <1>1, <1>10

LEMMA LodsTimesType ==
  ASSUME NEW K, NEW W, Closed(K, W), NEW m \in K, NEW w \in W, NEW n \in Nat
  PROVE  LodsTimes(w, m, n) \in K
<1> DEFINE after[i \in 0..n] == IF i = 0 THEN m ELSE Lods(w, after[i - 1])
           step == [i \in 1..n |-> [x \in K |-> Lods(w, x)]]
<1>1. LodsTimes(w, m, n) = after[n]
  BY DEF LodsTimes, Repeat, Iterate
<1>2. \A x \in K : Lods(w, x) \in K
  BY MovsType
<1>3. step \in [1..n -> [K -> K]] /\ \A i \in 1..n : \A x \in K : step[i][x] = Lods(w, x)
  BY <1>2
<1> HIDE DEF step
<1>4. PICK f : IterateOf(f, n, K, m, step)
  BY <1>3, Recursion
<1>5. f \in [0..n -> K] /\ f[0] = m /\ \A i \in 1..n : f[i] = Lods(w, f[i - 1])
  BY <1>3, <1>4 DEF IterateOf
<1>6. f = [i \in 0..n |-> IF i = 0 THEN m ELSE Lods(w, f[i - 1])]
  BY <1>5
<1>7. after = [i \in 0..n |-> IF i = 0 THEN m ELSE Lods(w, after[i - 1])]
  BY <1>6
<1> HIDE DEF after
<1>8. after[0] \in K
  BY <1>7
<1>9. ASSUME NEW i \in 1..n, after[i - 1] \in K
      PROVE  after[i] \in K
  <2>1. i \in 0..n /\ i # 0
    OBVIOUS
  <2> QED
    BY <1>2, <1>7, <1>9, <2>1
<1>10. after[n] \in K
  BY <1>8, <1>9, KeptByStepsIn
<1> QED
  BY <1>1, <1>10

LEMMA InsTimesType ==
  ASSUME NEW K, NEW W, Closed(K, W), NEW m \in K, NEW w \in W, NEW n \in Nat
  PROVE  InsTimes(w, m, n) \in K
<1> DEFINE after[i \in 0..n] == IF i = 0 THEN m ELSE InsOnce(after[i - 1], w)
           step == [i \in 1..n |-> [x \in K |-> InsOnce(x, w)]]
<1>1. InsTimes(w, m, n) = after[n]
  BY DEF InsTimes, Repeat, Iterate
<1>2. \A x \in K : InsOnce(x, w) \in K
  BY PortOnceType
<1>3. step \in [1..n -> [K -> K]] /\ \A i \in 1..n : \A x \in K : step[i][x] = InsOnce(x, w)
  BY <1>2
<1> HIDE DEF step
<1>4. PICK f : IterateOf(f, n, K, m, step)
  BY <1>3, Recursion
<1>5. f \in [0..n -> K] /\ f[0] = m /\ \A i \in 1..n : f[i] = InsOnce(f[i - 1], w)
  BY <1>3, <1>4 DEF IterateOf
<1>6. f = [i \in 0..n |-> IF i = 0 THEN m ELSE InsOnce(f[i - 1], w)]
  BY <1>5
<1>7. after = [i \in 0..n |-> IF i = 0 THEN m ELSE InsOnce(after[i - 1], w)]
  BY <1>6
<1> HIDE DEF after
<1>8. after[0] \in K
  BY <1>7
<1>9. ASSUME NEW i \in 1..n, after[i - 1] \in K
      PROVE  after[i] \in K
  <2>1. i \in 0..n /\ i # 0
    OBVIOUS
  <2> QED
    BY <1>2, <1>7, <1>9, <2>1
<1>10. after[n] \in K
  BY <1>8, <1>9, KeptByStepsIn
<1> QED
  BY <1>1, <1>10

LEMMA OutsTimesType ==
  ASSUME NEW K, NEW W, Closed(K, W), NEW m \in K, NEW w \in W, NEW n \in Nat
  PROVE  OutsTimes(w, m, n) \in K
<1> DEFINE after[i \in 0..n] == IF i = 0 THEN m ELSE OutsOnce(after[i - 1], w)
           step == [i \in 1..n |-> [x \in K |-> OutsOnce(x, w)]]
<1>1. OutsTimes(w, m, n) = after[n]
  BY DEF OutsTimes, Repeat, Iterate
<1>2. \A x \in K : OutsOnce(x, w) \in K
  BY PortOnceType
<1>3. step \in [1..n -> [K -> K]] /\ \A i \in 1..n : \A x \in K : step[i][x] = OutsOnce(x, w)
  BY <1>2
<1> HIDE DEF step
<1>4. PICK f : IterateOf(f, n, K, m, step)
  BY <1>3, Recursion
<1>5. f \in [0..n -> K] /\ f[0] = m /\ \A i \in 1..n : f[i] = OutsOnce(f[i - 1], w)
  BY <1>3, <1>4 DEF IterateOf
<1>6. f = [i \in 0..n |-> IF i = 0 THEN m ELSE OutsOnce(f[i - 1], w)]
  BY <1>5
<1>7. after = [i \in 0..n |-> IF i = 0 THEN m ELSE OutsOnce(after[i - 1], w)]
  BY <1>6
<1> HIDE DEF after
<1>8. after[0] \in K
  BY <1>7
<1>9. ASSUME NEW i \in 1..n, after[i - 1] \in K
      PROVE  after[i] \in K
  <2>1. i \in 0..n /\ i # 0
    OBVIOUS
  <2> QED
    BY <1>2, <1>7, <1>9, <2>1
<1>10. after[n] \in K
  BY <1>8, <1>9, KeptByStepsIn
<1> QED
  BY <1>1, <1>10

\* The prefix of a repetition is taken off, and CX cleared.
LEMMA CountType ==
  ASSUME NEW K, NEW W, Closed(K, W), NEW m \in K
  PROVE  /\ EndRep(m) \in K /\ ClearCount(m) \in K /\ SetReg16(EndRep(m), CX, 0) \in K
         /\ Reg16(m, CX) \in Nat /\ RepCount(m) \in Nat /\ \A w : PortCount(m, w) \in Nat
         /\ \A p \in Rep : [m EXCEPT !.mode = @ \ {p}] \in K
<1>1. CX \in 0..7 /\ m \in Machines /\ 0 \in Int /\ OpSize(m) \in W
  BY RegisterNumbers, ClosedUnder, ClosedSteps
<1>2. \A s \in SUBSET Modes : [m EXCEPT !.mode = @ \ s] \in K
  BY DEF Closed
<1>3. Rep \in SUBSET Modes /\ \A p \in Rep : {p} \in SUBSET Modes
  BY DEF Modes
<1>4. EndRep(m) \in K /\ \A p \in Rep : [m EXCEPT !.mode = @ \ {p}] \in K
  BY <1>2, <1>3 DEF EndRep
<1>5. ASSUME NEW n \in K
      PROVE  SetReg16(n, CX, 0) \in K
  BY <1>1, ClosedUnder, SetWordType
<1>6. ClearCount(m) \in K
  <2>1. CASE "PREFIX_DATA" \in m.mode
    <3>1. OpSize(m) = LongBits /\ LongBits \in Nat /\ LongBits # 8 /\ LongBits # 16
      BY <2>1, WidthAssumption DEF OpSize
    <3>2. 0 \in Values(LongBits) /\ 2^LongBits \in Nat /\ 2^LongBits > 0
      BY <3>1, ValuesNat, PowPositive
    <3>3. SetReg(m, LongBits, CX, 0) \in K
      BY <1>1, <3>1, <3>2, ClosedSteps
    <3>4. SetReg(m, LongBits, CX, 0) = SetReg32(m, CX, 0)
      BY <3>1 DEF SetReg
    <3> QED
      BY <2>1, <3>3, <3>4 DEF ClearCount
  <2>2. CASE "PREFIX_DATA" \notin m.mode
    BY <1>5, <2>2 DEF ClearCount
  <2> QED
    BY <2>1, <2>2
<1>7. Reg16(m, CX) \in Nat /\ m.r[CX] \in Nat
  BY <1>1, RegType
<1>8. RepCount(m) \in Nat
  BY <1>7 DEF RepCount, Reg32
<1>9. \A w : PortCount(m, w) \in Nat
  BY <1>8 DEF PortCount
<1> QED
  BY <1>4, <1>5, <1>6, <1>7, <1>8, <1>9

LEMMA StringHandlers ==
  ASSUME NEW K, NEW W, Closed(K, W), NEW m \in K
  PROVE  /\ movs_byte(m) \in Ended(K) /\ movs_word(m) \in Ended(K)
         /\ stos_byte(m) \in Ended(K) /\ stos_word(m) \in Ended(K)
         /\ lods_byte(m) \in Ended(K) /\ lods_word(m) \in Ended(K)
<1> DEFINE n == SetReg16(EndRep(m), CX, 0)
           k == Reg16(m, CX)
           w == OpSize(m)
<1>1. 8 \in W /\ w \in W /\ n \in K /\ k \in Nat
  BY ClosedUnder, ClosedSteps, CountType
<1>2. /\ movs_byte(m) = IF m.mode \cap Rep = {} THEN Done(Movs(8, m)) ELSE Done(MovsTimes(8, n, k))
      /\ movs_word(m) = IF m.mode \cap Rep = {} THEN Done(Movs(w, m)) ELSE Done(MovsTimes(w, n, k))
  BY DEF movs_byte, movs_word, Repeated, MovsTimes
<1>3. /\ stos_byte(m) = IF m.mode \cap Rep = {} THEN Done(Stos(8, m)) ELSE Done(StosTimes(8, n, k))
      /\ stos_word(m) = IF m.mode \cap Rep = {} THEN Done(Stos(w, m)) ELSE Done(StosTimes(w, n, k))
  BY DEF stos_byte, stos_word, Repeated, StosTimes
<1>4. /\ lods_byte(m) = IF m.mode \cap Rep = {} THEN Done(Lods(8, m)) ELSE Done(LodsTimes(8, n, k))
      /\ lods_word(m) = IF m.mode \cap Rep = {} THEN Done(Lods(w, m)) ELSE Done(LodsTimes(w, n, k))
  BY DEF lods_byte, lods_word, Repeated, LodsTimes
<1> HIDE DEF n, k, w
<1>5. /\ Done(Movs(8, m)) \in Ended(K) /\ Done(Movs(w, m)) \in Ended(K)
      /\ Done(Stos(8, m)) \in Ended(K) /\ Done(Stos(w, m)) \in Ended(K)
      /\ Done(Lods(8, m)) \in Ended(K) /\ Done(Lods(w, m)) \in Ended(K)
  BY <1>1, MovsType, EndOf
<1>6. /\ Done(MovsTimes(8, n, k)) \in Ended(K) /\ Done(MovsTimes(w, n, k)) \in Ended(K)
      /\ Done(StosTimes(8, n, k)) \in Ended(K) /\ Done(StosTimes(w, n, k)) \in Ended(K)
      /\ Done(LodsTimes(8, n, k)) \in Ended(K) /\ Done(LodsTimes(w, n, k)) \in Ended(K)
  BY <1>1, MovsTimesType, StosTimesType, LodsTimesType, EndOf
<1> QED
  BY <1>2, <1>3, <1>4, <1>5, <1>6

LEMMA PortStringHandlers ==
  ASSUME NEW K, NEW W, Closed(K, W), NEW m \in K
  PROVE  /\ ins_byte(m) \in Ended(K) /\ ins_word(m) \in Ended(K)
         /\ outs_byte(m) \in Ended(K) /\ outs_word(m) \in Ended(K)
<1>1. 8 \in W /\ OpSize(m) \in W
  BY ClosedUnder, ClosedSteps
<1>2. ASSUME NEW w \in W
      PROVE  Done(ins(m, w)) \in Ended(K) /\ Done(outs(m, w)) \in Ended(K)
  <2> DEFINE n == PortCount(m, w)
  <2>1. n \in Nat
    BY CountType
  <2>2. /\ ins(m, w) = IF m.mode \cap Rep = {} THEN InsOnce(m, w) ELSE EndRep(ClearCount(InsTimes(w, m, n)))
        /\ outs(m, w) = IF m.mode \cap Rep = {} THEN OutsOnce(m, w) ELSE EndRep(ClearCount(OutsTimes(w, m, n)))
    BY DEF ins, outs, InsTimes, OutsTimes
  <2> HIDE DEF n
  <2>3. InsTimes(w, m, n) \in K /\ OutsTimes(w, m, n) \in K
    BY <2>1, InsTimesType, OutsTimesType
  <2>4. ClearCount(InsTimes(w, m, n)) \in K /\ ClearCount(OutsTimes(w, m, n)) \in K
    BY <2>3, CountType
  <2>5. EndRep(ClearCount(InsTimes(w, m, n))) \in K /\ EndRep(ClearCount(OutsTimes(w, m, n))) \in K
    BY <2>4, CountType
  <2>6. ins(m, w) \in K /\ outs(m, w) \in K
    BY <2>2, <2>5, PortOnceType
  <2> QED
    BY <2>6, EndOf
<1> QED
  BY <1>1, <1>2 DEF ins_byte, ins_word, outs_byte, outs_word

\* A comparison that is repeated: the machine, and whether it goes on.
More(K) == [m : K, more : BOOLEAN]
CmpsAll(w, m) == Compared(m, LAMBDA x : Cmps(w, x))
ScasAll(w, m) == Compared(m, LAMBDA x : Scas(w, x))

LEMMA CmpsAllType ==
  ASSUME NEW K, NEW W, Closed(K, W), NEW m \in K, NEW w \in W
  PROVE  CmpsAll(w, m) \in Ended(K)
<1> DEFINE p == IF "PREFIX_REPE" \in m.mode THEN "PREFIX_REPE" ELSE "PREFIX_REPNE"
           One_(x) == LET n == Cmps(w, SetReg16(x.m, CX, Reg16(x.m, CX) - 1))
                      IN  [m |-> n, more |-> (ZF \in n.f) = (p = "PREFIX_REPE")]
           Go(x) == IF x.more THEN One_(x) ELSE x
           start == [m |-> m, more |-> TRUE]
           n == Reg16(m, CX)
           after[i \in 0..n] == IF i = 0 THEN start ELSE Go(after[i - 1])
           step == [i \in 1..n |-> [x \in More(K) |-> Go(x)]]
<1>1. CmpsAll(w, m) = IF m.mode \cap Rep = {} THEN Done(Cmps(w, m))
                     ELSE Done([after[n].m EXCEPT !.mode = @ \ {p}])
  BY DEF CmpsAll, Compared, Iterate
<1>2. CX \in 0..7 /\ n \in Nat /\ p \in Rep
  BY RegisterNumbers, CountType DEF Rep
<1>3. start \in More(K)
  BY DEF More
<1>4. ASSUME NEW x \in More(K)
      PROVE  Go(x) \in More(K)
  <2> DEFINE c == Reg16(x.m, CX) - 1
             y == SetReg16(x.m, CX, c)
             z == Cmps(w, y)
  <2>1. x.m \in K /\ x.m \in Machines
    BY ClosedUnder DEF More
  <2>2. Reg16(x.m, CX) \in Nat
    BY <1>2, <2>1, RegType
  <2>3. c \in Int
    BY <2>2
  <2> HIDE DEF c
  <2>4. y \in K
    BY <1>2, <2>1, <2>3, ClosedUnder, SetWordType
  <2> HIDE DEF y
  <2>5. z \in K
    BY <2>4, CmpsType
  <2>6. One_(x) = [m |-> z, more |-> (ZF \in z.f) = (p = "PREFIX_REPE")]
    BY DEF y, c
  <2> HIDE DEF z
  <2>7. [m |-> z, more |-> (ZF \in z.f) = (p = "PREFIX_REPE")] \in More(K)
    BY <2>5 DEF More
  <2>8. One_(x) \in More(K)
    BY <2>6, <2>7
  <2> HIDE DEF One_
  <2> QED
    BY <2>8
<1> HIDE DEF p, start, n, Go
<1>5. step \in [1..n -> [More(K) -> More(K)]] /\ \A i \in 1..n : \A x \in More(K) : step[i][x] = Go(x)
  BY <1>4
<1> HIDE DEF step
<1>6. PICK f : IterateOf(f, n, More(K), start, step)
  BY <1>2, <1>3, <1>5, Recursion
<1>7. f \in [0..n -> More(K)] /\ f[0] = start /\ \A i \in 1..n : f[i] = Go(f[i - 1])
  BY <1>2, <1>5, <1>6 DEF IterateOf
<1>8. f = [i \in 0..n |-> IF i = 0 THEN start ELSE Go(f[i - 1])]
  BY <1>2, <1>7
<1>9. after = [i \in 0..n |-> IF i = 0 THEN start ELSE Go(after[i - 1])]
  BY <1>8
<1> HIDE DEF after
<1>10. after[0] \in More(K)
  BY <1>2, <1>3, <1>9
<1>11. ASSUME NEW i \in 1..n, after[i - 1] \in More(K)
       PROVE  after[i] \in More(K)
  <2>1. i \in 0..n /\ i # 0
    BY <1>2
  <2> QED
    BY <1>4, <1>9, <1>11, <2>1
<1>12. after[n] \in More(K)
  BY <1>2, <1>10, <1>11, KeptByStepsIn
<1>13. after[n].m \in K
  BY <1>12 DEF More
<1>14. Done([after[n].m EXCEPT !.mode = @ \ {p}]) \in Ended(K)
  BY <1>2, <1>13, CountType, EndOf
<1>15. Done(Cmps(w, m)) \in Ended(K)
  BY CmpsType, EndOf
<1> QED
  BY <1>1, <1>14, <1>15

LEMMA ScasAllType ==
  ASSUME NEW K, NEW W, Closed(K, W), NEW m \in K, NEW w \in W
  PROVE  ScasAll(w, m) \in Ended(K)
<1> DEFINE p == IF "PREFIX_REPE" \in m.mode THEN "PREFIX_REPE" ELSE "PREFIX_REPNE"
           One_(x) == LET n == Scas(w, SetReg16(x.m, CX, Reg16(x.m, CX) - 1))
                      IN  [m |-> n, more |-> (ZF \in n.f) = (p = "PREFIX_REPE")]
           Go(x) == IF x.more THEN One_(x) ELSE x
           start == [m |-> m, more |-> TRUE]
           n == Reg16(m, CX)
           after[i \in 0..n] == IF i = 0 THEN start ELSE Go(after[i - 1])
           step == [i \in 1..n |-> [x \in More(K) |-> Go(x)]]
<1>1. ScasAll(w, m) = IF m.mode \cap Rep = {} THEN Done(Scas(w, m))
                     ELSE Done([after[n].m EXCEPT !.mode = @ \ {p}])
  BY DEF ScasAll, Compared, Iterate
<1>2. CX \in 0..7 /\ n \in Nat /\ p \in Rep
  BY RegisterNumbers, CountType DEF Rep
<1>3. start \in More(K)
  BY DEF More
<1>4. ASSUME NEW x \in More(K)
      PROVE  Go(x) \in More(K)
  <2> DEFINE c == Reg16(x.m, CX) - 1
             y == SetReg16(x.m, CX, c)
             z == Scas(w, y)
  <2>1. x.m \in K /\ x.m \in Machines
    BY ClosedUnder DEF More
  <2>2. Reg16(x.m, CX) \in Nat
    BY <1>2, <2>1, RegType
  <2>3. c \in Int
    BY <2>2
  <2> HIDE DEF c
  <2>4. y \in K
    BY <1>2, <2>1, <2>3, ClosedUnder, SetWordType
  <2> HIDE DEF y
  <2>5. z \in K
    BY <2>4, CmpsType
  <2>6. One_(x) = [m |-> z, more |-> (ZF \in z.f) = (p = "PREFIX_REPE")]
    BY DEF y, c
  <2> HIDE DEF z
  <2>7. [m |-> z, more |-> (ZF \in z.f) = (p = "PREFIX_REPE")] \in More(K)
    BY <2>5 DEF More
  <2>8. One_(x) \in More(K)
    BY <2>6, <2>7
  <2> HIDE DEF One_
  <2> QED
    BY <2>8
<1> HIDE DEF p, start, n, Go
<1>5. step \in [1..n -> [More(K) -> More(K)]] /\ \A i \in 1..n : \A x \in More(K) : step[i][x] = Go(x)
  BY <1>4
<1> HIDE DEF step
<1>6. PICK f : IterateOf(f, n, More(K), start, step)
  BY <1>2, <1>3, <1>5, Recursion
<1>7. f \in [0..n -> More(K)] /\ f[0] = start /\ \A i \in 1..n : f[i] = Go(f[i - 1])
  BY <1>2, <1>5, <1>6 DEF IterateOf
<1>8. f = [i \in 0..n |-> IF i = 0 THEN start ELSE Go(f[i - 1])]
  BY <1>2, <1>7
<1>9. after = [i \in 0..n |-> IF i = 0 THEN start ELSE Go(after[i - 1])]
  BY <1>8
<1> HIDE DEF after
<1>10. after[0] \in More(K)
  BY <1>2, <1>3, <1>9
<1>11. ASSUME NEW i \in 1..n, after[i - 1] \in More(K)
       PROVE  after[i] \in More(K)
  <2>1. i \in 0..n /\ i # 0
    BY <1>2
  <2> QED
    BY <1>4, <1>9, <1>11, <2>1
<1>12. after[n] \in More(K)
  BY <1>2, <1>10, <1>11, KeptByStepsIn
<1>13. after[n].m \in K
  BY <1>12 DEF More
<1>14. Done([after[n].m EXCEPT !.mode = @ \ {p}]) \in Ended(K)
  BY <1>2, <1>13, CountType, EndOf
<1>15. Done(Scas(w, m)) \in Ended(K)
  BY CmpsType, EndOf
<1> QED
  BY <1>1, <1>14, <1>15

LEMMA CompareHandlers ==
  ASSUME NEW K, NEW W, Closed(K, W), NEW m \in K
  PROVE  /\ cmps_byte(m) \in Ended(K) /\ cmps_word(m) \in Ended(K)
         /\ scas_byte(m) \in Ended(K) /\ scas_word(m) \in Ended(K)
<1>1. 8 \in W /\ OpSize(m) \in W
  BY ClosedUnder, ClosedSteps
<1>2. cmps_byte(m) = CmpsAll(8, m) /\ cmps_word(m) = CmpsAll(OpSize(m), m)
  BY DEF cmps_byte, cmps_word, CmpsAll
<1>3. scas_byte(m) = ScasAll(8, m) /\ scas_word(m) = ScasAll(OpSize(m), m)
  BY DEF scas_byte, scas_word, ScasAll
<1> QED
  BY <1>1, <1>2, <1>3, CmpsAllType, ScasAllType

(***************************************************************************)
(* The instructions of two bytes.                                          *)
(***************************************************************************)
LEMMA LongJumpType ==
  ASSUME NEW K, NEW W, Closed(K, W), NEW m \in K, NEW op2
  PROVE  long_jump(m, op2) \in Ended(K)
<1> DEFINE c == cond(m.f, op2 - 128)
<1>1. GoIf(Relative(m, 16), c) \in Ended(K)
  BY JumpIfType
<1> QED
  BY <1>1 DEF long_jump

LEMMA SetByteType ==
  ASSUME NEW K, NEW W, Closed(K, W), NEW m \in K, NEW op2
  PROVE  set_byte(m, op2) \in Ended(K)
<1> DEFINE o == Decode(m)
           v == IF cond(m.f, op2 - 144) THEN 1 ELSE 0
<1>1. 8 \in W /\ 8 \in Widths
  BY ClosedUnder DEF Widths
<1>2. o \in Operands(K)
  BY ClosedUnder, DecodeType
<1> HIDE DEF o
<1>3. v \in Values(8)
  BY <1>1, KnownGrow
<1> HIDE DEF v
<1>4. Store(o.m, 8, o, v) \in K
  BY <1>1, <1>2, <1>3, ClosedUnder, OperandHas, StoreType
<1> QED
  BY <1>4, EndOf DEF set_byte, StoreByte, o, v

(***************************************************************************)
(* Bits.                                                                   *)
(***************************************************************************)
LEMMA PowIn ==
  ASSUME NEW w \in Nat, NEW bit \in Nat, bit < w
  PROVE  2^bit \in Values(w) /\ 2^bit \in Nat /\ 2^bit > 0
<1>1. 2^bit \in Nat /\ 2^bit > 0 /\ 2^w \in Nat
  BY PowPositive
<1>2. 2^(bit + 1) <= 2^w /\ 2^(bit + 1) = 2 * 2^bit
  <2>1. bit + 1 \in Nat /\ bit + 1 <= w
    OBVIOUS
  <2> QED
    BY <2>1, PowGrows, PowNext
<1> QED
  BY <1>1, <1>2 DEF Values

LEMMA WithBitType ==
  ASSUME NEW how \in {"test", "set", "reset", "complement"}, NEW w \in Widths,
         NEW x \in Values(w), NEW bit \in Nat, bit < w
  PROVE  WithBit(how, x, bit) \in Values(w)
<1>1. w \in Nat
  BY WidthType
<1>2. 2^bit \in Values(w) /\ 2^bit \in Nat /\ 2^bit > 0
  BY <1>1, PowIn
<1>3. Or(x, 2^bit) \in Values(w) /\ Xor(x, 2^bit) \in Values(w)
  BY <1>2, LogicType
<1>4. ASSUME Bit(x, bit)
      PROVE  x - 2^bit \in Values(w)
  <2>1. x \in Nat /\ 2^w \in Nat
    BY <1>1, ValuesNat, PowPositive
  <2>2. (x \div 2^bit) % 2 = 1
    BY <1>4 DEF Bit
  <2>3. ASSUME NEW p \in Nat, p > 0, x < p
        PROVE  x \div p = 0
    BY <2>1, <2>3
  <2>4. ~(x < 2^bit)
    BY <1>2, <2>2, <2>3
  <2> QED
    BY <1>2, <2>1, <2>4 DEF Values
<1>5. CASE how = "test"
  BY <1>5 DEF WithBit
<1>6. CASE how = "set"
  BY <1>3, <1>6 DEF WithBit
<1>7. CASE how = "reset"
  BY <1>4, <1>7 DEF WithBit
<1>8. CASE how = "complement"
  BY <1>3, <1>8 DEF WithBit
<1> QED
  BY <1>5, <1>6, <1>7, <1>8

LEMMA BitOfType ==
  ASSUME NEW K, NEW W, Closed(K, W), NEW how \in {"test", "set", "reset", "complement"}, NEW w \in W,
         NEW o \in LoadedOperands(K, w), NEW bit \in Nat, bit < w
  PROVE  BitOf(how, w, o, bit) \in Ended(K)
<1>1. w \in Widths /\ w \in Nat
  BY ClosedUnder, WidthType
<1>2. /\ o.m \in K /\ o.mem \in BOOLEAN /\ o.at \in Values(LongBits) /\ (~o.mem => o.at \in 0..7) /\ o.v \in Values(w)
  BY <1>1, LoadedHas
<1> DEFINE f == SetIf(o.m.f, Bit(o.v, bit), CF)
           v == WithBit(how, o.v, bit)
<1>3. f \in SUBSET FlagBits
  BY <1>2, ClosedUnder, MachineFlags, FlagsKnown DEF SetIf
<1> HIDE DEF f
<1>4. v \in Values(w)
  BY <1>1, <1>2, WithBitType
<1> HIDE DEF v
<1>5. <<v, f>> \in Results(w)
  BY <1>1, <1>3, <1>4, ResultIs
<1>6. StoreResult(w, o, <<v, f>>) \in Ended(K)
  BY <1>2, <1>5, StoreResultType
<1>7. FlagsResult(o, <<o.v, f>>) \in Ended(K)
  <2> DEFINE x == <<o.v, f>>
  <2>1. x[2] \in SUBSET FlagBits
    BY <1>3
  <2> HIDE DEF x
  <2>2. FlagsResult(o, x) \in Ended(K)
    BY <1>2, <2>1, FlagsResultType
  <2> QED
    BY <2>2 DEF x
<1> QED
  BY <1>6, <1>7 DEF BitOf, f, v

LEMMA BeyondType ==
  ASSUME NEW K, NEW o \in Operands(K), NEW disp \in Int
  PROVE  Beyond(o, disp) \in Operands(K)
<1>1. LongBits \in Nat /\ o.at \in Values(LongBits)
  BY WidthAssumption, OperandHas
<1>2. o.at \in Int
  BY <1>1, ValuesNat
<1> DEFINE a == o.at + disp
<1>3. a \in Int
  BY <1>2
<1>4. Beyond(o, disp) = IF o.mem THEN [o EXCEPT !.at = Mod(LongBits, a)] ELSE o
  BY DEF Beyond
<1> HIDE DEF a
<1>5. Mod(LongBits, a) \in Values(LongBits)
  BY <1>1, <1>3, ModType
<1> QED
  BY <1>4, <1>5 DEF Operands

LEMMA BitRegType ==
  ASSUME NEW K, NEW W, Closed(K, W), NEW m \in K, NEW how \in {"test", "set", "reset", "complement"}
  PROVE  Bit_R(how, m) \in Ended(K)
<1> DEFINE w == OpSize(m)
           o == Decode(m)
           n == Reg(o.m, w, o.rh)
           s == Signed(16, Mod(16, n))
           d == s \div w
           l == Loaded(w, Beyond(o, d))
           bit == n % w
<1>1. w \in W /\ w \in Widths /\ w \in Nat /\ w > 0
  BY ClosedSteps, WidthType
<1> HIDE DEF w
<1>2. o \in Operands(K)
  BY ClosedUnder, DecodeType
<1> HIDE DEF o
<1>3. o.m \in Machines /\ o.rh \in 0..7
  BY <1>2, OperandHas, ClosedUnder
<1>4. n \in Nat
  BY <1>1, <1>3, RegType
<1> HIDE DEF n
<1>5. s \in Int
  <2>1. Mod(16, n) \in Values(16)
    BY <1>4, ModType
  <2> QED
    BY <2>1, SignedType
<1> HIDE DEF s
<1>6. d \in Int
  BY <1>1, <1>5
<1> HIDE DEF d
<1>7. Beyond(o, d) \in Operands(K)
  BY <1>2, <1>6, BeyondType
<1>8. l \in LoadedOperands(K, w)
  BY <1>1, <1>7, ClosedUnder, LoadType
<1> HIDE DEF l
<1>9. bit \in Nat /\ bit < w
  BY <1>1, <1>4
<1> HIDE DEF bit
<1>10. BitOf(how, w, l, bit) \in Ended(K)
  BY <1>1, <1>8, <1>9, BitOfType
<1> QED
  BY <1>10 DEF Bit_R, Bit_RM, BitNumber, w, o, n, s, d, l, bit

LEMMA BitImmType ==
  ASSUME NEW K, NEW W, Closed(K, W), NEW m \in K
  PROVE  btX_I(m) \in Ended(K)
<1> DEFINE w == OpSize(m)
           d == fetch_decode_modrm(m)
           o == BitGroup(d)
           i == fetch_byte_imm(o.m)
           p == [o EXCEPT !.m = i.m]
           l == Loaded(w, p)
           bit == i.v % w
           how == CASE o.rh < 5 -> "test" [] o.rh = 5 -> "set" [] o.rh = 6 -> "reset" [] o.rh = 7 -> "complement"
<1>1. w \in W /\ w \in Widths /\ w \in Nat /\ w > 0 /\ 8 \in Widths
  BY ClosedSteps, WidthType DEF Widths
<1> HIDE DEF w
<1>2. d \in Decoded(K)
  BY ClosedUnder, ModRMType
<1> HIDE DEF d
<1>3. o \in Operands(K)
  <2>1. (d.rh < 4) \in BOOLEAN
    OBVIOUS
  <2>2. Operand(HaltIf(d.rh < 4, d)) \in Operands(K)
    BY <1>2, <2>1, HaltIfType
  <2> QED
    BY <2>2 DEF BitGroup
<1> HIDE DEF o
<1>4. o.m \in K /\ o.rh \in 0..7
  BY <1>3, OperandHas
<1>5. i.m \in K /\ i.v \in Nat
  BY <1>1, <1>4, ClosedUnder, FetchType, ReadHas
<1> HIDE DEF i
<1>6. p \in Operands(K)
  BY <1>3, <1>5, OperandHas
<1> HIDE DEF p
<1>7. l \in LoadedOperands(K, w)
  BY <1>1, <1>6, ClosedUnder, LoadType
<1> HIDE DEF l
<1>8. bit \in Nat /\ bit < w
  BY <1>1, <1>5
<1> HIDE DEF bit
<1>9. how \in {"test", "set", "reset", "complement"}
  <2>1. o.rh < 5 \/ o.rh = 5 \/ o.rh = 6 \/ o.rh = 7
    BY <1>4
  <2>2. CASE o.rh < 5
    BY <1>4, <2>2
  <2>3. CASE o.rh = 5
    BY <2>3
  <2>4. CASE o.rh = 6
    BY <2>4
  <2>5. CASE o.rh = 7
    BY <2>5
  <2> QED
    BY <2>1, <2>2, <2>3, <2>4, <2>5
<1> HIDE DEF how
<1>10. BitOf(how, w, l, bit) \in Ended(K)
  BY <1>1, <1>7, <1>8, <1>9, BitOfType
<1>11. Bit_I(w, o, i) = BitOf(how, w, l, bit)
  BY DEF Bit_I, how, l, p, bit
<1> QED
  BY <1>10, <1>11 DEF btX_I, BitImm, w, o, i, d

\* A number is less than the power of two.
LEMMA PowAbove ==
  ASSUME NEW n \in Nat
  PROVE  n < 2^n
<1> DEFINE S == {x \in Nat : x < 2^x}
<1>1. 0 \in S
  BY PowPositive
<1>2. ASSUME NEW x \in Nat, x \in S
      PROVE  x + 1 \in S
  <2>1. x < 2^x /\ 2^x \in Nat /\ 2^(x + 1) = 2 * 2^x
    BY <1>2, PowPositive, PowNext
  <2> QED
    BY <2>1
<1> HIDE DEF S
<1>3. n \in S
  BY <1>1, <1>2, ReachedFromZero
<1> QED
  BY <1>3 DEF S

LEMMA ScanType ==
  ASSUME NEW w \in Widths, NEW b \in SUBSET (0..w - 1)
  PROVE  FirstBit(w, b) \in Values(w) /\ LastBit(b) \in Values(w)
<1>1. w \in Nat /\ w < 2^w /\ 2^w \in Nat
  BY WidthType, PowAbove, PowPositive
<1>2. 0..w \subseteq Values(w)
  BY <1>1 DEF Values
<1>3. ASSUME b # {}
      PROVE  Min(b) \in b /\ Max(b) \in b
  <2>1. PICK n \in b : TRUE
    BY <1>3
  <2>2. n \in Nat /\ b \subseteq 0..w
    BY <1>1, <2>1
  <2>3. \E x \in b : \A y \in b : x <= y
    <3>1. PICK x \in Nat : x \in b /\ \A y \in 0..(x - 1) : y \notin b
      BY <2>1, <2>2, LeastMember
    <3>2. ASSUME NEW y \in b
          PROVE  x <= y
      <4>1. y \in Nat /\ y \notin 0..(x - 1)
        BY <2>2, <3>1
      <4> QED
        BY <4>1
    <3> QED
      BY <3>1, <3>2
  <2>4. \E x \in b : \A y \in b : x >= y
    <3>1. PICK x \in b : \A y \in b : y <= x
      BY <1>1, <1>3, <2>2, LastPlace
    <3>2. ASSUME NEW y \in b
          PROVE  x >= y
      <4>1. y <= x /\ x \in Nat /\ y \in Nat
        BY <2>2, <3>1
      <4> QED
        BY <4>1
    <3> QED
      BY <3>2
  <2> QED
    BY <2>3, <2>4 DEF Min, Max
<1>4. FirstBit(w, b) \in 0..w /\ LastBit(b) \in 0..w
  <2>1. CASE b = {}
    BY <1>1, <2>1 DEF FirstBit, LastBit
  <2>2. CASE b # {}
    <3>1. Min(b) \in 0..w - 1 /\ Max(b) \in 0..w - 1
      BY <1>3, <2>2
    <3>2. FirstBit(w, b) = Min(b) /\ LastBit(b) = Max(b)
      BY <2>2 DEF FirstBit, LastBit
    <3> QED
      BY <1>1, <3>1, <3>2
  <2> QED
    BY <2>1, <2>2
<1> QED
  BY <1>2, <1>4

LEMMA ScanHandlers ==
  ASSUME NEW K, NEW W, Closed(K, W), NEW m \in K
  PROVE  bsf(m) \in Ended(K) /\ bsr(m) \in Ended(K)
<1> DEFINE w == OpSize(m)
           o == Loaded(w, Decode(m))
           b == BitsSeen(w, o)
           f == SetIf(o.m.f, o.v = 0, ZF)
<1>1. w \in W
  BY ClosedSteps
<1> HIDE DEF w
<1>2. o.m \in K /\ o.m.f \in SUBSET FlagBits /\ o.rh \in 0..7 /\ w \in Widths /\ w \in Nat
  BY <1>1, LoadedWithReg, WidthType
<1> HIDE DEF o
<1>3. b \in SUBSET (0..w - 1)
  BY DEF BitsSeen
<1> HIDE DEF b
<1>4. FirstBit(w, b) \in Values(w) /\ LastBit(b) \in Values(w)
  BY <1>2, <1>3, ScanType
<1>5. f \in SUBSET FlagBits
  BY <1>2, FlagsKnown DEF SetIf
<1> HIDE DEF f
<1>6. <<FirstBit(w, b), f>> \in Results(w) /\ <<LastBit(b), f>> \in Results(w)
  BY <1>2, <1>4, <1>5, ResultIs
<1>7. RegResult(w, o, o.rh, <<FirstBit(w, b), f>>) \in Ended(K) /\ RegResult(w, o, o.rh, <<LastBit(b), f>>) \in Ended(K)
  BY <1>1, <1>2, <1>6, RegResultType
<1> QED
  BY <1>7 DEF bsf, bsr, Forward, Backward, Scanned, w, o, b, f

(***************************************************************************)
(* Double shifts, multiplication, and moves that extend.                   *)
(***************************************************************************)
LEMMA DoubleShiftType ==
  ASSUME NEW K, NEW W, Closed(K, W), NEW w \in W, NEW o \in LoadedOperands(K, w), NEW amt \in Nat
  PROVE  DoubleShift(shld, w, o, amt) \in Ended(K) /\ DoubleShift(shrd, w, o, amt) \in Ended(K)
<1> DEFINE u == o.m.undef # 0
           fill == Reg(o.m, w, o.rh)
<1>1. w \in Widths
  BY ClosedUnder
<1>2. /\ o.m \in K /\ o.m \in Machines /\ o.mem \in BOOLEAN /\ o.at \in Values(LongBits)
      /\ (~o.mem => o.at \in 0..7) /\ o.v \in Values(w) /\ o.rh \in 0..7
  BY <1>1, LoadedHas, ClosedUnder
<1>3. o.m.f \in SUBSET FlagBits /\ fill \in Values(w)
  BY <1>1, <1>2, ClosedUnder, MachineFlags, RegType
<1> HIDE DEF u, fill
<1>4. shld(u, w, o.m.f, o.v, fill, amt) \in Results(w) /\ shrd(u, w, o.m.f, o.v, fill, amt) \in Results(w)
  BY <1>1, <1>2, <1>3, ShiftType DEF shld, shrd
<1>5. /\ StoreResult(w, o, shld(u, w, o.m.f, o.v, fill, amt)) \in Ended(K)
      /\ StoreResult(w, o, shrd(u, w, o.m.f, o.v, fill, amt)) \in Ended(K)
  BY <1>2, <1>4, StoreResultType
<1> QED
  BY <1>5 DEF DoubleShift, u, fill

LEMMA DoubleShiftHandlers ==
  ASSUME NEW K, NEW W, Closed(K, W), NEW m \in K
  PROVE  shld_IMM(m) \in Ended(K) /\ shrd_IMM(m) \in Ended(K) /\ shld_CL(m) \in Ended(K) /\ shrd_CL(m) \in Ended(K)
<1> DEFINE w == OpSize(m)
           o == Decode(m)
           i == fetch_byte_imm(o.m)
           p == [o EXCEPT !.m = i.m]
           l == Loaded(w, p)
           n == Loaded(w, o)
<1>1. w \in W /\ w \in Widths /\ 8 \in Widths /\ m \in Machines /\ CL \in 0..7
  BY ClosedSteps, RegisterNumbers DEF Widths
<1> HIDE DEF w
<1>2. o \in Operands(K) /\ o.m \in K
  BY ClosedUnder, DecodeType, OperandHas
<1> HIDE DEF o
<1>3. i.m \in K /\ i.v \in Nat
  BY <1>1, <1>2, ClosedUnder, FetchType, ReadHas
<1> HIDE DEF i
<1>4. p \in Operands(K)
  BY <1>2, <1>3, OperandHas
<1> HIDE DEF p
<1>5. l \in LoadedOperands(K, w) /\ n \in LoadedOperands(K, w)
  BY <1>1, <1>2, <1>4, ClosedUnder, LoadType
<1> HIDE DEF l, n
<1>6. Reg8(m, CL) \in Nat
  BY <1>1, RegType
<1>7. DoubleShift(shld, w, l, i.v) \in Ended(K) /\ DoubleShift(shrd, w, l, i.v) \in Ended(K)
  BY <1>1, <1>3, <1>5, DoubleShiftType
<1>8. DoubleShift(shld, w, n, Reg8(m, CL)) \in Ended(K) /\ DoubleShift(shrd, w, n, Reg8(m, CL)) \in Ended(K)
  BY <1>1, <1>5, <1>6, DoubleShiftType
<1>9. shld_IMM(m) \in Ended(K) /\ shrd_IMM(m) \in Ended(K)
  BY <1>7 DEF shld_IMM, ShldImm, ShldBy, shrd_IMM, ShrdImm, ShrdBy, w, o, i, p, l
<1>10. shld_CL(m) \in Ended(K) /\ shrd_CL(m) \in Ended(K)
  BY <1>8 DEF shld_CL, shrd_CL, w, o, n
<1> QED
  BY <1>9, <1>10

LEMMA ImulRegType ==
  ASSUME NEW K, NEW W, Closed(K, W), NEW m \in K
  PROVE  imul_R_RM(m) \in Ended(K)
<1> DEFINE w == OpSize(m)
           o == Loaded(w, Decode(m))
           p == ImulPair(w, Reg(o.m, w, o.rh), o.v)
<1>1. w \in W /\ w \in {16, LongBits}
  BY ClosedSteps DEF OpSize
<1> HIDE DEF w
<1>2. o.m \in K /\ o.rh \in 0..7 /\ o.v \in Values(w) /\ Reg(o.m, w, o.rh) \in Values(w)
  BY <1>1, LoadedWithReg
<1> HIDE DEF o
<1>3. p \in Pairs(w)
  BY <1>1, <1>2, ImulPairType
<1> HIDE DEF p
<1>4. ImulResult(w, o.rh, o, p) \in Ended(K)
  BY <1>1, <1>2, <1>3, ImulResultType
<1> QED
  BY <1>4 DEF imul_R_RM, ImulReg, w, o, p

LEMMA ExtendType ==
  ASSUME NEW K, NEW W, Closed(K, W), NEW m \in K, NEW from \in W, NEW to \in W, from <= to
  PROVE  ZeroExtend(to, Loaded(from, Decode(m))) \in Ended(K) /\ SignExtend(from, to, Loaded(from, Decode(m))) \in Ended(K)
<1> DEFINE o == Loaded(from, Decode(m))
           s == Signed(from, o.v)
           x == [o EXCEPT !.v = Mod(to, s)]
<1>1. from \in Widths /\ to \in Widths /\ from \in Nat /\ from >= 1 /\ to \in Nat
  BY ClosedUnder, WidthType
<1>2. o \in LoadedOperands(K, from) /\ o.m \in K /\ o.rh \in 0..7 /\ o.v \in Values(from)
  BY LoadedWithReg
<1> HIDE DEF o
<1>3. o.v \in Values(to)
  BY <1>1, <1>2, ValuesGrow
<1>4. ZeroExtend(to, o) \in Ended(K)
  BY <1>2, <1>3, SetFromType DEF ZeroExtend
<1>5. s \in Int
  BY <1>1, <1>2, SignedType
<1>6. SignExtend(from, to, o) = SetFrom(to, o.rh, x)
  BY DEF SignExtend
<1> HIDE DEF s
<1>7. Mod(to, s) \in Values(to)
  BY <1>1, <1>5, ModType
<1>8. x.m = o.m /\ x.v = Mod(to, s)
  BY <1>2 DEF LoadedOperands
<1> HIDE DEF x
<1>9. SetFrom(to, o.rh, x) \in Ended(K)
  BY <1>2, <1>7, <1>8, SetFromType
<1> QED
  BY <1>4, <1>6, <1>9 DEF o

LEMMA ExtendHandlers ==
  ASSUME NEW K, NEW W, Closed(K, W), NEW m \in K
  PROVE  /\ movzx_byte_R_RM(m) \in Ended(K) /\ movsx_byte_R_RM(m) \in Ended(K)
         /\ LongBits \in W => movzx_word_R_RM(m) \in Ended(K) /\ movsx_word_R_RM(m) \in Ended(K)
<1>1. 8 \in W /\ 16 \in W /\ OpSize(m) \in W /\ OpSize(m) \in Nat /\ 8 <= OpSize(m)
  BY ClosedUnder, ClosedSteps, WidthType
<1>2. LongBits \in Nat /\ 16 <= LongBits
  BY WidthAssumption
<1>3. movzx_byte_R_RM(m) \in Ended(K) /\ movsx_byte_R_RM(m) \in Ended(K)
  BY <1>1, ExtendType DEF movzx_byte_R_RM, movsx_byte_R_RM
<1>4. ASSUME LongBits \in W
      PROVE  movzx_word_R_RM(m) \in Ended(K) /\ movsx_word_R_RM(m) \in Ended(K)
  BY <1>1, <1>2, <1>4, ExtendType DEF movzx_word_R_RM, movsx_word_R_RM
<1> QED
  BY <1>3, <1>4

(***************************************************************************)
(* Writing a part of a register: what is above the part is kept.           *)
(***************************************************************************)
LEMMA ModIs ==
  ASSUME NEW x \in Int
  PROVE  Mod(8, x) = x % 256 /\ Mod(16, x) = x % 65536
<1>1. ASSUME NEW w, w = 8
      PROVE  Mod(w, x) = x % 256
  BY <1>1 DEF Mod
<1>2. ASSUME NEW w, w = 16
      PROVE  Mod(w, x) = x % 65536
  BY <1>2 DEF Mod
<1> QED
  BY <1>1, <1>2

LEMMA Halves ==
  ASSUME NEW p \in Nat, p > 0, NEW q \in Nat, q > 0
  PROVE  /\ \A x \in 0..p * q - 1 : \E h \in 0..p - 1, l \in 0..q - 1 : x = q * h + l
         /\ \A h \in 0..p - 1, l \in 0..q - 1 : q * h + l \in 0..p * q - 1
<1>1. ASSUME NEW x \in 0..p * q - 1
      PROVE  \E h \in 0..p - 1, l \in 0..q - 1 : x = q * h + l
  <2>1. x \div q \in 0..p - 1 /\ x % q \in 0..q - 1
    BY Split
  <2>2. x = q * (x \div q) + (x % q)
    OBVIOUS
  <2> QED
    BY <2>1, <2>2
<1>2. ASSUME NEW h \in 0..p - 1, NEW l \in 0..q - 1
      PROVE  q * h + l \in 0..p * q - 1
  <2>1. PICK k \in Nat : p = h + 1 + k
    <3>1. p - h - 1 \in Nat /\ p = h + 1 + (p - h - 1)
      OBVIOUS
    <3> QED
      BY <3>1
  <2>2. q * (h + 1 + k) = q * h + q + q * k /\ q * k \in Nat /\ q * h \in Nat
    OBVIOUS
  <2>3. p * q = q * h + q + q * k
    BY <2>1, <2>2
  <2> QED
    BY <2>2, <2>3
<1> QED
  BY <1>1, <1>2

\* A long is one of p upper halves and a lower one.
LongParts(p) ==
  /\ \A x \in Values(LongBits) : \E h \in 0..p - 1, l \in Nat : x = 65536 * h + l /\ l < 65536
  /\ \A h \in 0..p - 1, l \in Nat : l < 65536 => 65536 * h + l \in Values(LongBits)

LEMMA LongIs == \E p \in Nat : LongParts(p)
<1>1. LongBits - 16 \in Nat /\ LongBits = (LongBits - 16) + 16
  BY WidthAssumption
<1>2. ASSUME NEW w, w = 16
      PROVE  w \in Nat /\ 2^w = 65536
  BY <1>2
<1>3. 2^((LongBits - 16) + 16) = 2^(LongBits - 16) * 2^16
  BY <1>1, PowSum
<1> DEFINE p == 2^(LongBits - 16)
<1>4. p \in Nat /\ p > 0
  BY <1>1, PowPositive
<1>5. \E q \in Nat : q > 0 /\ q = 65536 /\ 2^LongBits = p * q
  <2>1. 2^LongBits = p * 65536
    BY <1>1, <1>2, <1>3
  <2> QED
    BY <2>1
<1>6. PICK q \in Nat : q > 0 /\ q = 65536 /\ 2^LongBits = p * q
  BY <1>5
<1> HIDE DEF p
<1>7. Values(LongBits) = 0..p * q - 1
  BY <1>6 DEF Values
<1>8. /\ \A x \in 0..p * q - 1 : \E h \in 0..p - 1, l \in 0..q - 1 : x = q * h + l
      /\ \A h \in 0..p - 1, l \in 0..q - 1 : q * h + l \in 0..p * q - 1
  <2>1. q \in Nat /\ q > 0
    BY <1>6
  <2> QED
    BY ONLY <1>4, <2>1, Halves
<1>9. ASSUME NEW x \in Values(LongBits)
      PROVE  \E h \in 0..p - 1, l \in Nat : x = q * h + l /\ l < q
  <2>1. PICK h \in 0..p - 1, l \in 0..q - 1 : x = q * h + l
    BY ONLY <1>7, <1>8, x \in Values(LongBits)
  <2>2. l \in Nat /\ l < q
    BY ONLY q \in Nat, l \in 0..q - 1
  <2> QED
    BY ONLY <2>1, <2>2
<1>10. ASSUME NEW h \in 0..p - 1, NEW l \in Nat, l < q
       PROVE  q * h + l \in Values(LongBits)
  <2>1. l \in 0..q - 1
    BY ONLY q \in Nat, l \in Nat, l < q, <1>10
  <2> QED
    BY ONLY <1>7, <1>8, <2>1, h \in 0..p - 1
<1>11. q = 65536
  BY <1>6
<1>12. /\ \A x \in Values(LongBits) : \E h \in 0..p - 1, l \in Nat : x = 65536 * h + l /\ l < 65536
       /\ \A h \in 0..p - 1, l \in Nat : l < 65536 => 65536 * h + l \in Values(LongBits)
  BY ONLY <1>9, <1>10, <1>11
<1>13. LongParts(p)
  BY <1>12 DEF LongParts
<1> QED
  BY <1>4, <1>13

\* A long with the part below q replaced, and the half that is above a word.
Part(old, q, v) == (old - (old % q)) + v
Upper(x)        == x \div 65536

LEMMA Replaced ==
  ASSUME NEW old \in Values(LongBits), NEW q, q = 256 \/ q = 65536, NEW v \in Nat, v < q
  PROVE  Part(old, q, v) \in Values(LongBits) /\ Upper(Part(old, q, v)) = Upper(old)
<1>0. PICK p \in Nat : LongParts(p)
  BY LongIs
<1>1. /\ \A x \in Values(LongBits) : \E h \in 0..p - 1, l \in Nat : x = 65536 * h + l /\ l < 65536
      /\ \A h \in 0..p - 1, l \in Nat : l < 65536 => 65536 * h + l \in Values(LongBits)
  BY <1>0 DEF LongParts
<1>2. PICK h \in 0..p - 1, l \in Nat : old = 65536 * h + l /\ l < 65536
  BY <1>1
<1>3. h \in Nat /\ old \div 65536 = h
  BY <1>2
<1>4. ASSUME NEW x \in Nat, x < 65536
      PROVE  65536 * h + x \in Values(LongBits) /\ (65536 * h + x) \div 65536 = h
  <2>1. (65536 * h + x) \div 65536 = h
    BY <1>3, <1>4
  <2> QED
    BY <1>1, <1>2, <1>4, <2>1
<1>5. CASE q = 65536
  <2>1. old % q = l
    BY <1>2, <1>3, <1>5
  <2>2. (old - (old % q)) + v = 65536 * h + v /\ v < 65536
    BY <1>2, <1>3, <1>5, <2>1
  <2> QED
    BY <1>3, <1>4, <2>2 DEF Part, Upper
<1>6. CASE q = 256
  <2>1. PICK a \in Nat, b \in Nat : l = 256 * a + b /\ a < 256 /\ b < 256
    <3>1. l \div 256 \in Nat /\ l % 256 \in Nat /\ l = 256 * (l \div 256) + (l % 256) /\ l \div 256 < 256 /\ l % 256 < 256
      BY <1>2
    <3> QED
      BY <3>1
  <2>2. old = 65536 * h + 256 * a + b
    BY <1>2, <1>3, <2>1
  <2>3. old % 256 = b
    BY <1>3, <2>1, <2>2
  <2>4. (old - (old % q)) + v = 65536 * h + (256 * a + v) /\ 256 * a + v \in Nat /\ 256 * a + v < 65536
    BY <1>3, <1>6, <2>1, <2>2, <2>3
  <2> DEFINE x == 256 * a + v
  <2>5. (old - (old % q)) + v = 65536 * h + x /\ x \in Nat /\ x < 65536
    BY <2>4
  <2> HIDE DEF x
  <2> QED
    BY <1>3, <1>4, <2>5 DEF Part, Upper
<1> QED
  BY <1>5, <1>6

PutReg(m, i, x) == [m EXCEPT !.r[i] = x]

\* A machine with one register changed, and not its upper half unless all of it is written.
Writes(w, m, p) ==
  \E i \in 0..7 : \E x \in Values(LongBits) :
    p = PutReg(m, i, x) /\ (w \in {8, 16} => Upper(x) = Upper(m.r[i]))

LEMMA WritesIs ==
  ASSUME NEW w, NEW m, NEW p, NEW i \in 0..7, NEW x \in Values(LongBits), p = PutReg(m, i, x),
         w \in {8, 16} => Upper(x) = Upper(m.r[i])
  PROVE  Writes(w, m, p)
BY DEF Writes

LEMMA WrittenType ==
  ASSUME NEW m \in Machines, NEW w \in Widths, NEW n \in 0..7, NEW v \in Values(w)
  PROVE  Writes(w, m, SetReg(m, w, n, v))
<1>1. LongBits \in Nat /\ LongBits # 8 /\ LongBits # 16
  BY WidthAssumption
<1>2. CASE w = 8
  <2>1. n % 4 \in 0..7 /\ v \in Nat /\ v < 256
    <3>1. v \in 0..255
      BY <1>2, Values8
    <3> QED
      BY <3>1
  <2> DEFINE i == n % 4
             old == m.r[i]
  <2>2. old \in Values(LongBits) /\ old \in Nat
    BY <2>1, RegType
  <2>3. SetReg(m, w, n, v) = SetReg8(m, n, v)
    BY <1>2 DEF SetReg
  <2>4. Mod(8, old) = old % 256 /\ Mod(16, old) = old % 65536
    BY <2>2, ModIs
  <2>0. i \in 0..7 /\ Upper(old) = Upper(m.r[i])
    BY <2>1
  <2> HIDE DEF i, old
  <2>5. CASE n < 4
    <3>1. SetReg8(m, n, v) = PutReg(m, i, Part(old, 256, v))
      BY <2>4, <2>5 DEF SetReg8, PutReg, Part, i, old
    <3>2. Part(old, 256, v) \in Values(LongBits) /\ Upper(Part(old, 256, v)) = Upper(old)
      BY <2>1, <2>2, Replaced
    <3> QED
      BY <2>0, <2>3, <3>1, <3>2, WritesIs
  <2>6. CASE ~(n < 4)
    <3> DEFINE b == v * 256 + (old % 256)
    <3>1. b \in Nat /\ b < 65536
      BY <2>1, <2>2
    <3>2. (old - (old % 65536)) + v * 256 + (old % 256) = (old - (old % 65536)) + b
      BY <2>1, <2>2
    <3> HIDE DEF b
    <3>3. SetReg8(m, n, v) = PutReg(m, i, Part(old, 65536, b))
      BY <2>4, <2>6, <3>2 DEF SetReg8, PutReg, Part, i, old
    <3>4. Part(old, 65536, b) \in Values(LongBits) /\ Upper(Part(old, 65536, b)) = Upper(old)
      BY <2>2, <3>1, Replaced
    <3> QED
      BY <2>0, <2>3, <3>3, <3>4, WritesIs
  <2> QED
    BY <2>5, <2>6
<1>3. CASE w = 16
  <2> DEFINE old == m.r[n]
             x == Mod(16, v)
  <2>1. old \in Values(LongBits) /\ old \in Nat
    BY RegType
  <2>2. v \in Nat /\ v < 65536
    BY <1>3, WordBelow
  <2>3. Mod(16, old) = old % 65536 /\ x = v
    BY <2>1, <2>2, ModIs
  <2>0. Upper(old) = Upper(m.r[n])
    OBVIOUS
  <2> HIDE DEF x, old
  <2>4. SetReg(m, w, n, v) = PutReg(m, n, Part(old, 65536, v))
    BY <1>3, <2>3 DEF SetReg, SetReg16, PutReg, Part, x, old
  <2>5. Part(old, 65536, v) \in Values(LongBits) /\ Upper(Part(old, 65536, v)) = Upper(old)
    BY <2>1, <2>2, Replaced
  <2> QED
    BY <2>0, <2>4, <2>5, WritesIs
<1>4. CASE w = LongBits
  <2> DEFINE x == Mod(LongBits, v)
  <2>1. v \in Int
    BY <1>1, <1>4, ValuesNat
  <2>2. x \in Values(LongBits)
    BY <1>1, <2>1, ModType
  <2>3. SetReg(m, w, n, v) = PutReg(m, n, x)
    BY <1>1, <1>4 DEF SetReg, SetReg32, PutReg
  <2> HIDE DEF x
  <2> QED
    BY <1>1, <1>4, <2>2, <2>3, WritesIs
<1> QED
  BY <1>2, <1>3, <1>4 DEF Widths

(***************************************************************************)
(* All the machines are closed.                                            *)
(***************************************************************************)
LEMMA MachinesFetched == FetchClosed(Machines)
<1>1. ASSUME NEW m \in Machines
      PROVE  X86EMU_halt_sys(m) \in Machines
  <2>1. m.intr \cup {"HALTED"} \in SUBSET Interrupts
    BY DEF Machines, Interrupts
  <2> QED
    BY <2>1 DEF X86EMU_halt_sys, Machines
<1>2. ASSUME NEW m \in Machines, NEW ip \in Values(16)
      PROVE  [m EXCEPT !.ip = ip] \in Machines
  BY DEF Machines
<1> QED
  BY <1>1, <1>2 DEF FetchClosed

LEMMA OpSizeIs ==
  ASSUME NEW m
  PROVE  OpSize(m) \in Widths /\ ("PREFIX_DATA" \notin m.mode => OpSize(m) = 16)
BY DEF OpSize, Widths

\* A machine with one field changed, to what the field may hold.
LEMMA FieldType ==
  ASSUME NEW m \in Machines
  PROVE  /\ \A x \in Registers : [m EXCEPT !.r = x] \in Machines
         /\ \A x \in [Segments -> Values(16)] : [m EXCEPT !.seg = x] \in Machines
         /\ \A x \in SUBSET FlagBits : [m EXCEPT !.f = x] \in Machines
         /\ \A x \in SUBSET Modes : [m EXCEPT !.mode = x] \in Machines
         /\ \A x \in SUBSET Interrupts : [m EXCEPT !.intr = x] \in Machines
         /\ \A x \in Memories : [m EXCEPT !.mem = x] \in Machines
         /\ \A x \in Seq(Outputs) : [m EXCEPT !.io = x] \in Machines
BY DEF Machines

\* The same machine but for one field.
LEMMA PutRegType ==
  ASSUME NEW m \in Machines, NEW i \in 0..7, NEW x \in Values(LongBits)
  PROVE  /\ PutReg(m, i, x) \in Machines
         /\ PutReg(m, i, x) = [m EXCEPT !.r = [m.r EXCEPT ![i] = x]]
<1>1. [m.r EXCEPT ![i] = x] \in Registers
  BY MachineType DEF Registers
<1>2. PutReg(m, i, x) = [m EXCEPT !.r = [m.r EXCEPT ![i] = x]]
  BY DEF PutReg
<1> QED
  BY <1>1, <1>2, FieldType

LEMMA MachinesClosed == Closed(Machines, Widths)
<1>1. FetchClosed(Machines)
  BY MachinesFetched
<1>2. ReadClosed(Machines)
  <2>1. ASSUME NEW m \in Machines
        PROVE  Stack(m) \in Machines
    <3>1. m.mode \cup {"SEG_DS_SS"} \in SUBSET Modes
      BY MachineType DEF Modes, SYSMODE_CLRMASK
    <3> QED
      BY <3>1, FieldType DEF Stack
  <2> QED
    BY <1>1, <2>1 DEF ReadClosed
<1>3. ASSUME NEW m \in Machines
      PROVE  /\ OpSize(m) \in Widths /\ Crash(m) \in Machines
             /\ \A f \in SUBSET FlagBits : Flags(m, f) \in Machines
             /\ \A name \in Segments : \A v \in Values(16) : SetSeg(m, name, v) \in Machines
             /\ \A w \in Widths : \A n \in 0..7 : \A v \in Values(w) : SetReg(m, w, n, v) \in Machines
             /\ \A s \in SUBSET Modes : [m EXCEPT !.mode = @ \ s] \in Machines
  <2>1. OpSize(m) \in Widths
    BY OpSizeIs
  <2>2. Crash(m) \in Machines
    <3>1. m.intr \cup {"CRASHED"} \in SUBSET Interrupts
      BY MachineType DEF Interrupts
    <3> QED
      BY <3>1, FieldType DEF Crash
  <2>3. \A f \in SUBSET FlagBits : Flags(m, f) \in Machines
    BY FieldType DEF Flags
  <2>4. ASSUME NEW name \in Segments, NEW v \in Values(16)
        PROVE  SetSeg(m, name, v) \in Machines
    <3>1. [m.seg EXCEPT ![name] = v] \in [Segments -> Values(16)]
      BY MachineType
    <3> QED
      BY <3>1, FieldType DEF SetSeg
  <2>5. ASSUME NEW w \in Widths, NEW n \in 0..7, NEW v \in Values(w)
        PROVE  SetReg(m, w, n, v) \in Machines
    <3>1. Writes(w, m, SetReg(m, w, n, v))
      BY WrittenType
    <3> DEFINE p == SetReg(m, w, n, v)
    <3> HIDE DEF p
    <3>2. PICK i \in 0..7, x \in Values(LongBits) : p = PutReg(m, i, x)
      BY <3>1 DEF Writes, p
    <3>3. PutReg(m, i, x) \in Machines
      BY PutRegType
    <3> QED
      BY <3>2, <3>3 DEF p
  <2>6. ASSUME NEW s \in SUBSET Modes
        PROVE  [m EXCEPT !.mode = @ \ s] \in Machines
    <3>1. m.mode \ s \in SUBSET Modes
      BY MachineType
    <3> QED
      BY <3>1, FieldType
  <2> QED
    BY <2>1, <2>2, <2>3, <2>4, <2>5, <2>6
<1>4. DataClosed(Machines, Widths)
  BY <1>1, <1>3, FieldType DEF DataClosed, Widths
<1> QED
  BY <1>2, <1>3, <1>4 DEF Closed

(***************************************************************************)
(* Interrupts.  pushw() writes the whole of ESP, so what is closed must be *)
(* closed under writing longs.                                             *)
(***************************************************************************)
LEMMA PushwType ==
  ASSUME NEW K, NEW W, Closed(K, W), LongBits \in W, NEW m \in K, NEW v \in Nat
  PROVE  pushw(m, v) \in K
<1> DEFINE x == m.r[SP] - 2
           n == SetReg32(m, SP, x)
           a == Linear(n.seg["SS"], Reg16(n, SP))
<1>1. m \in Machines /\ SP \in 0..7 /\ "SS" \in Segments /\ FetchClosed(K) /\ DataClosed(K, W)
  BY ClosedUnder, ClosedSteps DEF SP, Segments
<1>2. LongBits \in Nat /\ LongBits # 8 /\ LongBits # 16
  BY WidthAssumption
<1>3. x \in Int
  BY <1>1, RegType
<1>4. Mod(LongBits, x) \in Values(LongBits)
  BY <1>2, <1>3, ModType
<1> HIDE DEF x
<1>5. n \in K
  <2>1. SetReg(m, LongBits, SP, Mod(LongBits, x)) \in K
    BY <1>1, <1>4, ClosedSteps
  <2>2. Mod(LongBits, Mod(LongBits, x)) = Mod(LongBits, x)
    <3> DEFINE p == 2^LongBits
               y == Mod(LongBits, x)
    <3>1. p \in Nat /\ p > 0
      BY <1>2, PowPositive
    <3>2. y \in 0..p - 1
      BY <1>4 DEF Values
    <3>3. Mod(LongBits, y) = y % p
      BY DEF Mod
    <3> HIDE DEF p, y
    <3>4. y % p = y
      BY <3>1, <3>2
    <3> QED
      BY <3>3, <3>4 DEF y
  <2>3. SetReg(m, LongBits, SP, Mod(LongBits, x)) = SetReg32(m, SP, Mod(LongBits, x))
    BY <1>2 DEF SetReg
  <2>4. SetReg32(m, SP, Mod(LongBits, x)) = SetReg32(m, SP, x)
    BY <2>2 DEF SetReg32
  <2> QED
    BY <2>1, <2>3, <2>4 DEF n
<1> HIDE DEF n
<1>6. n \in Machines
  BY <1>5, ClosedSteps
<1>7. n.seg["SS"] \in Int /\ Reg16(n, SP) \in Int
  BY <1>1, <1>6, SegType, RegType
<1>8. a \in Nat
  BY <1>7, LinearType
<1>9. PutWord(n, v) = wr(n, a, 2, v)
  BY DEF PutWord
<1> HIDE DEF a
<1>10. wr(n, a, 2, v) \in K
  BY <1>1, <1>5, <1>8, WrType
<1> QED
  BY <1>9, <1>10 DEF pushw, n, x

LEMMA VectorType ==
  ASSUME NEW m \in Machines, NEW num \in Nat, NEW part \in Nat
  PROVE  Vector(m, num, part) \in Values(16)
<1> DEFINE a == num * 4 + part
<1>1. FetchClosed(Machines) /\ a \in Nat
  BY MachinesFetched
<1> HIDE DEF a
<1>2. rd(m, a, 2) \in Read(Machines, 8 * 2)
  BY <1>1, RdType
<1>3. rd(m, a, 2).v \in Values(16)
  BY <1>2 DEF Read
<1> QED
  BY <1>3 DEF Vector, mem_access_word, a

LEMMA DoIntType ==
  ASSUME NEW K, NEW W, Closed(K, W), LongBits \in W, NEW m \in K, NEW num \in Nat
  PROVE  x86emu_do_int(m, num) \in K
<1> DEFINE a == pushw(m, PushedFlags(m))
           b == pushw(a, m.seg["CS"])
           c == pushw(b, m.ip)
           f == c.f \ {TF, 19}
           d == Flags(c, f)
<1>1. m \in Machines /\ "CS" \in Segments
  BY ClosedSteps DEF Segments
<1>2. PushedFlags(m) \in Nat
  <2>1. m.f \cup {IF_} \in SUBSET FlagBits
    BY <1>1, MachineType, FlagsKnown
  <2>2. Number({x \in m.f \cup {IF_} : x < 16}) \in Values(16)
    BY <2>1, FlagNumber
  <2> QED
    BY <2>2, ValuesNat DEF PushedFlags
<1>3. a \in K
  BY <1>2, PushwType
<1>4. m.seg["CS"] \in Nat /\ m.ip \in Nat
  BY <1>1, SegType
<1> HIDE DEF a
<1>5. b \in K
  BY <1>3, <1>4, PushwType
<1> HIDE DEF b
<1>6. c \in K
  BY <1>4, <1>5, PushwType
<1> HIDE DEF c
<1>7. c \in Machines
  BY <1>6, ClosedSteps
<1>8. f \in SUBSET FlagBits
  BY <1>7, MachineType
<1>9. d \in K
  BY <1>6, <1>8, ClosedSteps
<1>10. Vector(c, num, 2) \in Values(16) /\ Vector(c, num, 0) \in Values(16)
  BY <1>7, VectorType
<1>11. Handle(c, num) = JumpFar(d, Vector(c, num, 2), Vector(c, num, 0))
  BY DEF Handle, Flags
<1> HIDE DEF f, d
<1>12. JumpFar(d, Vector(c, num, 2), Vector(c, num, 0)) \in K
  BY <1>9, <1>10, JumpFarType
<1> QED
  BY <1>11, <1>12 DEF x86emu_do_int, c, b, a

LEMMA InterruptHandlers ==
  ASSUME NEW K, NEW W, Closed(K, W), LongBits \in W, NEW m \in K
  PROVE  int3(m) \in Ended(K) /\ int_IMM(m) \in Ended(K) /\ into(m) \in Ended(K)
<1>1. x86emu_do_int(m, 3) \in K /\ x86emu_do_int(m, 4) \in K
  BY DoIntType
<1> DEFINE i == fetch_byte_imm(m)
<1>2. i \in Read(K, 8) /\ 8 \in Widths
  BY ClosedUnder, FetchType DEF Widths
<1> HIDE DEF i
<1>3. i.m \in K /\ i.v \in Nat
  BY <1>2, ReadHas
<1>4. x86emu_do_int(i.m, i.v) \in K
  BY <1>3, DoIntType
<1>5. int_IMM(m) \in Ended(K)
  BY <1>4, EndOf DEF int_IMM, IntFrom, i
<1>6. int3(m) \in Ended(K)
  BY <1>1, EndOf DEF int3
<1>7. into(m) \in Ended(K)
  BY <1>1, EndOf DEF into
<1> QED
  BY <1>5, <1>6, <1>7

(***************************************************************************)
(* The tables.  What an operation leaves, but for the prefixes, the        *)
(* illegal ones, interrupts, divisions and those of two bytes.             *)
(***************************************************************************)
LEMMA RemainingHandlers ==
  ASSUME NEW K, NEW W, Closed(K, W), NEW m \in K
  PROVE  /\ bt_R(m) \in Ended(K) /\ btr_R(m) \in Ended(K) /\ btc_R(m) \in Ended(K)
         /\ les_R_IMM(m) \in Ended(K) /\ lds_R_IMM(m) \in Ended(K) /\ lss_R_IMM(m) \in Ended(K)
         /\ lfs_R_IMM(m) \in Ended(K) /\ lgs_R_IMM(m) \in Ended(K)
<1>1. \A name \in Segments : LoadFar(m, name) \in Ended(K)
  BY LoadFarType
<1>2. {"ES", "DS", "SS", "FS", "GS"} \subseteq Segments
  BY DEF Segments
<1>3. /\ les_R_IMM(m) \in Ended(K) /\ lds_R_IMM(m) \in Ended(K) /\ lss_R_IMM(m) \in Ended(K)
      /\ lfs_R_IMM(m) \in Ended(K) /\ lgs_R_IMM(m) \in Ended(K)
  BY <1>1, <1>2 DEF les_R_IMM, lds_R_IMM, lss_R_IMM, lfs_R_IMM, lgs_R_IMM
<1>4. Bit_R("test", m) \in Ended(K) /\ Bit_R("reset", m) \in Ended(K) /\ Bit_R("complement", m) \in Ended(K)
  BY BitRegType
<1> QED
  BY <1>3, <1>4 DEF bt_R, btr_R, btc_R

\* Prefixes, and what raises an interrupt, or may; the others are ordinary.
Overrides == {38, 46, 54, 62, 100, 101}
Sizes     == {102, 103}
Repeats   == {242, 243}
Illegal   == {98, 99, 214, 241}
Software  == {204, 205, 206}
Divides   == {246, 247}
Special   == Overrides \cup Sizes \cup Repeats \cup Illegal \cup Software \cup Divides \cup {15}

LEMMA Optab00Type ==
  ASSUME NEW K, NEW W, Closed(K, W), NEW m \in K, NEW op1 \in 0..127, op1 \notin Special
  PROVE  Optab00(m, op1) \in Ended(K)
<1>1. CASE op1 \in {0, 1, 2, 3, 4, 5, 6, 7}
  <2>1. /\ Optab00(m, 0) = add_byte_RM_R(m) /\ Optab00(m, 1) = add_word_RM_R(m)
        /\ Optab00(m, 2) = add_byte_R_RM(m) /\ Optab00(m, 3) = add_word_R_RM(m)
        /\ Optab00(m, 4) = add_byte_AL_IMM(m) /\ Optab00(m, 5) = add_word_AX_IMM(m)
        /\ Optab00(m, 6) = push_ES(m) /\ Optab00(m, 7) = pop_ES(m)
    BY DEF Optab00
  <2>2. /\ add_byte_RM_R(m) \in Ended(K) /\ add_word_RM_R(m) \in Ended(K) /\ add_byte_R_RM(m) \in Ended(K)
        /\ add_word_R_RM(m) \in Ended(K) /\ add_byte_AL_IMM(m) \in Ended(K) /\ add_word_AX_IMM(m) \in Ended(K)
        /\ push_ES(m) \in Ended(K) /\ pop_ES(m) \in Ended(K)
    BY ArithmeticHandlers, PushHandlers
  <2> QED
    BY <1>1, <2>1, <2>2
<1>2. CASE op1 \in {8, 9, 10, 11, 12, 13, 14}
  <2>1. /\ Optab00(m, 8) = or_byte_RM_R(m) /\ Optab00(m, 9) = or_word_RM_R(m)
        /\ Optab00(m, 10) = or_byte_R_RM(m) /\ Optab00(m, 11) = or_word_R_RM(m)
        /\ Optab00(m, 12) = or_byte_AL_IMM(m) /\ Optab00(m, 13) = or_word_AX_IMM(m)
        /\ Optab00(m, 14) = push_CS(m)
    BY DEF Optab00
  <2>2. /\ or_byte_RM_R(m) \in Ended(K) /\ or_word_RM_R(m) \in Ended(K) /\ or_byte_R_RM(m) \in Ended(K)
        /\ or_word_R_RM(m) \in Ended(K) /\ or_byte_AL_IMM(m) \in Ended(K) /\ or_word_AX_IMM(m) \in Ended(K)
        /\ push_CS(m) \in Ended(K)
    BY ArithmeticHandlers, PushHandlers
  <2> QED
    BY <1>2, <2>1, <2>2
<1>3. CASE op1 \in {16, 17, 18, 19, 20, 21, 22, 23}
  <2>1. /\ Optab00(m, 16) = adc_byte_RM_R(m) /\ Optab00(m, 17) = adc_word_RM_R(m)
        /\ Optab00(m, 18) = adc_byte_R_RM(m) /\ Optab00(m, 19) = adc_word_R_RM(m)
        /\ Optab00(m, 20) = adc_byte_AL_IMM(m) /\ Optab00(m, 21) = adc_word_AX_IMM(m)
        /\ Optab00(m, 22) = push_SS(m) /\ Optab00(m, 23) = pop_SS(m)
    BY DEF Optab00
  <2>2. /\ adc_byte_RM_R(m) \in Ended(K) /\ adc_word_RM_R(m) \in Ended(K) /\ adc_byte_R_RM(m) \in Ended(K)
        /\ adc_word_R_RM(m) \in Ended(K) /\ adc_byte_AL_IMM(m) \in Ended(K) /\ adc_word_AX_IMM(m) \in Ended(K)
        /\ push_SS(m) \in Ended(K) /\ pop_SS(m) \in Ended(K)
    BY ArithmeticHandlers, PushHandlers
  <2> QED
    BY <1>3, <2>1, <2>2
<1>4. CASE op1 \in {24, 25, 26, 27, 28, 29, 30, 31}
  <2>1. /\ Optab00(m, 24) = sbb_byte_RM_R(m) /\ Optab00(m, 25) = sbb_word_RM_R(m)
        /\ Optab00(m, 26) = sbb_byte_R_RM(m) /\ Optab00(m, 27) = sbb_word_R_RM(m)
        /\ Optab00(m, 28) = sbb_byte_AL_IMM(m) /\ Optab00(m, 29) = sbb_word_AX_IMM(m)
        /\ Optab00(m, 30) = push_DS(m) /\ Optab00(m, 31) = pop_DS(m)
    BY DEF Optab00
  <2>2. /\ sbb_byte_RM_R(m) \in Ended(K) /\ sbb_word_RM_R(m) \in Ended(K) /\ sbb_byte_R_RM(m) \in Ended(K)
        /\ sbb_word_R_RM(m) \in Ended(K) /\ sbb_byte_AL_IMM(m) \in Ended(K) /\ sbb_word_AX_IMM(m) \in Ended(K)
        /\ push_DS(m) \in Ended(K) /\ pop_DS(m) \in Ended(K)
    BY ArithmeticHandlers, PushHandlers
  <2> QED
    BY <1>4, <2>1, <2>2
<1>5. CASE op1 \in {32, 33, 34, 35, 36, 37, 39}
  <2>1. /\ Optab00(m, 32) = and_byte_RM_R(m) /\ Optab00(m, 33) = and_word_RM_R(m)
        /\ Optab00(m, 34) = and_byte_R_RM(m) /\ Optab00(m, 35) = and_word_R_RM(m)
        /\ Optab00(m, 36) = and_byte_AL_IMM(m) /\ Optab00(m, 37) = and_word_AX_IMM(m)
        /\ Optab00(m, 39) = daa(m)
    BY DEF Optab00
  <2>2. /\ and_byte_RM_R(m) \in Ended(K) /\ and_word_RM_R(m) \in Ended(K) /\ and_byte_R_RM(m) \in Ended(K)
        /\ and_word_R_RM(m) \in Ended(K) /\ and_byte_AL_IMM(m) \in Ended(K) /\ and_word_AX_IMM(m) \in Ended(K)
        /\ daa(m) \in Ended(K)
    BY ArithmeticHandlers, DecimalHandlers
  <2> QED
    BY <1>5, <2>1, <2>2
<1>6. CASE op1 \in {40, 41, 42, 43, 44, 45, 47}
  <2>1. /\ Optab00(m, 40) = sub_byte_RM_R(m) /\ Optab00(m, 41) = sub_word_RM_R(m)
        /\ Optab00(m, 42) = sub_byte_R_RM(m) /\ Optab00(m, 43) = sub_word_R_RM(m)
        /\ Optab00(m, 44) = sub_byte_AL_IMM(m) /\ Optab00(m, 45) = sub_word_AX_IMM(m)
        /\ Optab00(m, 47) = das(m)
    BY DEF Optab00
  <2>2. /\ sub_byte_RM_R(m) \in Ended(K) /\ sub_word_RM_R(m) \in Ended(K) /\ sub_byte_R_RM(m) \in Ended(K)
        /\ sub_word_R_RM(m) \in Ended(K) /\ sub_byte_AL_IMM(m) \in Ended(K) /\ sub_word_AX_IMM(m) \in Ended(K)
        /\ das(m) \in Ended(K)
    BY ArithmeticHandlers, DecimalHandlers
  <2> QED
    BY <1>6, <2>1, <2>2
<1>7. CASE op1 \in {48, 49, 50, 51, 52, 53, 55}
  <2>1. /\ Optab00(m, 48) = xor_byte_RM_R(m) /\ Optab00(m, 49) = xor_word_RM_R(m)
        /\ Optab00(m, 50) = xor_byte_R_RM(m) /\ Optab00(m, 51) = xor_word_R_RM(m)
        /\ Optab00(m, 52) = xor_byte_AL_IMM(m) /\ Optab00(m, 53) = xor_word_AX_IMM(m)
        /\ Optab00(m, 55) = aaa(m)
    BY DEF Optab00
  <2>2. /\ xor_byte_RM_R(m) \in Ended(K) /\ xor_word_RM_R(m) \in Ended(K) /\ xor_byte_R_RM(m) \in Ended(K)
        /\ xor_word_R_RM(m) \in Ended(K) /\ xor_byte_AL_IMM(m) \in Ended(K) /\ xor_word_AX_IMM(m) \in Ended(K)
        /\ aaa(m) \in Ended(K)
    BY ArithmeticHandlers, DecimalHandlers
  <2> QED
    BY <1>7, <2>1, <2>2
<1>8. CASE op1 \in {56, 57, 58, 59, 60, 61, 63}
  <2>1. /\ Optab00(m, 56) = cmp_byte_RM_R(m) /\ Optab00(m, 57) = cmp_word_RM_R(m)
        /\ Optab00(m, 58) = cmp_byte_R_RM(m) /\ Optab00(m, 59) = cmp_word_R_RM(m)
        /\ Optab00(m, 60) = cmp_byte_AL_IMM(m) /\ Optab00(m, 61) = cmp_word_AX_IMM(m)
        /\ Optab00(m, 63) = aas(m)
    BY DEF Optab00
  <2>2. /\ cmp_byte_RM_R(m) \in Ended(K) /\ cmp_word_RM_R(m) \in Ended(K) /\ cmp_byte_R_RM(m) \in Ended(K)
        /\ cmp_word_R_RM(m) \in Ended(K) /\ cmp_byte_AL_IMM(m) \in Ended(K) /\ cmp_word_AX_IMM(m) \in Ended(K)
        /\ aas(m) \in Ended(K)
    BY ArithmeticHandlers, DecimalHandlers
  <2> QED
    BY <1>8, <2>1, <2>2
<1>9. CASE op1 \in {64, 65, 66, 67, 68, 69, 70, 71}
  <2>1. /\ Optab00(m, 64) = inc_AX(m) /\ Optab00(m, 65) = inc_CX(m)
        /\ Optab00(m, 66) = inc_DX(m) /\ Optab00(m, 67) = inc_BX(m)
        /\ Optab00(m, 68) = inc_SP(m) /\ Optab00(m, 69) = inc_BP(m)
        /\ Optab00(m, 70) = inc_SI(m) /\ Optab00(m, 71) = inc_DI(m)
    BY DEF Optab00
  <2>2. /\ inc_AX(m) \in Ended(K) /\ inc_CX(m) \in Ended(K) /\ inc_DX(m) \in Ended(K)
        /\ inc_BX(m) \in Ended(K) /\ inc_SP(m) \in Ended(K) /\ inc_BP(m) \in Ended(K)
        /\ inc_SI(m) \in Ended(K) /\ inc_DI(m) \in Ended(K)
    BY RegOpHandlers
  <2> QED
    BY <1>9, <2>1, <2>2
<1>10. CASE op1 \in {72, 73, 74, 75, 76, 77, 78, 79}
  <2>1. /\ Optab00(m, 72) = dec_AX(m) /\ Optab00(m, 73) = dec_CX(m)
        /\ Optab00(m, 74) = dec_DX(m) /\ Optab00(m, 75) = dec_BX(m)
        /\ Optab00(m, 76) = dec_SP(m) /\ Optab00(m, 77) = dec_BP(m)
        /\ Optab00(m, 78) = dec_SI(m) /\ Optab00(m, 79) = dec_DI(m)
    BY DEF Optab00
  <2>2. /\ dec_AX(m) \in Ended(K) /\ dec_CX(m) \in Ended(K) /\ dec_DX(m) \in Ended(K)
        /\ dec_BX(m) \in Ended(K) /\ dec_SP(m) \in Ended(K) /\ dec_BP(m) \in Ended(K)
        /\ dec_SI(m) \in Ended(K) /\ dec_DI(m) \in Ended(K)
    BY RegOpHandlers
  <2> QED
    BY <1>10, <2>1, <2>2
<1>11. CASE op1 \in {80, 81, 82, 83, 84, 85, 86, 87}
  <2>1. /\ Optab00(m, 80) = push_AX(m) /\ Optab00(m, 81) = push_CX(m)
        /\ Optab00(m, 82) = push_DX(m) /\ Optab00(m, 83) = push_BX(m)
        /\ Optab00(m, 84) = push_SP(m) /\ Optab00(m, 85) = push_BP(m)
        /\ Optab00(m, 86) = push_SI(m) /\ Optab00(m, 87) = push_DI(m)
    BY DEF Optab00
  <2>2. /\ push_AX(m) \in Ended(K) /\ push_CX(m) \in Ended(K) /\ push_DX(m) \in Ended(K)
        /\ push_BX(m) \in Ended(K) /\ push_SP(m) \in Ended(K) /\ push_BP(m) \in Ended(K)
        /\ push_SI(m) \in Ended(K) /\ push_DI(m) \in Ended(K)
    BY PushHandlers
  <2> QED
    BY <1>11, <2>1, <2>2
<1>12. CASE op1 \in {88, 89, 90, 91, 92, 93, 94, 95}
  <2>1. /\ Optab00(m, 88) = pop_AX(m) /\ Optab00(m, 89) = pop_CX(m)
        /\ Optab00(m, 90) = pop_DX(m) /\ Optab00(m, 91) = pop_BX(m)
        /\ Optab00(m, 92) = pop_SP(m) /\ Optab00(m, 93) = pop_BP(m)
        /\ Optab00(m, 94) = pop_SI(m) /\ Optab00(m, 95) = pop_DI(m)
    BY DEF Optab00
  <2>2. /\ pop_AX(m) \in Ended(K) /\ pop_CX(m) \in Ended(K) /\ pop_DX(m) \in Ended(K)
        /\ pop_BX(m) \in Ended(K) /\ pop_SP(m) \in Ended(K) /\ pop_BP(m) \in Ended(K)
        /\ pop_SI(m) \in Ended(K) /\ pop_DI(m) \in Ended(K)
    BY PushHandlers
  <2> QED
    BY <1>12, <2>1, <2>2
<1>13. CASE op1 \in {96, 97}
  <2>1. Optab00(m, 96) = push_all(m) /\ Optab00(m, 97) = pop_all(m)
    BY DEF Optab00
  <2>2. push_all(m) \in Ended(K) /\ pop_all(m) \in Ended(K)
    BY PopAllHandler, PushAllHandler
  <2> QED
    BY <1>13, <2>1, <2>2
<1>14. CASE op1 \in {104, 105, 106, 107, 108, 109, 110, 111}
  <2>1. /\ Optab00(m, 104) = push_word_IMM(m) /\ Optab00(m, 105) = imul_word_IMM(m)
        /\ Optab00(m, 106) = push_byte_IMM(m) /\ Optab00(m, 107) = imul_byte_IMM(m)
        /\ Optab00(m, 108) = ins_byte(m) /\ Optab00(m, 109) = ins_word(m)
        /\ Optab00(m, 110) = outs_byte(m) /\ Optab00(m, 111) = outs_word(m)
    BY DEF Optab00
  <2>2. /\ push_word_IMM(m) \in Ended(K) /\ imul_word_IMM(m) \in Ended(K) /\ push_byte_IMM(m) \in Ended(K)
        /\ imul_byte_IMM(m) \in Ended(K) /\ ins_byte(m) \in Ended(K) /\ ins_word(m) \in Ended(K)
        /\ outs_byte(m) \in Ended(K) /\ outs_word(m) \in Ended(K)
    BY ImulHandlers, PortStringHandlers, PushImmHandlers
  <2> QED
    BY <1>14, <2>1, <2>2
<1>15. CASE op1 \in {112, 113, 114, 115, 116, 117, 118, 119}
  <2>1. /\ Optab00(m, 112) = jump_near_O(m) /\ Optab00(m, 113) = jump_near_NO(m)
        /\ Optab00(m, 114) = jump_near_B(m) /\ Optab00(m, 115) = jump_near_NB(m)
        /\ Optab00(m, 116) = jump_near_Z(m) /\ Optab00(m, 117) = jump_near_NZ(m)
        /\ Optab00(m, 118) = jump_near_BE(m) /\ Optab00(m, 119) = jump_near_NBE(m)
    BY DEF Optab00
  <2>2. /\ jump_near_O(m) \in Ended(K) /\ jump_near_NO(m) \in Ended(K) /\ jump_near_B(m) \in Ended(K)
        /\ jump_near_NB(m) \in Ended(K) /\ jump_near_Z(m) \in Ended(K) /\ jump_near_NZ(m) \in Ended(K)
        /\ jump_near_BE(m) \in Ended(K) /\ jump_near_NBE(m) \in Ended(K)
    BY JumpHandlers
  <2> QED
    BY <1>15, <2>1, <2>2
<1>16. CASE op1 \in {120, 121, 122, 123, 124, 125, 126, 127}
  <2>1. /\ Optab00(m, 120) = jump_near_S(m) /\ Optab00(m, 121) = jump_near_NS(m)
        /\ Optab00(m, 122) = jump_near_P(m) /\ Optab00(m, 123) = jump_near_NP(m)
        /\ Optab00(m, 124) = jump_near_L(m) /\ Optab00(m, 125) = jump_near_NL(m)
        /\ Optab00(m, 126) = jump_near_LE(m) /\ Optab00(m, 127) = jump_near_NLE(m)
    BY DEF Optab00
  <2>2. /\ jump_near_S(m) \in Ended(K) /\ jump_near_NS(m) \in Ended(K) /\ jump_near_P(m) \in Ended(K)
        /\ jump_near_NP(m) \in Ended(K) /\ jump_near_L(m) \in Ended(K) /\ jump_near_NL(m) \in Ended(K)
        /\ jump_near_LE(m) \in Ended(K) /\ jump_near_NLE(m) \in Ended(K)
    BY JumpHandlers
  <2> QED
    BY <1>16, <2>1, <2>2
<1> QED
  BY <1>1, <1>2, <1>3, <1>4, <1>5, <1>6, <1>7, <1>8, <1>9, <1>10, <1>11, <1>12, <1>13, <1>14, <1>15, <1>16 DEF Special, Overrides, Sizes, Repeats, Illegal, Software, Divides

LEMMA Optab80Type ==
  ASSUME NEW K, NEW W, Closed(K, W), NEW m \in K, NEW op1 \in 128..255, op1 \notin Special
  PROVE  Optab80(m, op1) \in Ended(K)
<1>1. CASE op1 \in {128, 129, 130, 131, 132, 133, 134, 135}
  <2>1. /\ Optab80(m, 128) = opc80_byte_RM_IMM(m) /\ Optab80(m, 129) = opc81_word_RM_IMM(m)
        /\ Optab80(m, 130) = opc82_byte_RM_IMM(m) /\ Optab80(m, 131) = opc83_word_RM_IMM(m)
        /\ Optab80(m, 132) = test_byte_RM_R(m) /\ Optab80(m, 133) = test_word_RM_R(m)
        /\ Optab80(m, 134) = xchg_byte_RM_R(m) /\ Optab80(m, 135) = xchg_word_RM_R(m)
    BY DEF Optab80
  <2>2. /\ opc80_byte_RM_IMM(m) \in Ended(K) /\ opc81_word_RM_IMM(m) \in Ended(K) /\ opc82_byte_RM_IMM(m) \in Ended(K)
        /\ opc83_word_RM_IMM(m) \in Ended(K) /\ test_byte_RM_R(m) \in Ended(K) /\ test_word_RM_R(m) \in Ended(K)
        /\ xchg_byte_RM_R(m) \in Ended(K) /\ xchg_word_RM_R(m) \in Ended(K)
    BY ArithmeticHandlers, ExchangeHandlers, ImmediateHandlers
  <2> QED
    BY <1>1, <2>1, <2>2
<1>2. CASE op1 \in {136, 137, 138, 139, 140, 141, 142, 143}
  <2>1. /\ Optab80(m, 136) = mov_byte_RM_R(m) /\ Optab80(m, 137) = mov_word_RM_R(m)
        /\ Optab80(m, 138) = mov_byte_R_RM(m) /\ Optab80(m, 139) = mov_word_R_RM(m)
        /\ Optab80(m, 140) = mov_word_RM_SR(m) /\ Optab80(m, 141) = lea_word_R_M(m)
        /\ Optab80(m, 142) = mov_word_SR_RM(m) /\ Optab80(m, 143) = pop_RM(m)
    BY DEF Optab80
  <2>2. /\ mov_byte_RM_R(m) \in Ended(K) /\ mov_word_RM_R(m) \in Ended(K) /\ mov_byte_R_RM(m) \in Ended(K)
        /\ mov_word_R_RM(m) \in Ended(K) /\ mov_word_RM_SR(m) \in Ended(K) /\ lea_word_R_M(m) \in Ended(K)
        /\ mov_word_SR_RM(m) \in Ended(K) /\ pop_RM(m) \in Ended(K)
    BY ArithmeticHandlers, LeaType, PopRMType, SegmentHandlers, StoreHandlers
  <2> QED
    BY <1>2, <2>1, <2>2
<1>3. CASE op1 \in {144, 145, 146, 147, 148, 149, 150, 151}
  <2>1. /\ Optab80(m, 144) = nop(m) /\ Optab80(m, 145) = xchg_word_AX_CX(m)
        /\ Optab80(m, 146) = xchg_word_AX_DX(m) /\ Optab80(m, 147) = xchg_word_AX_BX(m)
        /\ Optab80(m, 148) = xchg_word_AX_SP(m) /\ Optab80(m, 149) = xchg_word_AX_BP(m)
        /\ Optab80(m, 150) = xchg_word_AX_SI(m) /\ Optab80(m, 151) = xchg_word_AX_DI(m)
    BY DEF Optab80
  <2>2. /\ nop(m) \in Ended(K) /\ xchg_word_AX_CX(m) \in Ended(K) /\ xchg_word_AX_DX(m) \in Ended(K)
        /\ xchg_word_AX_BX(m) \in Ended(K) /\ xchg_word_AX_SP(m) \in Ended(K) /\ xchg_word_AX_BP(m) \in Ended(K)
        /\ xchg_word_AX_SI(m) \in Ended(K) /\ xchg_word_AX_DI(m) \in Ended(K)
    BY ExchangeAXHandlers, IdleHandlers
  <2> QED
    BY <1>3, <2>1, <2>2
<1>4. CASE op1 \in {152, 153, 154, 155, 156, 157, 158, 159}
  <2>1. /\ Optab80(m, 152) = cbw(m) /\ Optab80(m, 153) = cwd(m)
        /\ Optab80(m, 154) = call_far_IMM(m) /\ Optab80(m, 155) = wait(m)
        /\ Optab80(m, 156) = pushf_word(m) /\ Optab80(m, 157) = popf_word(m)
        /\ Optab80(m, 158) = sahf(m) /\ Optab80(m, 159) = lahf(m)
    BY DEF Optab80
  <2>2. /\ cbw(m) \in Ended(K) /\ cwd(m) \in Ended(K) /\ call_far_IMM(m) \in Ended(K)
        /\ wait(m) \in Ended(K) /\ pushf_word(m) \in Ended(K) /\ popf_word(m) \in Ended(K)
        /\ sahf(m) \in Ended(K) /\ lahf(m) \in Ended(K)
    BY CallHandlers, FlagHandlers, IdleHandlers, OtherDataHandlers
  <2> QED
    BY <1>4, <2>1, <2>2
<1>5. CASE op1 \in {160, 161, 162, 163, 164, 165, 166, 167}
  <2>1. /\ Optab80(m, 160) = mov_AL_M_IMM(m) /\ Optab80(m, 161) = mov_AX_M_IMM(m)
        /\ Optab80(m, 162) = mov_M_AL_IMM(m) /\ Optab80(m, 163) = mov_M_AX_IMM(m)
        /\ Optab80(m, 164) = movs_byte(m) /\ Optab80(m, 165) = movs_word(m)
        /\ Optab80(m, 166) = cmps_byte(m) /\ Optab80(m, 167) = cmps_word(m)
    BY DEF Optab80
  <2>2. /\ mov_AL_M_IMM(m) \in Ended(K) /\ mov_AX_M_IMM(m) \in Ended(K) /\ mov_M_AL_IMM(m) \in Ended(K)
        /\ mov_M_AX_IMM(m) \in Ended(K) /\ movs_byte(m) \in Ended(K) /\ movs_word(m) \in Ended(K)
        /\ cmps_byte(m) \in Ended(K) /\ cmps_word(m) \in Ended(K)
    BY CompareHandlers, MovAddressHandlers, StringHandlers
  <2> QED
    BY <1>5, <2>1, <2>2
<1>6. CASE op1 \in {168, 169, 170, 171, 172, 173, 174, 175}
  <2>1. /\ Optab80(m, 168) = test_AL_IMM(m) /\ Optab80(m, 169) = test_AX_IMM(m)
        /\ Optab80(m, 170) = stos_byte(m) /\ Optab80(m, 171) = stos_word(m)
        /\ Optab80(m, 172) = lods_byte(m) /\ Optab80(m, 173) = lods_word(m)
        /\ Optab80(m, 174) = scas_byte(m) /\ Optab80(m, 175) = scas_word(m)
    BY DEF Optab80
  <2>2. /\ test_AL_IMM(m) \in Ended(K) /\ test_AX_IMM(m) \in Ended(K) /\ stos_byte(m) \in Ended(K)
        /\ stos_word(m) \in Ended(K) /\ lods_byte(m) \in Ended(K) /\ lods_word(m) \in Ended(K)
        /\ scas_byte(m) \in Ended(K) /\ scas_word(m) \in Ended(K)
    BY ArithmeticHandlers, CompareHandlers, StringHandlers
  <2> QED
    BY <1>6, <2>1, <2>2
<1>7. CASE op1 \in {176, 177, 178, 179, 180, 181, 182, 183}
  <2>1. /\ Optab80(m, 176) = mov_byte_AL_IMM(m) /\ Optab80(m, 177) = mov_byte_CL_IMM(m)
        /\ Optab80(m, 178) = mov_byte_DL_IMM(m) /\ Optab80(m, 179) = mov_byte_BL_IMM(m)
        /\ Optab80(m, 180) = mov_byte_AH_IMM(m) /\ Optab80(m, 181) = mov_byte_CH_IMM(m)
        /\ Optab80(m, 182) = mov_byte_DH_IMM(m) /\ Optab80(m, 183) = mov_byte_BH_IMM(m)
    BY DEF Optab80
  <2>2. /\ mov_byte_AL_IMM(m) \in Ended(K) /\ mov_byte_CL_IMM(m) \in Ended(K) /\ mov_byte_DL_IMM(m) \in Ended(K)
        /\ mov_byte_BL_IMM(m) \in Ended(K) /\ mov_byte_AH_IMM(m) \in Ended(K) /\ mov_byte_CH_IMM(m) \in Ended(K)
        /\ mov_byte_DH_IMM(m) \in Ended(K) /\ mov_byte_BH_IMM(m) \in Ended(K)
    BY MovImmHandlers
  <2> QED
    BY <1>7, <2>1, <2>2
<1>8. CASE op1 \in {184, 185, 186, 187, 188, 189, 190, 191}
  <2>1. /\ Optab80(m, 184) = mov_word_AX_IMM(m) /\ Optab80(m, 185) = mov_word_CX_IMM(m)
        /\ Optab80(m, 186) = mov_word_DX_IMM(m) /\ Optab80(m, 187) = mov_word_BX_IMM(m)
        /\ Optab80(m, 188) = mov_word_SP_IMM(m) /\ Optab80(m, 189) = mov_word_BP_IMM(m)
        /\ Optab80(m, 190) = mov_word_SI_IMM(m) /\ Optab80(m, 191) = mov_word_DI_IMM(m)
    BY DEF Optab80
  <2>2. /\ mov_word_AX_IMM(m) \in Ended(K) /\ mov_word_CX_IMM(m) \in Ended(K) /\ mov_word_DX_IMM(m) \in Ended(K)
        /\ mov_word_BX_IMM(m) \in Ended(K) /\ mov_word_SP_IMM(m) \in Ended(K) /\ mov_word_BP_IMM(m) \in Ended(K)
        /\ mov_word_SI_IMM(m) \in Ended(K) /\ mov_word_DI_IMM(m) \in Ended(K)
    BY MovImmHandlers
  <2> QED
    BY <1>8, <2>1, <2>2
<1>9. CASE op1 \in {192, 193, 194, 195, 196, 197, 198, 199}
  <2>1. /\ Optab80(m, 192) = opcC0_byte_RM_MEM(m) /\ Optab80(m, 193) = opcC1_word_RM_MEM(m)
        /\ Optab80(m, 194) = ret_near_IMM(m) /\ Optab80(m, 195) = ret_near(m)
        /\ Optab80(m, 196) = les_R_IMM(m) /\ Optab80(m, 197) = lds_R_IMM(m)
        /\ Optab80(m, 198) = mov_byte_RM_IMM(m) /\ Optab80(m, 199) = mov_word_RM_IMM(m)
    BY DEF Optab80
  <2>2. /\ opcC0_byte_RM_MEM(m) \in Ended(K) /\ opcC1_word_RM_MEM(m) \in Ended(K) /\ ret_near_IMM(m) \in Ended(K)
        /\ ret_near(m) \in Ended(K) /\ les_R_IMM(m) \in Ended(K) /\ lds_R_IMM(m) \in Ended(K)
        /\ mov_byte_RM_IMM(m) \in Ended(K) /\ mov_word_RM_IMM(m) \in Ended(K)
    BY CallHandlers, RemainingHandlers, RotateHandlers, StoreHandlers
  <2> QED
    BY <1>9, <2>1, <2>2
<1>10. CASE op1 \in {200, 201, 202, 203, 207}
  <2>1. /\ Optab80(m, 200) = enter(m) /\ Optab80(m, 201) = leave(m)
        /\ Optab80(m, 202) = ret_far_IMM(m) /\ Optab80(m, 203) = ret_far(m)
        /\ Optab80(m, 207) = iret(m)
    BY DEF Optab80
  <2>2. /\ enter(m) \in Ended(K) /\ leave(m) \in Ended(K) /\ ret_far_IMM(m) \in Ended(K)
        /\ ret_far(m) \in Ended(K) /\ iret(m) \in Ended(K)
    BY CallHandlers, FrameHandlers
  <2> QED
    BY <1>10, <2>1, <2>2
<1>11. CASE op1 \in {208, 209, 210, 211, 212, 213, 215}
  <2>1. /\ Optab80(m, 208) = opcD0_byte_RM_1(m) /\ Optab80(m, 209) = opcD1_word_RM_1(m)
        /\ Optab80(m, 210) = opcD2_byte_RM_CL(m) /\ Optab80(m, 211) = opcD3_word_RM_CL(m)
        /\ Optab80(m, 212) = aam(m) /\ Optab80(m, 213) = aad(m)
        /\ Optab80(m, 215) = xlat(m)
    BY DEF Optab80
  <2>2. /\ opcD0_byte_RM_1(m) \in Ended(K) /\ opcD1_word_RM_1(m) \in Ended(K) /\ opcD2_byte_RM_CL(m) \in Ended(K)
        /\ opcD3_word_RM_CL(m) \in Ended(K) /\ aam(m) \in Ended(K) /\ aad(m) \in Ended(K)
        /\ xlat(m) \in Ended(K)
    BY DecimalHandlers, OtherDataHandlers, RotateHandlers
  <2> QED
    BY <1>11, <2>1, <2>2
<1>12. CASE op1 \in {216, 217, 218, 219, 220, 221, 222, 223}
  <2>1. /\ Optab80(m, 216) = esc_coprocess_d8(m) /\ Optab80(m, 217) = esc_coprocess_d9(m)
        /\ Optab80(m, 218) = esc_coprocess_da(m) /\ Optab80(m, 219) = esc_coprocess_db(m)
        /\ Optab80(m, 220) = esc_coprocess_dc(m) /\ Optab80(m, 221) = esc_coprocess_dd(m)
        /\ Optab80(m, 222) = esc_coprocess_de(m) /\ Optab80(m, 223) = esc_coprocess_df(m)
    BY DEF Optab80
  <2>2. /\ esc_coprocess_d8(m) \in Ended(K) /\ esc_coprocess_d9(m) \in Ended(K) /\ esc_coprocess_da(m) \in Ended(K)
        /\ esc_coprocess_db(m) \in Ended(K) /\ esc_coprocess_dc(m) \in Ended(K) /\ esc_coprocess_dd(m) \in Ended(K)
        /\ esc_coprocess_de(m) \in Ended(K) /\ esc_coprocess_df(m) \in Ended(K)
    BY IdleHandlers
  <2> QED
    BY <1>12, <2>1, <2>2
<1>13. CASE op1 \in {224, 225, 226, 227, 228, 229, 230, 231}
  <2>1. /\ Optab80(m, 224) = loopne(m) /\ Optab80(m, 225) = loope(m)
        /\ Optab80(m, 226) = loop(m) /\ Optab80(m, 227) = jcxz(m)
        /\ Optab80(m, 228) = in_byte_AL_IMM(m) /\ Optab80(m, 229) = in_word_AX_IMM(m)
        /\ Optab80(m, 230) = out_byte_IMM_AL(m) /\ Optab80(m, 231) = out_word_IMM_AX(m)
    BY DEF Optab80
  <2>2. /\ loopne(m) \in Ended(K) /\ loope(m) \in Ended(K) /\ loop(m) \in Ended(K)
        /\ jcxz(m) \in Ended(K) /\ in_byte_AL_IMM(m) \in Ended(K) /\ in_word_AX_IMM(m) \in Ended(K)
        /\ out_byte_IMM_AL(m) \in Ended(K) /\ out_word_IMM_AX(m) \in Ended(K)
    BY JumpHandlers, PortHandlers
  <2> QED
    BY <1>13, <2>1, <2>2
<1>14. CASE op1 \in {232, 233, 234, 235, 236, 237, 238, 239}
  <2>1. /\ Optab80(m, 232) = call_near_IMM(m) /\ Optab80(m, 233) = jump_near_IMM(m)
        /\ Optab80(m, 234) = jump_far_IMM(m) /\ Optab80(m, 235) = jump_byte_IMM(m)
        /\ Optab80(m, 236) = in_byte_AL_DX(m) /\ Optab80(m, 237) = in_word_AX_DX(m)
        /\ Optab80(m, 238) = out_byte_DX_AL(m) /\ Optab80(m, 239) = out_word_DX_AX(m)
    BY DEF Optab80
  <2>2. /\ call_near_IMM(m) \in Ended(K) /\ jump_near_IMM(m) \in Ended(K) /\ jump_far_IMM(m) \in Ended(K)
        /\ jump_byte_IMM(m) \in Ended(K) /\ in_byte_AL_DX(m) \in Ended(K) /\ in_word_AX_DX(m) \in Ended(K)
        /\ out_byte_DX_AL(m) \in Ended(K) /\ out_word_DX_AX(m) \in Ended(K)
    BY CallHandlers, JumpHandlers, PortHandlers
  <2> QED
    BY <1>14, <2>1, <2>2
<1>15. CASE op1 \in {240, 244, 245}
  <2>1. /\ Optab80(m, 240) = lock(m) /\ Optab80(m, 244) = halt(m)
        /\ Optab80(m, 245) = cmc(m)
    BY DEF Optab80
  <2>2. lock(m) \in Ended(K) /\ halt(m) \in Ended(K) /\ cmc(m) \in Ended(K)
    BY FlagHandlers, IdleHandlers
  <2> QED
    BY <1>15, <2>1, <2>2
<1>16. CASE op1 \in {248, 249, 250, 251, 252, 253, 254, 255}
  <2>1. /\ Optab80(m, 248) = clc(m) /\ Optab80(m, 249) = stc(m)
        /\ Optab80(m, 250) = cli(m) /\ Optab80(m, 251) = sti(m)
        /\ Optab80(m, 252) = cld(m) /\ Optab80(m, 253) = std(m)
        /\ Optab80(m, 254) = opcFE_byte_RM(m) /\ Optab80(m, 255) = opcFF_word_RM(m)
    BY DEF Optab80
  <2>2. /\ clc(m) \in Ended(K) /\ stc(m) \in Ended(K) /\ cli(m) \in Ended(K)
        /\ sti(m) \in Ended(K) /\ cld(m) \in Ended(K) /\ std(m) \in Ended(K)
        /\ opcFE_byte_RM(m) \in Ended(K) /\ opcFF_word_RM(m) \in Ended(K)
    BY FlagHandlers, GroupFEType, GroupFFType
  <2> QED
    BY <1>16, <2>1, <2>2
<1> QED
  BY <1>1, <1>2, <1>3, <1>4, <1>5, <1>6, <1>7, <1>8, <1>9, <1>10, <1>11, <1>12, <1>13, <1>14, <1>15, <1>16 DEF Special, Overrides, Sizes, Repeats, Illegal, Software, Divides

LEMMA DispatchType ==
  ASSUME NEW K, NEW W, Closed(K, W), NEW i \in Read(K, 8), i.v \notin Special
  PROVE  Dispatch(i) \in Ended(K)
<1>1. i.m \in K /\ i.v \in 0..255
  BY Values8 DEF Read
<1>2. CASE i.v < 128
  <2>1. i.v \in 0..127
    BY <1>1, <1>2
  <2>2. Optab00(i.m, i.v) \in Ended(K)
    BY <1>1, <2>1, Optab00Type
  <2> QED
    BY <1>2, <2>2 DEF Dispatch, x86emu_optab
<1>3. CASE ~(i.v < 128)
  <2>1. i.v \in 128..255
    BY <1>1, <1>3
  <2>2. Optab80(i.m, i.v) \in Ended(K)
    BY <1>1, <2>1, Optab80Type
  <2> QED
    BY <1>3, <2>2 DEF Dispatch, x86emu_optab
<1> QED
  BY <1>2, <1>3

\* The two operations that always write a long, and what the table has.
Extensions == {183, 191}
Known2     == 128..161 \cup 178..183 \cup 186..191 \cup {163, 164, 165, 168, 169, 171, 172, 173, 175}

LEMMA Optab2Type ==
  ASSUME NEW K, NEW W, Closed(K, W), NEW m \in K, NEW op2 \in Known2, op2 \notin Extensions \/ LongBits \in W
  PROVE  x86emu_optab2(m, op2) \in Ended(K)
<1>1. CASE op2 \in 128..143
  BY <1>1, LongJumpType DEF x86emu_optab2
<1>2. CASE op2 \in 144..159
  BY <1>2, SetByteType DEF x86emu_optab2
<1>3. CASE op2 \in {160, 161, 163, 164, 165, 168, 169, 171, 172}
  BY <1>3, DoubleShiftHandlers, PushHandlers, RemainingHandlers DEF x86emu_optab2
<1>4. CASE op2 \in {173, 175, 178, 179, 180, 181, 182, 186}
  BY <1>4, BitImmType, DoubleShiftHandlers, ExtendHandlers, ImulRegType, RemainingHandlers DEF x86emu_optab2
<1>5. CASE op2 \in {187, 188, 189, 190}
  BY <1>5, ExtendHandlers, RemainingHandlers, ScanHandlers DEF x86emu_optab2
<1>6. CASE op2 \in Extensions
  BY <1>6, ExtendHandlers DEF x86emu_optab2, Extensions
<1> QED
  BY <1>1, <1>2, <1>3, <1>4, <1>5, <1>6 DEF Known2, Extensions

LEMMA UnknownType ==
  ASSUME NEW m, NEW op2 \in Nat, op2 \notin Known2
  PROVE  x86emu_optab2(m, op2) = X86EMU_halt_sys(m)
BY DEF x86emu_optab2, Known2, illegal_op2

(***************************************************************************)
(* An iteration of the loop.  F is closed under fetching code, R under     *)
(* reading operands, K under everything: an operation leaves a machine of  *)
(* K without the prefixes; or one of F that is halted or has one more      *)
(* prefix; or one of R with an interrupt raised.                           *)
(***************************************************************************)
PrefixBits == SYSMODE_CLRMASK \ {"SEG_DS_SS"}

\* What writes a long, whatever the prefixes.
AlwaysLong(i) == i.v \in Software \/ (i.v = 15 /\ fetch_byte_imm(i.m).v \in Extensions)

Unchanged(F) ==
  {X86EMU_halt_sys(n) : n \in F} \cup {Prefix(n, p) : n \in F, p \in PrefixBits}
    \cup {Done(Prefix(n, p)) : n \in F, p \in Rep}

Raised(R) == {Done(x86emu_intr_raise(n, 0)) : n \in R}

LEMMA UnchangedHas ==
  ASSUME NEW F, NEW n \in F
  PROVE  /\ X86EMU_halt_sys(n) \in Unchanged(F)
         /\ \A p \in PrefixBits : Prefix(n, p) \in Unchanged(F)
         /\ \A p \in Rep : Done(Prefix(n, p)) \in Unchanged(F)
BY DEF Unchanged

LEMMA PrefixType ==
  ASSUME NEW F, NEW i, i.m \in F, i.v \in Overrides \cup Sizes \cup Repeats \cup Illegal
  PROVE  Dispatch(i) \in Unchanged(F)
<1> DEFINE m == i.m
<1>1. /\ X86EMU_halt_sys(m) \in Unchanged(F)
      /\ \A p \in PrefixBits : Prefix(m, p) \in Unchanged(F)
      /\ \A p \in Rep : Done(Prefix(m, p)) \in Unchanged(F)
  BY UnchangedHas
<1> HIDE DEF m
<1>2. /\ Optab00(m, 38) = segovr_ES(m) /\ Optab00(m, 46) = segovr_CS(m) /\ Optab00(m, 54) = segovr_SS(m)
      /\ Optab00(m, 62) = segovr_DS(m) /\ Optab00(m, 100) = segovr_FS(m) /\ Optab00(m, 101) = segovr_GS(m)
      /\ Optab00(m, 102) = prefix_data(m) /\ Optab00(m, 103) = prefix_addr(m)
      /\ Optab00(m, 98) = illegal_op(m) /\ Optab00(m, 99) = illegal_op(m)
  BY DEF Optab00
<1>3. /\ Optab80(m, 242) = repne(m) /\ Optab80(m, 243) = repe(m)
      /\ Optab80(m, 214) = illegal_op(m) /\ Optab80(m, 241) = illegal_op(m)
  BY DEF Optab80
<1>4. {"SEGOVR_ES", "SEGOVR_CS", "SEGOVR_SS", "SEGOVR_DS", "SEGOVR_FS", "SEGOVR_GS",
       "PREFIX_DATA", "PREFIX_ADDR"} \subseteq PrefixBits
  BY DEF PrefixBits, SYSMODE_CLRMASK, SegOvr
<1>5. /\ segovr_ES(m) \in Unchanged(F) /\ segovr_CS(m) \in Unchanged(F) /\ segovr_SS(m) \in Unchanged(F)
      /\ segovr_DS(m) \in Unchanged(F) /\ segovr_FS(m) \in Unchanged(F) /\ segovr_GS(m) \in Unchanged(F)
      /\ prefix_data(m) \in Unchanged(F) /\ prefix_addr(m) \in Unchanged(F)
  BY <1>1, <1>4 DEF segovr_ES, segovr_CS, segovr_SS, segovr_DS, segovr_FS, segovr_GS, prefix_data, prefix_addr
<1>6. repne(m) \in Unchanged(F) /\ repe(m) \in Unchanged(F) /\ illegal_op(m) \in Unchanged(F)
  BY <1>1 DEF repne, repe, illegal_op, Rep
<1>7. Dispatch(i) = IF i.v < 128 THEN Optab00(m, i.v) ELSE Optab80(m, i.v)
  BY DEF Dispatch, x86emu_optab, m
<1>8. CASE i.v \in Overrides \cup Sizes
  BY <1>2, <1>5, <1>7, <1>8 DEF Overrides, Sizes
<1>9. CASE i.v \in Repeats \cup Illegal
  BY <1>2, <1>3, <1>6, <1>7, <1>9 DEF Repeats, Illegal
<1> QED
  BY <1>8, <1>9

LEMMA TwoByteType ==
  ASSUME NEW F, FetchClosed(F), NEW K, NEW W, Closed(K, W), F \subseteq K, NEW m \in F
  PROVE  \/ two_byte(m) \in Ended(K) \cup Unchanged(F)
         \/ LongBits \notin W /\ fetch_byte_imm(m).v \in Extensions
<1> DEFINE i == fetch_byte_imm(m)
<1>1. i \in Read(F, 8) /\ 8 \in Widths
  BY FetchType DEF Widths
<1> HIDE DEF i
<1>2. i.m \in F /\ i.m \in K /\ i.v \in Nat
  BY <1>1, ReadHas
<1>3. CASE i.v \in Known2 /\ (i.v \notin Extensions \/ LongBits \in W)
  BY <1>2, <1>3, Optab2Type DEF two_byte, SecondByte, i
<1>4. CASE i.v \in Extensions /\ LongBits \notin W
  BY <1>4 DEF i
<1>5. CASE i.v \notin Known2
  BY <1>2, <1>5, UnknownType, UnchangedHas DEF two_byte, SecondByte, i
<1> QED
  BY <1>3, <1>4, <1>5

LEMMA DivideType ==
  ASSUME NEW R, ReadClosed(R), NEW K, NEW W, Closed(K, W), NEW m \in K, m \in R
  PROVE  /\ opcF6_byte_RM(m) \in Ended(K) \cup Raised(R)
         /\ opcF7_word_RM(m) \in Ended(K) \cup Raised(R)
<1> DEFINE d == fetch_decode_modrm(m)
<1>1. d \in Decoded(K) /\ d \in Decoded(R) /\ FetchClosed(R)
  BY ModRMType, ClosedUnder DEF ReadClosed
<1> HIDE DEF d
<1>2. ASSUME NEW w \in W
      PROVE  GroupF6(w, d) \in Ended(K) \cup Raised(R)
  <2> DEFINE n == Loaded(w, Operand(d)).m
  <2>1. w \in Widths
    BY ClosedUnder
  <2>2. Loaded(w, Operand(d)) \in LoadedOperands(R, w)
    BY <1>1, <2>1, OperandType, LoadType
  <2>3. n \in R
    BY <2>1, <2>2, LoadedHas
  <2>4. Done(x86emu_intr_raise(n, 0)) \in Raised(R)
    BY <2>3 DEF Raised
  <2>5. GroupF6(w, d) \in Ended(K) \/ GroupF6(w, d) = Done(x86emu_intr_raise(n, 0))
    BY <1>1, GroupF6Type
  <2> QED
    BY <2>4, <2>5
<1>3. 8 \in W /\ OpSize(m) \in W
  BY ClosedUnder, ClosedSteps
<1> QED
  BY <1>2, <1>3 DEF opcF6_byte_RM, opcF7_word_RM, d

LEMMA StepType ==
  ASSUME NEW F, FetchClosed(F), NEW R, ReadClosed(R), NEW K, NEW W, Closed(K, W),
         F \subseteq R, F \subseteq K, NEW i \in Read(F, 8)
  PROVE  \/ Dispatch(i) \in Ended(K) \cup Unchanged(F) \cup Raised(R)
         \/ LongBits \notin W /\ AlwaysLong(i)
<1> DEFINE m == i.m
<1>1. m \in F /\ m \in R /\ m \in K /\ i \in Read(K, 8)
  BY DEF Read
<1>2. CASE i.v \notin Special
  BY <1>1, <1>2, DispatchType
<1>3. CASE i.v \in Overrides \cup Sizes \cup Repeats \cup Illegal
  BY <1>1, <1>3, PrefixType
<1> HIDE DEF m
<1>4. /\ Optab80(m, 204) = int3(m) /\ Optab80(m, 205) = int_IMM(m) /\ Optab80(m, 206) = into(m)
      /\ Optab80(m, 246) = opcF6_byte_RM(m) /\ Optab80(m, 247) = opcF7_word_RM(m)
  BY DEF Optab80
<1>5. Optab00(m, 15) = two_byte(m)
  BY DEF Optab00
<1>6. Dispatch(i) = IF i.v < 128 THEN Optab00(m, i.v) ELSE Optab80(m, i.v)
  BY DEF Dispatch, x86emu_optab, m
<1>7. CASE i.v \in Software
  <2>1. CASE LongBits \in W
    <3>1. int3(m) \in Ended(K) /\ int_IMM(m) \in Ended(K) /\ into(m) \in Ended(K)
      BY <1>1, <2>1, InterruptHandlers
    <3> QED
      BY <1>4, <1>6, <1>7, <3>1 DEF Software
  <2>2. CASE LongBits \notin W
    BY <1>7, <2>2 DEF AlwaysLong
  <2> QED
    BY <2>1, <2>2
<1>8. CASE i.v \in Divides
  <2>1. opcF6_byte_RM(m) \in Ended(K) \cup Raised(R) /\ opcF7_word_RM(m) \in Ended(K) \cup Raised(R)
    BY <1>1, DivideType
  <2> QED
    BY <1>4, <1>6, <1>8, <2>1 DEF Divides
<1>9. CASE i.v = 15
  <2>1. Dispatch(i) = two_byte(m)
    BY <1>5, <1>6, <1>9
  <2>2. \/ two_byte(m) \in Ended(K) \cup Unchanged(F)
        \/ LongBits \notin W /\ fetch_byte_imm(m).v \in Extensions
    BY <1>1, TwoByteType
  <2> QED
    BY <1>9, <2>1, <2>2 DEF AlwaysLong, m
<1> QED
  BY <1>2, <1>3, <1>7, <1>8, <1>9 DEF Special

(***************************************************************************)
(* What an interrupt does not touch.                                       *)
(***************************************************************************)
LEMMA WrKeeps ==
  ASSUME NEW m \in Machines, NEW a, NEW n, NEW v
  PROVE  LET p == wr(m, a, n, v) IN p.mode = m.mode /\ p.r = m.r /\ p.seg = m.seg /\ p.f = m.f /\ p.ip = m.ip
<1> DEFINE h == IF InMemory(a, n) THEN m ELSE X86EMU_halt_sys(m)
           new == {x \in a..a + n - 1 : x < MemSize}
           g == [x \in DOMAIN h.mem \cup new |-> IF x \in new THEN Mod(8, v \div 2^(8 * (x - a))) ELSE h.mem[x]]
<1>1. h \in Machines
  BY MachinesFetched DEF FetchClosed
<1>2. h.mode = m.mode /\ h.r = m.r /\ h.seg = m.seg /\ h.f = m.f /\ h.ip = m.ip
  BY DEF X86EMU_halt_sys, Machines
<1>3. wr(m, a, n, v) = [h EXCEPT !.mem = g]
  BY DEF wr
<1> HIDE DEF g, h
<1> QED
  BY <1>1, <1>2, <1>3 DEF Machines

LEMMA PushwKeeps ==
  ASSUME NEW m \in Machines, NEW v \in Nat
  PROVE  LET p == pushw(m, v)
         IN  /\ p \in Machines /\ p.mode = m.mode /\ p.seg = m.seg /\ p.ip = m.ip /\ p.f = m.f
             /\ p.r = [m.r EXCEPT ![SP] = Mod(LongBits, m.r[SP] - 2)]
<1> DEFINE n == SetReg32(m, SP, m.r[SP] - 2)
           a == Linear(n.seg["SS"], Reg16(n, SP))
<1>1. pushw(m, v) = wr(n, a, 2, v)
  BY DEF pushw, PutWord
<1>2. pushw(m, v) \in Machines
  BY MachinesClosed, PushwType DEF Widths
<1>3. n \in Machines
  <2>1. m.r[SP] \in Values(LongBits) /\ SP \in 0..7 /\ LongBits \in Nat
    BY RegType, WidthAssumption DEF SP
  <2>2. m.r[SP] - 2 \in Int
    BY <2>1, ValuesNat
  <2>3. Mod(LongBits, m.r[SP] - 2) \in Values(LongBits)
    BY <2>1, <2>2, ModType
  <2> DEFINE x == Mod(LongBits, m.r[SP] - 2)
  <2>4. n = PutReg(m, SP, x)
    BY DEF SetReg32, PutReg
  <2>5. x \in Values(LongBits)
    BY <2>3
  <2> HIDE DEF x, n
  <2>6. PutReg(m, SP, x) \in Machines
    BY <2>1, <2>5, PutRegType
  <2> QED
    BY <2>4, <2>6
<1>4. /\ n.mode = m.mode /\ n.seg = m.seg /\ n.ip = m.ip /\ n.f = m.f
      /\ n.r = [m.r EXCEPT ![SP] = Mod(LongBits, m.r[SP] - 2)]
  BY DEF SetReg32, Machines
<1> HIDE DEF n, a
<1> QED
  BY <1>1, <1>2, <1>3, <1>4, WrKeeps

LEMMA JumpFarKeeps ==
  ASSUME NEW m \in Machines, NEW cs, NEW ip
  PROVE  LET p == JumpFar(m, cs, ip) IN p.mode = m.mode /\ p.r = m.r /\ p.f = m.f /\ p.intr = m.intr
BY DEF JumpFar, SetIp, SetSeg, Machines

\* Three words are pushed; the rest of the registers and the prefixes stay.
LEMMA DoIntKeeps ==
  ASSUME NEW m \in Machines, NEW num \in Nat
  PROVE  LET p == x86emu_do_int(m, num)
             down(x) == Mod(LongBits, x - 2)
         IN  /\ p \in Machines /\ p.mode = m.mode
             /\ p.r = [m.r EXCEPT ![SP] = down(down(down(m.r[SP])))]
<1> DEFINE a == pushw(m, PushedFlags(m))
           b == pushw(a, m.seg["CS"])
           c == pushw(b, m.ip)
           d == Flags(c, c.f \ {TF, 19})
           down(x) == Mod(LongBits, x - 2)
<1>1. PushedFlags(m) \in Nat
  <2>1. m.f \cup {IF_} \in SUBSET FlagBits
    BY MachineType, FlagsKnown
  <2>2. Number({x \in m.f \cup {IF_} : x < 16}) \in Values(16)
    BY <2>1, FlagNumber
  <2> QED
    BY <2>2, ValuesNat DEF PushedFlags
<1>2. m.seg["CS"] \in Nat /\ m.ip \in Nat
  BY SegType DEF Segments
<1>3. a \in Machines /\ a.mode = m.mode /\ a.r = [m.r EXCEPT ![SP] = down(m.r[SP])]
  BY <1>1, PushwKeeps
<1> HIDE DEF a
<1>4. b \in Machines /\ b.mode = a.mode /\ b.r = [a.r EXCEPT ![SP] = down(a.r[SP])]
  BY <1>2, <1>3, PushwKeeps
<1> HIDE DEF b
<1>5. c \in Machines /\ c.mode = b.mode /\ c.r = [b.r EXCEPT ![SP] = down(b.r[SP])]
  BY <1>2, <1>4, PushwKeeps
<1> HIDE DEF c
<1>6. d \in Machines /\ d.mode = c.mode /\ d.r = c.r
  <2>1. c.f \ {TF, 19} \in SUBSET FlagBits
    BY <1>5, MachineType
  <2>2. d \in Machines
    BY <1>5, <2>1, FieldType DEF Flags
  <2>3. d.mode = c.mode /\ d.r = c.r
    BY <1>5 DEF Flags, Machines
  <2> QED
    BY <2>2, <2>3
<1>7. x86emu_do_int(m, num) = JumpFar(d, Vector(c, num, 2), Vector(c, num, 0))
  BY DEF x86emu_do_int, Handle, Flags, a, b, c
<1> HIDE DEF d
<1>8. x86emu_do_int(m, num).mode = d.mode /\ x86emu_do_int(m, num).r = d.r
  BY <1>6, <1>7, JumpFarKeeps
<1>9. x86emu_do_int(m, num) \in Machines
  BY MachinesClosed, DoIntType DEF Widths
<1>10. d.r = [m.r EXCEPT ![SP] = down(down(down(m.r[SP])))]
  <2>1. m.r \in [0..7 -> Values(LongBits)] /\ SP \in 0..7
    BY MachineType DEF Registers, SP
  <2> HIDE DEF down
  <2> QED
    BY <1>3, <1>4, <1>5, <1>6, <2>1
<1> QED
  BY <1>3, <1>4, <1>5, <1>6, <1>8, <1>9, <1>10

(***************************************************************************)
(* The types, and the bit of the stack.                                    *)
(***************************************************************************)
IsMachine(m) ==
  /\ m \in [r : Registers, seg : [Segments -> Values(16)], ip : Values(16), f : SUBSET FlagBits,
            mode : SUBSET Modes, intr : SUBSET Interrupts, intno : Values(8),
            mem : [DOMAIN m.mem -> Values(8)], io : Seq(Outputs), in : Values(8), undef : Values(8)]
  /\ DOMAIN m.mem \subseteq 0..MemSize - 1

LEMMA MachineIs ==
  ASSUME NEW m
  PROVE  IsMachine(m) <=> m \in Machines
<1>1. ASSUME IsMachine(m)
      PROVE  m \in Machines
  <2>1. m.mem \in Memories
    BY <1>1, IsMemory DEF IsMachine
  <2> QED
    BY <1>1, <2>1 DEF IsMachine, Machines
<1>2. ASSUME m \in Machines
      PROVE  IsMachine(m)
  <2>1. m.mem \in Memories
    BY <1>2 DEF Machines
  <2>2. DOMAIN m.mem \subseteq 0..MemSize - 1 /\ m.mem \in [DOMAIN m.mem -> Values(8)]
    BY <2>1 DEF Memories
  <2> QED
    BY <1>2, <2>2 DEF IsMachine, Machines
<1> QED
  BY <1>1, <1>2

LEMMA CallType ==
  ASSUME NEW c, IsCall(c)
  PROVE  /\ c.num \in Values(8) /\ c.num \in Nat /\ c.r \in Registers
         /\ c.ss \in Values(16) /\ c.r[SP] \in Values(16)
         /\ c.es \in Values(16) /\ c.fs \in Values(16) /\ c.gs \in Values(16) /\ c.ds \in Values(16)
         /\ c.f \in SUBSET FlagBits /\ c.mode \in SUBSET Modes /\ "SEG_DS_SS" \notin c.mode
         /\ c.in \in Values(8) /\ c.undef \in Values(8) /\ c.mem \in Memories
<1>1. c.num \in Nat
  BY ValuesNat DEF IsCall
<1>2. c.mem \in Memories
  BY IsMemory DEF IsCall
<1> QED
  BY <1>1, <1>2 DEF IsCall

\* TypeOK, and that a call starts alive.
Inv ==
  /\ M \in Machines
  /\ IsCall(call)
  /\ regs \in [r : Registers, es : Values(16)]
  /\ state \in {"idle", "running", "returned", "done", "dead"}
  /\ steps \in Nat
  /\ state = "idle" => "CRASHED" \notin M.intr
  /\ NoStackSegmentLeft

LEMMA InvInit == Init => Inv
<1> SUFFICES ASSUME Init
             PROVE  Inv
  OBVIOUS
<1>1. IsCall(call)
  BY CallAssumption DEF Init
<1>2. 0 \in Values(LongBits) /\ 0 \in Values(16) /\ 0 \in Values(8)
  BY ValuesNat, WidthAssumption
<1> DEFINE sr == [s \in Segments |-> IF s = "DS" THEN call.ds ELSE 0]
           rr == [n \in 0..7 |-> 0]
           m == [r |-> rr, seg |-> sr,
                 ip |-> 0, f |-> call.f, mode |-> call.mode, intr |-> {}, intno |-> 0,
                 mem |-> call.mem, io |-> <<>>, in |-> call.in, undef |-> call.undef]
<1>3. sr \in [Segments -> Values(16)] /\ rr \in Registers
  BY <1>1, <1>2, CallType DEF Registers
<1> HIDE DEF sr, rr
<1>4. <<>> \in Seq(Outputs) /\ {} \in SUBSET Interrupts
  OBVIOUS
<1>5. m \in Machines
  BY <1>1, <1>2, <1>3, <1>4, CallType DEF Machines
<1>6. M = m /\ regs = [r |-> call.r, es |-> call.es] /\ state = "idle" /\ steps = 0
  BY DEF Init, sr, rr
<1>7. regs \in [r : Registers, es : Values(16)]
  BY <1>1, <1>6, CallType
<1>8. M.intr = {} /\ M.mode = call.mode
  BY <1>6
<1>9. NoStackSegmentLeft
  BY <1>1, <1>8, CallType DEF NoStackSegmentLeft
<1> HIDE DEF m
<1> QED
  BY <1>1, <1>5, <1>6, <1>7, <1>8, <1>9 DEF Inv

LEMMA HandleType ==
  ASSUME NEW m \in Machines
  PROVE  x86emu_intr_handle(m) \in Machines /\ x86emu_intr_handle(m).mode = m.mode
<1>1. m.intno \in Nat
  BY MachineType, ValuesNat
<1> QED
  BY <1>1, DoIntKeeps DEF x86emu_intr_handle

\* What an operation leaves is a machine, with the bit of the stack clear unless it is dead.
Sound(n) == n \in Machines /\ ("CRASHED" \notin n.intr => "SEG_DS_SS" \notin n.mode)
Unmarked == {n \in Machines : "SEG_DS_SS" \notin n.mode}

LEMMA UnmarkedFetched == FetchClosed(Unmarked)
<1>1. ASSUME NEW p \in Unmarked
      PROVE  X86EMU_halt_sys(p) \in Unmarked /\ \A ip \in Values(16) : [p EXCEPT !.ip = ip] \in Unmarked
  <2>1. X86EMU_halt_sys(p) \in Machines /\ \A ip \in Values(16) : [p EXCEPT !.ip = ip] \in Machines
    BY MachinesFetched DEF FetchClosed, Unmarked
  <2> QED
    BY <2>1 DEF X86EMU_halt_sys, Machines, Unmarked
<1> QED
  BY <1>1 DEF FetchClosed, Unmarked

LEMMA SoundType ==
  ASSUME NEW n \in Ended(Machines) \cup Unchanged(Unmarked) \cup Raised(Machines)
  PROVE  Sound(n)
<1>1. CASE n \in Ended(Machines)
  <2>1. PICK p \in Machines : n = Done(p) \/ n = Crash(p)
    BY <1>1 DEF Ended
  <2>2. p.mode \ SYSMODE_CLRMASK \in SUBSET Modes /\ p.intr \cup {"CRASHED"} \in SUBSET Interrupts
    BY MachineType DEF Interrupts
  <2>3. CASE n = Done(p)
    <3>1. n \in Machines
      BY <2>2, <2>3, FieldType DEF Done, DECODE_CLEAR_SEGOVR
    <3>2. n.mode = p.mode \ SYSMODE_CLRMASK
      BY <2>3 DEF Done, DECODE_CLEAR_SEGOVR, Machines
    <3> QED
      BY <3>1, <3>2 DEF SYSMODE_CLRMASK, Sound
  <2>4. CASE n = Crash(p)
    <3>1. n \in Machines
      BY <2>2, <2>4, FieldType DEF Crash
    <3>2. n.intr = p.intr \cup {"CRASHED"}
      BY <2>4 DEF Crash, Machines
    <3> QED
      BY <3>1, <3>2 DEF Sound
  <2> QED
    BY <2>1, <2>3, <2>4
<1>2. CASE n \in Unchanged(Unmarked)
  <2>1. PICK p \in Unmarked :
          \/ n = X86EMU_halt_sys(p)
          \/ \E x \in PrefixBits : n = Prefix(p, x)
          \/ \E x \in Rep : n = Done(Prefix(p, x))
    BY <1>2 DEF Unchanged
  <2>2. p \in Machines /\ "SEG_DS_SS" \notin p.mode
    BY DEF Unmarked
  <2>3. CASE n = X86EMU_halt_sys(p)
    BY <2>2, <2>3, MachinesFetched DEF FetchClosed, X86EMU_halt_sys, Machines, Sound
  <2>4. ASSUME NEW x \in PrefixBits, n = Prefix(p, x)
        PROVE  Sound(n)
    <3>1. p.mode \cup {x} \in SUBSET Modes /\ "SEG_DS_SS" \notin p.mode \cup {x}
      BY <2>2, <2>4, MachineType DEF PrefixBits, Modes
    <3>2. n \in Machines
      BY <2>2, <2>4, <3>1, FieldType DEF Prefix
    <3>3. n.mode = p.mode \cup {x}
      BY <2>2, <2>4 DEF Prefix, Machines
    <3> QED
      BY <3>1, <3>2, <3>3 DEF Sound
  <2>5. ASSUME NEW x \in Rep, n = Done(Prefix(p, x))
        PROVE  Sound(n)
    <3> DEFINE q == Prefix(p, x)
    <3>1. p.mode \cup {x} \in SUBSET Modes
      BY <2>2, <2>5, MachineType DEF Modes
    <3>2. q \in Machines
      BY <2>2, <3>1, FieldType DEF Prefix
    <3> HIDE DEF q
    <3>3. q.mode \ SYSMODE_CLRMASK \in SUBSET Modes
      BY <3>2, MachineType
    <3>4. n = [q EXCEPT !.mode = q.mode \ SYSMODE_CLRMASK]
      BY <2>5 DEF Done, DECODE_CLEAR_SEGOVR, q
    <3>5. n \in Machines
      BY <3>2, <3>3, <3>4, FieldType
    <3>6. n.mode = q.mode \ SYSMODE_CLRMASK
      BY <3>2, <3>4 DEF Machines
    <3> QED
      BY <3>5, <3>6 DEF SYSMODE_CLRMASK, Sound
  <2> QED
    BY <2>1, <2>3, <2>4, <2>5
<1>3. CASE n \in Raised(Machines)
  <2>1. PICK p \in Machines : n = Done(x86emu_intr_raise(p, 0))
    BY <1>3 DEF Raised
  <2> DEFINE q == x86emu_intr_raise(p, 0)
  <2>2. q \in Machines
    <3>1. p.intr \cup {"SYNCH"} \in SUBSET Interrupts /\ 0 \in Values(8)
      BY MachineType, ValuesNat DEF Interrupts
    <3> QED
      BY <3>1 DEF x86emu_intr_raise, Machines
  <2> HIDE DEF q
  <2>3. q.mode \ SYSMODE_CLRMASK \in SUBSET Modes
    BY <2>2, MachineType
  <2>4. n = [q EXCEPT !.mode = q.mode \ SYSMODE_CLRMASK]
    BY <2>1 DEF Done, DECODE_CLEAR_SEGOVR, q
  <2>5. n \in Machines
    BY <2>2, <2>3, <2>4, FieldType
  <2>6. n.mode = q.mode \ SYSMODE_CLRMASK
    BY <2>2, <2>4 DEF Machines
  <2> QED
    BY <2>5, <2>6 DEF SYSMODE_CLRMASK, Sound
<1> QED
  BY <1>1, <1>2, <1>3

LEMMA InstructionType ==
  ASSUME NEW m \in Unmarked
  PROVE  Sound(Dispatch(fetch_byte_imm(m)))
<1> DEFINE i == fetch_byte_imm(m)
<1>1. i \in Read(Unmarked, 8)
  BY UnmarkedFetched, FetchType
<1>2. FetchClosed(Unmarked) /\ ReadClosed(Machines) /\ Closed(Machines, Widths) /\ Unmarked \subseteq Machines
  BY UnmarkedFetched, MachinesClosed, ClosedUnder DEF Unmarked
<1> HIDE DEF i
<1>3. Dispatch(i) \in Ended(Machines) \cup Unchanged(Unmarked) \cup Raised(Machines)
  BY <1>1, <1>2, StepType DEF Widths
<1>4. Sound(Dispatch(i))
  BY <1>3, SoundType
<1> QED
  BY <1>4 DEF i

LEMMA HandledSound ==
  ASSUME Inv, state = "running", "CRASHED" \notin M.intr
  PROVE  M \in Unmarked /\ x86emu_intr_handle(M) \in Unmarked
<1>1. M \in Machines /\ "SEG_DS_SS" \notin M.mode
  BY DEF Inv, NoStackSegmentLeft
<1> QED
  BY <1>1, HandleType DEF Unmarked

LEMMA CallStarts ==
  ASSUME Inv, x86emu_LRMI_int
  PROVE  Sound(M')
<1> DEFINE f == M.f \ {19, TF, IF_, 14}
           sg == [M.seg EXCEPT !["SS"] = StartSS, !["ES"] = call.es, !["FS"] = call.fs, !["GS"] = call.gs]
           r == [call.r EXCEPT ![SP] = StartSP]
           n == [M EXCEPT !.f = f, !.seg = sg, !.r = r, !.intr = {}]
           cs == mem_access_word(n, call.num * 4 + 2).v
           ip == mem_access_word(n, call.num * 4).v
<1>1. M \in Machines /\ IsCall(call) /\ "SEG_DS_SS" \notin M.mode
  BY DEF Inv, NoStackSegmentLeft, x86emu_LRMI_int
<1>2. f \in SUBSET FlagBits
  BY <1>1, MachineType
<1>3. sg \in [Segments -> Values(16)]
  <2>1. StartSS \in Values(16)
    BY <1>1, CallType, CallAssumption DEF StartSS
  <2> QED
    BY <1>1, <2>1, MachineType, CallType
<1>4. r \in Registers
  <2>1. StartSP \in Values(LongBits)
    <3>1. 65534 \in Values(LongBits)
      BY LongAbove
    <3>2. call.r[SP] \in Values(LongBits)
      BY <1>1, CallType DEF Registers, SP
    <3> QED
      BY <3>1, <3>2 DEF StartSP
  <2>2. call.r \in Registers
    BY <1>1, CallType
  <2>3. ASSUME NEW x \in Values(LongBits)
        PROVE  [call.r EXCEPT ![SP] = x] \in Registers
    BY <2>2 DEF Registers
  <2> QED
    BY <2>1, <2>3
<1>5. {} \in SUBSET Interrupts
  OBVIOUS
<1> HIDE DEF f, sg, r
<1>6. n \in Machines
  BY <1>1, <1>2, <1>3, <1>4, <1>5 DEF Machines
<1>7. n.mode = M.mode
  BY <1>1 DEF Machines
<1>8. M' = JumpFar(n, cs, ip)
  BY DEF x86emu_LRMI_int, f, sg, r
<1> HIDE DEF n
<1>9. cs \in Values(16) /\ ip \in Values(16)
  <2>1. call.num \in Nat
    BY <1>1, CallType
  <2>2. Vector(n, call.num, 2) \in Values(16) /\ Vector(n, call.num, 0) \in Values(16)
    BY <1>6, <2>1, VectorType
  <2>3. call.num * 4 + 0 = call.num * 4
    BY <2>1
  <2> QED
    BY <2>2, <2>3 DEF Vector
<1> HIDE DEF cs, ip
<1>10. JumpFar(n, cs, ip) \in Machines
  BY <1>6, <1>9, MachinesClosed, JumpFarType
<1>11. JumpFar(n, cs, ip).mode = n.mode
  BY <1>6, JumpFarKeeps
<1> QED
  BY <1>1, <1>7, <1>8, <1>10, <1>11 DEF Sound

LEMMA RegsType ==
  ASSUME Inv
  PROVE  [r |-> [M.r EXCEPT ![SP] = call.r[SP]], es |-> M.seg["ES"]] \in [r : Registers, es : Values(16)]
<1>1. M \in Machines /\ IsCall(call)
  BY DEF Inv
<1>2. M.seg["ES"] \in Values(16)
  BY <1>1, SegType DEF Segments
<1>3. M.r \in Registers /\ call.r \in Registers /\ SP \in 0..7
  BY <1>1, MachineType, CallType DEF SP
<1>4. [M.r EXCEPT ![SP] = call.r[SP]] \in Registers
  BY <1>3 DEF Registers
<1> QED
  BY <1>2, <1>4

LEMMA InvNext == Inv /\ [Next]_vars => Inv'
<1> SUFFICES ASSUME Inv, [Next]_vars
             PROVE  Inv'
  OBVIOUS
<1>0. /\ M \in Machines /\ IsCall(call) /\ regs \in [r : Registers, es : Values(16)]
      /\ state \in {"idle", "running", "returned", "done", "dead"} /\ steps \in Nat
      /\ (state = "idle" => "CRASHED" \notin M.intr) /\ NoStackSegmentLeft
  BY DEF Inv
<1> USE DEF Inv
<1>1. CASE x86emu_LRMI_int
  <2>1. Sound(M')
    BY <1>1, CallStarts
  <2>2. call' = call /\ regs' = regs /\ steps' = steps /\ state' = "running"
    BY <1>1 DEF x86emu_LRMI_int
  <2> QED
    BY <1>0, <2>1, <2>2 DEF Sound, NoStackSegmentLeft
<1>2. CASE ExecHalted
  <2>1. M' = M /\ call' = call /\ regs' = regs /\ steps' = steps /\ state' = "returned"
    BY <1>2 DEF ExecHalted, Running
  <2> QED
    BY <1>0, <2>1 DEF NoStackSegmentLeft
<1>3. CASE ExecReturns
  <2>1. x86emu_intr_handle(M) \in Unmarked
    BY <1>3, HandledSound DEF ExecReturns, Running
  <2>2. M' = x86emu_intr_handle(M) /\ call' = call /\ regs' = regs /\ steps' = steps
        /\ state' = "returned"
    BY <1>3 DEF ExecReturns, Running
  <2> QED
    BY <1>0, <2>1, <2>2 DEF Unmarked, NoStackSegmentLeft
<1>4. CASE ExecInstruction
  <2>1. x86emu_intr_handle(M) \in Unmarked
    BY <1>4, HandledSound DEF ExecInstruction, Running
  <2>2. Sound(Dispatch(fetch_byte_imm(x86emu_intr_handle(M))))
    BY <2>1, InstructionType
  <2>3. Sound(M')
    BY <1>4, <2>2 DEF ExecInstruction
  <2>4. call' = call /\ regs' = regs /\ steps' \in Nat /\ state' = "running"
    BY <1>0, <1>4 DEF ExecInstruction, Running
  <2> QED
    BY <1>0, <2>3, <2>4 DEF Sound, NoStackSegmentLeft
<1>5. CASE Crashed
  BY <1>5 DEF Crashed, NoStackSegmentLeft
<1>6. CASE real_call
  BY <1>6, RegsType DEF real_call, NoStackSegmentLeft
<1>7. CASE UNCHANGED vars
  BY <1>7 DEF vars, NoStackSegmentLeft
<1> QED
  BY <1>1, <1>2, <1>3, <1>4, <1>5, <1>6, <1>7 DEF Next

LEMMA InvHolds == Spec => []Inv
BY InvInit, InvNext, PTL DEF Spec

\* The machine that x86emu_exec() works on is one at every step, whatever code and
\* memory a call of the BIOS finds: each register, segment and byte of memory fits
\* its width, the flags and the prefixes are those the program has names for.
THEOREM MachineStaysTyped == Spec => []TypeOK
<1>1. Inv => TypeOK
  <2>1. ASSUME M \in Machines
        PROVE  IsMachine(M)
    BY <2>1, MachineIs
  <2> QED
    BY <2>1 DEF Inv, TypeOK, IsMachine
<1> QED
  BY <1>1, InvHolds, PTL

\* An operation leaves by DECODE_CLEAR_SEGOVR(): the mark that decoding an address by
\* BP or SP makes, SYSMODE_SEG_DS_SS, is never there for the next instruction, unless
\* the emulator followed a null pointer.
THEOREM StackBitClears == Spec => []NoStackSegmentLeft
<1>1. Inv => NoStackSegmentLeft
  BY DEF Inv
<1> QED
  BY <1>1, InvHolds, PTL

(***************************************************************************)
(* A division that faults.  Calm are the machines with no interrupt        *)
(* raised, Like(m) those with the data of m.                               *)
(***************************************************************************)
Calm    == {n \in Machines : "SYNCH" \notin n.intr}
Like(m) == {n \in Machines : n.r = m.r /\ n.f = m.f /\ n.mem = m.mem /\ n.seg = m.seg}

\* One register written is all that changes.
LEMMA SetRegIs ==
  ASSUME NEW m \in Machines, NEW w \in Widths, NEW n \in 0..7, NEW v \in Values(w)
  PROVE  \E i \in 0..7 : \E x \in Values(LongBits) :
           SetReg(m, w, n, v) = PutReg(m, i, x) /\ (w \in {8, 16} => Upper(x) = Upper(m.r[i]))
BY WrittenType DEF Writes

\* Nothing else of the machine changes, and no other register.
LEMMA PutRegKeeps ==
  ASSUME NEW m \in Machines, NEW i \in 0..7, NEW x \in Values(LongBits)
  PROVE  /\ PutReg(m, i, x) \in Machines
         /\ PutReg(m, i, x).mode = m.mode /\ PutReg(m, i, x).intr = m.intr
<1>1. PutReg(m, i, x) \in Machines
  BY PutRegType
<1>2. PutReg(m, i, x).mode = m.mode /\ PutReg(m, i, x).intr = m.intr
  BY DEF PutReg, Machines
<1> QED
  BY <1>1, <1>2

LEMMA PutRegHas ==
  ASSUME NEW m \in Machines, NEW i, NEW x, NEW j \in 0..7
  PROVE  PutReg(m, i, x).r[j] = IF j = i THEN x ELSE m.r[j]
<1>1. PutReg(m, i, x).r = [m.r EXCEPT ![i] = x]
  BY DEF PutReg, Machines
<1>2. m.r \in [0..7 -> Values(LongBits)]
  BY MachineType DEF Registers
<1> QED
  BY <1>1, <1>2

\* Only x86emu_intr_raise() raises an interrupt.
LEMMA CalmClosed == Closed(Calm, Widths)
<1>1. ASSUME NEW m \in Calm
      PROVE  /\ m \in Machines /\ "SYNCH" \notin m.intr
             /\ \A ip \in Values(16) : [m EXCEPT !.ip = ip] \in Calm
             /\ \A g \in Memories : [m EXCEPT !.mem = g] \in Calm
             /\ \A q \in Seq(Outputs) : [m EXCEPT !.io = q] \in Calm
             /\ \A s \in SUBSET Modes : [m EXCEPT !.mode = @ \ s] \in Calm
  <2>1. m \in Machines /\ "SYNCH" \notin m.intr /\ Closed(Machines, Widths)
    BY MachinesClosed DEF Calm
  <2>2. /\ \A ip \in Values(16) : [m EXCEPT !.ip = ip] \in Machines
        /\ \A g \in Memories : [m EXCEPT !.mem = g] \in Machines
        /\ \A q \in Seq(Outputs) : [m EXCEPT !.io = q] \in Machines
        /\ \A s \in SUBSET Modes : [m EXCEPT !.mode = @ \ s] \in Machines
    BY <2>1 DEF Closed, DataClosed, FetchClosed
  <2>3. /\ \A ip \in Values(16) : [m EXCEPT !.ip = ip].intr = m.intr
        /\ \A g \in Memories : [m EXCEPT !.mem = g].intr = m.intr
        /\ \A q \in Seq(Outputs) : [m EXCEPT !.io = q].intr = m.intr
        /\ \A s \in SUBSET Modes : [m EXCEPT !.mode = @ \ s].intr = m.intr
    BY <2>1 DEF Machines
  <2> QED
    BY <2>1, <2>2, <2>3 DEF Calm
<1>2. ASSUME NEW m \in Calm
      PROVE  /\ X86EMU_halt_sys(m) \in Calm /\ Crash(m) \in Calm /\ Stack(m) \in Calm
             /\ OpSize(m) \in Widths
             /\ \A f \in SUBSET FlagBits : Flags(m, f) \in Calm
             /\ \A name \in Segments : \A v \in Values(16) : SetSeg(m, name, v) \in Calm
  <2>1. m \in Machines /\ "SYNCH" \notin m.intr /\ Closed(Machines, Widths)
    BY MachinesClosed DEF Calm
  <2>2. /\ X86EMU_halt_sys(m) \in Machines /\ Crash(m) \in Machines /\ Stack(m) \in Machines
        /\ OpSize(m) \in Widths
        /\ \A f \in SUBSET FlagBits : Flags(m, f) \in Machines
        /\ \A name \in Segments : \A v \in Values(16) : SetSeg(m, name, v) \in Machines
    BY <2>1 DEF Closed, DataClosed, ReadClosed, FetchClosed
  <2>3. X86EMU_halt_sys(m).intr = m.intr \cup {"HALTED"} /\ Crash(m).intr = m.intr \cup {"CRASHED"}
    BY <2>1 DEF X86EMU_halt_sys, Crash, Machines
  <2>4. Stack(m).intr = m.intr /\ \A f \in SUBSET FlagBits : Flags(m, f).intr = m.intr
    BY <2>1 DEF Stack, Flags, Machines
  <2>5. \A name \in Segments : \A v \in Values(16) : SetSeg(m, name, v).intr = m.intr
    BY <2>1 DEF SetSeg, Machines
  <2> QED
    BY <2>1, <2>2, <2>3, <2>4, <2>5 DEF Calm
<1>3. ASSUME NEW m \in Calm, NEW w \in Widths, NEW n \in 0..7, NEW v \in Values(w)
      PROVE  SetReg(m, w, n, v) \in Calm
  <2> DEFINE p == SetReg(m, w, n, v)
  <2>1. m \in Machines
    BY DEF Calm
  <2> HIDE DEF p
  <2>2. PICK i \in 0..7, x \in Values(LongBits) : p = PutReg(m, i, x)
    BY <2>1, SetRegIs DEF p
  <2>3. PutReg(m, i, x) \in Machines /\ PutReg(m, i, x).intr = m.intr
    BY <2>1, PutRegKeeps, Zenon
  <2> QED
    BY <2>2, <2>3 DEF Calm, p
<1>4. Calm \subseteq Machines
  BY DEF Calm
<1>5. FetchClosed(Calm)
  BY <1>1, <1>2, <1>4 DEF FetchClosed
<1>6. DataClosed(Calm, Widths)
  BY <1>1, <1>2, <1>3, <1>5 DEF DataClosed, Widths
<1> QED
  BY <1>1, <1>2, <1>5, <1>6 DEF Closed, ReadClosed

\* Decoding writes neither registers, flags, segments nor memory.
LEMMA LikeClosed ==
  ASSUME NEW m \in Machines
  PROVE  ReadClosed(Like(m)) /\ FetchClosed(Like(m) \cap Calm)
<1>1. ASSUME NEW p \in Like(m)
      PROVE  /\ X86EMU_halt_sys(p) \in Like(m) /\ Stack(p) \in Like(m)
             /\ \A ip \in Values(16) : [p EXCEPT !.ip = ip] \in Like(m)
  <2>1. p \in Machines /\ Closed(Machines, Widths)
    BY MachinesClosed DEF Like
  <2>2. /\ X86EMU_halt_sys(p) \in Machines /\ Stack(p) \in Machines
        /\ \A ip \in Values(16) : [p EXCEPT !.ip = ip] \in Machines
    BY <2>1 DEF Closed, ReadClosed, FetchClosed
  <2> QED
    BY <2>2 DEF Like, X86EMU_halt_sys, Stack, Machines
<1>2. FetchClosed(Calm)
  BY CalmClosed, ClosedUnder
<1> QED
  BY <1>1, <1>2 DEF ReadClosed, FetchClosed, Like

\* A machine with an interrupt raised is none that an operation ends with, and none
\* with a prefix: only what was read or decoded before has changed.
LEMMA FaultType ==
  ASSUME NEW m \in Calm, NEW n, n = Dispatch(fetch_byte_imm(m)), "SYNCH" \in n.intr
  PROVE  n.r = m.r /\ n.f = m.f /\ n.mem = m.mem /\ n.seg = m.seg
<1> DEFINE F == Like(m) \cap Calm
           i == fetch_byte_imm(m)
<1>1. m \in Machines /\ m \in F
  BY DEF Calm, Like
<1>2. ReadClosed(Like(m)) /\ FetchClosed(F) /\ F \subseteq Like(m) /\ F \subseteq Calm
  BY <1>1, LikeClosed
<1> HIDE DEF F
<1>3. i \in Read(F, 8)
  BY <1>1, <1>2, FetchType
<1> HIDE DEF i
<1>4. n \in Ended(Calm) \cup Unchanged(F) \cup Raised(Like(m))
  <2>1. Dispatch(i) \in Ended(Calm) \cup Unchanged(F) \cup Raised(Like(m))
    BY <1>2, <1>3, CalmClosed, StepType DEF Widths
  <2> QED
    BY <2>1 DEF i
<1>5. n \notin Ended(Calm)
  <2>1. ASSUME NEW p \in Calm, n = Done(p) \/ n = Crash(p)
        PROVE  FALSE
    <3>1. p \in Machines /\ "SYNCH" \notin p.intr
      BY DEF Calm
    <3>2. Done(p).intr = p.intr
      BY <3>1 DEF Done, DECODE_CLEAR_SEGOVR, Machines
    <3>3. Crash(p).intr = p.intr \cup {"CRASHED"}
      BY <3>1 DEF Crash, Machines
    <3> QED
      BY <2>1, <3>1, <3>2, <3>3
  <2> QED
    BY <2>1 DEF Ended
<1>6. n \notin Unchanged(F)
  <2>1. ASSUME NEW p \in Calm
        PROVE  /\ n # X86EMU_halt_sys(p) /\ \A x : n # Prefix(p, x)
               /\ \A x : n # Done(Prefix(p, x))
    <3>1. p \in Machines /\ "SYNCH" \notin p.intr
      BY DEF Calm
    <3>2. X86EMU_halt_sys(p).intr = p.intr \cup {"HALTED"}
      BY <3>1 DEF X86EMU_halt_sys, Machines
    <3>3. ASSUME NEW x
          PROVE  n # Prefix(p, x) /\ n # Done(Prefix(p, x))
      <4>1. Prefix(p, x).intr = p.intr /\ "mode" \in DOMAIN Prefix(p, x) /\ "intr" \in DOMAIN Prefix(p, x)
        BY <3>1 DEF Prefix, Machines
      <4>2. Done(Prefix(p, x)).intr = Prefix(p, x).intr
        BY <4>1 DEF Done, DECODE_CLEAR_SEGOVR
      <4> QED
        BY <3>1, <4>1, <4>2
    <3> QED
      BY <3>1, <3>2, <3>3
  <2> QED
    BY <1>2, <2>1 DEF Unchanged
<1>7. PICK p \in Like(m) : n = Done(x86emu_intr_raise(p, 0))
  BY <1>4, <1>5, <1>6 DEF Raised
<1> QED
  BY <1>7 DEF Like, Done, DECODE_CLEAR_SEGOVR, x86emu_intr_raise, Machines

\* div_byte() to idiv_long() raise interrupt 0 before they store a quotient or a
\* remainder: what an instruction that raises it leaves has the registers, the flags,
\* the segments and the memory from before.
THEOREM FaultsKeepMachine == Spec => FaultHasNoEffect
<1> DEFINE Fault == state = "running" /\ M.intr = {} /\ "SYNCH" \in M'.intr =>
                      M'.r = M.r /\ M'.f = M.f /\ M'.mem = M.mem /\ M'.seg = M.seg
<1>1. ASSUME Inv, [Next]_vars
      PROVE  Fault
  <2>1. SUFFICES ASSUME state = "running", M.intr = {}, "SYNCH" \in M'.intr
                 PROVE  M'.r = M.r /\ M'.f = M.f /\ M'.mem = M.mem /\ M'.seg = M.seg
    OBVIOUS
  <2>2. M \in Calm
    BY <1>1, <2>1 DEF Inv, Calm
  <2>3. x86emu_intr_handle(M) = M
    BY <2>1 DEF x86emu_intr_handle, Due
  <2>4. CASE ExecInstruction
    <3>1. M' = Dispatch(fetch_byte_imm(M))
      BY <2>3, <2>4 DEF ExecInstruction
    <3> QED
      BY <2>1, <2>2, <3>1, FaultType
  <2>5. CASE M' = M
    BY <2>5
  <2>6. ExecInstruction \/ M' = M
    <3>1. CASE x86emu_LRMI_int
      BY <2>1, <3>1 DEF x86emu_LRMI_int
    <3>2. CASE ExecHalted \/ Crashed \/ real_call \/ UNCHANGED vars
      BY <3>2 DEF ExecHalted, Crashed, real_call, vars
    <3>3. CASE ExecReturns
      BY <2>3, <3>3 DEF ExecReturns
    <3> QED
      BY <1>1, <3>1, <3>2, <3>3 DEF Next
  <2> QED
    BY <2>4, <2>5, <2>6
<1>2. Inv /\ [Next]_vars => [Fault]_vars
  BY <1>1
<1> HIDE DEF Fault
<1>3. Spec => [][Fault]_vars
  BY <1>2, InvHolds, PTL DEF Spec
<1> QED
  BY <1>3 DEF FaultHasNoEffect, Fault

(***************************************************************************)
(* The upper halves of the registers, without the prefix of the data.      *)
(***************************************************************************)
Narrow(m) == {n \in Machines : "PREFIX_DATA" \notin n.mode /\ \A j \in 0..7 : Upper(n.r[j]) = Upper(m.r[j])}
Code(m)   == {n \in Machines : "PREFIX_DATA" \notin n.mode /\ n.r = m.r}

LEMMA ModSmall ==
  ASSUME NEW x \in Values(LongBits)
  PROVE  Mod(LongBits, x) = x
<1> DEFINE p == 2^LongBits
<1>1. p \in Nat /\ p > 0
  BY WidthAssumption, PowPositive
<1>2. x \in 0..p - 1 /\ Mod(LongBits, x) = x % p
  BY DEF Values, Mod
<1> HIDE DEF p
<1>3. x % p = x
  BY <1>1, <1>2
<1> QED
  BY <1>2, <1>3

\* SP goes down by three words, and does not wrap when it holds six bytes.
LEMMA DownType ==
  ASSUME NEW x \in Values(LongBits), Mod(16, x) >= 6
  PROVE  Upper(Mod(LongBits, Mod(LongBits, Mod(LongBits, x - 2) - 2) - 2)) = Upper(x)
<1>1. PICK p \in Nat : LongParts(p)
  BY LongIs
<1>2. PICK h \in 0..p - 1, l \in Nat : x = 65536 * h + l /\ l < 65536
  BY <1>1 DEF LongParts
<1>3. x \in Nat
  BY ValuesNat, WidthAssumption
<1>4. Mod(16, x) = x % 65536
  BY <1>3, ModIs
<1>5. h \in Nat /\ x % 65536 = l
  BY <1>2
<1>6. l >= 6
  BY <1>4, <1>5
<1>7. ASSUME NEW y \in Nat, y < 65536
      PROVE  65536 * h + y \in Values(LongBits) /\ Upper(65536 * h + y) = h
  <2>1. 65536 * h + y \in Values(LongBits)
    BY <1>1, <1>2, <1>7 DEF LongParts
  <2>2. (65536 * h + y) \div 65536 = h
    BY <1>5, <1>7
  <2> QED
    BY <2>1, <2>2 DEF Upper
<1>8. x - 2 = 65536 * h + (l - 2) /\ l - 2 \in Nat /\ l - 2 < 65536
  BY <1>2, <1>5, <1>6
<1>9. (65536 * h + (l - 2)) - 2 = 65536 * h + (l - 4) /\ l - 4 \in Nat /\ l - 4 < 65536
  BY <1>2, <1>5, <1>6
<1>10. (65536 * h + (l - 4)) - 2 = 65536 * h + (l - 6) /\ l - 6 \in Nat /\ l - 6 < 65536
  BY <1>2, <1>5, <1>6
<1> DEFINE a == 65536 * h + (l - 2)
           b == 65536 * h + (l - 4)
           c == 65536 * h + (l - 6)
<1>11. a \in Values(LongBits)
  <2> DEFINE y == l - 2
  <2>1. y \in Nat /\ y < 65536
    BY <1>8
  <2> HIDE DEF y
  <2>2. 65536 * h + y \in Values(LongBits)
    BY <1>7, <2>1
  <2> QED
    BY <2>2 DEF y
<1>12. b \in Values(LongBits)
  <2> DEFINE y == l - 4
  <2>1. y \in Nat /\ y < 65536
    BY <1>9
  <2> HIDE DEF y
  <2>2. 65536 * h + y \in Values(LongBits)
    BY <1>7, <2>1
  <2> QED
    BY <2>2 DEF y
<1>13. c \in Values(LongBits) /\ Upper(c) = h
  <2> DEFINE y == l - 6
  <2>1. y \in Nat /\ y < 65536
    BY <1>10
  <2> HIDE DEF y
  <2>2. 65536 * h + y \in Values(LongBits) /\ Upper(65536 * h + y) = h
    BY <1>7, <2>1
  <2> QED
    BY <2>2 DEF y
<1>14. x - 2 = a /\ a - 2 = b /\ b - 2 = c
  BY <1>8, <1>9, <1>10
<1>15. Upper(x) = h
  BY <1>2, <1>7
<1> HIDE DEF a, b, c
<1>16. Mod(LongBits, x - 2) = a
  BY <1>11, <1>14, ModSmall
<1>17. Mod(LongBits, a - 2) = b
  BY <1>12, <1>14, ModSmall
<1>18. Mod(LongBits, b - 2) = c
  BY <1>13, <1>14, ModSmall
<1> QED
  BY <1>13, <1>15, <1>16, <1>17, <1>18

\* Writing bytes and words keeps the upper halves, and nothing sets the prefix.
LEMMA NarrowClosed ==
  ASSUME NEW m \in Machines
  PROVE  Closed(Narrow(m), {8, 16}) /\ FetchClosed(Code(m))
<1> DEFINE K == Narrow(m)
<1>1. ASSUME NEW p \in K
      PROVE  p \in Machines /\ "PREFIX_DATA" \notin p.mode /\ \A j \in 0..7 : Upper(p.r[j]) = Upper(m.r[j])
  BY DEF Narrow
<1>2. ASSUME NEW p \in K, NEW q \in Machines, q.r = p.r, "PREFIX_DATA" \notin q.mode
      PROVE  q \in K
  BY <1>2 DEF Narrow
<1>3. Closed(Machines, Widths)
  BY MachinesClosed
<1>4. ASSUME NEW p \in Machines, "PREFIX_DATA" \notin p.mode
      PROVE  /\ X86EMU_halt_sys(p).r = p.r /\ "PREFIX_DATA" \notin X86EMU_halt_sys(p).mode
             /\ Crash(p).r = p.r /\ "PREFIX_DATA" \notin Crash(p).mode
             /\ Stack(p).r = p.r /\ "PREFIX_DATA" \notin Stack(p).mode
             /\ \A f : Flags(p, f).r = p.r /\ Flags(p, f).mode = p.mode
             /\ \A name, v : SetSeg(p, name, v).r = p.r /\ SetSeg(p, name, v).mode = p.mode
  <2>1. X86EMU_halt_sys(p).r = p.r /\ X86EMU_halt_sys(p).mode = p.mode
    BY <1>4 DEF X86EMU_halt_sys, Machines
  <2>2. Crash(p).r = p.r /\ Crash(p).mode = p.mode
    BY <1>4 DEF Crash, Machines
  <2>3. Stack(p).r = p.r /\ Stack(p).mode = p.mode \cup {"SEG_DS_SS"}
    BY <1>4 DEF Stack, Machines
  <2>5. /\ \A f : Flags(p, f).r = p.r /\ Flags(p, f).mode = p.mode
        /\ \A name, v : SetSeg(p, name, v).r = p.r /\ SetSeg(p, name, v).mode = p.mode
    BY <1>4 DEF Flags, SetSeg, Machines
  <2> QED
    BY <1>4, <2>1, <2>2, <2>3, <2>5
<1>5. ASSUME NEW p \in K
      PROVE  /\ X86EMU_halt_sys(p) \in K /\ Crash(p) \in K /\ Stack(p) \in K
             /\ \A ip \in Values(16) : [p EXCEPT !.ip = ip] \in K
             /\ \A f \in SUBSET FlagBits : Flags(p, f) \in K
             /\ \A name \in Segments : \A v \in Values(16) : SetSeg(p, name, v) \in K
             /\ \A g \in Memories : [p EXCEPT !.mem = g] \in K
             /\ \A q \in Seq(Outputs) : [p EXCEPT !.io = q] \in K
             /\ \A s \in SUBSET Modes : [p EXCEPT !.mode = @ \ s] \in K
  <2> HIDE DEF K
  <2>0. p \in Machines /\ "PREFIX_DATA" \notin p.mode
    BY <1>1
  <2>1. /\ X86EMU_halt_sys(p) \in Machines /\ Crash(p) \in Machines /\ Stack(p) \in Machines
        /\ \A ip \in Values(16) : [p EXCEPT !.ip = ip] \in Machines
        /\ \A f \in SUBSET FlagBits : Flags(p, f) \in Machines
        /\ \A name \in Segments : \A v \in Values(16) : SetSeg(p, name, v) \in Machines
        /\ \A g \in Memories : [p EXCEPT !.mem = g] \in Machines
        /\ \A q \in Seq(Outputs) : [p EXCEPT !.io = q] \in Machines
        /\ \A s \in SUBSET Modes : [p EXCEPT !.mode = @ \ s] \in Machines
    BY <1>3, <2>0 DEF Closed, DataClosed, ReadClosed, FetchClosed
  <2>2. X86EMU_halt_sys(p) \in K /\ Crash(p) \in K /\ Stack(p) \in K
    BY <1>2, <1>4, <2>0, <2>1
  <2>3. ASSUME NEW ip \in Values(16) PROVE [p EXCEPT !.ip = ip] \in K
    <3> DEFINE q == [p EXCEPT !.ip = ip]
    <3>1. q \in Machines
      BY <2>1
    <3>2. q.r = p.r /\ q.mode = p.mode
      BY <2>0 DEF Machines
    <3> HIDE DEF q
    <3>3. q \in K
      BY <1>2, <2>0, <3>1, <3>2
    <3> QED
      BY <3>3 DEF q
  <2>4. ASSUME NEW f \in SUBSET FlagBits PROVE Flags(p, f) \in K
    BY <1>2, <1>4, <2>0, <2>1
  <2>5. ASSUME NEW name \in Segments, NEW v \in Values(16) PROVE SetSeg(p, name, v) \in K
    BY <1>2, <1>4, <2>0, <2>1
  <2>6. ASSUME NEW g \in Memories PROVE [p EXCEPT !.mem = g] \in K
    <3> DEFINE q == [p EXCEPT !.mem = g]
    <3>1. q \in Machines
      BY <2>1
    <3>2. q.r = p.r /\ q.mode = p.mode
      BY <2>0 DEF Machines
    <3> HIDE DEF q
    <3>3. q \in K
      BY <1>2, <2>0, <3>1, <3>2
    <3> QED
      BY <3>3 DEF q
  <2>7. ASSUME NEW o \in Seq(Outputs) PROVE [p EXCEPT !.io = o] \in K
    <3> DEFINE q == [p EXCEPT !.io = o]
    <3>1. q \in Machines
      BY <2>1
    <3>2. q.r = p.r /\ q.mode = p.mode
      BY <2>0 DEF Machines
    <3> HIDE DEF q
    <3>3. q \in K
      BY <1>2, <2>0, <3>1, <3>2
    <3> QED
      BY <3>3 DEF q
  <2>8. ASSUME NEW s \in SUBSET Modes PROVE [p EXCEPT !.mode = @ \ s] \in K
    <3> DEFINE q == [p EXCEPT !.mode = @ \ s]
    <3>1. q \in Machines
      BY <2>1
    <3>2. q.r = p.r /\ q.mode = p.mode \ s
      BY <2>0 DEF Machines
    <3> HIDE DEF q
    <3>3. q \in K
      BY <1>2, <2>0, <3>1, <3>2
    <3> QED
      BY <3>3 DEF q
  <2> QED
    BY <2>2, <2>3, <2>4, <2>5, <2>6, <2>7, <2>8
<1>6. ASSUME NEW p \in K, NEW w \in {8, 16}, NEW n \in 0..7, NEW v \in Values(w)
      PROVE  SetReg(p, w, n, v) \in K
  <2> DEFINE q == SetReg(p, w, n, v)
  <2>1. p \in Machines /\ w \in Widths
    BY <1>1 DEF Widths
  <2> HIDE DEF q
  <2>2. PICK i \in 0..7, x \in Values(LongBits) : q = PutReg(p, i, x) /\ Upper(x) = Upper(p.r[i])
    BY <2>1, SetRegIs DEF q
  <2>3. q \in Machines /\ q.mode = p.mode
    BY <2>1, <2>2, PutRegKeeps, Zenon
  <2>4. \A j \in 0..7 : q.r[j] = IF j = i THEN x ELSE p.r[j]
    BY <2>1, <2>2, PutRegHas
  <2>5. \A j \in 0..7 : Upper(q.r[j]) = Upper(p.r[j])
    BY <2>2, <2>4
  <2>6. q \in K
    BY <1>1, <2>3, <2>5 DEF Narrow
  <2> QED
    BY <2>6 DEF q
<1>7. \A p \in K : OpSize(p) = 16
  BY <1>1 DEF OpSize
<1>8. K \subseteq Machines
  BY <1>1
<1> HIDE DEF K
<1>9. FetchClosed(K)
  BY <1>5, <1>8 DEF FetchClosed
<1>10. DataClosed(K, {8, 16})
  BY <1>5, <1>6, <1>7, <1>9 DEF DataClosed, Widths
<1>11. Closed(K, {8, 16})
  BY <1>5, <1>9, <1>10 DEF Closed, ReadClosed
<1>12. FetchClosed(Code(m))
  <2>1. ASSUME NEW p \in Code(m)
        PROVE  X86EMU_halt_sys(p) \in Code(m) /\ \A ip \in Values(16) : [p EXCEPT !.ip = ip] \in Code(m)
    <3>1. p \in Machines /\ "PREFIX_DATA" \notin p.mode /\ p.r = m.r
      BY DEF Code
    <3>2. X86EMU_halt_sys(p) \in Machines /\ \A ip \in Values(16) : [p EXCEPT !.ip = ip] \in Machines
      BY <1>3, <3>1 DEF Closed, DataClosed, ReadClosed, FetchClosed
    <3>3. X86EMU_halt_sys(p).r = m.r /\ "PREFIX_DATA" \notin X86EMU_halt_sys(p).mode
      BY <1>4, <3>1
    <3>4. ASSUME NEW ip \in Values(16) PROVE [p EXCEPT !.ip = ip] \in Code(m)
      <4> DEFINE q == [p EXCEPT !.ip = ip]
      <4>1. q \in Machines
        BY <3>2
      <4>2. q.r = p.r /\ q.mode = p.mode
        BY <3>1 DEF Machines
      <4> HIDE DEF q
      <4>3. q \in Code(m)
        BY <3>1, <4>1, <4>2 DEF Code
      <4> QED
        BY <4>3 DEF q
    <3>5. X86EMU_halt_sys(p) \in Code(m)
      BY <3>2, <3>3 DEF Code
    <3> QED
      BY <3>4, <3>5
  <2> QED
    BY <2>1 DEF FetchClosed, Code
<1> QED
  BY <1>11, <1>12 DEF K

\* A software interrupt pushes three words, on the code's own registers.
LEMMA SoftwareKeeps ==
  ASSUME NEW m \in Machines, NEW i \in Read(Code(m), 8), i.v \in Software,
         NEW j \in 0..7, j = SP => Mod(16, m.r[SP]) >= 6
  PROVE  Upper(Dispatch(i).r[j]) = Upper(m.r[j])
<1> DEFINE p == i.m
           Kept(q) == Upper(q.r[j]) = Upper(m.r[j])
<1>1. p \in Code(m) /\ FetchClosed(Code(m))
  BY NarrowClosed DEF Read
<1>2. m.r \in [0..7 -> Values(LongBits)] /\ SP \in 0..7
  BY MachineType DEF Registers, SP
<1>3. ASSUME NEW q \in Code(m), NEW num \in Nat
      PROVE  Kept(Done(x86emu_do_int(q, num)))
  <2> DEFINE n == x86emu_do_int(q, num)
             down(x) == Mod(LongBits, x - 2)
             y == down(down(down(m.r[SP])))
  <2>1. q \in Machines /\ q.r = m.r
    BY DEF Code
  <2>2. n \in Machines /\ n.r = [m.r EXCEPT ![SP] = y]
    BY <2>1, DoIntKeeps
  <2>3. Done(n).r = n.r
    BY <2>2 DEF Done, DECODE_CLEAR_SEGOVR, Machines
  <2>4. j = SP => Upper(y) = Upper(m.r[SP])
    BY <1>2, DownType
  <2> HIDE DEF n, y
  <2>5. n.r[j] = IF j = SP THEN y ELSE m.r[j]
    BY <1>2, <2>2
  <2>6. Kept(Done(n))
    BY <2>3, <2>4, <2>5
  <2> QED
    BY <2>6 DEF n
<1>4. Kept(Done(p))
  <2>1. p \in Machines /\ p.r = m.r
    BY <1>1 DEF Code
  <2>2. Done(p).r = p.r
    BY <2>1 DEF Done, DECODE_CLEAR_SEGOVR, Machines
  <2> QED
    BY <2>1, <2>2
<1>5. fetch_byte_imm(p) \in Read(Code(m), 8)
  BY <1>1, FetchType
<1>6. fetch_byte_imm(p).m \in Code(m) /\ fetch_byte_imm(p).v \in Nat
  BY <1>5, Values8 DEF Read
<1> HIDE DEF Kept
<1>7. Kept(int3(p)) /\ Kept(int_IMM(p)) /\ Kept(into(p))
  BY <1>1, <1>3, <1>4, <1>6 DEF int3, int_IMM, IntFrom, into
<1>8. /\ Optab80(p, 204) = int3(p) /\ Optab80(p, 205) = int_IMM(p) /\ Optab80(p, 206) = into(p)
  BY DEF Optab80
<1>9. Dispatch(i) = Optab80(p, i.v)
  BY DEF Dispatch, x86emu_optab, Software
<1>10. Kept(Dispatch(i))
  BY <1>7, <1>8, <1>9 DEF Software
<1> QED
  BY <1>10 DEF Kept

\* An operation on bytes and words keeps the upper halves.
LEMMA NarrowType ==
  ASSUME NEW m \in Machines, "PREFIX_DATA" \notin m.mode,
         NEW n \in Ended(Narrow(m)) \cup Unchanged(Code(m)) \cup Raised(Narrow(m)), NEW j \in 0..7
  PROVE  Upper(n.r[j]) = Upper(m.r[j])
<1> DEFINE Kept(q) == Upper(q.r[j]) = Upper(m.r[j])
<1>1. ASSUME NEW p \in Narrow(m)
      PROVE  Kept(Done(p)) /\ Kept(Crash(p)) /\ Kept(Done(x86emu_intr_raise(p, 0)))
  <2>1. p \in Machines /\ Upper(p.r[j]) = Upper(m.r[j])
    BY DEF Narrow
  <2>2. Done(p).r = p.r /\ Crash(p).r = p.r
    BY <2>1 DEF Done, DECODE_CLEAR_SEGOVR, Crash, Machines
  <2>3. Done(x86emu_intr_raise(p, 0)).r = p.r
    BY <2>1 DEF Done, DECODE_CLEAR_SEGOVR, x86emu_intr_raise, Machines
  <2> QED
    BY <2>1, <2>2, <2>3
<1>2. ASSUME NEW p \in Code(m), NEW x
      PROVE  Kept(X86EMU_halt_sys(p)) /\ Kept(Prefix(p, x)) /\ Kept(Done(Prefix(p, x)))
  <2>1. p \in Machines /\ p.r = m.r
    BY DEF Code
  <2>2. X86EMU_halt_sys(p).r = p.r /\ Prefix(p, x).r = p.r
    BY <2>1 DEF X86EMU_halt_sys, Prefix, Machines
  <2>3. Done(Prefix(p, x)).r = p.r
    BY <2>1 DEF Done, DECODE_CLEAR_SEGOVR, Prefix, Machines
  <2> QED
    BY <2>1, <2>2, <2>3
<1> HIDE DEF Kept
<1>3. ASSUME n \in Ended(Narrow(m)) PROVE Kept(n)
  BY <1>1, <1>3 DEF Ended
<1>4. ASSUME n \in Unchanged(Code(m)) PROVE Kept(n)
  BY <1>2, <1>4 DEF Unchanged
<1>5. ASSUME n \in Raised(Narrow(m)) PROVE Kept(n)
  BY <1>1, <1>5 DEF Raised
<1>6. Kept(n)
  BY <1>3, <1>4, <1>5
<1> QED
  BY <1>6 DEF Kept

\* One iteration: an ordinary operation writes bytes and words only.
LEMMA NarrowStep ==
  ASSUME NEW m \in Machines, "PREFIX_DATA" \notin m.mode, NEW j \in 0..7
  PROVE  \/ Upper(Dispatch(fetch_byte_imm(m)).r[j]) = Upper(m.r[j])
         \/ Extends(m)
         \/ j = SP /\ Wraps(m)
<1> DEFINE i == fetch_byte_imm(m)
<1>1. m \in Code(m) /\ Code(m) \subseteq Narrow(m)
  BY DEF Code, Narrow
<1>2. FetchClosed(Code(m)) /\ Closed(Narrow(m), {8, 16}) /\ ReadClosed(Narrow(m))
  BY NarrowClosed, ClosedUnder
<1>3. i \in Read(Code(m), 8)
  BY <1>1, <1>2, FetchType
<1>4. Extends(m) <=> i.v = 15 /\ fetch_byte_imm(i.m).v \in Extensions
  BY DEF Extends, Extensions
<1>5. Wraps(m) <=> i.v \in Software /\ Reg16(m, SP) < 6
  BY DEF Wraps, Software
<1>6. Reg16(m, SP) = Mod(16, m.r[SP]) /\ Reg16(m, SP) \in Nat
  BY RegType, ValuesNat DEF Reg16, SP
<1> HIDE DEF i
<1>7. CASE i.v \in Software
  <2>1. CASE j = SP /\ Reg16(m, SP) < 6
    BY <1>5, <1>7, <2>1
  <2>2. CASE ~(j = SP /\ Reg16(m, SP) < 6)
    <3>1. j = SP => Mod(16, m.r[SP]) >= 6
      BY <1>6, <2>2
    <3>2. Upper(Dispatch(i).r[j]) = Upper(m.r[j])
      BY <1>3, <1>7, <3>1, SoftwareKeeps
    <3> QED
      BY <3>2 DEF i
  <2> QED
    BY <2>1, <2>2
<1>8. CASE i.v \notin Software /\ ~Extends(m)
  <2>1. LongBits \notin {8, 16}
    BY WidthAssumption
  <2>2. ~AlwaysLong(i)
    BY <1>4, <1>8 DEF AlwaysLong
  <2>3. Dispatch(i) \in Ended(Narrow(m)) \cup Unchanged(Code(m)) \cup Raised(Narrow(m))
    BY <1>1, <1>2, <1>3, <2>2, StepType
  <2>4. Upper(Dispatch(i).r[j]) = Upper(m.r[j])
    BY <2>3, NarrowType
  <2> QED
    BY <2>4 DEF i
<1> QED
  BY <1>7, <1>8

\* Without SYSMODE_PREFIX_DATA no operation of ops.c and ops2.c changes the upper half
\* of a register, but MOVZX and MOVSX of a word and the push of an interrupt that
\* wraps ESP, which pushw() moves as a long.
THEOREM NarrowStaysLow == Spec => NarrowCodeKeepsHigh
<1> DEFINE Low == state = "running" /\ "PREFIX_DATA" \notin M.mode /\ M.intr = {} =>
                    \A n \in 0..7 : High(M', n) # High(M, n) => Extends(M) \/ (n = SP /\ Wraps(M))
<1>1. ASSUME Inv, [Next]_vars
      PROVE  Low
  <2>1. SUFFICES ASSUME state = "running", "PREFIX_DATA" \notin M.mode, M.intr = {}, NEW n \in 0..7
                 PROVE  High(M', n) # High(M, n) => Extends(M) \/ (n = SP /\ Wraps(M))
    OBVIOUS
  <2>2. M \in Machines
    BY <1>1 DEF Inv
  <2>3. x86emu_intr_handle(M) = M
    BY <2>1 DEF x86emu_intr_handle, Due
  <2>4. CASE ExecInstruction
    <3>1. M' = Dispatch(fetch_byte_imm(M))
      BY <2>3, <2>4 DEF ExecInstruction
    <3> QED
      BY <2>1, <2>2, <3>1, NarrowStep DEF High, Upper
  <2>5. CASE M' = M
    BY <2>5 DEF High
  <2>6. ExecInstruction \/ M' = M
    <3>1. CASE x86emu_LRMI_int
      BY <2>1, <3>1 DEF x86emu_LRMI_int
    <3>2. CASE ExecHalted \/ Crashed \/ real_call \/ UNCHANGED vars
      BY <3>2 DEF ExecHalted, Crashed, real_call, vars
    <3>3. CASE ExecReturns
      BY <2>3, <3>3 DEF ExecReturns
    <3> QED
      BY <1>1, <3>1, <3>2, <3>3 DEF Next
  <2> QED
    BY <2>4, <2>5, <2>6
<1>2. Inv /\ [Next]_vars => [Low]_vars
  BY <1>1
<1> HIDE DEF Low
<1>3. Spec => [][Low]_vars
  BY <1>2, InvHolds, PTL DEF Spec
<1> QED
  BY <1>3 DEF NarrowCodeKeepsHigh, Low
===============================================================================
