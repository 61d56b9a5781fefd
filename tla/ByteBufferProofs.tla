-------------------------- MODULE ByteBufferProofs --------------------------
(***************************************************************************)
(* Lemmas about the bytes of the wire and the reader: what is written as   *)
(* bytes is read back as the number, and what each read does to its reader.*)
(***************************************************************************)
EXTENDS ByteBuffer, SequenceLemmas

-----------------------------------------------------------------------------
(***************************************************************************)
(* Recursive functions over 0..n whose step is a function.                 *)
(***************************************************************************)
IsLoop(f, n, base, step) ==
  /\ DOMAIN f = 0..n
  /\ f[0] = base
  /\ \A i \in 1..n : f[i] = step[<<f[i - 1], i>>]

LEMMA LoopExists ==
  ASSUME NEW S, NEW n \in Nat, NEW base \in S, NEW step \in [S \X (1..n) -> S]
  PROVE  \E f \in [0..n -> S] : IsLoop(f, n, base, step)
<1> DEFINE T == {k \in Nat : k <= n => \E f \in [0..k -> S] : IsLoop(f, k, base, step)}
<1>1. 0 \in T
  <2>1. [i \in 0..0 |-> base] \in [0..0 -> S]
    OBVIOUS
  <2>2. IsLoop([i \in 0..0 |-> base], 0, base, step)
    BY DEF IsLoop
  <2> QED
    BY <2>1, <2>2
<1>2. ASSUME NEW k \in Nat, k \in T PROVE k + 1 \in T
  <2> SUFFICES ASSUME k + 1 <= n
               PROVE  \E f \in [0..(k + 1) -> S] : IsLoop(f, k + 1, base, step)
    OBVIOUS
  <2>1. PICK g \in [0..k -> S] : IsLoop(g, k, base, step)
    BY <1>2
  <2> DEFINE f == [i \in 0..(k + 1) |-> IF i <= k THEN g[i] ELSE step[<<g[k], k + 1>>]]
  <2>2. g[k] \in S /\ k + 1 \in 1..n
    OBVIOUS
  <2>3. step[<<g[k], k + 1>>] \in S
    BY <2>2
  <2>4. f \in [0..(k + 1) -> S]
    BY <2>3
  <2>5. f[k + 1] = step[<<g[k], k + 1>>] /\ \A i \in 0..k : f[i] = g[i]
    OBVIOUS
  <2> HIDE DEF f
  <2>6. ASSUME NEW i \in 1..(k + 1) PROVE f[i] = step[<<f[i - 1], i>>]
    <3>1. CASE i = k + 1
      BY <2>5, <3>1
    <3>2. CASE i \in 1..k
      BY <2>1, <2>5, <3>2 DEF IsLoop
    <3> QED
      BY <3>1, <3>2
  <2>7. f[0] = base
    BY <2>1, <2>5 DEF IsLoop
  <2> QED
    BY <2>4, <2>6, <2>7 DEF IsLoop
<1>3. Nat \subseteq T
  <2> HIDE DEF T
  <2> QED
    BY <1>1, <1>2, SetInduction
<1> QED
  BY <1>3

-----------------------------------------------------------------------------
(***************************************************************************)
(* Powers, and the digits of a number.                                     *)
(***************************************************************************)
BaseIs == Base \in Nat /\ Base > 1

LEMMA BaseType == BaseIs /\ Base \in Nat \ {0}
  BY ByteAssumption DEF BaseIs

PowerAt(f, i) == IF i = 0 THEN 1 ELSE Base * f[i - 1]
Powers(n, f) == f = [i \in 0..n |-> PowerAt(f, i)]

LEMMA PowerIs ==
  ASSUME NEW n
  PROVE  Power(n) = (CHOOSE f : Powers(n, f))[n]
  BY Zenon DEF Power, Powers, PowerAt

LEMMA PowersExist ==
  ASSUME NEW n \in Nat
  PROVE  \E f \in [0..n -> Nat \ {0}] : Powers(n, f)
<1> DEFINE N == Nat \ {0}
           step == [x \in N \X (1..n) |-> Base * x[1]]
<1>1. step \in [N \X (1..n) -> N]
  BY BaseType
<1>2. 1 \in N
  OBVIOUS
<1>3. PICK f \in [0..n -> N] : IsLoop(f, n, 1, step)
  <2> HIDE DEF N, step
  <2> QED
    BY <1>1, <1>2, LoopExists
<1>4. ASSUME NEW i \in 0..n PROVE f[i] = PowerAt(f, i)
  <2>1. CASE i = 0
    BY <1>3, <2>1 DEF IsLoop, PowerAt
  <2>2. CASE i \in 1..n
    <3>1. f[i - 1] \in N
      BY <2>2
    <3>2. step[<<f[i - 1], i>>] = Base * f[i - 1]
      BY <2>2, <3>1
    <3> QED
      BY <1>3, <2>2, <3>2 DEF IsLoop, PowerAt
  <2> QED
    BY <2>1, <2>2
<1>5. Powers(n, f)
  <2>1. f = [i \in 0..n |-> f[i]]
    OBVIOUS
  <2> HIDE DEF N, step
  <2> QED
    BY <1>4, <2>1, Zenon DEF Powers
<1> QED
  BY <1>5

LEMMA PowersEach ==
  ASSUME NEW n \in Nat, NEW f, Powers(n, f), NEW i \in 0..n
  PROVE  f[i] = PowerAt(f, i)
  BY Zenon DEF Powers

LEMMA PowersAgree ==
  ASSUME NEW n \in Nat, NEW m \in Nat, NEW f, NEW g, Powers(n, f), Powers(m, g),
         NEW i \in Nat, i <= n, i <= m
  PROVE  f[i] = g[i]
<1> DEFINE T == {k \in Nat : k <= n /\ k <= m => f[k] = g[k]}
<1>1. 0 \in T
  BY PowersEach DEF PowerAt
<1>2. ASSUME NEW k \in Nat, k \in T PROVE k + 1 \in T
  <2> SUFFICES ASSUME k + 1 <= n, k + 1 <= m PROVE f[k + 1] = g[k + 1]
    OBVIOUS
  <2>1. f[k + 1] = PowerAt(f, k + 1) /\ g[k + 1] = PowerAt(g, k + 1)
    BY PowersEach
  <2>2. f[k] = g[k]
    BY <1>2
  <2> QED
    BY <2>1, <2>2 DEF PowerAt
<1>3. Nat \subseteq T
  <2> HIDE DEF T
  <2> QED
    BY <1>1, <1>2, SetInduction
<1> QED
  BY <1>3

LEMMA PowerOf ==
  ASSUME NEW n \in Nat, NEW f, Powers(n, f), NEW i \in 0..n
  PROVE  Power(i) = f[i]
<1>1. PICK g \in [0..i -> Nat \ {0}] : Powers(i, g)
  <2>1. i \in Nat
    OBVIOUS
  <2> QED
    BY <2>1, PowersExist
<1> DEFINE h == CHOOSE x : Powers(i, x)
<1>2. Powers(i, h)
  BY <1>1, Zenon
<1> HIDE DEF h
<1>3. h[i] = f[i]
  BY <1>2, PowersAgree
<1> QED
  BY <1>3, PowerIs DEF h

LEMMA PowerNext ==
  /\ Power(0) = 1
  /\ \A n \in Nat : Power(n) \in Nat \ {0} /\ Power(n + 1) = Base * Power(n)
<1>1. ASSUME NEW n \in Nat
      PROVE  /\ Power(n) \in Nat \ {0} /\ Power(n + 1) = Base * Power(n)
             /\ Power(0) = 1
  <2>0. n + 1 \in Nat
    OBVIOUS
  <2>1. PICK f \in [0..(n + 1) -> Nat \ {0}] : Powers(n + 1, f)
    BY <2>0, PowersExist, Zenon
  <2>2. Power(n) = f[n] /\ Power(n + 1) = f[n + 1] /\ Power(0) = f[0]
    BY <2>1, PowerOf
  <2>3. f[n + 1] = PowerAt(f, n + 1) /\ f[0] = PowerAt(f, 0)
    BY <2>0, <2>1, PowersEach
  <2>4. f[n + 1] = Base * f[n] /\ f[0] = 1
    BY <2>3 DEF PowerAt
  <2> QED
    BY <2>1, <2>2, <2>4
<1> QED
  BY <1>1

NumberAt(bytes, f, i) == IF i = 0 THEN 0 ELSE f[i - 1] + bytes[i] * Power(i - 1)
Numbers(bytes, f) == f = [i \in 0..Len(bytes) |-> NumberAt(bytes, f, i)]

LEMMA NumberIs ==
  ASSUME NEW bytes
  PROVE  NumberOf(bytes) = (CHOOSE f : Numbers(bytes, f))[Len(bytes)]
  BY Zenon DEF NumberOf, Numbers, NumberAt

LEMMA NumbersEach ==
  ASSUME NEW bytes, NEW f, Numbers(bytes, f), NEW i \in 0..Len(bytes)
  PROVE  f[i] = NumberAt(bytes, f, i)
  BY Zenon DEF Numbers

LEMMA NumbersExist ==
  ASSUME NEW bytes \in Seq(Nat)
  PROVE  \E f \in [0..Len(bytes) -> Nat] : Numbers(bytes, f)
<1> DEFINE n == Len(bytes)
           step == [x \in Nat \X (1..n) |-> x[1] + bytes[x[2]] * Power(x[2] - 1)]
<1>1. n \in Nat /\ \A i \in 1..n : bytes[i] \in Nat /\ Power(i - 1) \in Nat
  <2>1. n \in Nat /\ \A i \in 1..n : bytes[i] \in Nat /\ i - 1 \in Nat
    OBVIOUS
  <2> QED
    BY <2>1, PowerNext
<1>2. ASSUME NEW a \in Nat, NEW i \in 1..n PROVE a + bytes[i] * Power(i - 1) \in Nat
  BY <1>1, SMTT(20)
<1>3. step \in [Nat \X (1..n) -> Nat]
  <2>1. ASSUME NEW x \in Nat \X (1..n)
        PROVE  x[1] + bytes[x[2]] * Power(x[2] - 1) \in Nat
    <3>1. x[1] \in Nat /\ x[2] \in 1..n
      OBVIOUS
    <3> QED
      BY <1>2, <3>1
  <2> QED
    BY <2>1
<1>4. PICK f \in [0..n -> Nat] : IsLoop(f, n, 0, step)
  <2> HIDE DEF step, n
  <2> QED
    BY <1>1, <1>3, LoopExists
<1>5. ASSUME NEW i \in 0..n PROVE f[i] = NumberAt(bytes, f, i)
  <2>1. CASE i = 0
    BY <1>4, <2>1 DEF IsLoop, NumberAt
  <2>2. CASE i \in 1..n
    <3>1. f[i - 1] \in Nat
      <4>1. i - 1 \in 0..n
        BY <1>1, <2>2
      <4> HIDE DEF n
      <4> QED
        BY <4>1
    <3>2. step[<<f[i - 1], i>>] = f[i - 1] + bytes[i] * Power(i - 1)
      BY <2>2, <3>1
    <3>3. i # 0
      BY <2>2
    <3> QED
      BY <1>4, <2>2, <3>2, <3>3 DEF IsLoop, NumberAt
  <2> QED
    BY <1>1, <2>1, <2>2
<1>6. Numbers(bytes, f)
  <2>1. f = [i \in 0..n |-> f[i]]
    BY Zenon
  <2> QED
    BY <1>5, <2>1, Zenon DEF Numbers
<1> QED
  BY <1>4, <1>6

\* The number is the last of the partial sums, however they are given.
LEMMA NumberBy ==
  ASSUME NEW bytes \in Seq(Nat), NEW g, g[0] = 0,
         \A i \in 1..Len(bytes) : g[i] = g[i - 1] + bytes[i] * Power(i - 1)
  PROVE  NumberOf(bytes) = g[Len(bytes)]
<1> DEFINE f == CHOOSE h : Numbers(bytes, h)
           T == {k \in Nat : k <= Len(bytes) => f[k] = g[k]}
<1>1. Numbers(bytes, f)
  BY NumbersExist, Zenon
<1> HIDE DEF f
<1>2. 0 \in T
  BY <1>1, NumbersEach DEF NumberAt
<1>3. ASSUME NEW k \in Nat, k \in T PROVE k + 1 \in T
  <2> SUFFICES ASSUME k + 1 <= Len(bytes) PROVE f[k + 1] = g[k + 1]
    OBVIOUS
  <2>1. k + 1 \in 0..Len(bytes) /\ k + 1 \in 1..Len(bytes) /\ (k + 1) - 1 = k /\ k + 1 # 0
    OBVIOUS
  <2>2. f[k + 1] = NumberAt(bytes, f, k + 1)
    BY <1>1, <2>1, NumbersEach
  <2>3. f[k + 1] = f[k] + bytes[k + 1] * Power(k)
    BY <2>1, <2>2 DEF NumberAt
  <2>4. g[k + 1] = g[k] + bytes[k + 1] * Power(k)
    BY <2>1
  <2>5. f[k] = g[k]
    BY <1>3
  <2> QED
    BY <2>3, <2>4, <2>5
<1>4. Nat \subseteq T
  <2> HIDE DEF T
  <2> QED
    BY <1>2, <1>3, SetInduction
<1>5. f[Len(bytes)] = g[Len(bytes)]
  <2>1. Len(bytes) \in Nat /\ Len(bytes) <= Len(bytes)
    OBVIOUS
  <2> QED
    BY <1>4, <2>1
<1> QED
  BY <1>5, NumberIs, Zenon DEF f

LEMMA NumberType ==
  ASSUME NEW bytes \in Seq(Nat)
  PROVE  NumberOf(bytes) \in Nat
<1>1. PICK f \in [0..Len(bytes) -> Nat] : Numbers(bytes, f)
  BY NumbersExist
<1>2. f[0] = 0 /\ \A i \in 1..Len(bytes) : f[i] = f[i - 1] + bytes[i] * Power(i - 1)
  BY <1>1, NumbersEach DEF NumberAt
<1>3. NumberOf(bytes) = f[Len(bytes)]
  BY <1>2, NumberBy
<1>4. Len(bytes) \in 0..Len(bytes)
  OBVIOUS
<1> QED
  BY <1>3, <1>4

LEMMA BytesAreNat == Byte \subseteq Nat /\ Seq(Byte) \subseteq Seq(Nat)
  BY BaseType DEF Byte

LEMMA NumberBound ==
  ASSUME NEW bytes \in Seq(Byte)
  PROVE  NumberOf(bytes) \in 0..(Power(Len(bytes)) - 1)
<1>0. bytes \in Seq(Nat)
  BY BytesAreNat
<1>1. PICK f \in [0..Len(bytes) -> Nat] : Numbers(bytes, f)
  BY <1>0, NumbersExist
<1>2. f[0] = 0 /\ \A i \in 1..Len(bytes) : f[i] = f[i - 1] + bytes[i] * Power(i - 1)
  BY <1>1, NumbersEach DEF NumberAt
<1>3. NumberOf(bytes) = f[Len(bytes)]
  BY <1>0, <1>2, NumberBy
<1> DEFINE T == {k \in Nat : k <= Len(bytes) => f[k] < Power(k)}
<1>4. 0 \in T
  BY <1>2, PowerNext
<1>5. ASSUME NEW k \in Nat, k \in T PROVE k + 1 \in T
  <2> SUFFICES ASSUME k + 1 <= Len(bytes) PROVE f[k + 1] < Power(k + 1)
    OBVIOUS
  <2> DEFINE p == Power(k)
             b == bytes[k + 1]
  <2>1. f[k + 1] = f[k] + b * p
    <3>1. k + 1 \in 1..Len(bytes) /\ (k + 1) - 1 = k
      OBVIOUS
    <3> QED
      BY <1>2, <3>1
  <2>2. f[k] \in Nat /\ f[k] < p
    BY <1>5
  <2>3. p \in Nat \ {0} /\ Power(k + 1) = Base * p
    BY PowerNext
  <2>4. b \in Nat /\ b <= Base - 1
    <3>1. bytes[k + 1] \in Byte
      OBVIOUS
    <3> QED
      BY <3>1, BaseType DEF Byte
  <2> HIDE DEF p, b
  <2>5. b * p <= (Base - 1) * p /\ (Base - 1) * p = Base * p - p
    <3>1. (Base - 1) - b \in Nat
      BY <2>4, BaseType
    <3>2. ((Base - 1) - b) * p \in Nat
      BY <2>3, <3>1
    <3>3. ((Base - 1) - b) * p = (Base - 1) * p - b * p
      BY <2>3, <2>4, BaseType
    <3>4. (Base - 1) * p = Base * p - p
      BY <2>3, BaseType
    <3>5. b * p \in Nat /\ (Base - 1) * p \in Nat
      BY <2>3, <2>4, BaseType
    <3> QED
      BY <3>2, <3>3, <3>4, <3>5
  <2>6. b * p \in Nat /\ Base * p \in Nat
    BY <2>3, <2>4, BaseType
  <2> QED
    BY <2>1, <2>2, <2>3, <2>5, <2>6
<1>6. Nat \subseteq T
  <2> HIDE DEF T
  <2> QED
    BY <1>4, <1>5, SetInduction
<1>7. Len(bytes) \in Nat /\ Len(bytes) \in 0..Len(bytes)
  OBVIOUS
<1>8. f[Len(bytes)] < Power(Len(bytes)) /\ f[Len(bytes)] \in Nat
  BY <1>6, <1>7
<1>9. Power(Len(bytes)) \in Nat
  BY <1>7, PowerNext
<1> QED
  BY <1>3, <1>8, <1>9

LEMMA Division ==
  ASSUME NEW v \in Nat, NEW p \in Nat \ {0}
  PROVE  \E q \in Nat, r \in 0..(p - 1) : q = v \div p /\ r = v % p /\ v = p * q + r
<1>1. v % p \in 0..(p - 1)
  OBVIOUS
<1>2. v % p = v - p * (v \div p)
  BY Z3
<1>3. v \div p \in Nat
  OBVIOUS
<1> DEFINE q == v \div p
           r == v % p
<1>4. q \in Nat /\ r \in 0..(p - 1) /\ r = v - p * q
  BY <1>1, <1>2, <1>3
<1> HIDE DEF q, r
<1>5. p * q \in Nat
  BY <1>4
<1>6. v = p * q + r
  BY <1>4, <1>5
<1>7. q = v \div p /\ r = v % p
  BY DEF q, r
<1> QED
  BY <1>4, <1>6, <1>7, Zenon

LEMMA Remainder ==
  ASSUME NEW q \in Nat, NEW p \in Nat \ {0}, NEW r \in 0..(p - 1)
  PROVE  (p * q + r) % p = r
  OBVIOUS

\* One digit more of a number.
LEMMA DigitStep ==
  ASSUME NEW v \in Nat, NEW p \in Nat \ {0}, NEW b \in Nat \ {0}
  PROVE  v % (b * p) = (v % p) + ((v \div p) % b) * p
<1>1. PICK q \in Nat, r \in 0..(p - 1) : q = v \div p /\ r = v % p /\ v = p * q + r
  BY Division
<1>2. PICK e \in Nat, d \in 0..(b - 1) : e = q \div b /\ d = q % b /\ q = b * e + d
  BY Division
<1>3. v = (b * p) * e + (r + d * p)
  <2>1. v = p * (b * e + d) + r
    BY <1>1, <1>2
  <2> QED
    BY <1>1, <1>2, <2>1
<1>4. r + d * p \in 0..(b * p - 1)
  <2>1. d * p <= (b - 1) * p
    BY <1>2
  <2>2. (b - 1) * p = b * p - p
    OBVIOUS
  <2>3. d * p \in Nat /\ b * p \in Nat
    BY <1>2
  <2> QED
    BY <1>1, <2>1, <2>2, <2>3
<1>5. b * p \in Nat \ {0}
  OBVIOUS
<1>6. v % (b * p) = r + d * p
  <2> DEFINE m == b * p
             z == r + d * p
  <2>1. m \in Nat \ {0} /\ z \in 0..(m - 1) /\ v = m * e + z
    BY <1>3, <1>4, <1>5
  <2> HIDE DEF m, z
  <2>2. v % m = z
    BY <1>2, <2>1, Remainder
  <2> QED
    BY <2>2 DEF m, z
<1> QED
  BY <1>1, <1>2, <1>6, Zenon

LEMMA BytesType ==
  ASSUME NEW w \in Nat, NEW v \in Nat
  PROVE  /\ BytesOf(w, v) \in Seq(Byte) /\ Len(BytesOf(w, v)) = w
         /\ \A i \in 1..w : BytesOf(w, v)[i] = (v \div Power(i - 1)) % Base
<1>1. ASSUME NEW i \in 1..w PROVE (v \div Power(i - 1)) % Base \in Byte
  <2>1. Power(i - 1) \in Nat \ {0}
    BY PowerNext
  <2>2. v \div Power(i - 1) \in Nat
    BY <2>1, Division
  <2> HIDE DEF Byte
  <2> QED
    BY <2>2, BaseType, Division DEF Byte
<1>2. BytesOf(w, v) = [i \in 1..w |-> (v \div Power(i - 1)) % Base]
  BY DEF BytesOf
<1>3. BytesOf(w, v) \in [1..w -> Byte]
  BY <1>1, <1>2
<1> QED
  BY <1>2, <1>3, FunctionIsSeq

\* What push writes, read gives back.
LEMMA RoundTrip ==
  ASSUME NEW w \in Nat, NEW v \in 0..(Power(w) - 1)
  PROVE  NumberOf(BytesOf(w, v)) = v
<1> DEFINE b == BytesOf(w, v)
           g == [i \in 0..w |-> v % Power(i)]
<1>1. v \in Nat /\ Power(w) \in Nat \ {0}
  BY PowerNext
<1>2. b \in Seq(Nat) /\ Len(b) = w /\ \A i \in 1..w : b[i] = (v \div Power(i - 1)) % Base
  BY <1>1, BytesType, BytesAreNat
<1> HIDE DEF b
<1>3. g[0] = 0
  BY <1>1, PowerNext
<1>4. ASSUME NEW i \in 1..w PROVE g[i] = g[i - 1] + b[i] * Power(i - 1)
  <2>1. i - 1 \in Nat /\ (i - 1) + 1 = i /\ i - 1 \in 0..w /\ i \in 0..w
    OBVIOUS
  <2>2. Power(i) = Base * Power(i - 1) /\ Power(i - 1) \in Nat \ {0}
    BY <2>1, PowerNext
  <2> DEFINE p == Power(i - 1)
  <2>3. v % Power(i) = (v % p) + ((v \div p) % Base) * p
    <3>1. p \in Nat \ {0} /\ Power(i) = Base * p
      BY <2>2
    <3> HIDE DEF p
    <3>2. v % (Base * p) = (v % p) + ((v \div p) % Base) * p
      BY <1>1, <3>1, BaseType, DigitStep
    <3> QED
      BY <3>1, <3>2
  <2> QED
    BY <1>2, <2>1, <2>3
<1>5. NumberOf(b) = g[w]
  <2> HIDE DEF g
  <2> QED
    BY <1>2, <1>3, <1>4, NumberBy
<1>6. v % Power(w) = v
  BY <1>1
<1> QED
  BY <1>5, <1>6 DEF b

LEMMA OneByte ==
  ASSUME NEW b \in Byte
  PROVE  NumberOf(<<b>>) = b /\ U8(b) = <<b>>
<1>1. b \in Nat /\ b < Base
  BY BaseType DEF Byte
<1>2. Power(0) = 1
  BY PowerNext
<1>3. NumberOf(<<b>>) = b
  <2> DEFINE g == [i \in 0..1 |-> IF i = 0 THEN 0 ELSE b]
  <2>1. g[0] = 0 /\ g[1] = b
    OBVIOUS
  <2>2. \A i \in 1..Len(<<b>>) : g[i] = g[i - 1] + <<b>>[i] * Power(i - 1)
    BY <1>1, <1>2
  <2>3. <<b>> \in Seq(Nat) /\ Len(<<b>>) = 1
    BY <1>1
  <2> HIDE DEF g
  <2>4. NumberOf(<<b>>) = g[Len(<<b>>)]
    BY <2>1, <2>2, <2>3, NumberBy
  <2> QED
    BY <2>1, <2>3, <2>4
<1>4. (b \div 1) % Base = b
  BY <1>1, BaseType
<1>5. U8(b) = <<b>>
  BY <1>2, <1>4 DEF U8, BytesOf
<1> QED
  BY <1>3, <1>5

-----------------------------------------------------------------------------
(***************************************************************************)
(* Bytes inside of data.                                                   *)
(***************************************************************************)
\* The bytes b are in d, after the first p.
Holds(d, p, b) == p + Len(b) <= Len(d) /\ \A i \in 1..Len(b) : d[p + i] = b[i]

LEMMA ConcatIs ==
  ASSUME NEW S, NEW a \in Seq(S), NEW b \in Seq(S)
  PROVE  /\ a \o b \in Seq(S) /\ Len(a \o b) = Len(a) + Len(b)
         /\ \A i \in 1..Len(a) : (a \o b)[i] = a[i]
         /\ \A i \in 1..Len(b) : (a \o b)[Len(a) + i] = b[i]
  OBVIOUS

LEMMA WindowIs ==
  ASSUME NEW S, NEW d \in Seq(S), NEW p \in Nat, NEW n \in Nat, p + n <= Len(d)
  PROVE  /\ Window(d, p, n) \in Seq(S) /\ Len(Window(d, p, n)) = n
         /\ \A i \in 1..n : Window(d, p, n)[i] = d[p + i] /\ d[p + i] \in S
<1>1. \A i \in 1..n : d[p + i] \in S
  OBVIOUS
<1>2. Window(d, p, n) = [i \in 1..n |-> d[p + i]]
  <2>1. /\ Window(d, p, n) \in Seq(S) /\ Len(Window(d, p, n)) = n
        /\ \A i \in 1..n : Window(d, p, n)[i] = d[p + i]
    BY SMTT(20) DEF Window
  <2> QED
    BY <2>1
<1> QED
  BY <1>1, <1>2

LEMMA HoldsWindow ==
  ASSUME NEW S, NEW d \in Seq(S), NEW b \in Seq(S), NEW p \in Nat, Holds(d, p, b)
  PROVE  Window(d, p, Len(b)) = b
<1>1. Len(b) \in Nat /\ p + Len(b) <= Len(d)
  BY DEF Holds
<1>2. /\ Window(d, p, Len(b)) \in Seq(S) /\ Len(Window(d, p, Len(b))) = Len(b)
      /\ \A i \in 1..Len(b) : Window(d, p, Len(b))[i] = b[i]
  BY <1>1, WindowIs DEF Holds
<1> QED
  BY <1>2, SeqEqual

LEMMA HoldsSelf == ASSUME NEW S, NEW d \in Seq(S) PROVE Holds(d, 0, d)
  BY DEF Holds

LEMMA HoldsParts ==
  ASSUME NEW S, NEW d \in Seq(S), NEW a \in Seq(S), NEW b \in Seq(S), NEW p \in Nat,
         Holds(d, p, a \o b)
  PROVE  /\ Holds(d, p, a) /\ Holds(d, p + Len(a), b)
         /\ a \o b \in Seq(S) /\ Len(a \o b) = Len(a) + Len(b)
         /\ p + Len(a) \in Nat
<1>1. a \o b \in Seq(S) /\ Len(a \o b) = Len(a) + Len(b)
  BY ConcatIs
<1>2. /\ \A i \in 1..Len(a) : (a \o b)[i] = a[i]
      /\ \A i \in 1..Len(b) : (a \o b)[Len(a) + i] = b[i]
  BY ConcatIs
<1>3. Len(a) \in Nat /\ Len(b) \in Nat /\ Len(d) \in Nat
  OBVIOUS
<1> DEFINE c == a \o b
<1>4. /\ p + Len(c) <= Len(d) /\ Len(c) = Len(a) + Len(b)
      /\ \A i \in 1..Len(c) : d[p + i] = c[i]
      /\ \A i \in 1..Len(a) : c[i] = a[i]
      /\ \A i \in 1..Len(b) : c[Len(a) + i] = b[i]
  BY <1>1, <1>2 DEF Holds
<1> HIDE DEF c
<1>5. Holds(d, p, a)
  BY <1>3, <1>4 DEF Holds
<1>6. Holds(d, p + Len(a), b)
  <2>1. ASSUME NEW i \in 1..Len(b) PROVE d[(p + Len(a)) + i] = b[i]
    <3>1. Len(a) + i \in 1..Len(c) /\ p + (Len(a) + i) = (p + Len(a)) + i
      BY <1>3, <1>4
    <3> QED
      BY <1>4, <3>1
  <2> QED
    BY <1>3, <1>4, <2>1 DEF Holds
<1> QED
  BY <1>1, <1>3, <1>5, <1>6

LEMMA HoldsNumber ==
  ASSUME NEW d \in Seq(Byte), NEW p \in Nat, NEW w \in Nat,
         NEW v \in 0..(Power(w) - 1), Holds(d, p, BytesOf(w, v))
  PROVE  NumberIn(d, p, w) = v /\ p + w <= Len(d)
<1>1. v \in Nat
  BY PowerNext
<1>2. BytesOf(w, v) \in Seq(Byte) /\ Len(BytesOf(w, v)) = w
  BY <1>1, BytesType
<1>3. Window(d, p, w) = BytesOf(w, v)
  BY <1>2, HoldsWindow
<1> QED
  BY <1>2, <1>3, RoundTrip DEF NumberIn, Holds

LEMMA NumberInType ==
  ASSUME NEW d \in Seq(Byte), NEW p \in Nat, NEW n \in Nat, p + n <= Len(d)
  PROVE  NumberIn(d, p, n) \in 0..(Power(n) - 1) /\ NumberIn(d, p, n) \in Nat
<1>1. Window(d, p, n) \in Seq(Byte) /\ Len(Window(d, p, n)) = n
  BY WindowIs
<1> QED
  BY <1>1, NumberBound, BytesAreNat, NumberType DEF NumberIn

\* d is the beginning of e.
Begins(d, e) == Len(d) <= Len(e) /\ \A i \in 1..Len(d) : d[i] = e[i]

LEMMA BeginsWindow ==
  ASSUME NEW S, NEW d \in Seq(S), NEW e \in Seq(S), Begins(d, e),
         NEW p \in Nat, NEW n \in Nat, p + n <= Len(d)
  PROVE  Window(d, p, n) = Window(e, p, n)
<1>1. p + n <= Len(e)
  BY DEF Begins
<1>2. /\ Window(d, p, n) \in Seq(S) /\ Len(Window(d, p, n)) = n
      /\ \A i \in 1..n : Window(d, p, n)[i] = d[p + i]
      /\ Window(e, p, n) \in Seq(S) /\ Len(Window(e, p, n)) = n
      /\ \A i \in 1..n : Window(e, p, n)[i] = e[p + i]
  BY <1>1, WindowIs
<1>3. ASSUME NEW i \in 1..n PROVE d[p + i] = e[p + i]
  <2>1. p + i \in 1..Len(d)
    OBVIOUS
  <2> QED
    BY <2>1 DEF Begins
<1> QED
  BY <1>2, <1>3, SeqEqual

-----------------------------------------------------------------------------
(***************************************************************************)
(* Sequences of equally long ones, put together.                           *)
(***************************************************************************)
Even(s, w) == \A i \in DOMAIN s : Len(s[i]) = w

FlatIs(s, w) ==
  /\ Len(FlattenSeq(s)) = Len(s) * w
  /\ \A i \in 1..Len(s), j \in 1..w : FlattenSeq(s)[(i - 1) * w + j] = s[i][j]

LEMMA RowIn ==
  ASSUME NEW n \in Nat, NEW w \in Nat, NEW i \in 1..n
  PROVE  /\ (i - 1) * w \in Nat /\ i * w \in Nat /\ n * w \in Nat
         /\ (i - 1) * w + w = i * w /\ i * w <= n * w
         /\ \A j \in 1..w : (i - 1) * w + j \in 1..(n * w)
<1>1. i - 1 \in Nat /\ i \in Nat /\ n - i \in Nat
  OBVIOUS
<1>2. (i - 1) * w \in Nat /\ i * w \in Nat /\ n * w \in Nat /\ (n - i) * w \in Nat
  BY <1>1
<1>3. (i - 1) * w + w = i * w
  BY <1>1
<1>4. i * w <= n * w
  <2>1. n * w = i * w + (n - i) * w
    BY <1>1
  <2> QED
    BY <1>2, <2>1
<1>5. \A j \in 1..w : (i - 1) * w + j \in 1..(n * w)
  BY <1>2, <1>3, <1>4
<1> QED
  BY <1>2, <1>3, <1>4, <1>5

LEMMA FlatStep ==
  ASSUME NEW S, NEW s \in Seq(Seq(S)), NEW w \in Nat, FlatIs(s, w),
         NEW x \in Seq(S), Len(x) = w
  PROVE  FlatIs(Append(s, x), w)
<1> DEFINE n == Len(s)
           t == Append(s, x)
           f == FlattenSeq(s)
<1>1. FlattenSeq(t) = f \o x
  BY FlattenSeqAppend
<1>2. f \in Seq(S) /\ n \in Nat
  BY FlattenSeqType
<1>3. /\ Len(t) = n + 1 /\ t[n + 1] = x /\ \A i \in 1..n : t[i] = s[i]
  OBVIOUS
<1>4. Len(f) = n * w /\ \A i \in 1..n, j \in 1..w : f[(i - 1) * w + j] = s[i][j]
  BY DEF FlatIs
<1> HIDE DEF n, t, f
<1> DEFINE g == f \o x
<1>5. /\ Len(g) = n * w + w /\ n * w \in Nat
      /\ \A k \in 1..(n * w) : g[k] = f[k]
      /\ \A k \in 1..w : g[n * w + k] = x[k]
  <2>1. n * w \in Nat
    BY <1>2
  <2>2. Len(g) = Len(f) + Len(x) /\ \A k \in 1..Len(f) : g[k] = f[k]
    BY <1>2, ConcatIs
  <2>3. \A k \in 1..Len(x) : g[Len(f) + k] = x[k]
    BY <1>2, ConcatIs
  <2> HIDE DEF g
  <2> QED
    BY <1>4, <2>1, <2>2, <2>3
<1> HIDE DEF g
<1>6. Len(g) = (n + 1) * w
  BY <1>2, <1>5
<1>7. ASSUME NEW i \in 1..(n + 1), NEW j \in 1..w
      PROVE  g[(i - 1) * w + j] = t[i][j]
  <2>1. CASE i = n + 1
    <3>1. (i - 1) * w = n * w
      BY <1>2, <2>1
    <3> QED
      BY <1>3, <1>5, <2>1, <3>1
  <2>2. CASE i \in 1..n
    <3>1. (i - 1) * w + j \in 1..(n * w)
      BY <1>2, <2>2, RowIn
    <3>2. g[(i - 1) * w + j] = f[(i - 1) * w + j]
      BY <1>5, <3>1
    <3>3. f[(i - 1) * w + j] = s[i][j]
      BY <1>4, <2>2
    <3> QED
      BY <1>3, <2>2, <3>2, <3>3
  <2> QED
    BY <1>2, <2>1, <2>2
<1>8. FlattenSeq(t) = g
  BY <1>1 DEF g
<1>9. FlatIs(t, w)
  BY <1>2, <1>3, <1>6, <1>7, <1>8 DEF FlatIs
<1> QED
  BY <1>9 DEF t

LEMMA EvenFlat ==
  ASSUME NEW S, NEW s \in Seq(Seq(S)), NEW w \in Nat, Even(s, w)
  PROVE  FlattenSeq(s) \in Seq(S) /\ FlatIs(s, w)
<1> DEFINE T == {k \in Nat : \A t \in Seq(Seq(S)) :
                               Len(t) = k /\ Even(t, w) => FlatIs(t, w)}
<1>1. 0 \in T
  <2> SUFFICES ASSUME NEW t \in Seq(Seq(S)), Len(t) = 0 PROVE FlatIs(t, w)
    OBVIOUS
  <2>1. t = <<>>
    OBVIOUS
  <2>2. FlattenSeq(t) = <<>> /\ Len(<<>>) = 0
    BY <2>1, FlattenSeqEmpty
  <2> QED
    BY <2>2 DEF FlatIs
<1>2. ASSUME NEW k \in Nat, k \in T PROVE k + 1 \in T
  <2> SUFFICES ASSUME NEW t \in Seq(Seq(S)), Len(t) = k + 1, Even(t, w)
               PROVE  FlatIs(t, w)
    OBVIOUS
  <2> DEFINE r == SubSeq(t, 1, k)
             x == t[k + 1]
  <2>1. r \in Seq(Seq(S)) /\ Len(r) = k /\ \A i \in 1..k : r[i] = t[i]
    OBVIOUS
  <2>2. x \in Seq(S) /\ Len(x) = w
    <3>1. k + 1 \in DOMAIN t /\ t[k + 1] \in Seq(S)
      OBVIOUS
    <3>2. Len(t[k + 1]) = w
      BY <3>1, Zenon DEF Even
    <3> QED
      BY <3>1, <3>2
  <2>3. Even(r, w)
    BY <2>1 DEF Even
  <2>4. t = Append(r, x)
    <3> HIDE DEF r
    <3>1. /\ Append(r, x) \in Seq(Seq(S)) /\ Len(Append(r, x)) = k + 1
          /\ Append(r, x)[k + 1] = x
          /\ \A i \in 1..k : Append(r, x)[i] = r[i]
      BY <2>1, <2>2, AppendIs
    <3> QED
      BY <2>1, <3>1, SeqEqual
  <2>5. FlatIs(r, w)
    BY <1>2, <2>1, <2>3
  <2> HIDE DEF r, x
  <2> QED
    BY <2>1, <2>2, <2>4, <2>5, FlatStep
<1>3. Nat \subseteq T
  <2> HIDE DEF T
  <2> QED
    BY <1>1, <1>2, SetInduction
<1>4. Len(s) \in Nat
  OBVIOUS
<1> QED
  BY <1>3, <1>4, FlattenSeqType

LEMMA HoldsEven ==
  ASSUME NEW S, NEW s \in Seq(Seq(S)), NEW w \in Nat, Even(s, w),
         NEW d \in Seq(S), NEW p \in Nat, Holds(d, p, FlattenSeq(s)),
         NEW i \in 1..Len(s)
  PROVE  Holds(d, p + (i - 1) * w, s[i]) /\ p + (i - 1) * w \in Nat
<1>1. FlatIs(s, w)
  BY EvenFlat
<1>2. Len(s[i]) = w /\ Len(s) \in Nat
  BY DEF Even
<1>3. /\ (i - 1) * w \in Nat /\ (i - 1) * w + w = i * w
      /\ i * w <= Len(s) * w /\ i * w \in Nat /\ Len(s) * w \in Nat
      /\ \A j \in 1..w : (i - 1) * w + j \in 1..(Len(s) * w)
  BY <1>2, RowIn
<1>4. p + ((i - 1) * w) + w <= Len(d)
  BY <1>1, <1>3 DEF Holds, FlatIs
<1>5. ASSUME NEW j \in 1..w PROVE d[(p + (i - 1) * w) + j] = s[i][j]
  <2>1. (i - 1) * w + j \in 1..(Len(s) * w)
    BY <1>3
  <2>2. d[p + ((i - 1) * w + j)] = FlattenSeq(s)[(i - 1) * w + j]
    BY <1>1, <2>1 DEF Holds, FlatIs
  <2>3. FlattenSeq(s)[(i - 1) * w + j] = s[i][j]
    BY <1>1 DEF FlatIs
  <2>4. p + ((i - 1) * w + j) = (p + (i - 1) * w) + j
    BY <1>3
  <2> QED
    BY <2>2, <2>3, <2>4
<1> DEFINE q == (i - 1) * w
<1>6. q \in Nat /\ p + q + Len(s[i]) <= Len(d)
  BY <1>2, <1>3, <1>4
<1>7. \A j \in 1..Len(s[i]) : d[(p + q) + j] = s[i][j]
  BY <1>2, <1>5
<1> DEFINE a == p + q
           b == s[i]
<1> HIDE DEF q
<1>8. /\ a \in Nat /\ a + Len(b) <= Len(d)
      /\ \A j \in 1..Len(b) : d[a + j] = b[j]
  <2>1. a \in Nat /\ a + Len(b) <= Len(d)
    <3>1. q \in Nat /\ p + q + Len(b) <= Len(d)
      BY <1>6, Zenon
    <3>2. a \in Nat
      BY <3>1
    <3> QED
      BY <3>1, <3>2, Zenon
  <2>2. \A j \in 1..Len(b) : d[a + j] = b[j]
    BY <1>7, Zenon
  <2> QED
    BY <2>1, <2>2
<1> HIDE DEF a, b
<1>9. Holds(d, a, b)
  BY <1>8 DEF Holds
<1> QED
  BY <1>8, <1>9 DEF a, b, q

-----------------------------------------------------------------------------
(***************************************************************************)
(* Doubles, and numbers in network order.                                  *)
(***************************************************************************)
DoubleWidth == Width["f64"]

LEMMA WidthType ==
  /\ \A type \in Types : Width[type] \in Nat \ {0}
  /\ DoubleWidth \in Nat \ {0} /\ Width["u8"] = 1
  /\ Width["u32"] \in Nat \ {0} /\ Width["u64"] \in Nat \ {0}
  BY ByteAssumption DEF Types, DoubleWidth

LEMMA NumberIsNat == \A type \in Types : Number(type) \subseteq Nat
<1> SUFFICES ASSUME NEW type \in Types, NEW v \in Number(type) PROVE v \in Nat
  OBVIOUS
<1>1. Power(Width[type]) \in Nat
  BY WidthType, PowerNext
<1> QED
  BY <1>1 DEF Number

LEMMA DoublesSplit ==
  ASSUME NEW s \in Seq(Nat)
  PROVE  /\ [i \in DOMAIN s |-> F64(s[i])] \in Seq(Seq(Byte))
         /\ Len([i \in DOMAIN s |-> F64(s[i])]) = Len(s)
         /\ Even([i \in DOMAIN s |-> F64(s[i])], DoubleWidth)
<1> DEFINE t == [i \in DOMAIN s |-> F64(s[i])]
<1>1. ASSUME NEW i \in DOMAIN s
      PROVE  F64(s[i]) \in Seq(Byte) /\ Len(F64(s[i])) = DoubleWidth
  <2>1. s[i] \in Nat
    OBVIOUS
  <2>2. DoubleWidth \in Nat
    BY WidthType
  <2> QED
    BY <2>1, <2>2, BytesType DEF F64, DoubleWidth
<1>2. DOMAIN s = 1..Len(s) /\ Len(s) \in Nat
  OBVIOUS
<1>3. t \in [1..Len(s) -> Seq(Byte)]
  BY <1>1, <1>2
<1>4. t \in Seq(Seq(Byte)) /\ Len(t) = Len(s)
  <2> HIDE DEF t
  <2> QED
    BY <1>2, <1>3, FunctionIsSeq
<1>5. Even(t, DoubleWidth)
  BY <1>1 DEF Even
<1> QED
  BY <1>4, <1>5

LEMMA DoublesAre ==
  ASSUME NEW s \in Seq(Nat)
  PROVE  F64s(s) \in Seq(Byte) /\ Len(F64s(s)) = Len(s) * DoubleWidth
<1> DEFINE t == [i \in DOMAIN s |-> F64(s[i])]
<1>1. t \in Seq(Seq(Byte)) /\ Len(t) = Len(s) /\ Even(t, DoubleWidth)
  BY DoublesSplit
<1>2. F64s(s) = FlattenSeq(t)
  BY DEF F64s
<1> HIDE DEF t
<1>3. DoubleWidth \in Nat
  BY WidthType
<1>4. FlattenSeq(t) \in Seq(Byte) /\ FlatIs(t, DoubleWidth)
  BY <1>1, <1>3, EvenFlat
<1> QED
  BY <1>1, <1>2, <1>4 DEF FlatIs

LEMMA HoldsDoubles ==
  ASSUME NEW s \in Seq(Number("f64")), NEW d \in Seq(Byte), NEW p \in Nat,
         Holds(d, p, F64s(s))
  PROVE  /\ p + Len(s) * DoubleWidth <= Len(d)
         /\ \A i \in 1..Len(s) : NumberIn(d, p + (i - 1) * DoubleWidth, DoubleWidth) = s[i]
<1> DEFINE t == [i \in DOMAIN s |-> F64(s[i])]
<1>1. s \in Seq(Nat)
  BY NumberIsNat DEF Types
<1>2. t \in Seq(Seq(Byte)) /\ Len(t) = Len(s) /\ Even(t, DoubleWidth)
  BY <1>1, DoublesSplit
<1>3. F64s(s) = FlattenSeq(t) /\ \A i \in 1..Len(s) : t[i] = F64(s[i])
  BY DEF F64s
<1> HIDE DEF t
<1>4. p + Len(s) * DoubleWidth <= Len(d)
  BY <1>1, DoublesAre DEF Holds
<1>5. ASSUME NEW i \in 1..Len(s)
      PROVE  NumberIn(d, p + (i - 1) * DoubleWidth, DoubleWidth) = s[i]
  <2>1. DoubleWidth \in Nat
    BY WidthType
  <2> DEFINE q == p + (i - 1) * DoubleWidth
  <2>2. Holds(d, q, t[i]) /\ q \in Nat
    BY <1>2, <1>3, <2>1, HoldsEven
  <2>3. s[i] \in 0..(Power(DoubleWidth) - 1)
    <3>1. s[i] \in Number("f64")
      OBVIOUS
    <3> QED
      BY <3>1 DEF Number, DoubleWidth
  <2>4. t[i] = BytesOf(DoubleWidth, s[i])
    BY <1>3 DEF F64, DoubleWidth
  <2> HIDE DEF q
  <2>5. NumberIn(d, q, DoubleWidth) = s[i]
    BY <2>1, <2>2, <2>3, <2>4, HoldsNumber
  <2> QED
    BY <2>5 DEF q
<1> QED
  BY <1>4, <1>5

LEMMA ReverseTwice ==
  ASSUME NEW S, NEW s \in Seq(S)
  PROVE  /\ Reverse(s) \in Seq(S) /\ Len(Reverse(s)) = Len(s)
         /\ Reverse(Reverse(s)) = s
<1>1. ASSUME NEW t \in Seq(S)
      PROVE  /\ Reverse(t) \in Seq(S) /\ Len(Reverse(t)) = Len(t)
             /\ \A i \in 1..Len(t) : Reverse(t)[i] = t[(Len(t) - i) + 1]
  <2>1. ASSUME NEW i \in 1..Len(t) PROVE t[(Len(t) - i) + 1] \in S
    OBVIOUS
  <2>2. Reverse(t) \in [1..Len(t) -> S]
    BY <2>1 DEF Reverse
  <2>3. Len(t) \in Nat
    OBVIOUS
  <2>4. Reverse(t) \in Seq(S) /\ Len(Reverse(t)) = Len(t)
    BY <2>2, <2>3, FunctionIsSeq
  <2> QED
    BY <2>4 DEF Reverse
<1> DEFINE t == Reverse(s)
<1>2. /\ t \in Seq(S) /\ Len(t) = Len(s)
      /\ \A i \in 1..Len(s) : t[i] = s[(Len(s) - i) + 1]
  BY <1>1
<1> HIDE DEF t
<1>3. /\ Reverse(t) \in Seq(S) /\ Len(Reverse(t)) = Len(s)
      /\ \A i \in 1..Len(s) : Reverse(t)[i] = t[(Len(s) - i) + 1]
  BY <1>1, <1>2
<1>4. ASSUME NEW i \in 1..Len(s) PROVE Reverse(t)[i] = s[i]
  <2>1. (Len(s) - i) + 1 \in 1..Len(s) /\ (Len(s) - ((Len(s) - i) + 1)) + 1 = i
    OBVIOUS
  <2> QED
    BY <1>2, <1>3, <2>1
<1>5. Reverse(t) = s
  BY <1>3, <1>4, SeqEqual
<1> QED
  BY <1>2, <1>5 DEF t

\* What toNetwork32 and toNetwork64 turn round, their inverses turn back.
LEMMA NetworkOrder ==
  ASSUME NEW type \in Types, NEW v \in Number(type)
  PROVE  /\ Net(type, v) \in Seq(Byte) /\ Len(Net(type, v)) = Width[type]
         /\ FromNet(Net(type, v)) = v
<1>1. v \in Nat /\ Width[type] \in Nat /\ v \in 0..(Power(Width[type]) - 1)
  BY NumberIsNat, WidthType DEF Number
<1>2. /\ BytesOf(Width[type], v) \in Seq(Byte)
      /\ Len(BytesOf(Width[type], v)) = Width[type]
      /\ NumberOf(BytesOf(Width[type], v)) = v
  BY <1>1, BytesType, RoundTrip
<1> QED
  BY <1>2, ReverseTwice DEF Net, FromNet

LEMMA NetType ==
  ASSUME NEW type \in Types, NEW d \in Seq(Byte), NEW p \in Nat,
         p + Width[type] <= Len(d)
  PROVE  FromNet(Window(d, p, Width[type])) \in Number(type)
<1> DEFINE b == Reverse(Window(d, p, Width[type]))
<1>1. b \in Seq(Byte) /\ Len(b) = Width[type]
  BY WidthType, WindowIs, ReverseTwice
<1> HIDE DEF b
<1>2. NumberOf(b) \in 0..(Power(Width[type]) - 1)
  BY <1>1, NumberBound
<1> QED
  BY <1>2 DEF b, FromNet, Number

LEMMA HoldsNet ==
  ASSUME NEW type \in Types, NEW v \in Number(type), NEW d \in Seq(Byte), NEW p \in Nat,
         Holds(d, p, Net(type, v))
  PROVE  FromNet(Window(d, p, Width[type])) = v
<1>1. Net(type, v) \in Seq(Byte) /\ Len(Net(type, v)) = Width[type]
  BY NetworkOrder
<1>2. Window(d, p, Width[type]) = Net(type, v)
  BY <1>1, HoldsWindow
<1> QED
  BY <1>2, NetworkOrder

-----------------------------------------------------------------------------
(***************************************************************************)
(* The operations of the reader.                                           *)
(***************************************************************************)
IsReader(r) ==
  /\ r = [data |-> r.data, pos |-> r.pos, taken |-> r.taken, out |-> r.out,
          ok |-> r.ok, inside |-> r.inside]
  /\ r.data \in Seq(Byte) /\ r.pos \in 0..Len(r.data) /\ r.taken \in Seq(Byte)
  /\ r.ok \in BOOLEAN /\ r.inside \in BOOLEAN

\* s is what an operation makes of the reader r.
Follows(r, s) ==
  /\ IsReader(s) /\ s.data = r.data /\ s.inside = r.inside /\ r.pos <= s.pos
  /\ s.ok => r.ok
  /\ ~ r.ok => s = r

\* So many bytes are counted without an overflow.
Room(r, size) == size \in Nat /\ Len(r.data) + size < SizeRange

LEMMA ReaderType ==
  ASSUME NEW r, IsReader(r)
  PROVE  /\ r.pos \in Nat /\ Len(r.data) \in Nat /\ r.pos <= Len(r.data)
         /\ r.data \in Seq(Byte) /\ r.taken \in Seq(Byte)
         /\ r.ok \in BOOLEAN /\ r.inside \in BOOLEAN
<1>1. r.data \in Seq(Byte) /\ r.pos \in 0..Len(r.data)
  BY DEF IsReader
<1>2. Len(r.data) \in Nat
  BY <1>1
<1> QED
  BY <1>1, <1>2 DEF IsReader

LEMMA FollowsChain ==
  ASSUME NEW r, NEW s, NEW t, IsReader(r), Follows(r, s), Follows(s, t)
  PROVE  Follows(r, t) /\ IsReader(s) /\ IsReader(t)
  BY DEF Follows, IsReader

LEMMA FollowsSelf ==
  ASSUME NEW r, IsReader(r)
  PROVE  Follows(r, r)
  BY DEF Follows, IsReader

LEMMA ReaderIs ==
  ASSUME NEW data \in Seq(Byte), NEW out
  PROVE  /\ IsReader(Reader(data, out))
         /\ Reader(data, out).data = data /\ Reader(data, out).pos = 0
         /\ Reader(data, out).out = out
         /\ Reader(data, out).ok = TRUE /\ Reader(data, out).inside = TRUE
<1>1. <<>> \in Seq(Byte) /\ 0 \in 0..Len(data)
  OBVIOUS
<1> QED
  BY <1>1 DEF IsReader, Reader

LEMMA RequireIs ==
  ASSUME NEW r, IsReader(r), NEW condition \in BOOLEAN
  PROVE  /\ Follows(r, Require(r, condition))
         /\ Require(r, condition) = [r EXCEPT !.ok = r.ok /\ condition]
         /\ Require(r, condition).out = r.out
         /\ Require(r, condition).pos = r.pos
         /\ Require(r, condition).taken = r.taken
         /\ Require(r, condition).ok <=> r.ok /\ condition
  BY DEF Require, Follows, IsReader

LEMMA FitsIs ==
  ASSUME NEW r, IsReader(r), NEW size, Room(r, size)
  PROVE  Fits(r, size) <=> r.pos + size <= Len(r.data)
<1>2. SizeRange \in Nat \ {0}
  BY PowerNext, WidthType DEF SizeRange
<1>1. r.pos + size \in Nat /\ r.pos + size < SizeRange
  BY <1>2, ReaderType DEF Room
<1>3. (r.pos + size) % SizeRange = r.pos + size
  BY <1>1, <1>2
<1> QED
  BY <1>3 DEF Fits

LEMMA TakeIs ==
  ASSUME NEW r, IsReader(r), NEW size, r.ok => Room(r, size)
  PROVE  /\ Follows(r, Take(r, size))
         /\ Take(r, size).out = r.out
         /\ Take(r, size).ok <=> r.ok /\ r.pos + size <= Len(r.data)
         /\ Take(r, size).ok => /\ Take(r, size).pos = r.pos + size
                                /\ Take(r, size).taken = Window(r.data, r.pos, size)
<1>1. CASE ~ r.ok
  <2>1. Take(r, size) = r
    BY <1>1 DEF Take
  <2> QED
    BY <1>1, <2>1, FollowsSelf DEF IsReader
<1>2. CASE r.ok /\ r.pos + size <= Len(r.data)
  <2>1. Room(r, size) /\ Fits(r, size) /\ ~ (r.pos + size > Len(r.data))
    BY <1>2, FitsIs, ReaderType DEF Room
  <2>2. Take(r, size) = [r EXCEPT !.taken = Window(r.data, r.pos, size), !.pos = r.pos + size]
    BY <1>2, <2>1 DEF Take, Window, IsReader
  <2>3. Window(r.data, r.pos, size) \in Seq(Byte)
    BY <1>2, <2>1, WindowIs DEF Room, IsReader
  <2>4. r.pos + size \in 0..Len(r.data) /\ r.pos <= r.pos + size
    BY <1>2, <2>1, ReaderType DEF Room
  <2> QED
    BY <1>2, <2>2, <2>3, <2>4 DEF Follows, IsReader
<1>3. CASE r.ok /\ ~ (r.pos + size <= Len(r.data))
  <2>1. ~ Fits(r, size)
    BY <1>3, FitsIs
  <2>2. Take(r, size) = Require(r, FALSE)
    BY <1>3, <2>1 DEF Take
  <2>3. FALSE \in BOOLEAN
    OBVIOUS
  <2>4. /\ Follows(r, Require(r, FALSE)) /\ Require(r, FALSE).out = r.out
        /\ Require(r, FALSE).ok <=> r.ok /\ FALSE
    BY <2>3, RequireIs, Zenon
  <2>5. /\ Follows(r, Take(r, size)) /\ Take(r, size).out = r.out
        /\ ~ Take(r, size).ok
    BY <2>2, <2>4, Zenon
  <2> QED
    BY <1>3, <2>5, Zenon
<1> QED
  BY <1>1, <1>2, <1>3

LEMMA StoreIs ==
  ASSUME NEW r, IsReader(r), NEW path, NEW v
  PROVE  /\ Follows(r, Store(r, path, v))
         /\ Store(r, path, v).pos = r.pos /\ Store(r, path, v).taken = r.taken
         /\ Store(r, path, v).ok <=> r.ok
         /\ Store(r, path, v).out = IF r.ok THEN Put(r.out, path, v) ELSE r.out
<1>1. CASE r.ok
  <2>1. Store(r, path, v) = [r EXCEPT !.out = Put(r.out, path, v)]
    BY <1>1 DEF Store, IsReader
  <2> DEFINE o == Put(r.out, path, v)
  <2> HIDE DEF o
  <2>2. IsReader([r EXCEPT !.out = o]) /\ [r EXCEPT !.out = o].out = o
    BY DEF IsReader
  <2>3. Follows(r, [r EXCEPT !.out = o])
    BY <1>1, <2>2, ReaderType DEF Follows, IsReader
  <2> QED
    BY <1>1, <2>1, <2>2, <2>3 DEF IsReader, o
<1>2. CASE ~ r.ok
  <2>1. Store(r, path, v) = r
    BY <1>2 DEF Store
  <2> QED
    BY <1>2, <2>1, FollowsSelf
<1> QED
  BY <1>1, <1>2

LEMMA LocalType ==
  ASSUME NEW r, IsReader(r)
  PROVE  Local(r) \in Nat
  BY ReaderType, BytesAreNat, NumberType DEF Local

LEMMA ReadIs ==
  ASSUME NEW r, IsReader(r), NEW type \in Types, r.ok => Room(r, Width[type])
  PROVE  /\ Follows(r, Read(r, type)) /\ Read(r, type).out = r.out
         /\ Read(r, type).ok <=> r.ok /\ r.pos + Width[type] <= Len(r.data)
         /\ Read(r, type).ok =>
              /\ Read(r, type).pos = r.pos + Width[type]
              /\ Read(r, type).taken = Window(r.data, r.pos, Width[type])
              /\ Local(Read(r, type)) = NumberIn(r.data, r.pos, Width[type])
         /\ Local(Read(r, type)) \in Nat
<1> DEFINE s == Take(r, Width[type])
<1>1. /\ Follows(r, s) /\ s.out = r.out
      /\ s.ok <=> r.ok /\ r.pos + Width[type] <= Len(r.data)
      /\ s.ok => s.pos = r.pos + Width[type] /\ s.taken = Window(r.data, r.pos, Width[type])
  BY TakeIs
<1>2. Read(r, type) = s
  BY DEF Read
<1> HIDE DEF s
<1>3. Local(s) \in Nat
  BY <1>1, LocalType DEF Follows
<1> QED
  BY <1>1, <1>2, <1>3 DEF Local, NumberIn

LEMMA PutMember ==
  ASSUME NEW object, NEW m, NEW v
  PROVE  Put(object, <<m>>, v) = [object EXCEPT ![m] = v] /\ At(object, <<m>>) = object[m]
<1>1. <<m>> # <<>> /\ Len(<<m>>) = 1 /\ <<m>>[1] = m
  OBVIOUS
<1> QED
  BY <1>1 DEF Put, At

LEMMA PutElement ==
  ASSUME NEW object, NEW m, NEW i, NEW v
  PROVE  /\ Put(object, <<m, i>>, v) = [object EXCEPT ![m][i] = v]
         /\ At(object, <<m, i>>) = object[m][i]
<1>1. /\ <<m, i>> # <<>> /\ Len(<<m, i>>) = 2 /\ Len(<<m, i>>) # 1
      /\ <<m, i>>[1] = m /\ <<m, i>>[2] = i
  OBVIOUS
<1> QED
  BY <1>1 DEF Put, At

LEMMA PutWhole ==
  ASSUME NEW object, NEW v
  PROVE  Put(object, <<>>, v) = v /\ At(object, <<>>) = object
  BY DEF Put, At

LEMMA StoreMember ==
  ASSUME NEW r, IsReader(r), NEW member, NEW v
  PROVE  /\ Follows(r, Store(r, <<member>>, v))
         /\ Store(r, <<member>>, v).pos = r.pos
         /\ Store(r, <<member>>, v).taken = r.taken
         /\ Store(r, <<member>>, v).ok <=> r.ok
         /\ Store(r, <<member>>, v).out =
              IF r.ok THEN [r.out EXCEPT ![member] = v] ELSE r.out
<1>1. Put(r.out, <<member>>, v) = [r.out EXCEPT ![member] = v]
  BY PutMember
<1> QED
  BY <1>1, StoreIs

LEMMA ReadToIs ==
  ASSUME NEW r, IsReader(r), NEW type \in Types, r.ok => Room(r, Width[type]), NEW member
  PROVE  /\ Follows(r, ReadTo(r, type, member))
         /\ ReadTo(r, type, member).ok <=> r.ok /\ r.pos + Width[type] <= Len(r.data)
         /\ ReadTo(r, type, member).ok =>
              /\ ReadTo(r, type, member).pos = r.pos + Width[type]
              /\ ReadTo(r, type, member).out =
                   [r.out EXCEPT ![member] = NumberIn(r.data, r.pos, Width[type])]
         /\ ~ ReadTo(r, type, member).ok => ReadTo(r, type, member).out = r.out
<1> DEFINE s == Read(r, type)
           t == Store(s, <<member>>, Local(s))
<1>1. /\ Follows(r, s) /\ s.out = r.out
      /\ s.ok <=> r.ok /\ r.pos + Width[type] <= Len(r.data)
      /\ s.ok => s.pos = r.pos + Width[type]
                 /\ Local(s) = NumberIn(r.data, r.pos, Width[type])
  BY ReadIs
<1>2. ReadTo(r, type, member) = t
  BY DEF ReadTo
<1> HIDE DEF s
<1>3. /\ Follows(s, t) /\ t.pos = s.pos
      /\ t.ok <=> s.ok
      /\ t.out = IF s.ok THEN [s.out EXCEPT ![member] = Local(s)] ELSE s.out
  <2>1. IsReader(s)
    BY <1>1 DEF Follows
  <2> QED
    BY <2>1, StoreMember
<1> HIDE DEF t
<1>4. Follows(r, t)
  BY <1>1, <1>3, FollowsChain
<1> QED
  BY <1>1, <1>2, <1>3, <1>4

LEMMA ReadBoolIs ==
  ASSUME NEW r, IsReader(r), r.ok => Room(r, 1), NEW member
  PROVE  /\ Follows(r, ReadBool(r, member))
         /\ ReadBool(r, member).ok <=> r.ok /\ r.pos + 1 <= Len(r.data)
         /\ ReadBool(r, member).ok =>
              /\ ReadBool(r, member).pos = r.pos + 1
              /\ ReadBool(r, member).out =
                   [r.out EXCEPT ![member] = (NumberIn(r.data, r.pos, 1) # 0)]
         /\ ~ ReadBool(r, member).ok => ReadBool(r, member).out = r.out
<1> DEFINE s == Read(r, "u8")
           t == Store(s, <<member>>, Local(s) # 0)
<1>0. "u8" \in Types /\ Width["u8"] = 1
  BY WidthType DEF Types
<1>1. /\ Follows(r, s) /\ s.out = r.out
      /\ s.ok <=> r.ok /\ r.pos + 1 <= Len(r.data)
      /\ s.ok => s.pos = r.pos + 1 /\ Local(s) = NumberIn(r.data, r.pos, 1)
  BY <1>0, ReadIs
<1>2. ReadBool(r, member) = t
  BY DEF ReadBool
<1> HIDE DEF s
<1>3. /\ Follows(s, t) /\ t.pos = s.pos
      /\ t.ok <=> s.ok
      /\ t.out = IF s.ok THEN [s.out EXCEPT ![member] = (Local(s) # 0)] ELSE s.out
  <2>1. IsReader(s)
    BY <1>1 DEF Follows
  <2> QED
    BY <2>1, StoreMember
<1> HIDE DEF t
<1>4. Follows(r, t)
  BY <1>1, <1>3, FollowsChain
<1> QED
  BY <1>1, <1>2, <1>3, <1>4

LEMMA ReadBytesIs ==
  ASSUME NEW r, IsReader(r), NEW size, r.ok => Room(r, size), NEW member
  PROVE  /\ Follows(r, ReadBytes(r, size, member))
         /\ ReadBytes(r, size, member).ok <=> r.ok /\ r.pos + size <= Len(r.data)
         /\ ReadBytes(r, size, member).ok =>
              /\ ReadBytes(r, size, member).pos = r.pos + size
              /\ ReadBytes(r, size, member).out =
                   [r.out EXCEPT ![member] = Window(r.data, r.pos, size)]
         /\ ~ ReadBytes(r, size, member).ok => ReadBytes(r, size, member).out = r.out
<1> DEFINE s == Take(r, size)
           t == Store(s, <<member>>, s.taken)
<1>1. /\ Follows(r, s) /\ s.out = r.out
      /\ s.ok <=> r.ok /\ r.pos + size <= Len(r.data)
      /\ s.ok => s.pos = r.pos + size /\ s.taken = Window(r.data, r.pos, size)
  BY TakeIs
<1>2. ReadBytes(r, size, member) = t
  BY DEF ReadBytes
<1> HIDE DEF s
<1>3. /\ Follows(s, t) /\ t.pos = s.pos
      /\ t.ok <=> s.ok
      /\ t.out = IF s.ok THEN [s.out EXCEPT ![member] = s.taken] ELSE s.out
  <2>1. IsReader(s)
    BY <1>1 DEF Follows
  <2> QED
    BY <2>1, StoreMember
<1> HIDE DEF t
<1>4. Follows(r, t)
  BY <1>1, <1>3, FollowsChain
<1> QED
  BY <1>1, <1>2, <1>3, <1>4

\* A vector v after resize.
Sized(v, size, element) == [i \in 1..size |-> IF i <= Len(v) THEN v[i] ELSE element]

Resized(r, member, size, element) ==
  IF r.ok THEN [r.out EXCEPT ![member] = Sized(r.out[member], size, element)] ELSE r.out

LEMMA ResizeIs ==
  ASSUME NEW r, IsReader(r), NEW member, NEW size, NEW element
  PROVE  /\ Follows(r, Resize(r, member, size, element))
         /\ Resize(r, member, size, element).ok <=> r.ok
         /\ Resize(r, member, size, element).pos = r.pos
         /\ Resize(r, member, size, element).taken = r.taken
         /\ Resize(r, member, size, element).out = Resized(r, member, size, element)
<1> DEFINE o == [r.out EXCEPT ![member] = Sized(r.out[member], size, element)]
<1>1. CASE r.ok
  <2>1. Resize(r, member, size, element) = [r EXCEPT !.out = o]
    BY <1>1 DEF Resize, Sized
  <2> HIDE DEF o
  <2>2. IsReader([r EXCEPT !.out = o]) /\ [r EXCEPT !.out = o].out = o
    BY DEF IsReader
  <2>3. Follows(r, [r EXCEPT !.out = o])
    BY <1>1, <2>2, ReaderType DEF Follows, IsReader
  <2> QED
    BY <1>1, <2>1, <2>2, <2>3 DEF IsReader, Resized, o
<1>2. CASE ~ r.ok
  <2>1. Resize(r, member, size, element) = r
    BY <1>2 DEF Resize
  <2> QED
    BY <1>2, <2>1, FollowsSelf DEF Resized
<1> QED
  BY <1>1, <1>2

\* What is at the path in r.out when the first n of the members have been read.
Overwritten(r, path, members, n) ==
  [m \in DOMAIN At(r.out, path) |->
     IF \E i \in 1..n : members[i] = m
     THEN NumberIn(r.data,
            r.pos + ((CHOOSE i \in 1..n : members[i] = m) - 1) * DoubleWidth, DoubleWidth)
     ELSE At(r.out, path)[m]]

FittingDoubles(r, k) == {n \in 0..k : Fits(r, n * DoubleWidth)}

LEMMA ReadDoublesDef ==
  ASSUME NEW r, IsReader(r), r.ok, NEW path, NEW members, NEW k, Len(members) = k, NEW n,
         n = CHOOSE i \in FittingDoubles(r, k) : \A j \in FittingDoubles(r, k) : j <= i
  PROVE  LET s == ReadDoubles(r, path, members)
         IN /\ s.out = Put(r.out, path, Overwritten(r, path, members, n))
            /\ s.pos = r.pos + n * DoubleWidth
            /\ s.ok <=> n = k
            /\ s.ok \in BOOLEAN
            /\ s.taken = r.taken /\ s.data = r.data /\ s.inside = r.inside
            /\ s = [data |-> s.data, pos |-> s.pos, taken |-> s.taken, out |-> s.out,
                    ok |-> s.ok, inside |-> s.inside]
<1>1. ReadDoubles(r, path, members) =
        [r EXCEPT !.out = Put(r.out, path, Overwritten(r, path, members, n)),
                  !.pos = r.pos + n * DoubleWidth,
                  !.ok = (n = k)]
  BY DEF ReadDoubles, FittingDoubles, Overwritten, DoubleWidth, IsReader
<1> DEFINE o == Put(r.out, path, Overwritten(r, path, members, n))
           p == r.pos + n * DoubleWidth
<1> HIDE DEF o, p
<1>2. ReadDoubles(r, path, members) = [r EXCEPT !.out = o, !.pos = p, !.ok = (n = k)]
  BY <1>1 DEF o, p
<1> QED
  BY <1>2 DEF IsReader, o, p

LEMMA MostDoubles ==
  ASSUME NEW r, IsReader(r), NEW k \in Nat, Room(r, k * DoubleWidth)
  PROVE  \E n \in 0..k :
           /\ n \in FittingDoubles(r, k) /\ \A m \in FittingDoubles(r, k) : m <= n
           /\ \A m \in FittingDoubles(r, k) : r.pos + m * DoubleWidth <= Len(r.data)
           /\ n = k <=> r.pos + k * DoubleWidth <= Len(r.data)
<1> DEFINE F == FittingDoubles(r, k)
           T == {k - n : n \in F}
<1>1. DoubleWidth \in Nat
  BY WidthType
<1>2. ASSUME NEW n \in 0..k
      PROVE  n \in F <=> r.pos + n * DoubleWidth <= Len(r.data)
  <2>1. n * DoubleWidth \in Nat /\ n * DoubleWidth <= k * DoubleWidth
    <3>1. k - n \in Nat /\ n \in Nat
      OBVIOUS
    <3>2. (k - n) * DoubleWidth \in Nat /\ n * DoubleWidth \in Nat
      BY <1>1, <3>1
    <3>3. k * DoubleWidth = n * DoubleWidth + (k - n) * DoubleWidth
      BY <1>1, <3>1
    <3> QED
      BY <3>2, <3>3
  <2>2. Room(r, n * DoubleWidth)
    <3>1. SizeRange \in Nat
      BY PowerNext, WidthType DEF SizeRange
    <3>2. k * DoubleWidth \in Nat /\ Len(r.data) + k * DoubleWidth < SizeRange
      BY DEF Room
    <3> QED
      BY <2>1, <3>1, <3>2, ReaderType DEF Room
  <2> QED
    BY <2>2, FitsIs DEF FittingDoubles
<1>3. F \subseteq 0..k
  BY DEF FittingDoubles
<1>4. 0 \in F
  BY <1>1, <1>2, ReaderType
<1> HIDE DEF F
<1>5. T \subseteq Nat /\ T # {}
  BY <1>3, <1>4
<1>6. PICK d \in T : \A e \in T : d <= e
  <2> HIDE DEF T
  <2> QED
    BY <1>5, Least
<1>7. PICK n \in F : d = k - n
  BY <1>6
<1>8. \A m \in F : m <= n
  <2> SUFFICES ASSUME NEW m \in F PROVE m <= n
    OBVIOUS
  <2>1. k - m \in T
    OBVIOUS
  <2>2. k - n <= k - m
    BY <1>6, <1>7, <2>1
  <2> QED
    BY <1>3, <2>2
<1>9. n = k <=> k \in F
  BY <1>3, <1>7, <1>8
<1>10. k \in F <=> r.pos + k * DoubleWidth <= Len(r.data)
  BY <1>2
<1>11. \A m \in F : r.pos + m * DoubleWidth <= Len(r.data)
  BY <1>2, <1>3
<1> QED
  BY <1>3, <1>7, <1>8, <1>9, <1>10, <1>11 DEF F

LEMMA ReadDoublesIs ==
  ASSUME NEW r, IsReader(r), NEW path, NEW members, NEW k \in Nat, Len(members) = k,
         r.ok => Room(r, k * DoubleWidth)
  PROVE  /\ Follows(r, ReadDoubles(r, path, members))
         /\ ReadDoubles(r, path, members).taken = r.taken
         /\ ReadDoubles(r, path, members).ok
              <=> r.ok /\ r.pos + k * DoubleWidth <= Len(r.data)
         /\ ReadDoubles(r, path, members).ok =>
              /\ ReadDoubles(r, path, members).pos = r.pos + k * DoubleWidth
              /\ ReadDoubles(r, path, members).out
                   = Put(r.out, path, Overwritten(r, path, members, k))
         /\ ~ r.ok => ReadDoubles(r, path, members).out = r.out
         /\ r.ok => \E n \in 0..k :
              /\ r.pos + n * DoubleWidth <= Len(r.data)
              /\ ReadDoubles(r, path, members).out
                   = Put(r.out, path, Overwritten(r, path, members, n))
<1> DEFINE s == ReadDoubles(r, path, members)
<1>1. CASE ~ r.ok
  <2>1. s = r
    BY <1>1 DEF ReadDoubles
  <2> HIDE DEF s
  <2> QED
    BY <1>1, <2>1, FollowsSelf DEF s
<1>2. CASE r.ok
  <2> DEFINE F == FittingDoubles(r, k)
             n == CHOOSE i \in F : \A j \in F : j <= i
             o == Put(r.out, path, Overwritten(r, path, members, n))
  <2>1. PICK m \in 0..k :
          /\ m \in F /\ \A l \in F : l <= m
          /\ \A l \in F : r.pos + l * DoubleWidth <= Len(r.data)
          /\ m = k <=> r.pos + k * DoubleWidth <= Len(r.data)
    BY <1>2, MostDoubles
  <2>2. n \in F /\ \A l \in F : l <= n
    <3> HIDE DEF F
    <3> QED
      BY <2>1, Zenon
  <2>3. F \subseteq 0..k
    BY DEF FittingDoubles
  <2>4. /\ s.out = o /\ s.pos = r.pos + n * DoubleWidth
        /\ s.ok <=> n = k
        /\ s.ok \in BOOLEAN
        /\ s.taken = r.taken /\ s.data = r.data /\ s.inside = r.inside
        /\ s = [data |-> s.data, pos |-> s.pos, taken |-> s.taken, out |-> s.out,
                ok |-> s.ok, inside |-> s.inside]
    <3>1. n = CHOOSE i \in FittingDoubles(r, k) : \A j \in FittingDoubles(r, k) : j <= i
      OBVIOUS
    <3> HIDE DEF n
    <3> QED
      BY <1>2, <3>1, ReadDoublesDef
  <2> HIDE DEF s, F, n
  <2>5. n = m
    BY <2>1, <2>2, <2>3
  <2>6. n \in 0..k /\ r.pos + n * DoubleWidth <= Len(r.data)
    BY <2>1, <2>2, <2>3
  <2>7. n = k <=> r.pos + k * DoubleWidth <= Len(r.data)
    BY <2>1, <2>5
  <2>8. r.pos + n * DoubleWidth \in 0..Len(r.data) /\ r.pos <= r.pos + n * DoubleWidth
    <3>1. n * DoubleWidth \in Nat
      BY <2>6, WidthType
    <3> QED
      BY <2>6, <3>1, ReaderType
  <2> HIDE DEF o
  <2>9. IsReader(s)
    BY <2>4, <2>8, ReaderType DEF IsReader
  <2>10. Follows(r, s)
    BY <1>2, <2>4, <2>8, <2>9 DEF Follows
  <2>11. s.ok => /\ s.pos = r.pos + k * DoubleWidth
                 /\ s.out = Put(r.out, path, Overwritten(r, path, members, k))
    BY <2>4 DEF o
  <2>12. s.out = Put(r.out, path, Overwritten(r, path, members, n))
    BY <2>4 DEF o
  <2> QED
    BY <1>2, <2>4, <2>6, <2>7, <2>10, <2>11, <2>12 DEF s
<1> QED
  BY <1>1, <1>2

\* A member that is named once is overwritten by its double.
LEMMA OverwrittenMember ==
  ASSUME NEW r, NEW path, NEW members, NEW k \in Nat, NEW i \in 1..k,
         members[i] \in DOMAIN At(r.out, path),
         \A j \in 1..k : members[j] = members[i] => j = i
  PROVE  Overwritten(r, path, members, k)[members[i]]
           = NumberIn(r.data, r.pos + (i - 1) * DoubleWidth, DoubleWidth)
<1>1. (CHOOSE j \in 1..k : members[j] = members[i]) = i
  BY Zenon
<1> QED
  BY <1>1, Zenon DEF Overwritten

LEMMA OverwrittenOther ==
  ASSUME NEW r, NEW path, NEW members, NEW k \in Nat, NEW m \in DOMAIN At(r.out, path),
         \A j \in 1..k : members[j] # m
  PROVE  Overwritten(r, path, members, k)[m] = At(r.out, path)[m]
  BY Zenon DEF Overwritten

LEMMA OverwrittenType ==
  ASSUME NEW r, IsReader(r), NEW path, NEW members, NEW n \in Nat,
         r.pos + n * DoubleWidth <= Len(r.data)
  PROVE  /\ DOMAIN Overwritten(r, path, members, n) = DOMAIN At(r.out, path)
         /\ \A m \in DOMAIN At(r.out, path) :
              \/ Overwritten(r, path, members, n)[m] \in Number("f64")
              \/ Overwritten(r, path, members, n)[m] = At(r.out, path)[m]
<1> DEFINE o == Overwritten(r, path, members, n)
<1>1. DOMAIN o = DOMAIN At(r.out, path)
  BY DEF Overwritten
<1>2. ASSUME NEW m \in DOMAIN At(r.out, path), \E i \in 1..n : members[i] = m
      PROVE  o[m] \in Number("f64")
  <2> DEFINE i == CHOOSE i \in 1..n : members[i] = m
             p == r.pos + (i - 1) * DoubleWidth
  <2>1. i \in 1..n
    BY <1>2
  <2>2. o[m] = NumberIn(r.data, p, DoubleWidth)
    BY <1>2, Zenon DEF Overwritten
  <2> HIDE DEF i, o
  <2>3. DoubleWidth \in Nat
    BY WidthType
  <2>4. /\ (i - 1) * DoubleWidth \in Nat
        /\ (i - 1) * DoubleWidth + DoubleWidth <= n * DoubleWidth
        /\ n * DoubleWidth \in Nat
    BY <2>1, <2>3, RowIn
  <2>5. p \in Nat /\ p + DoubleWidth <= Len(r.data)
    BY <2>3, <2>4, ReaderType
  <2> HIDE DEF p
  <2> QED
    BY <2>2, <2>3, <2>5, NumberInType, ReaderType DEF Number, DoubleWidth
<1>3. ASSUME NEW m \in DOMAIN At(r.out, path), ~ \E i \in 1..n : members[i] = m
      PROVE  o[m] = At(r.out, path)[m]
  BY <1>3, Zenon DEF Overwritten
<1> QED
  BY <1>1, <1>2, <1>3
=============================================================================
