----------------------------- MODULE CodecProofs -----------------------------
(***************************************************************************)
(* Proofs about CodecSession: what each deserializer does with any bytes   *)
(* at all, with the bytes of its serializer, and with their beginning.     *)
(***************************************************************************)
EXTENDS CodecSession, ByteBufferProofs

-----------------------------------------------------------------------------
(***************************************************************************)
(* Readers whose every read is counted without an overflow.                *)
(***************************************************************************)
Sound(r) == IsReader(r) /\ Len(r.data) + LongestRead < SizeRange

LEMMA LimitsType ==
  /\ MaxJoints \in Nat /\ MaxPoses \in Nat /\ MaxText \in Nat /\ CountWidth \in Nat \ {0}
  /\ MaxJoints \in Byte /\ MaxPoses < Power(CountWidth) /\ MaxText < SizeRange
  /\ SizeRange \in Nat
<1>1. SizeRange \in Nat /\ Power(CountWidth) \in Nat
  BY LimitsAssumption, PowerNext, WidthType DEF SizeRange
<1> QED
  BY <1>1, LimitsAssumption, BaseType DEF Byte

LEMMA SoundRoom ==
  ASSUME NEW r, Sound(r)
  PROVE  /\ Room(r, Width["u8"]) /\ Room(r, 1) /\ Room(r, Width["u64"])
         /\ Room(r, Width["f64"]) /\ Room(r, CountWidth)
         /\ \A n \in 0..MaxText : Room(r, n)
         /\ \A n \in 0..(MaxJoints + 7) : Room(r, n * DoubleWidth)
<1> DEFINE w == DoubleWidth
           all == (MaxJoints + 7) * w
<1>1. /\ w \in Nat \ {0} /\ Width["u64"] \in Nat \ {0} /\ Width["u8"] = 1
      /\ MaxJoints \in Nat /\ MaxText \in Nat /\ CountWidth \in Nat \ {0}
      /\ SizeRange \in Nat
  BY WidthType, LimitsType
<1>2. ASSUME NEW n \in 0..(MaxJoints + 7)
      PROVE  n * w \in Nat /\ n * w <= all /\ all \in Nat
  <2>1. n = 0 => n * w = 0
    BY <1>1
  <2>2. all \in Nat
    BY <1>1
  <2>3. n # 0 => n * w \in Nat /\ n * w <= all
    <3>1. MaxJoints + 7 \in Nat
      BY <1>1
    <3> QED
      BY <1>1, <3>1, RowIn
  <2> QED
    BY <2>1, <2>2, <2>3
<1>3. 1 * w = w /\ 1 \in 0..(MaxJoints + 7)
  BY <1>1
<1>4. w <= all /\ all \in Nat
  BY <1>2, <1>3
<1>5. IsReader(r) /\ Len(r.data) + (MaxText + CountWidth + Width["u64"] + all) < SizeRange
  BY DEF Sound, LongestRead, DoubleWidth
<1>6. Len(r.data) \in Nat
  BY <1>5, ReaderType
<1>7. w = Width["f64"]
  BY DEF DoubleWidth
<1> HIDE DEF w, all
<1>8. ASSUME NEW n \in 0..(MaxJoints + 7)
      PROVE  Room(r, n * w)
  <2> DEFINE x == n * w
  <2>1. x \in Nat /\ x <= all /\ all \in Nat
    BY <1>2
  <2> HIDE DEF x
  <2>2. x \in Nat /\ Len(r.data) + x < SizeRange
    BY <1>1, <1>5, <1>6, <2>1
  <2> QED
    BY <2>2 DEF Room, x
<1>9. /\ Room(r, 1) /\ Room(r, Width["u64"]) /\ Room(r, w) /\ Room(r, CountWidth)
  BY <1>1, <1>4, <1>5, <1>6, SMTT(20) DEF Room
<1>10. \A n \in 0..MaxText : Room(r, n)
  BY <1>1, <1>4, <1>5, <1>6 DEF Room
<1> QED
  BY <1>1, <1>7, <1>8, <1>9, <1>10 DEF w

LEMMA SoundFollows ==
  ASSUME NEW r, NEW s, Sound(r), Follows(r, s)
  PROVE  Sound(s)
  BY Zenon DEF Sound, Follows

LEMMA SoundReader ==
  ASSUME NEW data \in Seq(Byte), NEW o, Len(data) + LongestRead < SizeRange
  PROVE  /\ Sound(Reader(data, o))
         /\ Reader(data, o).data = data /\ Reader(data, o).pos = 0
         /\ Reader(data, o).out = o
         /\ Reader(data, o).ok = TRUE /\ Reader(data, o).inside = TRUE
<1>1. /\ IsReader(Reader(data, o))
      /\ Reader(data, o).data = data /\ Reader(data, o).pos = 0
      /\ Reader(data, o).out = o
      /\ Reader(data, o).ok = TRUE /\ Reader(data, o).inside = TRUE
  BY ReaderIs
<1>2. Len(Reader(data, o).data) + LongestRead < SizeRange
  BY <1>1
<1> QED
  BY <1>1, <1>2, Zenon DEF Sound

-----------------------------------------------------------------------------
(***************************************************************************)
(* The parts of the messages.                                              *)
(***************************************************************************)
LEMMA ReadByteIs ==
  ASSUME NEW r, Sound(r)
  PROVE  /\ Follows(r, Read(r, "u8")) /\ Sound(Read(r, "u8"))
         /\ Read(r, "u8").out = r.out
         /\ Read(r, "u8").ok <=> r.ok /\ r.pos + 1 <= Len(r.data)
         /\ Read(r, "u8").ok =>
              /\ Read(r, "u8").pos = r.pos + 1
              /\ Local(Read(r, "u8")) = NumberIn(r.data, r.pos, 1)
              /\ NumberIn(r.data, r.pos, 1) \in Byte
         /\ Local(Read(r, "u8")) \in Nat
<1>1. IsReader(r) /\ Room(r, Width["u8"]) /\ Width["u8"] = 1 /\ "u8" \in Types
  BY SoundRoom, WidthType DEF Sound, Types
<1>2. /\ Follows(r, Read(r, "u8")) /\ Read(r, "u8").out = r.out
      /\ Read(r, "u8").ok <=> r.ok /\ r.pos + 1 <= Len(r.data)
      /\ Read(r, "u8").ok =>
           /\ Read(r, "u8").pos = r.pos + 1
           /\ Local(Read(r, "u8")) = NumberIn(r.data, r.pos, 1)
      /\ Local(Read(r, "u8")) \in Nat
  BY <1>1, ReadIs
<1>3. Sound(Read(r, "u8"))
  BY <1>2, SoundFollows
<1>4. ASSUME r.pos + 1 <= Len(r.data)
      PROVE  NumberIn(r.data, r.pos, 1) \in Byte
  <2>1. r.data \in Seq(Byte) /\ r.pos \in Nat
    BY <1>1, ReaderType
  <2>2. Power(1) = Base
    <3>1. 0 \in Nat /\ 0 + 1 = 1
      OBVIOUS
    <3>2. Power(1) = Base * 1
      BY <3>1, PowerNext
    <3> QED
      BY <3>2, BaseType
  <2> QED
    BY <1>4, <2>1, <2>2, NumberInType DEF Byte
<1> QED
  BY <1>2, <1>3, <1>4

LEMMA ReadVersionIs ==
  ASSUME NEW r, Sound(r)
  PROVE  /\ Follows(r, ReadVersion(r)) /\ Sound(ReadVersion(r))
         /\ ReadVersion(r).out = r.out
         /\ ReadVersion(r).ok <=> /\ r.ok /\ r.pos + 1 <= Len(r.data)
                                  /\ NumberIn(r.data, r.pos, 1) = Version
         /\ ReadVersion(r).ok => ReadVersion(r).pos = r.pos + 1
<1> DEFINE s == Read(r, "u8")
           c == Local(s) = Version
           t == Require(s, c)
<1>1. /\ Follows(r, s) /\ Sound(s) /\ s.out = r.out
      /\ s.ok <=> r.ok /\ r.pos + 1 <= Len(r.data)
      /\ s.ok => s.pos = r.pos + 1 /\ Local(s) = NumberIn(r.data, r.pos, 1)
  BY ReadByteIs
<1>2. IsReader(r) /\ IsReader(s) /\ c \in BOOLEAN
  BY <1>1 DEF Sound
<1>3. ReadVersion(r) = t
  BY DEF ReadVersion
<1>4. c <=> Local(s) = Version
  OBVIOUS
<1> HIDE DEF s, c
<1>5. /\ Follows(s, t) /\ t.out = s.out /\ t.pos = s.pos
      /\ t.ok <=> s.ok /\ c
  BY <1>2, RequireIs
<1> HIDE DEF t
<1>6. Follows(r, t)
  BY <1>1, <1>2, <1>5, FollowsChain
<1>7. Sound(t)
  BY <1>6, SoundFollows
<1> QED
  BY <1>1, <1>3, <1>4, <1>5, <1>6, <1>7

DoubleAt(d, p, i) == NumberIn(d, p + (i - 1) * DoubleWidth, DoubleWidth)

PoseMembers == <<"px", "py", "pz", "ow", "ox", "oy", "oz">>

PoseAt(d, p) ==
  [px |-> DoubleAt(d, p, 1), py |-> DoubleAt(d, p, 2), pz |-> DoubleAt(d, p, 3),
   ow |-> DoubleAt(d, p, 4), ox |-> DoubleAt(d, p, 5), oy |-> DoubleAt(d, p, 6),
   oz |-> DoubleAt(d, p, 7)]

LEMMA PoseFunction ==
  ASSUME NEW f, f = [m \in DOMAIN f |-> f[m]],
         DOMAIN f = {"px", "py", "pz", "ow", "ox", "oy", "oz"}
  PROVE  f = [px |-> f["px"], py |-> f["py"], pz |-> f["pz"], ow |-> f["ow"],
              ox |-> f["ox"], oy |-> f["oy"], oz |-> f["oz"]]
  OBVIOUS

LEMMA OverwrittenPose ==
  ASSUME NEW r, IsReader(r), NEW path, At(r.out, path) \in Pose, NEW n \in 0..7,
         r.pos + n * DoubleWidth <= Len(r.data)
  PROVE  /\ Overwritten(r, path, PoseMembers, n) \in Pose
         /\ n = 7 => Overwritten(r, path, PoseMembers, n) = PoseAt(r.data, r.pos)
<1> DEFINE f == Overwritten(r, path, PoseMembers, n)
           names == {"px", "py", "pz", "ow", "ox", "oy", "oz"}
<1>1. /\ DOMAIN At(r.out, path) = names
      /\ \A m \in names : At(r.out, path)[m] \in Double
  BY DEF Pose
<1>2. /\ DOMAIN f = DOMAIN At(r.out, path)
      /\ \A m \in DOMAIN At(r.out, path) :
           f[m] \in Number("f64") \/ f[m] = At(r.out, path)[m]
  BY OverwrittenType
<1>3. DOMAIN f = names /\ \A m \in names : f[m] \in Double
  BY <1>1, <1>2 DEF Double
<1>4. f = [m \in DOMAIN f |-> f[m]]
  BY DEF Overwritten
<1>5. ASSUME n = 7, NEW i \in 1..7
      PROVE  f[PoseMembers[i]] = DoubleAt(r.data, r.pos, i)
  <2>1. PoseMembers[i] \in names /\ \A j \in 1..7 : PoseMembers[j] = PoseMembers[i] => j = i
    BY DEF PoseMembers
  <2>2. i \in 1..n /\ n \in Nat
    BY <1>5
  <2>3. \A j \in 1..n : PoseMembers[j] = PoseMembers[i] => j = i
    BY <1>5, <2>1
  <2> QED
    BY <1>1, <2>1, <2>2, <2>3, OverwrittenMember, SMTT(20) DEF DoubleAt
<1> HIDE DEF f
<1>6. f = [px |-> f["px"], py |-> f["py"], pz |-> f["pz"], ow |-> f["ow"],
           ox |-> f["ox"], oy |-> f["oy"], oz |-> f["oz"]]
  BY <1>3, <1>4, PoseFunction
<1>7. f \in Pose
  BY <1>3, <1>6 DEF Pose
<1>8. CASE n = 7
  <2>1. /\ PoseMembers[1] = "px" /\ PoseMembers[2] = "py" /\ PoseMembers[3] = "pz"
        /\ PoseMembers[4] = "ow" /\ PoseMembers[5] = "ox" /\ PoseMembers[6] = "oy"
        /\ PoseMembers[7] = "oz"
    BY DEF PoseMembers
  <2>2. /\ f["px"] = DoubleAt(r.data, r.pos, 1) /\ f["py"] = DoubleAt(r.data, r.pos, 2)
        /\ f["pz"] = DoubleAt(r.data, r.pos, 3) /\ f["ow"] = DoubleAt(r.data, r.pos, 4)
        /\ f["ox"] = DoubleAt(r.data, r.pos, 5) /\ f["oy"] = DoubleAt(r.data, r.pos, 6)
        /\ f["oz"] = DoubleAt(r.data, r.pos, 7)
    BY <1>5, <1>8, <2>1
  <2>3. f = PoseAt(r.data, r.pos)
    BY <1>6, <2>2, Zenon DEF PoseAt
  <2> QED
    BY <1>7, <2>3 DEF f
<1> QED
  BY <1>7, <1>8 DEF f

\* What deserializePose does to what is at the path.
LEMMA PoseIs ==
  ASSUME NEW r, Sound(r), NEW path, At(r.out, path) \in Pose
  PROVE  /\ Follows(r, deserializePose(r, path)) /\ Sound(deserializePose(r, path))
         /\ deserializePose(r, path).taken = r.taken
         /\ deserializePose(r, path).ok <=> r.ok /\ r.pos + 7 * DoubleWidth <= Len(r.data)
         /\ deserializePose(r, path).ok =>
              /\ deserializePose(r, path).pos = r.pos + 7 * DoubleWidth
              /\ deserializePose(r, path).out = Put(r.out, path, PoseAt(r.data, r.pos))
              /\ PoseAt(r.data, r.pos) \in Pose
         /\ ~ r.ok => deserializePose(r, path).out = r.out
         /\ r.ok => \E p \in Pose : deserializePose(r, path).out = Put(r.out, path, p)
<1> DEFINE s == deserializePose(r, path)
           o(n) == Overwritten(r, path, PoseMembers, n)
<1>0. s = ReadDoubles(r, path, PoseMembers)
  BY DEF deserializePose, PoseMembers
<1>1. IsReader(r) /\ 7 \in 0..(MaxJoints + 7) /\ 7 \in Nat /\ Len(PoseMembers) = 7
  BY LimitsType DEF Sound, PoseMembers
<1>2. Room(r, 7 * DoubleWidth)
  BY <1>1, SoundRoom
<1>3. /\ Follows(r, s) /\ s.taken = r.taken
      /\ s.ok <=> r.ok /\ r.pos + 7 * DoubleWidth <= Len(r.data)
      /\ s.ok => s.pos = r.pos + 7 * DoubleWidth /\ s.out = Put(r.out, path, o(7))
      /\ ~ r.ok => s.out = r.out
      /\ r.ok => \E n \in 0..7 : r.pos + n * DoubleWidth <= Len(r.data)
                                 /\ s.out = Put(r.out, path, o(n))
  <2> DEFINE k == 7
  <2>1. k \in Nat /\ Len(PoseMembers) = k /\ Room(r, k * DoubleWidth)
    BY <1>1, <1>2
  <2> HIDE DEF s, o, k
  <2>2. /\ Follows(r, s) /\ s.taken = r.taken
        /\ s.ok <=> r.ok /\ r.pos + k * DoubleWidth <= Len(r.data)
        /\ s.ok => /\ s.pos = r.pos + k * DoubleWidth
                   /\ s.out = Put(r.out, path, Overwritten(r, path, PoseMembers, k))
        /\ ~ r.ok => s.out = r.out
        /\ r.ok => \E n \in 0..k :
             /\ r.pos + n * DoubleWidth <= Len(r.data)
             /\ s.out = Put(r.out, path, Overwritten(r, path, PoseMembers, n))
    BY <1>0, <1>1, <2>1, ReadDoublesIs, SMTT(20)
  <2> QED
    BY <2>2 DEF k, o
<1> HIDE DEF s, o
<1>4. ASSUME NEW n \in 0..7, r.pos + n * DoubleWidth <= Len(r.data)
      PROVE  o(n) \in Pose /\ (n = 7 => o(n) = PoseAt(r.data, r.pos))
  BY <1>1, <1>4, OverwrittenPose DEF o
<1>5. s.ok => o(7) \in Pose /\ o(7) = PoseAt(r.data, r.pos)
  BY <1>3, <1>4
<1>6. r.ok => \E p \in Pose : s.out = Put(r.out, path, p)
  BY <1>3, <1>4
<1>7. Sound(s)
  BY <1>3, SoundFollows
<1>8. s.ok => /\ s.out = Put(r.out, path, PoseAt(r.data, r.pos))
              /\ PoseAt(r.data, r.pos) \in Pose
  BY <1>3, <1>5
<1> QED
  BY <1>3, <1>6, <1>7, <1>8 DEF s

-----------------------------------------------------------------------------
(***************************************************************************)
(* Objects with a member replaced.                                         *)
(***************************************************************************)
With(o, member, v) == [o EXCEPT ![member] = v]

LEMMA PutWith ==
  ASSUME NEW o, NEW member, NEW v
  PROVE  Put(o, <<member>>, v) = With(o, member, v) /\ At(o, <<member>>) = o[member]
  BY PutMember DEF With

LEMMA WithMember ==
  ASSUME NEW o, NEW member \in DOMAIN o, NEW v
  PROVE  With(o, member, v)[member] = v /\ DOMAIN With(o, member, v) = DOMAIN o
  BY DEF With

LEMMA WithTwice ==
  ASSUME NEW o, NEW member, NEW v, NEW w
  PROVE  With(With(o, member, v), member, w) = With(o, member, w)
  BY DEF With

LEMMA DoubleType ==
  /\ 0 \in Double /\ Double \subseteq Nat
  /\ \A d \in Seq(Byte) : \A p \in Nat : \A n \in Nat : \A i \in 1..n :
       p + n * DoubleWidth <= Len(d) => DoubleAt(d, p, i) \in Double
<1>1. "f64" \in Types /\ DoubleWidth \in Nat
  BY WidthType DEF Types
<1>2. Power(DoubleWidth) \in Nat \ {0} /\ Double = 0..(Power(DoubleWidth) - 1)
  BY <1>1, PowerNext DEF Double, Number, DoubleWidth
<1>3. 0 \in Double /\ Double \subseteq Nat
  BY <1>2
<1>4. ASSUME NEW d \in Seq(Byte), NEW p \in Nat, NEW n \in Nat, NEW i \in 1..n,
             p + n * DoubleWidth <= Len(d)
      PROVE  DoubleAt(d, p, i) \in Double
  <2> DEFINE q == (i - 1) * DoubleWidth
             all == n * DoubleWidth
  <2>1. q \in Nat /\ q + DoubleWidth <= all /\ all \in Nat
    BY <1>1, RowIn
  <2>2. p + all <= Len(d) /\ Len(d) \in Nat
    BY <1>4
  <2> HIDE DEF q, all
  <2>3. p + q \in Nat /\ (p + q) + DoubleWidth <= Len(d)
    BY <1>1, <2>1, <2>2
  <2>4. NumberIn(d, p + q, DoubleWidth) \in 0..(Power(DoubleWidth) - 1)
    BY <1>1, <2>3, NumberInType
  <2> QED
    BY <1>2, <2>4 DEF DoubleAt, q
<1> QED
  BY <1>3, <1>4

\* Doubles read into a vector that has room for them.
LEMMA OverwrittenVector ==
  ASSUME NEW r, IsReader(r), NEW path, NEW n \in Nat, At(r.out, path) \in Seq(Double),
         Len(At(r.out, path)) = n, NEW k \in 0..n, r.pos + k * DoubleWidth <= Len(r.data)
  PROVE  /\ Overwritten(r, path, Indices(n), k) \in Seq(Double)
         /\ Len(Overwritten(r, path, Indices(n), k)) = n
         /\ \A i \in 1..k :
              Overwritten(r, path, Indices(n), k)[i] = DoubleAt(r.data, r.pos, i)
<1> DEFINE f == Overwritten(r, path, Indices(n), k)
           a == At(r.out, path)
<1>1. DOMAIN a = 1..n /\ \A i \in 1..n : a[i] \in Double
  OBVIOUS
<1>2. k \in Nat
  OBVIOUS
<1>3. /\ DOMAIN f = DOMAIN a
      /\ \A m \in DOMAIN a : f[m] \in Number("f64") \/ f[m] = a[m]
  <2> HIDE DEF f
  <2> QED
    BY <1>2, OverwrittenType DEF f
<1>4. f = [m \in DOMAIN f |-> f[m]]
  BY DEF Overwritten
<1>5. ASSUME NEW i \in 1..k
      PROVE  f[i] = DoubleAt(r.data, r.pos, i)
  <2>1. Indices(n)[i] = i /\ i \in DOMAIN a /\ \A j \in 1..k : Indices(n)[j] = i => j = i
    BY <1>1 DEF Indices
  <2> QED
    BY <1>2, <2>1, OverwrittenMember DEF DoubleAt
<1> HIDE DEF f, a
<1>6. DOMAIN f = 1..n /\ \A i \in 1..n : f[i] \in Double
  BY <1>1, <1>3 DEF Double
<1>7. f \in [1..n -> Double]
  BY <1>4, <1>6
<1>8. f \in Seq(Double) /\ Len(f) = n
  BY <1>6, <1>7
<1> QED
  BY <1>5, <1>8 DEF f

Grown(r, s, member, n, e) ==
  /\ Follows(r, s) /\ Sound(s) /\ s.ok = TRUE /\ s.pos = r.pos
  /\ s.out = With(r.out, member, Sized(r.out[member], n, e))

LEMMA SizedType ==
  ASSUME NEW S, NEW v \in Seq(S), NEW n \in Nat, NEW e \in S
  PROVE  Sized(v, n, e) \in Seq(S) /\ Len(Sized(v, n, e)) = n
<1>1. \A i \in 1..n : (IF i <= Len(v) THEN v[i] ELSE e) \in S
  OBVIOUS
<1>2. Sized(v, n, e) \in [1..n -> S]
  BY <1>1 DEF Sized
<1> QED
  BY <1>2

LEMMA SizedNumbers ==
  /\ \A v \in Seq(Byte) : \A n \in Nat :
       Sized(v, n, 0) \in Seq(Byte) /\ Len(Sized(v, n, 0)) = n
  /\ \A v \in Seq(Double) : \A n \in Nat :
       Sized(v, n, 0) \in Seq(Double) /\ Len(Sized(v, n, 0)) = n
<1> DEFINE e == 0
           S == Byte
           T == Double
<1>1. e \in S /\ e \in T
  BY DoubleType, BaseType DEF Byte
<1> HIDE DEF e, S, T
<1>2. \A v \in Seq(S) : \A n \in Nat : Sized(v, n, e) \in Seq(S) /\ Len(Sized(v, n, e)) = n
  BY <1>1, SizedType
<1>3. \A v \in Seq(T) : \A n \in Nat : Sized(v, n, e) \in Seq(T) /\ Len(Sized(v, n, e)) = n
  BY <1>1, SizedType
<1> QED
  BY <1>2, <1>3 DEF e, S, T

\* A vector member resized.
LEMMA ResizeWith ==
  ASSUME NEW r, Sound(r), r.ok, NEW member, NEW n, NEW e
  PROVE  Grown(r, Resize(r, member, n, e), member, n, e)
<1>1. IsReader(r) /\ r.ok = TRUE
  BY ReaderType DEF Sound
<1>2. /\ Follows(r, Resize(r, member, n, e))
      /\ Resize(r, member, n, e).ok <=> r.ok
      /\ Resize(r, member, n, e).pos = r.pos
      /\ Resize(r, member, n, e).out = Resized(r, member, n, e)
  BY <1>1, ResizeIs
<1>3. Resized(r, member, n, e) = With(r.out, member, Sized(r.out[member], n, e))
  BY DEF Resized, With
<1>4. Sound(Resize(r, member, n, e))
  BY <1>2, SoundFollows
<1>5. Resize(r, member, n, e).ok = TRUE
  BY <1>1, <1>2, <1>4, ReaderType DEF Sound
<1> QED
  BY <1>2, <1>3, <1>4, <1>5 DEF Grown

\* A vector read into a member, which is the start of the data for the first k.
Vector(d, p, n, v) ==
  v \in Seq(Double) /\ Len(v) = n /\ \A i \in 1..n : v[i] = DoubleAt(d, p, i)

LEMMA ReadVectorIs ==
  ASSUME NEW r, Sound(r), r.ok, NEW member \in DOMAIN r.out, NEW n \in 0..MaxJoints,
         r.out[member] \in Seq(Double), Len(r.out[member]) = n
  PROVE  LET s == ReadDoubles(r, <<member>>, Indices(n))
         IN /\ Follows(r, s) /\ Sound(s)
            /\ s.ok <=> r.pos + n * DoubleWidth <= Len(r.data)
            /\ s.ok => /\ s.pos = r.pos + n * DoubleWidth
                       /\ \E v : Vector(r.data, r.pos, n, v) /\ s.out = With(r.out, member, v)
            /\ \E v \in Seq(Double) : Len(v) = n /\ s.out = With(r.out, member, v)
<1> DEFINE s == ReadDoubles(r, <<member>>, Indices(n))
           o(k) == Overwritten(r, <<member>>, Indices(n), k)
<1>1. /\ IsReader(r) /\ n \in Nat /\ Len(Indices(n)) = n /\ n \in 0..(MaxJoints + 7)
  BY LimitsType DEF Sound, Indices
<1>2. Room(r, n * DoubleWidth)
  BY <1>1, SoundRoom
<1>3. /\ Follows(r, s)
      /\ s.ok <=> r.ok /\ r.pos + n * DoubleWidth <= Len(r.data)
      /\ s.ok => /\ s.pos = r.pos + n * DoubleWidth
                 /\ s.out = Put(r.out, <<member>>, o(n))
      /\ r.ok => \E k \in 0..n :
           /\ r.pos + k * DoubleWidth <= Len(r.data)
           /\ s.out = Put(r.out, <<member>>, o(k))
  BY <1>1, <1>2, ReadDoublesIs, ZenonT(40)
<1>4. At(r.out, <<member>>) \in Seq(Double) /\ Len(At(r.out, <<member>>)) = n
  BY PutWith
<1>5. ASSUME NEW k \in 0..n, r.pos + k * DoubleWidth <= Len(r.data)
      PROVE  /\ o(k) \in Seq(Double) /\ Len(o(k)) = n
             /\ \A i \in 1..k : o(k)[i] = DoubleAt(r.data, r.pos, i)
  BY <1>1, <1>4, <1>5, OverwrittenVector
<1>6. \A v : Put(r.out, <<member>>, v) = With(r.out, member, v)
  BY PutWith
<1> HIDE DEF s, o
<1>7. Sound(s)
  BY <1>3, SoundFollows
<1>8. \E v \in Seq(Double) : Len(v) = n /\ s.out = With(r.out, member, v)
  BY <1>3, <1>5, <1>6
<1>9. s.ok => \E v : Vector(r.data, r.pos, n, v) /\ s.out = With(r.out, member, v)
  <2> SUFFICES ASSUME s.ok
               PROVE  Vector(r.data, r.pos, n, o(n)) /\ s.out = With(r.out, member, o(n))
    OBVIOUS
  <2>1. n \in 0..n /\ r.pos + n * DoubleWidth <= Len(r.data)
    BY <1>1, <1>3
  <2> QED
    BY <1>3, <1>5, <1>6, <2>1 DEF Vector
<1> QED
  BY <1>3, <1>7, <1>8, <1>9 DEF s

\* ReadJoints: either the count is not there or too large, or the member becomes a
\* vector of that length.
LEMMA ReadJointsIs ==
  ASSUME NEW r, Sound(r), NEW member \in DOMAIN r.out, r.out[member] \in Seq(Double)
  PROVE  LET s == ReadJoints(r, member)
             n == NumberIn(r.data, r.pos, 1)
         IN /\ Follows(r, s) /\ Sound(s)
            /\ s.ok <=> /\ r.ok /\ r.pos + 1 <= Len(r.data) /\ n <= MaxJoints
                        /\ (r.pos + 1) + n * DoubleWidth <= Len(r.data)
            /\ s.ok => /\ s.pos = (r.pos + 1) + n * DoubleWidth
                       /\ n \in 0..MaxJoints
                       /\ \E v : /\ Vector(r.data, r.pos + 1, n, v)
                                 /\ s.out = With(r.out, member, v)
            /\ \/ s.out = r.out
               \/ \E v \in Seq(Double) : Len(v) <= MaxJoints /\ s.out = With(r.out, member, v)
<1> DEFINE c == Read(r, "u8")
           n == Local(c)
           l == n <= MaxJoints
           d == Require(c, l)
           e == Resize(d, member, n, 0)
           s == ReadDoubles(e, <<member>>, Indices(n))
<1>1. s = ReadJoints(r, member)
  BY DEF ReadJoints
<1>2. /\ Follows(r, c) /\ Sound(c) /\ c.out = r.out /\ n \in Nat
      /\ c.ok <=> r.ok /\ r.pos + 1 <= Len(r.data)
      /\ c.ok => c.pos = r.pos + 1 /\ n = NumberIn(r.data, r.pos, 1)
  BY ReadByteIs
<1> HIDE DEF c
<1>3. IsReader(r) /\ IsReader(c) /\ l \in BOOLEAN /\ c.data = r.data
  BY <1>2 DEF Sound, Follows
<1> HIDE DEF n
<1>l. l <=> n <= MaxJoints
  OBVIOUS
<1> HIDE DEF l
<1>4. /\ Follows(c, d) /\ d.out = c.out /\ d.pos = c.pos
      /\ d.ok <=> c.ok /\ n <= MaxJoints
  <2>1. /\ Follows(c, d) /\ d.out = c.out /\ d.pos = c.pos
        /\ d.ok <=> c.ok /\ l
    BY <1>3, RequireIs
  <2> QED
    BY <2>1, <1>l
<1> HIDE DEF d
<1>5. Follows(r, d) /\ Sound(d) /\ d.data = r.data /\ IsReader(d)
  BY <1>2, <1>3, <1>4, FollowsChain, SoundFollows DEF Follows, Sound
<1>6. CASE ~ d.ok
  <2>1. e = d
    BY <1>6 DEF Resize
  <2>2. s = d
    BY <1>6, <2>1 DEF ReadDoubles
  <2> HIDE DEF s
  <2> QED
    BY <1>1, <1>2, <1>4, <1>5, <1>6, <2>2
<1>7. CASE d.ok
  <2>1. n \in 0..MaxJoints /\ n \in Nat /\ n = NumberIn(r.data, r.pos, 1)
    BY <1>2, <1>4, <1>7, LimitsType
  <2>2. /\ Follows(d, e) /\ Sound(e) /\ e.ok = TRUE /\ e.pos = d.pos
        /\ e.out = With(d.out, member, Sized(d.out[member], n, 0))
    <3>1. Sound(d) /\ d.ok
      BY <1>5, <1>7
    <3> DEFINE zero == 0
    <3> HIDE DEF zero, l
    <3>2. Grown(d, Resize(d, member, n, zero), member, n, zero)
      BY <3>1, ResizeWith
    <3> QED
      BY <3>2 DEF zero, Grown
  <2> HIDE DEF e
  <2> DEFINE v == Sized(r.out[member], n, 0)
  <2>z. 0 \in Double
    BY DoubleType
  <2>3. v \in Seq(Double) /\ Len(v) = n
    <3>1. r.out[member] \in Seq(Double)
      OBVIOUS
    <3> HIDE DEF n
    <3> QED
      BY <2>1, <3>1, SizedNumbers
  <2>4. e.out = With(r.out, member, v)
    BY <1>2, <1>4, <2>2
  <2> HIDE DEF v
  <2>5. /\ member \in DOMAIN e.out /\ e.out[member] \in Seq(Double)
        /\ Len(e.out[member]) = n /\ e.ok
    BY <2>2, <2>3, <2>4, WithMember
  <2>6. /\ Follows(e, s) /\ Sound(s)
        /\ s.ok <=> e.pos + n * DoubleWidth <= Len(e.data)
        /\ s.ok => /\ s.pos = e.pos + n * DoubleWidth
                   /\ \E w : Vector(e.data, e.pos, n, w) /\ s.out = With(e.out, member, w)
        /\ \E w \in Seq(Double) : Len(w) = n /\ s.out = With(e.out, member, w)
    BY <2>1, <2>2, <2>5, ReadVectorIs
  <2> HIDE DEF s
  <2>7. e.data = r.data /\ e.pos = r.pos + 1 /\ IsReader(e)
    BY <1>2, <1>4, <1>5, <1>7, <2>2 DEF Follows
  <2>8. Follows(r, s)
    BY <1>3, <1>5, <2>2, <2>6, FollowsChain
  <2>9. \A w : With(e.out, member, w) = With(r.out, member, w)
    BY <2>4, WithTwice
  <2>10. \E w \in Seq(Double) : Len(w) <= MaxJoints /\ s.out = With(r.out, member, w)
    BY <2>1, <2>6, <2>9
  <2>11. /\ s.ok <=> (r.pos + 1) + n * DoubleWidth <= Len(r.data)
         /\ s.ok => /\ s.pos = (r.pos + 1) + n * DoubleWidth
                    /\ \E w : Vector(r.data, r.pos + 1, n, w) /\ s.out = With(r.out, member, w)
    BY <2>6, <2>7, <2>9
  <2>12. r.ok /\ r.pos + 1 <= Len(r.data) /\ n <= MaxJoints
    BY <1>2, <1>4, <1>7
  <2> QED
    BY <1>1, <2>1, <2>6, <2>8, <2>10, <2>11, <2>12
<1> QED
  BY <1>6, <1>7

\* A vector member resized and filled with zeros, as ReadJoints and ReadText do.
LEMMA ResizeZero ==
  ASSUME NEW r, Sound(r), r.ok, NEW member, NEW n
  PROVE  Grown(r, Resize(r, member, n, 0), member, n, 0)
<1> DEFINE zero == 0
<1> HIDE DEF zero
<1>1. Grown(r, Resize(r, member, n, zero), member, n, zero)
  BY ResizeWith
<1> QED
  BY <1>1 DEF zero

\* A number of eight bytes that is read into a local variable.
LEMMA ReadLongIs ==
  ASSUME NEW r, Sound(r)
  PROVE  /\ Follows(r, Read(r, "u64")) /\ Sound(Read(r, "u64"))
         /\ Read(r, "u64").out = r.out
         /\ Read(r, "u64").ok <=> r.ok /\ r.pos + Width["u64"] <= Len(r.data)
         /\ Read(r, "u64").ok =>
              /\ Read(r, "u64").pos = r.pos + Width["u64"]
              /\ Local(Read(r, "u64")) = NumberIn(r.data, r.pos, Width["u64"])
         /\ Local(Read(r, "u64")) \in Nat
<1>1. IsReader(r) /\ Room(r, Width["u64"]) /\ "u64" \in Types
  BY SoundRoom DEF Sound, Types
<1>2. /\ Follows(r, Read(r, "u64")) /\ Read(r, "u64").out = r.out
      /\ Read(r, "u64").ok <=> r.ok /\ r.pos + Width["u64"] <= Len(r.data)
      /\ Read(r, "u64").ok =>
           /\ Read(r, "u64").pos = r.pos + Width["u64"]
           /\ Local(Read(r, "u64")) = NumberIn(r.data, r.pos, Width["u64"])
      /\ Local(Read(r, "u64")) \in Nat
  BY <1>1, ReadIs
<1> QED
  BY <1>2, SoundFollows

\* ReadText: either the length is not there or too large, or the member becomes a
\* text that is no longer than the limit.
LEMMA ReadTextIs ==
  ASSUME NEW r, Sound(r), NEW member \in DOMAIN r.out, r.out[member] \in Seq(Byte)
  PROVE  LET s == ReadText(r, member)
             n == NumberIn(r.data, r.pos, Width["u64"])
             p == r.pos + Width["u64"]
         IN /\ Follows(r, s) /\ Sound(s)
            /\ s.ok <=> /\ r.ok /\ p <= Len(r.data) /\ n <= MaxText
                        /\ p + n <= Len(r.data)
            /\ s.ok => /\ s.pos = p + n /\ n \in 0..MaxText
                       /\ s.out = With(r.out, member, Window(r.data, p, n))
            /\ \/ s.out = r.out
               \/ \E v \in Seq(Byte) : Len(v) <= MaxText /\ s.out = With(r.out, member, v)
<1> DEFINE c == Read(r, "u64")
           n == Local(c)
           l == n <= MaxText
           d == Require(c, l)
           e == Resize(d, member, n, 0)
           s == ReadBytes(e, n, member)
           p == r.pos + Width["u64"]
<1>1. s = ReadText(r, member)
  BY DEF ReadText
<1>2. /\ Follows(r, c) /\ Sound(c) /\ c.out = r.out /\ n \in Nat
      /\ c.ok <=> r.ok /\ p <= Len(r.data)
      /\ c.ok => c.pos = p /\ n = NumberIn(r.data, r.pos, Width["u64"])
  BY ReadLongIs
<1> HIDE DEF c
<1>3. IsReader(r) /\ IsReader(c) /\ l \in BOOLEAN /\ c.data = r.data
  BY <1>2 DEF Sound, Follows
<1> HIDE DEF n
<1>l. l <=> n <= MaxText
  OBVIOUS
<1> HIDE DEF l
<1>d. /\ Follows(c, d) /\ d.out = c.out /\ d.pos = c.pos
      /\ d.ok <=> c.ok /\ l
  BY <1>3, RequireIs
<1>4. /\ Follows(c, d) /\ d.out = c.out /\ d.pos = c.pos
      /\ d.ok <=> c.ok /\ n <= MaxText
  BY <1>l, <1>d
<1> HIDE DEF d
<1>5. Follows(r, d) /\ Sound(d) /\ d.data = r.data /\ IsReader(d)
  BY <1>2, <1>3, <1>4, FollowsChain, SoundFollows DEF Follows, Sound
<1>6. CASE ~ d.ok
  <2>1. e = d
    BY <1>6 DEF Resize
  <2>2. s = d
    BY <1>6, <2>1 DEF ReadBytes, Take, Store
  <2> HIDE DEF s
  <2> QED
    BY <1>1, <1>2, <1>4, <1>5, <1>6, <2>2
<1>7. CASE d.ok
  <2>1. n \in 0..MaxText /\ n \in Nat /\ n = NumberIn(r.data, r.pos, Width["u64"])
    BY <1>2, <1>4, <1>7, LimitsType
  <2>2. /\ Follows(d, e) /\ Sound(e) /\ e.ok = TRUE /\ e.pos = d.pos
        /\ e.out = With(d.out, member, Sized(d.out[member], n, 0))
    <3>1. Grown(d, e, member, n, 0)
      BY <1>5, <1>7, ResizeZero
    <3> QED
      BY <3>1 DEF Grown
  <2> HIDE DEF e
  <2> DEFINE v == Sized(r.out[member], n, 0)
  <2>z. 0 \in Byte
    BY BaseType DEF Byte
  <2>3. v \in Seq(Byte) /\ Len(v) = n
    <3>1. r.out[member] \in Seq(Byte)
      OBVIOUS
    <3> HIDE DEF n
    <3> QED
      BY <2>1, <3>1, SizedNumbers
  <2>4. e.out = With(r.out, member, v)
    BY <1>2, <1>4, <2>2
  <2> HIDE DEF v
  <2>5. e.data = r.data /\ e.pos = p /\ IsReader(e) /\ Room(e, n)
    BY <1>2, <1>4, <1>5, <1>7, <2>1, <2>2, SoundRoom DEF Follows
  <2>6. /\ Follows(e, s)
        /\ s.ok <=> e.ok /\ e.pos + n <= Len(e.data)
        /\ s.ok => /\ s.pos = e.pos + n
                   /\ s.out = With(e.out, member, Window(e.data, e.pos, n))
        /\ ~ s.ok => s.out = e.out
    BY <2>5, ReadBytesIs DEF With
  <2> HIDE DEF s
  <2>7. Follows(r, s)
    BY <1>3, <1>5, <2>2, <2>6, FollowsChain
  <2>8. Sound(s)
    BY <2>7, SoundFollows
  <2>9. \A w : With(e.out, member, w) = With(r.out, member, w)
    BY <2>4, WithTwice
  <2>10. /\ s.ok <=> p + n <= Len(r.data)
         /\ s.ok => s.pos = p + n /\ s.out = With(r.out, member, Window(r.data, p, n))
    BY <2>2, <2>5, <2>6, <2>9
  <2>11. s.ok => Window(r.data, p, n) \in Seq(Byte) /\ Len(Window(r.data, p, n)) = n
    <3>1. p \in Nat /\ r.data \in Seq(Byte)
      BY <2>5, ReaderType
    <3> QED
      BY <2>1, <2>10, <3>1, WindowIs
  <2>12. \E w \in Seq(Byte) : Len(w) <= MaxText /\ s.out = With(r.out, member, w)
    BY <2>1, <2>3, <2>4, <2>6, <2>10, <2>11
  <2>13. r.ok /\ p <= Len(r.data) /\ n <= MaxText
    BY <1>2, <1>4, <1>7
  <2> QED
    BY <1>1, <2>1, <2>7, <2>8, <2>10, <2>12, <2>13
<1> QED
  BY <1>6, <1>7

\* The speeds at the end of a request.
Sped(o, x, y) ==
  [m \in DOMAIN o |->
     CASE m = "speed" -> x [] m = "acceleration" -> y [] OTHER -> o[m]]

LEMMA ReadSpeedIs ==
  ASSUME NEW r, Sound(r), r.out = [m \in DOMAIN r.out |-> r.out[m]],
         "speed" \in DOMAIN r.out, "acceleration" \in DOMAIN r.out,
         r.out.speed \in Double, r.out.acceleration \in Double
  PROVE  LET s == ReadSpeed(r)
         IN /\ Follows(r, s) /\ Sound(s)
            /\ s.ok <=> r.ok /\ r.pos + 2 * DoubleWidth <= Len(r.data)
            /\ s.ok => /\ s.pos = r.pos + 2 * DoubleWidth
                       /\ s.out = Sped(r.out, DoubleAt(r.data, r.pos, 1),
                                              DoubleAt(r.data, r.pos, 2))
                       /\ DoubleAt(r.data, r.pos, 1) \in Double
                       /\ DoubleAt(r.data, r.pos, 2) \in Double
            /\ ~ r.ok => s.out = r.out
<1> DEFINE names == <<"speed", "acceleration">>
           s == ReadDoubles(r, <<>>, names)
           k == 2
           o == Overwritten(r, <<>>, names, k)
<1>1. /\ IsReader(r) /\ k \in Nat /\ k \in 0..(MaxJoints + 7) /\ Len(names) = k
  BY LimitsType DEF Sound
<1>2. Room(r, k * DoubleWidth)
  BY <1>1, SoundRoom
<1>3. s = ReadSpeed(r)
  BY DEF ReadSpeed
<1> HIDE DEF k, names
<1>4. /\ Follows(r, s)
      /\ s.ok <=> r.ok /\ r.pos + k * DoubleWidth <= Len(r.data)
      /\ s.ok => s.pos = r.pos + k * DoubleWidth /\ s.out = Put(r.out, <<>>, o)
      /\ ~ r.ok => s.out = r.out
  <2> DEFINE path == <<>>
  <2>1. s = ReadDoubles(r, path, names) /\ o = Overwritten(r, path, names, k)
    OBVIOUS
  <2> HIDE DEF path, s, o
  <2>2. /\ Follows(r, s)
        /\ s.ok <=> r.ok /\ r.pos + k * DoubleWidth <= Len(r.data)
        /\ s.ok => s.pos = r.pos + k * DoubleWidth /\ s.out = Put(r.out, path, o)
        /\ ~ r.ok => s.out = r.out
    BY <1>1, <1>2, <2>1, ReadDoublesIs
  <2> QED
    BY <2>2 DEF path
<1> HIDE DEF s
<1>5. At(r.out, <<>>) = r.out /\ Put(r.out, <<>>, o) = o
  BY PutWhole
<1>6. o = Sped(r.out, DoubleAt(r.data, r.pos, 1), DoubleAt(r.data, r.pos, 2))
  <2>1. names[1] = "speed" /\ names[2] = "acceleration" /\ 1 \in 1..k /\ 2 \in 1..k
        /\ \A j \in 1..k : j = 1 \/ j = 2
    BY DEF names, k
  <2>2. o["speed"] = DoubleAt(r.data, r.pos, 1)
    <3>1. names[1] \in DOMAIN At(r.out, <<>>) /\ \A j \in 1..k : names[j] = names[1] => j = 1
      BY <1>5, <2>1
    <3>2. o[names[1]] = NumberIn(r.data, r.pos + (1 - 1) * DoubleWidth, DoubleWidth)
      BY <1>1, <2>1, <3>1, OverwrittenMember
    <3> QED
      BY <2>1, <3>2 DEF DoubleAt
  <2>3. o["acceleration"] = DoubleAt(r.data, r.pos, 2)
    <3>1. names[2] \in DOMAIN At(r.out, <<>>) /\ \A j \in 1..k : names[j] = names[2] => j = 2
      BY <1>5, <2>1
    <3>2. o[names[2]] = NumberIn(r.data, r.pos + (2 - 1) * DoubleWidth, DoubleWidth)
      BY <1>1, <2>1, <3>1, OverwrittenMember
    <3> QED
      BY <2>1, <3>2 DEF DoubleAt
  <2>4. ASSUME NEW m \in DOMAIN r.out, m # "speed", m # "acceleration"
        PROVE  o[m] = r.out[m]
    <3>1. \A j \in 1..k : names[j] # m
      BY <2>1, <2>4
    <3> QED
      BY <1>1, <1>5, <3>1, OverwrittenOther
  <2>5. o = [m \in DOMAIN r.out |-> o[m]]
    BY <1>5 DEF Overwritten
  <2> HIDE DEF o
  <2> QED
    BY <2>2, <2>3, <2>4, <2>5 DEF Sped
<1>7. s.ok => /\ DoubleAt(r.data, r.pos, 1) \in Double
              /\ DoubleAt(r.data, r.pos, 2) \in Double
  <2>1. r.data \in Seq(Byte) /\ r.pos \in Nat /\ 1 \in 1..k /\ 2 \in 1..k
    BY <1>1, ReaderType DEF k
  <2> QED
    BY <1>1, <1>4, <2>1, DoubleType
<1>8. Sound(s)
  BY <1>4, SoundFollows
<1> HIDE DEF o
<1>9. k = 2
  BY DEF k
<1> QED
  BY <1>3, <1>4, <1>5, <1>6, <1>7, <1>8, <1>9

-----------------------------------------------------------------------------
(***************************************************************************)
(* The start requests: the object that the bytes d after the first p make. *)
(***************************************************************************)
VectorAt(d, p, n) == [i \in 1..n |-> DoubleAt(d, p, i)]

LEMMA VectorIs ==
  ASSUME NEW d, NEW p, NEW n \in Nat, NEW v, Vector(d, p, n, v)
  PROVE  v = VectorAt(d, p, n)
<1>1. v \in Seq(Double) /\ Len(v) = n /\ \A i \in 1..n : v[i] = DoubleAt(d, p, i)
  BY DEF Vector
<1>2. v = [i \in 1..n |-> v[i]]
  BY <1>1
<1> QED
  BY <1>1, <1>2 DEF VectorAt

MoveJointAt(d, p) ==
  LET n == NumberIn(d, p, 1)
      q == (p + 1) + n * DoubleWidth
  IN [kind |-> "MoveJoint", joint_targets |-> VectorAt(d, p + 1, n),
      speed |-> DoubleAt(d, q, 1), acceleration |-> DoubleAt(d, q, 2)]

MoveLinearAt(d, p) ==
  LET q == p + 7 * DoubleWidth
  IN [kind |-> "MoveLinear", pose_target |-> PoseAt(d, p),
      speed |-> DoubleAt(d, q, 1), acceleration |-> DoubleAt(d, q, 2)]

MoveArcAt(d, p) ==
  LET q == p + 14 * DoubleWidth
      t == p + 16 * DoubleWidth
  IN [kind |-> "MoveArc", pose_through |-> PoseAt(d, p),
      pose_target |-> PoseAt(d, p + 7 * DoubleWidth),
      speed |-> DoubleAt(d, q, 1), acceleration |-> DoubleAt(d, q, 2),
      orientation_type |-> NumberIn(d, t, 1), as_circle |-> NumberIn(d, t + 1, 1) # 0,
      circle_percentage |-> NumberIn(d, t + 2, DoubleWidth)]

LEMMA SpedJoint ==
  ASSUME NEW v, NEW a, NEW b, NEW x, NEW y
  PROVE  Sped([kind |-> "MoveJoint", joint_targets |-> v, speed |-> a, acceleration |-> b], x, y)
           = [kind |-> "MoveJoint", joint_targets |-> v, speed |-> x, acceleration |-> y]
  BY DEF Sped

LEMMA MoveJointIs ==
  ASSUME NEW r, Sound(r), r.out = Blank("MoveJoint")
  PROVE  LET s == deserializeMoveJointRequest(r)
             n == NumberIn(r.data, r.pos, 1)
             q == (r.pos + 1) + n * DoubleWidth
         IN /\ Follows(r, s)
            /\ s.ok <=> /\ r.ok /\ r.pos + 1 <= Len(r.data) /\ n <= MaxJoints
                        /\ q + 2 * DoubleWidth <= Len(r.data)
            /\ s.ok => /\ s.pos = q + 2 * DoubleWidth /\ n \in 0..MaxJoints
                       /\ s.out = MoveJointAt(r.data, r.pos)
                       /\ s.out \in StartRequests
<1> DEFINE j == ReadJoints(r, "joint_targets")
           s == ReadSpeed(j)
           n == NumberIn(r.data, r.pos, 1)
           q == (r.pos + 1) + n * DoubleWidth
           blank == [kind |-> "MoveJoint", joint_targets |-> <<>>, speed |-> 0,
                     acceleration |-> 0]
<1>0. s = deserializeMoveJointRequest(r)
  BY DEF deserializeMoveJointRequest
<1>1. r.out = blank
  BY DEF Blank
<1>e. <<>> \in Seq(Double)
  OBVIOUS
<1>b. "joint_targets" \in DOMAIN blank /\ blank["joint_targets"] = <<>>
  OBVIOUS
<1>2. "joint_targets" \in DOMAIN r.out /\ r.out["joint_targets"] \in Seq(Double)
  <2> HIDE DEF blank
  <2> QED
    BY <1>1, <1>e, <1>b, Zenon
<1>3. /\ Follows(r, j) /\ Sound(j)
      /\ j.ok <=> r.ok /\ r.pos + 1 <= Len(r.data) /\ n <= MaxJoints /\ q <= Len(r.data)
      /\ j.ok => /\ j.pos = q /\ n \in 0..MaxJoints
                 /\ \E v : Vector(r.data, r.pos + 1, n, v)
                           /\ j.out = With(r.out, "joint_targets", v)
      /\ \/ j.out = r.out
         \/ \E v \in Seq(Double) :
              Len(v) <= MaxJoints /\ j.out = With(r.out, "joint_targets", v)
  BY <1>2, ReadJointsIs
<1> HIDE DEF j
<1>4. PICK v \in Seq(Double) : j.out = [kind |-> "MoveJoint", joint_targets |-> v, speed |-> 0,
                          acceleration |-> 0]
  <2>1. CASE j.out = r.out
    BY <1>1, <1>e, <2>1, Zenon
  <2>2. CASE \E v \in Seq(Double) : j.out = With(r.out, "joint_targets", v)
    BY <1>1, <2>2 DEF With
  <2> QED
    BY <1>3, <2>1, <2>2
<1>z. 0 \in Double
  BY DoubleType
<1>5. /\ j.out = [m \in DOMAIN j.out |-> j.out[m]]
      /\ "speed" \in DOMAIN j.out /\ "acceleration" \in DOMAIN j.out
      /\ j.out.speed \in Double /\ j.out.acceleration \in Double
  BY <1>4, <1>z
<1>6. /\ Follows(j, s) /\ Sound(s)
      /\ s.ok <=> j.ok /\ j.pos + 2 * DoubleWidth <= Len(j.data)
      /\ s.ok => /\ s.pos = j.pos + 2 * DoubleWidth
                 /\ s.out = Sped(j.out, DoubleAt(j.data, j.pos, 1), DoubleAt(j.data, j.pos, 2))
                 /\ DoubleAt(j.data, j.pos, 1) \in Double
                 /\ DoubleAt(j.data, j.pos, 2) \in Double
  BY <1>3, <1>5, ReadSpeedIs
<1> HIDE DEF s
<1>7. IsReader(r) /\ Follows(r, s) /\ j.data = r.data /\ r.pos \in Nat /\ Len(r.data) \in Nat
  BY <1>3, <1>6, FollowsChain, ReaderType DEF Sound, Follows
<1>8. s.ok <=> /\ r.ok /\ r.pos + 1 <= Len(r.data) /\ n <= MaxJoints
               /\ q + 2 * DoubleWidth <= Len(r.data)
  <2>1. j.ok => j.pos = q /\ q \in Nat
    <3>1. j.ok => q = j.pos /\ IsReader(j)
      BY <1>3 DEF Sound
    <3> HIDE DEF q
    <3> QED
      BY <3>1, ReaderType
  <2>2. r.ok /\ r.pos + 1 <= Len(r.data) /\ n <= MaxJoints => n \in Nat
    BY <1>7, ReadByteIs DEF Byte
  <2> QED
    BY <1>3, <1>6, <1>7, <2>1, <2>2, WidthType, SMTT(20)
<1>9. ASSUME s.ok
      PROVE  /\ s.pos = q + 2 * DoubleWidth /\ n \in 0..MaxJoints
             /\ s.out = MoveJointAt(r.data, r.pos)
             /\ s.out \in StartRequests
  <2>1. j.ok /\ j.pos = q /\ n \in 0..MaxJoints
    BY <1>3, <1>6, <1>9
  <2>2. PICK w : Vector(r.data, r.pos + 1, n, w) /\ j.out = With(r.out, "joint_targets", w)
    BY <1>3, <2>1
  <2>3. w = VectorAt(r.data, r.pos + 1, n) /\ w \in Seq(Double)
    BY <2>1, <2>2, VectorIs, LimitsType DEF Vector
  <2>4. j.out = [kind |-> "MoveJoint", joint_targets |-> w, speed |-> 0, acceleration |-> 0]
    BY <1>1, <2>2 DEF With
  <2>5. s.out = [kind |-> "MoveJoint", joint_targets |-> w,
                 speed |-> DoubleAt(r.data, q, 1), acceleration |-> DoubleAt(r.data, q, 2)]
    <3> DEFINE x == DoubleAt(r.data, q, 1)
               y == DoubleAt(r.data, q, 2)
    <3>1. s.out = Sped(j.out, x, y)
      BY <1>6, <1>7, <1>9, <2>1
    <3> HIDE DEF x, y
    <3>2. Sped(j.out, x, y) = [kind |-> "MoveJoint", joint_targets |-> w, speed |-> x,
                               acceleration |-> y]
      BY <2>4, SpedJoint
    <3> QED
      BY <3>1, <3>2 DEF x, y
  <2>6. s.out \in StartRequests
    BY <1>6, <1>7, <1>9, <2>1, <2>3, <2>5 DEF StartRequests
  <2>7. s.out = MoveJointAt(r.data, r.pos)
    BY <2>3, <2>5 DEF MoveJointAt
  <2> QED
    BY <1>6, <1>7, <1>9, <2>1, <2>6, <2>7
<1> QED
  BY <1>0, <1>7, <1>8, <1>9

LEMMA ZeroPoseType == ZeroPose \in Pose /\ 0 \in Double /\ 0 \in Byte
<1>1. 0 \in Double /\ 0 \in Byte
  BY DoubleType, BaseType DEF Byte
<1> QED
  BY <1>1 DEF ZeroPose, Pose

\* A pose read into a member.
LEMMA PoseMemberIs ==
  ASSUME NEW r, Sound(r), NEW member \in DOMAIN r.out, r.out[member] \in Pose
  PROVE  LET s == deserializePose(r, <<member>>)
         IN /\ Follows(r, s) /\ Sound(s)
            /\ s.ok <=> r.ok /\ r.pos + 7 * DoubleWidth <= Len(r.data)
            /\ s.ok => /\ s.pos = r.pos + 7 * DoubleWidth
                       /\ s.out = With(r.out, member, PoseAt(r.data, r.pos))
                       /\ PoseAt(r.data, r.pos) \in Pose
            /\ s.out = r.out \/ \E p \in Pose : s.out = With(r.out, member, p)
<1> DEFINE path == <<member>>
           s == deserializePose(r, path)
<1>1. At(r.out, path) \in Pose /\ \A v : Put(r.out, path, v) = With(r.out, member, v)
  BY PutWith
<1> HIDE DEF path
<1>2. /\ Follows(r, s) /\ Sound(s)
      /\ s.ok <=> r.ok /\ r.pos + 7 * DoubleWidth <= Len(r.data)
      /\ s.ok => /\ s.pos = r.pos + 7 * DoubleWidth
                 /\ s.out = Put(r.out, path, PoseAt(r.data, r.pos))
                 /\ PoseAt(r.data, r.pos) \in Pose
      /\ ~ r.ok => s.out = r.out
      /\ r.ok => \E p \in Pose : s.out = Put(r.out, path, p)
  BY <1>1, PoseIs
<1>3. r.ok \in BOOLEAN
  BY ReaderType DEF Sound
<1> HIDE DEF s
<1> QED
  BY <1>1, <1>2, <1>3 DEF s, path

LEMMA SpedLinear ==
  ASSUME NEW v, NEW a, NEW b, NEW x, NEW y
  PROVE  Sped([kind |-> "MoveLinear", pose_target |-> v, speed |-> a, acceleration |-> b], x, y)
           = [kind |-> "MoveLinear", pose_target |-> v, speed |-> x, acceleration |-> y]
  BY DEF Sped

LEMMA MoveLinearIs ==
  ASSUME NEW r, Sound(r), r.out = Blank("MoveLinear")
  PROVE  LET s == deserializeMoveLinearRequest(r)
             q == r.pos + 7 * DoubleWidth
         IN /\ Follows(r, s)
            /\ s.ok <=> r.ok /\ q + 2 * DoubleWidth <= Len(r.data)
            /\ s.ok => /\ s.pos = q + 2 * DoubleWidth
                       /\ s.out = MoveLinearAt(r.data, r.pos)
                       /\ s.out \in StartRequests
<1> DEFINE j == deserializePose(r, <<"pose_target">>)
           s == ReadSpeed(j)
           q == r.pos + 7 * DoubleWidth
           at(p) == [kind |-> "MoveLinear", pose_target |-> p, speed |-> 0, acceleration |-> 0]
           z == DoubleAt(r.data, q, 1)
           y == DoubleAt(r.data, q, 2)
<1>0. s = deserializeMoveLinearRequest(r)
  BY DEF deserializeMoveLinearRequest
<1>1. r.out = at(ZeroPose)
  BY DEF Blank
<1>2. "pose_target" \in DOMAIN r.out /\ r.out["pose_target"] \in Pose
  BY <1>1, ZeroPoseType
<1>3. /\ Follows(r, j) /\ Sound(j)
      /\ j.ok <=> r.ok /\ q <= Len(r.data)
      /\ j.ok => /\ j.pos = q
                 /\ j.out = With(r.out, "pose_target", PoseAt(r.data, r.pos))
                 /\ PoseAt(r.data, r.pos) \in Pose
      /\ j.out = r.out \/ \E p \in Pose : j.out = With(r.out, "pose_target", p)
  BY <1>2, PoseMemberIs
<1> HIDE DEF j
<1>w. \A p : With(r.out, "pose_target", p) = at(p)
  BY <1>1 DEF With
<1>4. \E p \in Pose : j.out = at(p)
  <2> HIDE DEF at
  <2> QED
    BY <1>1, <1>3, <1>w, ZeroPoseType
<1>5. /\ j.out = [m \in DOMAIN j.out |-> j.out[m]]
      /\ "speed" \in DOMAIN j.out /\ "acceleration" \in DOMAIN j.out
      /\ j.out.speed \in Double /\ j.out.acceleration \in Double
  BY <1>4, ZeroPoseType
<1>6. /\ Follows(j, s) /\ Sound(s)
      /\ s.ok <=> j.ok /\ j.pos + 2 * DoubleWidth <= Len(j.data)
      /\ s.ok => /\ s.pos = j.pos + 2 * DoubleWidth
                 /\ s.out = Sped(j.out, DoubleAt(j.data, j.pos, 1), DoubleAt(j.data, j.pos, 2))
                 /\ DoubleAt(j.data, j.pos, 1) \in Double
                 /\ DoubleAt(j.data, j.pos, 2) \in Double
  BY <1>3, <1>5, ReadSpeedIs
<1> HIDE DEF s
<1>7. IsReader(r) /\ Follows(r, s) /\ j.data = r.data /\ r.pos \in Nat /\ Len(r.data) \in Nat
  BY <1>3, <1>6, FollowsChain, ReaderType DEF Sound, Follows
<1>8. s.ok <=> r.ok /\ q + 2 * DoubleWidth <= Len(r.data)
  BY <1>3, <1>6, <1>7, WidthType
<1>9. ASSUME s.ok
      PROVE  /\ s.pos = q + 2 * DoubleWidth
             /\ s.out = MoveLinearAt(r.data, r.pos)
             /\ s.out \in StartRequests
  <2>1. j.ok /\ j.pos = q
    BY <1>3, <1>6, <1>9
  <2>2. j.out = at(PoseAt(r.data, r.pos)) /\ PoseAt(r.data, r.pos) \in Pose
    <3> HIDE DEF at
    <3> QED
      BY <1>3, <1>w, <2>1
  <2>3. s.pos = q + 2 * DoubleWidth /\ s.out = Sped(j.out, z, y) /\ z \in Double /\ y \in Double
    <3> HIDE DEF q
    <3> QED
      BY <1>6, <1>7, <1>9, <2>1
  <2>4. s.out = [kind |-> "MoveLinear", pose_target |-> PoseAt(r.data, r.pos),
                 speed |-> z, acceleration |-> y]
    <3> HIDE DEF z, y
    <3> QED
      BY <2>2, <2>3, SpedLinear
  <2>5. s.out = MoveLinearAt(r.data, r.pos)
    BY <2>4 DEF MoveLinearAt
  <2>6. s.out \in StartRequests
    <3> HIDE DEF z, y
    <3> QED
      BY <2>2, <2>3, <2>4 DEF StartRequests
  <2> QED
    BY <2>3, <2>5, <2>6
<1> QED
  BY <1>0, <1>7, <1>8, <1>9

\* A byte, a flag and a double read into a member.
LEMMA ReadByteToIs ==
  ASSUME NEW r, Sound(r), NEW member
  PROVE  LET s == ReadTo(r, "u8", member)
             n == NumberIn(r.data, r.pos, 1)
         IN /\ Follows(r, s) /\ Sound(s)
            /\ s.ok <=> r.ok /\ r.pos + 1 <= Len(r.data)
            /\ s.ok => s.pos = r.pos + 1 /\ n \in Byte /\ s.out = With(r.out, member, n)
            /\ ~ s.ok => s.out = r.out
<1>1. IsReader(r) /\ Room(r, Width["u8"]) /\ Width["u8"] = 1 /\ "u8" \in Types
  BY SoundRoom, WidthType DEF Sound, Types
<1>2. /\ Follows(r, ReadTo(r, "u8", member))
      /\ ReadTo(r, "u8", member).ok <=> r.ok /\ r.pos + Width["u8"] <= Len(r.data)
      /\ ReadTo(r, "u8", member).ok =>
           /\ ReadTo(r, "u8", member).pos = r.pos + Width["u8"]
           /\ ReadTo(r, "u8", member).out =
                [r.out EXCEPT ![member] = NumberIn(r.data, r.pos, Width["u8"])]
      /\ ~ ReadTo(r, "u8", member).ok => ReadTo(r, "u8", member).out = r.out
  BY <1>1, ReadToIs
<1>3. r.ok /\ r.pos + 1 <= Len(r.data) => NumberIn(r.data, r.pos, 1) \in Byte
  BY ReadByteIs
<1>4. Sound(ReadTo(r, "u8", member))
  BY <1>2, SoundFollows
<1> QED
  BY <1>1, <1>2, <1>3, <1>4 DEF With

LEMMA ReadFlagToIs ==
  ASSUME NEW r, Sound(r), NEW member
  PROVE  LET s == ReadBool(r, member)
             b == NumberIn(r.data, r.pos, 1) # 0
         IN /\ Follows(r, s) /\ Sound(s)
            /\ s.ok <=> r.ok /\ r.pos + 1 <= Len(r.data)
            /\ s.ok => s.pos = r.pos + 1 /\ s.out = With(r.out, member, b)
            /\ ~ s.ok => s.out = r.out
<1>1. IsReader(r) /\ Room(r, 1)
  BY SoundRoom DEF Sound
<1>2. /\ Follows(r, ReadBool(r, member))
      /\ ReadBool(r, member).ok <=> r.ok /\ r.pos + 1 <= Len(r.data)
      /\ ReadBool(r, member).ok =>
           /\ ReadBool(r, member).pos = r.pos + 1
           /\ ReadBool(r, member).out =
                [r.out EXCEPT ![member] = (NumberIn(r.data, r.pos, 1) # 0)]
      /\ ~ ReadBool(r, member).ok => ReadBool(r, member).out = r.out
  BY <1>1, ReadBoolIs
<1>3. Sound(ReadBool(r, member))
  BY <1>2, SoundFollows
<1> QED
  BY <1>2, <1>3 DEF With

LEMMA ReadDoubleToIs ==
  ASSUME NEW r, Sound(r), NEW member
  PROVE  LET s == ReadTo(r, "f64", member)
             n == NumberIn(r.data, r.pos, DoubleWidth)
         IN /\ Follows(r, s) /\ Sound(s)
            /\ s.ok <=> r.ok /\ r.pos + DoubleWidth <= Len(r.data)
            /\ s.ok => /\ s.pos = r.pos + DoubleWidth /\ n \in Double
                       /\ s.out = With(r.out, member, n)
            /\ ~ s.ok => s.out = r.out
<1>1. /\ IsReader(r) /\ Room(r, Width["f64"]) /\ Width["f64"] = DoubleWidth
      /\ "f64" \in Types
  BY SoundRoom DEF Sound, Types, DoubleWidth
<1>2. /\ Follows(r, ReadTo(r, "f64", member))
      /\ ReadTo(r, "f64", member).ok <=> r.ok /\ r.pos + Width["f64"] <= Len(r.data)
      /\ ReadTo(r, "f64", member).ok =>
           /\ ReadTo(r, "f64", member).pos = r.pos + Width["f64"]
           /\ ReadTo(r, "f64", member).out =
                [r.out EXCEPT ![member] = NumberIn(r.data, r.pos, Width["f64"])]
      /\ ~ ReadTo(r, "f64", member).ok => ReadTo(r, "f64", member).out = r.out
  BY <1>1, ReadToIs
<1>3. r.pos + DoubleWidth <= Len(r.data) => NumberIn(r.data, r.pos, DoubleWidth) \in Double
  <2>1. r.data \in Seq(Byte) /\ r.pos \in Nat /\ DoubleWidth \in Nat
    BY <1>1, ReaderType, WidthType
  <2> QED
    BY <2>1, NumberInType DEF Double, Number, DoubleWidth
<1>4. Sound(ReadTo(r, "f64", member))
  BY <1>2, SoundFollows
<1> QED
  BY <1>1, <1>2, <1>3, <1>4 DEF With

ArcOf(through, target, x, y, type, circle, part) ==
  [kind |-> "MoveArc", pose_through |-> through, pose_target |-> target, speed |-> x,
   acceleration |-> y, orientation_type |-> type, as_circle |-> circle,
   circle_percentage |-> part]

LEMMA ArcWith ==
  ASSUME NEW a, NEW b, NEW x, NEW y, NEW t, NEW c, NEW e
  PROVE  /\ \A v : With(ArcOf(a, b, x, y, t, c, e), "pose_through", v) = ArcOf(v, b, x, y, t, c, e)
         /\ \A v : With(ArcOf(a, b, x, y, t, c, e), "pose_target", v) = ArcOf(a, v, x, y, t, c, e)
         /\ \A v : With(ArcOf(a, b, x, y, t, c, e), "orientation_type", v)
                     = ArcOf(a, b, x, y, v, c, e)
         /\ \A v : With(ArcOf(a, b, x, y, t, c, e), "as_circle", v) = ArcOf(a, b, x, y, t, v, e)
         /\ \A v : With(ArcOf(a, b, x, y, t, c, e), "circle_percentage", v)
                     = ArcOf(a, b, x, y, t, c, v)
         /\ \A v, w : Sped(ArcOf(a, b, x, y, t, c, e), v, w) = ArcOf(a, b, v, w, t, c, e)
<1>1. \A v : With(ArcOf(a, b, x, y, t, c, e), "pose_through", v) = ArcOf(v, b, x, y, t, c, e)
  BY DEF With, ArcOf
<1>2. \A v : With(ArcOf(a, b, x, y, t, c, e), "pose_target", v) = ArcOf(a, v, x, y, t, c, e)
  BY DEF With, ArcOf
<1>3. \A v : With(ArcOf(a, b, x, y, t, c, e), "orientation_type", v) = ArcOf(a, b, x, y, v, c, e)
  BY DEF With, ArcOf
<1>4. \A v : With(ArcOf(a, b, x, y, t, c, e), "as_circle", v) = ArcOf(a, b, x, y, t, v, e)
  BY DEF With, ArcOf
<1>5. \A v : With(ArcOf(a, b, x, y, t, c, e), "circle_percentage", v)
               = ArcOf(a, b, x, y, t, c, v)
  BY DEF With, ArcOf
<1>6. \A v, w : Sped(ArcOf(a, b, x, y, t, c, e), v, w) = ArcOf(a, b, v, w, t, c, e)
  BY DEF Sped, ArcOf
<1> QED
  BY <1>1, <1>2, <1>3, <1>4, <1>5, <1>6

LEMMA ArcMembers ==
  ASSUME NEW a, NEW b, NEW x, NEW y, NEW t, NEW c, NEW e, NEW o,
         o = ArcOf(a, b, x, y, t, c, e)
  PROVE  /\ o = [m \in DOMAIN o |-> o[m]]
         /\ "pose_through" \in DOMAIN o /\ "pose_target" \in DOMAIN o
         /\ "speed" \in DOMAIN o /\ "acceleration" \in DOMAIN o
         /\ o["pose_through"] = a /\ o["pose_target"] = b
         /\ o.speed = x /\ o.acceleration = y
  BY DEF ArcOf

LEMMA MoveArcIs ==
  ASSUME NEW r, Sound(r), r.out = Blank("MoveArc")
  PROVE  LET s == deserializeMoveArcRequest(r)
             e == (r.pos + 17 * DoubleWidth) + 2
         IN /\ Follows(r, s)
            /\ s.ok <=> r.ok /\ e <= Len(r.data)
            /\ s.ok => /\ s.pos = e
                       /\ s.out = MoveArcAt(r.data, r.pos)
                       /\ s.out \in StartRequests
<1> DEFINE d == r.data
           p == r.pos
           w == DoubleWidth
           r1 == deserializePose(r, <<"pose_through">>)
           r2 == deserializePose(r1, <<"pose_target">>)
           r3 == ReadSpeed(r2)
           r4 == ReadTo(r3, "u8", "orientation_type")
           r5 == ReadBool(r4, "as_circle")
           s == ReadTo(r5, "f64", "circle_percentage")
           zero == 0
           no == FALSE
           blank == ArcOf(ZeroPose, ZeroPose, zero, zero, zero, no, zero)
<1>0. s = deserializeMoveArcRequest(r)
  BY DEF deserializeMoveArcRequest
<1>1. r.out = blank
  BY DEF Blank, ArcOf
<1>z. zero \in Double /\ zero \in Byte
  BY ZeroPoseType
<1> HIDE DEF zero, no
<1>2. IsReader(r) /\ d \in Seq(Byte) /\ p \in Nat /\ Len(d) \in Nat /\ w \in Nat \ {0}
  BY ReaderType, WidthType DEF Sound
<1>3. /\ Follows(r, r1) /\ Sound(r1) /\ r1.data = d
      /\ r1.ok <=> r.ok /\ p + 7 * w <= Len(d)
      /\ r1.ok => /\ r1.pos = p + 7 * w /\ PoseAt(d, p) \in Pose
                  /\ r1.out = ArcOf(PoseAt(d, p), ZeroPose, zero, zero, zero, no, zero)
      /\ \E a \in Pose : r1.out = ArcOf(a, ZeroPose, zero, zero, zero, no, zero)
  <2>1. "pose_through" \in DOMAIN r.out /\ r.out["pose_through"] \in Pose
    BY <1>1, ArcMembers, ZeroPoseType
  <2>2. /\ Follows(r, r1) /\ Sound(r1)
        /\ r1.ok <=> r.ok /\ p + 7 * w <= Len(d)
        /\ r1.ok => /\ r1.pos = p + 7 * w
                    /\ r1.out = With(r.out, "pose_through", PoseAt(d, p))
                    /\ PoseAt(d, p) \in Pose
        /\ r1.out = r.out \/ \E a \in Pose : r1.out = With(r.out, "pose_through", a)
    BY <2>1, PoseMemberIs
  <2> HIDE DEF r1
  <2>3. \A a : With(r.out, "pose_through", a) = ArcOf(a, ZeroPose, zero, zero, zero, no, zero)
    BY <1>1, ArcWith
  <2> QED
    BY <1>1, <2>2, <2>3, ZeroPoseType DEF Follows
<1> HIDE DEF r1
<1>4. /\ Follows(r1, r2) /\ Sound(r2) /\ r2.data = d
      /\ r2.ok <=> r1.ok /\ r1.pos + 7 * w <= Len(d)
      /\ r2.ok => /\ r2.pos = r1.pos + 7 * w /\ PoseAt(d, r1.pos) \in Pose
                  /\ r2.out = ArcOf(PoseAt(d, p), PoseAt(d, r1.pos), zero, zero, zero, no, zero)
      /\ \E a, b \in Pose : r2.out = ArcOf(a, b, zero, zero, zero, no, zero)
  <2> PICK a \in Pose : r1.out = ArcOf(a, ZeroPose, zero, zero, zero, no, zero)
    BY <1>3
  <2>1. "pose_target" \in DOMAIN r1.out /\ r1.out["pose_target"] \in Pose
    BY ArcMembers, ZeroPoseType
  <2>2. /\ Follows(r1, r2) /\ Sound(r2)
        /\ r2.ok <=> r1.ok /\ r1.pos + 7 * w <= Len(r1.data)
        /\ r2.ok => /\ r2.pos = r1.pos + 7 * w
                    /\ r2.out = With(r1.out, "pose_target", PoseAt(r1.data, r1.pos))
                    /\ PoseAt(r1.data, r1.pos) \in Pose
        /\ r2.out = r1.out \/ \E b \in Pose : r2.out = With(r1.out, "pose_target", b)
    BY <1>3, <2>1, PoseMemberIs
  <2> HIDE DEF r2
  <2>3. \A b : With(r1.out, "pose_target", b) = ArcOf(a, b, zero, zero, zero, no, zero)
    BY ArcWith
  <2>4. \E b \in Pose : r2.out = ArcOf(a, b, zero, zero, zero, no, zero)
    BY <2>2, <2>3, ZeroPoseType
  <2>6. r1.ok => ArcOf(a, ZeroPose, zero, zero, zero, no, zero)
                   = ArcOf(PoseAt(d, p), ZeroPose, zero, zero, zero, no, zero)
    BY <1>3
  <2>5. r1.ok => a = PoseAt(d, p)
    BY <2>6, ArcMembers
  <2> QED
    BY <1>3, <2>2, <2>3, <2>4, <2>5 DEF Follows
<1> HIDE DEF r2
<1>5. /\ Follows(r2, r3) /\ Sound(r3) /\ r3.data = d
      /\ r3.ok <=> r2.ok /\ r2.pos + 2 * w <= Len(d)
      /\ r3.ok => /\ r3.pos = r2.pos + 2 * w
                  /\ DoubleAt(d, r2.pos, 1) \in Double /\ DoubleAt(d, r2.pos, 2) \in Double
                  /\ r3.out = ArcOf(PoseAt(d, p), PoseAt(d, r1.pos), DoubleAt(d, r2.pos, 1),
                                    DoubleAt(d, r2.pos, 2), zero, no, zero)
  <2> PICK a \in Pose, b \in Pose : r2.out = ArcOf(a, b, zero, zero, zero, no, zero)
    BY <1>4
  <2>1. /\ r2.out = [m \in DOMAIN r2.out |-> r2.out[m]]
        /\ "speed" \in DOMAIN r2.out /\ "acceleration" \in DOMAIN r2.out
        /\ r2.out.speed \in Double /\ r2.out.acceleration \in Double
    BY <1>z, ArcMembers
  <2>2. /\ Follows(r2, r3) /\ Sound(r3)
        /\ r3.ok <=> r2.ok /\ r2.pos + 2 * w <= Len(r2.data)
        /\ r3.ok => /\ r3.pos = r2.pos + 2 * w
                    /\ r3.out = Sped(r2.out, DoubleAt(r2.data, r2.pos, 1),
                                             DoubleAt(r2.data, r2.pos, 2))
                    /\ DoubleAt(r2.data, r2.pos, 1) \in Double
                    /\ DoubleAt(r2.data, r2.pos, 2) \in Double
    BY <1>4, <2>1, ReadSpeedIs
  <2> HIDE DEF r3
  <2>3. \A x, y : Sped(r2.out, x, y) = ArcOf(a, b, x, y, zero, no, zero)
    BY ArcWith
  <2>4. r2.ok => ArcOf(a, b, zero, zero, zero, no, zero)
                   = ArcOf(PoseAt(d, p), PoseAt(d, r1.pos), zero, zero, zero, no, zero)
    BY <1>4
  <2>5. r2.ok => a = PoseAt(d, p) /\ b = PoseAt(d, r1.pos)
    BY <2>4, ArcMembers
  <2> QED
    BY <1>4, <2>2, <2>3, <2>5 DEF Follows
<1> HIDE DEF r3
<1>6. /\ Follows(r3, r4) /\ Sound(r4) /\ r4.data = d
      /\ r4.ok <=> r3.ok /\ r3.pos + 1 <= Len(d)
      /\ r4.ok => /\ r4.pos = r3.pos + 1 /\ NumberIn(d, r3.pos, 1) \in Byte
                  /\ r4.out = With(r3.out, "orientation_type", NumberIn(d, r3.pos, 1))
  BY <1>5, ReadByteToIs DEF Follows
<1> HIDE DEF r4
<1>7. /\ Follows(r4, r5) /\ Sound(r5) /\ r5.data = d
      /\ r5.ok <=> r4.ok /\ r4.pos + 1 <= Len(d)
      /\ r5.ok => /\ r5.pos = r4.pos + 1
                  /\ r5.out = With(r4.out, "as_circle", NumberIn(d, r4.pos, 1) # 0)
  BY <1>6, ReadFlagToIs DEF Follows
<1> HIDE DEF r5
<1>8. /\ Follows(r5, s) /\ Sound(s) /\ s.data = d
      /\ s.ok <=> r5.ok /\ r5.pos + w <= Len(d)
      /\ s.ok => /\ s.pos = r5.pos + w /\ NumberIn(d, r5.pos, w) \in Double
                 /\ s.out = With(r5.out, "circle_percentage", NumberIn(d, r5.pos, w))
  BY <1>7, ReadDoubleToIs DEF Follows
<1> HIDE DEF s
<1>9. Follows(r, s)
  <2>1. Follows(r, r2)
    BY <1>2, <1>3, <1>4, FollowsChain
  <2>2. Follows(r, r3)
    BY <1>2, <1>5, <2>1, FollowsChain
  <2>3. Follows(r, r4)
    BY <1>2, <1>6, <2>2, FollowsChain
  <2>4. Follows(r, r5)
    BY <1>2, <1>7, <2>3, FollowsChain
  <2> QED
    BY <1>2, <1>8, <2>4, FollowsChain
<1> HIDE DEF d, p, w
<1>a. /\ r1.ok <=> r.ok /\ p + 7 * w <= Len(d)
      /\ r1.ok => r1.pos = p + 7 * w
      /\ r2.ok <=> r1.ok /\ r1.pos + 7 * w <= Len(d)
      /\ r2.ok => r2.pos = r1.pos + 7 * w
      /\ r3.ok <=> r2.ok /\ r2.pos + 2 * w <= Len(d)
      /\ r3.ok => r3.pos = r2.pos + 2 * w
      /\ r4.ok <=> r3.ok /\ r3.pos + 1 <= Len(d)
      /\ r4.ok => r4.pos = r3.pos + 1
      /\ r5.ok <=> r4.ok /\ r4.pos + 1 <= Len(d)
      /\ r5.ok => r5.pos = r4.pos + 1
      /\ s.ok <=> r5.ok /\ r5.pos + w <= Len(d)
      /\ s.ok => s.pos = r5.pos + w
  BY <1>3, <1>4, <1>5, <1>6, <1>7, <1>8, Zenon
<1>10. s.ok => /\ r1.pos = p + 7 * w /\ r2.pos = p + 14 * w /\ r3.pos = p + 16 * w
               /\ r4.pos = (p + 16 * w) + 1 /\ r5.pos = (p + 16 * w) + 2
               /\ s.pos = (p + 17 * w) + 2
               /\ r1.ok /\ r2.ok /\ r3.ok /\ r4.ok /\ r5.ok
  BY <1>2, <1>a
<1>11. s.ok <=> r.ok /\ (p + 17 * w) + 2 <= Len(d)
  BY <1>2, <1>a
<1>12. ASSUME s.ok
       PROVE  s.out = MoveArcAt(d, p) /\ s.out \in StartRequests
  <2> DEFINE a == PoseAt(d, p)
             b == PoseAt(d, p + 7 * w)
             x == DoubleAt(d, p + 14 * w, 1)
             y == DoubleAt(d, p + 14 * w, 2)
             t == NumberIn(d, p + 16 * w, 1)
             c == NumberIn(d, (p + 16 * w) + 1, 1) # 0
             e == NumberIn(d, (p + 16 * w) + 2, w)
  <2>1. /\ a \in Pose /\ b \in Pose /\ x \in Double /\ y \in Double /\ t \in Byte
        /\ c \in BOOLEAN /\ e \in Double
    BY <1>3, <1>4, <1>5, <1>6, <1>8, <1>10, <1>12
  <2>2. r3.out = ArcOf(a, b, x, y, zero, no, zero)
    BY <1>5, <1>10, <1>12
  <2>3. /\ r4.out = With(r3.out, "orientation_type", t)
        /\ r5.out = With(r4.out, "as_circle", c)
        /\ s.out = With(r5.out, "circle_percentage", e)
    BY <1>6, <1>7, <1>8, <1>10, <1>12
  <2>6. MoveArcAt(d, p) = ArcOf(a, b, x, y, t, c, e)
    BY DEF MoveArcAt, ArcOf, w
  <2> HIDE DEF a, b, x, y, t, c, e
  <2>4. s.out = ArcOf(a, b, x, y, t, c, e)
    BY <2>2, <2>3, ArcWith
  <2>5. ArcOf(a, b, x, y, t, c, e) \in StartRequests
    BY <2>1 DEF ArcOf, StartRequests
  <2> QED
    BY <2>4, <2>5, <2>6
<1> QED
  BY <1>0, <1>9, <1>10, <1>11, <1>12 DEF d, p, w

-----------------------------------------------------------------------------
(***************************************************************************)
(* The poses of a trajectory, read in a loop.                              *)
(***************************************************************************)
PoseWidth == 7 * DoubleWidth
PosesAt(d, p, n) == [i \in 1..n |-> PoseAt(d, p + (i - 1) * PoseWidth)]

PoseLoopAt(r, f, i) ==
  IF i = 0 THEN r ELSE deserializePose(f[i - 1], <<"pose_targets", i>>)
PoseLoop(r, n, f) == f = [i \in 0..n |-> PoseLoopAt(r, f, i)]

\* f with one more value.
Longer(f, n, v) == [i \in 0..(n + 1) |-> IF i = n + 1 THEN v ELSE f[i]]

LEMMA PoseLoopExists ==
  ASSUME NEW r, NEW n \in Nat
  PROVE  \E f : PoseLoop(r, n, f)
<1> DEFINE T == {k \in Nat : \E f : PoseLoop(r, k, f)}
<1>1. 0 \in T
  <2> DEFINE f == [i \in 0..0 |-> r]
  <2>1. \A i \in 0..0 : PoseLoopAt(r, f, i) = r
    BY DEF PoseLoopAt
  <2>2. f = [i \in 0..0 |-> PoseLoopAt(r, f, i)]
    BY <2>1
  <2> HIDE DEF f
  <2> QED
    BY <2>2 DEF PoseLoop
<1>2. ASSUME NEW k \in Nat, k \in T PROVE k + 1 \in T
  <2>1. PICK f : f = [i \in 0..k |-> PoseLoopAt(r, f, i)]
    BY <1>2 DEF PoseLoop
  <2> DEFINE v == deserializePose(f[k], <<"pose_targets", k + 1>>)
             g == Longer(f, k, v)
  <2>2. /\ g[k + 1] = v
        /\ \A i \in 0..k : g[i] = f[i]
        /\ \A i \in 0..(k + 1) : i \in 0..k \/ i = k + 1
        /\ g = [i \in 0..(k + 1) |-> g[i]]
    <3> HIDE DEF v
    <3> QED
      BY DEF Longer
  <2> HIDE DEF g
  <2>3. ASSUME NEW i \in 0..(k + 1) PROVE g[i] = PoseLoopAt(r, g, i)
    <3>1. CASE i = k + 1
      <4>1. i # 0 /\ i - 1 = k /\ k \in 0..k
        BY <3>1
      <4>2. g[i - 1] = f[k]
        BY <2>2, <4>1
      <4> QED
        BY <2>2, <3>1, <4>1, <4>2 DEF PoseLoopAt
    <3>2. CASE i \in 0..k
      <4>1. f[i] = PoseLoopAt(r, f, i)
        BY <2>1, <3>2
      <4>2. i # 0 => i - 1 \in 0..k
        BY <3>2
      <4>3. i # 0 => g[i - 1] = f[i - 1]
        BY <2>2, <4>2
      <4> QED
        BY <2>2, <3>2, <4>1, <4>3 DEF PoseLoopAt
    <3> QED
      BY <2>2, <3>1, <3>2
  <2>4. PoseLoop(r, k + 1, g)
    BY <2>2, <2>3, Zenon DEF PoseLoop
  <2> QED
    BY <2>4
<1>3. Nat \subseteq T
  <2> HIDE DEF T
  <2> QED
    BY <1>1, <1>2, SetInduction
<1> QED
  BY <1>3

LEMMA PoseLoopEach ==
  ASSUME NEW r, NEW n \in Nat, NEW f, PoseLoop(r, n, f)
  PROVE  /\ f[0] = r
         /\ \A k \in Nat : k + 1 <= n =>
              f[k + 1] = deserializePose(f[k], <<"pose_targets", k + 1>>)
<1>1. \A i \in 0..n : f[i] = PoseLoopAt(r, f, i)
  BY Zenon DEF PoseLoop
<1>2. f[0] = r
  <2>1. 0 \in 0..n
    OBVIOUS
  <2> QED
    BY <1>1, <2>1 DEF PoseLoopAt
<1>3. ASSUME NEW k \in Nat, k + 1 <= n
      PROVE  f[k + 1] = deserializePose(f[k], <<"pose_targets", k + 1>>)
  <2>1. k + 1 \in 0..n /\ k + 1 # 0 /\ (k + 1) - 1 = k
    BY <1>3
  <2> QED
    BY <1>1, <2>1 DEF PoseLoopAt
<1> QED
  BY <1>2, <1>3

LEMMA PutElementWith ==
  ASSUME NEW o, NEW m, NEW i, NEW v
  PROVE  Put(o, <<m, i>>, v) = With(o, m, With(o[m], i, v))
  BY PutElement DEF With

LEMMA AtElement ==
  ASSUME NEW o, NEW m, NEW i
  PROVE  At(o, <<m, i>>) = o[m][i]
<1>1. /\ <<m, i>> # <<>> /\ Len(<<m, i>>) # 1 /\ Len(<<m, i>>) = 2
      /\ <<m, i>>[1] = m /\ <<m, i>>[2] = i
  OBVIOUS
<1> QED
  BY <1>1 DEF At

\* What i turns of the loop have made of a reader.
PosesRead(r, n, s, i) ==
  /\ Follows(r, s) /\ Sound(s)
  /\ s.ok <=> r.pos + i * PoseWidth <= Len(r.data)
  /\ s.ok => s.pos = r.pos + i * PoseWidth
  /\ \E v \in Seq(Pose) :
       /\ Len(v) = n /\ s.out = With(r.out, "pose_targets", v)
       /\ s.ok => \A j \in 1..i : v[j] = PoseAt(r.data, r.pos + (j - 1) * PoseWidth)

LEMMA PosesReadNext ==
  ASSUME NEW r, Sound(r), r.ok, "pose_targets" \in DOMAIN r.out, NEW n \in Nat,
         NEW s, NEW k \in Nat, k + 1 <= n, PosesRead(r, n, s, k)
  PROVE  PosesRead(r, n, deserializePose(s, <<"pose_targets", k + 1>>), k + 1)
<1> DEFINE path == <<"pose_targets", k + 1>>
           t == deserializePose(s, path)
           here == r.pos + k * PoseWidth
           next == r.pos + (k + 1) * PoseWidth
<1>1. /\ Follows(r, s) /\ Sound(s)
      /\ s.ok <=> here <= Len(r.data)
      /\ s.ok => s.pos = here
  BY DEF PosesRead
<1>2. PICK v \in Seq(Pose) :
        /\ Len(v) = n /\ s.out = With(r.out, "pose_targets", v)
        /\ s.ok => \A j \in 1..k : v[j] = PoseAt(r.data, r.pos + (j - 1) * PoseWidth)
  BY DEF PosesRead
<1>3. s.out["pose_targets"] = v /\ k + 1 \in 1..n /\ v[k + 1] \in Pose
  BY <1>2, WithMember
<1>4. /\ At(s.out, path) = v[k + 1]
      /\ \A p : Put(s.out, path, p) = With(r.out, "pose_targets", With(v, k + 1, p))
  <2> DEFINE i == k + 1
             m == "pose_targets"
  <2>1. path = <<m, i>> /\ s.out[m] = v /\ s.out = With(r.out, m, v)
    BY <1>2, <1>3
  <2> HIDE DEF path, i, m
  <2>2. At(s.out, path) = v[i] /\ \A p : Put(s.out, path, p) = With(s.out, m, With(v, i, p))
    BY <2>1, AtElement, PutElementWith
  <2>3. \A w : With(s.out, m, w) = With(r.out, m, w)
    BY <2>1, WithTwice
  <2> QED
    BY <2>2, <2>3 DEF i, m
<1> HIDE DEF path
<1>5. /\ Follows(s, t) /\ Sound(t)
      /\ t.ok <=> s.ok /\ s.pos + 7 * DoubleWidth <= Len(s.data)
      /\ t.ok => /\ t.pos = s.pos + 7 * DoubleWidth
                 /\ t.out = Put(s.out, path, PoseAt(s.data, s.pos))
                 /\ PoseAt(s.data, s.pos) \in Pose
      /\ ~ s.ok => t.out = s.out
      /\ s.ok => \E p \in Pose : t.out = Put(s.out, path, p)
  BY <1>1, <1>3, <1>4, PoseIs
<1> HIDE DEF t
<1>6. /\ IsReader(r) /\ Follows(r, t) /\ s.data = r.data /\ Len(r.data) \in Nat
      /\ s.ok \in BOOLEAN
  BY <1>1, <1>5, FollowsChain, ReaderType DEF Sound, Follows
<1>7. PoseWidth \in Nat \ {0} /\ r.pos \in Nat
  BY <1>6, ReaderType, WidthType DEF PoseWidth
<1>8. next = here + PoseWidth /\ here \in Nat
  BY <1>7
<1>9. PoseWidth = 7 * DoubleWidth
  BY DEF PoseWidth
<1> HIDE DEF here, next
<1>10. /\ t.ok <=> next <= Len(r.data)
       /\ t.ok => t.pos = next /\ s.ok /\ s.pos = here
  <2>1. t.ok <=> s.ok /\ s.pos + PoseWidth <= Len(r.data)
    BY <1>5, <1>6, <1>9
  <2>2. t.ok => t.pos = s.pos + PoseWidth
    BY <1>5, <1>9
  <2> QED
    BY <1>1, <1>6, <1>7, <1>8, <2>1, <2>2
<1>11. \E u \in Seq(Pose) :
         /\ Len(u) = n /\ t.out = With(r.out, "pose_targets", u)
         /\ t.ok => \A j \in 1..(k + 1) :
              u[j] = PoseAt(r.data, r.pos + (j - 1) * PoseWidth)
  <2>1. CASE ~ s.ok
    BY <1>2, <1>5, <1>10, <2>1
  <2>2. CASE s.ok
    <3>1. PICK p \in Pose : /\ t.out = With(r.out, "pose_targets", With(v, k + 1, p))
                            /\ t.ok => p = PoseAt(r.data, here)
      <4>1. CASE t.ok
        BY <1>4, <1>5, <1>6, <1>10, <4>1
      <4>2. CASE ~ t.ok
        BY <1>4, <1>5, <2>2, <4>2
      <4> QED
        BY <4>1, <4>2
    <3> DEFINE u == With(v, k + 1, p)
    <3>2. /\ u \in Seq(Pose) /\ Len(u) = n /\ u[k + 1] = p
          /\ \A j \in 1..k : u[j] = v[j]
      BY <1>2, <1>3 DEF With
    <3>3. t.out = With(r.out, "pose_targets", u)
      BY <3>1
    <3> HIDE DEF u
    <3>4. ASSUME t.ok, NEW j \in 1..(k + 1)
          PROVE  u[j] = PoseAt(r.data, r.pos + (j - 1) * PoseWidth)
      <4>1. CASE j \in 1..k
        BY <1>2, <2>2, <3>2, <4>1
      <4>2. CASE j = k + 1
        <5>1. j - 1 = k
          BY <4>2
        <5> QED
          BY <3>1, <3>2, <3>4, <4>2, <5>1 DEF here
      <4> QED
        BY <4>1, <4>2
    <3> QED
      BY <3>2, <3>3, <3>4
  <2> QED
    BY <2>1, <2>2
<1> QED
  BY <1>5, <1>6, <1>10, <1>11 DEF PosesRead, t, path, next

LEMMA PosesReadAll ==
  ASSUME NEW r, Sound(r), r.ok, "pose_targets" \in DOMAIN r.out, NEW n \in Nat,
         r.out["pose_targets"] \in Seq(Pose), Len(r.out["pose_targets"]) = n,
         r.out = With(r.out, "pose_targets", r.out["pose_targets"]),
         NEW f, PoseLoop(r, n, f)
  PROVE  PosesRead(r, n, f[n], n)
<1> DEFINE T == {k \in Nat : k <= n => PosesRead(r, n, f[k], k)}
<1>1. 0 \in T
  <2>1. f[0] = r
    BY PoseLoopEach
  <2>2. /\ IsReader(r) /\ Follows(r, r) /\ r.pos \in Nat /\ r.pos <= Len(r.data)
        /\ PoseWidth \in Nat
    BY FollowsSelf, ReaderType, WidthType DEF Sound, PoseWidth
  <2>3. r.pos + 0 * PoseWidth = r.pos
    BY <2>2
  <2>4. PosesRead(r, n, r, 0)
    BY <2>2, <2>3 DEF PosesRead
  <2> QED
    BY <2>1, <2>4
<1>2. ASSUME NEW k \in Nat, k \in T PROVE k + 1 \in T
  <2> SUFFICES ASSUME k + 1 <= n PROVE PosesRead(r, n, f[k + 1], k + 1)
    OBVIOUS
  <2>1. PosesRead(r, n, f[k], k)
    BY <1>2
  <2>2. f[k + 1] = deserializePose(f[k], <<"pose_targets", k + 1>>)
    <3>1. \A j \in Nat : j + 1 <= n => f[j + 1] = deserializePose(f[j], <<"pose_targets", j + 1>>)
      BY PoseLoopEach
    <3> QED
      BY <3>1
  <2> QED
    BY <2>1, <2>2, PosesReadNext
<1>3. Nat \subseteq T
  <2> HIDE DEF T
  <2> QED
    BY <1>1, <1>2, SetInduction
<1> QED
  BY <1>3

\* A reader that has failed passes through the loop.
LEMMA PosesNotRead ==
  ASSUME NEW r, ~ r.ok, NEW n \in Nat, NEW f, PoseLoop(r, n, f)
  PROVE  f[n] = r
<1> DEFINE T == {k \in Nat : k <= n => f[k] = r}
<1>1. 0 \in T
  BY PoseLoopEach
<1>2. ASSUME NEW k \in Nat, k \in T PROVE k + 1 \in T
  <2> SUFFICES ASSUME k + 1 <= n PROVE f[k + 1] = r
    OBVIOUS
  <2>1. f[k] = r
    BY <1>2
  <2>2. f[k + 1] = deserializePose(f[k], <<"pose_targets", k + 1>>)
    BY PoseLoopEach, SMTT(20)
  <2>3. \A path : deserializePose(r, path) = r
    BY DEF deserializePose, ReadDoubles
  <2> QED
    BY <2>1, <2>2, <2>3
<1>3. Nat \subseteq T
  <2> HIDE DEF T
  <2> QED
    BY <1>1, <1>2, SetInduction
<1> QED
  BY <1>3

\* The count of poses.
LEMMA TakeCountIs ==
  ASSUME NEW r, Sound(r)
  PROVE  /\ Follows(r, Take(r, CountWidth)) /\ Sound(Take(r, CountWidth))
         /\ Take(r, CountWidth).out = r.out
         /\ Take(r, CountWidth).ok <=> r.ok /\ r.pos + CountWidth <= Len(r.data)
         /\ Take(r, CountWidth).ok =>
              /\ Take(r, CountWidth).pos = r.pos + CountWidth
              /\ Local(Take(r, CountWidth)) = NumberIn(r.data, r.pos, CountWidth)
         /\ Local(Take(r, CountWidth)) \in Nat
<1>1. IsReader(r) /\ Room(r, CountWidth)
  BY SoundRoom DEF Sound
<1>2. /\ Follows(r, Take(r, CountWidth)) /\ Take(r, CountWidth).out = r.out
      /\ Take(r, CountWidth).ok <=> r.ok /\ r.pos + CountWidth <= Len(r.data)
      /\ Take(r, CountWidth).ok =>
           /\ Take(r, CountWidth).pos = r.pos + CountWidth
           /\ Take(r, CountWidth).taken = Window(r.data, r.pos, CountWidth)
  BY <1>1, TakeIs
<1>3. IsReader(Take(r, CountWidth))
  BY <1>2 DEF Follows
<1>4. Local(Take(r, CountWidth)) \in Nat
  BY <1>3, LocalType
<1>5. Sound(Take(r, CountWidth))
  BY <1>2, SoundFollows
<1> QED
  BY <1>2, <1>4, <1>5 DEF Local, NumberIn

TrajectoryOf(poses, x, y, type) ==
  [kind |-> "MoveTrajectory", pose_targets |-> poses, speed |-> x, acceleration |-> y,
   orientation_type |-> type]

MoveTrajectoryAt(d, p) ==
  LET n == NumberIn(d, p, CountWidth)
      q == (p + CountWidth) + n * PoseWidth
  IN TrajectoryOf(PosesAt(d, p + CountWidth, n), DoubleAt(d, q, 1), DoubleAt(d, q, 2),
                  NumberIn(d, q + 2 * DoubleWidth, 1))

LEMMA TrajectoryPoses ==
  ASSUME NEW a, NEW x, NEW y, NEW t, NEW v
  PROVE  With(TrajectoryOf(a, x, y, t), "pose_targets", v) = TrajectoryOf(v, x, y, t)
  BY DEF With, TrajectoryOf

LEMMA TrajectoryType ==
  ASSUME NEW a, NEW x, NEW y, NEW t, NEW v
  PROVE  With(TrajectoryOf(a, x, y, t), "orientation_type", v) = TrajectoryOf(a, x, y, v)
  BY DEF With, TrajectoryOf

LEMMA TrajectorySped ==
  ASSUME NEW a, NEW x, NEW y, NEW t, NEW v, NEW w
  PROVE  Sped(TrajectoryOf(a, x, y, t), v, w) = TrajectoryOf(a, v, w, t)
  BY DEF Sped, TrajectoryOf

LEMMA TrajectoryMembers ==
  ASSUME NEW a, NEW x, NEW y, NEW t, NEW o, o = TrajectoryOf(a, x, y, t)
  PROVE  /\ o = [m \in DOMAIN o |-> o[m]]
         /\ "pose_targets" \in DOMAIN o /\ "speed" \in DOMAIN o /\ "acceleration" \in DOMAIN o
         /\ o["pose_targets"] = a /\ o.speed = x /\ o.acceleration = y
  BY DEF TrajectoryOf

LEMMA TrajectoryIn ==
  ASSUME NEW a \in Seq(Pose), NEW x \in Double, NEW y \in Double, NEW t \in Byte
  PROVE  TrajectoryOf(a, x, y, t) \in StartRequests
  BY DEF TrajectoryOf, StartRequests

LEMMA PosesAre ==
  ASSUME NEW d, NEW p, NEW n \in Nat, NEW v \in Seq(Pose), Len(v) = n,
         \A j \in 1..n : v[j] = PoseAt(d, p + (j - 1) * PoseWidth)
  PROVE  v = PosesAt(d, p, n)
<1>1. v = [j \in 1..n |-> v[j]]
  OBVIOUS
<1> QED
  BY <1>1, Zenon DEF PosesAt

LEMMA PoseLoopChosen ==
  ASSUME NEW r, NEW n \in Nat
  PROVE  PoseLoop(r, n, CHOOSE f : PoseLoop(r, n, f))
<1>1. \E f : PoseLoop(r, n, f)
  BY PoseLoopExists
<1> QED
  BY <1>1, Zenon

\* The poses of a trajectory, up to its speeds.
LEMMA ReadPosesIs ==
  ASSUME NEW r, Sound(r), r.ok, NEW poses \in Seq(Pose), NEW x, NEW y, NEW t,
         r.out = TrajectoryOf(poses, x, y, t), NEW n \in Nat, Len(poses) = n,
         NEW f, PoseLoop(r, n, f)
  PROVE  /\ Follows(r, f[n]) /\ Sound(f[n])
         /\ f[n].ok <=> r.pos + n * PoseWidth <= Len(r.data)
         /\ f[n].ok => /\ f[n].pos = r.pos + n * PoseWidth
                       /\ PosesAt(r.data, r.pos, n) \in Seq(Pose)
                       /\ Len(PosesAt(r.data, r.pos, n)) = n
                       /\ f[n].out = TrajectoryOf(PosesAt(r.data, r.pos, n), x, y, t)
         /\ \E v \in Seq(Pose) : f[n].out = TrajectoryOf(v, x, y, t)
<1>1. /\ "pose_targets" \in DOMAIN r.out /\ r.out["pose_targets"] = poses
      /\ r.out = With(r.out, "pose_targets", poses)
  BY TrajectoryMembers, TrajectoryPoses
<1>2. PosesRead(r, n, f[n], n)
  BY <1>1, PosesReadAll
<1> DEFINE g == f[n]
<1>3. /\ Follows(r, g) /\ Sound(g)
      /\ g.ok <=> r.pos + n * PoseWidth <= Len(r.data)
      /\ g.ok => g.pos = r.pos + n * PoseWidth
  BY <1>2 DEF PosesRead
<1>4. PICK v \in Seq(Pose) :
        /\ Len(v) = n /\ g.out = With(r.out, "pose_targets", v)
        /\ g.ok => \A j \in 1..n : v[j] = PoseAt(r.data, r.pos + (j - 1) * PoseWidth)
  BY <1>2 DEF PosesRead
<1> HIDE DEF g
<1>5. g.ok => v = PosesAt(r.data, r.pos, n)
  BY <1>4, PosesAre
<1>6. g.out = TrajectoryOf(v, x, y, t)
  BY <1>4, TrajectoryPoses
<1> QED
  BY <1>3, <1>4, <1>5, <1>6 DEF g

LEMMA SizedPoses ==
  ASSUME NEW v \in Seq(Pose), NEW n \in Nat
  PROVE  Sized(v, n, ZeroPose) \in Seq(Pose) /\ Len(Sized(v, n, ZeroPose)) = n
<1> DEFINE e == ZeroPose
           S == Pose
<1>1. e \in S /\ v \in Seq(S)
  BY ZeroPoseType
<1> HIDE DEF e, S
<1>2. Sized(v, n, e) \in Seq(S) /\ Len(Sized(v, n, e)) = n
  BY <1>1, SizedType
<1> QED
  BY <1>2 DEF e, S

LEMMA ResizePoses ==
  ASSUME NEW r, Sound(r), r.ok, NEW n
  PROVE  LET s == Resize(r, "pose_targets", n, ZeroPose)
         IN /\ Follows(r, s) /\ Sound(s) /\ s.ok = TRUE /\ s.pos = r.pos
            /\ s.out = With(r.out, "pose_targets",
                            Sized(r.out["pose_targets"], n, ZeroPose))
<1> DEFINE e == ZeroPose
           m == "pose_targets"
<1> HIDE DEF e, m
<1>1. Grown(r, Resize(r, m, n, e), m, n, e)
  BY ResizeWith
<1> QED
  BY <1>1 DEF e, m, Grown

LEMMA TrajectoryReads ==
  ASSUME NEW r
  PROVE  LET s == Take(r, CountWidth)
             z == Resize(Require(s, Local(s) <= MaxPoses), "pose_targets", Local(s), ZeroPose)
         IN deserializeMoveTrajectoryRequest(r)
              = ReadTo(ReadSpeed((CHOOSE f : PoseLoop(z, Local(s), f))[Local(s)]),
                       "u8", "orientation_type")
  BY Zenon DEF deserializeMoveTrajectoryRequest, PoseLoop, PoseLoopAt

LEMMA MoveTrajectoryIs ==
  ASSUME NEW r, Sound(r), r.out = Blank("MoveTrajectory")
  PROVE  LET s == deserializeMoveTrajectoryRequest(r)
             n == NumberIn(r.data, r.pos, CountWidth)
             q == (r.pos + CountWidth) + n * PoseWidth
             e == (q + 2 * DoubleWidth) + 1
         IN /\ Follows(r, s)
            /\ s.ok <=> /\ r.ok /\ r.pos + CountWidth <= Len(r.data) /\ n <= MaxPoses
                        /\ e <= Len(r.data)
            /\ s.ok => /\ s.pos = e /\ n \in 0..MaxPoses
                       /\ s.out = MoveTrajectoryAt(r.data, r.pos)
                       /\ s.out \in StartRequests
                       /\ Len(PosesAt(r.data, r.pos + CountWidth, n)) = n
                       /\ PosesAt(r.data, r.pos + CountWidth, n) \in Seq(Pose)
<1> DEFINE d == r.data
           c == Take(r, CountWidth)
           n == Local(c)
           l == n <= MaxPoses
           m == Require(c, l)
           z == Resize(m, "pose_targets", n, ZeroPose)
           f == CHOOSE f : PoseLoop(z, n, f)
           g == f[n]
           h == ReadSpeed(g)
           s == ReadTo(h, "u8", "orientation_type")
           q == (r.pos + CountWidth) + n * PoseWidth
           zero == 0
<1>0. s = deserializeMoveTrajectoryRequest(r)
  BY TrajectoryReads, Zenon
<1>1. r.out = TrajectoryOf(<<>>, zero, zero, zero)
  BY DEF Blank, TrajectoryOf
<1>z. zero \in Double /\ zero \in Byte
  BY ZeroPoseType
<1> HIDE DEF zero
<1>2. /\ IsReader(r) /\ d \in Seq(Byte) /\ r.pos \in Nat /\ Len(d) \in Nat
      /\ CountWidth \in Nat \ {0} /\ PoseWidth \in Nat \ {0} /\ DoubleWidth \in Nat \ {0}
      /\ MaxPoses \in Nat
  BY ReaderType, WidthType, LimitsType DEF Sound, PoseWidth
<1>3. /\ Follows(r, c) /\ Sound(c) /\ c.out = r.out /\ n \in Nat
      /\ c.ok <=> r.ok /\ r.pos + CountWidth <= Len(d)
      /\ c.ok => c.pos = r.pos + CountWidth /\ n = NumberIn(d, r.pos, CountWidth)
  BY TakeCountIs
<1> HIDE DEF c
<1>4. IsReader(c) /\ l \in BOOLEAN /\ c.data = d
  BY <1>3 DEF Sound, Follows
<1> HIDE DEF n
<1>l. l <=> n <= MaxPoses
  OBVIOUS
<1> HIDE DEF l
<1>5. /\ Follows(c, m) /\ m.out = c.out /\ m.pos = c.pos
      /\ m.ok <=> c.ok /\ l
  BY <1>4, RequireIs
<1> HIDE DEF m
<1>6. Follows(r, m) /\ Sound(m) /\ m.data = d /\ IsReader(m)
  BY <1>2, <1>3, <1>4, <1>5, FollowsChain, SoundFollows DEF Follows, Sound
<1>7. PoseLoop(z, n, f)
  BY <1>3, PoseLoopChosen
<1> HIDE DEF f
<1>8. /\ Follows(m, g) /\ Sound(g) /\ g.data = d
      /\ g.ok <=> m.ok /\ (r.pos + CountWidth) + n * PoseWidth <= Len(d)
      /\ g.ok => /\ g.pos = q
                 /\ PosesAt(d, r.pos + CountWidth, n) \in Seq(Pose)
                 /\ Len(PosesAt(d, r.pos + CountWidth, n)) = n
                 /\ g.out = TrajectoryOf(PosesAt(d, r.pos + CountWidth, n), zero, zero, zero)
      /\ \E v \in Seq(Pose) : g.out = TrajectoryOf(v, zero, zero, zero)
  <2>1. CASE ~ m.ok
    <3>1. z = m
      BY <2>1 DEF Resize
    <3>2. g = m
      BY <1>3, <1>7, <2>1, <3>1, PosesNotRead
    <3>3. <<>> \in Seq(Pose)
      OBVIOUS
    <3> HIDE DEF g
    <3> QED
      BY <1>1, <1>3, <1>5, <1>6, <2>1, <3>2, <3>3, FollowsSelf
  <2>2. CASE m.ok
    <3> DEFINE u == Sized(r.out["pose_targets"], n, ZeroPose)
    <3>1. /\ Follows(m, z) /\ Sound(z) /\ z.ok = TRUE /\ z.pos = m.pos
          /\ z.out = With(m.out, "pose_targets", Sized(m.out["pose_targets"], n, ZeroPose))
      <4>1. Sound(m) /\ m.ok
        BY <1>6, <2>2
      <4> QED
        BY <4>1, ResizePoses
    <3>2. u \in Seq(Pose) /\ Len(u) = n
      <4>1. r.out["pose_targets"] \in Seq(Pose)
        <5>1. r.out["pose_targets"] = <<>>
          BY <1>1, TrajectoryMembers
        <5>2. <<>> \in Seq(Pose)
          OBVIOUS
        <5> QED
          BY <5>1, <5>2, Zenon
      <4> QED
        BY <1>3, <4>1, SizedPoses
    <3>3. z.out = TrajectoryOf(u, zero, zero, zero)
      <4>1. z.out = With(r.out, "pose_targets", u)
        BY <1>3, <1>5, <3>1
      <4> HIDE DEF u, z
      <4> QED
        BY <1>1, <4>1, TrajectoryPoses
    <3> HIDE DEF u, z
    <3>4. /\ Follows(z, g) /\ Sound(g)
          /\ g.ok <=> z.pos + n * PoseWidth <= Len(z.data)
          /\ g.ok => /\ g.pos = z.pos + n * PoseWidth
                     /\ PosesAt(z.data, z.pos, n) \in Seq(Pose)
                     /\ Len(PosesAt(z.data, z.pos, n)) = n
                     /\ g.out = TrajectoryOf(PosesAt(z.data, z.pos, n), zero, zero, zero)
          /\ \E v \in Seq(Pose) : g.out = TrajectoryOf(v, zero, zero, zero)
      <4>1. z.ok
        BY <3>1
      <4> QED
        BY <1>3, <1>7, <3>1, <3>2, <3>3, <4>1, ReadPosesIs
    <3> HIDE DEF g
    <3>5. z.data = d /\ z.pos = r.pos + CountWidth
      BY <1>3, <1>5, <1>6, <2>2, <3>1 DEF Follows
    <3>6. Follows(m, g)
      BY <1>6, <3>1, <3>4, FollowsChain
    <3>7. g.data = d
      BY <3>4, <3>5 DEF Follows
    <3> QED
      BY <2>2, <3>4, <3>5, <3>6, <3>7
  <2> QED
    BY <2>1, <2>2
<1> HIDE DEF z, g
<1>9. /\ g.out = [k \in DOMAIN g.out |-> g.out[k]]
      /\ "speed" \in DOMAIN g.out /\ "acceleration" \in DOMAIN g.out
      /\ g.out.speed \in Double /\ g.out.acceleration \in Double
  BY <1>8, <1>z, TrajectoryMembers
<1>10. /\ Follows(g, h) /\ Sound(h)
       /\ h.ok <=> g.ok /\ g.pos + 2 * DoubleWidth <= Len(g.data)
       /\ h.ok => /\ h.pos = g.pos + 2 * DoubleWidth
                  /\ h.out = Sped(g.out, DoubleAt(g.data, g.pos, 1),
                                         DoubleAt(g.data, g.pos, 2))
                  /\ DoubleAt(g.data, g.pos, 1) \in Double
                  /\ DoubleAt(g.data, g.pos, 2) \in Double
  BY <1>8, <1>9, ReadSpeedIs
<1> HIDE DEF h
<1>11. h.data = d
  BY <1>8, <1>10 DEF Follows
<1>12. /\ Follows(h, s)
       /\ s.ok <=> h.ok /\ h.pos + 1 <= Len(d)
       /\ s.ok => /\ s.pos = h.pos + 1 /\ NumberIn(d, h.pos, 1) \in Byte
                  /\ s.out = With(h.out, "orientation_type", NumberIn(d, h.pos, 1))
  BY <1>10, <1>11, ReadByteToIs
<1> HIDE DEF s
<1>13. Follows(r, s)
  <2>1. Follows(r, g)
    BY <1>2, <1>6, <1>8, FollowsChain
  <2>2. Follows(r, h)
    BY <1>2, <1>10, <2>1, FollowsChain
  <2> QED
    BY <1>2, <1>12, <2>2, FollowsChain
<1> DEFINE all == n * PoseWidth
<1>14. all \in Nat
  BY <1>2, <1>3
<1> HIDE DEF d
<1>15. /\ m.ok <=> r.ok /\ r.pos + CountWidth <= Len(d) /\ n <= MaxPoses
       /\ m.ok => n = NumberIn(d, r.pos, CountWidth)
  BY <1>3, <1>5, <1>l
<1>16. /\ g.ok <=> m.ok /\ q <= Len(d)
       /\ g.ok => g.pos = q
       /\ h.ok <=> g.ok /\ g.pos + 2 * DoubleWidth <= Len(d)
       /\ h.ok => h.pos = g.pos + 2 * DoubleWidth
       /\ s.ok <=> h.ok /\ h.pos + 1 <= Len(d)
       /\ s.ok => s.pos = h.pos + 1
  BY <1>8, <1>10, <1>11, <1>12
<1>17. q \in Nat
  BY <1>2, <1>14
<1> HIDE DEF q, all
<1>18. /\ s.ok <=> m.ok /\ (q + 2 * DoubleWidth) + 1 <= Len(d)
       /\ s.ok => /\ s.pos = (q + 2 * DoubleWidth) + 1 /\ m.ok /\ g.ok /\ h.ok
                  /\ g.pos = q /\ h.pos = q + 2 * DoubleWidth
  BY <1>2, <1>16, <1>17
<1>19. ASSUME s.ok
       PROVE  /\ n \in 0..MaxPoses /\ s.out = MoveTrajectoryAt(d, r.pos)
              /\ s.out \in StartRequests
              /\ Len(PosesAt(d, r.pos + CountWidth, n)) = n
              /\ PosesAt(d, r.pos + CountWidth, n) \in Seq(Pose)
  <2> DEFINE v == PosesAt(d, r.pos + CountWidth, n)
             x == DoubleAt(d, q, 1)
             y == DoubleAt(d, q, 2)
             t == NumberIn(d, q + 2 * DoubleWidth, 1)
  <2>1. n \in 0..MaxPoses /\ n = NumberIn(d, r.pos, CountWidth)
    BY <1>2, <1>3, <1>15, <1>18, <1>19
  <2>2. /\ v \in Seq(Pose) /\ Len(v) = n /\ x \in Double /\ y \in Double /\ t \in Byte
        /\ g.out = TrajectoryOf(v, zero, zero, zero)
        /\ h.out = Sped(g.out, x, y)
        /\ s.out = With(h.out, "orientation_type", t)
    BY <1>8, <1>10, <1>12, <1>18, <1>19
  <2>3. MoveTrajectoryAt(d, r.pos) = TrajectoryOf(v, x, y, t)
    BY <2>1 DEF MoveTrajectoryAt, q
  <2> HIDE DEF v, x, y, t
  <2>4. h.out = TrajectoryOf(v, x, y, zero)
    BY <2>2, TrajectorySped
  <2>5. s.out = TrajectoryOf(v, x, y, t)
    BY <2>2, <2>4, TrajectoryType
  <2>6. s.out \in StartRequests
    BY <2>2, <2>5, TrajectoryIn
  <2> QED
    BY <2>1, <2>2, <2>3, <2>5, <2>6 DEF v
<1>20. s.ok => n = NumberIn(d, r.pos, CountWidth)
  BY <1>15, <1>18
<1>21. m.ok <=> /\ r.ok /\ r.pos + CountWidth <= Len(d)
                /\ NumberIn(d, r.pos, CountWidth) <= MaxPoses
  BY <1>3, <1>5, <1>l
<1>22. m.ok => n = NumberIn(d, r.pos, CountWidth)
  BY <1>15
<1> QED
  BY <1>0, <1>13, <1>18, <1>19, <1>20, <1>21, <1>22 DEF q, d

-----------------------------------------------------------------------------
(***************************************************************************)
(* Every deserializer of a start request, and deserialize.                 *)
(***************************************************************************)
Readable(data) == data \in Seq(Byte) /\ Len(data) + LongestRead < SizeRange

StartAt(kind, d, p) ==
  CASE kind = "MoveJoint"      -> MoveJointAt(d, p)
    [] kind = "MoveLinear"     -> MoveLinearAt(d, p)
    [] kind = "MoveArc"        -> MoveArcAt(d, p)
    [] kind = "MoveTrajectory" -> MoveTrajectoryAt(d, p)
    [] kind = "GetRobotSpecs"  -> [kind |-> "GetRobotSpecs"]

\* The counts are in their limits.
Counts(kind, d, p) ==
  /\ kind = "MoveJoint" => p + 1 <= Len(d) /\ NumberIn(d, p, 1) <= MaxJoints
  /\ kind = "MoveTrajectory" =>
       p + CountWidth <= Len(d) /\ NumberIn(d, p, CountWidth) <= MaxPoses

StartEnd(kind, d, p) ==
  CASE kind = "MoveJoint" ->
         ((p + 1) + NumberIn(d, p, 1) * DoubleWidth) + 2 * DoubleWidth
    [] kind = "MoveLinear" -> (p + 7 * DoubleWidth) + 2 * DoubleWidth
    [] kind = "MoveArc" -> (p + 17 * DoubleWidth) + 2
    [] kind = "MoveTrajectory" ->
         (((p + CountWidth) + NumberIn(d, p, CountWidth) * PoseWidth) + 2 * DoubleWidth) + 1
    [] kind = "GetRobotSpecs" -> p

LEMMA KindsAre ==
  /\ DOMAIN RequestType =
       {"MoveJoint", "MoveLinear", "MoveArc", "MoveTrajectory", "GetRobotSpecs"}
  /\ RequestType["MoveJoint"] = 0 /\ RequestType["MoveLinear"] = 1
  /\ RequestType["MoveArc"] = 2 /\ RequestType["MoveTrajectory"] = 3
  /\ RequestType["GetRobotSpecs"] = 4
  BY DEF RequestType

LEMMA BlankIs ==
  ASSUME NEW r, Sound(r), NEW o
  PROVE  LET s == [r EXCEPT !.out = o]
         IN /\ Sound(s) /\ s.out = o /\ s.data = r.data /\ s.pos = r.pos
            /\ s.inside = r.inside /\ s.ok = r.ok
<1> DEFINE s == [r EXCEPT !.out = o]
<1>1. IsReader(r) /\ Len(r.data) + LongestRead < SizeRange
  BY DEF Sound
<1>2. /\ s.out = o /\ s.data = r.data /\ s.pos = r.pos /\ s.taken = r.taken
      /\ s.inside = r.inside /\ s.ok = r.ok
      /\ s = [data |-> s.data, pos |-> s.pos, taken |-> s.taken, out |-> s.out,
              ok |-> s.ok, inside |-> s.inside]
  BY <1>1 DEF IsReader
<1> HIDE DEF s
<1>3. IsReader(s)
  BY <1>1, <1>2, ReaderType DEF IsReader
<1> QED
  BY <1>1, <1>2, <1>3 DEF Sound, s

LEMMA ParsedIs ==
  ASSUME NEW r, Sound(r), NEW kind \in DOMAIN RequestType
  PROVE  LET s == Parsed(r, kind)
         IN /\ IsReader(s) /\ s.data = r.data /\ s.inside = r.inside
            /\ s.ok <=> /\ r.ok /\ Counts(kind, r.data, r.pos)
                        /\ StartEnd(kind, r.data, r.pos) <= Len(r.data)
            /\ s.ok => /\ s.pos = StartEnd(kind, r.data, r.pos)
                       /\ s.out = StartAt(kind, r.data, r.pos)
                       /\ s.out \in StartRequests
<1> DEFINE b == [r EXCEPT !.out = Blank(kind)]
           s == Parsed(r, kind)
           d == r.data
           p == r.pos
           end == StartEnd(kind, d, p)
<1> SUFFICES /\ IsReader(s) /\ s.data = d /\ s.inside = r.inside
             /\ s.ok <=> r.ok /\ Counts(kind, d, p) /\ end <= Len(d)
             /\ s.ok => s.pos = end /\ s.out = StartAt(kind, d, p) /\ s.out \in StartRequests
  OBVIOUS
<1>1. /\ Sound(b) /\ b.out = Blank(kind) /\ b.data = d /\ b.pos = p
      /\ b.inside = r.inside /\ b.ok = r.ok
  <2> DEFINE o == Blank(kind)
  <2> HIDE DEF o
  <2>1. /\ Sound([r EXCEPT !.out = o]) /\ [r EXCEPT !.out = o].out = o
        /\ [r EXCEPT !.out = o].data = d /\ [r EXCEPT !.out = o].pos = p
        /\ [r EXCEPT !.out = o].inside = r.inside /\ [r EXCEPT !.out = o].ok = r.ok
    BY BlankIs
  <2> QED
    BY <2>1 DEF o
<1>2. /\ kind = "MoveJoint" => s = deserializeMoveJointRequest(b)
      /\ kind = "MoveLinear" => s = deserializeMoveLinearRequest(b)
      /\ kind = "MoveArc" => s = deserializeMoveArcRequest(b)
      /\ kind = "MoveTrajectory" => s = deserializeMoveTrajectoryRequest(b)
      /\ kind = "GetRobotSpecs" => s = b
  <2> HIDE DEF b
  <2> QED
    BY Zenon DEF Parsed, b
<1> HIDE DEF b, s
<1>3. IsReader(r) /\ p \in Nat /\ Len(d) \in Nat /\ p <= Len(d)
  BY ReaderType DEF Sound
<1> HIDE DEF d, p, end
<1>4. CASE kind = "MoveJoint"
  <2>1. Counts(kind, d, p) <=> p + 1 <= Len(d) /\ NumberIn(d, p, 1) <= MaxJoints
    BY <1>4 DEF Counts
  <2>2. /\ end = ((p + 1) + NumberIn(d, p, 1) * DoubleWidth) + 2 * DoubleWidth
        /\ StartAt(kind, d, p) = MoveJointAt(d, p)
    BY <1>4 DEF StartEnd, StartAt, end
  <2>3. /\ Follows(b, s)
        /\ s.ok <=> /\ b.ok /\ b.pos + 1 <= Len(b.data) /\ NumberIn(b.data, b.pos, 1) <= MaxJoints
                    /\ ((b.pos + 1) + NumberIn(b.data, b.pos, 1) * DoubleWidth) + 2 * DoubleWidth
                         <= Len(b.data)
        /\ s.ok =>
             /\ s.pos = ((b.pos + 1) + NumberIn(b.data, b.pos, 1) * DoubleWidth)
                        + 2 * DoubleWidth
             /\ s.out = MoveJointAt(b.data, b.pos)
             /\ s.out \in StartRequests
    BY <1>1, <1>2, <1>4, MoveJointIs
  <2> QED
    BY <1>1, <2>1, <2>2, <2>3 DEF Follows
<1>5. CASE kind = "MoveLinear"
  <2>1. Counts(kind, d, p)
    BY <1>5 DEF Counts
  <2>2. /\ end = (p + 7 * DoubleWidth) + 2 * DoubleWidth
        /\ StartAt(kind, d, p) = MoveLinearAt(d, p)
    BY <1>5 DEF StartEnd, StartAt, end
  <2>3. /\ Follows(b, s)
        /\ s.ok <=> b.ok /\ (b.pos + 7 * DoubleWidth) + 2 * DoubleWidth <= Len(b.data)
        /\ s.ok => /\ s.pos = (b.pos + 7 * DoubleWidth) + 2 * DoubleWidth
                   /\ s.out = MoveLinearAt(b.data, b.pos)
                   /\ s.out \in StartRequests
    BY <1>1, <1>2, <1>5, MoveLinearIs
  <2> QED
    BY <1>1, <2>1, <2>2, <2>3 DEF Follows
<1>6. CASE kind = "MoveArc"
  <2>1. Counts(kind, d, p)
    BY <1>6 DEF Counts
  <2>2. /\ end = (p + 17 * DoubleWidth) + 2
        /\ StartAt(kind, d, p) = MoveArcAt(d, p)
    BY <1>6 DEF StartEnd, StartAt, end
  <2>3. /\ Follows(b, s)
        /\ s.ok <=> b.ok /\ (b.pos + 17 * DoubleWidth) + 2 <= Len(b.data)
        /\ s.ok => /\ s.pos = (b.pos + 17 * DoubleWidth) + 2
                   /\ s.out = MoveArcAt(b.data, b.pos)
                   /\ s.out \in StartRequests
    BY <1>1, <1>2, <1>6, MoveArcIs
  <2> QED
    BY <1>1, <2>1, <2>2, <2>3 DEF Follows
<1>7. CASE kind = "MoveTrajectory"
  <2> DEFINE n == NumberIn(b.data, b.pos, CountWidth)
             e == (((b.pos + CountWidth) + n * PoseWidth) + 2 * DoubleWidth) + 1
  <2>1. Counts(kind, d, p) <=> /\ p + CountWidth <= Len(d)
                               /\ NumberIn(d, p, CountWidth) <= MaxPoses
    BY <1>7 DEF Counts
  <2>2. /\ end = (((p + CountWidth) + NumberIn(d, p, CountWidth) * PoseWidth)
                  + 2 * DoubleWidth) + 1
        /\ StartAt(kind, d, p) = MoveTrajectoryAt(d, p)
    BY <1>7 DEF StartEnd, StartAt, end
  <2>3. /\ Follows(b, s)
        /\ s.ok <=> b.ok /\ b.pos + CountWidth <= Len(b.data) /\ n <= MaxPoses /\ e <= Len(b.data)
        /\ s.ok => /\ s.pos = e
                   /\ s.out = MoveTrajectoryAt(b.data, b.pos)
                   /\ s.out \in StartRequests
    BY <1>1, <1>2, <1>7, MoveTrajectoryIs
  <2> QED
    BY <1>1, <2>1, <2>2, <2>3 DEF Follows
<1>8. CASE kind = "GetRobotSpecs"
  <2>1. Counts(kind, d, p)
    BY <1>8 DEF Counts
  <2>2. end = p /\ StartAt(kind, d, p) = [kind |-> "GetRobotSpecs"]
    BY <1>8 DEF StartEnd, StartAt, end
  <2>3. b.out = [kind |-> "GetRobotSpecs"]
    BY <1>1, <1>8 DEF Blank
  <2>4. b.out \in StartRequests
    BY <2>3 DEF StartRequests
  <2>5. s = b /\ IsReader(s)
    BY <1>1, <1>2, <1>8 DEF Sound
  <2> QED
    BY <1>1, <1>3, <2>1, <2>2, <2>3, <2>4, <2>5
<1> QED
  BY <1>4, <1>5, <1>6, <1>7, <1>8, KindsAre

\* The version and the type at the start of a payload.
Tagged(data, o) == Read(ReadVersion(Reader(data, o)), "u8")

LEMMA TaggedIs ==
  ASSUME NEW data, Readable(data), NEW o
  PROVE  LET t == Tagged(data, o)
         IN /\ Sound(t) /\ t.data = data /\ t.out = Reader(data, o).out /\ t.inside = TRUE
            /\ t.ok <=> 2 <= Len(data) /\ NumberIn(data, 0, 1) = Version
            /\ t.ok => t.pos = 2 /\ Local(t) = NumberIn(data, 1, 1)
            /\ t.ok => NumberIn(data, 1, 1) \in Byte
            /\ Local(t) \in Nat
<1> DEFINE r == Reader(data, o)
           v == ReadVersion(r)
           t == Read(v, "u8")
<1>0. data \in Seq(Byte) /\ Len(data) + LongestRead < SizeRange
  BY DEF Readable
<1>1. /\ Sound(r) /\ r.data = data /\ r.pos = 0 /\ r.out = o /\ r.ok = TRUE
      /\ r.inside = TRUE /\ Len(data) \in Nat
  <2>1. Sound(Reader(data, o))
    BY <1>0, SoundReader, Zenon
  <2>2. /\ Reader(data, o).data = data /\ Reader(data, o).pos = 0
        /\ Reader(data, o).out = o
    BY DEF Reader
  <2>3. Reader(data, o).ok = TRUE /\ Reader(data, o).inside = TRUE
    BY <1>0, SoundReader, Zenon
  <2>4. Len(data) \in Nat
    BY <1>0
  <2> QED
    BY <2>1, <2>2, <2>3, <2>4
<1> HIDE DEF r
<1>2. /\ Follows(r, v) /\ Sound(v) /\ v.out = r.out
      /\ v.ok <=> /\ r.ok /\ r.pos + 1 <= Len(r.data)
                  /\ NumberIn(r.data, r.pos, 1) = Version
      /\ v.ok => v.pos = r.pos + 1
  BY <1>1, ReadVersionIs
<1> HIDE DEF v
<1>3. /\ Follows(v, t) /\ Sound(t) /\ t.out = v.out
      /\ t.ok <=> v.ok /\ v.pos + 1 <= Len(v.data)
      /\ t.ok => /\ t.pos = v.pos + 1 /\ Local(t) = NumberIn(v.data, v.pos, 1)
                 /\ NumberIn(v.data, v.pos, 1) \in Byte
      /\ Local(t) \in Nat
  BY <1>2, ReadByteIs
<1> HIDE DEF t
<1>4. v.data = data /\ t.data = data /\ t.inside = TRUE
  BY <1>1, <1>2, <1>3 DEF Follows
<1>5. v.ok => v.pos = 1
  BY <1>1, <1>2
<1>6. v.ok <=> 1 <= Len(data) /\ NumberIn(data, 0, 1) = Version
  BY <1>1, <1>2
<1>7. t.ok <=> 2 <= Len(data) /\ NumberIn(data, 0, 1) = Version
  BY <1>1, <1>3, <1>4, <1>5, <1>6
<1>8. t.ok => /\ t.pos = 2 /\ Local(t) = NumberIn(data, 1, 1)
              /\ NumberIn(data, 1, 1) \in Byte
  BY <1>3, <1>4, <1>5
<1> QED
  BY <1>1, <1>2, <1>3, <1>4, <1>7, <1>8 DEF Tagged, r, v, t

LEMMA TaggedOld ==
  ASSUME NEW data, Readable(data), NEW old
  PROVE  LET t == Tagged(data, old)
         IN /\ Sound(t) /\ t.data = data /\ t.out = old /\ t.inside = TRUE
            /\ t.ok <=> 2 <= Len(data) /\ NumberIn(data, 0, 1) = Version
            /\ t.ok => t.pos = 2 /\ Local(t) = NumberIn(data, 1, 1)
<1> DEFINE t == Tagged(data, old)
<1>1. /\ Sound(t) /\ t.data = data /\ t.out = old /\ t.inside = TRUE
      /\ t.ok <=> 2 <= Len(data) /\ NumberIn(data, 0, 1) = Version
      /\ t.ok => t.pos = 2 /\ Local(t) = NumberIn(data, 1, 1)
  <2>1. Sound(t) /\ t.data = data
    BY TaggedIs
  <2>5. t.out = old
    <3>1. t.out = Reader(data, old).out
      BY TaggedIs
    <3>2. Reader(data, old).out = old
      BY DEF Reader
    <3> QED
      BY <3>1, <3>2, Zenon
  <2>2. t.inside = TRUE
    BY TaggedIs
  <2>3. t.ok <=> 2 <= Len(data) /\ NumberIn(data, 0, 1) = Version
    BY TaggedIs
  <2>4. t.ok => t.pos = 2 /\ Local(t) = NumberIn(data, 1, 1)
    BY TaggedIs
  <2> QED
    BY <2>1, <2>2, <2>3, <2>4, <2>5
<1> QED
  BY <1>1

\* A request that is refused leaves the old object.
LeftOld(s, old) == ~ s.ok => s.out = old

\* deserialize: the request that the bytes make, or no request and the old object.
LEMMA DeserializeIs ==
  ASSUME NEW data, Readable(data), NEW old
  PROVE  LET s == deserialize(data, old)
         IN /\ s.data = data /\ s.inside = TRUE /\ s.ok \in BOOLEAN /\ s.pos \in 0..Len(data)
            /\ LeftOld(s, old)
            /\ \A kind \in DOMAIN RequestType :
                 2 <= Len(data) /\ NumberIn(data, 1, 1) = RequestType[kind] =>
                 /\ s.ok <=> /\ NumberIn(data, 0, 1) = Version
                             /\ Counts(kind, data, 2) /\ StartEnd(kind, data, 2) <= Len(data)
                 /\ s.ok => /\ s.pos = StartEnd(kind, data, 2)
                            /\ s.out = StartAt(kind, data, 2)
                            /\ s.out \in StartRequests
            /\ s.ok => /\ 2 <= Len(data)
                       /\ \E kind \in DOMAIN RequestType :
                            NumberIn(data, 1, 1) = RequestType[kind]
<1> DEFINE t == Tagged(data, old)
           kinds == {kind \in DOMAIN RequestType : RequestType[kind] = Local(t)}
           chosen == CHOOSE kind \in kinds : TRUE
           parsed == Parsed(t, chosen)
           s == deserialize(data, old)
<1>1. /\ Sound(t) /\ t.data = data /\ t.out = old /\ t.inside = TRUE
      /\ t.ok <=> 2 <= Len(data) /\ NumberIn(data, 0, 1) = Version
      /\ t.ok => t.pos = 2 /\ Local(t) = NumberIn(data, 1, 1)
  BY TaggedOld
<1>2. s = IF ~ t.ok \/ kinds = {} THEN Require(t, FALSE)
          ELSE IF parsed.ok THEN parsed ELSE [parsed EXCEPT !.out = old]
  BY Zenon DEF deserialize, Tagged
<1> SUFFICES
      /\ s.data = data /\ s.inside = TRUE /\ s.ok \in BOOLEAN /\ s.pos \in 0..Len(data)
      /\ LeftOld(s, old)
      /\ \A kind \in DOMAIN RequestType :
           2 <= Len(data) /\ NumberIn(data, 1, 1) = RequestType[kind] =>
           /\ s.ok <=> /\ NumberIn(data, 0, 1) = Version
                       /\ Counts(kind, data, 2) /\ StartEnd(kind, data, 2) <= Len(data)
           /\ s.ok => /\ s.pos = StartEnd(kind, data, 2)
                      /\ s.out = StartAt(kind, data, 2)
                      /\ s.out \in StartRequests
      /\ s.ok => /\ 2 <= Len(data)
                 /\ \E kind \in DOMAIN RequestType : NumberIn(data, 1, 1) = RequestType[kind]
  OBVIOUS
<1> HIDE DEF t, s
<1>3. IsReader(t) /\ t.ok \in BOOLEAN
  BY <1>1, ReaderType DEF Sound
<1>4. CASE ~ t.ok \/ kinds = {}
  <2>1. s = Require(t, FALSE)
    BY <1>2, <1>4
  <2>2. /\ Follows(t, Require(t, FALSE)) /\ Require(t, FALSE).out = t.out
        /\ ~ Require(t, FALSE).ok
    <3> DEFINE no == FALSE
    <3>1. no \in BOOLEAN /\ ~ no
      OBVIOUS
    <3> HIDE DEF no
    <3>2. /\ Follows(t, Require(t, no)) /\ Require(t, no).out = t.out
          /\ Require(t, no).ok <=> t.ok /\ no
      BY <1>3, <3>1, RequireIs
    <3> QED
      BY <3>1, <3>2 DEF no
  <2>3. Follows(t, s) /\ s.out = old /\ ~ s.ok
    BY <1>1, <2>1, <2>2
  <2>4. s.data = data /\ s.inside = TRUE /\ s.pos \in 0..Len(data) /\ s.ok \in BOOLEAN
    BY <1>1, <2>3, ReaderType DEF Follows, IsReader
  <2>5. ASSUME NEW kind \in DOMAIN RequestType, 2 <= Len(data),
               NumberIn(data, 1, 1) = RequestType[kind], NumberIn(data, 0, 1) = Version
        PROVE  FALSE
    <3>1. t.ok /\ Local(t) = RequestType[kind]
      BY <1>1, <2>5
    <3>2. kind \in kinds
      BY <3>1
    <3> QED
      BY <1>4, <3>1, <3>2
  <2> DEFINE good(kind) ==
               /\ s.ok <=> /\ NumberIn(data, 0, 1) = Version
                           /\ Counts(kind, data, 2) /\ StartEnd(kind, data, 2) <= Len(data)
               /\ s.ok => /\ s.pos = StartEnd(kind, data, 2)
                          /\ s.out = StartAt(kind, data, 2)
                          /\ s.out \in StartRequests
  <2>6. ASSUME NEW kind \in DOMAIN RequestType, 2 <= Len(data),
               NumberIn(data, 1, 1) = RequestType[kind]
        PROVE  good(kind)
    BY <2>3, <2>5, <2>6
  <2> HIDE DEF good
  <2>7. \A kind \in DOMAIN RequestType :
          2 <= Len(data) /\ NumberIn(data, 1, 1) = RequestType[kind] => good(kind)
    BY <2>6, Zenon
  <2> QED
    BY <2>3, <2>4, <2>7, Zenon DEF good, LeftOld
<1>5. CASE t.ok /\ kinds # {}
  <2>1. chosen \in kinds
    BY <1>5, Zenon
  <2>2. /\ chosen \in DOMAIN RequestType /\ RequestType[chosen] = NumberIn(data, 1, 1)
        /\ 2 <= Len(data) /\ NumberIn(data, 0, 1) = Version /\ t.pos = 2
    BY <1>1, <1>5, <2>1
  <2> HIDE DEF chosen
  <2>3. /\ IsReader(parsed) /\ parsed.data = data /\ parsed.inside = TRUE
        /\ parsed.ok <=> /\ Counts(chosen, data, 2) /\ StartEnd(chosen, data, 2) <= Len(data)
        /\ parsed.ok => /\ parsed.pos = StartEnd(chosen, data, 2)
                        /\ parsed.out = StartAt(chosen, data, 2)
                        /\ parsed.out \in StartRequests
    BY <1>1, <1>5, <2>2, ParsedIs
  <2> HIDE DEF parsed
  <2>4. s = IF parsed.ok THEN parsed ELSE [parsed EXCEPT !.out = old]
    BY <1>2, <1>5
  <2>5. /\ s.data = data /\ s.inside = TRUE /\ s.ok \in BOOLEAN /\ s.pos \in 0..Len(data)
        /\ s.ok <=> parsed.ok
        /\ ~ s.ok => s.out = old
        /\ s.ok => s = parsed
    <3>1. CASE parsed.ok
      BY <2>3, <2>4, <3>1 DEF IsReader
    <3>2. CASE ~ parsed.ok
      BY <2>3, <2>4, <3>2 DEF IsReader
    <3> QED
      BY <3>1, <3>2
  <2>6. ASSUME NEW kind \in DOMAIN RequestType, NumberIn(data, 1, 1) = RequestType[kind]
        PROVE  kind = chosen
    BY <2>2, <2>6, KindsAre
  <2> DEFINE good(kind) ==
               /\ s.ok <=> /\ NumberIn(data, 0, 1) = Version
                           /\ Counts(kind, data, 2) /\ StartEnd(kind, data, 2) <= Len(data)
               /\ s.ok => /\ s.pos = StartEnd(kind, data, 2)
                          /\ s.out = StartAt(kind, data, 2)
                          /\ s.out \in StartRequests
  <2>7. good(chosen)
    BY <2>2, <2>3, <2>5
  <2> HIDE DEF good
  <2>8. \A kind \in DOMAIN RequestType :
          2 <= Len(data) /\ NumberIn(data, 1, 1) = RequestType[kind] => good(kind)
    BY <2>6, <2>7, Zenon
  <2>9. 2 <= Len(data) /\ \E kind \in DOMAIN RequestType : NumberIn(data, 1, 1) = RequestType[kind]
    BY <2>2, Zenon
  <2> QED
    BY <2>5, <2>8, <2>9, Zenon DEF good, LeftOld
<1> QED
  BY <1>3, <1>4, <1>5

-----------------------------------------------------------------------------
(***************************************************************************)
(* Update requests, and error messages.                                    *)
(***************************************************************************)
LEMMA VersionedIs ==
  ASSUME NEW data, Readable(data), NEW o
  PROVE  LET v == ReadVersion(Reader(data, o))
         IN /\ Sound(v) /\ v.data = data /\ v.out = Reader(data, o).out /\ v.inside = TRUE
            /\ v.ok <=> 1 <= Len(data) /\ NumberIn(data, 0, 1) = Version
            /\ v.ok => v.pos = Reader(data, o).pos + 1
<1> DEFINE r == Reader(data, o)
           v == ReadVersion(r)
<1>0. data \in Seq(Byte) /\ Len(data) + LongestRead < SizeRange
  BY DEF Readable
<1>1. /\ Sound(r) /\ r.data = data /\ r.pos = 0 /\ r.ok = TRUE
      /\ r.inside = TRUE /\ Len(data) \in Nat
  <2>1. Sound(Reader(data, o))
    BY <1>0, SoundReader, Zenon
  <2>2. Reader(data, o).data = data /\ Reader(data, o).pos = 0
    BY DEF Reader
  <2>3. Reader(data, o).ok = TRUE /\ Reader(data, o).inside = TRUE
    BY DEF Reader
  <2>4. Len(data) \in Nat
    BY <1>0
  <2> QED
    BY <2>1, <2>2, <2>3, <2>4
<1> HIDE DEF r
<1>2. /\ Follows(r, v) /\ Sound(v) /\ v.out = r.out
      /\ v.ok <=> /\ r.ok /\ r.pos + 1 <= Len(r.data)
                  /\ NumberIn(r.data, r.pos, 1) = Version
      /\ v.ok => v.pos = r.pos + 1
  BY <1>1, ReadVersionIs
<1> HIDE DEF v
<1>3. v.data = data /\ v.inside = TRUE
  BY <1>1, <1>2 DEF Follows
<1>4. v.ok => v.pos = r.pos + 1
  BY <1>2
<1>5. v.ok <=> 1 <= Len(data) /\ NumberIn(data, 0, 1) = Version
  BY <1>1, <1>2
<1> QED
  BY <1>1, <1>2, <1>3, <1>4, <1>5 DEF r, v

LEMMA MoveRequestIs ==
  ASSUME NEW data, Readable(data), NEW old \in [request: Byte]
  PROVE  LET s == deserializeMoveRequest(data, old)
             n == NumberIn(data, 1, 1)
         IN /\ IsReader(s) /\ s.data = data /\ s.inside = TRUE
            /\ s.ok <=> 2 <= Len(data) /\ NumberIn(data, 0, 1) = Version
            /\ s.ok => s.pos = 2 /\ n \in Byte /\ s.out = [request |-> n]
            /\ ~ s.ok => s.out = old
            /\ s.out \in [request: Byte]
<1> DEFINE v == ReadVersion(Reader(data, old))
           s == ReadTo(v, "u8", "request")
           n == NumberIn(data, 1, 1)
<1>1. /\ Sound(v) /\ v.data = data /\ v.out = Reader(data, old).out /\ v.inside = TRUE
      /\ v.ok <=> 1 <= Len(data) /\ NumberIn(data, 0, 1) = Version
      /\ v.ok => v.pos = 1
  <2>1. Sound(v) /\ v.data = data /\ v.inside = TRUE
    BY VersionedIs
  <2>2. v.out = Reader(data, old).out
    BY VersionedIs
  <2>3. v.ok <=> 1 <= Len(data) /\ NumberIn(data, 0, 1) = Version
    BY VersionedIs
  <2>4. v.ok => v.pos = 1
    <3>1. v.ok => v.pos = Reader(data, old).pos + 1
      BY VersionedIs, ZenonT(40)
    <3>2. Reader(data, old).pos = 0
      BY DEF Reader
    <3> QED
      BY <3>1, <3>2
  <2> QED
    BY <2>1, <2>2, <2>3, <2>4
<1>2. v.out = old
  <2>1. Reader(data, old).out = old
    BY DEF Reader
  <2> QED
    BY <1>1, <2>1, Zenon
<1>3. Len(data) \in Nat
  BY DEF Readable
<1> HIDE DEF v
<1>4. /\ Follows(v, s) /\ Sound(s)
      /\ s.ok <=> v.ok /\ v.pos + 1 <= Len(v.data)
      /\ s.ok => /\ s.pos = v.pos + 1 /\ NumberIn(v.data, v.pos, 1) \in Byte
                 /\ s.out = With(v.out, "request", NumberIn(v.data, v.pos, 1))
      /\ ~ s.ok => s.out = v.out
  BY <1>1, ReadByteToIs
<1> HIDE DEF s
<1>5. IsReader(s) /\ s.data = data /\ s.inside = TRUE
  BY <1>1, <1>4 DEF Follows
<1>6. s.ok <=> 2 <= Len(data) /\ NumberIn(data, 0, 1) = Version
  BY <1>1, <1>3, <1>4
<1>7. s.ok => s.pos = 2 /\ n \in Byte /\ s.out = With(old, "request", n)
  BY <1>1, <1>2, <1>4
<1>8. With(old, "request", n) = [request |-> n]
  <2>1. old = [request |-> old.request]
    OBVIOUS
  <2>2. \A x : With([request |-> x], "request", n) = [request |-> n]
    BY DEF With
  <2> QED
    BY <2>1, <2>2, Zenon
<1>9. ~ s.ok => s.out = old
  BY <1>2, <1>4
<1> HIDE DEF n
<1>10. s.ok => s.out = [request |-> n] /\ n \in Byte
  BY <1>7, <1>8, Zenon
<1>11. s.out \in [request: Byte]
  BY <1>9, <1>10
<1> QED
  BY <1>5, <1>6, <1>7, <1>9, <1>10, <1>11 DEF deserializeMoveRequest, v, s, n

LEMMA ErrorMessageIs ==
  ASSUME NEW data, Readable(data), NEW old \in [error_msg: Seq(Byte)],
         Len(old.error_msg) <= MaxText
  PROVE  LET s == deserializeErrorMessage(data, old)
             p == 1 + Width["u64"]
             n == NumberIn(data, 1, Width["u64"])
         IN /\ IsReader(s) /\ s.data = data /\ s.inside = TRUE
            /\ s.ok <=> /\ NumberIn(data, 0, 1) = Version /\ p <= Len(data)
                        /\ n <= MaxText /\ p + n <= Len(data)
            /\ s.ok => s.pos = p + n /\ s.out = [error_msg |-> Window(data, p, n)]
            /\ s.out \in [error_msg: Seq(Byte)] /\ Len(s.out.error_msg) <= MaxText
<1> DEFINE v == ReadVersion(Reader(data, old))
           s == ReadText(v, "error_msg")
           p == 1 + Width["u64"]
           n == NumberIn(data, 1, Width["u64"])
<1>1. /\ Sound(v) /\ v.data = data /\ v.out = Reader(data, old).out /\ v.inside = TRUE
      /\ v.ok <=> 1 <= Len(data) /\ NumberIn(data, 0, 1) = Version
      /\ v.ok => v.pos = 1
  <2>1. Sound(v) /\ v.data = data /\ v.inside = TRUE
    BY VersionedIs
  <2>2. v.out = Reader(data, old).out
    BY VersionedIs
  <2>3. v.ok <=> 1 <= Len(data) /\ NumberIn(data, 0, 1) = Version
    BY VersionedIs
  <2>4. v.ok => v.pos = 1
    <3>1. v.ok => v.pos = Reader(data, old).pos + 1
      BY VersionedIs, ZenonT(40)
    <3>2. Reader(data, old).pos = 0
      BY DEF Reader
    <3> QED
      BY <3>1, <3>2
  <2> QED
    BY <2>1, <2>2, <2>3, <2>4
<1>2. v.out = old
  <2>1. Reader(data, old).out = old
    BY DEF Reader
  <2> QED
    BY <1>1, <2>1, Zenon
<1>3. Len(data) \in Nat /\ Width["u64"] \in Nat
  BY WidthType DEF Readable, Types
<1> HIDE DEF v
<1>4. "error_msg" \in DOMAIN v.out /\ v.out["error_msg"] \in Seq(Byte)
  BY <1>2
<1>5. /\ Follows(v, s) /\ Sound(s)
      /\ s.ok <=> /\ v.ok /\ v.pos + Width["u64"] <= Len(v.data)
                  /\ NumberIn(v.data, v.pos, Width["u64"]) <= MaxText
                  /\ (v.pos + Width["u64"]) + NumberIn(v.data, v.pos, Width["u64"])
                       <= Len(v.data)
      /\ s.ok => /\ s.pos = (v.pos + Width["u64"]) + NumberIn(v.data, v.pos, Width["u64"])
                 /\ NumberIn(v.data, v.pos, Width["u64"]) \in 0..MaxText
                 /\ s.out = With(v.out, "error_msg",
                                 Window(v.data, v.pos + Width["u64"],
                                        NumberIn(v.data, v.pos, Width["u64"])))
      /\ \/ s.out = v.out
         \/ \E t \in Seq(Byte) : Len(t) <= MaxText /\ s.out = With(v.out, "error_msg", t)
  BY <1>1, <1>4, ReadTextIs
<1> HIDE DEF s
<1>6. IsReader(s) /\ s.data = data /\ s.inside = TRUE
  BY <1>1, <1>5 DEF Follows
<1>7. s.ok => v.ok /\ v.pos = 1
  BY <1>1, <1>5
<1>8. s.ok <=> /\ NumberIn(data, 0, 1) = Version /\ p <= Len(data)
               /\ n <= MaxText /\ p + n <= Len(data)
  BY <1>1, <1>3, <1>5
<1>9. s.ok => s.pos = p + n /\ s.out = With(old, "error_msg", Window(data, p, n))
  BY <1>1, <1>2, <1>5, <1>7
<1>10. \A t : With(old, "error_msg", t) = [error_msg |-> t]
  <2>1. old = [error_msg |-> old.error_msg]
    OBVIOUS
  <2>2. \A x, t : With([error_msg |-> x], "error_msg", t) = [error_msg |-> t]
    BY DEF With
  <2> QED
    BY <2>1, <2>2, Zenon
<1>11. s.out \in [error_msg: Seq(Byte)] /\ Len(s.out.error_msg) <= MaxText
  <2>1. CASE s.out = v.out
    BY <1>2, <2>1
  <2>2. CASE s.out # v.out
    <3>1. PICK t \in Seq(Byte) : Len(t) <= MaxText /\ s.out = With(old, "error_msg", t)
      BY <1>2, <1>5, <2>2
    <3>2. s.out = [error_msg |-> t]
      BY <1>10, <3>1, Zenon
    <3> QED
      BY <3>1, <3>2
  <2> QED
    BY <2>1, <2>2
<1>12. s.ok => s.pos = p + n /\ s.out = [error_msg |-> Window(data, p, n)]
  BY <1>9, <1>10, Zenon
<1> QED
  BY <1>6, <1>8, <1>11, <1>12 DEF deserializeErrorMessage, v, s, n, p

-----------------------------------------------------------------------------
(***************************************************************************)
(* Robot specifications: the limits of the joints, read in a loop.         *)
(***************************************************************************)
JointLimit == [min: Double, max: Double]
RangeAt(d, p) == [min |-> DoubleAt(d, p, 1), max |-> DoubleAt(d, p, 2)]

RangeRead(r, i) ==
  LET min == Read(r, "f64")
      max == Read(min, "f64")
  IN Store(max, <<"joint_limits", i>>, [min |-> Local(min), max |-> Local(max)])

LEMMA ReadDoubleIs ==
  ASSUME NEW r, Sound(r)
  PROVE  /\ Follows(r, Read(r, "f64")) /\ Sound(Read(r, "f64"))
         /\ Read(r, "f64").out = r.out
         /\ Read(r, "f64").ok <=> r.ok /\ r.pos + DoubleWidth <= Len(r.data)
         /\ Read(r, "f64").ok =>
              /\ Read(r, "f64").pos = r.pos + DoubleWidth
              /\ Local(Read(r, "f64")) = NumberIn(r.data, r.pos, DoubleWidth)
<1>1. IsReader(r) /\ Room(r, Width["f64"]) /\ "f64" \in Types
  BY SoundRoom DEF Sound, Types
<1>2. /\ Follows(r, Read(r, "f64")) /\ Read(r, "f64").out = r.out
      /\ Read(r, "f64").ok <=> r.ok /\ r.pos + Width["f64"] <= Len(r.data)
      /\ Read(r, "f64").ok =>
           /\ Read(r, "f64").pos = r.pos + Width["f64"]
           /\ Local(Read(r, "f64")) = NumberIn(r.data, r.pos, Width["f64"])
  BY <1>1, ReadIs
<1>3. Sound(Read(r, "f64"))
  BY <1>2, SoundFollows
<1> QED
  BY <1>2, <1>3 DEF DoubleWidth

\* One turn of the loop.
LEMMA RangeReadIs ==
  ASSUME NEW r, Sound(r), NEW i
  PROVE  LET s == RangeRead(r, i)
         IN /\ Follows(r, s) /\ Sound(s)
            /\ s.ok <=> r.ok /\ r.pos + 2 * DoubleWidth <= Len(r.data)
            /\ s.ok => /\ s.pos = r.pos + 2 * DoubleWidth
                       /\ s.out = Put(r.out, <<"joint_limits", i>>, RangeAt(r.data, r.pos))
                       /\ RangeAt(r.data, r.pos) \in JointLimit
            /\ ~ s.ok => s.out = r.out
<1> DEFINE min == Read(r, "f64")
           max == Read(min, "f64")
           path == <<"joint_limits", i>>
           v == [min |-> Local(min), max |-> Local(max)]
           s == Store(max, path, v)
<1>0. s = RangeRead(r, i)
  BY DEF RangeRead
<1>1. /\ Follows(r, min) /\ Sound(min) /\ min.out = r.out
      /\ min.ok <=> r.ok /\ r.pos + DoubleWidth <= Len(r.data)
      /\ min.ok => /\ min.pos = r.pos + DoubleWidth
                   /\ Local(min) = NumberIn(r.data, r.pos, DoubleWidth)
  BY ReadDoubleIs
<1> HIDE DEF min
<1>2. /\ Follows(min, max) /\ Sound(max) /\ max.out = min.out
      /\ max.ok <=> min.ok /\ min.pos + DoubleWidth <= Len(min.data)
      /\ max.ok => /\ max.pos = min.pos + DoubleWidth
                   /\ Local(max) = NumberIn(min.data, min.pos, DoubleWidth)
  BY <1>1, ReadDoubleIs
<1> HIDE DEF max, v, path
<1>3. IsReader(r) /\ IsReader(max) /\ min.data = r.data /\ max.data = r.data
  BY <1>1, <1>2 DEF Sound, Follows
<1>4. /\ Follows(max, s) /\ s.pos = max.pos
      /\ s.ok <=> max.ok
      /\ s.out = IF max.ok THEN Put(max.out, path, v) ELSE max.out
  BY <1>3, StoreIs
<1> HIDE DEF s
<1>5. Sound(s) /\ Follows(r, s)
  <2>1. Sound(s)
    BY <1>2, <1>4, SoundFollows
  <2>2. Follows(r, max)
    BY <1>1, <1>2, <1>3, FollowsChain
  <2> QED
    BY <1>3, <1>4, <2>1, <2>2, FollowsChain
<1>6. r.data \in Seq(Byte) /\ r.pos \in Nat /\ Len(r.data) \in Nat /\ DoubleWidth \in Nat
  BY <1>3, ReaderType, WidthType
<1>7. max.ok <=> r.ok /\ r.pos + 2 * DoubleWidth <= Len(r.data)
  BY <1>1, <1>2, <1>3, <1>6
<1>8. max.ok => max.pos = r.pos + 2 * DoubleWidth
  BY <1>1, <1>2, <1>6
<1>9. max.ok => v = RangeAt(r.data, r.pos)
  <2>1. r.pos + (1 - 1) * DoubleWidth = r.pos
        /\ r.pos + (2 - 1) * DoubleWidth = r.pos + DoubleWidth
    BY <1>6
  <2>2. /\ DoubleAt(r.data, r.pos, 1) = NumberIn(r.data, r.pos, DoubleWidth)
        /\ DoubleAt(r.data, r.pos, 2) = NumberIn(r.data, r.pos + DoubleWidth, DoubleWidth)
    BY <2>1, Zenon DEF DoubleAt
  <2> QED
    BY <1>1, <1>2, <1>3, <2>2 DEF v, RangeAt
<1>10. max.ok => RangeAt(r.data, r.pos) \in JointLimit
  <2> DEFINE k == 2
  <2>1. k \in Nat /\ 1 \in 1..k /\ 2 \in 1..k
    OBVIOUS
  <2>2. max.ok => r.pos + k * DoubleWidth <= Len(r.data)
    BY <1>7
  <2> HIDE DEF k
  <2>3. max.ok => DoubleAt(r.data, r.pos, 1) \in Double /\ DoubleAt(r.data, r.pos, 2) \in Double
    BY <1>6, <2>1, <2>2, DoubleType
  <2> QED
    BY <2>3 DEF RangeAt, JointLimit
<1>11. s.ok => s.out = Put(r.out, path, RangeAt(r.data, r.pos)) /\ s.pos = r.pos + 2 * DoubleWidth
  BY <1>1, <1>2, <1>4, <1>8, <1>9
<1>12. ~ s.ok => s.out = r.out
  BY <1>1, <1>2, <1>4
<1>13. s.ok <=> max.ok
  BY <1>4
<1> QED
  BY <1>0, <1>5, <1>7, <1>10, <1>11, <1>12, <1>13 DEF path

RangeWidth == 2 * DoubleWidth
RangesAt(d, p, n) == [i \in 1..n |-> RangeAt(d, p + (i - 1) * RangeWidth)]

RangeLoopAt(r, f, i) ==
  IF i = 0 THEN r ELSE RangeRead(f[i - 1], i)
RangeLoop(r, n, f) == f = [i \in 0..n |-> RangeLoopAt(r, f, i)]

LEMMA RangeLoopExists ==
  ASSUME NEW r, NEW n \in Nat
  PROVE  \E f : RangeLoop(r, n, f)
<1> DEFINE T == {k \in Nat : \E f : RangeLoop(r, k, f)}
<1>1. 0 \in T
  <2> DEFINE f == [i \in 0..0 |-> r]
  <2>1. \A i \in 0..0 : RangeLoopAt(r, f, i) = r
    BY DEF RangeLoopAt
  <2>2. f = [i \in 0..0 |-> RangeLoopAt(r, f, i)]
    BY <2>1
  <2> HIDE DEF f
  <2> QED
    BY <2>2 DEF RangeLoop
<1>2. ASSUME NEW k \in Nat, k \in T PROVE k + 1 \in T
  <2>1. PICK f : f = [i \in 0..k |-> RangeLoopAt(r, f, i)]
    BY <1>2 DEF RangeLoop
  <2> DEFINE v == RangeRead(f[k], k + 1)
             g == Longer(f, k, v)
  <2>2. /\ g[k + 1] = v
        /\ \A i \in 0..k : g[i] = f[i]
        /\ \A i \in 0..(k + 1) : i \in 0..k \/ i = k + 1
        /\ g = [i \in 0..(k + 1) |-> g[i]]
    <3> HIDE DEF v
    <3> QED
      BY DEF Longer
  <2> HIDE DEF g
  <2>3. ASSUME NEW i \in 0..(k + 1) PROVE g[i] = RangeLoopAt(r, g, i)
    <3>1. CASE i = k + 1
      <4>1. i # 0 /\ i - 1 = k /\ k \in 0..k
        BY <3>1
      <4>2. g[i - 1] = f[k]
        BY <2>2, <4>1
      <4> QED
        BY <2>2, <3>1, <4>1, <4>2 DEF RangeLoopAt
    <3>2. CASE i \in 0..k
      <4>1. f[i] = RangeLoopAt(r, f, i)
        BY <2>1, <3>2
      <4>2. i # 0 => i - 1 \in 0..k
        BY <3>2
      <4>3. i # 0 => g[i - 1] = f[i - 1]
        BY <2>2, <4>2
      <4> QED
        BY <2>2, <3>2, <4>1, <4>3 DEF RangeLoopAt
    <3> QED
      BY <2>2, <3>1, <3>2
  <2>4. RangeLoop(r, k + 1, g)
    BY <2>2, <2>3, Zenon DEF RangeLoop
  <2> QED
    BY <2>4
<1>3. Nat \subseteq T
  <2> HIDE DEF T
  <2> QED
    BY <1>1, <1>2, SetInduction
<1> QED
  BY <1>3

LEMMA RangeLoopEach ==
  ASSUME NEW r, NEW n \in Nat, NEW f, RangeLoop(r, n, f)
  PROVE  /\ f[0] = r
         /\ \A k \in Nat : k + 1 <= n =>
              f[k + 1] = RangeRead(f[k], k + 1)
<1>1. \A i \in 0..n : f[i] = RangeLoopAt(r, f, i)
  BY Zenon DEF RangeLoop
<1>2. f[0] = r
  <2>1. 0 \in 0..n
    OBVIOUS
  <2> QED
    BY <1>1, <2>1 DEF RangeLoopAt
<1>3. ASSUME NEW k \in Nat, k + 1 <= n
      PROVE  f[k + 1] = RangeRead(f[k], k + 1)
  <2>1. k + 1 \in 0..n /\ k + 1 # 0 /\ (k + 1) - 1 = k
    BY <1>3
  <2> QED
    BY <1>1, <2>1 DEF RangeLoopAt
<1> QED
  BY <1>2, <1>3

\* What i turns of the loop have made of a reader.
RangesRead(r, n, s, i) ==
  /\ Follows(r, s) /\ Sound(s)
  /\ s.ok <=> r.pos + i * RangeWidth <= Len(r.data)
  /\ s.ok => s.pos = r.pos + i * RangeWidth
  /\ \E v \in Seq(JointLimit) :
       /\ Len(v) = n /\ s.out = With(r.out, "joint_limits", v)
       /\ s.ok => \A j \in 1..i : v[j] = RangeAt(r.data, r.pos + (j - 1) * RangeWidth)

LEMMA RangesReadNext ==
  ASSUME NEW r, Sound(r), r.ok, "joint_limits" \in DOMAIN r.out, NEW n \in Nat,
         NEW s, NEW k \in Nat, k + 1 <= n, RangesRead(r, n, s, k)
  PROVE  RangesRead(r, n, RangeRead(s, k + 1), k + 1)
<1> DEFINE path == <<"joint_limits", k + 1>>
           t == RangeRead(s, k + 1)
           here == r.pos + k * RangeWidth
           next == r.pos + (k + 1) * RangeWidth
<1>1. /\ Follows(r, s) /\ Sound(s)
      /\ s.ok <=> here <= Len(r.data)
      /\ s.ok => s.pos = here
  BY DEF RangesRead
<1>2. PICK v \in Seq(JointLimit) :
        /\ Len(v) = n /\ s.out = With(r.out, "joint_limits", v)
        /\ s.ok => \A j \in 1..k : v[j] = RangeAt(r.data, r.pos + (j - 1) * RangeWidth)
  BY DEF RangesRead
<1>3. s.out["joint_limits"] = v /\ k + 1 \in 1..n /\ v[k + 1] \in JointLimit
  BY <1>2, WithMember
<1>4. /\ At(s.out, path) = v[k + 1]
      /\ \A p : Put(s.out, path, p) = With(r.out, "joint_limits", With(v, k + 1, p))
  <2> DEFINE i == k + 1
             m == "joint_limits"
  <2>1. path = <<m, i>> /\ s.out[m] = v /\ s.out = With(r.out, m, v)
    BY <1>2, <1>3
  <2> HIDE DEF path, i, m
  <2>2. At(s.out, path) = v[i] /\ \A p : Put(s.out, path, p) = With(s.out, m, With(v, i, p))
    BY <2>1, AtElement, PutElementWith
  <2>3. \A w : With(s.out, m, w) = With(r.out, m, w)
    BY <2>1, WithTwice
  <2> QED
    BY <2>2, <2>3 DEF i, m
<1>5. /\ Follows(s, t) /\ Sound(t)
      /\ t.ok <=> s.ok /\ s.pos + 2 * DoubleWidth <= Len(s.data)
      /\ t.ok => /\ t.pos = s.pos + 2 * DoubleWidth
                 /\ t.out = Put(s.out, path, RangeAt(s.data, s.pos))
                 /\ RangeAt(s.data, s.pos) \in JointLimit
      /\ ~ t.ok => t.out = s.out
  BY <1>1, RangeReadIs DEF path
<1> HIDE DEF t, path
<1>6. /\ IsReader(r) /\ Follows(r, t) /\ s.data = r.data /\ Len(r.data) \in Nat
      /\ s.ok \in BOOLEAN
  BY <1>1, <1>5, FollowsChain, ReaderType DEF Sound, Follows
<1>7. RangeWidth \in Nat \ {0} /\ r.pos \in Nat
  BY <1>6, ReaderType, WidthType DEF RangeWidth
<1>8. next = here + RangeWidth /\ here \in Nat
  BY <1>7
<1>9. RangeWidth = 2 * DoubleWidth
  BY DEF RangeWidth
<1> HIDE DEF here, next
<1>10. /\ t.ok <=> next <= Len(r.data)
       /\ t.ok => t.pos = next /\ s.ok /\ s.pos = here
  <2>1. t.ok <=> s.ok /\ s.pos + RangeWidth <= Len(r.data)
    BY <1>5, <1>6, <1>9
  <2>2. t.ok => t.pos = s.pos + RangeWidth
    BY <1>5, <1>9
  <2> QED
    BY <1>1, <1>6, <1>7, <1>8, <2>1, <2>2
<1>11. \E u \in Seq(JointLimit) :
         /\ Len(u) = n /\ t.out = With(r.out, "joint_limits", u)
         /\ t.ok => \A j \in 1..(k + 1) :
              u[j] = RangeAt(r.data, r.pos + (j - 1) * RangeWidth)
  <2>1. CASE ~ t.ok
    BY <1>2, <1>5, <2>1
  <2>2. CASE t.ok
    <3> DEFINE p == RangeAt(r.data, here)
    <3>0. s.ok /\ s.pos = here /\ s.data = r.data
      BY <1>6, <1>10, <2>2
    <3>1. p \in JointLimit /\ t.out = With(r.out, "joint_limits", With(v, k + 1, p))
      BY <1>4, <1>5, <2>2, <3>0
    <3> HIDE DEF p
    <3> DEFINE u == With(v, k + 1, p)
    <3>2. /\ u \in Seq(JointLimit) /\ Len(u) = n /\ u[k + 1] = p
          /\ \A j \in 1..k : u[j] = v[j]
      BY <1>2, <1>3, <3>1 DEF With
    <3>3. t.out = With(r.out, "joint_limits", u)
      BY <3>1
    <3> HIDE DEF u
    <3>4. ASSUME NEW j \in 1..(k + 1)
          PROVE  u[j] = RangeAt(r.data, r.pos + (j - 1) * RangeWidth)
      <4>1. CASE j \in 1..k
        BY <1>2, <3>0, <3>2, <4>1
      <4>2. CASE j = k + 1
        <5>1. j - 1 = k
          BY <4>2
        <5> QED
          BY <3>2, <4>2, <5>1 DEF p, here
      <4> QED
        BY <4>1, <4>2
    <3> QED
      BY <3>2, <3>3, <3>4
  <2> QED
    BY <2>1, <2>2
<1> QED
  BY <1>5, <1>6, <1>10, <1>11 DEF RangesRead, t, path, next

LEMMA RangesReadAll ==
  ASSUME NEW r, Sound(r), r.ok, "joint_limits" \in DOMAIN r.out, NEW n \in Nat,
         r.out["joint_limits"] \in Seq(JointLimit), Len(r.out["joint_limits"]) = n,
         r.out = With(r.out, "joint_limits", r.out["joint_limits"]),
         NEW f, RangeLoop(r, n, f)
  PROVE  RangesRead(r, n, f[n], n)
<1> DEFINE T == {k \in Nat : k <= n => RangesRead(r, n, f[k], k)}
<1>1. 0 \in T
  <2>1. f[0] = r
    BY RangeLoopEach
  <2>2. /\ IsReader(r) /\ Follows(r, r) /\ r.pos \in Nat /\ r.pos <= Len(r.data)
        /\ RangeWidth \in Nat
    BY FollowsSelf, ReaderType, WidthType DEF Sound, RangeWidth
  <2>3. r.pos + 0 * RangeWidth = r.pos
    BY <2>2
  <2>4. RangesRead(r, n, r, 0)
    BY <2>2, <2>3 DEF RangesRead
  <2> QED
    BY <2>1, <2>4
<1>2. ASSUME NEW k \in Nat, k \in T PROVE k + 1 \in T
  <2> SUFFICES ASSUME k + 1 <= n PROVE RangesRead(r, n, f[k + 1], k + 1)
    OBVIOUS
  <2>1. RangesRead(r, n, f[k], k)
    BY <1>2
  <2>2. f[k + 1] = RangeRead(f[k], k + 1)
    <3>1. \A j \in Nat : j + 1 <= n => f[j + 1] = RangeRead(f[j], j + 1)
      BY RangeLoopEach
    <3> QED
      BY <3>1
  <2> QED
    BY <2>1, <2>2, RangesReadNext
<1>3. Nat \subseteq T
  <2> HIDE DEF T
  <2> QED
    BY <1>1, <1>2, SetInduction
<1> QED
  BY <1>3

\* A reader that has failed passes through the loop.
LEMMA RangesNotRead ==
  ASSUME NEW r, ~ r.ok, NEW n \in Nat, NEW f, RangeLoop(r, n, f)
  PROVE  f[n] = r
<1> DEFINE T == {k \in Nat : k <= n => f[k] = r}
<1>1. 0 \in T
  BY RangeLoopEach
<1>2. ASSUME NEW k \in Nat, k \in T PROVE k + 1 \in T
  <2> SUFFICES ASSUME k + 1 <= n PROVE f[k + 1] = r
    OBVIOUS
  <2>1. f[k] = r
    BY <1>2
  <2>2. f[k + 1] = RangeRead(f[k], k + 1)
    BY RangeLoopEach, SMTT(20)
  <2>3. RangeRead(r, k + 1) = r
    BY DEF RangeRead, Read, Take, Store
  <2> QED
    BY <2>1, <2>2, <2>3
<1>3. Nat \subseteq T
  <2> HIDE DEF T
  <2> QED
    BY <1>1, <1>2, SetInduction
<1> QED
  BY <1>3

\* The specifications, and their four maxima.
SpecsOf(a, b, c, e, n, limits) ==
  [max_velocity_linear |-> a, max_velocity_angular |-> b, max_acceleration_linear |-> c,
   max_acceleration_angular |-> e, num_joints |-> n, joint_limits |-> limits]

Maxima == <<"max_velocity_linear", "max_velocity_angular",
            "max_acceleration_linear", "max_acceleration_angular">>

LEMMA SpecsIn ==
  ASSUME NEW a \in Double, NEW b \in Double, NEW c \in Double, NEW e \in Double,
         NEW n \in Byte, NEW limits \in Seq(JointLimit)
  PROVE  SpecsOf(a, b, c, e, n, limits) \in RobotSpecs
  BY DEF SpecsOf, RobotSpecs, JointLimit

LEMMA SpecsAre ==
  ASSUME NEW o \in RobotSpecs
  PROVE  /\ o = SpecsOf(o.max_velocity_linear, o.max_velocity_angular,
                        o.max_acceleration_linear, o.max_acceleration_angular,
                        o.num_joints, o.joint_limits)
         /\ o.max_velocity_linear \in Double /\ o.max_velocity_angular \in Double
         /\ o.max_acceleration_linear \in Double /\ o.max_acceleration_angular \in Double
         /\ o.num_joints \in Byte /\ o.joint_limits \in Seq(JointLimit)
  BY DEF SpecsOf, RobotSpecs, JointLimit

LEMMA SpecsCount ==
  ASSUME NEW a, NEW b, NEW c, NEW e, NEW n, NEW limits, NEW v
  PROVE  With(SpecsOf(a, b, c, e, n, limits), "num_joints", v) = SpecsOf(a, b, c, e, v, limits)
  BY DEF With, SpecsOf

LEMMA SpecsLimits ==
  ASSUME NEW a, NEW b, NEW c, NEW e, NEW n, NEW limits, NEW v
  PROVE  With(SpecsOf(a, b, c, e, n, limits), "joint_limits", v) = SpecsOf(a, b, c, e, n, v)
  BY DEF With, SpecsOf

LEMMA SpecsMembers ==
  ASSUME NEW a, NEW b, NEW c, NEW e, NEW n, NEW limits, NEW o,
         o = SpecsOf(a, b, c, e, n, limits)
  PROVE  /\ DOMAIN o = {"max_velocity_linear", "max_velocity_angular",
                        "max_acceleration_linear", "max_acceleration_angular",
                        "num_joints", "joint_limits"}
         /\ o["max_velocity_linear"] = a /\ o["max_velocity_angular"] = b
         /\ o["max_acceleration_linear"] = c /\ o["max_acceleration_angular"] = e
         /\ o["num_joints"] = n /\ o["joint_limits"] = limits
  BY DEF SpecsOf

LEMMA SpecsFunction ==
  ASSUME NEW f, f = [m \in DOMAIN f |-> f[m]],
         DOMAIN f = {"max_velocity_linear", "max_velocity_angular",
                     "max_acceleration_linear", "max_acceleration_angular",
                     "num_joints", "joint_limits"}
  PROVE  f = SpecsOf(f["max_velocity_linear"], f["max_velocity_angular"],
                     f["max_acceleration_linear"], f["max_acceleration_angular"],
                     f["num_joints"], f["joint_limits"])
  BY DEF SpecsOf

LEMMA OverwrittenMaxima ==
  ASSUME NEW r, IsReader(r), NEW path, At(r.out, path) = r.out, r.out \in RobotSpecs,
         NEW n \in 0..4, r.pos + n * DoubleWidth <= Len(r.data)
  PROVE  /\ Overwritten(r, path, Maxima, n) \in RobotSpecs
         /\ n = 4 => Overwritten(r, path, Maxima, n)
                       = SpecsOf(DoubleAt(r.data, r.pos, 1), DoubleAt(r.data, r.pos, 2),
                                 DoubleAt(r.data, r.pos, 3), DoubleAt(r.data, r.pos, 4),
                                 r.out.num_joints, r.out.joint_limits)
<1> DEFINE f == Overwritten(r, path, Maxima, n)
           names == {"max_velocity_linear", "max_velocity_angular",
                     "max_acceleration_linear", "max_acceleration_angular"}
           all == names \cup {"num_joints", "joint_limits"}
<1>1. /\ DOMAIN r.out = all /\ \A m \in names : r.out[m] \in Double
      /\ r.out["num_joints"] \in Byte /\ r.out["joint_limits"] \in Seq(JointLimit)
  BY SpecsAre, SpecsMembers
<1>2. /\ DOMAIN f = all
      /\ \A m \in all : f[m] \in Number("f64") \/ f[m] = r.out[m]
  <2>1. n \in Nat
    OBVIOUS
  <2>2. /\ DOMAIN f = DOMAIN At(r.out, path)
        /\ \A m \in DOMAIN At(r.out, path) :
             f[m] \in Number("f64") \/ f[m] = At(r.out, path)[m]
    <3> HIDE DEF f
    <3> QED
      BY <2>1, OverwrittenType DEF f
  <2> QED
    BY <1>1, <2>2, Zenon
<1>3. \A m \in names : f[m] \in Double
  BY <1>1, <1>2 DEF Double
<1>4. f = [m \in DOMAIN f |-> f[m]]
  BY DEF Overwritten
<1>5. /\ \A j \in 1..n : Maxima[j] # "num_joints"
      /\ \A j \in 1..n : Maxima[j] # "joint_limits"
  BY DEF Maxima
<1>6. f["num_joints"] = r.out["num_joints"] /\ f["joint_limits"] = r.out["joint_limits"]
  <2>1. n \in Nat /\ "num_joints" \in DOMAIN At(r.out, path)
        /\ "joint_limits" \in DOMAIN At(r.out, path)
    BY <1>1
  <2> QED
    BY <1>5, <2>1, OverwrittenOther
<1>7. ASSUME n = 4, NEW i \in 1..4
      PROVE  f[Maxima[i]] = DoubleAt(r.data, r.pos, i)
  <2>1. Maxima[i] \in names /\ \A j \in 1..4 : Maxima[j] = Maxima[i] => j = i
    BY DEF Maxima
  <2>2. i \in 1..n /\ n \in Nat
    BY <1>7
  <2>3. \A j \in 1..n : Maxima[j] = Maxima[i] => j = i
    BY <1>7, <2>1
  <2> QED
    BY <1>1, <2>1, <2>2, <2>3, OverwrittenMember, SMTT(20) DEF DoubleAt
<1> HIDE DEF f
<1>8. f = SpecsOf(f["max_velocity_linear"], f["max_velocity_angular"],
                  f["max_acceleration_linear"], f["max_acceleration_angular"],
                  f["num_joints"], f["joint_limits"])
  BY <1>2, <1>4, SpecsFunction
<1>9. f \in RobotSpecs
  <2>1. /\ f["max_velocity_linear"] \in Double /\ f["max_velocity_angular"] \in Double
        /\ f["max_acceleration_linear"] \in Double /\ f["max_acceleration_angular"] \in Double
        /\ f["num_joints"] \in Byte /\ f["joint_limits"] \in Seq(JointLimit)
    BY <1>1, <1>3, <1>6
  <2> QED
    BY <1>8, <2>1, SpecsIn
<1>10. CASE n = 4
  <2>1. /\ Maxima[1] = "max_velocity_linear" /\ Maxima[2] = "max_velocity_angular"
        /\ Maxima[3] = "max_acceleration_linear" /\ Maxima[4] = "max_acceleration_angular"
    BY DEF Maxima
  <2>2. /\ f["max_velocity_linear"] = DoubleAt(r.data, r.pos, 1)
        /\ f["max_velocity_angular"] = DoubleAt(r.data, r.pos, 2)
        /\ f["max_acceleration_linear"] = DoubleAt(r.data, r.pos, 3)
        /\ f["max_acceleration_angular"] = DoubleAt(r.data, r.pos, 4)
    BY <1>7, <1>10, <2>1
  <2> QED
    BY <1>6, <1>8, <1>9, <2>2, Zenon DEF f
<1> QED
  BY <1>9, <1>10 DEF f

LEMMA ReadMaximaIs ==
  ASSUME NEW r, Sound(r), r.out \in RobotSpecs
  PROVE  LET s == ReadDoubles(r, <<>>, Maxima)
         IN /\ Follows(r, s) /\ Sound(s)
            /\ s.ok <=> r.ok /\ r.pos + 4 * DoubleWidth <= Len(r.data)
            /\ s.ok => /\ s.pos = r.pos + 4 * DoubleWidth
                       /\ s.out = SpecsOf(DoubleAt(r.data, r.pos, 1),
                                          DoubleAt(r.data, r.pos, 2),
                                          DoubleAt(r.data, r.pos, 3),
                                          DoubleAt(r.data, r.pos, 4),
                                          r.out.num_joints, r.out.joint_limits)
            /\ s.out \in RobotSpecs
<1> DEFINE path == <<>>
           s == ReadDoubles(r, path, Maxima)
           k == 4
<1>1. /\ IsReader(r) /\ k \in Nat /\ k \in 0..(MaxJoints + 7) /\ Len(Maxima) = k
  BY LimitsType DEF Sound, Maxima
<1>2. Room(r, k * DoubleWidth)
  BY <1>1, SoundRoom
<1>3. /\ At(r.out, path) = r.out
      /\ \A o : Put(r.out, path, o) = o
  BY PutWhole
<1>4. k = 4
  OBVIOUS
<1> SUFFICES /\ Follows(r, s) /\ Sound(s)
             /\ s.ok <=> r.ok /\ r.pos + 4 * DoubleWidth <= Len(r.data)
             /\ s.ok => /\ s.pos = r.pos + 4 * DoubleWidth
                        /\ s.out = SpecsOf(DoubleAt(r.data, r.pos, 1),
                                           DoubleAt(r.data, r.pos, 2),
                                           DoubleAt(r.data, r.pos, 3),
                                           DoubleAt(r.data, r.pos, 4),
                                           r.out.num_joints, r.out.joint_limits)
             /\ s.out \in RobotSpecs
  OBVIOUS
<1> HIDE DEF path, k
<1>5. /\ Follows(r, s)
      /\ s.ok <=> r.ok /\ r.pos + k * DoubleWidth <= Len(r.data)
      /\ s.ok => /\ s.pos = r.pos + k * DoubleWidth
                 /\ s.out = Put(r.out, path, Overwritten(r, path, Maxima, k))
      /\ ~ r.ok => s.out = r.out
      /\ r.ok => \E n \in 0..k :
           /\ r.pos + n * DoubleWidth <= Len(r.data)
           /\ s.out = Put(r.out, path, Overwritten(r, path, Maxima, n))
  BY <1>1, <1>2, ReadDoublesIs
<1> HIDE DEF s
<1>6. Sound(s)
  BY <1>5, SoundFollows
<1>7. s.out \in RobotSpecs
  <2>1. CASE r.ok
    <3>1. PICK n \in 0..4 : /\ r.pos + n * DoubleWidth <= Len(r.data)
                            /\ s.out = Overwritten(r, path, Maxima, n)
      BY <1>3, <1>4, <1>5, <2>1
    <3> QED
      BY <1>1, <1>3, <3>1, OverwrittenMaxima
  <2>2. CASE ~ r.ok
    BY <1>5, <2>2
  <2> QED
    BY <2>1, <2>2
<1>8. ASSUME s.ok
      PROVE  s.out = SpecsOf(DoubleAt(r.data, r.pos, 1), DoubleAt(r.data, r.pos, 2),
                             DoubleAt(r.data, r.pos, 3), DoubleAt(r.data, r.pos, 4),
                             r.out.num_joints, r.out.joint_limits)
  <2>1. s.out = Overwritten(r, path, Maxima, k) /\ k \in 0..4
        /\ r.pos + k * DoubleWidth <= Len(r.data)
    BY <1>3, <1>4, <1>5, <1>8
  <2> QED
    BY <1>1, <1>3, <1>4, <2>1, OverwrittenMaxima
<1> QED
  BY <1>4, <1>5, <1>6, <1>7, <1>8

LEMMA RangesAre ==
  ASSUME NEW d, NEW p, NEW n \in Nat, NEW v \in Seq(JointLimit), Len(v) = n,
         \A j \in 1..n : v[j] = RangeAt(d, p + (j - 1) * RangeWidth)
  PROVE  v = RangesAt(d, p, n)
<1>1. v = [j \in 1..n |-> v[j]]
  OBVIOUS
<1> QED
  BY <1>1, Zenon DEF RangesAt

LEMMA RangeLoopChosen ==
  ASSUME NEW r, NEW n \in Nat
  PROVE  RangeLoop(r, n, CHOOSE f : RangeLoop(r, n, f))
<1>1. \E f : RangeLoop(r, n, f)
  BY RangeLoopExists
<1> QED
  BY <1>1, Zenon

LEMMA ReadRangesIs ==
  ASSUME NEW r, Sound(r), r.ok, NEW limits \in Seq(JointLimit), NEW a, NEW b, NEW c, NEW e,
         NEW m, r.out = SpecsOf(a, b, c, e, m, limits), NEW n \in Nat, Len(limits) = n,
         NEW f, RangeLoop(r, n, f)
  PROVE  /\ Follows(r, f[n]) /\ Sound(f[n])
         /\ f[n].ok <=> r.pos + n * RangeWidth <= Len(r.data)
         /\ f[n].ok => /\ f[n].pos = r.pos + n * RangeWidth
                       /\ f[n].out = SpecsOf(a, b, c, e, m, RangesAt(r.data, r.pos, n))
         /\ \E v \in Seq(JointLimit) : f[n].out = SpecsOf(a, b, c, e, m, v)
<1>1. /\ "joint_limits" \in DOMAIN r.out /\ r.out["joint_limits"] = limits
      /\ r.out = With(r.out, "joint_limits", limits)
  BY SpecsMembers, SpecsLimits
<1>2. RangesRead(r, n, f[n], n)
  BY <1>1, RangesReadAll
<1> DEFINE g == f[n]
<1>3. /\ Follows(r, g) /\ Sound(g)
      /\ g.ok <=> r.pos + n * RangeWidth <= Len(r.data)
      /\ g.ok => g.pos = r.pos + n * RangeWidth
  BY <1>2 DEF RangesRead
<1>4. PICK v \in Seq(JointLimit) :
        /\ Len(v) = n /\ g.out = With(r.out, "joint_limits", v)
        /\ g.ok => \A j \in 1..n : v[j] = RangeAt(r.data, r.pos + (j - 1) * RangeWidth)
  BY <1>2 DEF RangesRead
<1> HIDE DEF g
<1>5. g.ok => v = RangesAt(r.data, r.pos, n)
  BY <1>4, RangesAre
<1>6. g.out = SpecsOf(a, b, c, e, m, v)
  BY <1>4, SpecsLimits
<1> QED
  BY <1>3, <1>4, <1>5, <1>6 DEF g

NoRange == [min |-> 0, max |-> 0]

LEMMA SizedRanges ==
  ASSUME NEW v \in Seq(JointLimit), NEW n \in Nat
  PROVE  Sized(v, n, NoRange) \in Seq(JointLimit) /\ Len(Sized(v, n, NoRange)) = n
<1> DEFINE e == NoRange
           S == JointLimit
<1>1. e \in S /\ v \in Seq(S)
  BY ZeroPoseType DEF NoRange, JointLimit
<1> HIDE DEF e, S
<1>2. Sized(v, n, e) \in Seq(S) /\ Len(Sized(v, n, e)) = n
  BY <1>1, SizedType
<1> QED
  BY <1>2 DEF e, S

\* The count stays in the local variable.
LEMMA CountedIs ==
  ASSUME NEW r, Sound(r), NEW member
  PROVE  LET s == ReadTo(r, "u8", member)
         IN /\ Local(s) \in Nat
            /\ s.ok => Local(s) = NumberIn(r.data, r.pos, 1)
<1> DEFINE t == Read(r, "u8")
           s == Store(t, <<member>>, Local(t))
<1>1. /\ Sound(t) /\ Local(t) \in Nat
      /\ t.ok => Local(t) = NumberIn(r.data, r.pos, 1)
  BY ReadByteIs
<1>2. s = ReadTo(r, "u8", member)
  BY DEF ReadTo
<1> HIDE DEF t
<1>3. s.taken = t.taken /\ (s.ok <=> t.ok)
  <2> DEFINE v == Local(t)
             path == <<member>>
  <2>1. IsReader(t) /\ s = Store(t, path, v)
    BY <1>1 DEF Sound
  <2> HIDE DEF v, s, path
  <2>2. /\ Store(t, path, v).taken = t.taken
        /\ Store(t, path, v).ok <=> t.ok
    BY <2>1, StoreIs
  <2> QED
    BY <2>1, <2>2
<1> HIDE DEF s
<1>4. Local(s) = Local(t)
  BY <1>3 DEF Local
<1> QED
  BY <1>1, <1>2, <1>3, <1>4

LEMMA SpecsReads ==
  ASSUME NEW data, NEW o
  PROVE  LET t == Tagged(data, o)
             q == Require(t, Local(t) = RobotSpecsType)
             c == ReadTo(ReadDoubles(q, <<>>, Maxima), "u8", "num_joints")
             z == Resize(c, "joint_limits", Local(c), NoRange)
         IN deserializeRobotSpecs(data, o) = (CHOOSE f : RangeLoop(z, Local(c), f))[Local(c)]
  BY Zenon DEF deserializeRobotSpecs, RangeLoop, RangeLoopAt, RangeRead, Tagged, Maxima, NoRange

\* The start of the limits, and the specifications that the bytes make.
LimitsStart == (2 + 4 * DoubleWidth) + 1
JointsIn(d) == NumberIn(d, 2 + 4 * DoubleWidth, 1)

SpecsAt(d) ==
  SpecsOf(DoubleAt(d, 2, 1), DoubleAt(d, 2, 2), DoubleAt(d, 2, 3), DoubleAt(d, 2, 4),
          JointsIn(d), RangesAt(d, LimitsStart, JointsIn(d)))

LEMMA RobotSpecsAre ==
  ASSUME NEW data, Readable(data), NEW old \in RobotSpecs
  PROVE  LET s == deserializeRobotSpecs(data, old)
             e == LimitsStart + JointsIn(data) * RangeWidth
         IN /\ IsReader(s) /\ s.data = data /\ s.inside = TRUE
            /\ s.ok <=> /\ LimitsStart <= Len(data) /\ NumberIn(data, 0, 1) = Version
                        /\ NumberIn(data, 1, 1) = RobotSpecsType /\ e <= Len(data)
            /\ s.ok => s.pos = e /\ s.out = SpecsAt(data)
            /\ s.out \in RobotSpecs
<1> DEFINE t == Tagged(data, old)
           l == Local(t) = RobotSpecsType
           q == Require(t, l)
           x == ReadDoubles(q, <<>>, Maxima)
           c == ReadTo(x, "u8", "num_joints")
           n == Local(c)
           z == Resize(c, "joint_limits", n, NoRange)
           f == CHOOSE f : RangeLoop(z, n, f)
           s == f[n]
           e == LimitsStart + JointsIn(data) * RangeWidth
<1>0. s = deserializeRobotSpecs(data, old)
  BY SpecsReads, Zenon
<1> SUFFICES /\ IsReader(s) /\ s.data = data /\ s.inside = TRUE
             /\ s.ok <=> /\ LimitsStart <= Len(data) /\ NumberIn(data, 0, 1) = Version
                         /\ NumberIn(data, 1, 1) = RobotSpecsType /\ e <= Len(data)
             /\ s.ok => s.pos = e /\ s.out = SpecsAt(data)
             /\ s.out \in RobotSpecs
  BY <1>0, Zenon
<1>1. /\ Sound(t) /\ t.data = data /\ t.out = old /\ t.inside = TRUE
      /\ t.ok <=> 2 <= Len(data) /\ NumberIn(data, 0, 1) = Version
      /\ t.ok => t.pos = 2 /\ Local(t) = NumberIn(data, 1, 1)
  BY TaggedOld
<1> HIDE DEF t
<1>2. l \in BOOLEAN /\ IsReader(t) /\ (t.ok => (l <=> NumberIn(data, 1, 1) = RobotSpecsType))
  BY <1>1 DEF Sound
<1> HIDE DEF l
<1>3. /\ Follows(t, q) /\ q.out = old /\ q.pos = t.pos
      /\ q.ok <=> t.ok /\ l
  BY <1>1, <1>2, RequireIs
<1>4. Sound(q) /\ q.data = data /\ q.inside = TRUE
  BY <1>1, <1>3, SoundFollows DEF Follows
<1> HIDE DEF q
<1>5. /\ Follows(q, x) /\ Sound(x)
      /\ x.ok <=> q.ok /\ q.pos + 4 * DoubleWidth <= Len(q.data)
      /\ x.ok => /\ x.pos = q.pos + 4 * DoubleWidth
                 /\ x.out = SpecsOf(DoubleAt(q.data, q.pos, 1), DoubleAt(q.data, q.pos, 2),
                                    DoubleAt(q.data, q.pos, 3), DoubleAt(q.data, q.pos, 4),
                                    q.out.num_joints, q.out.joint_limits)
      /\ x.out \in RobotSpecs
  BY <1>3, <1>4, ReadMaximaIs
<1> HIDE DEF x
<1>6. /\ Follows(x, c) /\ Sound(c)
      /\ c.ok <=> x.ok /\ x.pos + 1 <= Len(x.data)
      /\ c.ok => /\ c.pos = x.pos + 1 /\ NumberIn(x.data, x.pos, 1) \in Byte
                 /\ c.out = With(x.out, "num_joints", NumberIn(x.data, x.pos, 1))
      /\ ~ c.ok => c.out = x.out
  BY <1>5, ReadByteToIs
<1>7. n \in Nat /\ (c.ok => n = NumberIn(x.data, x.pos, 1))
  BY <1>5, CountedIs
<1> HIDE DEF c, n
<1>8. /\ x.data = data /\ x.inside = TRUE /\ c.data = data /\ c.inside = TRUE
      /\ DoubleWidth \in Nat \ {0} /\ Len(data) \in Nat /\ RangeWidth \in Nat \ {0}
  BY <1>4, <1>5, <1>6, WidthType DEF Follows, Readable, RangeWidth
<1>9. /\ q.ok <=> /\ 2 <= Len(data) /\ NumberIn(data, 0, 1) = Version
                  /\ NumberIn(data, 1, 1) = RobotSpecsType
      /\ q.ok => q.pos = 2
  BY <1>1, <1>2, <1>3
<1>10. /\ x.ok <=> q.ok /\ 2 + 4 * DoubleWidth <= Len(data)
       /\ x.ok => x.pos = 2 + 4 * DoubleWidth
  BY <1>4, <1>5, <1>9
<1>11. /\ c.ok <=> q.ok /\ LimitsStart <= Len(data)
       /\ c.ok => c.pos = LimitsStart /\ n = JointsIn(data) /\ n \in Byte
       /\ LimitsStart \in Nat
  BY <1>6, <1>7, <1>8, <1>10 DEF LimitsStart, JointsIn
<1>12. LimitsStart <= Len(data) => 2 <= Len(data)
  BY <1>8 DEF LimitsStart
<1>13. c.out \in RobotSpecs
  <2>1. CASE c.ok
    <3> DEFINE o == x.out
               k == NumberIn(x.data, x.pos, 1)
    <3>1. k \in Byte /\ c.out = With(o, "num_joints", k) /\ o \in RobotSpecs
      BY <1>5, <1>6, <2>1
    <3> HIDE DEF o, k
    <3>2. c.out = SpecsOf(o.max_velocity_linear, o.max_velocity_angular,
                          o.max_acceleration_linear, o.max_acceleration_angular,
                          k, o.joint_limits)
      BY <3>1, SpecsAre, SpecsCount
    <3> QED
      BY <3>1, <3>2, SpecsAre, SpecsIn
  <2>2. CASE ~ c.ok
    BY <1>5, <1>6, <2>2
  <2> QED
    BY <2>1, <2>2
<1>14. RangeLoop(z, n, f)
  BY <1>7, RangeLoopChosen
<1> HIDE DEF f
<1>15. CASE ~ c.ok
  <2>1. z = c
    BY <1>15 DEF Resize
  <2>2. s = c
    BY <1>7, <1>14, <1>15, <2>1, RangesNotRead
  <2>3. IsReader(c)
    BY <1>6 DEF Sound
  <2> HIDE DEF s
  <2> QED
    BY <1>8, <1>9, <1>11, <1>12, <1>13, <1>15, <2>2, <2>3
<1>16. CASE c.ok
  <2> DEFINE o == c.out
             u == Sized(o.joint_limits, n, NoRange)
  <2>1. /\ Follows(c, z) /\ Sound(z) /\ z.ok = TRUE /\ z.pos = c.pos
        /\ z.out = With(o, "joint_limits", u)
    <3> DEFINE m == "joint_limits"
               y == NoRange
    <3>1. Sound(c) /\ c.ok /\ u = Sized(c.out[m], n, y)
      BY <1>6, <1>16
    <3> HIDE DEF u, m, y
    <3>2. Grown(c, Resize(c, m, n, y), m, n, y)
      BY <3>1, ResizeWith
    <3> QED
      BY <3>1, <3>2 DEF m, y, Grown
  <2>2. u \in Seq(JointLimit) /\ Len(u) = n
    BY <1>7, <1>13, SpecsAre, SizedRanges
  <2>3. z.out = SpecsOf(o.max_velocity_linear, o.max_velocity_angular,
                        o.max_acceleration_linear, o.max_acceleration_angular,
                        o.num_joints, u)
    <3> HIDE DEF u, z
    <3> QED
      BY <1>13, <2>1, SpecsAre, SpecsLimits
  <2>4. z.ok
    BY <2>1
  <2> HIDE DEF u, z
  <2>5. /\ Follows(z, s) /\ Sound(s)
        /\ s.ok <=> z.pos + n * RangeWidth <= Len(z.data)
        /\ s.ok => /\ s.pos = z.pos + n * RangeWidth
                   /\ s.out = SpecsOf(o.max_velocity_linear, o.max_velocity_angular,
                                      o.max_acceleration_linear, o.max_acceleration_angular,
                                      o.num_joints, RangesAt(z.data, z.pos, n))
        /\ \E v \in Seq(JointLimit) :
             s.out = SpecsOf(o.max_velocity_linear, o.max_velocity_angular,
                             o.max_acceleration_linear, o.max_acceleration_angular,
                             o.num_joints, v)
    BY <1>7, <1>14, <2>1, <2>2, <2>3, <2>4, ReadRangesIs
  <2> HIDE DEF s
  <2>6. /\ z.data = data /\ z.inside = TRUE /\ s.data = data /\ s.inside = TRUE
        /\ IsReader(s) /\ z.pos = LimitsStart
    BY <1>8, <1>11, <1>16, <2>1, <2>5 DEF Follows
  <2>7. s.out \in RobotSpecs
    BY <1>13, <2>5, SpecsAre, SpecsIn
  <2>8. o = SpecsOf(DoubleAt(data, 2, 1), DoubleAt(data, 2, 2), DoubleAt(data, 2, 3),
                    DoubleAt(data, 2, 4), n, old.joint_limits)
    <3>1. c.out = With(x.out, "num_joints", n) /\ x.ok /\ q.pos = 2
      BY <1>6, <1>7, <1>9, <1>10, <1>16
    <3>2. x.out = SpecsOf(DoubleAt(data, 2, 1), DoubleAt(data, 2, 2), DoubleAt(data, 2, 3),
                          DoubleAt(data, 2, 4), old.num_joints, old.joint_limits)
      BY <1>3, <1>4, <1>5, <3>1
    <3> QED
      BY <3>1, <3>2, SpecsCount
  <2>9. /\ o.max_velocity_linear = DoubleAt(data, 2, 1)
        /\ o.max_velocity_angular = DoubleAt(data, 2, 2)
        /\ o.max_acceleration_linear = DoubleAt(data, 2, 3)
        /\ o.max_acceleration_angular = DoubleAt(data, 2, 4)
        /\ o.num_joints = n
    BY <2>8, SpecsMembers
  <2>10. n = JointsIn(data)
    BY <1>11, <1>16
  <2>11. s.ok => s.out = SpecsAt(data)
    BY <2>5, <2>6, <2>9, <2>10 DEF SpecsAt
  <2>12. s.ok <=> e <= Len(data)
    BY <2>5, <2>6, <2>10
  <2>13. s.ok => s.pos = e
    BY <2>5, <2>6, <2>10
  <2>14. q.ok /\ LimitsStart <= Len(data)
    BY <1>11, <1>16
  <2> QED
    BY <1>9, <2>6, <2>7, <2>11, <2>12, <2>13, <2>14
<1> QED
  BY <1>15, <1>16

-----------------------------------------------------------------------------
(***************************************************************************)
(* Status messages.                                                        *)
(***************************************************************************)
StatusOf(t, b, f, e, j, s, m) ==
  [timestamp_us |-> t, base_pose |-> b, flange_pose |-> f, end_effector_pose |-> e,
   joint_positions |-> j, status |-> s, error_msg |-> m]

\* An object of the deserializer, whatever has been read into it.
StatusFine(o) ==
  /\ o \in StatusMessages(Seq(Byte))
  /\ Len(o.joint_positions) <= MaxJoints /\ Len(o.error_msg) <= MaxText

LEMMA StatusAre ==
  ASSUME NEW o, StatusFine(o)
  PROVE  /\ o = StatusOf(o.timestamp_us, o.base_pose, o.flange_pose, o.end_effector_pose,
                         o.joint_positions, o.status, o.error_msg)
         /\ o.timestamp_us \in Number("u64") /\ o.status \in Byte
         /\ "base_pose" \in DOMAIN o /\ o["base_pose"] \in Pose
         /\ "flange_pose" \in DOMAIN o /\ o["flange_pose"] \in Pose
         /\ "end_effector_pose" \in DOMAIN o /\ o["end_effector_pose"] \in Pose
         /\ "joint_positions" \in DOMAIN o /\ o["joint_positions"] \in Seq(Double)
         /\ "error_msg" \in DOMAIN o /\ o["error_msg"] \in Seq(Byte)
         /\ Len(o["joint_positions"]) <= MaxJoints /\ Len(o["error_msg"]) <= MaxText
  BY DEF StatusFine, StatusOf, StatusMessages

LEMMA StatusFineOf ==
  ASSUME NEW t \in Number("u64"), NEW b \in Pose, NEW f \in Pose, NEW e \in Pose,
         NEW j \in Seq(Double), NEW s \in Byte, NEW m \in Seq(Byte),
         Len(j) <= MaxJoints, Len(m) <= MaxText
  PROVE  StatusFine(StatusOf(t, b, f, e, j, s, m))
  BY DEF StatusFine, StatusOf, StatusMessages

LEMMA StatusWith ==
  ASSUME NEW t, NEW b, NEW f, NEW e, NEW j, NEW s, NEW m
  PROVE  /\ \A v : With(StatusOf(t, b, f, e, j, s, m), "timestamp_us", v)
                     = StatusOf(v, b, f, e, j, s, m)
         /\ \A v : With(StatusOf(t, b, f, e, j, s, m), "base_pose", v)
                     = StatusOf(t, v, f, e, j, s, m)
         /\ \A v : With(StatusOf(t, b, f, e, j, s, m), "flange_pose", v)
                     = StatusOf(t, b, v, e, j, s, m)
         /\ \A v : With(StatusOf(t, b, f, e, j, s, m), "end_effector_pose", v)
                     = StatusOf(t, b, f, v, j, s, m)
         /\ \A v : With(StatusOf(t, b, f, e, j, s, m), "joint_positions", v)
                     = StatusOf(t, b, f, e, v, s, m)
         /\ \A v : With(StatusOf(t, b, f, e, j, s, m), "status", v)
                     = StatusOf(t, b, f, e, j, v, m)
         /\ \A v : With(StatusOf(t, b, f, e, j, s, m), "error_msg", v)
                     = StatusOf(t, b, f, e, j, s, v)
<1>1. \A v : With(StatusOf(t, b, f, e, j, s, m), "timestamp_us", v) = StatusOf(v, b, f, e, j, s, m)
  BY DEF With, StatusOf
<1>2. \A v : With(StatusOf(t, b, f, e, j, s, m), "base_pose", v) = StatusOf(t, v, f, e, j, s, m)
  BY DEF With, StatusOf
<1>3. \A v : With(StatusOf(t, b, f, e, j, s, m), "flange_pose", v) = StatusOf(t, b, v, e, j, s, m)
  BY DEF With, StatusOf
<1>4. \A v : With(StatusOf(t, b, f, e, j, s, m), "end_effector_pose", v)
               = StatusOf(t, b, f, v, j, s, m)
  BY DEF With, StatusOf
<1>5. \A v : With(StatusOf(t, b, f, e, j, s, m), "joint_positions", v)
               = StatusOf(t, b, f, e, v, s, m)
  BY DEF With, StatusOf
<1>6. \A v : With(StatusOf(t, b, f, e, j, s, m), "status", v) = StatusOf(t, b, f, e, j, v, m)
  BY DEF With, StatusOf
<1>7. \A v : With(StatusOf(t, b, f, e, j, s, m), "error_msg", v) = StatusOf(t, b, f, e, j, s, v)
  BY DEF With, StatusOf
<1> QED
  BY <1>1, <1>2, <1>3, <1>4, <1>5, <1>6, <1>7

LEMMA StatusFineWith ==
  ASSUME NEW o, StatusFine(o)
  PROVE  /\ \A v \in Number("u64") : StatusFine(With(o, "timestamp_us", v))
         /\ \A v \in Pose : /\ StatusFine(With(o, "base_pose", v))
                            /\ StatusFine(With(o, "flange_pose", v))
                            /\ StatusFine(With(o, "end_effector_pose", v))
         /\ \A v \in Seq(Double) : Len(v) <= MaxJoints =>
              StatusFine(With(o, "joint_positions", v))
         /\ \A v \in Byte : StatusFine(With(o, "status", v))
         /\ \A v \in Seq(Byte) : Len(v) <= MaxText => StatusFine(With(o, "error_msg", v))
<1> DEFINE t == o.timestamp_us
           b == o.base_pose
           f == o.flange_pose
           e == o.end_effector_pose
           j == o.joint_positions
           s == o.status
           m == o.error_msg
<1>1. /\ o = StatusOf(t, b, f, e, j, s, m)
      /\ t \in Number("u64") /\ b \in Pose /\ f \in Pose /\ e \in Pose
      /\ j \in Seq(Double) /\ s \in Byte /\ m \in Seq(Byte)
      /\ Len(j) <= MaxJoints /\ Len(m) <= MaxText
  BY StatusAre
<1> HIDE DEF t, b, f, e, j, s, m
<1>2. ASSUME NEW v \in Number("u64") PROVE StatusFine(With(o, "timestamp_us", v))
  BY <1>1, StatusWith, StatusFineOf
<1>3. ASSUME NEW v \in Pose PROVE StatusFine(With(o, "base_pose", v))
  BY <1>1, StatusWith, StatusFineOf
<1>4. ASSUME NEW v \in Pose PROVE StatusFine(With(o, "flange_pose", v))
  BY <1>1, StatusWith, StatusFineOf
<1>5. ASSUME NEW v \in Pose PROVE StatusFine(With(o, "end_effector_pose", v))
  BY <1>1, StatusWith, StatusFineOf
<1>6. ASSUME NEW v \in Seq(Double), Len(v) <= MaxJoints
      PROVE  StatusFine(With(o, "joint_positions", v))
  BY <1>1, <1>6, StatusWith, StatusFineOf
<1>7. ASSUME NEW v \in Byte PROVE StatusFine(With(o, "status", v))
  BY <1>1, StatusWith, StatusFineOf
<1>8. ASSUME NEW v \in Seq(Byte), Len(v) <= MaxText PROVE StatusFine(With(o, "error_msg", v))
  BY <1>1, <1>8, StatusWith, StatusFineOf
<1> QED
  BY <1>2, <1>3, <1>4, <1>5, <1>6, <1>7, <1>8

LEMMA ReadStampToIs ==
  ASSUME NEW r, Sound(r), NEW member
  PROVE  LET s == ReadTo(r, "u64", member)
             n == NumberIn(r.data, r.pos, Width["u64"])
         IN /\ Follows(r, s) /\ Sound(s)
            /\ s.ok <=> r.ok /\ r.pos + Width["u64"] <= Len(r.data)
            /\ s.ok => /\ s.pos = r.pos + Width["u64"] /\ n \in Number("u64")
                       /\ s.out = With(r.out, member, n)
            /\ ~ s.ok => s.out = r.out
<1>1. /\ IsReader(r) /\ Room(r, Width["u64"]) /\ "u64" \in Types
  BY SoundRoom DEF Sound, Types
<1>2. /\ Follows(r, ReadTo(r, "u64", member))
      /\ ReadTo(r, "u64", member).ok <=> r.ok /\ r.pos + Width["u64"] <= Len(r.data)
      /\ ReadTo(r, "u64", member).ok =>
           /\ ReadTo(r, "u64", member).pos = r.pos + Width["u64"]
           /\ ReadTo(r, "u64", member).out =
                [r.out EXCEPT ![member] = NumberIn(r.data, r.pos, Width["u64"])]
      /\ ~ ReadTo(r, "u64", member).ok => ReadTo(r, "u64", member).out = r.out
  BY <1>1, ReadToIs
<1>3. r.pos + Width["u64"] <= Len(r.data) =>
        NumberIn(r.data, r.pos, Width["u64"]) \in Number("u64")
  <2>1. r.data \in Seq(Byte) /\ r.pos \in Nat /\ Width["u64"] \in Nat
    BY <1>1, ReaderType, WidthType
  <2> QED
    BY <2>1, NumberInType DEF Number
<1>4. Sound(ReadTo(r, "u64", member))
  BY <1>2, SoundFollows
<1> QED
  BY <1>1, <1>2, <1>3, <1>4 DEF With

\* Where the poses and the count of joints are.
BaseStart == 1 + Width["u64"]
FlangeStart == BaseStart + 7 * DoubleWidth
EffectorStart == FlangeStart + 7 * DoubleWidth
StatusCount == EffectorStart + 7 * DoubleWidth

LEMMA StatusStarts ==
  /\ BaseStart \in Nat /\ FlangeStart \in Nat /\ EffectorStart \in Nat /\ StatusCount \in Nat
  /\ 1 <= BaseStart /\ BaseStart <= FlangeStart /\ FlangeStart <= EffectorStart
  /\ EffectorStart <= StatusCount
  /\ DoubleWidth \in Nat \ {0} /\ Width["u64"] \in Nat \ {0}
<1>1. DoubleWidth \in Nat \ {0} /\ Width["u64"] \in Nat \ {0}
  BY WidthType DEF Types
<1> QED
  BY <1>1 DEF BaseStart, FlangeStart, EffectorStart, StatusCount

\* One pose of the three.
LEMMA StatusPoseIs ==
  ASSUME NEW r, Sound(r), StatusFine(r.out),
         NEW member \in {"base_pose", "flange_pose", "end_effector_pose"}
  PROVE  LET s == deserializePose(r, <<member>>)
         IN /\ Sound(s) /\ s.data = r.data /\ s.inside = r.inside /\ StatusFine(s.out)
            /\ s.ok <=> r.ok /\ r.pos + 7 * DoubleWidth <= Len(r.data)
            /\ s.ok => /\ s.pos = r.pos + 7 * DoubleWidth
                       /\ s.out = With(r.out, member, PoseAt(r.data, r.pos))
<1> DEFINE s == deserializePose(r, <<member>>)
<1>1. member \in DOMAIN r.out /\ r.out[member] \in Pose
  BY StatusAre
<1>2. /\ Follows(r, s) /\ Sound(s)
      /\ s.ok <=> r.ok /\ r.pos + 7 * DoubleWidth <= Len(r.data)
      /\ s.ok => /\ s.pos = r.pos + 7 * DoubleWidth
                 /\ s.out = With(r.out, member, PoseAt(r.data, r.pos))
      /\ s.out = r.out \/ \E p \in Pose : s.out = With(r.out, member, p)
  BY <1>1, PoseMemberIs
<1> HIDE DEF s
<1>3. \A p \in Pose : StatusFine(With(r.out, member, p))
  BY StatusFineWith
<1>4. StatusFine(s.out)
  BY <1>2, <1>3
<1> QED
  BY <1>2, <1>4 DEF Follows, s

\* The version, the timestamp and the poses.
StatusHead(data, o) ==
  LET stamped == ReadTo(ReadVersion(Reader(data, o)), "u64", "timestamp_us")
      base == deserializePose(stamped, <<"base_pose">>)
      flange == deserializePose(base, <<"flange_pose">>)
  IN deserializePose(flange, <<"end_effector_pose">>)

LEMMA StatusHeadIs ==
  ASSUME NEW data, Readable(data), NEW old, StatusFine(old)
  PROVE  LET s == StatusHead(data, old)
         IN /\ Sound(s) /\ s.data = data /\ s.inside = TRUE /\ StatusFine(s.out)
            /\ s.ok <=> NumberIn(data, 0, 1) = Version /\ StatusCount <= Len(data)
            /\ s.ok => /\ s.pos = StatusCount
                       /\ s.out = StatusOf(NumberIn(data, 1, Width["u64"]),
                                           PoseAt(data, BaseStart), PoseAt(data, FlangeStart),
                                           PoseAt(data, EffectorStart), old.joint_positions,
                                           old.status, old.error_msg)
<1> DEFINE v == ReadVersion(Reader(data, old))
           stamped == ReadTo(v, "u64", "timestamp_us")
           base == deserializePose(stamped, <<"base_pose">>)
           flange == deserializePose(base, <<"flange_pose">>)
           s == deserializePose(flange, <<"end_effector_pose">>)
           t == NumberIn(data, 1, Width["u64"])
           w == 7 * DoubleWidth
<1>0. s = StatusHead(data, old)
  BY DEF StatusHead
<1>1. /\ Sound(v) /\ v.data = data /\ v.out = old /\ v.inside = TRUE
      /\ v.ok <=> 1 <= Len(data) /\ NumberIn(data, 0, 1) = Version
      /\ v.ok => v.pos = 1
  <2>1. Sound(v) /\ v.data = data /\ v.inside = TRUE
    BY VersionedIs
  <2>2. v.out = old
    <3>1. v.out = Reader(data, old).out
      BY VersionedIs
    <3>2. Reader(data, old).out = old
      BY DEF Reader
    <3> QED
      BY <3>1, <3>2, Zenon
  <2>3. v.ok <=> 1 <= Len(data) /\ NumberIn(data, 0, 1) = Version
    BY VersionedIs
  <2>4. v.ok => v.pos = 1
    <3>1. v.ok => v.pos = Reader(data, old).pos + 1
      BY VersionedIs, ZenonT(40)
    <3>2. Reader(data, old).pos = 0
      BY DEF Reader
    <3> QED
      BY <3>1, <3>2
  <2> QED
    BY <2>1, <2>2, <2>3, <2>4
<1> HIDE DEF v
<1>2. /\ Follows(v, stamped) /\ Sound(stamped)
      /\ stamped.ok <=> v.ok /\ v.pos + Width["u64"] <= Len(v.data)
      /\ stamped.ok => /\ stamped.pos = v.pos + Width["u64"]
                       /\ NumberIn(v.data, v.pos, Width["u64"]) \in Number("u64")
                       /\ stamped.out = With(v.out, "timestamp_us",
                                             NumberIn(v.data, v.pos, Width["u64"]))
      /\ ~ stamped.ok => stamped.out = v.out
  BY <1>1, ReadStampToIs
<1> HIDE DEF stamped
<1>3. /\ stamped.data = data /\ stamped.inside = TRUE
      /\ stamped.ok <=> v.ok /\ BaseStart <= Len(data)
      /\ stamped.ok => /\ stamped.pos = BaseStart /\ t \in Number("u64")
                       /\ stamped.out = With(old, "timestamp_us", t)
      /\ StatusFine(stamped.out)
  <2>1. stamped.data = data /\ stamped.inside = TRUE
    BY <1>1, <1>2 DEF Follows
  <2>2. /\ stamped.ok <=> v.ok /\ BaseStart <= Len(data)
        /\ stamped.ok => stamped.pos = BaseStart
    BY <1>1, <1>2 DEF BaseStart
  <2>3. stamped.ok => t \in Number("u64") /\ stamped.out = With(old, "timestamp_us", t)
    BY <1>1, <1>2
  <2> HIDE DEF t
  <2>4. StatusFine(stamped.out)
    BY <1>1, <1>2, <2>3, StatusFineWith
  <2> QED
    BY <2>1, <2>2, <2>3, <2>4
<1>4. /\ Sound(base) /\ base.data = stamped.data /\ base.inside = stamped.inside
      /\ StatusFine(base.out)
      /\ base.ok <=> stamped.ok /\ stamped.pos + w <= Len(stamped.data)
      /\ base.ok => /\ base.pos = stamped.pos + w
                    /\ base.out = With(stamped.out, "base_pose", PoseAt(stamped.data, stamped.pos))
  BY <1>2, <1>3, StatusPoseIs
<1> HIDE DEF base
<1>5. /\ Sound(flange) /\ flange.data = base.data /\ flange.inside = base.inside
      /\ StatusFine(flange.out)
      /\ flange.ok <=> base.ok /\ base.pos + w <= Len(base.data)
      /\ flange.ok => /\ flange.pos = base.pos + w
                      /\ flange.out = With(base.out, "flange_pose", PoseAt(base.data, base.pos))
  BY <1>4, StatusPoseIs
<1> HIDE DEF flange
<1>6. /\ Sound(s) /\ s.data = flange.data /\ s.inside = flange.inside
      /\ StatusFine(s.out)
      /\ s.ok <=> flange.ok /\ flange.pos + w <= Len(flange.data)
      /\ s.ok => /\ s.pos = flange.pos + w
                 /\ s.out = With(flange.out, "end_effector_pose",
                                 PoseAt(flange.data, flange.pos))
  BY <1>5, StatusPoseIs
<1> HIDE DEF s
<1>7. /\ base.data = data /\ flange.data = data /\ s.data = data /\ s.inside = TRUE
  BY <1>3, <1>4, <1>5, <1>6
<1>8. /\ FlangeStart = BaseStart + w /\ EffectorStart = FlangeStart + w
      /\ StatusCount = EffectorStart + w
  BY DEF FlangeStart, EffectorStart, StatusCount
<1>9. w \in Nat /\ Len(data) \in Nat
  BY StatusStarts DEF Readable
<1> HIDE DEF w, t
<1>10. /\ base.ok <=> stamped.ok /\ FlangeStart <= Len(data)
       /\ base.ok => base.pos = FlangeStart
       /\ flange.ok <=> base.ok /\ EffectorStart <= Len(data)
       /\ flange.ok => flange.pos = EffectorStart
       /\ s.ok <=> flange.ok /\ StatusCount <= Len(data)
       /\ s.ok => s.pos = StatusCount
  BY <1>3, <1>4, <1>5, <1>6, <1>7, <1>8
<1>11. s.ok <=> NumberIn(data, 0, 1) = Version /\ StatusCount <= Len(data)
  BY <1>1, <1>3, <1>9, <1>10, StatusStarts
<1>12. s.ok => s.out = StatusOf(t, PoseAt(data, BaseStart), PoseAt(data, FlangeStart),
                                PoseAt(data, EffectorStart), old.joint_positions,
                                old.status, old.error_msg)
  <2> SUFFICES ASSUME s.ok
               PROVE  s.out = StatusOf(t, PoseAt(data, BaseStart), PoseAt(data, FlangeStart),
                                       PoseAt(data, EffectorStart), old.joint_positions,
                                       old.status, old.error_msg)
    OBVIOUS
  <2> DEFINE x == PoseAt(data, BaseStart)
             y == PoseAt(data, FlangeStart)
             z == PoseAt(data, EffectorStart)
  <2>1. /\ stamped.out = With(old, "timestamp_us", t)
        /\ base.out = With(stamped.out, "base_pose", x)
        /\ flange.out = With(base.out, "flange_pose", y)
        /\ s.out = With(flange.out, "end_effector_pose", z)
    BY <1>3, <1>4, <1>5, <1>6, <1>7, <1>10
  <2> HIDE DEF x, y, z
  <2>2. stamped.out = StatusOf(t, old.base_pose, old.flange_pose, old.end_effector_pose,
                               old.joint_positions, old.status, old.error_msg)
    BY <2>1, StatusAre, StatusWith
  <2>3. base.out = StatusOf(t, x, old.flange_pose, old.end_effector_pose,
                            old.joint_positions, old.status, old.error_msg)
    BY <2>1, <2>2, StatusWith
  <2>4. flange.out = StatusOf(t, x, y, old.end_effector_pose,
                              old.joint_positions, old.status, old.error_msg)
    BY <2>1, <2>3, StatusWith
  <2>5. s.out = StatusOf(t, x, y, z, old.joint_positions, old.status, old.error_msg)
    BY <2>1, <2>4, StatusWith
  <2> QED
    BY <2>5 DEF x, y, z
<1> QED
  BY <1>0, <1>6, <1>7, <1>10, <1>11, <1>12 DEF t

\* Where the status of a robot, its flag and the text begin, and the message ends.
JointCount(d) == NumberIn(d, StatusCount, 1)
StatusTail(d) == (StatusCount + 1) + JointCount(d) * DoubleWidth
FlagIn(d) == NumberIn(d, StatusTail(d) + 1, 1)
TextCount(d) == StatusTail(d) + 2
TextStart(d) == TextCount(d) + Width["u64"]
TextLength(d) == NumberIn(d, TextCount(d), Width["u64"])

\* The joints, the status and the flag after the poses.
StatusFlag(r) == Read(ReadTo(ReadJoints(r, "joint_positions"), "u8", "status"), "u8")

LEMMA StatusFlagIs ==
  ASSUME NEW r, Sound(r), StatusFine(r.out), r.ok => r.pos = StatusCount
  PROVE  LET f == StatusFlag(r)
             d == r.data
         IN /\ Sound(f) /\ f.data = d /\ f.inside = r.inside /\ StatusFine(f.out)
            /\ f.ok <=> /\ r.ok /\ StatusCount + 1 <= Len(d) /\ JointCount(d) <= MaxJoints
                        /\ TextCount(d) <= Len(d)
            /\ f.ok => /\ f.pos = TextCount(d) /\ Local(f) = FlagIn(d)
                       /\ JointCount(d) \in 0..MaxJoints
                       /\ NumberIn(d, StatusTail(d), 1) \in Byte
                       /\ f.out = With(With(r.out, "joint_positions",
                                            VectorAt(d, StatusCount + 1, JointCount(d))),
                                       "status", NumberIn(d, StatusTail(d), 1))
<1> DEFINE j == ReadJoints(r, "joint_positions")
           s == ReadTo(j, "u8", "status")
           f == Read(s, "u8")
           d == r.data
           n == NumberIn(r.data, r.pos, 1)
           k == JointCount(d)
           v == VectorAt(d, StatusCount + 1, k)
           b == NumberIn(d, StatusTail(d), 1)
<1>1. "joint_positions" \in DOMAIN r.out /\ r.out["joint_positions"] \in Seq(Double)
  BY StatusAre
<1>2. /\ Follows(r, j) /\ Sound(j)
      /\ j.ok <=> /\ r.ok /\ r.pos + 1 <= Len(d) /\ n <= MaxJoints
                  /\ (r.pos + 1) + n * DoubleWidth <= Len(d)
      /\ j.ok => /\ j.pos = (r.pos + 1) + n * DoubleWidth
                 /\ n \in 0..MaxJoints
                 /\ \E x : Vector(d, r.pos + 1, n, x) /\ j.out = With(r.out, "joint_positions", x)
      /\ \/ j.out = r.out
         \/ \E x \in Seq(Double) : Len(x) <= MaxJoints
                                   /\ j.out = With(r.out, "joint_positions", x)
  BY <1>1, ReadJointsIs
<1> HIDE DEF j
<1>3. /\ Follows(j, s) /\ Sound(s)
      /\ s.ok <=> j.ok /\ j.pos + 1 <= Len(j.data)
      /\ s.ok => /\ s.pos = j.pos + 1 /\ NumberIn(j.data, j.pos, 1) \in Byte
                 /\ s.out = With(j.out, "status", NumberIn(j.data, j.pos, 1))
      /\ ~ s.ok => s.out = j.out
  BY <1>2, ReadByteToIs
<1> HIDE DEF s
<1>4. /\ Follows(s, f) /\ Sound(f) /\ f.out = s.out
      /\ f.ok <=> s.ok /\ s.pos + 1 <= Len(s.data)
      /\ f.ok => f.pos = s.pos + 1 /\ Local(f) = NumberIn(s.data, s.pos, 1)
  BY <1>3, ReadByteIs
<1> HIDE DEF f
<1>5. /\ j.data = d /\ s.data = d /\ f.data = d
      /\ j.inside = r.inside /\ s.inside = r.inside /\ f.inside = r.inside
  BY <1>2, <1>3, <1>4 DEF Follows
<1>6. Len(d) \in Nat /\ StatusCount \in Nat
  BY StatusStarts, ReaderType DEF Sound
<1>7. /\ r.ok => n = k
      /\ j.ok => k \in 0..MaxJoints /\ StatusTail(d) = j.pos
  BY <1>2 DEF JointCount, StatusTail
<1>8. StatusFine(j.out)
  BY <1>2, StatusFineWith
<1>9. StatusFine(s.out)
  BY <1>3, <1>8, StatusFineWith
<1>10. j.ok => j.pos \in Nat /\ StatusTail(d) \in Nat
  BY <1>2, <1>7, ReaderType DEF Sound
<1>11. /\ s.ok <=> j.ok /\ StatusTail(d) + 1 <= Len(d)
       /\ s.ok => s.pos = StatusTail(d) + 1
       /\ f.ok <=> s.ok /\ TextCount(d) <= Len(d)
       /\ f.ok => f.pos = TextCount(d) /\ Local(f) = FlagIn(d)
  BY <1>3, <1>4, <1>5, <1>7, <1>10 DEF TextCount, FlagIn
<1>12. j.ok <=> r.ok /\ StatusCount + 1 <= Len(d) /\ k <= MaxJoints /\ StatusTail(d) <= Len(d)
  BY <1>2, <1>7 DEF StatusTail, JointCount
<1>13. r.ok /\ StatusCount + 1 <= Len(d) => k \in Nat
  <2>1. r.data \in Seq(Byte) /\ 1 \in Nat
    BY ReaderType DEF Sound
  <2> QED
    BY <1>6, <2>1, NumberInType DEF JointCount
<1>14. r.ok /\ StatusCount + 1 <= Len(d) => StatusTail(d) \in Nat
  BY <1>13, StatusStarts DEF StatusTail
<1>15. f.ok <=> /\ r.ok /\ StatusCount + 1 <= Len(d) /\ k <= MaxJoints
                /\ TextCount(d) <= Len(d)
  BY <1>6, <1>11, <1>12, <1>14 DEF TextCount
<1>16. ASSUME f.ok PROVE b \in Byte /\ f.out = With(With(r.out, "joint_positions", v), "status", b)
  <2>1. j.ok /\ s.ok /\ r.ok
    BY <1>2, <1>11, <1>16
  <2>2. PICK x : Vector(d, r.pos + 1, n, x) /\ j.out = With(r.out, "joint_positions", x)
    BY <1>2, <2>1
  <2>3. n = k /\ k \in Nat /\ r.pos = StatusCount
    BY <1>2, <1>7, <2>1
  <2>4. x = VectorAt(d, r.pos + 1, n)
    BY <2>2, <2>3, VectorIs
  <2>5. x = v
    BY <2>3, <2>4
  <2> HIDE DEF v
  <2>6. b \in Byte /\ s.out = With(j.out, "status", b)
    BY <1>3, <1>5, <1>7, <2>1
  <2> QED
    BY <1>4, <2>2, <2>5, <2>6
<1>17. f = StatusFlag(r)
  BY DEF StatusFlag, f, s, j
<1> QED
  BY <1>4, <1>5, <1>7, <1>9, <1>11, <1>15, <1>16, <1>17 DEF v, b

\* The status message at the beginning of d, and where it ends.
StatusAt(d) ==
  StatusOf(NumberIn(d, 1, Width["u64"]), PoseAt(d, BaseStart), PoseAt(d, FlangeStart),
           PoseAt(d, EffectorStart), VectorAt(d, StatusCount + 1, JointCount(d)),
           NumberIn(d, StatusTail(d), 1),
           IF FlagIn(d) # 0 THEN Window(d, TextStart(d), TextLength(d)) ELSE <<>>)

StatusEnd(d) == IF FlagIn(d) # 0 THEN TextStart(d) + TextLength(d) ELSE TextCount(d)

\* It is one: the version, the counts within the limits, and all the bytes.
StatusIn(d) ==
  /\ NumberIn(d, 0, 1) = Version
  /\ StatusCount + 1 <= Len(d) /\ JointCount(d) <= MaxJoints
  /\ TextCount(d) <= Len(d)
  /\ FlagIn(d) # 0 => TextStart(d) <= Len(d) /\ TextLength(d) <= MaxText
                      /\ StatusEnd(d) <= Len(d)

LEMMA NoText ==
  ASSUME NEW r, Sound(r), r.ok
  PROVE  LET e == Resize(r, "error_msg", 0, 0)
         IN /\ Follows(r, e) /\ e.ok = TRUE /\ e.pos = r.pos
            /\ e.out = With(r.out, "error_msg", <<>>)
<1> DEFINE zero == 0
           member == "error_msg"
           e == Resize(r, member, zero, 0)
<1> HIDE DEF zero, member
<1>a. Grown(r, e, member, zero, 0)
  BY ResizeZero
<1> HIDE DEF e
<1>1. /\ Follows(r, e) /\ e.ok = TRUE /\ e.pos = r.pos
      /\ e.out = With(r.out, member, Sized(r.out[member], zero, 0))
  BY <1>a DEF Grown
<1> USE DEF e
<1>2. \A v : Sized(v, zero, 0) = <<>>
  <2>1. 1..zero = {}
    BY DEF zero
  <2> QED
    BY <2>1 DEF Sized
<1> QED
  BY <1>1, <1>2 DEF zero, member

\* deserializeStatusMessage, whatever it is given.
LEMMA StatusMessageIs ==
  ASSUME NEW data, Readable(data), NEW old, StatusFine(old)
  PROVE  LET s == deserializeStatusMessage(data, old)
         IN /\ IsReader(s) /\ s.data = data /\ s.inside = TRUE /\ StatusFine(s.out)
            /\ s.ok <=> StatusIn(data)
            /\ s.ok => s.pos = StatusEnd(data) /\ s.out = StatusAt(data)
<1> DEFINE r == StatusHead(data, old)
           f == StatusFlag(r)
           read == ReadText(f, "error_msg")
           none == Resize(f, "error_msg", 0, 0)
           s == IF Local(f) # 0 THEN read ELSE none
           t == NumberIn(data, 1, Width["u64"])
           x == PoseAt(data, BaseStart)
           y == PoseAt(data, FlangeStart)
           z == PoseAt(data, EffectorStart)
           v == VectorAt(data, StatusCount + 1, JointCount(data))
           b == NumberIn(data, StatusTail(data), 1)
           w == Window(data, TextStart(data), TextLength(data))
<1>0. s = deserializeStatusMessage(data, old)
  BY DEF deserializeStatusMessage, StatusHead, StatusFlag
<1>1. /\ Sound(r) /\ r.data = data /\ r.inside = TRUE /\ StatusFine(r.out)
      /\ r.ok <=> NumberIn(data, 0, 1) = Version /\ StatusCount <= Len(data)
      /\ r.ok => /\ r.pos = StatusCount
                 /\ r.out = StatusOf(t, x, y, z, old.joint_positions, old.status, old.error_msg)
  BY StatusHeadIs
<1> HIDE DEF r
<1>2. /\ Sound(f) /\ f.data = data /\ f.inside = TRUE /\ StatusFine(f.out)
      /\ f.ok <=> /\ r.ok /\ StatusCount + 1 <= Len(data) /\ JointCount(data) <= MaxJoints
                  /\ TextCount(data) <= Len(data)
      /\ f.ok => /\ f.pos = TextCount(data) /\ Local(f) = FlagIn(data)
                 /\ f.out = With(With(r.out, "joint_positions", v), "status", b)
  BY <1>1, StatusFlagIs
<1> HIDE DEF f
<1> HIDE DEF v, b, w, x, y, z, t
<1>3. f.ok => f.out = StatusOf(t, x, y, z, v, b, old.error_msg)
  BY <1>1, <1>2, StatusWith
<1>4. "error_msg" \in DOMAIN f.out /\ f.out["error_msg"] \in Seq(Byte)
  BY <1>2, StatusAre
<1>5. /\ Follows(f, read)
      /\ read.ok <=> /\ f.ok /\ f.pos + Width["u64"] <= Len(f.data)
                     /\ NumberIn(f.data, f.pos, Width["u64"]) <= MaxText
                     /\ (f.pos + Width["u64"]) + NumberIn(f.data, f.pos, Width["u64"])
                          <= Len(f.data)
      /\ read.ok => /\ read.pos = (f.pos + Width["u64"]) + NumberIn(f.data, f.pos, Width["u64"])
                    /\ read.out = With(f.out, "error_msg",
                                       Window(f.data, f.pos + Width["u64"],
                                              NumberIn(f.data, f.pos, Width["u64"])))
      /\ \/ read.out = f.out
         \/ \E m \in Seq(Byte) : Len(m) <= MaxText /\ read.out = With(f.out, "error_msg", m)
  BY <1>2, <1>4, ReadTextIs
<1> HIDE DEF read
<1>6. /\ read.ok <=> /\ f.ok /\ TextStart(data) <= Len(data)
                     /\ TextLength(data) <= MaxText
                     /\ TextStart(data) + TextLength(data) <= Len(data)
      /\ read.ok => /\ read.pos = TextStart(data) + TextLength(data)
                    /\ read.out = With(f.out, "error_msg", w)
  BY <1>2, <1>5 DEF TextStart, TextLength, w
<1>7. /\ IsReader(read) /\ read.data = data /\ read.inside = TRUE
      /\ StatusFine(read.out)
  BY <1>2, <1>5, StatusFineWith DEF Follows
<1>8. f.ok <=> /\ NumberIn(data, 0, 1) = Version
               /\ StatusCount + 1 <= Len(data) /\ JointCount(data) <= MaxJoints
               /\ TextCount(data) <= Len(data)
  <2>1. Len(data) \in Nat /\ StatusCount \in Nat
    BY StatusStarts DEF Readable
  <2>2. StatusCount + 1 <= Len(data) => StatusCount <= Len(data)
    BY <2>1
  <2> QED
    BY <1>1, <1>2, <2>2
<1>9. CASE f.ok /\ FlagIn(data) # 0
  <2>1. s = read /\ f.ok
    BY <1>2, <1>9
  <2> HIDE DEF s
  <2>2. /\ StatusEnd(data) = TextStart(data) + TextLength(data)
        /\ StatusAt(data) = StatusOf(t, x, y, z, v, b, w)
    BY <1>9 DEF StatusEnd, StatusAt, t, x, y, z, v, b, w
  <2>3. read.ok <=> StatusIn(data)
    BY <1>6, <1>8, <1>9, <2>2 DEF StatusIn
  <2>4. read.ok => read.pos = StatusEnd(data) /\ read.out = StatusAt(data)
    BY <1>3, <1>6, <2>1, <2>2, StatusWith
  <2> QED
    BY <1>0, <1>7, <2>1, <2>3, <2>4
<1>10. CASE f.ok /\ FlagIn(data) = 0
  <2>1. s = none /\ f.ok
    BY <1>2, <1>10
  <2>2. /\ Follows(f, none) /\ none.ok = TRUE /\ none.pos = f.pos
        /\ none.out = With(f.out, "error_msg", <<>>)
    BY <1>2, <1>10, NoText
  <2> HIDE DEF s, none
  <2>3. none.out = StatusAt(data) /\ StatusEnd(data) = TextCount(data)
    <3>1. StatusAt(data) = StatusOf(t, x, y, z, v, b, <<>>)
      BY <1>10 DEF StatusAt, t, x, y, z, v, b
    <3> DEFINE empty == <<>>
    <3>2. none.out = With(f.out, "error_msg", empty)
      BY <2>2
    <3>3. StatusAt(data) = StatusOf(t, x, y, z, v, b, empty)
      BY <3>1
    <3> HIDE DEF empty
    <3>4. none.out = StatusAt(data)
      BY <1>3, <1>10, <3>2, <3>3, StatusWith
    <3> QED
      BY <1>10, <3>4 DEF StatusEnd
  <2>4. StatusFine(none.out)
    <3>1. <<>> \in Seq(Byte) /\ Len(<<>>) <= MaxText
      BY LimitsType
    <3> DEFINE empty == <<>>
    <3>2. none.out = With(f.out, "error_msg", empty) /\ empty \in Seq(Byte)
          /\ Len(empty) <= MaxText
      BY <2>2, <3>1
    <3> HIDE DEF empty
    <3> QED
      BY <1>2, <3>2, StatusFineWith
  <2>5. StatusIn(data)
    BY <1>8, <1>10 DEF StatusIn
  <2> QED
    BY <1>0, <1>2, <2>1, <2>2, <2>3, <2>4, <2>5 DEF Follows
<1>11. CASE ~ f.ok
  <2>1. none = f
    BY <1>11 DEF Resize
  <2> HIDE DEF none
  <2>2. ~ read.ok /\ ~ StatusIn(data)
    BY <1>6, <1>8, <1>11 DEF StatusIn
  <2>3. s = read \/ s = f
    BY <2>1
  <2> HIDE DEF s
  <2> QED
    BY <1>0, <1>2, <1>7, <1>11, <2>2, <2>3 DEF Sound
<1>12. f.ok \in BOOLEAN /\ (FlagIn(data) # 0 \/ FlagIn(data) = 0)
  BY <1>2, ReaderType DEF Sound
<1> QED
  BY <1>9, <1>10, <1>11, <1>12

-----------------------------------------------------------------------------
(***************************************************************************)
(* The structs of the RPC layer: how long one is, and what its bytes make. *)
(***************************************************************************)
StructLength(i) ==
  CASE i = "Request"      -> 1 + 2 * W64
    [] i = "Response"     -> 1 + W64
    [] i = "StatusHeader" -> W64
    [] i = "Finished"     -> W64 + 1
    [] i = "FrameHeader"  -> 1 + 3 * W32

StructAt(i, d) ==
  CASE i = "Request" -> [req_type |-> d[1], feature |-> NetAt(d, 1, W64),
                         action_id |-> NetAt(d, 1 + W64, W64)]
    [] i = "Response" -> [resp_type |-> d[1], action_id |-> NetAt(d, 1, W64)]
    [] i = "StatusHeader" -> [feature |-> NetAt(d, 0, W64)]
    [] i = "Finished" -> [action_id |-> NetAt(d, 0, W64), success |-> d[W64 + 1] # 0]
    [] i = "FrameHeader" -> [kind |-> d[1], request_id |-> NetAt(d, 1, W32),
                             payload_size |-> NetAt(d, 1 + W32, W32),
                             blob_size |-> NetAt(d, 1 + 2 * W32, W32)]

StructRead(i, data, old) ==
  CASE i = "Request"      -> deserializeRequest(data, old)
    [] i = "Response"     -> deserializeResponse(data, old)
    [] i = "StatusHeader" -> deserializeStatus(data, old)
    [] i = "Finished"     -> deserializeFinished(data, old)
    [] i = "FrameHeader"  -> deserializeHeader(data)

StructWritten(i, o) ==
  CASE i = "Request"      -> serializeRequest(o)
    [] i = "Response"     -> serializeResponse(o)
    [] i = "StatusHeader" -> serializeStatus(o)
    [] i = "Finished"     -> serializeFinished(o)
    [] i = "FrameHeader"  -> serializeHeader(o)

LEMMA NetWidths ==
  /\ W64 \in Nat \ {0} /\ W32 \in Nat \ {0} /\ "u64" \in Types /\ "u32" \in Types
  BY WidthType DEF W64, W32, Types

IsFilled(s, data, o) ==
  s.pos = Len(data) /\ s.out = o /\ s.ok = TRUE /\ s.inside = TRUE
IsRefused(s, old) ==
  s.pos = 0 /\ s.out = old /\ s.ok = FALSE /\ s.inside = TRUE

LEMMA FilledIs ==
  ASSUME NEW data, NEW o
  PROVE  IsFilled(Filled(data, o), data, o)
  BY DEF Filled, Reader, IsFilled

LEMMA RefusedIs ==
  ASSUME NEW data, NEW o
  PROVE  IsRefused(Refused(data, o), o)
<1> DEFINE r == Reader(data, o)
<1>1. Refused(data, o) = [r EXCEPT !.ok = FALSE]
  BY DEF Refused, Require
<1>2. /\ r.pos = 0 /\ r.out = o /\ r.inside = TRUE
      /\ DOMAIN r = {"data", "pos", "taken", "out", "ok", "inside"}
  BY DEF Reader
<1> HIDE DEF r
<1>3. /\ [r EXCEPT !.ok = FALSE].pos = 0 /\ [r EXCEPT !.ok = FALSE].out = o
      /\ [r EXCEPT !.ok = FALSE].inside = TRUE /\ [r EXCEPT !.ok = FALSE].ok = FALSE
  BY <1>2
<1> QED
  BY <1>1, <1>3 DEF IsRefused

\* A struct is taken when the payload has its length; no header is read otherwise.
LEMMA StructIs ==
  ASSUME NEW i \in Structs, NEW data, NEW old,
         i = "FrameHeader" => Len(data) = StructLength(i)
  PROVE  LET s == StructRead(i, data, old)
         IN /\ s.inside = TRUE /\ s.ok \in BOOLEAN /\ s.pos \in {0, Len(data)}
            /\ s.ok <=> Len(data) = StructLength(i)
            /\ s.ok => s.pos = Len(data) /\ s.out = StructAt(i, data)
            /\ ~ s.ok => s.out = old
<1> DEFINE s == StructRead(i, data, old)
           o == StructAt(i, data)
<1>1. s = IF Len(data) = StructLength(i) THEN Filled(data, o) ELSE Refused(data, old)
  <2>1. CASE i = "Request"
    BY <2>1 DEF StructRead, StructAt, StructLength, deserializeRequest
  <2>2. CASE i = "Response"
    BY <2>2 DEF StructRead, StructAt, StructLength, deserializeResponse
  <2>3. CASE i = "StatusHeader"
    BY <2>3 DEF StructRead, StructAt, StructLength, deserializeStatus
  <2>4. CASE i = "Finished"
    BY <2>4 DEF StructRead, StructAt, StructLength, deserializeFinished
  <2>5. CASE i = "FrameHeader"
    BY <2>5 DEF StructRead, StructAt, StructLength, deserializeHeader
  <2> QED
    BY <2>1, <2>2, <2>3, <2>4, <2>5 DEF Structs
<1>2. /\ Filled(data, o).pos = Len(data) /\ Filled(data, o).out = o
      /\ Filled(data, o).ok = TRUE /\ Filled(data, o).inside = TRUE
      /\ Refused(data, old).pos = 0 /\ Refused(data, old).out = old
      /\ Refused(data, old).ok = FALSE /\ Refused(data, old).inside = TRUE
  <2> HIDE DEF o
  <2>1. IsFilled(Filled(data, o), data, o) /\ IsRefused(Refused(data, old), old)
    BY FilledIs, RefusedIs
  <2> QED
    BY <2>1 DEF IsFilled, IsRefused
<1> HIDE DEF s, o
<1>3. CASE Len(data) = StructLength(i)
  BY <1>1, <1>2, <1>3 DEF s, o
<1>4. CASE Len(data) # StructLength(i)
  BY <1>1, <1>2, <1>4 DEF s, o
<1> QED
  BY <1>3, <1>4

LEMMA StructType ==
  ASSUME NEW i \in Structs, NEW data \in Seq(Byte), Len(data) = StructLength(i)
  PROVE  StructAt(i, data) \in ObjectTypes[i] /\ StructLength(i) \in Nat
<1>1. \A p \in Nat : p + W64 <= Len(data) => NetAt(data, p, W64) \in Number("u64")
  BY NetWidths, NetType DEF NetAt, W64
<1>2. \A p \in Nat : p + W32 <= Len(data) => NetAt(data, p, W32) \in Number("u32")
  BY NetWidths, NetType DEF NetAt, W32
<1>3. \A j \in 1..Len(data) : data[j] \in Byte
  OBVIOUS
<1>4. CASE i = "Request"
  <2>1. Len(data) = 1 + 2 * W64
    BY <1>4 DEF StructLength
  <2>2. /\ NetAt(data, 1, W64) \in Number("u64") /\ data[1] \in Byte
        /\ NetAt(data, 1 + W64, W64) \in Number("u64")
    BY <1>1, <1>3, <2>1, NetWidths
  <2>3. StructAt(i, data) = [req_type |-> data[1], feature |-> NetAt(data, 1, W64),
                             action_id |-> NetAt(data, 1 + W64, W64)]
    BY <1>4 DEF StructAt
  <2>4. ObjectTypes[i] = [req_type: Byte, feature: Number("u64"), action_id: Number("u64")]
    BY <1>4 DEF ObjectTypes
  <2> QED
    BY <2>1, <2>2, <2>3, <2>4, NetWidths
<1>5. CASE i = "Response"
  <2>1. Len(data) = 1 + W64
    BY <1>5 DEF StructLength
  <2>2. NetAt(data, 1, W64) \in Number("u64") /\ data[1] \in Byte
    BY <1>1, <1>3, <2>1, NetWidths
  <2>3. StructAt(i, data) = [resp_type |-> data[1], action_id |-> NetAt(data, 1, W64)]
    BY <1>5 DEF StructAt
  <2>4. ObjectTypes[i] = [resp_type: Byte, action_id: Number("u64")]
    BY <1>5 DEF ObjectTypes
  <2> QED
    BY <2>1, <2>2, <2>3, <2>4, NetWidths
<1>6. CASE i = "StatusHeader"
  <2>1. Len(data) = W64
    BY <1>6 DEF StructLength
  <2>2. NetAt(data, 0, W64) \in Number("u64")
    BY <1>1, <2>1, NetWidths
  <2>3. StructAt(i, data) = [feature |-> NetAt(data, 0, W64)]
    BY <1>6 DEF StructAt
  <2>4. ObjectTypes[i] = [feature: Number("u64")]
    BY <1>6 DEF ObjectTypes
  <2> QED
    BY <2>1, <2>2, <2>3, <2>4, NetWidths
<1>7. CASE i = "Finished"
  <2>1. Len(data) = W64 + 1
    BY <1>7 DEF StructLength
  <2>2. NetAt(data, 0, W64) \in Number("u64")
    BY <1>1, <2>1, NetWidths
  <2>3. StructAt(i, data) = [action_id |-> NetAt(data, 0, W64), success |-> data[W64 + 1] # 0]
    BY <1>7 DEF StructAt
  <2>4. ObjectTypes[i] = [action_id: Number("u64"), success: BOOLEAN]
    BY <1>7 DEF ObjectTypes
  <2> QED
    BY <2>1, <2>2, <2>3, <2>4, NetWidths
<1>8. CASE i = "FrameHeader"
  <2>1. Len(data) = 1 + 3 * W32
    BY <1>8 DEF StructLength
  <2>2. /\ NetAt(data, 1, W32) \in Number("u32") /\ data[1] \in Byte
        /\ NetAt(data, 1 + W32, W32) \in Number("u32")
        /\ NetAt(data, 1 + 2 * W32, W32) \in Number("u32")
    BY <1>2, <1>3, <2>1, NetWidths
  <2>3. StructAt(i, data) = [kind |-> data[1], request_id |-> NetAt(data, 1, W32),
                             payload_size |-> NetAt(data, 1 + W32, W32),
                             blob_size |-> NetAt(data, 1 + 2 * W32, W32)]
    BY <1>8 DEF StructAt
  <2>4. ObjectTypes[i] = [kind: Byte, request_id: Number("u32"), payload_size: Number("u32"),
                          blob_size: Number("u32")]
    BY <1>8 DEF ObjectTypes
  <2> QED
    BY <2>1, <2>2, <2>3, <2>4, NetWidths
<1> QED
  BY <1>4, <1>5, <1>6, <1>7, <1>8 DEF Structs

-----------------------------------------------------------------------------
(***************************************************************************)
(* What the serializers write, from the front of the message.              *)
(***************************************************************************)
\* The last part of a message, and the message before it.
LEMMA LastPart ==
  ASSUME NEW d \in Seq(Byte), NEW a \in Seq(Byte), NEW b \in Seq(Byte), Holds(d, 0, a \o b)
  PROVE  Holds(d, 0, a) /\ Holds(d, Len(a), b)
<1>1. 0 \in Nat /\ 0 + Len(a) = Len(a)
  OBVIOUS
<1>2. Holds(d, 0, a) /\ Holds(d, 0 + Len(a), b)
  BY <1>1, HoldsParts
<1> QED
  BY <1>1, <1>2

LEMMA ByteWritten ==
  ASSUME NEW v \in Byte
  PROVE  U8(v) \in Seq(Byte) /\ Len(U8(v)) = 1
<1>1. U8(v) = <<v>>
  BY OneByte
<1> QED
  BY <1>1

LEMMA HoldsByte ==
  ASSUME NEW d \in Seq(Byte), NEW p \in Nat, NEW v \in Byte, Holds(d, p, U8(v))
  PROVE  NumberIn(d, p, 1) = v /\ d[p + 1] = v /\ p + 1 <= Len(d)
<1>1. U8(v) = <<v>>
  BY OneByte
<1>2. <<v>> \in Seq(Byte) /\ Len(<<v>>) = 1 /\ <<v>>[1] = v /\ 1 \in 1..1
  OBVIOUS
<1>3. Holds(d, p, <<v>>)
  BY <1>1
<1>4. p + 1 <= Len(d) /\ d[p + 1] = v
  <2> DEFINE b == <<v>>
  <2>1. Holds(d, p, b) /\ Len(b) = 1 /\ b[1] = v
    BY <1>2, <1>3
  <2> HIDE DEF b
  <2> QED
    BY <2>1 DEF Holds
<1>5. Window(d, p, 1) = <<v>>
  <2> DEFINE b == <<v>>
  <2>1. Holds(d, p, b) /\ Len(b) = 1 /\ b \in Seq(Byte)
    BY <1>2, <1>3
  <2> HIDE DEF b
  <2>2. Window(d, p, Len(b)) = b
    BY <2>1, HoldsWindow
  <2> QED
    BY <2>1, <2>2 DEF b
<1>6. NumberOf(<<v>>) = v
  BY OneByte
<1> QED
  BY <1>4, <1>5, <1>6 DEF NumberIn

LEMMA FlagWritten ==
  ASSUME NEW b \in BOOLEAN
  PROVE  /\ Bool(b) \in Seq(Byte) /\ Len(Bool(b)) = 1
         /\ \A d \in Seq(Byte) : \A p \in Nat : Holds(d, p, Bool(b)) =>
              /\ NumberIn(d, p, 1) # 0 <=> b
              /\ d[p + 1] # 0 <=> b
<1> DEFINE v == IF b THEN 1 ELSE 0
<1>1. v \in Byte /\ Bool(b) = U8(v) /\ (v # 0 <=> b)
  BY BaseType DEF Bool, Byte, BaseIs
<1> HIDE DEF v
<1>2. Bool(b) \in Seq(Byte) /\ Len(Bool(b)) = 1
  BY <1>1, ByteWritten
<1>3. ASSUME NEW d \in Seq(Byte), NEW p \in Nat, Holds(d, p, Bool(b))
      PROVE  NumberIn(d, p, 1) = v /\ d[p + 1] = v
  BY <1>1, <1>3, HoldsByte
<1> QED
  BY <1>1, <1>2, <1>3

\* A number of eight bytes in the order of the machine.
LEMMA LongWritten ==
  ASSUME NEW v \in Number("u64")
  PROVE  /\ U64(v) \in Seq(Byte) /\ Len(U64(v)) = Width["u64"]
         /\ \A d \in Seq(Byte) : \A p \in Nat :
              Holds(d, p, U64(v)) => NumberIn(d, p, Width["u64"]) = v
<1>1. v \in Nat /\ Width["u64"] \in Nat /\ v \in 0..(Power(Width["u64"]) - 1)
  BY NumberIsNat, WidthType DEF Number, Types
<1>2. U64(v) = BytesOf(Width["u64"], v)
  BY DEF U64
<1>3. U64(v) \in Seq(Byte) /\ Len(U64(v)) = Width["u64"]
  BY <1>1, <1>2, BytesType
<1>4. ASSUME NEW d \in Seq(Byte), NEW p \in Nat, Holds(d, p, U64(v))
      PROVE  NumberIn(d, p, Width["u64"]) = v
  BY <1>1, <1>2, <1>4, HoldsNumber
<1> QED
  BY <1>3, <1>4

LEMMA NetWritten ==
  /\ \A v \in Number("u64") :
       /\ Net("u64", v) \in Seq(Byte) /\ Len(Net("u64", v)) = W64
       /\ \A d \in Seq(Byte) : \A p \in Nat : Holds(d, p, Net("u64", v)) => NetAt(d, p, W64) = v
  /\ \A v \in Number("u32") :
       /\ Net("u32", v) \in Seq(Byte) /\ Len(Net("u32", v)) = W32
       /\ \A d \in Seq(Byte) : \A p \in Nat : Holds(d, p, Net("u32", v)) => NetAt(d, p, W32) = v
<1>1. ASSUME NEW v \in Number("u64")
      PROVE  /\ Net("u64", v) \in Seq(Byte) /\ Len(Net("u64", v)) = W64
             /\ \A d \in Seq(Byte) : \A p \in Nat :
                  Holds(d, p, Net("u64", v)) => NetAt(d, p, W64) = v
  BY NetWidths, NetworkOrder, HoldsNet DEF NetAt, W64
<1>2. ASSUME NEW v \in Number("u32")
      PROVE  /\ Net("u32", v) \in Seq(Byte) /\ Len(Net("u32", v)) = W32
             /\ \A d \in Seq(Byte) : \A p \in Nat :
                  Holds(d, p, Net("u32", v)) => NetAt(d, p, W32) = v
  BY NetWidths, NetworkOrder, HoldsNet DEF NetAt, W32
<1> QED
  BY <1>1, <1>2

LEMMA TwoParts ==
  ASSUME NEW a \in Seq(Byte), NEW b \in Seq(Byte)
  PROVE  LET d == a \o b
         IN /\ d \in Seq(Byte) /\ Len(d) = Len(a) + Len(b)
            /\ Holds(d, 0, a) /\ Holds(d, Len(a), b)
<1> DEFINE d == a \o b
<1>1. d \in Seq(Byte) /\ Len(d) = Len(a) + Len(b)
  BY ConcatIs
<1>2. Holds(d, 0, a \o b)
  BY <1>1, HoldsSelf
<1> QED
  BY <1>1, <1>2, LastPart

LEMMA ThreeParts ==
  ASSUME NEW a \in Seq(Byte), NEW b \in Seq(Byte), NEW c \in Seq(Byte)
  PROVE  LET d == a \o b \o c
         IN /\ d \in Seq(Byte) /\ Len(d) = Len(a) + Len(b) + Len(c)
            /\ Holds(d, 0, a) /\ Holds(d, Len(a), b) /\ Holds(d, Len(a) + Len(b), c)
<1> DEFINE e == a \o b
           d == e \o c
<1>1. e \in Seq(Byte) /\ Len(e) = Len(a) + Len(b)
  BY ConcatIs
<1>2. e = a \o b
  OBVIOUS
<1> HIDE DEF e
<1>3. d \in Seq(Byte) /\ Len(d) = Len(e) + Len(c) /\ Holds(d, 0, e) /\ Holds(d, Len(e), c)
  BY <1>1, TwoParts
<1>4. d = a \o b \o c
  BY <1>2
<1> HIDE DEF d
<1>5. Holds(d, 0, a) /\ Holds(d, Len(a), b)
  BY <1>2, <1>3, LastPart
<1> QED
  BY <1>1, <1>3, <1>4, <1>5

Four(a, b, c, x) == a \o b \o c \o x
LengthOf(a, b, c, x) == Len(a) + Len(b) + Len(c) + Len(x)

LEMMA FourIn ==
  ASSUME NEW a \in Seq(Byte), NEW b \in Seq(Byte), NEW c \in Seq(Byte), NEW x \in Seq(Byte),
         NEW d \in Seq(Byte), Holds(d, 0, Four(a, b, c, x))
  PROVE  /\ Holds(d, 0, a) /\ Holds(d, Len(a), b) /\ Holds(d, Len(a) + Len(b), c)
         /\ Holds(d, Len(a) + Len(b) + Len(c), x)
<1> DEFINE f == a \o b
           e == f \o c
<1>1. f \in Seq(Byte) /\ Len(f) = Len(a) + Len(b)
  BY ConcatIs
<1>2. f = a \o b
  OBVIOUS
<1> HIDE DEF f
<1>3. e \in Seq(Byte) /\ Len(e) = Len(f) + Len(c)
  BY <1>1, ConcatIs
<1>4. Holds(d, 0, e \o x) /\ e = f \o c
  BY <1>2 DEF Four
<1> HIDE DEF e
<1>5. Holds(d, 0, e) /\ Holds(d, Len(e), x)
  BY <1>3, <1>4, LastPart
<1>6. Holds(d, 0, f) /\ Holds(d, Len(f), c)
  BY <1>1, <1>4, <1>5, LastPart
<1>7. Holds(d, 0, a) /\ Holds(d, Len(a), b)
  BY <1>2, <1>6, LastPart
<1> QED
  BY <1>1, <1>3, <1>5, <1>6, <1>7

LEMMA FourTyped ==
  ASSUME NEW a \in Seq(Byte), NEW b \in Seq(Byte), NEW c \in Seq(Byte), NEW x \in Seq(Byte)
  PROVE  /\ Four(a, b, c, x) \in Seq(Byte)
         /\ Len(Four(a, b, c, x)) = LengthOf(a, b, c, x)
<1>1. a \o b \in Seq(Byte) /\ Len(a \o b) = Len(a) + Len(b)
  BY ConcatIs
<1>2. a \o b \o c \in Seq(Byte) /\ Len(a \o b \o c) = Len(a \o b) + Len(c)
  BY <1>1, ConcatIs
<1>3. /\ a \o b \o c \o x \in Seq(Byte)
      /\ Len(a \o b \o c \o x) = Len(a \o b \o c) + Len(x)
  BY <1>2, ConcatIs
<1> QED
  BY <1>1, <1>2, <1>3 DEF Four, LengthOf

\* What the serializer of a struct writes has its length, and makes the struct again.
LEMMA StructIsWritten ==
  ASSUME NEW i \in Structs, NEW o \in ObjectTypes[i]
  PROVE  LET d == StructWritten(i, o)
         IN d \in Seq(Byte) /\ Len(d) = StructLength(i) /\ StructAt(i, d) = o
<1> DEFINE d == StructWritten(i, o)
<1>1. CASE i = "Request"
  <2>1. o \in [req_type: Byte, feature: Number("u64"), action_id: Number("u64")]
    BY <1>1 DEF ObjectTypes
  <2> DEFINE a == U8(o.req_type)
             b == Net("u64", o.feature)
             c == Net("u64", o.action_id)
  <2>2. /\ a \in Seq(Byte) /\ Len(a) = 1 /\ b \in Seq(Byte) /\ Len(b) = W64
        /\ c \in Seq(Byte) /\ Len(c) = W64
    BY <2>1, ByteWritten, NetWritten
  <2>3. d = a \o b \o c
    BY <1>1 DEF StructWritten, serializeRequest
  <2> HIDE DEF d, a, b, c
  <2>4. /\ d \in Seq(Byte) /\ Len(d) = 1 + 2 * W64
        /\ Holds(d, 0, a) /\ Holds(d, 1, b) /\ Holds(d, 1 + W64, c)
    <3>1. /\ d \in Seq(Byte) /\ Len(d) = Len(a) + Len(b) + Len(c)
          /\ Holds(d, 0, a) /\ Holds(d, Len(a), b) /\ Holds(d, Len(a) + Len(b), c)
      BY <2>2, <2>3, ThreeParts
    <3>2. Len(a) + Len(b) = 1 + W64 /\ Len(a) + Len(b) + Len(c) = 1 + 2 * W64
      BY <2>2, NetWidths
    <3> QED
      BY <2>2, <3>1, <3>2
  <2>5. d[0 + 1] = o.req_type
    BY <2>1, <2>4, HoldsByte DEF a
  <2>6. NetAt(d, 1, W64) = o.feature /\ NetAt(d, 1 + W64, W64) = o.action_id
    BY <2>1, <2>4, NetWritten, NetWidths DEF b, c
  <2>7. StructAt(i, d) = o
    BY <1>1, <2>1, <2>5, <2>6 DEF StructAt
  <2> QED
    BY <1>1, <2>4, <2>7 DEF StructLength, d
<1>2. CASE i = "Response"
  <2>1. o \in [resp_type: Byte, action_id: Number("u64")]
    BY <1>2 DEF ObjectTypes
  <2> DEFINE a == U8(o.resp_type)
             b == Net("u64", o.action_id)
  <2>2. a \in Seq(Byte) /\ Len(a) = 1 /\ b \in Seq(Byte) /\ Len(b) = W64
    BY <2>1, ByteWritten, NetWritten
  <2>3. d = a \o b
    BY <1>2 DEF StructWritten, serializeResponse
  <2> HIDE DEF d, a, b
  <2>4. d \in Seq(Byte) /\ Len(d) = 1 + W64 /\ Holds(d, 0, a) /\ Holds(d, 1, b)
    BY <2>2, <2>3, TwoParts
  <2>5. d[0 + 1] = o.resp_type
    BY <2>1, <2>4, HoldsByte DEF a
  <2>6. NetAt(d, 1, W64) = o.action_id
    BY <2>1, <2>4, NetWritten DEF b
  <2>7. StructAt(i, d) = o
    BY <1>2, <2>1, <2>5, <2>6 DEF StructAt
  <2> QED
    BY <1>2, <2>4, <2>7 DEF StructLength, d
<1>3. CASE i = "StatusHeader"
  <2>1. o \in [feature: Number("u64")]
    BY <1>3 DEF ObjectTypes
  <2>2. d = Net("u64", o.feature)
    BY <1>3 DEF StructWritten, serializeStatus
  <2> HIDE DEF d
  <2>3. d \in Seq(Byte) /\ Len(d) = W64
    BY <2>1, <2>2, NetWritten
  <2>4. Holds(d, 0, d)
    BY <2>3, HoldsSelf
  <2>5. NetAt(d, 0, W64) = o.feature
    BY <2>1, <2>2, <2>3, <2>4, NetWritten
  <2>6. StructAt(i, d) = o
    BY <1>3, <2>1, <2>5 DEF StructAt
  <2> QED
    BY <1>3, <2>3, <2>6 DEF StructLength, d
<1>4. CASE i = "Finished"
  <2>1. o \in [action_id: Number("u64"), success: BOOLEAN]
    BY <1>4 DEF ObjectTypes
  <2> DEFINE a == Net("u64", o.action_id)
             s == o.success
             b == Bool(s)
  <2>2. a \in Seq(Byte) /\ Len(a) = W64 /\ b \in Seq(Byte) /\ Len(b) = 1 /\ s \in BOOLEAN
    BY <2>1, FlagWritten, NetWritten
  <2>3. d = a \o b
    BY <1>4 DEF StructWritten, serializeFinished
  <2> HIDE DEF d, a, b, s
  <2>4. d \in Seq(Byte) /\ Len(d) = W64 + 1 /\ Holds(d, 0, a) /\ Holds(d, W64, b)
    BY <2>2, <2>3, TwoParts
  <2>5. d[W64 + 1] # 0 <=> s
    BY <2>2, <2>4, FlagWritten, NetWidths DEF b
  <2>6. NetAt(d, 0, W64) = o.action_id
    BY <2>1, <2>4, NetWritten DEF a
  <2>7. StructAt(i, d) = [action_id |-> o.action_id, success |-> (d[W64 + 1] # 0)]
    BY <1>4, <2>6 DEF StructAt
  <2>8. o = [action_id |-> o.action_id, success |-> s]
    BY <2>1 DEF s
  <2>9. (d[W64 + 1] # 0) = s
    BY <2>2, <2>5
  <2>10. StructAt(i, d) = o
    BY <2>7, <2>8, <2>9
  <2> QED
    BY <1>4, <2>4, <2>10 DEF StructLength, d
<1>5. CASE i = "FrameHeader"
  <2>1. o \in [kind: Byte, request_id: Number("u32"), payload_size: Number("u32"),
               blob_size: Number("u32")]
    BY <1>5 DEF ObjectTypes
  <2> DEFINE a == U8(o.kind)
             b == Net("u32", o.request_id)
             c == Net("u32", o.payload_size)
             x == Net("u32", o.blob_size)
  <2>2. /\ a \in Seq(Byte) /\ Len(a) = 1 /\ b \in Seq(Byte) /\ Len(b) = W32
        /\ c \in Seq(Byte) /\ Len(c) = W32 /\ x \in Seq(Byte) /\ Len(x) = W32
    BY <2>1, ByteWritten, NetWritten
  <2>3. d = Four(a, b, c, x)
    BY <1>5 DEF StructWritten, serializeHeader, Four
  <2> HIDE DEF d, a, b, c, x
  <2>4. /\ d \in Seq(Byte) /\ Len(d) = 1 + 3 * W32
        /\ Holds(d, 0, a) /\ Holds(d, 1, b) /\ Holds(d, 1 + W32, c)
        /\ Holds(d, 1 + 2 * W32, x)
    <3>1. d \in Seq(Byte) /\ Len(d) = LengthOf(a, b, c, x)
      BY <2>2, <2>3, FourTyped
    <3>3. Holds(d, 0, Four(a, b, c, x))
      BY <2>3, <3>1, HoldsSelf
    <3>4. /\ Holds(d, 0, a) /\ Holds(d, Len(a), b) /\ Holds(d, Len(a) + Len(b), c)
          /\ Holds(d, Len(a) + Len(b) + Len(c), x)
      BY <2>2, <3>1, <3>3, FourIn
    <3>2. /\ Len(a) + Len(b) = 1 + W32 /\ Len(a) + Len(b) + Len(c) = 1 + 2 * W32
          /\ LengthOf(a, b, c, x) = 1 + 3 * W32
      BY <2>2, NetWidths DEF LengthOf
    <3> QED
      BY <2>2, <3>1, <3>2, <3>4
  <2>5. d[0 + 1] = o.kind
    BY <2>1, <2>4, HoldsByte DEF a
  <2>6. /\ NetAt(d, 1, W32) = o.request_id /\ NetAt(d, 1 + W32, W32) = o.payload_size
        /\ NetAt(d, 1 + 2 * W32, W32) = o.blob_size
    BY <2>1, <2>4, NetWritten, NetWidths DEF b, c, x
  <2>7. StructAt(i, d) = o
    BY <1>5, <2>1, <2>5, <2>6 DEF StructAt
  <2> QED
    BY <1>5, <2>4, <2>7 DEF StructLength, d
<1> QED
  BY <1>1, <1>2, <1>3, <1>4, <1>5 DEF Structs

\* Doubles, poses, and whole vectors of them.
LEMMA DoublesWritten ==
  ASSUME NEW s \in Seq(Double)
  PROVE  /\ F64s(s) \in Seq(Byte) /\ Len(F64s(s)) = Len(s) * DoubleWidth
         /\ \A d \in Seq(Byte) : \A p \in Nat : Holds(d, p, F64s(s)) =>
              /\ \A i \in 1..Len(s) : DoubleAt(d, p, i) = s[i]
              /\ VectorAt(d, p, Len(s)) = s
<1>1. s \in Seq(Nat) /\ s \in Seq(Number("f64"))
  BY DoubleType DEF Double
<1>2. F64s(s) \in Seq(Byte) /\ Len(F64s(s)) = Len(s) * DoubleWidth
  BY <1>1, DoublesAre
<1>3. ASSUME NEW d \in Seq(Byte), NEW p \in Nat, Holds(d, p, F64s(s))
      PROVE  /\ \A i \in 1..Len(s) : DoubleAt(d, p, i) = s[i]
             /\ VectorAt(d, p, Len(s)) = s
  <2>1. \A i \in 1..Len(s) : DoubleAt(d, p, i) = s[i]
    BY <1>1, <1>3, HoldsDoubles DEF DoubleAt
  <2>2. s = [i \in 1..Len(s) |-> s[i]]
    OBVIOUS
  <2> QED
    BY <2>1, <2>2 DEF VectorAt
<1> QED
  BY <1>2, <1>3

LEMMA PoseWritten ==
  ASSUME NEW x \in Pose
  PROVE  /\ PoseBytes(x) \in Seq(Byte) /\ Len(PoseBytes(x)) = 7 * DoubleWidth
         /\ \A d \in Seq(Byte) : \A p \in Nat : Holds(d, p, PoseBytes(x)) => PoseAt(d, p) = x
<1> DEFINE s == <<x.px, x.py, x.pz, x.ow, x.ox, x.oy, x.oz>>
<1>1. /\ x.px \in Double /\ x.py \in Double /\ x.pz \in Double /\ x.ow \in Double
      /\ x.ox \in Double /\ x.oy \in Double /\ x.oz \in Double
  BY DEF Pose
<1>2. s \in Seq(Double) /\ Len(s) = 7
  BY <1>1
<1>3. /\ s[1] = x.px /\ s[2] = x.py /\ s[3] = x.pz /\ s[4] = x.ow
      /\ s[5] = x.ox /\ s[6] = x.oy /\ s[7] = x.oz
  OBVIOUS
<1>4. PoseBytes(x) = F64s(s)
  BY DEF PoseBytes
<1> HIDE DEF s
<1>5. F64s(s) \in Seq(Byte) /\ Len(F64s(s)) = 7 * DoubleWidth
  BY <1>2, DoublesWritten
<1>6. ASSUME NEW d \in Seq(Byte), NEW p \in Nat, Holds(d, p, F64s(s))
      PROVE  PoseAt(d, p) = x
  <2>1. \A i \in 1..7 : DoubleAt(d, p, i) = s[i]
    BY <1>2, <1>6, DoublesWritten
  <2>2. /\ DoubleAt(d, p, 1) = x.px /\ DoubleAt(d, p, 2) = x.py
        /\ DoubleAt(d, p, 3) = x.pz /\ DoubleAt(d, p, 4) = x.ow
        /\ DoubleAt(d, p, 5) = x.ox /\ DoubleAt(d, p, 6) = x.oy
        /\ DoubleAt(d, p, 7) = x.oz
    BY <1>3, <2>1
  <2>3. x = [px |-> x.px, py |-> x.py, pz |-> x.pz, ow |-> x.ow, ox |-> x.ox,
             oy |-> x.oy, oz |-> x.oz]
    BY DEF Pose
  <2> QED
    BY <2>2, <2>3 DEF PoseAt
<1> QED
  BY <1>4, <1>5, <1>6

LEMMA PairWritten ==
  ASSUME NEW a \in Double, NEW b \in Double
  PROVE  /\ F64s(<<a, b>>) \in Seq(Byte) /\ Len(F64s(<<a, b>>)) = 2 * DoubleWidth
         /\ \A d \in Seq(Byte) : \A p \in Nat : Holds(d, p, F64s(<<a, b>>)) =>
              DoubleAt(d, p, 1) = a /\ DoubleAt(d, p, 2) = b
<1> DEFINE s == <<a, b>>
<1>1. s \in Seq(Double) /\ Len(s) = 2 /\ s[1] = a /\ s[2] = b
  OBVIOUS
<1> HIDE DEF s
<1>2. F64s(s) \in Seq(Byte) /\ Len(F64s(s)) = 2 * DoubleWidth
  BY <1>1, DoublesWritten
<1>3. ASSUME NEW d \in Seq(Byte), NEW p \in Nat, Holds(d, p, F64s(s))
      PROVE  DoubleAt(d, p, 1) = a /\ DoubleAt(d, p, 2) = b
  <2>1. \A i \in 1..2 : DoubleAt(d, p, i) = s[i]
    BY <1>1, <1>3, DoublesWritten
  <2> QED
    BY <1>1, <2>1
<1> QED
  BY <1>2, <1>3 DEF s

LEMMA PosesWritten ==
  ASSUME NEW s \in Seq(Pose)
  PROVE  LET b == FlattenSeq([i \in DOMAIN s |-> PoseBytes(s[i])])
         IN /\ b \in Seq(Byte) /\ Len(b) = Len(s) * PoseWidth
            /\ \A d \in Seq(Byte) : \A p \in Nat : Holds(d, p, b) => PosesAt(d, p, Len(s)) = s
<1> DEFINE t == [i \in DOMAIN s |-> PoseBytes(s[i])]
<1>1. ASSUME NEW i \in 1..Len(s)
      PROVE  PoseBytes(s[i]) \in Seq(Byte) /\ Len(PoseBytes(s[i])) = PoseWidth
  <2>1. s[i] \in Pose
    OBVIOUS
  <2> QED
    BY <2>1, PoseWritten DEF PoseWidth
<1>2. DOMAIN s = 1..Len(s) /\ Len(s) \in Nat /\ PoseWidth \in Nat
  BY WidthType DEF PoseWidth
<1>3. t \in [1..Len(s) -> Seq(Byte)] /\ \A i \in 1..Len(s) : t[i] = PoseBytes(s[i])
  BY <1>1, <1>2
<1>4. t \in Seq(Seq(Byte)) /\ Len(t) = Len(s)
  <2> HIDE DEF t
  <2> QED
    BY <1>2, <1>3, FunctionIsSeq
<1>5. Even(t, PoseWidth)
  BY <1>1, <1>2 DEF Even
<1> HIDE DEF t
<1>6. FlattenSeq(t) \in Seq(Byte) /\ FlatIs(t, PoseWidth)
  BY <1>2, <1>4, <1>5, EvenFlat
<1>7. Len(FlattenSeq(t)) = Len(s) * PoseWidth
  BY <1>4, <1>6 DEF FlatIs
<1>8. ASSUME NEW d \in Seq(Byte), NEW p \in Nat, Holds(d, p, FlattenSeq(t))
      PROVE  PosesAt(d, p, Len(s)) = s
  <2>1. ASSUME NEW i \in 1..Len(s) PROVE PoseAt(d, p + (i - 1) * PoseWidth) = s[i]
    <3> DEFINE q == p + (i - 1) * PoseWidth
    <3>1. Holds(d, q, t[i]) /\ q \in Nat
      BY <1>2, <1>4, <1>5, <1>8, HoldsEven
    <3> HIDE DEF q
    <3>2. Holds(d, q, PoseBytes(s[i])) /\ s[i] \in Pose
      BY <1>3, <3>1
    <3> QED
      BY <3>1, <3>2, PoseWritten DEF q
  <2>2. s = [i \in 1..Len(s) |-> s[i]]
    OBVIOUS
  <2> QED
    BY <2>1, <2>2 DEF PosesAt
<1> QED
  BY <1>6, <1>7, <1>8 DEF t

LEMMA RangesWritten ==
  ASSUME NEW s \in Seq(JointLimit)
  PROVE  LET b == FlattenSeq([i \in DOMAIN s |-> F64s(<<s[i].min, s[i].max>>)])
         IN /\ b \in Seq(Byte) /\ Len(b) = Len(s) * RangeWidth
            /\ \A d \in Seq(Byte) : \A p \in Nat : Holds(d, p, b) =>
                 \A n \in 0..Len(s) : RangesAt(d, p, n) = SubSeq(s, 1, n)
<1> DEFINE t == [i \in DOMAIN s |-> F64s(<<s[i].min, s[i].max>>)]
<1>0. ASSUME NEW i \in 1..Len(s)
      PROVE  /\ s[i].min \in Double /\ s[i].max \in Double
             /\ s[i] = [min |-> s[i].min, max |-> s[i].max]
  <2>1. s[i] \in JointLimit
    OBVIOUS
  <2> QED
    BY <2>1 DEF JointLimit
<1>1. ASSUME NEW i \in 1..Len(s)
      PROVE  /\ F64s(<<s[i].min, s[i].max>>) \in Seq(Byte)
             /\ Len(F64s(<<s[i].min, s[i].max>>)) = RangeWidth
  BY <1>0, PairWritten DEF RangeWidth
<1>2. DOMAIN s = 1..Len(s) /\ Len(s) \in Nat /\ RangeWidth \in Nat
  BY WidthType DEF RangeWidth
<1>3. /\ t \in [1..Len(s) -> Seq(Byte)]
      /\ \A i \in 1..Len(s) : t[i] = F64s(<<s[i].min, s[i].max>>)
  BY <1>1, <1>2
<1>4. t \in Seq(Seq(Byte)) /\ Len(t) = Len(s)
  <2> HIDE DEF t
  <2> QED
    BY <1>2, <1>3, FunctionIsSeq
<1>5. Even(t, RangeWidth)
  BY <1>1, <1>2 DEF Even
<1> HIDE DEF t
<1>6. FlattenSeq(t) \in Seq(Byte) /\ FlatIs(t, RangeWidth)
  BY <1>2, <1>4, <1>5, EvenFlat
<1>7. Len(FlattenSeq(t)) = Len(s) * RangeWidth
  BY <1>4, <1>6 DEF FlatIs
<1>8. ASSUME NEW d \in Seq(Byte), NEW p \in Nat, Holds(d, p, FlattenSeq(t)),
             NEW n \in 0..Len(s)
      PROVE  RangesAt(d, p, n) = SubSeq(s, 1, n)
  <2>1. ASSUME NEW i \in 1..Len(s) PROVE RangeAt(d, p + (i - 1) * RangeWidth) = s[i]
    <3> DEFINE q == p + (i - 1) * RangeWidth
    <3>1. Holds(d, q, t[i]) /\ q \in Nat
      BY <1>2, <1>4, <1>5, <1>8, HoldsEven
    <3> HIDE DEF q
    <3>2. Holds(d, q, F64s(<<s[i].min, s[i].max>>))
      BY <1>3, <3>1
    <3>3. DoubleAt(d, q, 1) = s[i].min /\ DoubleAt(d, q, 2) = s[i].max
      <4> DEFINE x == s[i].min
                 y == s[i].max
      <4>1. x \in Double /\ y \in Double /\ Holds(d, q, F64s(<<x, y>>))
        BY <1>0, <3>2
      <4> HIDE DEF x, y
      <4>2. DoubleAt(d, q, 1) = x /\ DoubleAt(d, q, 2) = y
        BY <3>1, <4>1, PairWritten
      <4> QED
        BY <4>2 DEF x, y
    <3> QED
      BY <1>0, <3>3 DEF RangeAt, q
  <2>2. SubSeq(s, 1, n) = [i \in 1..n |-> s[i]]
    OBVIOUS
  <2>3. \A i \in 1..n : RangeAt(d, p + (i - 1) * RangeWidth) = s[i]
    BY <1>2, <2>1
  <2> QED
    BY <2>2, <2>3 DEF RangesAt
<1> QED
  BY <1>6, <1>7, <1>8 DEF t

\* A text, which is cut at the limit.
LEMMA TextWritten ==
  ASSUME NEW s \in Seq(Byte)
  PROVE  LET w == Width["u64"]
             n == Len(ShortText(s))
         IN /\ TextBytes(s) \in Seq(Byte) /\ Len(TextBytes(s)) = w + n
            /\ n \in 0..MaxText
            /\ \A d \in Seq(Byte) : \A p \in Nat : Holds(d, p, TextBytes(s)) =>
                 NumberIn(d, p, w) = n /\ Window(d, p + w, n) = ShortText(s)
<1> DEFINE w == Width["u64"]
           c == Clipped(s)
           a == U64(c)
           b == PushedBytes(s, c)
           t == ShortText(s)
<1>1. /\ MaxText \in Nat /\ MaxText < SizeRange /\ SizeRange \in Nat /\ Len(s) \in Nat
      /\ w \in Nat
  BY LimitsType, WidthType
<1>2. c \in 0..MaxText /\ c <= Len(s)
  BY <1>1 DEF Clipped
<1>3. b = t /\ b \in Seq(Byte) /\ Len(b) = c
  <2>1. b = SubSeq(s, 1, c)
    BY DEF PushedBytes
  <2>2. CASE Len(s) <= MaxText
    BY <1>1, <2>1, <2>2 DEF Clipped, ShortText
  <2>3. CASE ~ (Len(s) <= MaxText)
    BY <1>1, <2>1, <2>3 DEF Clipped, ShortText
  <2> QED
    BY <2>2, <2>3
<1>4. c \in Number("u64")
  BY <1>1, <1>2 DEF Number, SizeRange
<1>5. a \in Seq(Byte) /\ Len(a) = w
  BY <1>4, LongWritten
<1>6. TextBytes(s) = a \o b
  BY DEF TextBytes
<1> HIDE DEF a, b, c, t, w
<1>7. TextBytes(s) \in Seq(Byte) /\ Len(TextBytes(s)) = w + c
  BY <1>3, <1>5, <1>6, ConcatIs
<1>8. ASSUME NEW d \in Seq(Byte), NEW p \in Nat, Holds(d, p, a \o b)
      PROVE  NumberIn(d, p, w) = c /\ Window(d, p + w, c) = t
  <2>1. Holds(d, p, a) /\ Holds(d, p + w, b) /\ p + w \in Nat
    BY <1>3, <1>5, <1>8, HoldsParts
  <2>2. NumberIn(d, p, w) = c
    BY <1>4, <2>1, LongWritten DEF a, w
  <2>3. Window(d, p + w, Len(b)) = b
    BY <1>3, <2>1, HoldsWindow
  <2> QED
    BY <1>3, <2>2, <2>3
<1>9. Len(t) = c
  BY <1>3
<1> QED
  BY <1>2, <1>6, <1>7, <1>8, <1>9 DEF t, w

-----------------------------------------------------------------------------
(***************************************************************************)
(* The start requests as they are written.                                 *)
(***************************************************************************)
\* The message d is one of that kind, of its whole length, and makes o.
StartMessage(kind, d, o) ==
  /\ d \in Seq(Byte) /\ 2 <= Len(d)
  /\ NumberIn(d, 0, 1) = Version /\ NumberIn(d, 1, 1) = RequestType[kind]
  /\ Counts(kind, d, 2) /\ StartEnd(kind, d, 2) = Len(d) /\ StartAt(kind, d, 2) = o

LEMMA VersionWritten ==
  LET v == <<>> \o U8(Version)
  IN /\ v \in Seq(Byte) /\ Len(v) = 1
     /\ \A d \in Seq(Byte) : Holds(d, 0, v) => NumberIn(d, 0, 1) = Version
<1>1. Version \in Byte /\ U8(Version) \in Seq(Byte) /\ Len(U8(Version)) = 1
  <2>1. Version \in Byte
    BY BaseType DEF Version, Byte, BaseIs
  <2> QED
    BY <2>1, ByteWritten
<1>2. <<>> \o U8(Version) = U8(Version)
  <2> DEFINE u == U8(Version)
  <2>1. u \in Seq(Byte)
    BY <1>1
  <2> HIDE DEF u
  <2>2. <<>> \o u = u
    BY <2>1
  <2> QED
    BY <2>2 DEF u
<1>3. ASSUME NEW d \in Seq(Byte), Holds(d, 0, U8(Version)) PROVE NumberIn(d, 0, 1) = Version
  BY <1>1, <1>3, HoldsByte
<1> QED
  BY <1>1, <1>2, <1>3

LEMMA HeadWritten ==
  ASSUME NEW tag \in Byte
  PROVE  LET h == <<>> \o U8(Version) \o U8(tag)
         IN /\ h \in Seq(Byte) /\ Len(h) = 2
            /\ \A d \in Seq(Byte) : Holds(d, 0, h) =>
                 NumberIn(d, 0, 1) = Version /\ NumberIn(d, 1, 1) = tag
<1> DEFINE v == <<>> \o U8(Version)
           t == U8(tag)
<1>1. /\ v \in Seq(Byte) /\ Len(v) = 1
      /\ \A d \in Seq(Byte) : Holds(d, 0, v) => NumberIn(d, 0, 1) = Version
  BY VersionWritten
<1>2. t \in Seq(Byte) /\ Len(t) = 1
  BY ByteWritten
<1>3. ASSUME NEW d \in Seq(Byte), Holds(d, 1, t) PROVE NumberIn(d, 1, 1) = tag
  BY <1>3, HoldsByte
<1> HIDE DEF v, t
<1>4. v \o t \in Seq(Byte) /\ Len(v \o t) = 2
  <2>1. v \o t \in Seq(Byte) /\ Len(v \o t) = Len(v) + Len(t)
    BY <1>1, <1>2, ConcatIs
  <2> QED
    BY <1>1, <1>2, <2>1
<1>5. ASSUME NEW d \in Seq(Byte), Holds(d, 0, v \o t)
      PROVE  NumberIn(d, 0, 1) = Version /\ NumberIn(d, 1, 1) = tag
  <2>1. Holds(d, 0, v) /\ Holds(d, Len(v), t)
    BY <1>1, <1>2, <1>5, LastPart
  <2> QED
    BY <1>1, <1>3, <2>1
<1> QED
  BY <1>4, <1>5 DEF v, t

HeadOf(kind) == <<>> \o U8(Version) \o U8(RequestType[kind])

LEMMA HeadOfKind ==
  ASSUME NEW kind \in DOMAIN RequestType
  PROVE  /\ HeadOf(kind) \in Seq(Byte) /\ Len(HeadOf(kind)) = 2
         /\ \A d \in Seq(Byte) : Holds(d, 0, HeadOf(kind)) =>
              NumberIn(d, 0, 1) = Version /\ NumberIn(d, 1, 1) = RequestType[kind]
<1> DEFINE tag == RequestType[kind]
<1>1. tag \in Byte
  BY TagsAssumption
<1> HIDE DEF tag
<1>2. /\ <<>> \o U8(Version) \o U8(tag) \in Seq(Byte)
      /\ Len(<<>> \o U8(Version) \o U8(tag)) = 2
      /\ \A d \in Seq(Byte) : Holds(d, 0, <<>> \o U8(Version) \o U8(tag)) =>
           NumberIn(d, 0, 1) = Version /\ NumberIn(d, 1, 1) = tag
  BY <1>1, HeadWritten
<1> QED
  BY <1>2 DEF tag, HeadOf

\* The members of the requests.
LEMMA StartMembers ==
  ASSUME NEW o \in StartRequests
  PROVE  /\ o.kind = "MoveJoint" =>
              /\ o = [kind |-> "MoveJoint", joint_targets |-> o.joint_targets,
                      speed |-> o.speed, acceleration |-> o.acceleration]
              /\ o.joint_targets \in Seq(Double) /\ o.speed \in Double
              /\ o.acceleration \in Double
         /\ o.kind = "MoveLinear" =>
              /\ o = [kind |-> "MoveLinear", pose_target |-> o.pose_target,
                      speed |-> o.speed, acceleration |-> o.acceleration]
              /\ o.pose_target \in Pose /\ o.speed \in Double /\ o.acceleration \in Double
         /\ o.kind = "MoveArc" =>
              /\ o = [kind |-> "MoveArc", pose_through |-> o.pose_through,
                      pose_target |-> o.pose_target, speed |-> o.speed,
                      acceleration |-> o.acceleration, orientation_type |-> o.orientation_type,
                      as_circle |-> o.as_circle, circle_percentage |-> o.circle_percentage]
              /\ o.pose_through \in Pose /\ o.pose_target \in Pose /\ o.speed \in Double
              /\ o.acceleration \in Double /\ o.orientation_type \in Byte
              /\ o.as_circle \in BOOLEAN /\ o.circle_percentage \in Double
         /\ o.kind = "MoveTrajectory" =>
              /\ o = [kind |-> "MoveTrajectory", pose_targets |-> o.pose_targets,
                      speed |-> o.speed, acceleration |-> o.acceleration,
                      orientation_type |-> o.orientation_type]
              /\ o.pose_targets \in Seq(Pose) /\ o.speed \in Double
              /\ o.acceleration \in Double /\ o.orientation_type \in Byte
         /\ o.kind = "GetRobotSpecs" => o = [kind |-> "GetRobotSpecs"]
         /\ o.kind \in DOMAIN RequestType
<1>1. CASE o \in [kind: {"MoveJoint"}, joint_targets: Seq(Double), speed: Double,
                  acceleration: Double]
  BY <1>1, KindsAre
<1>2. CASE o \in [kind: {"MoveLinear"}, pose_target: Pose, speed: Double, acceleration: Double]
  BY <1>2, KindsAre
<1>3. CASE o \in [kind: {"MoveArc"}, pose_through: Pose, pose_target: Pose, speed: Double,
                  acceleration: Double, orientation_type: Byte, as_circle: BOOLEAN,
                  circle_percentage: Double]
  BY <1>3, KindsAre
<1>4. CASE o \in [kind: {"MoveTrajectory"}, pose_targets: Seq(Pose), speed: Double,
                  acceleration: Double, orientation_type: Byte]
  BY <1>4, KindsAre
<1>5. CASE o \in [kind: {"GetRobotSpecs"}]
  BY <1>5, KindsAre
<1> QED
  BY <1>1, <1>2, <1>3, <1>4, <1>5 DEF StartRequests

LEMMA MoveJointWritten ==
  ASSUME NEW o \in StartRequests, o.kind = "MoveJoint", NEW old
  PROVE  LET m == moveJoint(old, o)
         IN /\ m.thrown <=> Len(o.joint_targets) > MaxJoints
            /\ m.thrown \in BOOLEAN
            /\ m.thrown => m.bytes = <<>>
            /\ ~ m.thrown => StartMessage("MoveJoint", m.bytes, o)
<1> DEFINE s == o.joint_targets
           n == Len(s)
           h == HeadOf("MoveJoint")
           a == U8(n)
           b == F64s(s)
           c == SpeedBytes(o)
           d == Four(h, a, b, c)
           m == moveJoint(old, o)
<1>1. /\ o = [kind |-> "MoveJoint", joint_targets |-> s, speed |-> o.speed,
              acceleration |-> o.acceleration]
      /\ s \in Seq(Double) /\ o.speed \in Double /\ o.acceleration \in Double
  BY StartMembers
<1>2. m = IF n > MaxJoints THEN [bytes |-> <<>>, thrown |-> TRUE]
                           ELSE [bytes |-> d, thrown |-> FALSE]
  BY DEF moveJoint, Wrote, Threw, Clear, HeadOf, RequestType, Four
<1> HIDE DEF m
<1>3. n \in Nat /\ MaxJoints \in Nat
  BY <1>1, LimitsType
<1>4. CASE n > MaxJoints
  BY <1>2, <1>3, <1>4 DEF m
<1>5. CASE ~ (n > MaxJoints)
  <2>1. n \in Byte /\ n <= MaxJoints
    BY <1>3, <1>5, LimitsAssumption, BaseType DEF Byte
  <2>2. h \in Seq(Byte) /\ Len(h) = 2 /\ "MoveJoint" \in DOMAIN RequestType
    BY HeadOfKind, KindsAre
  <2>3. /\ a \in Seq(Byte) /\ Len(a) = 1 /\ b \in Seq(Byte) /\ Len(b) = n * DoubleWidth
        /\ c \in Seq(Byte) /\ Len(c) = 2 * DoubleWidth
    BY <1>1, <2>1, ByteWritten, DoublesWritten, PairWritten DEF SpeedBytes
  <2> DEFINE w == n * DoubleWidth
  <2>4. w \in Nat /\ DoubleWidth \in Nat
    BY <1>3, WidthType
  <2> HIDE DEF d
  <2>5. d \in Seq(Byte) /\ Len(d) = ((2 + 1) + w) + 2 * DoubleWidth
    <3>1. d \in Seq(Byte) /\ Len(d) = LengthOf(h, a, b, c)
      BY <2>2, <2>3, FourTyped DEF d
    <3> QED
      BY <2>2, <2>3, <2>4, <3>1 DEF LengthOf
  <2>6. Holds(d, 0, Four(h, a, b, c))
    BY <2>5, HoldsSelf DEF d
  <2>7. Holds(d, 0, h) /\ Holds(d, 2, a) /\ Holds(d, 2 + 1, b) /\ Holds(d, (2 + 1) + w, c)
    <3> HIDE DEF h, a, b, c, w
    <3>1. /\ Holds(d, 0, h) /\ Holds(d, Len(h), a) /\ Holds(d, Len(h) + Len(a), b)
          /\ Holds(d, Len(h) + Len(a) + Len(b), c)
      BY <2>2, <2>3, <2>5, <2>6, FourIn
    <3>2. Len(b) = w
      BY <2>3 DEF w
    <3> QED
      BY <2>2, <2>3, <3>1, <3>2
  <2>8. NumberIn(d, 0, 1) = Version /\ NumberIn(d, 1, 1) = RequestType["MoveJoint"]
    BY <2>2, <2>5, <2>7, HeadOfKind
  <2>9. NumberIn(d, 2, 1) = n
    BY <2>1, <2>5, <2>7, HoldsByte
  <2>10. VectorAt(d, 2 + 1, n) = s
    BY <1>1, <2>5, <2>7, DoublesWritten
  <2>11. DoubleAt(d, (2 + 1) + w, 1) = o.speed /\ DoubleAt(d, (2 + 1) + w, 2) = o.acceleration
    <3>1. (2 + 1) + w \in Nat
      BY <2>4
    <3> HIDE DEF w
    <3> QED
      BY <1>1, <2>5, <2>7, <3>1, PairWritten DEF SpeedBytes
  <2>12. StartAt("MoveJoint", d, 2) = o
    BY <1>1, <2>9, <2>10, <2>11 DEF StartAt, MoveJointAt
  <2>13. StartEnd("MoveJoint", d, 2) = Len(d)
    BY <2>5, <2>9 DEF StartEnd
  <2>14. Counts("MoveJoint", d, 2) /\ 2 <= Len(d)
    <3> HIDE DEF w
    <3>1. 2 + 1 <= Len(d) /\ 2 <= Len(d)
      BY <2>4, <2>5
    <3> QED
      BY <2>1, <2>9, <3>1 DEF Counts
  <2>15. StartMessage("MoveJoint", d, o)
    BY <2>5, <2>8, <2>12, <2>13, <2>14 DEF StartMessage
  <2>16. m.thrown = FALSE /\ m.bytes = d
    BY <1>2, <1>5
  <2> QED
    BY <1>5, <2>15, <2>16 DEF m
<1> QED
  BY <1>4, <1>5

LEMMA DoubleWritten ==
  ASSUME NEW v \in Double
  PROVE  /\ F64(v) \in Seq(Byte) /\ Len(F64(v)) = DoubleWidth
         /\ \A d \in Seq(Byte) : \A p \in Nat :
              Holds(d, p, F64(v)) => NumberIn(d, p, DoubleWidth) = v
<1>1. v \in Nat /\ DoubleWidth \in Nat /\ v \in 0..(Power(DoubleWidth) - 1)
  BY DoubleType, WidthType DEF Number, Double, DoubleWidth
<1>2. F64(v) = BytesOf(DoubleWidth, v)
  BY DEF F64, DoubleWidth
<1>3. F64(v) \in Seq(Byte) /\ Len(F64(v)) = DoubleWidth
  BY <1>1, <1>2, BytesType
<1>4. ASSUME NEW d \in Seq(Byte), NEW p \in Nat, Holds(d, p, F64(v))
      PROVE  NumberIn(d, p, DoubleWidth) = v
  BY <1>1, <1>2, <1>4, HoldsNumber
<1> QED
  BY <1>3, <1>4

LEMMA MoveLinearWritten ==
  ASSUME NEW o \in StartRequests, o.kind = "MoveLinear", NEW old
  PROVE  LET m == moveLinear(old, o)
         IN m.thrown = FALSE /\ StartMessage("MoveLinear", m.bytes, o)
<1> DEFINE h == HeadOf("MoveLinear")
           a == PoseBytes(o.pose_target)
           b == SpeedBytes(o)
           d == h \o a \o b
           m == moveLinear(old, o)
           w == DoubleWidth
<1>1. /\ o = [kind |-> "MoveLinear", pose_target |-> o.pose_target,
              speed |-> o.speed, acceleration |-> o.acceleration]
      /\ o.pose_target \in Pose /\ o.speed \in Double /\ o.acceleration \in Double
  BY StartMembers
<1>2. m = [bytes |-> d, thrown |-> FALSE]
  BY DEF moveLinear, Wrote, Clear, HeadOf, RequestType
<1>3. h \in Seq(Byte) /\ Len(h) = 2 /\ "MoveLinear" \in DOMAIN RequestType
  BY HeadOfKind, KindsAre
<1>4. /\ a \in Seq(Byte) /\ Len(a) = 7 * w /\ b \in Seq(Byte) /\ Len(b) = 2 * w
  BY <1>1, PoseWritten, PairWritten DEF SpeedBytes
<1>5. w \in Nat /\ 2 + 7 * w \in Nat
  BY WidthType
<1> HIDE DEF d, h, a, b
<1>6. /\ d \in Seq(Byte) /\ Len(d) = Len(h) + Len(a) + Len(b)
      /\ Holds(d, 0, h) /\ Holds(d, Len(h), a) /\ Holds(d, Len(h) + Len(a), b)
  BY <1>3, <1>4, ThreeParts DEF d
<1>7. Len(d) = (2 + 7 * w) + 2 * w /\ Holds(d, 2, a) /\ Holds(d, 2 + 7 * w, b)
  BY <1>3, <1>4, <1>5, <1>6
<1>8. NumberIn(d, 0, 1) = Version /\ NumberIn(d, 1, 1) = RequestType["MoveLinear"]
  BY <1>3, <1>6, HeadOfKind DEF h
<1>9. PoseAt(d, 2) = o.pose_target
  BY <1>1, <1>6, <1>7, PoseWritten DEF a
<1> DEFINE q == 2 + 7 * w
<1>10. q \in Nat /\ Holds(d, q, b)
  BY <1>5, <1>7
<1> HIDE DEF q
<1>11. DoubleAt(d, q, 1) = o.speed /\ DoubleAt(d, q, 2) = o.acceleration
  BY <1>1, <1>6, <1>10, PairWritten DEF SpeedBytes, b
<1>12. StartAt("MoveLinear", d, 2) = o
  <2>1. StartAt("MoveLinear", d, 2)
          = [kind |-> "MoveLinear", pose_target |-> PoseAt(d, 2),
             speed |-> DoubleAt(d, q, 1), acceleration |-> DoubleAt(d, q, 2)]
    BY DEF StartAt, MoveLinearAt, q
  <2> QED
    BY <1>1, <1>9, <1>11, <2>1
<1>13. /\ StartEnd("MoveLinear", d, 2) = Len(d) /\ Counts("MoveLinear", d, 2)
       /\ 2 <= Len(d)
  BY <1>5, <1>7 DEF StartEnd, Counts
<1> QED
  BY <1>2, <1>6, <1>8, <1>12, <1>13 DEF StartMessage

LEMMA MoveArcWritten ==
  ASSUME NEW o \in StartRequests, o.kind = "MoveArc", NEW old
  PROVE  LET m == moveArc(old, o)
         IN m.thrown = FALSE /\ StartMessage("MoveArc", m.bytes, o)
<1> DEFINE h == HeadOf("MoveArc")
           a == PoseBytes(o.pose_through)
           b == PoseBytes(o.pose_target)
           c == SpeedBytes(o)
           e == Four(h, a, b, c)
           t == U8(o.orientation_type)
           as == o.as_circle
           u == Bool(as)
           x == F64(o.circle_percentage)
           d == Four(e, t, u, x)
           m == moveArc(old, o)
           w == DoubleWidth
           p == 2 + 7 * w
           q == 2 + 14 * w
           y == 2 + 16 * w
<1>1. /\ o = [kind |-> "MoveArc", pose_through |-> o.pose_through,
              pose_target |-> o.pose_target, speed |-> o.speed,
              acceleration |-> o.acceleration, orientation_type |-> o.orientation_type,
              as_circle |-> as, circle_percentage |-> o.circle_percentage]
      /\ o.pose_through \in Pose /\ o.pose_target \in Pose /\ o.speed \in Double
      /\ o.acceleration \in Double /\ o.orientation_type \in Byte
      /\ as \in BOOLEAN /\ o.circle_percentage \in Double
  BY StartMembers
<1>2. m = [bytes |-> d, thrown |-> FALSE]
  BY DEF moveArc, Wrote, Clear, HeadOf, RequestType, Four
<1>3. h \in Seq(Byte) /\ Len(h) = 2 /\ "MoveArc" \in DOMAIN RequestType
  BY HeadOfKind, KindsAre
<1>4. /\ a \in Seq(Byte) /\ Len(a) = 7 * w /\ b \in Seq(Byte) /\ Len(b) = 7 * w
      /\ c \in Seq(Byte) /\ Len(c) = 2 * w
  BY <1>1, PoseWritten, PairWritten DEF SpeedBytes
<1>5. t \in Seq(Byte) /\ Len(t) = 1 /\ x \in Seq(Byte) /\ Len(x) = w
  BY <1>1, ByteWritten, DoubleWritten
<1>6. u \in Seq(Byte) /\ Len(u) = 1
  <2> HIDE DEF as
  <2> QED
    BY <1>1, FlagWritten
<1>7. w \in Nat /\ p \in Nat /\ q \in Nat /\ y \in Nat /\ y + 1 \in Nat /\ y + 2 \in Nat
  BY WidthType
<1> HIDE DEF d, e, h, a, b, c, t, u, x, w, m, as
<1>8. e \in Seq(Byte) /\ Len(e) = LengthOf(h, a, b, c)
  BY <1>3, <1>4, FourTyped DEF e
<1>9. d \in Seq(Byte) /\ Len(d) = LengthOf(e, t, u, x)
  BY <1>5, <1>6, <1>8, FourTyped DEF d
<1>10. Len(e) = y /\ Len(d) = (2 + 17 * w) + 2
  BY <1>3, <1>4, <1>5, <1>6, <1>7, <1>8, <1>9 DEF LengthOf
<1>11. Holds(d, 0, Four(e, t, u, x))
  BY <1>9, HoldsSelf DEF d
<1>12. /\ Holds(d, 0, e) /\ Holds(d, Len(e), t) /\ Holds(d, Len(e) + Len(t), u)
       /\ Holds(d, Len(e) + Len(t) + Len(u), x)
  BY <1>5, <1>6, <1>8, <1>9, <1>11, FourIn
<1>13. Holds(d, 0, Four(h, a, b, c))
  BY <1>12 DEF e
<1>14. /\ Holds(d, 0, h) /\ Holds(d, Len(h), a) /\ Holds(d, Len(h) + Len(a), b)
       /\ Holds(d, Len(h) + Len(a) + Len(b), c)
  BY <1>3, <1>4, <1>9, <1>13, FourIn
<1>15. /\ Len(h) + Len(a) = p /\ Len(h) + Len(a) + Len(b) = q
       /\ Len(e) + Len(t) = y + 1 /\ Len(e) + Len(t) + Len(u) = y + 2
  BY <1>3, <1>4, <1>5, <1>6, <1>7, <1>10
<1> HIDE DEF p, q, y
<1>16. /\ Holds(d, 2, a) /\ Holds(d, p, b) /\ Holds(d, q, c)
       /\ Holds(d, y, t) /\ Holds(d, y + 1, u) /\ Holds(d, y + 2, x)
  BY <1>3, <1>10, <1>12, <1>14, <1>15
<1>17. NumberIn(d, 0, 1) = Version /\ NumberIn(d, 1, 1) = RequestType["MoveArc"]
  BY <1>3, <1>9, <1>14, HeadOfKind DEF h
<1>18. PoseAt(d, 2) = o.pose_through /\ PoseAt(d, p) = o.pose_target
  BY <1>1, <1>7, <1>9, <1>16, PoseWritten DEF a, b
<1>19. DoubleAt(d, q, 1) = o.speed /\ DoubleAt(d, q, 2) = o.acceleration
  BY <1>1, <1>7, <1>9, <1>16, PairWritten DEF SpeedBytes, c
<1>20. NumberIn(d, y, 1) = o.orientation_type
  BY <1>1, <1>7, <1>9, <1>16, HoldsByte DEF t
<1>21. NumberIn(d, y + 1, 1) # 0 <=> as
  BY <1>1, <1>7, <1>9, <1>16, FlagWritten DEF u
<1>22. NumberIn(d, y + 2, w) = o.circle_percentage
  BY <1>1, <1>7, <1>9, <1>16, DoubleWritten DEF x, w
<1>23. StartAt("MoveArc", d, 2) = o
  <2>1. StartAt("MoveArc", d, 2)
          = [kind |-> "MoveArc", pose_through |-> PoseAt(d, 2), pose_target |-> PoseAt(d, p),
             speed |-> DoubleAt(d, q, 1), acceleration |-> DoubleAt(d, q, 2),
             orientation_type |-> NumberIn(d, y, 1), as_circle |-> (NumberIn(d, y + 1, 1) # 0),
             circle_percentage |-> NumberIn(d, y + 2, w)]
    BY DEF StartAt, MoveArcAt, p, q, y, w
  <2>2. (NumberIn(d, y + 1, 1) # 0) = as
    BY <1>1, <1>21
  <2> QED
    BY <1>1, <1>18, <1>19, <1>20, <1>22, <2>1, <2>2
<1>24. /\ StartEnd("MoveArc", d, 2) = Len(d) /\ Counts("MoveArc", d, 2)
       /\ 2 <= Len(d)
  BY <1>7, <1>10 DEF StartEnd, Counts, w
<1>25. StartMessage("MoveArc", d, o)
  BY <1>9, <1>17, <1>23, <1>24 DEF StartMessage
<1> QED
  BY <1>2, <1>25 DEF m

LEMMA GetRobotSpecsWritten ==
  ASSUME NEW o \in StartRequests, o.kind = "GetRobotSpecs", NEW old
  PROVE  LET m == getRobotSpecs(old)
         IN m.thrown = FALSE /\ StartMessage("GetRobotSpecs", m.bytes, o)
<1> DEFINE d == HeadOf("GetRobotSpecs")
           m == getRobotSpecs(old)
<1>1. m = [bytes |-> d, thrown |-> FALSE]
  BY DEF getRobotSpecs, Wrote, Clear, HeadOf, RequestType
<1>2. d \in Seq(Byte) /\ Len(d) = 2 /\ "GetRobotSpecs" \in DOMAIN RequestType
  BY HeadOfKind, KindsAre
<1>3. o = [kind |-> "GetRobotSpecs"]
  BY StartMembers
<1>4. Holds(d, 0, HeadOf("GetRobotSpecs"))
  BY <1>2, HoldsSelf
<1>5. NumberIn(d, 0, 1) = Version /\ NumberIn(d, 1, 1) = RequestType["GetRobotSpecs"]
  BY <1>2, <1>4, HeadOfKind
<1> HIDE DEF d
<1>6. /\ StartEnd("GetRobotSpecs", d, 2) = Len(d) /\ Counts("GetRobotSpecs", d, 2)
      /\ 2 <= Len(d) /\ StartAt("GetRobotSpecs", d, 2) = o
  BY <1>2, <1>3 DEF StartEnd, Counts, StartAt
<1>7. StartMessage("GetRobotSpecs", d, o)
  BY <1>2, <1>5, <1>6 DEF StartMessage
<1> QED
  BY <1>1, <1>7

LEMMA MoveTrajectoryWritten ==
  ASSUME NEW o \in StartRequests, o.kind = "MoveTrajectory", NEW old
  PROVE  LET m == moveTrajectory(old, o)
         IN /\ m.thrown <=> Len(o.pose_targets) > MaxPoses
            /\ m.thrown \in BOOLEAN
            /\ m.thrown => m.bytes = <<>>
            /\ ~ m.thrown => StartMessage("MoveTrajectory", m.bytes, o)
<1> DEFINE s == o.pose_targets
           n == Len(s)
           h == HeadOf("MoveTrajectory")
           a == BytesOf(CountWidth, n)
           b == FlattenSeq([i \in DOMAIN s |-> PoseBytes(s[i])])
           c == SpeedBytes(o)
           e == Four(h, a, b, c)
           t == U8(o.orientation_type)
           d == e \o t
           m == moveTrajectory(old, o)
           w == DoubleWidth
           all == n * PoseWidth
           p == 2 + CountWidth
           q == p + all
           y == q + 2 * w
<1>1. /\ o = [kind |-> "MoveTrajectory", pose_targets |-> s, speed |-> o.speed,
              acceleration |-> o.acceleration, orientation_type |-> o.orientation_type]
      /\ s \in Seq(Pose) /\ o.speed \in Double /\ o.acceleration \in Double
      /\ o.orientation_type \in Byte
  BY StartMembers
<1>2. m = IF n > MaxPoses THEN [bytes |-> <<>>, thrown |-> TRUE]
                          ELSE [bytes |-> d, thrown |-> FALSE]
  BY DEF moveTrajectory, Wrote, Threw, Clear, HeadOf, RequestType, Four
<1> HIDE DEF m
<1>3. n \in Nat /\ MaxPoses \in Nat /\ MaxPoses < Power(CountWidth) /\ CountWidth \in Nat \ {0}
  BY <1>1, LimitsType
<1>4. CASE n > MaxPoses
  BY <1>2, <1>3, <1>4 DEF m
<1>5. CASE ~ (n > MaxPoses)
  <2>1. n <= MaxPoses /\ n \in 0..(Power(CountWidth) - 1)
    <3>1. Power(CountWidth) \in Nat
      BY <1>3, PowerNext
    <3> QED
      BY <1>3, <1>5, <3>1
  <2>2. h \in Seq(Byte) /\ Len(h) = 2 /\ "MoveTrajectory" \in DOMAIN RequestType
    BY HeadOfKind, KindsAre
  <2>3. a \in Seq(Byte) /\ Len(a) = CountWidth
    BY <1>3, BytesType
  <2>4. b \in Seq(Byte) /\ Len(b) = all
    BY <1>1, PosesWritten
  <2>5. c \in Seq(Byte) /\ Len(c) = 2 * w /\ t \in Seq(Byte) /\ Len(t) = 1
    BY <1>1, ByteWritten, PairWritten DEF SpeedBytes
  <2>6. w \in Nat /\ all \in Nat
    <3>1. w \in Nat /\ PoseWidth \in Nat
      BY WidthType DEF PoseWidth
    <3> DEFINE v == PoseWidth
    <3> HIDE DEF n, v
    <3>2. v \in Nat /\ n \in Nat
      BY <1>3, <3>1 DEF v
    <3>3. n * v \in Nat
      BY <3>2
    <3> QED
      BY <3>1, <3>3 DEF v
  <2> HIDE DEF all
  <2>7. p \in Nat /\ q \in Nat /\ y \in Nat
    BY <1>3, <2>6
  <2> HIDE DEF d, e, h, a, b, c, t, w
  <2>8. e \in Seq(Byte) /\ Len(e) = LengthOf(h, a, b, c)
    BY <2>2, <2>3, <2>4, <2>5, FourTyped DEF e
  <2>9. Len(e) = y
    BY <1>3, <2>2, <2>3, <2>4, <2>5, <2>6, <2>8 DEF LengthOf
  <2>10. d \in Seq(Byte) /\ Len(d) = Len(e) + Len(t)
    BY <2>5, <2>8, ConcatIs DEF d
  <2>11. Holds(d, 0, e \o t)
    BY <2>10, HoldsSelf DEF d
  <2>12. Holds(d, 0, e) /\ Holds(d, Len(e), t)
    BY <2>5, <2>8, <2>10, <2>11, LastPart
  <2>13. Holds(d, 0, Four(h, a, b, c))
    BY <2>12 DEF e
  <2>14. /\ Holds(d, 0, h) /\ Holds(d, Len(h), a) /\ Holds(d, Len(h) + Len(a), b)
         /\ Holds(d, Len(h) + Len(a) + Len(b), c)
    BY <2>2, <2>3, <2>4, <2>5, <2>10, <2>13, FourIn
  <2>15. Len(h) + Len(a) = p /\ Len(h) + Len(a) + Len(b) = q
    BY <1>3, <2>2, <2>3, <2>4, <2>6
  <2>16. Len(d) = y + 1
    BY <2>5, <2>7, <2>9, <2>10
  <2> HIDE DEF p, q, y
  <2>17. Holds(d, 2, a) /\ Holds(d, p, b) /\ Holds(d, q, c) /\ Holds(d, y, t)
    BY <2>2, <2>9, <2>12, <2>14, <2>15
  <2>18. NumberIn(d, 0, 1) = Version /\ NumberIn(d, 1, 1) = RequestType["MoveTrajectory"]
    BY <2>2, <2>10, <2>14, HeadOfKind DEF h
  <2>19. NumberIn(d, 2, CountWidth) = n
    BY <1>3, <2>1, <2>10, <2>17, HoldsNumber DEF a
  <2>20. PosesAt(d, p, n) = s
    BY <1>1, <2>7, <2>10, <2>17, PosesWritten DEF b
  <2>21. DoubleAt(d, q, 1) = o.speed /\ DoubleAt(d, q, 2) = o.acceleration
    BY <1>1, <2>7, <2>10, <2>17, PairWritten DEF SpeedBytes, c
  <2>22. NumberIn(d, y, 1) = o.orientation_type
    BY <1>1, <2>7, <2>10, <2>17, HoldsByte DEF t
  <2>23. StartAt("MoveTrajectory", d, 2) = o
    <3>1. StartAt("MoveTrajectory", d, 2)
            = TrajectoryOf(PosesAt(d, p, n), DoubleAt(d, q, 1), DoubleAt(d, q, 2),
                           NumberIn(d, y, 1))
      BY <2>19 DEF StartAt, MoveTrajectoryAt, p, q, y, w, all
    <3> QED
      BY <1>1, <2>20, <2>21, <2>22, <3>1 DEF TrajectoryOf
  <2>24. StartEnd("MoveTrajectory", d, 2) = Len(d)
    BY <2>16, <2>19 DEF StartEnd, p, q, y, w, all
  <2>25. 2 + CountWidth <= Len(d) /\ 2 <= Len(d)
    BY <1>3, <2>6, <2>16 DEF p, q, y
  <2>26. Counts("MoveTrajectory", d, 2)
    BY <2>1, <2>19, <2>25 DEF Counts
  <2>27. StartMessage("MoveTrajectory", d, o)
    BY <2>10, <2>18, <2>23, <2>24, <2>25, <2>26 DEF StartMessage
  <2>28. m.thrown = FALSE /\ m.bytes = d
    BY <1>2, <1>5
  <2> QED
    BY <1>5, <2>27, <2>28 DEF m
<1> QED
  BY <1>4, <1>5

-----------------------------------------------------------------------------
(***************************************************************************)
(* The other payloads as they are written.                                 *)
(***************************************************************************)
LEMMA UpdateWritten ==
  ASSUME NEW o \in [request: Byte], NEW old
  PROVE  LET m == moveRequest(old, o)
         IN /\ m.thrown = FALSE /\ m.bytes \in Seq(Byte) /\ Len(m.bytes) = 2
            /\ NumberIn(m.bytes, 0, 1) = Version /\ NumberIn(m.bytes, 1, 1) = o.request
<1> DEFINE d == <<>> \o U8(Version) \o U8(o.request)
           m == moveRequest(old, o)
<1>1. m = [bytes |-> d, thrown |-> FALSE]
  BY DEF moveRequest, Wrote, Clear
<1>2. /\ d \in Seq(Byte) /\ Len(d) = 2
      /\ \A e \in Seq(Byte) : Holds(e, 0, d) =>
           NumberIn(e, 0, 1) = Version /\ NumberIn(e, 1, 1) = o.request
  <2> DEFINE tag == o.request
  <2>1. tag \in Byte
    OBVIOUS
  <2> HIDE DEF tag
  <2>2. /\ <<>> \o U8(Version) \o U8(tag) \in Seq(Byte)
        /\ Len(<<>> \o U8(Version) \o U8(tag)) = 2
        /\ \A e \in Seq(Byte) : Holds(e, 0, <<>> \o U8(Version) \o U8(tag)) =>
             NumberIn(e, 0, 1) = Version /\ NumberIn(e, 1, 1) = tag
    BY <2>1, HeadWritten
  <2> QED
    BY <2>2 DEF tag
<1> HIDE DEF d
<1>3. Holds(d, 0, d)
  BY <1>2, HoldsSelf
<1>4. NumberIn(d, 0, 1) = Version /\ NumberIn(d, 1, 1) = o.request
  BY <1>2, <1>3
<1> QED
  BY <1>1, <1>2, <1>4

LEMMA ErrorWritten ==
  ASSUME NEW o \in [error_msg: Seq(Byte)], NEW old
  PROVE  LET m == errorMessage(old, o)
             d == m.bytes
             w == Width["u64"]
             n == Len(ShortText(o.error_msg))
         IN /\ m.thrown = FALSE /\ d \in Seq(Byte) /\ Len(d) = (1 + w) + n
            /\ NumberIn(d, 0, 1) = Version /\ NumberIn(d, 1, w) = n /\ n \in 0..MaxText
            /\ Window(d, 1 + w, n) = ShortText(o.error_msg)
<1> DEFINE v == <<>> \o U8(Version)
           s == o.error_msg
           t == TextBytes(s)
           d == v \o t
           m == errorMessage(old, o)
           w == Width["u64"]
           n == Len(ShortText(s))
<1>1. m = [bytes |-> d, thrown |-> FALSE]
  BY DEF errorMessage, Wrote, Clear
<1>2. /\ v \in Seq(Byte) /\ Len(v) = 1
      /\ \A e \in Seq(Byte) : Holds(e, 0, v) => NumberIn(e, 0, 1) = Version
  BY VersionWritten
<1>3. s \in Seq(Byte)
  OBVIOUS
<1> HIDE DEF s
<1>4. /\ t \in Seq(Byte) /\ Len(t) = w + n /\ n \in 0..MaxText
      /\ \A e \in Seq(Byte) : \A p \in Nat : Holds(e, p, t) =>
           NumberIn(e, p, w) = n /\ Window(e, p + w, n) = ShortText(s)
  BY <1>3, TextWritten
<1> HIDE DEF v, t, n, d
<1>5. w \in Nat /\ MaxText \in Nat
  BY WidthType, LimitsType
<1> HIDE DEF w
<1>6. d \in Seq(Byte) /\ Len(d) = Len(v) + Len(t) /\ Holds(d, 0, v) /\ Holds(d, Len(v), t)
  BY <1>2, <1>4, TwoParts DEF d
<1>7. Len(d) = (1 + w) + n
  BY <1>2, <1>4, <1>5, <1>6
<1>8. Holds(d, 1, t)
  BY <1>2, <1>6
<1>9. NumberIn(d, 1, w) = n /\ Window(d, 1 + w, n) = ShortText(s)
  BY <1>4, <1>6, <1>8
<1>10. NumberIn(d, 0, 1) = Version
  BY <1>2, <1>6
<1> QED
  BY <1>1, <1>4, <1>6, <1>7, <1>9, <1>10 DEF s, n, w

LEMMA SpecsWritten ==
  ASSUME NEW o \in RobotSpecs, NEW old
  PROVE  LET m == robotSpecs(old, o)
             d == m.bytes
             s == o.joint_limits
             n == o.num_joints
         IN /\ m.thrown = FALSE /\ d \in Seq(Byte)
            /\ Len(d) = LimitsStart + Len(s) * RangeWidth
            /\ NumberIn(d, 0, 1) = Version /\ NumberIn(d, 1, 1) = RobotSpecsType
            /\ JointsIn(d) = n
            /\ n <= Len(s) => SpecsAt(d) = [o EXCEPT !.joint_limits = SubSeq(s, 1, n)]
<1> DEFINE s == o.joint_limits
           n == o.num_joints
           h == <<>> \o U8(Version) \o U8(RobotSpecsType)
           x == <<o.max_velocity_linear, o.max_velocity_angular,
                  o.max_acceleration_linear, o.max_acceleration_angular>>
           a == F64s(x)
           b == U8(n)
           c == FlattenSeq([i \in DOMAIN s |-> F64s(<<s[i].min, s[i].max>>)])
           d == Four(h, a, b, c)
           m == robotSpecs(old, o)
           w == DoubleWidth
           all == Len(s) * RangeWidth
           p == 2 + 4 * w
<1>1. m = [bytes |-> d, thrown |-> FALSE]
  BY DEF robotSpecs, Wrote, Clear, Four
<1>2. /\ o = SpecsOf(o.max_velocity_linear, o.max_velocity_angular,
                     o.max_acceleration_linear, o.max_acceleration_angular, n, s)
      /\ o.max_velocity_linear \in Double /\ o.max_velocity_angular \in Double
      /\ o.max_acceleration_linear \in Double /\ o.max_acceleration_angular \in Double
      /\ n \in Byte /\ s \in Seq(JointLimit)
  BY SpecsAre
<1>3. /\ h \in Seq(Byte) /\ Len(h) = 2
      /\ \A e \in Seq(Byte) : Holds(e, 0, h) =>
           NumberIn(e, 0, 1) = Version /\ NumberIn(e, 1, 1) = RobotSpecsType
  <2> DEFINE tag == RobotSpecsType
  <2>1. tag \in Byte
    BY BaseType DEF RobotSpecsType, Byte, BaseIs
  <2> HIDE DEF tag
  <2>2. /\ <<>> \o U8(Version) \o U8(tag) \in Seq(Byte)
        /\ Len(<<>> \o U8(Version) \o U8(tag)) = 2
        /\ \A e \in Seq(Byte) : Holds(e, 0, <<>> \o U8(Version) \o U8(tag)) =>
             NumberIn(e, 0, 1) = Version /\ NumberIn(e, 1, 1) = tag
    BY <2>1, HeadWritten
  <2> QED
    BY <2>2 DEF tag
<1>4. /\ x \in Seq(Double) /\ Len(x) = 4 /\ x[1] = o.max_velocity_linear
      /\ x[2] = o.max_velocity_angular /\ x[3] = o.max_acceleration_linear
      /\ x[4] = o.max_acceleration_angular
  BY <1>2
<1> HIDE DEF x
<1>5. a \in Seq(Byte) /\ Len(a) = 4 * w
  BY <1>4, DoublesWritten
<1>6. b \in Seq(Byte) /\ Len(b) = 1
  BY <1>2, ByteWritten
<1>7. /\ c \in Seq(Byte) /\ Len(c) = all
      /\ \A e \in Seq(Byte) : \A q \in Nat : Holds(e, q, c) =>
           \A k \in 0..Len(s) : RangesAt(e, q, k) = SubSeq(s, 1, k)
  <2> HIDE DEF s
  <2> QED
    BY <1>2, RangesWritten
<1>8. w \in Nat /\ p \in Nat /\ p + 1 \in Nat
  BY WidthType
<1> HIDE DEF d, h, a, b, c, s, w
<1>9. Len(s) \in Nat /\ all \in Nat
  <2>1. Len(s) \in Nat /\ RangeWidth \in Nat
    BY <1>2, <1>8 DEF RangeWidth, w
  <2> DEFINE k == Len(s)
             v == RangeWidth
  <2>2. k \in Nat /\ v \in Nat
    BY <2>1
  <2> HIDE DEF k, v
  <2>3. k * v \in Nat
    BY <2>2
  <2> QED
    BY <2>1, <2>3 DEF k, v
<1> HIDE DEF all
<1>10. d \in Seq(Byte) /\ Len(d) = LengthOf(h, a, b, c)
  BY <1>3, <1>5, <1>6, <1>7, FourTyped DEF d
<1>11. Len(d) = (p + 1) + all
  BY <1>3, <1>5, <1>6, <1>7, <1>8, <1>9, <1>10 DEF LengthOf
<1>12. Holds(d, 0, Four(h, a, b, c))
  BY <1>10, HoldsSelf DEF d
<1>13. /\ Holds(d, 0, h) /\ Holds(d, Len(h), a) /\ Holds(d, Len(h) + Len(a), b)
       /\ Holds(d, Len(h) + Len(a) + Len(b), c)
  BY <1>3, <1>5, <1>6, <1>7, <1>10, <1>12, FourIn
<1>14. Len(h) + Len(a) = p /\ Len(h) + Len(a) + Len(b) = p + 1
  BY <1>3, <1>5, <1>6, <1>8
<1> HIDE DEF p
<1>15. Holds(d, 2, a) /\ Holds(d, p, b) /\ Holds(d, p + 1, c)
  BY <1>3, <1>13, <1>14
<1>16. NumberIn(d, 0, 1) = Version /\ NumberIn(d, 1, 1) = RobotSpecsType
  BY <1>3, <1>10, <1>13
<1>17. /\ DoubleAt(d, 2, 1) = o.max_velocity_linear
       /\ DoubleAt(d, 2, 2) = o.max_velocity_angular
       /\ DoubleAt(d, 2, 3) = o.max_acceleration_linear
       /\ DoubleAt(d, 2, 4) = o.max_acceleration_angular
  <2>1. \A i \in 1..Len(x) : DoubleAt(d, 2, i) = x[i]
    <3>1. Holds(d, 2, F64s(x)) /\ 2 \in Nat
      BY <1>15 DEF a
    <3> QED
      BY <1>4, <1>10, <3>1, DoublesWritten
  <2> QED
    BY <1>4, <2>1
<1>18. NumberIn(d, p, 1) = n
  BY <1>2, <1>8, <1>10, <1>15, HoldsByte DEF b
<1>19. JointsIn(d) = n /\ LimitsStart = p + 1
  BY <1>18 DEF JointsIn, LimitsStart, p, w
<1>20. ASSUME n <= Len(s)
       PROVE  SpecsAt(d) = [o EXCEPT !.joint_limits = SubSeq(s, 1, n)]
  <2>1. n \in 0..Len(s)
    <3>1. n \in Nat
      BY <1>2, BytesAreNat
    <3> HIDE DEF n
    <3> QED
      BY <1>9, <1>20, <3>1
  <2>2. RangesAt(d, p + 1, n) = SubSeq(s, 1, n)
    BY <1>7, <1>8, <1>10, <1>15, <2>1
  <2>3. SpecsAt(d) = SpecsOf(o.max_velocity_linear, o.max_velocity_angular,
                             o.max_acceleration_linear, o.max_acceleration_angular, n,
                             SubSeq(s, 1, n))
    BY <1>17, <1>19, <2>2 DEF SpecsAt
  <2>4. [o EXCEPT !.joint_limits = SubSeq(s, 1, n)] = With(o, "joint_limits", SubSeq(s, 1, n))
    BY DEF With
  <2> QED
    BY <1>2, <2>3, <2>4, SpecsLimits
<1> QED
  BY <1>1, <1>10, <1>11, <1>16, <1>19, <1>20 DEF s, all

\* The text that the receiver of a status message is to have.
SentText(o) ==
  IF o.status = ERROR /\ o.error_msg # {} THEN ShortText(CHOOSE t \in o.error_msg : TRUE)
                                          ELSE <<>>

StatusStart(o) ==
  <<>> \o U8(Version) \o U64(o.timestamp_us) \o PoseBytes(o.base_pose)
  \o PoseBytes(o.flange_pose) \o PoseBytes(o.end_effector_pose)

LEMMA StatusMembersAre ==
  ASSUME NEW o \in StatusMessages(SUBSET Seq(Byte))
  PROVE  /\ o.timestamp_us \in Number("u64") /\ o.base_pose \in Pose
         /\ o.flange_pose \in Pose /\ o.end_effector_pose \in Pose
         /\ o.joint_positions \in Seq(Double) /\ o.status \in Byte
         /\ o.error_msg \in SUBSET Seq(Byte)
         /\ o = StatusOf(o.timestamp_us, o.base_pose, o.flange_pose, o.end_effector_pose,
                         o.joint_positions, o.status, o.error_msg)
  BY DEF StatusMessages, StatusOf

LEMMA StatusStartWritten ==
  ASSUME NEW o \in StatusMessages(SUBSET Seq(Byte))
  PROVE  /\ StatusStart(o) \in Seq(Byte) /\ Len(StatusStart(o)) = StatusCount
         /\ \A d \in Seq(Byte) : Holds(d, 0, StatusStart(o)) =>
              /\ NumberIn(d, 0, 1) = Version
              /\ NumberIn(d, 1, Width["u64"]) = o.timestamp_us
              /\ PoseAt(d, BaseStart) = o.base_pose
              /\ PoseAt(d, FlangeStart) = o.flange_pose
              /\ PoseAt(d, EffectorStart) = o.end_effector_pose
<1> DEFINE v == <<>> \o U8(Version)
           u == U64(o.timestamp_us)
           a == PoseBytes(o.base_pose)
           b == PoseBytes(o.flange_pose)
           c == PoseBytes(o.end_effector_pose)
           e == Four(v, u, a, b)
           s == e \o c
<1>1. StatusStart(o) = s
  BY DEF StatusStart, Four
<1>2. /\ o.timestamp_us \in Number("u64") /\ o.base_pose \in Pose
      /\ o.flange_pose \in Pose /\ o.end_effector_pose \in Pose
  BY StatusMembersAre
<1>3. /\ v \in Seq(Byte) /\ Len(v) = 1
      /\ \A d \in Seq(Byte) : Holds(d, 0, v) => NumberIn(d, 0, 1) = Version
  BY VersionWritten
<1>4. u \in Seq(Byte) /\ Len(u) = Width["u64"]
  BY <1>2, LongWritten
<1>5. /\ a \in Seq(Byte) /\ Len(a) = 7 * DoubleWidth
      /\ b \in Seq(Byte) /\ Len(b) = 7 * DoubleWidth
      /\ c \in Seq(Byte) /\ Len(c) = 7 * DoubleWidth
  BY <1>2, PoseWritten
<1> HIDE DEF v, u, a, b, c, e, s
<1>6. e \in Seq(Byte) /\ Len(e) = LengthOf(v, u, a, b)
  BY <1>3, <1>4, <1>5, FourTyped DEF e
<1>7. s \in Seq(Byte) /\ Len(s) = Len(e) + Len(c)
  BY <1>5, <1>6, ConcatIs DEF s
<1>8. /\ Len(v) + Len(u) = BaseStart /\ Len(v) + Len(u) + Len(a) = FlangeStart
      /\ Len(e) = EffectorStart
  <2>1. Len(v) + Len(u) = BaseStart
    BY <1>3, <1>4 DEF BaseStart
  <2>2. Len(v) + Len(u) + Len(a) = FlangeStart
    BY <1>5, <2>1 DEF FlangeStart
  <2>3. Len(e) = EffectorStart
    BY <1>5, <1>6, <2>2 DEF EffectorStart, LengthOf
  <2> QED
    BY <2>1, <2>2, <2>3
<1>9. Len(s) = StatusCount
  BY <1>5, <1>7, <1>8 DEF StatusCount
<1>10. ASSUME NEW d \in Seq(Byte), Holds(d, 0, s)
       PROVE  /\ NumberIn(d, 0, 1) = Version
              /\ NumberIn(d, 1, Width["u64"]) = o.timestamp_us
              /\ PoseAt(d, BaseStart) = o.base_pose
              /\ PoseAt(d, FlangeStart) = o.flange_pose
              /\ PoseAt(d, EffectorStart) = o.end_effector_pose
  <2>1. Holds(d, 0, e) /\ Holds(d, Len(e), c)
    BY <1>5, <1>6, <1>10, LastPart DEF s
  <2>2. Holds(d, 0, Four(v, u, a, b))
    BY <2>1 DEF e
  <2>3. /\ Holds(d, 0, v) /\ Holds(d, Len(v), u) /\ Holds(d, Len(v) + Len(u), a)
        /\ Holds(d, Len(v) + Len(u) + Len(a), b)
    BY <1>3, <1>4, <1>5, <2>2, FourIn
  <2>4. /\ Holds(d, 1, u) /\ Holds(d, BaseStart, a) /\ Holds(d, FlangeStart, b)
        /\ Holds(d, EffectorStart, c)
    BY <1>3, <1>8, <2>1, <2>3
  <2>5. BaseStart \in Nat /\ FlangeStart \in Nat /\ EffectorStart \in Nat
    BY StatusStarts
  <2>6. NumberIn(d, 0, 1) = Version
    BY <1>3, <2>3
  <2>7. NumberIn(d, 1, Width["u64"]) = o.timestamp_us
    BY <1>2, <2>4, LongWritten DEF u
  <2>8. PoseAt(d, BaseStart) = o.base_pose
    BY <1>2, <2>4, <2>5, PoseWritten DEF a
  <2>9. PoseAt(d, FlangeStart) = o.flange_pose
    BY <1>2, <2>4, <2>5, PoseWritten DEF b
  <2>10. PoseAt(d, EffectorStart) = o.end_effector_pose
    BY <1>2, <2>4, <2>5, PoseWritten DEF c
  <2> QED
    BY <2>6, <2>7, <2>8, <2>9, <2>10
<1> QED
  BY <1>1, <1>7, <1>9, <1>10

LEMMA StatusWritten ==
  ASSUME NEW o \in StatusMessages(SUBSET Seq(Byte)), NEW old
  PROVE  LET m == statusMessage(old, o)
             d == m.bytes
         IN /\ m.thrown <=> Len(o.joint_positions) > MaxJoints
            /\ m.thrown \in BOOLEAN /\ d \in Seq(Byte)
            /\ m.thrown => Len(d) = StatusCount
            /\ ~ m.thrown => /\ StatusIn(d) /\ StatusEnd(d) = Len(d)
                             /\ StatusAt(d) = [o EXCEPT !.error_msg = SentText(o)]
<1> DEFINE s == StatusStart(o)
           j == o.joint_positions
           n == Len(j)
           has == o.status = ERROR /\ o.error_msg # {}
           text == CHOOSE t \in o.error_msg : TRUE
           a == U8(n)
           b == F64s(j)
           c == a \o b
           u == U8(o.status)
           f == Bool(has)
           x == IF has THEN TextBytes(text) ELSE <<>>
           e == Four(s, c, u, f)
           d == e \o x
           m == statusMessage(old, o)
           w == n * DoubleWidth
           p == StatusCount + 1
           q == p + w
           k == Len(SentText(o))
<1>1. m = IF n > MaxJoints THEN [bytes |-> s, thrown |-> TRUE]
                           ELSE [bytes |-> d, thrown |-> FALSE]
  BY DEF statusMessage, Wrote, Threw, Clear, StatusStart, Four
<1>2. /\ j \in Seq(Double) /\ o.status \in Byte /\ o.error_msg \in SUBSET Seq(Byte)
      /\ o = StatusOf(o.timestamp_us, o.base_pose, o.flange_pose, o.end_effector_pose,
                      j, o.status, o.error_msg)
  BY StatusMembersAre
<1>3. /\ s \in Seq(Byte) /\ Len(s) = StatusCount
      /\ \A g \in Seq(Byte) : Holds(g, 0, s) =>
           /\ NumberIn(g, 0, 1) = Version
           /\ NumberIn(g, 1, Width["u64"]) = o.timestamp_us
           /\ PoseAt(g, BaseStart) = o.base_pose
           /\ PoseAt(g, FlangeStart) = o.flange_pose
           /\ PoseAt(g, EffectorStart) = o.end_effector_pose
  BY StatusStartWritten
<1>4. n \in Nat /\ MaxJoints \in Nat /\ StatusCount \in Nat /\ DoubleWidth \in Nat
  BY <1>2, LimitsType, StatusStarts
<1> HIDE DEF m
<1>5. CASE n > MaxJoints
  <2> HIDE DEF s, d, n
  <2>1. m.thrown = TRUE /\ m.bytes = s
    BY <1>1, <1>5
  <2> QED
    BY <1>3, <1>5, <2>1 DEF m, n, j
<1>6. CASE ~ (n > MaxJoints)
  <2>1. n \in Byte /\ n <= MaxJoints
    BY <1>4, <1>6, LimitsAssumption, BaseType DEF Byte
  <2>2. a \in Seq(Byte) /\ Len(a) = 1 /\ u \in Seq(Byte) /\ Len(u) = 1
    BY <1>2, <2>1, ByteWritten
  <2>3. b \in Seq(Byte) /\ Len(b) = w
    BY <1>2, DoublesWritten
  <2>4. has \in BOOLEAN /\ (has => text \in Seq(Byte) /\ SentText(o) = ShortText(text))
        /\ (~ has => SentText(o) = <<>>)
    BY <1>2 DEF SentText
  <2> HIDE DEF has, text
  <2>5. f \in Seq(Byte) /\ Len(f) = 1
    BY <2>4, FlagWritten
  <2>6. /\ x \in Seq(Byte)
        /\ has => /\ x = TextBytes(text) /\ Len(x) = Width["u64"] + k /\ k \in 0..MaxText
        /\ ~ has => x = <<>> /\ Len(x) = 0
    <3>1. CASE has
      BY <2>4, <3>1, TextWritten
    <3>2. CASE ~ has
      BY <3>2
    <3> QED
      BY <3>1, <3>2
  <2>7. w \in Nat /\ Width["u64"] \in Nat /\ MaxText \in Nat
    <3> DEFINE y == DoubleWidth
    <3>1. y \in Nat
      BY <1>4
    <3> HIDE DEF n, y
    <3>2. n * y \in Nat
      BY <1>4, <3>1
    <3> QED
      BY <3>2, WidthType, LimitsType DEF y
  <2> HIDE DEF w
  <2>8. p \in Nat /\ q \in Nat /\ q + 1 \in Nat /\ q + 2 \in Nat /\ q + 2 + Width["u64"] \in Nat
    BY <1>4, <2>7
  <2> HIDE DEF s, j, n, a, b, c, u, f, x, e, d, k
  <2>9. c \in Seq(Byte) /\ Len(c) = Len(a) + Len(b)
    BY <2>2, <2>3, ConcatIs DEF c
  <2>10. e \in Seq(Byte) /\ Len(e) = LengthOf(s, c, u, f)
    BY <1>3, <2>2, <2>5, <2>9, FourTyped DEF e
  <2>11. d \in Seq(Byte) /\ Len(d) = Len(e) + Len(x) /\ Holds(d, 0, e) /\ Holds(d, Len(e), x)
    BY <2>6, <2>10, TwoParts DEF d
  <2>12. Holds(d, 0, Four(s, c, u, f))
    BY <2>11 DEF e
  <2>13. /\ Holds(d, 0, s) /\ Holds(d, Len(s), c) /\ Holds(d, Len(s) + Len(c), u)
         /\ Holds(d, Len(s) + Len(c) + Len(u), f)
    BY <1>3, <2>2, <2>5, <2>9, <2>11, <2>12, FourIn
  <2>14. /\ Len(s) + Len(c) = q /\ Len(s) + Len(c) + Len(u) = q + 1 /\ Len(e) = q + 2
    BY <1>3, <1>4, <2>2, <2>3, <2>5, <2>7, <2>9, <2>10 DEF LengthOf
  <2>15. Holds(d, StatusCount, a \o b)
    BY <1>3, <2>13 DEF c
  <2>16. Holds(d, StatusCount, a) /\ Holds(d, StatusCount + Len(a), b)
    BY <1>4, <2>2, <2>3, <2>11, <2>15, HoldsParts
  <2>17. Holds(d, p, b)
    BY <2>2, <2>16
  <2>18. /\ Holds(d, q, u) /\ Holds(d, q + 1, f) /\ Holds(d, q + 2, x)
    BY <2>11, <2>13, <2>14
  <2> HIDE DEF p, q
  <2>19. JointCount(d) = n
    BY <1>4, <2>1, <2>11, <2>16, HoldsByte DEF JointCount, a
  <2>20. VectorAt(d, p, n) = j
    BY <1>2, <2>8, <2>11, <2>17, DoublesWritten DEF b, n
  <2>21. StatusTail(d) = q
    BY <2>19 DEF StatusTail, q, p, w
  <2>22. NumberIn(d, q, 1) = o.status
    BY <1>2, <2>8, <2>11, <2>18, HoldsByte DEF u
  <2>23. FlagIn(d) # 0 <=> has
    BY <2>4, <2>8, <2>11, <2>18, <2>21, FlagWritten DEF FlagIn, f
  <2>24. TextCount(d) = q + 2 /\ TextStart(d) = q + 2 + Width["u64"]
    BY <2>21 DEF TextCount, TextStart
  <2>25. ASSUME has
         PROVE  /\ TextLength(d) = k /\ Window(d, TextStart(d), k) = SentText(o)
                /\ Len(d) = TextStart(d) + k /\ TextStart(d) <= Len(d)
                /\ TextLength(d) <= MaxText
    <3>1. Holds(d, q + 2, TextBytes(text)) /\ text \in Seq(Byte) /\ k = Len(ShortText(text))
      BY <2>4, <2>6, <2>18, <2>25 DEF k
    <3>2. /\ NumberIn(d, q + 2, Width["u64"]) = k
          /\ Window(d, q + 2 + Width["u64"], k) = ShortText(text)
      BY <2>8, <2>11, <3>1, TextWritten
    <3>3. Len(d) = (q + 2) + (Width["u64"] + k) /\ k \in 0..MaxText
      BY <2>6, <2>11, <2>14, <2>25
    <3>4. TextLength(d) = k
      BY <2>24, <3>2 DEF TextLength
    <3>5. Window(d, TextStart(d), k) = SentText(o)
      BY <2>4, <2>24, <2>25, <3>2
    <3>6. Len(d) = TextStart(d) + k /\ TextStart(d) <= Len(d) /\ k <= MaxText
      BY <2>7, <2>8, <2>24, <3>3
    <3> QED
      BY <3>4, <3>5, <3>6
  <2>26. ~ has => Len(d) = q + 2 /\ SentText(o) = <<>>
    BY <2>4, <2>6, <2>8, <2>11, <2>14
  <2>27. q + 2 <= Len(d) /\ p <= Len(d)
    <3>1. Len(x) \in Nat
      BY <2>6
    <3> QED
      BY <1>4, <2>7, <2>8, <2>11, <2>14, <3>1 DEF q
  <2>28. StatusEnd(d) = Len(d)
    BY <2>23, <2>24, <2>25, <2>26 DEF StatusEnd
  <2>29. StatusIn(d)
    <3>1. NumberIn(d, 0, 1) = Version
      BY <1>3, <2>11, <2>13
    <3>2. StatusCount + 1 <= Len(d) /\ JointCount(d) <= MaxJoints
      BY <2>1, <2>19, <2>27 DEF p
    <3>3. TextCount(d) <= Len(d) /\ StatusEnd(d) <= Len(d)
      BY <2>11, <2>24, <2>27, <2>28
    <3>4. FlagIn(d) # 0 => TextStart(d) <= Len(d) /\ TextLength(d) <= MaxText
      BY <2>23, <2>25
    <3> QED
      BY <3>1, <3>2, <3>3, <3>4 DEF StatusIn
  <2>30. StatusAt(d) = StatusOf(o.timestamp_us, o.base_pose, o.flange_pose,
                                o.end_effector_pose, j, o.status, SentText(o))
    <3>1. (IF FlagIn(d) # 0 THEN Window(d, TextStart(d), TextLength(d)) ELSE <<>>)
            = SentText(o)
      BY <2>23, <2>25, <2>26
    <3>2. VectorAt(d, StatusCount + 1, JointCount(d)) = j
      BY <2>19, <2>20 DEF p
    <3>3. NumberIn(d, StatusTail(d), 1) = o.status
      BY <2>21, <2>22
    <3>4. /\ NumberIn(d, 1, Width["u64"]) = o.timestamp_us
          /\ PoseAt(d, BaseStart) = o.base_pose
          /\ PoseAt(d, FlangeStart) = o.flange_pose
          /\ PoseAt(d, EffectorStart) = o.end_effector_pose
      BY <1>3, <2>11, <2>13
    <3> QED
      BY <3>1, <3>2, <3>3, <3>4 DEF StatusAt
  <2>31. [o EXCEPT !.error_msg = SentText(o)] = With(o, "error_msg", SentText(o))
    BY DEF With
  <2>32. StatusAt(d) = [o EXCEPT !.error_msg = SentText(o)]
    BY <1>2, <2>30, <2>31, StatusWith DEF j
  <2>33. m.thrown = FALSE /\ m.bytes = d
    BY <1>1, <1>6
  <2> QED
    BY <1>6, <2>11, <2>28, <2>29, <2>32, <2>33 DEF m, n, j
<1> QED
  BY <1>5, <1>6

-----------------------------------------------------------------------------
(***************************************************************************)
(* What arrives, and what is in the buffer.                                *)
(***************************************************************************)
\* The numbers of a message that ends early are those of the whole one.
LEMMA BeginsNumber ==
  ASSUME NEW d \in Seq(Byte), NEW e \in Seq(Byte), Begins(d, e),
         NEW p \in Nat, NEW n \in Nat, p + n <= Len(d)
  PROVE  NumberIn(d, p, n) = NumberIn(e, p, n)
  BY BeginsWindow DEF NumberIn

\* Whichever way a message comes, it is bytes, and one more than were sent at most.
LEMMA ArrivedIs ==
  ASSUME buffer \in Seq(Byte), NEW way \in Ways, NEW data \in Arrived(way)
  PROVE  /\ data \in Seq(Byte) /\ Len(data) <= Len(buffer) + 1
         /\ way = "whole" => data = buffer
         /\ way = "part" => Begins(data, buffer) /\ Len(data) < Len(buffer)
         /\ interface = "FrameHeader" => Len(data) = Len(buffer)
<1>1. CASE way = "whole"
  BY <1>1 DEF Arrived
<1>2. CASE way = "part"
  <2>1. PICK n \in 0..(Len(buffer) - 1) : data = SubSeq(buffer, 1, n)
    BY <1>2 DEF Arrived
  <2>2. interface # "FrameHeader"
    BY <1>2 DEF Arrived
  <2>3. data \in Seq(Byte) /\ Len(data) = n /\ \A i \in 1..n : data[i] = buffer[i]
    BY <2>1
  <2> QED
    BY <1>2, <2>1, <2>2, <2>3 DEF Begins
<1>3. CASE way = "longer"
  <2>1. data = Append(buffer, 0) /\ interface # "FrameHeader"
    BY <1>3 DEF Arrived
  <2>2. 0 \in Byte
    BY BaseType DEF Byte, BaseIs
  <2> QED
    BY <1>3, <2>1, <2>2
<1>4. CASE way = "changed"
  <2>1. \/ \E i \in DOMAIN buffer : \E b \in Slips(buffer[i]) : data = [buffer EXCEPT ![i] = b]
        \/ \E i \in 1..(Len(buffer) - Width["u64"] + 1) : data = Largest(i)
    <3>1. data \in Slipped \/ data \in Enlarged
      BY <1>4 DEF Arrived
    <3>2. ASSUME data \in Slipped
          PROVE  \E i \in DOMAIN buffer :
                   \E b \in Slips(buffer[i]) : data = [buffer EXCEPT ![i] = b]
      BY <3>2 DEF Slipped
    <3>3. ASSUME data \in Enlarged
          PROVE  \E i \in 1..(Len(buffer) - Width["u64"] + 1) : data = Largest(i)
      BY <3>3 DEF Enlarged
    <3> QED
      BY <3>1, <3>2, <3>3
  <2>2. data \in Seq(Byte) /\ Len(data) = Len(buffer)
    <3>1. ASSUME NEW i \in DOMAIN buffer, NEW b \in Slips(buffer[i]),
                 data = [buffer EXCEPT ![i] = b]
          PROVE  data \in Seq(Byte) /\ Len(data) = Len(buffer)
      <4>1. b \in Byte
        <5>1. buffer[i] \in Byte /\ Base \in Nat \ {0} /\ 0 \in Byte
          BY BaseType DEF Byte
        <5>2. \A v \in Int : v % Base \in 0..(Base - 1)
          BY <5>1
        <5> DEFINE x == buffer[i]
        <5>3. x + 1 \in Int /\ x - 1 \in Int
          BY <5>1 DEF Byte
        <5> HIDE DEF x
        <5>4. (x + 1) % Base \in Byte /\ (x - 1) % Base \in Byte
          BY <5>2, <5>3 DEF Byte
        <5>5. b \in {0, (x + 1) % Base, (x - 1) % Base}
          BY DEF Slips, x
        <5> QED
          BY <5>1, <5>4, <5>5
      <4> QED
        BY <3>1, <4>1
    <3>2. ASSUME NEW i, data = Largest(i)
          PROVE  data \in Seq(Byte) /\ Len(data) = Len(buffer)
      <4>1. Base - 1 \in Byte
        BY BaseType DEF Byte, BaseIs
      <4>2. /\ DOMAIN buffer = 1..Len(buffer) /\ Len(buffer) \in Nat
            /\ \A j \in 1..Len(buffer) : buffer[j] \in Byte
        OBVIOUS
      <4>3. data \in [1..Len(buffer) -> Byte]
        BY <3>2, <4>1, <4>2 DEF Largest
      <4> QED
        BY <4>2, <4>3, FunctionIsSeq
    <3> QED
      BY <2>1, <3>1, <3>2
  <2> QED
    BY <1>4, <2>2
<1> QED
  BY <1>1, <1>2, <1>3, <1>4 DEF Ways

\* A serializer begins with an empty buffer.
LEMMA EncodedClears ==
  ASSUME NEW i \in Payloads \cup Structs, NEW o, NEW old,
         i = "start" => o.kind \in DOMAIN RequestType
  PROVE  Encoded(i, old, o) = Encoded(i, <<>>, o)
  BY KindsAre DEF Encoded, Payloads, Structs, moveJoint, moveLinear, moveArc, moveTrajectory, getRobotSpecs,
     robotSpecs, moveRequest, statusMessage, errorMessage, Clear

\* The start request o as its serializer makes it of the object.
LEMMA StartWritten ==
  ASSUME NEW o \in StartRequests
  PROVE  LET m == Encoded("start", <<>>, o)
         IN /\ m.thrown \in BOOLEAN /\ m.bytes \in Seq(Byte)
            /\ m.thrown <=> \/ o.kind = "MoveJoint" /\ Len(o.joint_targets) > MaxJoints
                            \/ o.kind = "MoveTrajectory" /\ Len(o.pose_targets) > MaxPoses
            /\ m.thrown => m.bytes = <<>>
            /\ ~ m.thrown => StartMessage(o.kind, m.bytes, o)
            /\ o.kind \in DOMAIN RequestType
<1> DEFINE m == Encoded("start", <<>>, o)
<1>1. o.kind \in DOMAIN RequestType
  BY StartMembers
<1>2. /\ m.thrown \in BOOLEAN
      /\ m.thrown <=> \/ o.kind = "MoveJoint" /\ Len(o.joint_targets) > MaxJoints
                      \/ o.kind = "MoveTrajectory" /\ Len(o.pose_targets) > MaxPoses
      /\ m.thrown => m.bytes = <<>>
      /\ ~ m.thrown => StartMessage(o.kind, m.bytes, o)
  <2>1. CASE o.kind = "MoveJoint"
    <3>1. m = moveJoint(<<>>, o)
      BY <2>1 DEF Encoded
    <3> QED
      BY <2>1, <3>1, MoveJointWritten
  <2>2. CASE o.kind = "MoveLinear"
    <3>1. m = moveLinear(<<>>, o)
      BY <2>2 DEF Encoded
    <3> QED
      BY <2>2, <3>1, MoveLinearWritten
  <2>3. CASE o.kind = "MoveArc"
    <3>1. m = moveArc(<<>>, o)
      BY <2>3 DEF Encoded
    <3> QED
      BY <2>3, <3>1, MoveArcWritten
  <2>4. CASE o.kind = "MoveTrajectory"
    <3>1. m = moveTrajectory(<<>>, o)
      BY <2>4 DEF Encoded
    <3> QED
      BY <2>4, <3>1, MoveTrajectoryWritten
  <2>5. CASE o.kind = "GetRobotSpecs"
    <3>1. m = getRobotSpecs(<<>>)
      BY <2>5 DEF Encoded
    <3> QED
      BY <2>5, <3>1, GetRobotSpecsWritten
  <2> QED
    BY <1>1, <2>1, <2>2, <2>3, <2>4, <2>5, KindsAre
<1> HIDE DEF m
<1>3. m.bytes \in Seq(Byte)
  <2>1. CASE m.thrown
    <3>1. m.bytes = <<>> /\ <<>> \in Seq(Byte)
      BY <1>2, <2>1
    <3> QED
      BY <3>1, Zenon
  <2>2. CASE ~ m.thrown
    BY <1>2, <2>2 DEF StartMessage
  <2> QED
    BY <2>1, <2>2
<1> QED
  BY <1>1, <1>2, <1>3 DEF m

-----------------------------------------------------------------------------
(***************************************************************************)
(* What one call of the deserializer makes of its object.                  *)
(***************************************************************************)
\* An object of the deserializer, with no vector or text longer than its limit.
Fine(i, o) ==
  /\ o \in Received(i)
  /\ i = "start" => /\ o.kind = "MoveJoint" => Len(o.joint_targets) <= MaxJoints
                    /\ o.kind = "MoveTrajectory" => Len(o.pose_targets) <= MaxPoses
  /\ i = "status" => Len(o.joint_positions) <= MaxJoints
  /\ i \in {"status", "error"} => Len(o.error_msg) <= MaxText

\* The start request that an accepted message makes.
LEMMA StartAccepted ==
  ASSUME NEW data, Readable(data), NEW old, deserialize(data, old).ok
  PROVE  LET s == deserialize(data, old)
         IN \E kind \in DOMAIN RequestType :
              /\ 2 <= Len(data) /\ NumberIn(data, 1, 1) = RequestType[kind]
              /\ Counts(kind, data, 2) /\ StartEnd(kind, data, 2) <= Len(data)
              /\ s.pos = StartEnd(kind, data, 2) /\ s.out = StartAt(kind, data, 2)
              /\ s.out \in StartRequests
<1> DEFINE s == deserialize(data, old)
<1>1. /\ \A kind \in DOMAIN RequestType :
           2 <= Len(data) /\ NumberIn(data, 1, 1) = RequestType[kind] =>
           /\ s.ok <=> /\ NumberIn(data, 0, 1) = Version
                       /\ Counts(kind, data, 2) /\ StartEnd(kind, data, 2) <= Len(data)
           /\ s.ok => /\ s.pos = StartEnd(kind, data, 2)
                      /\ s.out = StartAt(kind, data, 2)
                      /\ s.out \in StartRequests
      /\ s.ok => /\ 2 <= Len(data)
                 /\ \E kind \in DOMAIN RequestType : NumberIn(data, 1, 1) = RequestType[kind]
  BY DeserializeIs
<1>2. s.ok
  OBVIOUS
<1> HIDE DEF s
<1>3. PICK kind \in DOMAIN RequestType : NumberIn(data, 1, 1) = RequestType[kind]
  BY <1>1, <1>2
<1>4. 2 <= Len(data)
  BY <1>1, <1>2
<1>5. /\ Counts(kind, data, 2) /\ StartEnd(kind, data, 2) <= Len(data)
      /\ s.pos = StartEnd(kind, data, 2) /\ s.out = StartAt(kind, data, 2)
      /\ s.out \in StartRequests
  BY <1>1, <1>2, <1>3, <1>4
<1> QED
  BY <1>3, <1>4, <1>5 DEF s

\* How long its vectors are.
LEMMA StartLengths ==
  ASSUME NEW d \in Seq(Byte)
  PROVE  /\ Counts("MoveJoint", d, 2) =>
              /\ NumberIn(d, 2, 1) \in 0..MaxJoints
              /\ StartAt("MoveJoint", d, 2).kind = "MoveJoint"
              /\ Len(StartAt("MoveJoint", d, 2).joint_targets) = NumberIn(d, 2, 1)
         /\ Counts("MoveTrajectory", d, 2) =>
              /\ NumberIn(d, 2, CountWidth) \in 0..MaxPoses
              /\ StartAt("MoveTrajectory", d, 2).kind = "MoveTrajectory"
              /\ Len(StartAt("MoveTrajectory", d, 2).pose_targets) = NumberIn(d, 2, CountWidth)
<1>1. MaxJoints \in Nat /\ MaxPoses \in Nat /\ CountWidth \in Nat
  BY LimitsType
<1>2. ASSUME Counts("MoveJoint", d, 2)
      PROVE  /\ NumberIn(d, 2, 1) \in 0..MaxJoints
             /\ StartAt("MoveJoint", d, 2).kind = "MoveJoint"
             /\ Len(StartAt("MoveJoint", d, 2).joint_targets) = NumberIn(d, 2, 1)
  <2> DEFINE n == NumberIn(d, 2, 1)
  <2>1. 2 + 1 <= Len(d) /\ n <= MaxJoints
    BY <1>2 DEF Counts
  <2>2. n \in Nat
    BY <2>1, NumberInType
  <2> HIDE DEF n
  <2>3. Len(VectorAt(d, 2 + 1, n)) = n
    BY <2>2 DEF VectorAt
  <2>4. StartAt("MoveJoint", d, 2).joint_targets = VectorAt(d, 2 + 1, n)
    BY DEF StartAt, MoveJointAt, n
  <2>5. StartAt("MoveJoint", d, 2).kind = "MoveJoint"
    BY DEF StartAt, MoveJointAt
  <2> QED
    BY <1>1, <2>1, <2>2, <2>3, <2>4, <2>5 DEF n
<1>3. ASSUME Counts("MoveTrajectory", d, 2)
      PROVE  /\ NumberIn(d, 2, CountWidth) \in 0..MaxPoses
             /\ StartAt("MoveTrajectory", d, 2).kind = "MoveTrajectory"
             /\ Len(StartAt("MoveTrajectory", d, 2).pose_targets) = NumberIn(d, 2, CountWidth)
  <2> DEFINE n == NumberIn(d, 2, CountWidth)
  <2>1. 2 + CountWidth <= Len(d) /\ n <= MaxPoses
    BY <1>3 DEF Counts
  <2>2. n \in Nat
    BY <1>1, <2>1, NumberInType
  <2> HIDE DEF n
  <2>3. Len(PosesAt(d, 2 + CountWidth, n)) = n
    BY <2>2 DEF PosesAt
  <2>4. StartAt("MoveTrajectory", d, 2).pose_targets = PosesAt(d, 2 + CountWidth, n)
    BY DEF StartAt, MoveTrajectoryAt, TrajectoryOf, n
  <2>5. StartAt("MoveTrajectory", d, 2).kind = "MoveTrajectory"
    BY DEF StartAt, MoveTrajectoryAt, TrajectoryOf
  <2> QED
    BY <1>1, <2>1, <2>2, <2>3, <2>4, <2>5 DEF n
<1> QED
  BY <1>2, <1>3

LEMMA StartKind ==
  ASSUME NEW kind \in DOMAIN RequestType, NEW d
  PROVE  StartAt(kind, d, 2).kind = kind
<1>1. CASE kind = "MoveJoint"
  BY <1>1 DEF StartAt, MoveJointAt
<1>2. CASE kind = "MoveLinear"
  BY <1>2 DEF StartAt, MoveLinearAt
<1>3. CASE kind = "MoveArc"
  BY <1>3 DEF StartAt, MoveArcAt
<1>4. CASE kind = "MoveTrajectory"
  BY <1>4 DEF StartAt, MoveTrajectoryAt, TrajectoryOf
<1>5. CASE kind = "GetRobotSpecs"
  BY <1>5 DEF StartAt
<1> QED
  BY <1>1, <1>2, <1>3, <1>4, <1>5, KindsAre

LEMMA StartFine ==
  ASSUME NEW data, Readable(data), NEW old, Fine("start", old)
  PROVE  LET s == deserialize(data, old)
         IN /\ s.ok \in BOOLEAN /\ s.pos \in Nat /\ s.inside = TRUE /\ Fine("start", s.out)
            /\ ~ s.ok => s.out = old
<1> DEFINE s == deserialize(data, old)
<1>1. s.inside = TRUE /\ s.ok \in BOOLEAN /\ s.pos \in 0..Len(data) /\ (~ s.ok => s.out = old)
  <2>1. s.inside = TRUE
    BY DeserializeIs
  <2>2. s.ok \in BOOLEAN
    BY DeserializeIs
  <2>3. s.pos \in 0..Len(data)
    BY DeserializeIs
  <2>4. ~ s.ok => s.out = old
    <3>1. LeftOld(s, old)
      BY DeserializeIs
    <3> HIDE DEF s
    <3> QED
      BY <3>1 DEF LeftOld
  <2> QED
    BY <2>1, <2>2, <2>3, <2>4
<1>2. Len(data) \in Nat /\ data \in Seq(Byte)
  BY DEF Readable
<1>3. ASSUME s.ok PROVE Fine("start", s.out)
  <2>1. PICK kind \in DOMAIN RequestType :
          Counts(kind, data, 2) /\ s.out = StartAt(kind, data, 2) /\ s.out \in StartRequests
    BY <1>3, StartAccepted
  <2> HIDE DEF s
  <2>2. s.out.kind = kind
    BY <2>1, StartKind
  <2>3. s.out \in Received("start")
    BY <2>1 DEF Received, ObjectTypes, Structs
  <2>4. s.out.kind = "MoveJoint" => Len(s.out.joint_targets) <= MaxJoints
    BY <1>2, <2>1, <2>2, StartLengths, LimitsType
  <2>5. s.out.kind = "MoveTrajectory" => Len(s.out.pose_targets) <= MaxPoses
    BY <1>2, <2>1, <2>2, StartLengths, LimitsType
  <2> QED
    BY <2>3, <2>4, <2>5 DEF Fine
<1> HIDE DEF s
<1>4. Fine("start", s.out)
  BY <1>1, <1>3
<1> QED
  BY <1>1, <1>2, <1>4 DEF s

LEMMA FineIn ==
  /\ \A o : Fine("specs", o) <=> o \in RobotSpecs
  /\ \A o : Fine("update", o) <=> o \in [request: Byte]
  /\ \A o : Fine("status", o) <=> StatusFine(o)
  /\ \A o : Fine("error", o) <=> o \in [error_msg: Seq(Byte)] /\ Len(o.error_msg) <= MaxText
  /\ \A i \in Structs : \A o : Fine(i, o) <=> o \in ObjectTypes[i] \cup {<<>>}
<1>1. \A o : Fine("specs", o) <=> o \in RobotSpecs
  BY DEF Fine, Received, ObjectTypes, Structs
<1>2. \A o : Fine("update", o) <=> o \in [request: Byte]
  BY DEF Fine, Received, ObjectTypes, Structs
<1>3. ASSUME NEW o PROVE Fine("status", o) <=> StatusFine(o)
  <2>1. Received("status") = StatusMessages(Seq(Byte))
    BY DEF Received, Structs
  <2> QED
    BY <2>1 DEF Fine, StatusFine
<1>4. \A o : Fine("error", o) <=> o \in [error_msg: Seq(Byte)] /\ Len(o.error_msg) <= MaxText
  BY DEF Fine, Received, ObjectTypes, Structs
<1>5. \A i \in Structs : \A o : Fine(i, o) <=> o \in ObjectTypes[i] \cup {<<>>}
  BY DEF Fine, Received, Structs
<1> QED
  BY <1>1, <1>2, <1>3, <1>4, <1>5

\* Whatever a deserializer has read, it has kept inside, and its object is one of its
\* type; and it has left the old object where it fills one only from a whole message.
Kept(i, s, old) ==
  /\ s.ok \in BOOLEAN /\ s.pos \in Nat /\ s.inside = TRUE /\ Fine(i, s.out)
  /\ ~ s.ok /\ i \notin {"specs", "status", "error"} => s.out = old

LEMMA PositionIs ==
  ASSUME NEW s, IsReader(s)
  PROVE  s.ok \in BOOLEAN /\ s.pos \in Nat
  BY ReaderType

LEMMA DecodedIs ==
  ASSUME interface \in Payloads \cup Structs, Fine(interface, out), NEW data, Readable(data),
         interface = "FrameHeader" => Len(data) = StructLength("FrameHeader")
  PROVE  Kept(interface, Decoded(data), out)
<1> DEFINE old == out
<1>1. CASE interface = "start"
  <2>1. Decoded(data) = deserialize(data, old)
    BY <1>1 DEF Decoded
  <2>2. Fine("start", old)
    BY <1>1
  <2> HIDE DEF old
  <2> DEFINE s == deserialize(data, old)
  <2>3. s.ok \in BOOLEAN /\ s.pos \in Nat /\ s.inside = TRUE /\ Fine("start", s.out)
    BY <2>2, StartFine
  <2>4. ~ s.ok => s.out = old
    BY <2>2, StartFine
  <2> QED
    BY <1>1, <2>1, <2>3, <2>4 DEF Kept, old
<1>2. CASE interface = "specs"
  <2>1. Decoded(data) = deserializeRobotSpecs(data, old)
    BY <1>2 DEF Decoded
  <2>2. old \in RobotSpecs
    BY <1>2, FineIn
  <2> HIDE DEF old
  <2> DEFINE s == deserializeRobotSpecs(data, old)
  <2>3. IsReader(s) /\ s.inside = TRUE /\ s.out \in RobotSpecs
    BY <2>2, RobotSpecsAre
  <2>4. s.ok \in BOOLEAN /\ s.pos \in Nat
    BY <2>3, PositionIs
  <2>5. Fine("specs", s.out)
    BY <2>3, FineIn
  <2> QED
    BY <1>2, <2>1, <2>3, <2>4, <2>5 DEF Kept, old
<1>3. CASE interface = "update"
  <2>1. Decoded(data) = deserializeMoveRequest(data, old)
    BY <1>3 DEF Decoded
  <2>2. old \in [request: Byte]
    BY <1>3, FineIn
  <2> HIDE DEF old
  <2> DEFINE s == deserializeMoveRequest(data, old)
  <2>3. IsReader(s) /\ s.inside = TRUE /\ s.out \in [request: Byte] /\ (~ s.ok => s.out = old)
    BY <2>2, MoveRequestIs
  <2>4. s.ok \in BOOLEAN /\ s.pos \in Nat
    BY <2>3, PositionIs
  <2>5. Fine("update", s.out)
    BY <2>3, FineIn
  <2> QED
    BY <1>3, <2>1, <2>3, <2>4, <2>5 DEF Kept, old
<1>4. CASE interface = "status"
  <2>1. Decoded(data) = deserializeStatusMessage(data, old)
    BY <1>4 DEF Decoded
  <2>2. StatusFine(old)
    BY <1>4, FineIn
  <2> HIDE DEF old
  <2> DEFINE s == deserializeStatusMessage(data, old)
  <2>3. IsReader(s) /\ s.inside = TRUE /\ StatusFine(s.out)
    BY <2>2, StatusMessageIs
  <2>4. s.ok \in BOOLEAN /\ s.pos \in Nat
    BY <2>3, PositionIs
  <2>5. Fine("status", s.out)
    BY <2>3, FineIn
  <2> QED
    BY <1>4, <2>1, <2>3, <2>4, <2>5 DEF Kept, old
<1>5. CASE interface = "error"
  <2>1. Decoded(data) = deserializeErrorMessage(data, old)
    BY <1>5 DEF Decoded
  <2>2. old \in [error_msg: Seq(Byte)] /\ Len(old.error_msg) <= MaxText
    BY <1>5, FineIn
  <2> HIDE DEF old
  <2> DEFINE s == deserializeErrorMessage(data, old)
  <2>3. IsReader(s) /\ s.inside = TRUE
    BY <2>2, ErrorMessageIs
  <2>4. s.out \in [error_msg: Seq(Byte)] /\ Len(s.out.error_msg) <= MaxText
    BY <2>2, ErrorMessageIs
  <2>5. s.ok \in BOOLEAN /\ s.pos \in Nat
    BY <2>3, PositionIs
  <2>6. Fine("error", s.out)
    BY <2>4, FineIn
  <2> QED
    BY <1>5, <2>1, <2>3, <2>5, <2>6 DEF Kept, old
<1>6. CASE interface \in Structs
  <2> DEFINE i == interface
             s == StructRead(i, data, old)
  <2>1. Decoded(data) = s
    BY <1>6 DEF Decoded, StructRead, Structs
  <2>2. i \in Structs /\ old \in ObjectTypes[i] \cup {<<>>}
    BY <1>6, FineIn
  <2>3. i = "FrameHeader" => Len(data) = StructLength(i)
    OBVIOUS
  <2> HIDE DEF old, i
  <2>4. /\ s.inside = TRUE /\ s.ok \in BOOLEAN /\ s.pos \in {0, Len(data)}
        /\ s.ok <=> Len(data) = StructLength(i)
        /\ s.ok => s.out = StructAt(i, data)
        /\ ~ s.ok => s.out = old
    BY <2>2, <2>3, StructIs
  <2> HIDE DEF s
  <2>5. s.ok => s.out \in ObjectTypes[i]
    BY <2>2, <2>4, StructType DEF Readable
  <2>6. Fine(i, s.out)
    BY <2>2, <2>4, <2>5, FineIn
  <2>7. s.pos \in Nat
    <3>1. Len(data) \in Nat
      BY DEF Readable
    <3> QED
      BY <2>4, <3>1
  <2>8. Kept(i, s, old)
    BY <2>4, <2>6, <2>7 DEF Kept
  <2> QED
    BY <2>1, <2>8 DEF i, old
<1> QED
  BY <1>1, <1>2, <1>3, <1>4, <1>5, <1>6 DEF Payloads

-----------------------------------------------------------------------------
(***************************************************************************)
(* Messages as they were sent, in whole and in part.                       *)
(***************************************************************************)
LEMMA WholeStart ==
  ASSUME NEW o \in StartRequests, NEW d, Readable(d), StartMessage(o.kind, d, o), NEW old
  PROVE  LET s == deserialize(d, old)
         IN s.ok /\ s.out = o /\ s.pos = Len(d)
<1> DEFINE s == deserialize(d, old)
           kind == o.kind
<1>1. kind \in DOMAIN RequestType
  BY StartMembers
<1>2. /\ 2 <= Len(d) /\ NumberIn(d, 0, 1) = Version /\ NumberIn(d, 1, 1) = RequestType[kind]
      /\ Counts(kind, d, 2) /\ StartEnd(kind, d, 2) = Len(d) /\ StartAt(kind, d, 2) = o
  BY DEF StartMessage
<1>3. StartEnd(kind, d, 2) <= Len(d)
  BY <1>2 DEF Readable
<1>4. \A k \in DOMAIN RequestType :
        2 <= Len(d) /\ NumberIn(d, 1, 1) = RequestType[k] =>
        /\ s.ok <=> /\ NumberIn(d, 0, 1) = Version
                    /\ Counts(k, d, 2) /\ StartEnd(k, d, 2) <= Len(d)
        /\ s.ok => /\ s.pos = StartEnd(k, d, 2)
                   /\ s.out = StartAt(k, d, 2)
                   /\ s.out \in StartRequests
  BY DeserializeIs
<1> HIDE DEF s, kind
<1>5. s.ok
  BY <1>1, <1>2, <1>3, <1>4
<1> QED
  BY <1>1, <1>2, <1>4, <1>5 DEF s

\* The counts of a start request that ends early, and so the end it promises.
LEMMA PartStart ==
  ASSUME NEW o \in StartRequests, NEW e \in Seq(Byte), StartMessage(o.kind, e, o),
         NEW d, Readable(d), Begins(d, e), Len(d) < Len(e), NEW old
  PROVE  ~ deserialize(d, old).ok
<1> SUFFICES ASSUME deserialize(d, old).ok PROVE FALSE
  OBVIOUS
<1>1. PICK kind \in DOMAIN RequestType :
        /\ 2 <= Len(d) /\ NumberIn(d, 1, 1) = RequestType[kind]
        /\ Counts(kind, d, 2) /\ StartEnd(kind, d, 2) <= Len(d)
  BY StartAccepted
<1>2. d \in Seq(Byte) /\ Len(d) \in Nat /\ Len(e) \in Nat
  BY DEF Readable
<1>3. NumberIn(d, 1, 1) = NumberIn(e, 1, 1)
  <2>1. 1 \in Nat /\ 1 + 1 <= Len(d)
    BY <1>1
  <2> QED
    BY <1>2, <2>1, BeginsNumber
<1>4. /\ NumberIn(e, 1, 1) = RequestType[o.kind] /\ StartEnd(o.kind, e, 2) = Len(e)
      /\ o.kind \in DOMAIN RequestType
  BY StartMembers DEF StartMessage
<1>5. kind = o.kind
  BY <1>1, <1>3, <1>4, KindsAre
<1>6. StartEnd(kind, d, 2) = StartEnd(kind, e, 2)
  <2>1. CASE kind = "MoveJoint"
    <3>1. 2 + 1 <= Len(d) /\ 2 \in Nat /\ 1 \in Nat
      BY <1>1, <2>1 DEF Counts
    <3>2. NumberIn(d, 2, 1) = NumberIn(e, 2, 1)
      BY <1>2, <3>1, BeginsNumber
    <3> QED
      BY <2>1, <3>2 DEF StartEnd
  <2>2. CASE kind = "MoveTrajectory"
    <3>1. 2 + CountWidth <= Len(d) /\ 2 \in Nat /\ CountWidth \in Nat
      BY <1>1, <2>2, LimitsType DEF Counts
    <3>2. NumberIn(d, 2, CountWidth) = NumberIn(e, 2, CountWidth)
      BY <1>2, <3>1, BeginsNumber
    <3> QED
      BY <2>2, <3>2 DEF StartEnd
  <2>3. CASE kind \in {"MoveLinear", "MoveArc", "GetRobotSpecs"}
    BY <2>3 DEF StartEnd
  <2> QED
    BY <2>1, <2>2, <2>3, KindsAre
<1> QED
  BY <1>1, <1>2, <1>4, <1>5, <1>6

\* A message with the request's kind, counts and vectors has its length.
LEMMA SameStart ==
  ASSUME NEW kind \in DOMAIN RequestType, NEW d \in Seq(Byte), NEW e \in Seq(Byte),
         Counts(kind, d, 2), Counts(kind, e, 2), StartAt(kind, d, 2) = StartAt(kind, e, 2)
  PROVE  StartEnd(kind, d, 2) = StartEnd(kind, e, 2)
<1>1. CASE kind = "MoveJoint"
  <2>1. NumberIn(d, 2, 1) = NumberIn(e, 2, 1)
    BY <1>1, StartLengths
  <2> QED
    BY <1>1, <2>1 DEF StartEnd
<1>2. CASE kind = "MoveTrajectory"
  <2>1. NumberIn(d, 2, CountWidth) = NumberIn(e, 2, CountWidth)
    BY <1>2, StartLengths
  <2> QED
    BY <1>2, <2>1 DEF StartEnd
<1>3. CASE kind \in {"MoveLinear", "MoveArc", "GetRobotSpecs"}
  BY <1>3 DEF StartEnd
<1> QED
  BY <1>1, <1>2, <1>3, KindsAre

LEMMA AcceptedStart ==
  ASSUME NEW data, Readable(data), NEW old, deserialize(data, old).ok
  PROVE  LET s == deserialize(data, old)
             m == Encoded("start", <<>>, s.out)
         IN ~ m.thrown /\ Len(m.bytes) = s.pos
<1> DEFINE s == deserialize(data, old)
           o == s.out
           m == Encoded("start", <<>>, o)
<1>1. PICK kind \in DOMAIN RequestType :
        /\ 2 <= Len(data) /\ NumberIn(data, 1, 1) = RequestType[kind]
        /\ Counts(kind, data, 2) /\ StartEnd(kind, data, 2) <= Len(data)
        /\ s.pos = StartEnd(kind, data, 2) /\ s.out = StartAt(kind, data, 2)
        /\ s.out \in StartRequests
  BY StartAccepted
<1>2. data \in Seq(Byte)
  BY DEF Readable
<1>3. o \in StartRequests /\ o = StartAt(kind, data, 2)
  BY <1>1
<1> HIDE DEF o
<1>4. o.kind = kind
  BY <1>3, StartKind
<1>5. /\ m.thrown \in BOOLEAN /\ m.bytes \in Seq(Byte)
      /\ m.thrown <=> \/ o.kind = "MoveJoint" /\ Len(o.joint_targets) > MaxJoints
                      \/ o.kind = "MoveTrajectory" /\ Len(o.pose_targets) > MaxPoses
      /\ ~ m.thrown => StartMessage(o.kind, m.bytes, o)
  BY <1>3, StartWritten
<1> HIDE DEF m
<1>6. ~ (o.kind = "MoveJoint" /\ Len(o.joint_targets) > MaxJoints)
  BY <1>1, <1>2, <1>3, <1>4, StartLengths, LimitsType
<1>7. ~ (o.kind = "MoveTrajectory" /\ Len(o.pose_targets) > MaxPoses)
  BY <1>1, <1>2, <1>3, <1>4, StartLengths, LimitsType
<1>8. ~ m.thrown /\ StartMessage(kind, m.bytes, o)
  BY <1>4, <1>5, <1>6, <1>7
<1>9. /\ Counts(kind, m.bytes, 2) /\ StartAt(kind, m.bytes, 2) = o
      /\ StartEnd(kind, m.bytes, 2) = Len(m.bytes)
  BY <1>8 DEF StartMessage
<1>10. StartEnd(kind, data, 2) = StartEnd(kind, m.bytes, 2)
  BY <1>1, <1>2, <1>3, <1>5, <1>9, SameStart
<1> QED
  BY <1>1, <1>8, <1>9, <1>10 DEF m, o

LEMMA WholeUpdate ==
  ASSUME NEW o \in [request: Byte], NEW sent, Readable(moveRequest(sent, o).bytes),
         NEW old \in [request: Byte]
  PROVE  LET d == moveRequest(sent, o).bytes
             s == deserializeMoveRequest(d, old)
         IN s.ok /\ s.out = o /\ s.pos = Len(d)
<1> DEFINE d == moveRequest(sent, o).bytes
           s == deserializeMoveRequest(d, old)
           n == NumberIn(d, 1, 1)
<1>1. Len(d) = 2 /\ NumberIn(d, 0, 1) = Version /\ n = o.request /\ Readable(d)
  BY UpdateWritten
<1> HIDE DEF d
<1>2. /\ s.ok <=> 2 <= Len(d) /\ NumberIn(d, 0, 1) = Version
      /\ s.ok => s.pos = 2 /\ n \in Byte /\ s.out = [request |-> n]
  BY <1>1, MoveRequestIs
<1> HIDE DEF s, n
<1>3. s.ok /\ s.pos = 2 /\ s.out = [request |-> n]
  BY <1>1, <1>2
<1>4. o = [request |-> o.request]
  OBVIOUS
<1> QED
  BY <1>1, <1>3, <1>4 DEF s, d

LEMMA PartUpdate ==
  ASSUME NEW d, Readable(d), Len(d) < 2, NEW old \in [request: Byte]
  PROVE  ~ deserializeMoveRequest(d, old).ok
<1> DEFINE s == deserializeMoveRequest(d, old)
<1>1. s.ok <=> 2 <= Len(d) /\ NumberIn(d, 0, 1) = Version
  BY MoveRequestIs
<1>2. Len(d) \in Nat
  BY DEF Readable
<1> HIDE DEF s
<1>3. ~ s.ok
  BY <1>1, <1>2
<1> QED
  BY <1>3 DEF s

LEMMA WholeError ==
  ASSUME NEW o \in [error_msg: Seq(Byte)], NEW sent, Readable(errorMessage(sent, o).bytes),
         NEW old \in [error_msg: Seq(Byte)], Len(old.error_msg) <= MaxText
  PROVE  LET d == errorMessage(sent, o).bytes
             s == deserializeErrorMessage(d, old)
         IN s.ok /\ s.out = [error_msg |-> ShortText(o.error_msg)] /\ s.pos = Len(d)
<1> DEFINE d == errorMessage(sent, o).bytes
           s == deserializeErrorMessage(d, old)
           w == Width["u64"]
           n == Len(ShortText(o.error_msg))
           p == 1 + w
           c == NumberIn(d, 1, w)
<1>1. /\ Len(d) = p + n /\ NumberIn(d, 0, 1) = Version /\ c = n /\ n \in 0..MaxText
      /\ Window(d, p, n) = ShortText(o.error_msg) /\ Readable(d)
  BY ErrorWritten
<1> HIDE DEF d
<1>2. /\ s.ok <=> /\ NumberIn(d, 0, 1) = Version /\ p <= Len(d) /\ c <= MaxText
                  /\ p + c <= Len(d)
      /\ s.ok => s.pos = p + c /\ s.out = [error_msg |-> Window(d, p, c)]
  BY <1>1, ErrorMessageIs
<1>3. p \in Nat /\ MaxText \in Nat
  BY WidthType, LimitsType
<1> HIDE DEF s, n, p, c, w
<1>4. p <= Len(d) /\ p + c <= Len(d) /\ c <= MaxText
  BY <1>1, <1>3
<1>5. s.ok /\ s.pos = p + c /\ s.out = [error_msg |-> Window(d, p, c)]
  BY <1>1, <1>2, <1>4
<1> QED
  BY <1>1, <1>5 DEF s, d

LEMMA PartError ==
  ASSUME NEW o \in [error_msg: Seq(Byte)], NEW sent,
         NEW d, Readable(d), Begins(d, errorMessage(sent, o).bytes),
         Len(d) < Len(errorMessage(sent, o).bytes),
         NEW old \in [error_msg: Seq(Byte)], Len(old.error_msg) <= MaxText
  PROVE  ~ deserializeErrorMessage(d, old).ok
<1> DEFINE e == errorMessage(sent, o).bytes
           s == deserializeErrorMessage(d, old)
           w == Width["u64"]
           n == Len(ShortText(o.error_msg))
           p == 1 + w
           c == NumberIn(d, 1, w)
<1>1. /\ Len(e) = p + n /\ NumberIn(e, 1, w) = n /\ n \in 0..MaxText
      /\ e \in Seq(Byte) /\ Begins(d, e) /\ Len(d) < Len(e)
  BY ErrorWritten
<1> HIDE DEF e
<1>2. s.ok <=> /\ NumberIn(d, 0, 1) = Version /\ p <= Len(d) /\ c <= MaxText
               /\ p + c <= Len(d)
  BY ErrorMessageIs
<1>3. w \in Nat /\ p \in Nat /\ MaxText \in Nat /\ d \in Seq(Byte) /\ Len(d) \in Nat
  BY WidthType, LimitsType DEF Readable
<1>4. p <= Len(d) => c = n
  BY <1>1, <1>3, BeginsNumber
<1> HIDE DEF s, n, p, c, w
<1>5. ~ s.ok
  BY <1>1, <1>2, <1>3, <1>4
<1> QED
  BY <1>5 DEF s

LEMMA FewerFit ==
  ASSUME NEW a \in Nat, NEW b \in Nat, NEW w \in Nat \ {0}
  PROVE  a * w \in Nat /\ b * w \in Nat /\ (a < b <=> a * w < b * w)
<1>1. ASSUME NEW x \in Nat, NEW y \in Nat, x < y PROVE x * w + w <= y * w
  <2>1. x + 1 \in 1..y /\ (x + 1) - 1 = x
    BY <1>1
  <2> DEFINE i == x + 1
  <2> HIDE DEF i
  <2>2. (i - 1) * w + w <= y * w
    <3>1. i \in 1..y
      BY <2>1 DEF i
    <3>2. /\ (i - 1) * w \in Nat /\ i * w \in Nat /\ y * w \in Nat
          /\ (i - 1) * w + w = i * w /\ i * w <= y * w
      BY <3>1, RowIn
    <3> QED
      BY <3>2
  <2>3. i - 1 = x
    BY <2>1 DEF i
  <2> QED
    BY <2>2, <2>3
<1>2. a * w \in Nat /\ b * w \in Nat
  OBVIOUS
<1>3. a < b \/ a = b \/ b < a
  OBVIOUS
<1>4. CASE a < b
  <2>1. a * w + w <= b * w
    BY <1>1, <1>4
  <2> DEFINE x == a * w
             y == b * w
  <2>2. x \in Nat /\ y \in Nat /\ x + w <= y
    BY <1>2, <2>1
  <2> HIDE DEF x, y
  <2>3. x < y
    BY <2>2
  <2> QED
    BY <1>2, <1>4, <2>3 DEF x, y
<1>5. CASE a = b
  BY <1>2, <1>5
<1>6. CASE b < a
  <2>1. b * w + w <= a * w
    BY <1>1, <1>6
  <2> DEFINE x == a * w
             y == b * w
  <2>2. x \in Nat /\ y \in Nat /\ y + w <= x
    BY <1>2, <2>1
  <2> HIDE DEF x, y
  <2>3. ~ (x < y) /\ ~ (a < b)
    BY <1>6, <2>2
  <2> QED
    BY <1>2, <2>3 DEF x, y
<1> QED
  BY <1>3, <1>4, <1>5, <1>6

\* More joints than limits make a message that is refused.
LEMMA WholeSpecs ==
  ASSUME NEW o \in RobotSpecs, NEW sent, Readable(robotSpecs(sent, o).bytes),
         NEW old \in RobotSpecs
  PROVE  LET d == robotSpecs(sent, o).bytes
             s == deserializeRobotSpecs(d, old)
         IN /\ s.ok <=> o.num_joints <= Len(o.joint_limits)
            /\ s.ok => s.out = [o EXCEPT !.joint_limits
                                  = SubSeq(o.joint_limits, 1, o.num_joints)]
<1> DEFINE d == robotSpecs(sent, o).bytes
           s == deserializeRobotSpecs(d, old)
           n == o.num_joints
           k == Len(o.joint_limits)
           v == [o EXCEPT !.joint_limits = SubSeq(o.joint_limits, 1, n)]
           w == RangeWidth
           b == LimitsStart
           c == JointsIn(d)
<1>1. /\ Len(d) = b + k * w /\ NumberIn(d, 0, 1) = Version
      /\ NumberIn(d, 1, 1) = RobotSpecsType /\ c = n /\ (n <= k => SpecsAt(d) = v)
      /\ Readable(d)
  BY SpecsWritten
<1>2. n \in Nat /\ k \in Nat
  <2>1. n \in Byte /\ o.joint_limits \in Seq(JointLimit)
    BY SpecsAre
  <2>2. k \in Nat
    BY <2>1
  <2> HIDE DEF n
  <2>3. n \in Nat
    BY <2>1, BytesAreNat
  <2> QED
    BY <2>2, <2>3
<1> HIDE DEF d
<1>3. /\ s.ok <=> /\ b <= Len(d) /\ NumberIn(d, 0, 1) = Version
                  /\ NumberIn(d, 1, 1) = RobotSpecsType /\ b + c * w <= Len(d)
      /\ s.ok => s.out = SpecsAt(d)
  BY <1>1, RobotSpecsAre
<1>4. b \in Nat /\ w \in Nat \ {0}
  BY WidthType DEF LimitsStart, RangeWidth
<1> HIDE DEF s, n, k, v, w, b, c
<1>5. n * w \in Nat /\ k * w \in Nat /\ (k < n <=> k * w < n * w)
  BY <1>2, <1>4, FewerFit
<1>6. b <= Len(d) /\ (b + c * w <= Len(d) <=> n <= k)
  <2> DEFINE x == n * w
             y == k * w
  <2>1. x \in Nat /\ y \in Nat /\ (k < n <=> y < x) /\ Len(d) = b + y /\ b + c * w = b + x
    BY <1>1, <1>5
  <2> HIDE DEF x, y
  <2>2. b <= Len(d) /\ (b + x <= Len(d) <=> n <= k)
    BY <1>2, <1>4, <2>1
  <2> QED
    BY <2>1, <2>2
<1>7. s.ok <=> n <= k
  BY <1>1, <1>3, <1>6
<1> QED
  BY <1>1, <1>3, <1>7 DEF s, d, n, k, v

LEMMA PartSpecs ==
  ASSUME NEW o \in RobotSpecs, NEW sent,
         NEW d, Readable(d), Begins(d, robotSpecs(sent, o).bytes),
         Len(d) < Len(robotSpecs(sent, o).bytes), NEW old \in RobotSpecs,
         deserializeRobotSpecs(d, old).ok
  PROVE  o.num_joints < Len(o.joint_limits)
<1> DEFINE e == robotSpecs(sent, o).bytes
           s == deserializeRobotSpecs(d, old)
           n == o.num_joints
           k == Len(o.joint_limits)
           w == RangeWidth
           b == LimitsStart
           c == JointsIn(d)
<1>1. /\ Len(e) = b + k * w /\ JointsIn(e) = n /\ e \in Seq(Byte)
      /\ Begins(d, e) /\ Len(d) < Len(e)
  BY SpecsWritten
<1>2. n \in Nat /\ k \in Nat
  <2>1. n \in Byte /\ o.joint_limits \in Seq(JointLimit)
    BY SpecsAre
  <2>2. k \in Nat
    BY <2>1
  <2> HIDE DEF n
  <2>3. n \in Nat
    BY <2>1, BytesAreNat
  <2> QED
    BY <2>2, <2>3
<1> HIDE DEF e
<1>3. b <= Len(d) /\ b + c * w <= Len(d)
  <2>1. s.ok <=> /\ b <= Len(d) /\ NumberIn(d, 0, 1) = Version
                 /\ NumberIn(d, 1, 1) = RobotSpecsType /\ b + c * w <= Len(d)
    BY RobotSpecsAre
  <2>2. s.ok
    OBVIOUS
  <2> HIDE DEF s
  <2> QED
    BY <2>1, <2>2
<1>4. b \in Nat /\ w \in Nat \ {0} /\ d \in Seq(Byte) /\ Len(d) \in Nat
  BY WidthType DEF LimitsStart, RangeWidth, Readable
<1>5. c = n
  <2>1. 2 + 4 * DoubleWidth \in Nat /\ (2 + 4 * DoubleWidth) + 1 <= Len(d)
    BY <1>3, WidthType DEF LimitsStart
  <2> DEFINE p == 2 + 4 * DoubleWidth
  <2> HIDE DEF p
  <2>2. NumberIn(d, p, 1) = NumberIn(e, p, 1)
    <3>1. p \in Nat /\ p + 1 <= Len(d) /\ 1 \in Nat
      BY <2>1 DEF p
    <3> QED
      BY <1>1, <1>4, <3>1, BeginsNumber
  <2> QED
    BY <1>1, <2>2 DEF JointsIn, p
<1> HIDE DEF s, n, k, w, b, c
<1>6. n * w \in Nat /\ k * w \in Nat /\ (n < k <=> n * w < k * w)
  BY <1>2, <1>4, FewerFit
<1>7. n < k
  <2> DEFINE x == n * w
             y == k * w
  <2>1. x \in Nat /\ y \in Nat /\ (n < k <=> x < y) /\ Len(e) = b + y /\ b + x <= Len(d)
    BY <1>1, <1>3, <1>5, <1>6
  <2> HIDE DEF x, y
  <2> QED
    BY <1>1, <1>4, <2>1
<1> QED
  BY <1>7 DEF n, k

LEMMA WholeStatus ==
  ASSUME NEW o \in StatusMessages(SUBSET Seq(Byte)), NEW sent,
         Readable(statusMessage(sent, o).bytes), NEW old, StatusFine(old)
  PROVE  LET m == statusMessage(sent, o)
             s == deserializeStatusMessage(m.bytes, old)
         IN /\ m.thrown => ~ s.ok
            /\ ~ m.thrown => /\ s.ok /\ s.pos = Len(m.bytes)
                             /\ s.out = [o EXCEPT !.error_msg = SentText(o)]
<1> DEFINE m == statusMessage(sent, o)
           d == m.bytes
           s == deserializeStatusMessage(d, old)
           v == [o EXCEPT !.error_msg = SentText(o)]
<1>1. /\ m.thrown \in BOOLEAN /\ Readable(d)
      /\ m.thrown => Len(d) = StatusCount
      /\ ~ m.thrown => StatusIn(d) /\ StatusEnd(d) = Len(d) /\ StatusAt(d) = v
  BY StatusWritten
<1> HIDE DEF d, m
<1>2. /\ s.ok <=> StatusIn(d)
      /\ s.ok => s.pos = StatusEnd(d) /\ s.out = StatusAt(d)
  BY <1>1, StatusMessageIs
<1> HIDE DEF s, v
<1>3. ASSUME m.thrown PROVE ~ s.ok
  <2>1. Len(d) = StatusCount /\ ~ (StatusCount + 1 <= Len(d))
    BY <1>1, <1>3, StatusStarts
  <2>2. ~ StatusIn(d)
    BY <2>1 DEF StatusIn
  <2> QED
    BY <1>2, <2>2
<1>4. ASSUME ~ m.thrown PROVE s.ok /\ s.pos = Len(d) /\ s.out = v
  BY <1>1, <1>2, <1>4
<1> QED
  BY <1>3, <1>4 DEF s, d, m, v

\* The count of the joints, the flag and the length of the text of a status message
\* that ends early, and so the end it promises.
LEMMA PartStatus ==
  ASSUME NEW o \in StatusMessages(SUBSET Seq(Byte)), NEW sent,
         ~ statusMessage(sent, o).thrown,
         NEW d, Readable(d), Begins(d, statusMessage(sent, o).bytes),
         Len(d) < Len(statusMessage(sent, o).bytes), NEW old, StatusFine(old)
  PROVE  ~ deserializeStatusMessage(d, old).ok
<1> DEFINE m == statusMessage(sent, o)
           e == m.bytes
           s == deserializeStatusMessage(d, old)
<1>1. /\ StatusIn(e) /\ StatusEnd(e) = Len(e) /\ e \in Seq(Byte)
      /\ Begins(d, e) /\ Len(d) < Len(e)
  BY StatusWritten
<1> HIDE DEF e
<1>2. s.ok <=> StatusIn(d)
  BY StatusMessageIs
<1>3. d \in Seq(Byte) /\ Len(d) \in Nat /\ Len(e) \in Nat /\ StatusCount \in Nat
  BY <1>1, StatusStarts DEF Readable
<1> HIDE DEF s
<1>4. ASSUME StatusIn(d) PROVE FALSE
  <2>1. /\ StatusCount + 1 <= Len(d) /\ TextCount(d) <= Len(d)
        /\ FlagIn(d) # 0 => TextStart(d) <= Len(d) /\ StatusEnd(d) <= Len(d)
    BY <1>4 DEF StatusIn
  <2>2. JointCount(d) = JointCount(e)
    <3>1. 1 \in Nat
      OBVIOUS
    <3> QED
      BY <1>1, <1>3, <2>1, <3>1, BeginsNumber DEF JointCount
  <2>3. StatusTail(d) = StatusTail(e) /\ TextCount(d) = TextCount(e)
        /\ TextStart(d) = TextStart(e)
    BY <2>2 DEF StatusTail, TextCount, TextStart
  <2>4. StatusTail(d) \in Nat
    <3> DEFINE n == JointCount(d)
               w == DoubleWidth
    <3>1. n \in Nat /\ w \in Nat
      <4>1. n \in Nat
        BY <1>3, <2>1, NumberInType DEF JointCount
      <4> QED
        BY <4>1, WidthType
    <3> HIDE DEF n, w
    <3>2. n * w \in Nat
      BY <3>1
    <3> DEFINE x == n * w
    <3>3. x \in Nat
      BY <3>2
    <3> HIDE DEF x
    <3>4. (StatusCount + 1) + x \in Nat
      BY <1>3, <3>3
    <3> QED
      BY <3>4 DEF StatusTail, n, w, x
  <2>5. FlagIn(d) = FlagIn(e)
    <3> DEFINE p == StatusTail(d) + 1
    <3>1. p \in Nat /\ p + 1 <= Len(d) /\ 1 \in Nat
      BY <2>1, <2>4 DEF TextCount
    <3> HIDE DEF p
    <3>2. NumberIn(d, p, 1) = NumberIn(e, p, 1)
      BY <1>1, <1>3, <3>1, BeginsNumber
    <3> QED
      BY <2>3, <3>2 DEF FlagIn, p
  <2>6. CASE FlagIn(d) # 0
    <3>1. TextCount(d) \in Nat /\ Width["u64"] \in Nat
      BY <2>4, WidthType DEF TextCount
    <3>2. TextCount(d) + Width["u64"] <= Len(d)
      BY <2>1, <2>6 DEF TextStart
    <3>3. TextLength(d) = TextLength(e)
      BY <1>1, <1>3, <2>3, <3>1, <3>2, BeginsNumber DEF TextLength
    <3>4. StatusEnd(d) = StatusEnd(e)
      BY <2>3, <2>5, <3>3 DEF StatusEnd
    <3> QED
      BY <1>1, <1>3, <2>1, <2>6, <3>4
  <2>7. CASE FlagIn(d) = 0
    <3>1. StatusEnd(e) = TextCount(d)
      BY <2>3, <2>5, <2>7 DEF StatusEnd
    <3> QED
      BY <1>1, <1>3, <2>1, <3>1
  <2> QED
    BY <2>6, <2>7
<1>5. ~ s.ok
  BY <1>2, <1>4
<1> QED
  BY <1>5 DEF s

LEMMA WholeStruct ==
  ASSUME NEW i \in Structs, NEW o \in ObjectTypes[i], NEW old
  PROVE  LET d == StructWritten(i, o)
             s == StructRead(i, d, old)
         IN s.ok /\ s.out = o /\ s.pos = Len(d)
<1> DEFINE d == StructWritten(i, o)
           s == StructRead(i, d, old)
<1>1. d \in Seq(Byte) /\ Len(d) = StructLength(i) /\ StructAt(i, d) = o
  BY StructIsWritten
<1> HIDE DEF d
<1>2. /\ s.ok <=> Len(d) = StructLength(i)
      /\ s.ok => s.pos = Len(d) /\ s.out = StructAt(i, d)
  BY <1>1, StructIs
<1> HIDE DEF s
<1>3. s.ok /\ s.pos = Len(d) /\ s.out = o
  BY <1>1, <1>2
<1> QED
  BY <1>3 DEF s, d

LEMMA PartStruct ==
  ASSUME NEW i \in Structs, NEW o \in ObjectTypes[i], i # "FrameHeader",
         NEW d \in Seq(Byte), Len(d) < Len(StructWritten(i, o)), NEW old
  PROVE  ~ StructRead(i, d, old).ok
<1> DEFINE e == StructWritten(i, o)
           s == StructRead(i, d, old)
<1>1. e \in Seq(Byte) /\ Len(e) = StructLength(i) /\ Len(d) < Len(e)
  BY StructIsWritten
<1> HIDE DEF e
<1>2. s.ok <=> Len(d) = StructLength(i)
  BY StructIs
<1> HIDE DEF s
<1>3. ~ s.ok
  BY <1>1, <1>2
<1> QED
  BY <1>3 DEF s

-----------------------------------------------------------------------------
(***************************************************************************)
(* The session.                                                            *)
(***************************************************************************)
LEMMA EncodedIs ==
  ASSUME NEW i \in Payloads \cup Structs, NEW o \in ObjectTypes[i]
  PROVE  LET m == Encoded(i, <<>>, o)
         IN /\ m.bytes \in Seq(Byte) /\ m.thrown \in BOOLEAN
            /\ i \in Structs => m.bytes = StructWritten(i, o) /\ m.thrown = FALSE
            /\ i = "start" => o \in StartRequests /\ o.kind \in DOMAIN RequestType
<1> DEFINE m == Encoded(i, <<>>, o)
<1>1. CASE i = "start"
  <2>1. o \in StartRequests
    BY <1>1 DEF ObjectTypes
  <2>2. /\ Encoded("start", <<>>, o).bytes \in Seq(Byte)
        /\ Encoded("start", <<>>, o).thrown \in BOOLEAN /\ o.kind \in DOMAIN RequestType
    BY <2>1, StartWritten
  <2> QED
    BY <1>1, <2>1, <2>2 DEF Structs
<1>2. CASE i = "specs"
  <2>1. o \in RobotSpecs /\ m = robotSpecs(<<>>, o)
    BY <1>2 DEF ObjectTypes, Encoded
  <2>2. robotSpecs(<<>>, o).bytes \in Seq(Byte) /\ robotSpecs(<<>>, o).thrown = FALSE
    BY <2>1, SpecsWritten
  <2> QED
    BY <1>2, <2>1, <2>2 DEF Structs
<1>3. CASE i = "update"
  <2>1. o \in [request: Byte] /\ m = moveRequest(<<>>, o)
    BY <1>3 DEF ObjectTypes, Encoded
  <2>2. moveRequest(<<>>, o).bytes \in Seq(Byte) /\ moveRequest(<<>>, o).thrown = FALSE
    BY <2>1, UpdateWritten
  <2> QED
    BY <1>3, <2>1, <2>2 DEF Structs
<1>4. CASE i = "status"
  <2>1. o \in StatusMessages(SUBSET Seq(Byte)) /\ m = statusMessage(<<>>, o)
    BY <1>4 DEF ObjectTypes, Encoded
  <2>2. /\ statusMessage(<<>>, o).bytes \in Seq(Byte)
        /\ statusMessage(<<>>, o).thrown \in BOOLEAN
    BY <2>1, StatusWritten
  <2> QED
    BY <1>4, <2>1, <2>2 DEF Structs
<1>5. CASE i = "error"
  <2>1. o \in [error_msg: Seq(Byte)] /\ m = errorMessage(<<>>, o)
    BY <1>5 DEF ObjectTypes, Encoded
  <2>2. errorMessage(<<>>, o).bytes \in Seq(Byte) /\ errorMessage(<<>>, o).thrown = FALSE
    BY <2>1, ErrorWritten
  <2> QED
    BY <1>5, <2>1, <2>2 DEF Structs
<1>6. CASE i \in Structs
  <2>1. m = Wrote(StructWritten(i, o))
    BY <1>6 DEF Encoded, StructWritten, Structs
  <2> DEFINE d == StructWritten(i, o)
  <2>2. d \in Seq(Byte)
    BY <1>6, StructIsWritten
  <2> HIDE DEF d
  <2>3. m.bytes = d /\ m.thrown = FALSE
    BY <2>1 DEF Wrote, d
  <2>4. i # "start"
    BY <1>6 DEF Structs
  <2> QED
    BY <2>2, <2>3, <2>4 DEF d
<1> QED
  BY <1>1, <1>2, <1>3, <1>4, <1>5, <1>6 DEF Payloads

\* The object o is the one that the buffer is of.
IsGiven(o) ==
  /\ given = <<o>> /\ o \in Objects[interface] /\ interface \in DOMAIN Objects
  /\ buffer = Encoded(interface, <<>>, o).bytes
  /\ thrown = Encoded(interface, <<>>, o).thrown

LEMMA GivenIs ==
  ASSUME NEW o, IsGiven(o)
  PROVE  /\ interface \in Payloads \cup Structs /\ o \in ObjectTypes[interface]
         /\ buffer \in Seq(Byte) /\ thrown \in BOOLEAN
         /\ \A data \in Seq(Byte) : Len(data) <= Len(buffer) + 1 => Readable(data)
         /\ given[1] = o
<1>1. interface \in Payloads \cup Structs /\ o \in ObjectTypes[interface]
  BY CodecBounds DEF IsGiven
<1>2. buffer \in Seq(Byte) /\ thrown \in BOOLEAN
  BY <1>1, EncodedIs DEF IsGiven
<1>3. Len(buffer) + 1 + LongestRead < SizeRange
  BY CodecBounds DEF IsGiven
<1>4. LongestRead \in Nat /\ SizeRange \in Nat
  <2>1. MaxText \in Nat /\ CountWidth \in Nat /\ MaxJoints \in Nat /\ SizeRange \in Nat
    BY LimitsType
  <2>2. Width["u64"] \in Nat /\ Width["f64"] \in Nat
    BY WidthType DEF Types
  <2>3. (MaxJoints + 7) * Width["f64"] \in Nat
    <3> DEFINE a == MaxJoints + 7
               b == Width["f64"]
    <3>1. a \in Nat /\ b \in Nat
      BY <2>1, <2>2
    <3> HIDE DEF a, b
    <3>2. a * b \in Nat
      BY <3>1
    <3> QED
      BY <3>2 DEF a, b
  <2> DEFINE x == (MaxJoints + 7) * Width["f64"]
  <2> HIDE DEF x
  <2>4. MaxText + CountWidth + Width["u64"] + x \in Nat
    BY <2>1, <2>2, <2>3 DEF x
  <2> QED
    BY <2>1, <2>4 DEF LongestRead, x
<1>5. ASSUME NEW data \in Seq(Byte), Len(data) <= Len(buffer) + 1
      PROVE  Readable(data)
  BY <1>2, <1>3, <1>4, <1>5 DEF Readable
<1>6. given[1] = o
  BY DEF IsGiven
<1> QED
  BY <1>1, <1>2, <1>5, <1>6

\* What becomes of the message in the buffer when it arrives that way.
Understood(o, r) ==
  /\ thrown => ~ r.ok
  /\ ~ thrown => IF Complete(o)
                 THEN /\ r.ok /\ r.out = Meaning(o)
                      /\ interface # "specs" => r.pos = Len(buffer)
                 ELSE ~ r.ok

LEMMA WholeArrives ==
  ASSUME Fine(interface, out), NEW o, IsGiven(o)
  PROVE  Understood(o, Decoded(buffer))
<1> DEFINE old == out
           d == buffer
           r == Decoded(buffer)
<1>1. /\ interface \in Payloads \cup Structs /\ o \in ObjectTypes[interface]
      /\ d \in Seq(Byte) /\ thrown \in BOOLEAN
  BY GivenIs
<1>2. Readable(d)
  BY <1>1, GivenIs
<1>3. d = Encoded(interface, <<>>, o).bytes /\ thrown = Encoded(interface, <<>>, o).thrown
  BY DEF IsGiven
<1>4. CASE interface = "start"
  <2>1. /\ r = deserialize(d, old) /\ Meaning(o) = o /\ Complete(o)
        /\ o \in StartRequests
    BY <1>1, <1>4 DEF Decoded, Meaning, Complete, ObjectTypes
  <2>2. d = Encoded("start", <<>>, o).bytes /\ thrown = Encoded("start", <<>>, o).thrown
    BY <1>3, <1>4
  <2> HIDE DEF d, old, r
  <2>3. /\ thrown => d = <<>>
        /\ ~ thrown => StartMessage(o.kind, d, o)
    BY <2>1, <2>2, StartWritten
  <2>4. ASSUME thrown PROVE ~ r.ok
    <3>1. ~ (2 <= Len(d))
      BY <2>3, <2>4
    <3>2. deserialize(d, old).ok => 2 <= Len(d)
      BY <1>2, StartAccepted
    <3> QED
      BY <2>1, <3>1, <3>2
  <2>5. ASSUME ~ thrown PROVE r.ok /\ r.out = o /\ r.pos = Len(d)
    <3>1. StartMessage(o.kind, d, o)
      BY <2>3, <2>5
    <3> QED
      BY <1>2, <2>1, <3>1, WholeStart
  <2> QED
    BY <1>4, <2>1, <2>4, <2>5 DEF Understood, r, d
<1>5. CASE interface = "specs"
  <2> DEFINE v == [o EXCEPT !.joint_limits = SubSeq(o.joint_limits, 1, o.num_joints)]
  <2>1. /\ r = deserializeRobotSpecs(d, old) /\ Meaning(o) = v
        /\ (Complete(o) <=> o.num_joints <= Len(o.joint_limits)) /\ o \in RobotSpecs
    BY <1>1, <1>5 DEF Decoded, Meaning, Complete, ObjectTypes
  <2>2. d = robotSpecs(<<>>, o).bytes /\ thrown = robotSpecs(<<>>, o).thrown
    BY <1>3, <1>5 DEF Encoded
  <2>3. old \in RobotSpecs
    BY <1>5, FineIn
  <2> HIDE DEF d, old, r
  <2>4. thrown = FALSE
    BY <2>1, <2>2, SpecsWritten
  <2> DEFINE e == robotSpecs(<<>>, o).bytes
             q == deserializeRobotSpecs(e, old)
  <2>e. Readable(e) /\ r = q
    BY <1>2, <2>1, <2>2 DEF d
  <2>f. q.ok <=> o.num_joints <= Len(o.joint_limits)
    BY <2>1, <2>3, <2>e, WholeSpecs
  <2>g. q.ok => q.out = v
    BY <2>1, <2>3, <2>e, WholeSpecs, ZenonT(40)
  <2> HIDE DEF v, e, q
  <2>5. /\ r.ok <=> o.num_joints <= Len(o.joint_limits)
        /\ r.ok => r.out = v
    BY <2>e, <2>f, <2>g
  <2> QED
    BY <1>5, <2>1, <2>4, <2>5 DEF Understood, r, d
<1>6. CASE interface = "update"
  <2>1. /\ r = deserializeMoveRequest(d, old) /\ Meaning(o) = o /\ Complete(o)
        /\ o \in [request: Byte]
    BY <1>1, <1>6 DEF Decoded, Meaning, Complete, ObjectTypes
  <2>2. d = moveRequest(<<>>, o).bytes /\ thrown = moveRequest(<<>>, o).thrown
    BY <1>3, <1>6 DEF Encoded
  <2>3. old \in [request: Byte]
    BY <1>6, FineIn
  <2> HIDE DEF d, old, r
  <2>4. thrown = FALSE
    BY <2>1, <2>2, UpdateWritten
  <2>5. r.ok /\ r.out = o /\ r.pos = Len(d)
    BY <1>2, <2>1, <2>2, <2>3, WholeUpdate
  <2> QED
    BY <1>6, <2>1, <2>4, <2>5 DEF Understood, r, d
<1>7. CASE interface = "status"
  <2> DEFINE v == [o EXCEPT !.error_msg = SentText(o)]
  <2>1. /\ r = deserializeStatusMessage(d, old) /\ Complete(o)
        /\ o \in StatusMessages(SUBSET Seq(Byte))
    BY <1>1, <1>7 DEF Decoded, Complete, ObjectTypes
  <2>2. d = statusMessage(<<>>, o).bytes /\ thrown = statusMessage(<<>>, o).thrown
    BY <1>3, <1>7 DEF Encoded
  <2>3. StatusFine(old)
    BY <1>7, FineIn
  <2>4. Meaning(o) = v
    BY <1>7 DEF Meaning, SentText
  <2> HIDE DEF d, old, r
  <2>5. /\ thrown => ~ r.ok
        /\ ~ thrown => r.ok /\ r.pos = Len(d) /\ r.out = v
    BY <1>2, <2>1, <2>2, <2>3, WholeStatus
  <2> HIDE DEF v
  <2> QED
    BY <1>7, <2>1, <2>4, <2>5 DEF Understood, r, d
<1>8. CASE interface = "error"
  <2>1. /\ r = deserializeErrorMessage(d, old) /\ Complete(o)
        /\ Meaning(o) = [error_msg |-> ShortText(o.error_msg)]
        /\ o \in [error_msg: Seq(Byte)]
    BY <1>1, <1>8 DEF Decoded, Complete, ObjectTypes, Meaning
  <2>2. d = errorMessage(<<>>, o).bytes /\ thrown = errorMessage(<<>>, o).thrown
    BY <1>3, <1>8 DEF Encoded
  <2>3. old \in [error_msg: Seq(Byte)] /\ Len(old.error_msg) <= MaxText
    BY <1>8, FineIn
  <2> HIDE DEF d, old, r
  <2>4. thrown = FALSE
    BY <2>1, <2>2, ErrorWritten
  <2>5. r.ok /\ r.out = [error_msg |-> ShortText(o.error_msg)] /\ r.pos = Len(d)
    BY <1>2, <2>1, <2>2, <2>3, WholeError
  <2> QED
    BY <1>8, <2>1, <2>4, <2>5 DEF Understood, r, d
<1>9. CASE interface \in Structs
  <2> DEFINE i == interface
  <2>1. /\ r = StructRead(i, d, old) /\ Meaning(o) = o /\ Complete(o)
        /\ i \in Structs /\ o \in ObjectTypes[i]
    BY <1>1, <1>9 DEF Decoded, StructRead, Structs, Meaning, Complete
  <2>2. d = StructWritten(i, o) /\ thrown = FALSE
    BY <1>1, <1>3, <1>9, EncodedIs
  <2> HIDE DEF d, old, r, i
  <2>3. r.ok /\ r.out = o /\ r.pos = Len(d)
    BY <2>1, <2>2, WholeStruct
  <2> QED
    BY <1>9, <2>1, <2>2, <2>3 DEF Understood, r, d
<1> QED
  BY <1>1, <1>4, <1>5, <1>6, <1>7, <1>8, <1>9 DEF Payloads

LEMMA PartArrives ==
  ASSUME Fine(interface, out), NEW o, IsGiven(o), ~ thrown, interface # "FrameHeader",
         NEW data \in Seq(Byte), Begins(data, buffer), Len(data) < Len(buffer),
         Decoded(data).ok
  PROVE  interface = "specs" /\ o.num_joints < Len(o.joint_limits)
<1> DEFINE old == out
           d == buffer
           r == Decoded(data)
<1>1. /\ interface \in Payloads \cup Structs /\ o \in ObjectTypes[interface]
      /\ d \in Seq(Byte) /\ thrown \in BOOLEAN
  BY GivenIs
<1>2. Readable(d) /\ Readable(data)
  BY <1>1, GivenIs
<1>3. d = Encoded(interface, <<>>, o).bytes /\ ~ Encoded(interface, <<>>, o).thrown
  BY DEF IsGiven
<1>4. interface # "start"
  <2> SUFFICES ASSUME interface = "start" PROVE FALSE
    OBVIOUS
  <2>1. deserialize(data, old).ok /\ o \in StartRequests
    BY <1>1 DEF Decoded, ObjectTypes
  <2>2. d = Encoded("start", <<>>, o).bytes /\ ~ Encoded("start", <<>>, o).thrown
    BY <1>3
  <2>3. Begins(data, d) /\ Len(data) < Len(d)
    OBVIOUS
  <2> HIDE DEF d, old
  <2>4. StartMessage(o.kind, d, o)
    BY <2>1, <2>2, StartWritten
  <2> QED
    BY <1>1, <1>2, <2>1, <2>3, <2>4, PartStart
<1>5. interface # "update"
  <2> SUFFICES ASSUME interface = "update" PROVE FALSE
    OBVIOUS
  <2>1. deserializeMoveRequest(data, old).ok /\ o \in [request: Byte]
    BY <1>1 DEF Decoded, ObjectTypes
  <2>2. d = moveRequest(<<>>, o).bytes
    BY <1>3 DEF Encoded
  <2>3. old \in [request: Byte] /\ Len(data) < Len(d)
    BY FineIn
  <2> HIDE DEF d, old
  <2>4. Len(d) = 2
    BY <2>1, <2>2, UpdateWritten
  <2> QED
    BY <1>2, <2>1, <2>3, <2>4, PartUpdate
<1>6. interface # "status"
  <2> SUFFICES ASSUME interface = "status" PROVE FALSE
    OBVIOUS
  <2>1. deserializeStatusMessage(data, old).ok /\ o \in StatusMessages(SUBSET Seq(Byte))
    BY <1>1 DEF Decoded, ObjectTypes
  <2>2. d = statusMessage(<<>>, o).bytes /\ ~ statusMessage(<<>>, o).thrown
    BY <1>3 DEF Encoded
  <2>3. StatusFine(old) /\ Begins(data, d) /\ Len(data) < Len(d)
    BY FineIn
  <2> HIDE DEF d, old
  <2> QED
    BY <1>2, <2>1, <2>2, <2>3, PartStatus
<1>7. interface # "error"
  <2> SUFFICES ASSUME interface = "error" PROVE FALSE
    OBVIOUS
  <2>1. deserializeErrorMessage(data, old).ok /\ o \in [error_msg: Seq(Byte)]
    BY <1>1 DEF Decoded, ObjectTypes
  <2>2. d = errorMessage(<<>>, o).bytes
    BY <1>3 DEF Encoded
  <2>3. /\ old \in [error_msg: Seq(Byte)] /\ Len(old.error_msg) <= MaxText
        /\ Begins(data, d) /\ Len(data) < Len(d)
    BY FineIn
  <2> HIDE DEF d, old
  <2> QED
    BY <1>2, <2>1, <2>2, <2>3, PartError
<1>8. interface \notin Structs
  <2> SUFFICES ASSUME interface \in Structs PROVE FALSE
    OBVIOUS
  <2> DEFINE i == interface
  <2>1. StructRead(i, data, old).ok /\ i \in Structs /\ o \in ObjectTypes[i]
    BY <1>1 DEF Decoded, StructRead, Structs
  <2>2. d = StructWritten(i, o)
    BY <1>1, <1>3, EncodedIs
  <2>3. Len(data) < Len(d) /\ i # "FrameHeader"
    OBVIOUS
  <2> HIDE DEF d, old, i
  <2> QED
    BY <2>1, <2>2, <2>3, PartStruct
<1>9. interface = "specs"
  BY <1>1, <1>4, <1>5, <1>6, <1>7, <1>8 DEF Payloads
<1>10. o.num_joints < Len(o.joint_limits)
  <2>1. deserializeRobotSpecs(data, old).ok /\ o \in RobotSpecs
    BY <1>1, <1>9 DEF Decoded, ObjectTypes
  <2>2. d = robotSpecs(<<>>, o).bytes
    BY <1>3, <1>9 DEF Encoded
  <2>3. old \in RobotSpecs /\ Begins(data, d) /\ Len(data) < Len(d)
    BY <1>9, FineIn
  <2> HIDE DEF d, old
  <2> QED
    BY <1>2, <2>1, <2>2, <2>3, PartSpecs
<1> QED
  BY <1>9, <1>10

LEMMA AcceptedArrives ==
  ASSUME interface = "start", NEW data, Readable(data), Decoded(data).ok
  PROVE  LET r == Decoded(data)
             m == Encoded("start", <<>>, r.out)
         IN ~ m.thrown /\ Len(m.bytes) = r.pos
<1> DEFINE old == out
<1>1. Decoded(data) = deserialize(data, old)
  BY DEF Decoded
<1> HIDE DEF old
<1> DEFINE s == deserialize(data, old)
           m == Encoded("start", <<>>, s.out)
<1>2. ~ m.thrown /\ Len(m.bytes) = s.pos
  BY <1>1, AcceptedStart
<1> QED
  BY <1>1, <1>2

-----------------------------------------------------------------------------
(***************************************************************************)
(* The inductive invariant.                                                *)
(***************************************************************************)
\* The buffer holds the message of the object that was given, as it would be in a
\* buffer never used before.
CodecGiven ==
  \/ given = <<>> /\ buffer = <<>> /\ thrown = FALSE /\ last = NotRead
  \/ \E o \in Objects[interface] : IsGiven(o)

CodecInv ==
  /\ CodecTypeOK
  /\ CodecGiven
  /\ WholeIsUnderstood
  /\ PartIsRefused
  /\ ThrownIsRefused
  /\ ReadsInside
  /\ AcceptedCouldBeSent

\* What the type invariant says besides the deserializer's object.
Steady ==
  /\ interface \in DOMAIN Objects
  /\ buffer \in Seq(Byte)
  /\ thrown \in BOOLEAN
  /\ reads \in 0..MaxReads /\ damaged \in 0..MaxDamaged

LastFine ==
  last \in [how: Ways \cup {"none"}, ok: BOOLEAN, pos: Nat, inside: BOOLEAN]

LEMMA TypeIs == CodecTypeOK <=> Steady /\ LastFine /\ Fine(interface, out)
  BY DEF CodecTypeOK, Steady, LastFine, Fine

LEMMA NotReadIs ==
  ASSUME last = NotRead
  PROVE  /\ LastFine /\ WholeIsUnderstood /\ PartIsRefused /\ ThrownIsRefused /\ ReadsInside
         /\ AcceptedCouldBeSent
  BY DEF NotRead, LastFine, WholeIsUnderstood, PartIsRefused, ThrownIsRefused, ReadsInside,
     AcceptedCouldBeSent, Ways

LEMMA FreshIsFine ==
  ASSUME NEW i \in Payloads \cup Structs
  PROVE  Fine(i, Fresh(i))
<1>1. ZeroPose \in Pose /\ 0 \in Double /\ 0 \in Byte
  BY ZeroPoseType
<1>2. 0 \in Number("u64")
  <2>1. Width["u64"] \in Nat
    BY WidthType DEF Types
  <2>2. Power(Width["u64"]) \in Nat \ {0}
    BY <2>1, PowerNext
  <2> QED
    BY <2>2 DEF Number
<1>3. MaxJoints \in Nat /\ MaxText \in Nat
  BY LimitsType
<1>4. CASE i = "start"
  <2> DEFINE b == Blank("MoveJoint")
  <2>1. b = [kind |-> "MoveJoint", joint_targets |-> <<>>, speed |-> 0, acceleration |-> 0]
    BY DEF Blank
  <2> DEFINE S == [kind: {"MoveJoint"}, joint_targets: Seq(Double), speed: Double,
                   acceleration: Double]
  <2> HIDE DEF b
  <2>a. b \in S
    <3>1. <<>> \in Seq(Double)
      OBVIOUS
    <3> QED
      BY <1>1, <2>1, <3>1
  <2>b. S \subseteq StartRequests
    BY DEF StartRequests
  <2> HIDE DEF S
  <2>2. b \in StartRequests /\ b.kind = "MoveJoint" /\ Len(b.joint_targets) = 0
    BY <2>1, <2>a, <2>b
  <2>3. Fresh(i) = b
    BY <1>4 DEF Fresh, Structs, b
  <2>4. Received(i) = StartRequests
    BY <1>4 DEF Received, ObjectTypes, Structs
  <2> HIDE DEF b
  <2> QED
    BY <1>3, <1>4, <2>2, <2>3, <2>4 DEF Fine
<1>5. CASE i = "specs"
  <2>1. Fresh(i) \in RobotSpecs
    BY <1>1, <1>5 DEF Fresh, Structs, RobotSpecs
  <2> QED
    BY <1>5, <2>1, FineIn
<1>6. CASE i = "update"
  <2>1. Fresh(i) \in [request: Byte]
    BY <1>1, <1>6 DEF Fresh, Structs
  <2> QED
    BY <1>6, <2>1, FineIn
<1>7. CASE i = "status"
  <2> DEFINE b == Fresh("status")
  <2>1. b = [timestamp_us |-> 0, base_pose |-> ZeroPose, flange_pose |-> ZeroPose,
             end_effector_pose |-> ZeroPose, joint_positions |-> <<>>, status |-> 0,
             error_msg |-> <<>>]
    BY DEF Fresh, Structs
  <2>2. b \in StatusMessages(Seq(Byte))
    <3>1. <<>> \in Seq(Double) /\ <<>> \in Seq(Byte)
      OBVIOUS
    <3> HIDE DEF b
    <3> QED
      BY <1>1, <1>2, <2>1, <3>1 DEF StatusMessages
  <2>3. Len(b.joint_positions) = 0 /\ Len(b.error_msg) = 0
    BY <2>1
  <2> HIDE DEF b
  <2>4. StatusFine(b)
    BY <1>3, <2>2, <2>3 DEF StatusFine
  <2> QED
    BY <1>7, <2>4, FineIn DEF b
<1>8. CASE i = "error"
  <2>1. /\ Fresh(i) \in [error_msg: Seq(Byte)]
        /\ Len(Fresh(i).error_msg) <= MaxText
    BY <1>3, <1>8 DEF Fresh, Structs
  <2> QED
    BY <1>8, <2>1, FineIn
<1>9. CASE i \in Structs
  <2>1. Fresh(i) = <<>>
    BY <1>9 DEF Fresh, Structs
  <2> QED
    BY <1>9, <2>1, FineIn
<1> QED
  BY <1>4, <1>5, <1>6, <1>7, <1>8, <1>9 DEF Payloads

LEMMA CodecInitInv == CodecInit => CodecInv
<1> SUFFICES ASSUME CodecInit PROVE CodecInv
  OBVIOUS
<1>1. interface \in Payloads \cup Structs /\ interface \in DOMAIN Objects
  BY CodecBounds DEF CodecInit
<1>2. Fine(interface, out)
  BY <1>1, FreshIsFine DEF CodecInit
<1>3. last = NotRead
  BY DEF CodecInit
<1>4. Steady
  <2>1. MaxReads \in Nat /\ MaxDamaged \in Nat
    BY CodecBounds
  <2>2. buffer = <<>> /\ thrown = FALSE /\ reads = 0 /\ damaged = 0
    BY DEF CodecInit
  <2>2a. <<>> \in Seq(Byte)
    OBVIOUS
  <2>2b. buffer \in Seq(Byte)
    BY <2>2, <2>2a
  <2>2c. thrown \in BOOLEAN
    BY <2>2
  <2>3. buffer \in Seq(Byte) /\ thrown \in BOOLEAN
    BY <2>2b, <2>2c
  <2>4. reads \in 0..MaxReads /\ damaged \in 0..MaxDamaged
    BY <2>1, <2>2
  <2> QED
    BY <1>1, <2>3, <2>4 DEF Steady
<1>5. CodecGiven
  BY DEF CodecInit, CodecGiven
<1> QED
  BY <1>2, <1>3, <1>4, <1>5, TypeIs, NotReadIs DEF CodecInv

LEMMA SerializeInv ==
  ASSUME CodecInv, NEW o \in Objects[interface], Serialize(o)
  PROVE  CodecInv'
<1>1. Steady /\ Fine(interface, out)
  BY TypeIs DEF CodecInv
<1>2. interface \in Payloads \cup Structs /\ interface \in DOMAIN Objects
      /\ o \in ObjectTypes[interface]
  BY <1>1, CodecBounds DEF Steady
<1> DEFINE m == Encoded(interface, <<>>, o)
<1>3. /\ m.bytes \in Seq(Byte) /\ m.thrown \in BOOLEAN
      /\ interface = "start" => o.kind \in DOMAIN RequestType
  BY <1>2, EncodedIs
<1>4. Encoded(interface, buffer, o) = m
  BY <1>2, <1>3, EncodedClears
<1> HIDE DEF m
<1>5. /\ buffer' = m.bytes /\ thrown' = m.thrown /\ given' = <<o>> /\ last' = NotRead
      /\ UNCHANGED <<interface, out, reads, damaged>>
  BY <1>4 DEF Serialize
<1>6. IsGiven(o)'
  BY <1>2, <1>5 DEF IsGiven, m
<1>7. CodecGiven'
  BY <1>5, <1>6 DEF CodecGiven
<1>8. Steady'
  BY <1>1, <1>3, <1>5 DEF Steady
<1>9. LastFine'
  BY <1>5 DEF LastFine, NotRead, Ways
<1>10. Fine(interface, out)'
  BY <1>1, <1>5
<1>11. CodecTypeOK'
  BY <1>8, <1>9, <1>10 DEF CodecTypeOK, Steady, LastFine, Fine
<1>12. (/\ WholeIsUnderstood /\ PartIsRefused /\ ThrownIsRefused /\ ReadsInside
        /\ AcceptedCouldBeSent)'
  BY <1>5 DEF NotRead, WholeIsUnderstood, PartIsRefused, ThrownIsRefused, ReadsInside,
     AcceptedCouldBeSent
<1> QED
  BY <1>7, <1>11, <1>12 DEF CodecInv

\* The message data, of the object o and come in that way, has been deserialized.
Taken(o, way, data) ==
  /\ IsGiven(o) /\ Readable(data)
  /\ Kept(interface, Decoded(data), out)
  /\ way = "whole" => data = buffer
  /\ way = "part" => /\ ~ thrown /\ interface # "FrameHeader"
                     /\ Begins(data, buffer) /\ Len(data) < Len(buffer)
  /\ Deserialize(data, way)

LEMMA ReceiveIs ==
  ASSUME CodecInv, Receive
  PROVE  /\ \E o \in Objects[interface] : \E way \in Ways : \E data \in Seq(Byte) :
              Taken(o, way, data)
         /\ reads' \in 0..MaxReads /\ damaged' \in 0..MaxDamaged
<1>1. Steady /\ Fine(interface, out)
  BY TypeIs DEF CodecInv
<1>2. PICK o \in Objects[interface] : IsGiven(o)
  BY DEF CodecInv, CodecGiven, Receive
<1>3. PICK way \in Ways : /\ way # "whole" => ~ thrown /\ damaged < MaxDamaged
                          /\ damaged' = damaged + (IF way = "whole" THEN 0 ELSE 1)
                          /\ \E data \in Arrived(way) : Deserialize(data, way)
  BY DEF Receive
<1>4. PICK data \in Arrived(way) : Deserialize(data, way)
  BY <1>3
<1>5. /\ data \in Seq(Byte) /\ Len(data) <= Len(buffer) + 1
      /\ way = "whole" => data = buffer
      /\ way = "part" => Begins(data, buffer) /\ Len(data) < Len(buffer)
      /\ interface = "FrameHeader" => Len(data) = Len(buffer)
  BY <1>1, ArrivedIs DEF Steady
<1>6. /\ interface \in Payloads \cup Structs /\ o \in ObjectTypes[interface]
      /\ Readable(data)
  BY <1>2, <1>5, GivenIs
<1>7. ASSUME interface = "FrameHeader" PROVE Len(data) = StructLength("FrameHeader")
  <2>1. interface \in Structs
    BY <1>7 DEF Structs
  <2>2. buffer = StructWritten(interface, o)
    BY <1>2, <1>6, <2>1, EncodedIs DEF IsGiven
  <2>3. Len(buffer) = StructLength(interface)
    BY <1>6, <2>1, <2>2, StructIsWritten
  <2> QED
    BY <1>5, <1>7, <2>3
<1>8. Kept(interface, Decoded(data), out)
  BY <1>1, <1>6, <1>7, DecodedIs
<1>9. way = "part" => interface # "FrameHeader"
  BY <1>4 DEF Arrived
<1>10. Taken(o, way, data)
  BY <1>2, <1>3, <1>4, <1>5, <1>6, <1>8, <1>9 DEF Taken
<1>11. reads' \in 0..MaxReads /\ damaged' \in 0..MaxDamaged
  <2>1. MaxReads \in Nat /\ MaxDamaged \in Nat
    BY CodecBounds
  <2>2. reads \in 0..MaxReads /\ damaged \in 0..MaxDamaged
    BY <1>1 DEF Steady
  <2>3. reads' = reads + 1 /\ reads < MaxReads
    BY <1>4 DEF Deserialize, Receive
  <2> QED
    BY <1>3, <2>1, <2>2, <2>3
<1> QED
  BY <1>5, <1>10, <1>11

LEMMA SameMeaning ==
  ASSUME interface' = interface, given' = given
  PROVE  /\ Meaning(given[1])' = Meaning(given[1])
         /\ Complete(given[1])' <=> Complete(given[1])
<1>1. Meaning(given[1])' = Meaning(given[1])
  BY DEF Meaning
<1>2. Complete(given[1])' <=> Complete(given[1])
  BY DEF Complete
<1> QED
  BY <1>1, <1>2

LEMMA ReceiveInv ==
  ASSUME CodecInv, Receive
  PROVE  CodecInv'
<1>1. Steady /\ Fine(interface, out)
  BY TypeIs DEF CodecInv
<1>2. reads' \in 0..MaxReads /\ damaged' \in 0..MaxDamaged
  BY ReceiveIs
<1>3. PICK o \in Objects[interface] : \E w \in Ways : \E e \in Seq(Byte) : Taken(o, w, e)
  BY ReceiveIs
<1>4. PICK way \in Ways, data \in Seq(Byte) : Taken(o, way, data)
  BY <1>3
<1> DEFINE r == Decoded(data)
<1>5. /\ out' = r.out
      /\ last' = [how |-> way, ok |-> r.ok, pos |-> r.pos, inside |-> r.inside]
      /\ UNCHANGED <<interface, buffer, given, thrown>>
  BY <1>4 DEF Taken, Deserialize
<1>6. /\ IsGiven(o) /\ Readable(data) /\ Kept(interface, r, out) /\ given[1] = o
      /\ way = "whole" => data = buffer
  BY <1>4, GivenIs DEF Taken
<1>7. way = "whole" => Understood(o, r)
  BY <1>1, <1>6, WholeArrives
<1>8. way = "part" /\ r.ok => interface = "specs" /\ o.num_joints < Len(o.joint_limits)
  BY <1>1, <1>4, PartArrives DEF Taken
<1>9. interface = "start" /\ r.ok =>
        ~ Encoded("start", <<>>, r.out).thrown /\ Len(Encoded("start", <<>>, r.out).bytes) = r.pos
  BY <1>6, AcceptedArrives
<1>10. /\ Meaning(given[1])' = Meaning(o)
       /\ Complete(given[1])' <=> Complete(o)
       /\ given[1]' = o
  BY <1>5, <1>6, SameMeaning
<1>11. /\ r.ok \in BOOLEAN /\ r.pos \in Nat /\ r.inside = TRUE /\ Fine(interface, r.out)
  BY <1>6 DEF Kept
<1> HIDE DEF r
<1>12. CodecGiven'
  <2>1. IsGiven(o)'
    BY <1>5, <1>6 DEF IsGiven
  <2> QED
    BY <1>5, <2>1 DEF CodecGiven
<1>13. CodecTypeOK'
  <2>1. Steady'
    BY <1>1, <1>2, <1>5 DEF Steady
  <2>2. LastFine'
    BY <1>5, <1>11 DEF LastFine
  <2>3. Fine(interface, out)'
    BY <1>5, <1>11
  <2> QED
    BY <2>1, <2>2, <2>3 DEF CodecTypeOK, Steady, LastFine, Fine
<1>14. WholeIsUnderstood'
  BY <1>5, <1>7, <1>10 DEF WholeIsUnderstood, Understood
<1>15. PartIsRefused'
  BY <1>5, <1>8, <1>10 DEF PartIsRefused
<1>16. ThrownIsRefused'
  BY <1>5, <1>7 DEF ThrownIsRefused, Understood
<1>17. ReadsInside'
  BY <1>5, <1>11 DEF ReadsInside
<1>18. AcceptedCouldBeSent'
  BY <1>5, <1>9 DEF AcceptedCouldBeSent
<1> QED
  BY <1>12, <1>13, <1>14, <1>15, <1>16, <1>17, <1>18 DEF CodecInv

LEMMA CodecStutter ==
  ASSUME CodecInv, UNCHANGED codecVars
  PROVE  CodecInv'
<1>1. UNCHANGED <<interface, buffer, given, thrown, out, last, reads, damaged>>
  BY DEF codecVars
<1>2. CodecTypeOK'
  BY <1>1 DEF CodecInv, CodecTypeOK
<1>3. CodecGiven'
  BY <1>1 DEF CodecInv, CodecGiven, IsGiven
<1>4. /\ Meaning(given[1])' = Meaning(given[1])
      /\ Complete(given[1])' <=> Complete(given[1])
  BY <1>1, SameMeaning
<1>5. WholeIsUnderstood'
  BY <1>1, <1>4 DEF CodecInv, WholeIsUnderstood, Documented
<1>6. (PartIsRefused /\ ThrownIsRefused /\ ReadsInside /\ AcceptedCouldBeSent)'
  BY <1>1 DEF CodecInv, PartIsRefused, ThrownIsRefused, ReadsInside, AcceptedCouldBeSent
<1> QED
  BY <1>2, <1>3, <1>5, <1>6 DEF CodecInv

-----------------------------------------------------------------------------
(***************************************************************************)
(* The theorems.                                                           *)
(***************************************************************************)
\* Whatever is sent and however it arrives: the inductive invariant of a session of
\* the codec (messages.cpp, message_types.h, rpc_transport.cpp).
THEOREM CodecInvariant == CodecSpec => []CodecInv
<1>1. CodecInit => CodecInv
  BY CodecInitInv
<1>2. CodecInv /\ [CodecNext]_codecVars => CodecInv'
  <2> SUFFICES ASSUME CodecInv, [CodecNext]_codecVars PROVE CodecInv'
    OBVIOUS
  <2>1. CASE \E o \in Objects[interface] : Serialize(o)
    BY <2>1, SerializeInv
  <2>2. CASE Receive
    BY <2>2, ReceiveInv
  <2>3. CASE UNCHANGED codecVars
    BY <2>3, CodecStutter
  <2> QED
    BY <2>1, <2>2, <2>3 DEF CodecNext
<1> QED
  BY <1>1, <1>2, PTL DEF CodecSpec

\* What a deserializer leaves in its object has the object's type and limits, after
\* whole, cut, longer and changed messages alike.
THEOREM CodecTypeCorrect == CodecSpec => []CodecTypeOK
<1>1. CodecInv => CodecTypeOK
  BY DEF CodecInv
<1> QED
  BY <1>1, CodecInvariant, PTL

\* A whole message of a documented type makes of the deserializer's object what was sent.
THEOREM CodecUnderstands == CodecSpec => []WholeIsUnderstood
<1>1. CodecInv => WholeIsUnderstood
  BY DEF CodecInv
<1> QED
  BY <1>1, CodecInvariant, PTL

\* A message that ends early is refused.
THEOREM CodecRefusesParts == CodecSpec => []PartIsRefused
<1>1. CodecInv => PartIsRefused
  BY DEF CodecInv
<1> QED
  BY <1>1, CodecInvariant, PTL

\* What a serializer that throws leaves in the buffer is refused.
THEOREM CodecRefusesThrown == CodecSpec => []ThrownIsRefused
<1>1. CodecInv => ThrownIsRefused
  BY DEF CodecInv
<1> QED
  BY <1>1, CodecInvariant, PTL

\* No read goes past the end of the message, with readBytes' sums those of size_t.
THEOREM CodecReadsInside == CodecSpec => []ReadsInside
<1>1. CodecInv => ReadsInside
  BY DEF CodecInv
<1> QED
  BY <1>1, CodecInvariant, PTL

\* An accepted start request is one that a client could have sent.
THEOREM CodecAcceptsSent == CodecSpec => []AcceptedCouldBeSent
<1>1. CodecInv => AcceptedCouldBeSent
  BY DEF CodecInv
<1> QED
  BY <1>1, CodecInvariant, PTL

\* deserialize and the structs' functions fill a local object and assign it last: a
\* refused request leaves the caller's as it was.
THEOREM CodecKeepsOld == CodecSpec => RefusedRequestKeepsOld
<1> DEFINE Keeps == reads' # reads /\ ~ last'.ok /\ interface \notin {"specs", "status", "error"}
                      => out' = out
<1>1. CodecInv /\ [CodecNext]_codecVars => [Keeps]_codecVars
  <2> SUFFICES ASSUME CodecInv, CodecNext PROVE Keeps
    OBVIOUS
  <2>1. ASSUME NEW o \in Objects[interface], Serialize(o) PROVE Keeps
    BY <2>1 DEF Serialize
  <2>2. ASSUME Receive PROVE Keeps
    <3>1. PICK o \in Objects[interface], way \in Ways, data \in Seq(Byte) : Taken(o, way, data)
      BY <2>2, ReceiveIs
    <3> DEFINE r == Decoded(data)
    <3>2. Kept(interface, r, out) /\ out' = r.out /\ last'.ok = r.ok
      BY <3>1 DEF Taken, Deserialize
    <3> HIDE DEF r
    <3> QED
      BY <3>2 DEF Kept
  <2> QED
    BY <2>1, <2>2 DEF CodecNext
<1> QED
  BY <1>1, CodecInvariant, PTL DEF CodecSpec, RefusedRequestKeepsOld
=============================================================================
