----------------------------- MODULE ByteBuffer -----------------------------
(***************************************************************************)
(* Bytes of the wire: what serialization_helper.h appends to a buffer, its *)
(* BufferReader, and the byte order of the RPC layer.                      *)
(*                                                                         *)
(* A value of a C++ type is a number below a power of Base; a double is    *)
(* the number that its bytes make, since nothing here looks into it.       *)
(***************************************************************************)
EXTENDS Integers, Sequences, SequencesExt

CONSTANTS
  Base,     \* values of a byte, 256
  Width     \* bytes of each type

Types == {"u8", "u32", "u64", "f64"}

ASSUME ByteAssumption ==
  /\ Base \in Nat /\ Base > 1
  /\ Width \in [Types -> Nat \ {0}] /\ Width["u8"] = 1

Byte == 0..(Base - 1)

\* Powers of Base, and the values of a type, the last being those of size_t.
Power(n) == LET p[i \in 0..n] == IF i = 0 THEN 1 ELSE Base * p[i - 1] IN p[n]
Number(type) == 0..(Power(Width[type]) - 1)
SizeRange == Power(Width["u64"])

\* The memory of a value, which push copies: the machine is little-endian.
BytesOf(width, v) == [i \in 1..width |-> (v \div Power(i - 1)) % Base]
NumberOf(bytes) ==
  LET n[i \in 0..Len(bytes)] ==
        IF i = 0 THEN 0 ELSE n[i - 1] + bytes[i] * Power(i - 1)
  IN n[Len(bytes)]

\* n bytes of data after the first p, and the number that they make.
Window(data, p, n) == SubSeq(data, p + 1, p + n)
NumberIn(data, p, n) == NumberOf(Window(data, p, n))

-----------------------------------------------------------------------------
(***************************************************************************)
(* ser::push and ser::pushBytes, as the bytes that they append.            *)
(***************************************************************************)
U8(v)   == BytesOf(1, v)
U64(v)  == BytesOf(Width["u64"], v)
F64(v)  == BytesOf(Width["f64"], v)
F64s(s) == FlattenSeq([i \in DOMAIN s |-> F64(s[i])])
Bool(b) == U8(IF b THEN 1 ELSE 0)

PushedBytes(data, size) == SubSeq(data, 1, size)

-----------------------------------------------------------------------------
(***************************************************************************)
(* BufferReader over `data`, and the object `out` that it fills.  `taken`  *)
(* are the bytes of the last read.  A failed read clears ok, as the early  *)
(* return after it does: nothing more is read or written.  `inside` is     *)
(* history: no byte after the end of the data has been read.               *)
(***************************************************************************)
Reader(data, out) ==
  [data |-> data, pos |-> 0, taken |-> <<>>, out |-> out, ok |-> TRUE, inside |-> TRUE]

\* The sum is a size_t.
Fits(r, size) == (r.pos + size) % SizeRange <= Len(r.data)

Require(r, condition) == [r EXCEPT !.ok = @ /\ condition]

Take(r, size) ==
  CASE ~r.ok -> r
    [] r.ok /\ ~Fits(r, size) -> Require(r, FALSE)
    [] r.ok /\ Fits(r, size) /\ r.pos + size > Len(r.data) ->
         [r EXCEPT !.ok = FALSE, !.inside = FALSE]
    [] OTHER -> [r EXCEPT !.taken = Window(r.data, r.pos, size),
                          !.pos = @ + size]

\* read into a local variable, whose value is then Local.
Read(r, type) == Take(r, Width[type])
Local(r) == NumberOf(r.taken)

\* What is at the path in an object: <<>>, <<member>> or <<member, index>>.
At(object, path) ==
  CASE path = <<>>   -> object
    [] Len(path) = 1 -> object[path[1]]
    [] Len(path) = 2 -> object[path[1]][path[2]]

Put(object, path, v) ==
  CASE path = <<>>   -> v
    [] Len(path) = 1 -> [object EXCEPT ![path[1]] = v]
    [] Len(path) = 2 -> [object EXCEPT ![path[1]][path[2]] = v]

Store(r, path, v) == IF r.ok THEN [r EXCEPT !.out = Put(@, path, v)] ELSE r

\* read into a member of out.
ReadTo(r, type, member) == LET s == Read(r, type) IN Store(s, <<member>>, Local(s))
ReadBool(r, member) == LET s == Read(r, "u8") IN Store(s, <<member>>, Local(s) # 0)

\* Doubles read one after the other into members, or elements, of what is at the
\* path; those before the one that is missing are stored.
ReadDoubles(r, path, members) ==
  LET size == Width["f64"]
      fitting == {n \in 0..Len(members) : Fits(r, n * size)}
      read == CHOOSE n \in fitting : \A m \in fitting : m <= n
      Double(i) == NumberIn(r.data, r.pos + (i - 1) * size, size)
      filled == [m \in DOMAIN At(r.out, path) |->
                   IF \E i \in 1..read : members[i] = m
                   THEN Double(CHOOSE i \in 1..read : members[i] = m)
                   ELSE At(r.out, path)[m]]
  IN IF r.ok
     THEN [r EXCEPT !.out = Put(@, path, filled), !.pos = @ + read * size,
                    !.ok = read = Len(members)]
     ELSE r

\* readBytes into a member that has room for them.
ReadBytes(r, size, member) == LET s == Take(r, size) IN Store(s, <<member>>, s.taken)

\* resize of a vector or string of out.
Resize(r, member, size, element) ==
  IF r.ok THEN [r EXCEPT !.out[member] =
                  [i \in 1..size |-> IF i <= Len(@) THEN @[i] ELSE element]]
          ELSE r

-----------------------------------------------------------------------------
(***************************************************************************)
(* toNetwork32 and toNetwork64, copied to memory, and back: network order. *)
(***************************************************************************)
Net(type, v) == Reverse(BytesOf(Width[type], v))
FromNet(bytes) == NumberOf(Reverse(bytes))
=============================================================================
