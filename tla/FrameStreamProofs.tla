------------------------- MODULE FrameStreamProofs -------------------------
(***************************************************************************)
(* The framing of FrameStream, for every size of frames and buffers: the   *)
(* bytes on their way are always a beginning of the bytes that are due,    *)
(* cut anywhere.  From that follow NothingLost and that the stream         *)
(* implements FrameChannel.                                                *)
(***************************************************************************)
EXTENDS FrameStream, SequenceLemmas

-----------------------------------------------------------------------------
(***************************************************************************)
(* The inductive invariant.                                                *)
(***************************************************************************)
\* s is the beginning of t.
Begins(s, t) == Len(s) <= Len(t) /\ \A i \in 1..Len(s) : s[i] = t[i]

\* A byte on its way belongs to a frame that was written.
KnownByte == [frame: 1..Len(written), at: Nat \ {0}]

BytesInv ==
  /\ got \in Seq(KnownByte)
  /\ stream \in Seq(KnownByte)
  /\ sending \in Seq(KnownByte)

EndsInv ==
  /\ ~ writer_open => sending = <<>>
  /\ ~ reader_open => reader = "idle"

\* The header is the one of the frame that is due.
HeadInv ==
  ~ cut /\ reader \in {"payload", "blob"} =>
    /\ Len(delivered) < Len(written)
    /\ head = written[Len(delivered) + 1]

OnTheWay == got \o stream \o sending

\* What the reader has yet to see begins with the bytes on their way, and while the
\* writer is there, that is all of it.
OrderInv ==
  ~ cut /\ reader_open =>
    /\ Len(delivered) <= Len(written)
    /\ Begins(OnTheWay, BytesFrom(Len(delivered) + 1))
    /\ writer_open => OnTheWay = BytesFrom(Len(delivered) + 1)

StreamInv == StreamTypeOK /\ BytesInv /\ EndsInv /\ HeadInv /\ OrderInv

-----------------------------------------------------------------------------
(***************************************************************************)
(* The bytes of frames.                                                    *)
(***************************************************************************)
LEMMA SizeType ==
  ASSUME NEW f \in FrameSizes
  PROVE  Size(f) \in Nat \ {0} /\ HeaderSize <= Size(f)
  BY SizesAssumption DEF FrameSizes, Size

LEMMA BytesType ==
  ASSUME NEW f \in FrameSizes, NEW m \in Nat, NEW n \in 1..m
  PROVE  /\ Bytes(n, f) \in Seq([frame: 1..m, at: Nat \ {0}])
         /\ Bytes(n, f) \in Seq(Byte)
         /\ Len(Bytes(n, f)) = Size(f)
         /\ \A i \in 1..Size(f) : Bytes(n, f)[i] = [frame |-> n, at |-> i]
<1>1. Size(f) \in Nat
  BY SizeType
<1>2. \A i \in 1..Size(f) :
        [frame |-> n, at |-> i] \in [frame: 1..m, at: Nat \ {0}]
  BY <1>1
<1>3. \A i \in 1..Size(f) : [frame |-> n, at |-> i] \in Byte
  BY <1>1 DEF Byte
<1>4. \A i \in 1..Size(f) : Bytes(n, f)[i] = [frame |-> n, at |-> i]
  BY Zenon DEF Bytes
<1>5. Bytes(n, f) \in [1..Size(f) -> [frame: 1..m, at: Nat \ {0}]]
  BY <1>2, Zenon DEF Bytes
<1>6. Bytes(n, f) \in [1..Size(f) -> Byte]
  BY <1>3, Zenon DEF Bytes
<1> QED
  BY <1>1, <1>4, <1>5, <1>6, FunctionIsSeq

\* The bytes of the frames of w from the n-th on.
Parts(w, n) == [i \in 1..(Len(w) + 1 - n) |-> Bytes(n + i - 1, w[n + i - 1])]

Rest(w, n) == FlattenSeq(Parts(w, n))

LEMMA BytesFromIsRest ==
  ASSUME NEW n
  PROVE  BytesFrom(n) = Rest(written, n)
  BY Zenon DEF BytesFrom, Rest, Parts

LEMMA PartsType ==
  ASSUME NEW w \in Seq(Frames), NEW n \in 1..(Len(w) + 1)
  PROVE  /\ Parts(w, n) \in Seq(Seq(Byte))
         /\ Len(Parts(w, n)) = Len(w) + 1 - n
         /\ \A i \in 1..(Len(w) + 1 - n) :
              Parts(w, n)[i] = Bytes(n + i - 1, w[n + i - 1])
<1>1. Len(w) \in Nat /\ Len(w) + 1 - n \in Nat
  OBVIOUS
<1>2. ASSUME NEW i \in 1..(Len(w) + 1 - n)
      PROVE  Bytes(n + i - 1, w[n + i - 1]) \in Seq(Byte)
  <2>1. n + i - 1 \in 1..Len(w)
    BY <1>1
  <2>2. w[n + i - 1] \in FrameSizes
    BY <2>1, FramesAssumption
  <2> QED
    BY <1>1, <2>1, <2>2, BytesType
<1> QED
  BY <1>1, <1>2 DEF Parts

LEMMA RestType ==
  ASSUME NEW w \in Seq(Frames), NEW n \in 1..(Len(w) + 1)
  PROVE  Rest(w, n) \in Seq(Byte)
  BY PartsType, FlattenSeqType DEF Rest

LEMMA RestEnd ==
  ASSUME NEW w \in Seq(Frames)
  PROVE  Rest(w, Len(w) + 1) = <<>>
<1>1. Len(w) + 1 \in 1..(Len(w) + 1)
  OBVIOUS
<1>2. Parts(w, Len(w) + 1) \in Seq(Seq(Byte)) /\ Len(Parts(w, Len(w) + 1)) = 0
  BY <1>1, PartsType
<1>3. Parts(w, Len(w) + 1) = <<>>
  BY <1>2
<1> QED
  BY <1>3, FlattenSeqEmpty DEF Rest

LEMMA RestAppend ==
  ASSUME NEW w \in Seq(Frames), NEW n \in 1..(Len(w) + 1), NEW f \in Frames
  PROVE  Rest(Append(w, f), n) = Rest(w, n) \o Bytes(Len(w) + 1, f)
<1> DEFINE v == Append(w, f)
           b == Bytes(Len(w) + 1, f)
<1>1. /\ v \in Seq(Frames) /\ Len(w) \in Nat /\ Len(v) = Len(w) + 1
      /\ v[Len(w) + 1] = f /\ \A i \in 1..Len(w) : v[i] = w[i]
  OBVIOUS
<1>2. b \in Seq(Byte)
  <2>1. Len(w) + 1 \in Nat /\ Len(w) + 1 \in 1..(Len(w) + 1) /\ f \in FrameSizes
    BY <1>1, FramesAssumption
  <2> QED
    BY <2>1, BytesType
<1> HIDE DEF v, b
<1>3. Parts(v, n) = Append(Parts(w, n), b)
  <2>1. /\ Parts(v, n) \in Seq(Seq(Byte)) /\ Len(Parts(v, n)) = Len(v) + 1 - n
        /\ \A i \in 1..(Len(v) + 1 - n) :
             Parts(v, n)[i] = Bytes(n + i - 1, v[n + i - 1])
    <3>1. n \in 1..(Len(v) + 1)
      BY <1>1
    <3> QED
      BY <1>1, <3>1, PartsType
  <2>2. /\ Parts(w, n) \in Seq(Seq(Byte)) /\ Len(Parts(w, n)) = Len(w) + 1 - n
        /\ \A i \in 1..(Len(w) + 1 - n) :
             Parts(w, n)[i] = Bytes(n + i - 1, w[n + i - 1])
    BY PartsType
  <2> DEFINE p == Parts(w, n)
             q == Parts(v, n)
             r == Append(p, b)
  <2>3. /\ r \in Seq(Seq(Byte)) /\ Len(r) = Len(p) + 1
        /\ r[Len(p) + 1] = b /\ \A i \in 1..Len(p) : r[i] = p[i]
    <3> HIDE DEF p
    <3> QED
      BY <1>2, <2>2, AppendIs DEF p
  <2>4. q \in Seq(Seq(Byte)) /\ Len(q) = Len(r)
    BY <1>1, <2>1, <2>2, <2>3
  <2>5. ASSUME NEW i \in 1..Len(q) PROVE q[i] = r[i]
    <3>1. CASE i = Len(p) + 1
      <4>1. n + i - 1 = Len(w) + 1
        BY <1>1, <2>2, <3>1
      <4>2. q[i] = Bytes(n + i - 1, v[n + i - 1])
        BY <2>1
      <4> HIDE DEF p, q, r
      <4> QED
        BY <1>1, <2>3, <3>1, <4>1, <4>2 DEF b
    <3>2. CASE i \in 1..Len(p)
      <4>1. n + i - 1 \in 1..Len(w)
        BY <1>1, <2>2, <3>2
      <4>2. q[i] = Bytes(n + i - 1, v[n + i - 1])
        BY <2>1
      <4>3. p[i] = Bytes(n + i - 1, w[n + i - 1])
        BY <2>2, <3>2
      <4> HIDE DEF p, q, r
      <4> QED
        BY <1>1, <2>3, <3>2, <4>1, <4>2, <4>3
    <3> HIDE DEF p, q, r
    <3> QED
      BY <2>3, <2>4, <3>1, <3>2
  <2> HIDE DEF p, q, r
  <2>6. q = r
    BY <2>3, <2>4, <2>5, SeqEqual
  <2> QED
    BY <2>6 DEF p, q, r
<1>4. FlattenSeq(Append(Parts(w, n), b)) = FlattenSeq(Parts(w, n)) \o b
  BY <1>2, PartsType, FlattenSeqAppend
<1> QED
  BY <1>3, <1>4 DEF Rest, v, b

LEMMA RestFirst ==
  ASSUME NEW w \in Seq(Frames), NEW n \in 1..Len(w)
  PROVE  Rest(w, n) = Bytes(n, w[n]) \o Rest(w, n + 1)
<1> DEFINE b == Bytes(n, w[n])
           p == Parts(w, n + 1)
           q == Parts(w, n)
           r == <<b>> \o p
<1>1. Len(w) \in Nat /\ n + 1 \in 1..(Len(w) + 1) /\ n \in 1..(Len(w) + 1)
  OBVIOUS
<1>2. b \in Seq(Byte)
  <2>1. n \in 1..Len(w) /\ w[n] \in FrameSizes
    BY <1>1, FramesAssumption
  <2> QED
    BY <1>1, <2>1, BytesType
<1>3. /\ q \in Seq(Seq(Byte)) /\ Len(q) = Len(w) + 1 - n
      /\ \A i \in 1..(Len(w) + 1 - n) : q[i] = Bytes(n + i - 1, w[n + i - 1])
  BY <1>1, PartsType
<1>4. /\ p \in Seq(Seq(Byte)) /\ Len(p) = Len(w) + 1 - (n + 1)
      /\ \A i \in 1..(Len(w) + 1 - (n + 1)) :
           p[i] = Bytes((n + 1) + i - 1, w[(n + 1) + i - 1])
  BY <1>1, PartsType
<1> HIDE DEF b, p, q
<1>5. /\ r \in Seq(Seq(Byte)) /\ Len(r) = Len(p) + 1
      /\ r[1] = b /\ \A i \in 1..Len(p) : r[i + 1] = p[i]
  BY <1>2, <1>4, FirstIs
<1> HIDE DEF r
<1>6. Len(q) = Len(r)
  BY <1>1, <1>3, <1>4, <1>5
<1>7. ASSUME NEW i \in 1..Len(q) PROVE q[i] = r[i]
  <2>1. q[i] = Bytes(n + i - 1, w[n + i - 1])
    BY <1>3
  <2>2. CASE i = 1
    <3>1. n + i - 1 = n
      BY <2>2
    <3> QED
      BY <1>5, <2>1, <2>2, <3>1 DEF b
  <2>3. CASE i # 1
    <3> DEFINE j == i - 1
    <3>1. j \in 1..(Len(w) + 1 - (n + 1)) /\ j \in 1..Len(p) /\ i = j + 1
      BY <1>1, <1>3, <1>4, <2>3
    <3>2. (n + 1) + j - 1 = n + i - 1
      OBVIOUS
    <3>3. p[j] = Bytes((n + 1) + j - 1, w[(n + 1) + j - 1])
      BY <1>4, <3>1
    <3> HIDE DEF j
    <3> QED
      BY <1>5, <2>1, <3>1, <3>2, <3>3
  <2> QED
    BY <2>2, <2>3
<1>8. q = r
  BY <1>3, <1>5, <1>6, <1>7, SeqEqual
<1>9. FlattenSeq(<<b>> \o p) = b \o FlattenSeq(p)
  BY <1>2, <1>4, FlattenSeqFirst
<1> QED
  BY <1>8, <1>9 DEF Rest, b, p, q, r

-----------------------------------------------------------------------------
(***************************************************************************)
(* Beginnings of sequences.                                                *)
(***************************************************************************)
LEMMA BeginsShorter ==
  ASSUME NEW S, NEW s \in Seq(S), NEW u \in Seq(S), NEW t \in Seq(S),
         Begins(s \o u, t)
  PROVE  Begins(s, t)
  BY DEF Begins

LEMMA BeginsItself == ASSUME NEW S, NEW s \in Seq(S) PROVE Begins(s, s)
  BY DEF Begins

LEMMA BeginsCancel ==
  ASSUME NEW S, NEW g \in Seq(S), NEW s \in Seq(S), NEW t \in Seq(S),
         Begins(g \o s, g \o t)
  PROVE  Begins(s, t)
<1>1. Len(s) <= Len(t)
  BY DEF Begins
<1>2. ASSUME NEW i \in 1..Len(s) PROVE s[i] = t[i]
  <2>1. Len(g) + i \in 1..Len(g \o s)
    OBVIOUS
  <2>2. (g \o s)[Len(g) + i] = (g \o t)[Len(g) + i]
    BY <2>1 DEF Begins
  <2>3. (g \o s)[Len(g) + i] = s[i]
    OBVIOUS
  <2>4. (g \o t)[Len(g) + i] = t[i]
    BY <1>1
  <2> QED
    BY <2>2, <2>3, <2>4
<1> QED
  BY <1>1, <1>2 DEF Begins

-----------------------------------------------------------------------------
(***************************************************************************)
(* What the reader may conclude from the bytes it has.                     *)
(***************************************************************************)
Due == Len(delivered) + 1

LEMMA LengthsType ==
  ASSUME StreamTypeOK
  PROVE  /\ Len(delivered) \in Nat /\ Len(written) \in Nat
         /\ Due \in Nat \ {0}
         /\ Len(got) \in Nat
  BY DEF StreamTypeOK, Due

LEMMA OnTheWayType ==
  ASSUME StreamTypeOK
  PROVE  /\ stream \o sending \in Seq(Byte)
         /\ OnTheWay \in Seq(Byte)
         /\ OnTheWay = got \o (stream \o sending)
  BY DEF StreamTypeOK, OnTheWay

\* As long as no read was given up, what was received of a frame is the beginning of
\* the frame that is due.
LEMMA DueFrame ==
  ASSUME StreamInv, ~ cut, reader_open, got # <<>>
  PROVE  /\ Due \in 1..Len(written)
         /\ \A i \in 1..Len(got) :
              i <= Size(written[Due]) => got[i] = [frame |-> Due, at |-> i]
<1>1. /\ StreamTypeOK /\ Len(delivered) <= Len(written)
      /\ Begins(OnTheWay, Rest(written, Due))
  BY BytesFromIsRest DEF StreamInv, OrderInv, Due
<1>2. /\ got \in Seq(Byte) /\ written \in Seq(Frames)
      /\ Len(delivered) \in Nat /\ Len(written) \in Nat /\ Due \in 1..(Len(written) + 1)
  BY <1>1, LengthsType DEF StreamTypeOK, Due
<1>3. Rest(written, Due) \in Seq(Byte)
  BY <1>2, RestType
<1>4. Begins(got, Rest(written, Due))
  <2>1. stream \o sending \in Seq(Byte)
    BY <1>1, OnTheWayType
  <2>2. Begins(got \o (stream \o sending), Rest(written, Due))
    BY <1>1, OnTheWayType
  <2> QED
    BY <1>2, <1>3, <2>1, <2>2, BeginsShorter
<1>5. Len(got) >= 1
  BY <1>2
<1>6. Due # Len(written) + 1
  <2> SUFFICES ASSUME Due = Len(written) + 1 PROVE FALSE
    OBVIOUS
  <2>1. Rest(written, Due) = <<>>
    BY <1>2, RestEnd
  <2> QED
    BY <1>2, <1>4, <1>5, <2>1 DEF Begins
<1>7. Due \in 1..Len(written)
  BY <1>2, <1>6
<1> DEFINE b == Bytes(Due, written[Due])
           r == Rest(written, Due + 1)
<1>8. Rest(written, Due) = b \o r
  BY <1>2, <1>7, RestFirst
<1>9. written[Due] \in FrameSizes
  BY <1>2, <1>7, FramesAssumption
<1>10. /\ b \in Seq(Byte) /\ Len(b) = Size(written[Due])
       /\ \A i \in 1..Size(written[Due]) : b[i] = [frame |-> Due, at |-> i]
  BY <1>2, <1>7, <1>9, BytesType
<1>11. r \in Seq(Byte)
  <2>1. Due + 1 \in 1..(Len(written) + 1)
    BY <1>2, <1>7
  <2> QED
    BY <1>2, <2>1, RestType
<1>12. Size(written[Due]) \in Nat
  BY <1>9, SizeType
<1> HIDE DEF b, r
<1>13. ASSUME NEW i \in 1..Len(got), i <= Size(written[Due])
       PROVE  got[i] = [frame |-> Due, at |-> i]
  <2>1. got[i] = (b \o r)[i]
    BY <1>4, <1>8 DEF Begins
  <2>2. i \in 1..Len(b)
    BY <1>2, <1>10, <1>12, <1>13
  <2>3. (b \o r)[i] = b[i]
    BY <1>10, <1>11, <2>2
  <2> QED
    BY <1>10, <1>12, <2>1, <2>2, <2>3
<1> QED
  BY <1>7, <1>13

\* The frame that is handed over is the one that is due.
LEMMA DueReceived ==
  ASSUME StreamInv, ~ cut, FrameReceived
  PROVE  /\ Due \in 1..Len(written)
         /\ head = written[Due]
         /\ got = Bytes(Due, head)
         /\ Decoded = written[Due]
<1>1. /\ reader = "blob" /\ Len(got) = Size(head) /\ reader_open /\ StreamTypeOK
  BY DEF FrameReceived, StreamInv, EndsInv
<1>2. head = written[Due]
  BY <1>1 DEF StreamInv, HeadInv, Due
<1>3. Size(head) \in Nat \ {0}
  BY <1>1, SizeType DEF StreamTypeOK
<1>4. got \in Seq(Byte) /\ head \in FrameSizes /\ Len(written) \in Nat /\ DOMAIN written = 1..Len(written)
  BY <1>1 DEF StreamTypeOK
<1>5. got # <<>>
  BY <1>1, <1>3, <1>4
<1>6. /\ Due \in 1..Len(written)
      /\ \A i \in 1..Len(got) : got[i] = [frame |-> Due, at |-> i]
  BY <1>1, <1>2, <1>3, <1>5, DueFrame
<1>7. /\ Bytes(Due, head) \in Seq(Byte) /\ Len(Bytes(Due, head)) = Size(head)
      /\ \A i \in 1..Size(head) : Bytes(Due, head)[i] = [frame |-> Due, at |-> i]
  BY <1>4, <1>6, BytesType
<1>8. got = Bytes(Due, head)
  BY <1>1, <1>4, <1>6, <1>7, SeqEqual
<1>9. Decoded = head
  BY <1>2, <1>4, <1>6, <1>8, Zenon DEF Decoded
<1> QED
  BY <1>2, <1>6, <1>8, <1>9

-----------------------------------------------------------------------------
(***************************************************************************)
(* Types.                                                                  *)
(***************************************************************************)
LEMMA NoBytes == \A S : <<>> \in Seq(S)
  OBVIOUS

LEMMA NoHeadType == NoHead \in FrameSizes
  BY DEF NoHead, FrameSizes

\* What is received at once is a part of the stream.
LEMMA ReceivedPart ==
  ASSUME StreamTypeOK, NEW k \in 1..Smaller(Len(stream), Wanted - Len(got))
  PROVE  k \in 0..Len(stream)
<1>1. Wanted \in Nat
  BY SizesAssumption, SMTT(30) DEF StreamTypeOK, Wanted, Size, FrameSizes
<1> QED
  BY <1>1 DEF Smaller, StreamTypeOK

LEMMA HeadersType ==
  ASSUME StreamTypeOK, BytesInv, Len(got) = HeaderSize
  PROVE  Headers \subseteq FrameSizes
<1>1. CASE got[1].at = 1
  <2>1. 1 \in 1..Len(got)
    BY SizesAssumption
  <2>2. got[1] \in KnownByte
    BY <2>1 DEF BytesInv
  <2>3. written[got[1].frame] \in Frames
    BY <2>2 DEF KnownByte, StreamTypeOK
  <2> QED
    BY <1>1, <2>3, FramesAssumption DEF Headers
<1>2. CASE got[1].at # 1
  BY <1>2, SizesAssumption DEF Headers, FrameSizes
<1> QED
  BY <1>1, <1>2

LEMMA DecodedType ==
  ASSUME StreamTypeOK
  PROVE  Decoded \in Frames \cup {Noise}
  BY DEF StreamTypeOK, Decoded

LEMMA StreamTypeStep ==
  StreamTypeOK /\ BytesInv /\ [StreamNext]_streamVars => StreamTypeOK'
<1> SUFFICES ASSUME StreamTypeOK, BytesInv, [StreamNext]_streamVars
             PROVE  StreamTypeOK'
  OBVIOUS
<1> USE DEF StreamTypeOK
<1>1. CASE WriteFrame
  <2>1. PICK f \in Frames : /\ written' = Append(written, f)
                            /\ sending' = Bytes(Len(written) + 1, f)
    BY <1>1 DEF WriteFrame
  <2>2. f \in FrameSizes /\ Len(written) + 1 \in Nat
        /\ Len(written) + 1 \in 1..(Len(written) + 1)
    BY FramesAssumption
  <2>3. sending' \in Seq(Byte)
    BY <2>1, <2>2, BytesType
  <2> QED
    BY <1>1, <2>1, <2>3 DEF WriteFrame, readerVars
<1>2. CASE SendSome
  <2>1. PICK k \in 1..Smaller(Len(sending), SocketBuffer - Len(stream)) :
          /\ stream' = stream \o SubSeq(sending, 1, k)
          /\ sending' = SubSeq(sending, k + 1, Len(sending))
    BY <1>2 DEF SendSome
  <2>2. k \in 0..Len(sending)
    BY SizesAssumption DEF Smaller
  <2>3. SubSeq(sending, 1, k) \in Seq(Byte) /\ sending' \in Seq(Byte)
    BY <2>1, <2>2, SplitAt
  <2>4. stream' \in Seq(Byte)
    BY <2>1, <2>3
  <2> QED
    BY <1>2, <2>3, <2>4 DEF SendSome, readerVars
<1>3. CASE WriterCloses
  BY <1>3, NoBytes DEF WriterCloses, readerVars
<1>4. CASE BeginRead
  BY <1>4 DEF BeginRead, writerVars
<1>5. CASE RecvSome
  <2>1. PICK k \in 1..Smaller(Len(stream), Wanted - Len(got)) :
          /\ got' = got \o SubSeq(stream, 1, k)
          /\ stream' = SubSeq(stream, k + 1, Len(stream))
    BY <1>5 DEF RecvSome
  <2>2. k \in 0..Len(stream)
    BY ReceivedPart
  <2>3. SubSeq(stream, 1, k) \in Seq(Byte) /\ stream' \in Seq(Byte)
    BY <2>1, <2>2, SplitAt
  <2>4. got' \in Seq(Byte)
    BY <2>1, <2>3
  <2> QED
    BY <1>5, <2>3, <2>4 DEF RecvSome, writerVars
<1>6. CASE HeaderReceived
  <2>1. Headers \subseteq FrameSizes
    BY <1>6, HeadersType DEF HeaderReceived
  <2>2. /\ reader' \in {"idle", "payload"} /\ cut' \in BOOLEAN
        /\ got' \in Seq(Byte) /\ head' \in FrameSizes
    BY <1>6, <2>1, NoBytes, NoHeadType DEF HeaderReceived, Idle
  <2> QED
    BY <1>6, <2>2 DEF HeaderReceived, writerVars
<1>7. CASE PayloadReceived
  BY <1>7 DEF PayloadReceived, writerVars
<1>8. CASE FrameReceived
  <2>1. Decoded \in FrameSizes \cup {Noise}
    BY DecodedType, FramesAssumption
  <2> QED
    BY <1>8, <2>1, NoBytes, NoHeadType DEF FrameReceived, Idle, writerVars
<1>9. CASE ReadTimesOut
  BY <1>9, NoBytes, NoHeadType DEF ReadTimesOut, Idle, writerVars
<1>10. CASE ReaderCloses
  BY <1>10, NoBytes, NoHeadType DEF ReaderCloses, Idle, writerVars
<1>11. CASE UNCHANGED streamVars
  BY <1>11 DEF streamVars, writerVars, readerVars
<1> QED
  BY <1>1, <1>2, <1>3, <1>4, <1>5, <1>6, <1>7, <1>8, <1>9, <1>10, <1>11
     DEF StreamNext, Writer, Reader, ReadOn

LEMMA BytesStep ==
  StreamTypeOK /\ BytesInv /\ [StreamNext]_streamVars => BytesInv'
<1> SUFFICES ASSUME StreamTypeOK, BytesInv, [StreamNext]_streamVars
             PROVE  BytesInv'
  OBVIOUS
<1>1. CASE WriteFrame
  <2>1. PICK f \in Frames : /\ written' = Append(written, f)
                            /\ sending' = Bytes(Len(written) + 1, f)
    BY <1>1 DEF WriteFrame
  <2>2. /\ f \in FrameSizes /\ Len(written) + 1 \in Nat
        /\ Len(written) + 1 \in 1..(Len(written) + 1)
        /\ Len(written') = Len(written) + 1
    BY <2>1, FramesAssumption DEF StreamTypeOK
  <2>3. sending' \in Seq(KnownByte')
    BY <2>1, <2>2, BytesType DEF KnownByte
  <2>4. KnownByte \subseteq KnownByte'
    BY <2>2 DEF KnownByte, StreamTypeOK
  <2>5. got' \in Seq(KnownByte') /\ stream' \in Seq(KnownByte')
    BY <1>1, <2>4, SeqMonotonic DEF WriteFrame, readerVars, BytesInv
  <2> QED
    BY <2>3, <2>5 DEF BytesInv
<1>2. CASE SendSome
  <2>1. PICK k \in 1..Smaller(Len(sending), SocketBuffer - Len(stream)) :
          /\ stream' = stream \o SubSeq(sending, 1, k)
          /\ sending' = SubSeq(sending, k + 1, Len(sending))
    BY <1>2 DEF SendSome
  <2>2. k \in 0..Len(sending)
    BY SizesAssumption DEF Smaller, StreamTypeOK
  <2>3. SubSeq(sending, 1, k) \in Seq(KnownByte) /\ sending' \in Seq(KnownByte)
    BY <2>1, <2>2, SplitAt DEF BytesInv
  <2>4. stream' \in Seq(KnownByte)
    BY <2>1, <2>3 DEF BytesInv
  <2> QED
    BY <1>2, <2>3, <2>4 DEF SendSome, readerVars, BytesInv, KnownByte
<1>3. CASE RecvSome
  <2>1. PICK k \in 1..Smaller(Len(stream), Wanted - Len(got)) :
          /\ got' = got \o SubSeq(stream, 1, k)
          /\ stream' = SubSeq(stream, k + 1, Len(stream))
    BY <1>3 DEF RecvSome
  <2>2. k \in 0..Len(stream)
    BY ReceivedPart
  <2>3. SubSeq(stream, 1, k) \in Seq(KnownByte) /\ stream' \in Seq(KnownByte)
    BY <2>1, <2>2, SplitAt DEF BytesInv
  <2>4. got' \in Seq(KnownByte)
    BY <2>1, <2>3 DEF BytesInv
  <2> QED
    BY <1>3, <2>3, <2>4 DEF RecvSome, writerVars, BytesInv, KnownByte
<1>4. CASE WriterCloses
  BY <1>4, NoBytes DEF WriterCloses, readerVars, BytesInv, KnownByte
<1>5. CASE BeginRead \/ PayloadReceived
  BY <1>5 DEF BeginRead, PayloadReceived, writerVars, BytesInv, KnownByte
<1>6. CASE HeaderReceived
  BY <1>6, NoBytes DEF HeaderReceived, Idle, writerVars, BytesInv, KnownByte
<1>7. CASE FrameReceived
  BY <1>7, NoBytes DEF FrameReceived, Idle, writerVars, BytesInv, KnownByte
<1>8. CASE ReadTimesOut \/ ReaderCloses
  BY <1>8, NoBytes DEF ReadTimesOut, ReaderCloses, Idle, writerVars, BytesInv, KnownByte
<1>9. CASE UNCHANGED streamVars
  BY <1>9 DEF streamVars, writerVars, readerVars, BytesInv, KnownByte
<1> QED
  BY <1>1, <1>2, <1>3, <1>4, <1>5, <1>6, <1>7, <1>8, <1>9
     DEF StreamNext, Writer, Reader, ReadOn

-----------------------------------------------------------------------------
(***************************************************************************)
(* Each step keeps the frames in order.                                    *)
(***************************************************************************)
LEMMA EndsStep ==
  EndsInv /\ [StreamNext]_streamVars => EndsInv'
<1> SUFFICES ASSUME EndsInv, [StreamNext]_streamVars PROVE EndsInv'
  OBVIOUS
<1> USE DEF EndsInv
<1>1. CASE WriteFrame \/ WriterCloses
  BY <1>1 DEF WriteFrame, WriterCloses, readerVars
<1>2. CASE SendSome
  BY <1>2 DEF SendSome, readerVars
<1>3. CASE BeginRead \/ PayloadReceived
  BY <1>3 DEF BeginRead, PayloadReceived, writerVars
<1>4. CASE RecvSome
  BY <1>4 DEF RecvSome, writerVars
<1>5. CASE HeaderReceived
  BY <1>5 DEF HeaderReceived, Idle, writerVars
<1>6. CASE FrameReceived \/ ReadTimesOut \/ ReaderCloses
  BY <1>6 DEF FrameReceived, ReadTimesOut, ReaderCloses, Idle, writerVars
<1>7. CASE UNCHANGED streamVars
  BY <1>7 DEF streamVars, writerVars, readerVars
<1> QED
  BY <1>1, <1>2, <1>3, <1>4, <1>5, <1>6, <1>7
     DEF StreamNext, Writer, Reader, ReadOn

LEMMA HeadStep ==
  StreamInv /\ [StreamNext]_streamVars => HeadInv'
<1> SUFFICES ASSUME StreamInv, [StreamNext]_streamVars,
                    ~ cut', reader' \in {"payload", "blob"}
             PROVE  /\ Len(delivered') < Len(written')
                    /\ head' = written'[Len(delivered') + 1]
  BY DEF HeadInv
<1>1. StreamTypeOK /\ HeadInv /\ EndsInv
  BY DEF StreamInv
<1>2. CASE WriteFrame
  <2>1. PICK f \in Frames : written' = Append(written, f)
    BY <1>2 DEF WriteFrame
  <2>2. Len(delivered) < Len(written) /\ head = written[Len(delivered) + 1]
    BY <1>1, <1>2 DEF WriteFrame, readerVars, HeadInv
  <2>3. /\ Len(written') = Len(written) + 1
        /\ \A i \in 1..Len(written) : written'[i] = written[i]
    BY <1>1, <2>1 DEF StreamTypeOK
  <2>4. Len(delivered) \in Nat /\ Len(written) \in Nat
    BY <1>1, LengthsType
  <2> QED
    BY <1>2, <2>2, <2>3, <2>4 DEF WriteFrame, readerVars
<1>3. CASE SendSome \/ WriterCloses
  BY <1>1, <1>3 DEF SendSome, WriterCloses, readerVars, HeadInv
<1>4. CASE HeaderReceived
  <2>1. PICK h \in Headers : head' = h
    BY <1>4 DEF HeaderReceived, Idle
  <2>2. ~ cut /\ reader_open /\ Len(got) = HeaderSize /\ UNCHANGED <<written, delivered>>
    BY <1>1, <1>4 DEF HeaderReceived, Idle, EndsInv, writerVars
  <2>3. got # <<>> /\ 1 \in 1..Len(got)
    BY <2>2, SizesAssumption
  <2>4. /\ Due \in 1..Len(written)
        /\ \A i \in 1..Len(got) :
             i <= Size(written[Due]) => got[i] = [frame |-> Due, at |-> i]
    BY <2>2, <2>3, DueFrame
  <2>5. written[Due] \in FrameSizes
    BY <1>1, <2>4, FramesAssumption DEF StreamTypeOK
  <2>6. got[1] = [frame |-> Due, at |-> 1]
    BY <2>3, <2>4, <2>5, SizeType
  <2>7. head' = written[Due]
    BY <2>1, <2>6 DEF Headers
  <2> QED
    BY <1>1, <2>2, <2>4, <2>7, LengthsType DEF Due
<1>5. CASE PayloadReceived
  BY <1>1, <1>5 DEF PayloadReceived, writerVars, HeadInv
<1>6. CASE RecvSome
  BY <1>1, <1>6 DEF RecvSome, writerVars, HeadInv
<1>7. CASE BeginRead \/ FrameReceived \/ ReadTimesOut
  BY <1>7 DEF BeginRead, FrameReceived, ReadTimesOut, Idle
<1>8. CASE ReaderCloses
  BY <1>8 DEF ReaderCloses, Idle
<1>9. CASE UNCHANGED streamVars
  BY <1>1, <1>9 DEF streamVars, writerVars, readerVars, HeadInv
<1> QED
  BY <1>2, <1>3, <1>4, <1>5, <1>6, <1>7, <1>8, <1>9
     DEF StreamNext, Writer, Reader, ReadOn

\* A read that was given up stays given up, and a closed end stays closed.
LEMMA EndsStay ==
  StreamTypeOK /\ [StreamNext]_streamVars
    => (cut => cut') /\ (~ reader_open => ~ reader_open')
<1> SUFFICES ASSUME StreamTypeOK, [StreamNext]_streamVars
             PROVE  (cut => cut') /\ (~ reader_open => ~ reader_open')
  OBVIOUS
<1>1. CASE Writer
  BY <1>1 DEF Writer, WriteFrame, SendSome, WriterCloses, readerVars
<1>2. CASE BeginRead \/ PayloadReceived \/ FrameReceived
  BY <1>2 DEF BeginRead, PayloadReceived, FrameReceived
<1>3. CASE HeaderReceived
  BY <1>3 DEF HeaderReceived
<1>4. CASE RecvSome
  BY <1>4 DEF RecvSome
<1>5. CASE ReadTimesOut
  BY <1>5 DEF ReadTimesOut
<1>6. CASE ReaderCloses
  BY <1>6 DEF ReaderCloses
<1>7. CASE UNCHANGED streamVars
  BY <1>7 DEF streamVars, readerVars
<1> QED
  BY <1>1, <1>2, <1>3, <1>4, <1>5, <1>6, <1>7 DEF StreamNext, Reader, ReadOn

\* A step that moves no byte out of its order and hands over no frame.
LEMMA SameBytes ==
  ASSUME OrderInv, ~ cut, reader_open, OnTheWay' = OnTheWay,
         UNCHANGED <<written, delivered, writer_open>>
  PROVE  OrderInv'
<1>1. BytesFrom(Len(delivered) + 1)' = BytesFrom(Len(delivered) + 1)
  BY DEF BytesFrom
<1> QED
  BY <1>1 DEF OrderInv, Begins

LEMMA OrderStep ==
  StreamInv /\ [StreamNext]_streamVars => OrderInv'
<1> SUFFICES ASSUME StreamInv, [StreamNext]_streamVars, ~ cut', reader_open'
             PROVE  OrderInv'
  BY DEF OrderInv
<1>1. /\ StreamTypeOK /\ OrderInv /\ EndsInv
      /\ got \in Seq(Byte) /\ stream \in Seq(Byte) /\ sending \in Seq(Byte)
      /\ written \in Seq(Frames)
  BY DEF StreamInv, StreamTypeOK
<1>2. ~ cut /\ reader_open
  BY <1>1, EndsStay
<1>3. /\ Len(delivered) \in Nat /\ Len(written) \in Nat
      /\ Len(delivered) <= Len(written) /\ Due \in 1..(Len(written) + 1)
      /\ Begins(OnTheWay, Rest(written, Due))
      /\ writer_open => OnTheWay = Rest(written, Due)
  BY <1>1, <1>2, LengthsType, BytesFromIsRest DEF OrderInv, Due
<1>4. BytesFrom(Len(delivered) + 1)' = Rest(written', Due')
  BY DEF BytesFrom, Rest, Parts, Due
<1>5. CASE WriteFrame
  <2>1. PICK f \in Frames : /\ written' = Append(written, f)
                            /\ sending' = Bytes(Len(written) + 1, f)
    BY <1>5 DEF WriteFrame
  <2>2. /\ sending = <<>> /\ writer_open /\ writer_open'
        /\ UNCHANGED <<got, stream, delivered>> /\ Due' = Due
    BY <1>5 DEF WriteFrame, readerVars, Due
  <2>3. OnTheWay' = OnTheWay \o sending'
    <3>1. OnTheWay = got \o stream
      BY <1>1, <2>2 DEF OnTheWay
    <3> QED
      BY <2>2, <3>1 DEF OnTheWay
  <2>4. Rest(written', Due) = Rest(written, Due) \o sending'
    BY <1>1, <1>3, <2>1, RestAppend
  <2>5. OnTheWay' = Rest(written', Due')
    BY <1>3, <2>2, <2>3, <2>4
  <2>6. OnTheWay' \in Seq(Byte)
    <3>1. sending' \in Seq(Byte)
      BY <1>1, StreamTypeStep DEF StreamInv, StreamTypeOK
    <3>2. OnTheWay \in Seq(Byte)
      BY <1>1, OnTheWayType
    <3> QED
      BY <2>3, <3>1, <3>2
  <2>7. Len(delivered') <= Len(written')
    BY <1>1, <1>3, <2>1, <2>2
  <2>8. Begins(OnTheWay', OnTheWay')
    BY <2>6, BeginsItself
  <2> QED
    BY <1>4, <2>5, <2>7, <2>8 DEF OrderInv, Begins
<1>6. CASE SendSome
  <2>1. PICK k \in 1..Smaller(Len(sending), SocketBuffer - Len(stream)) :
          /\ stream' = stream \o SubSeq(sending, 1, k)
          /\ sending' = SubSeq(sending, k + 1, Len(sending))
    BY <1>6 DEF SendSome
  <2>2. k \in 0..Len(sending)
    BY <1>1, SizesAssumption DEF Smaller
  <2> DEFINE a == SubSeq(sending, 1, k)
             b == SubSeq(sending, k + 1, Len(sending))
  <2>3. a \o b = sending
    BY <1>1, <2>2, SplitAt
  <2> HIDE DEF a, b
  <2>4. /\ stream' = stream \o a /\ sending' = b
        /\ UNCHANGED <<got, written, delivered, writer_open>>
    BY <1>6, <2>1 DEF SendSome, readerVars, a, b
  <2>5. /\ got \in Seq(Byte) /\ stream \in Seq(Byte)
        /\ a \in Seq(Byte) /\ b \in Seq(Byte)
    BY <1>1, <2>2, SplitAt DEF a, b
  <2>6. Row(got, stream \o a, b) = Row(got, stream, a \o b)
    BY <2>5, RowShift
  <2>7. OnTheWay' = OnTheWay
    BY <2>3, <2>4, <2>6, Zenon DEF OnTheWay, Row
  <2> QED
    BY <1>1, <1>2, <2>4, <2>7, SameBytes
<1>7. CASE WriterCloses
  <2>1. /\ ~ writer_open' /\ sending' = <<>>
        /\ UNCHANGED <<got, stream, delivered, written>> /\ Due' = Due
    BY <1>7 DEF WriterCloses, readerVars, Due
  <2>2. OnTheWay' = got \o stream /\ got \o stream \in Seq(Byte)
    BY <1>1, <2>1 DEF OnTheWay
  <2>3. Begins(got \o stream, Rest(written, Due))
    BY <1>1, <1>3, <2>2, RestType, BeginsShorter DEF OnTheWay
  <2> QED
    BY <1>3, <1>4, <2>1, <2>2, <2>3 DEF OrderInv, Begins
<1>8. CASE RecvSome
  <2>1. PICK k \in 1..Smaller(Len(stream), Wanted - Len(got)) :
          /\ got' = got \o SubSeq(stream, 1, k)
          /\ stream' = SubSeq(stream, k + 1, Len(stream))
    BY <1>8 DEF RecvSome
  <2>2. k \in 0..Len(stream)
    BY <1>1, ReceivedPart
  <2> DEFINE a == SubSeq(stream, 1, k)
             b == SubSeq(stream, k + 1, Len(stream))
  <2>3. a \o b = stream
    BY <1>1, <2>2, SplitAt
  <2> HIDE DEF a, b
  <2>4. /\ got' = got \o a /\ stream' = b
        /\ UNCHANGED <<sending, written, delivered, writer_open>>
    BY <1>8, <2>1 DEF RecvSome, writerVars, a, b
  <2>5. /\ got \in Seq(Byte) /\ stream \in Seq(Byte)
        /\ a \in Seq(Byte) /\ b \in Seq(Byte)
    BY <1>1, <2>2, SplitAt DEF a, b
  <2>6. (got \o a) \o b = got \o (a \o b)
    BY <2>5, SMTT(30)
  <2>7. OnTheWay' = OnTheWay
    BY <2>3, <2>4, <2>6 DEF OnTheWay
  <2> QED
    BY <1>1, <1>2, <2>4, <2>7, SameBytes
<1>9. CASE FrameReceived
  <2>1. /\ Due \in 1..Len(written) /\ head = written[Due] /\ got = Bytes(Due, head)
    BY <1>2, <1>9, DueReceived
  <2>2. /\ got' = <<>> /\ UNCHANGED <<stream, sending, written, writer_open>>
        /\ Len(delivered') = Len(delivered) + 1 /\ Due' = Due + 1
    BY <1>1, <1>9 DEF FrameReceived, Idle, writerVars, StreamTypeOK, Due
  <2> DEFINE s == stream \o sending
             t == Rest(written, Due + 1)
  <2>3. s \in Seq(Byte) /\ OnTheWay' = s /\ OnTheWay = got \o s
    BY <1>1, <2>2, OnTheWayType, SMTT(30) DEF OnTheWay
  <2>4. t \in Seq(Byte) /\ Rest(written, Due) = got \o t
    <3>1. Due + 1 \in 1..(Len(written) + 1)
      BY <1>3, <2>1
    <3> QED
      BY <1>1, <2>1, <3>1, RestType, RestFirst
  <2> HIDE DEF s, t
  <2>5. Begins(got \o s, got \o t)
    BY <1>3, <2>3, <2>4
  <2>6. Begins(s, t)
    BY <1>1, <2>3, <2>4, <2>5, BeginsCancel
  <2>7. writer_open => s = t
    BY <1>1, <1>3, <2>3, <2>4, ConcatSimplifications
  <2>8. Len(delivered') <= Len(written')
    BY <1>3, <2>1, <2>2 DEF Due
  <2>9. BytesFrom(Len(delivered) + 1)' = t
    BY <1>4, <2>2 DEF t
  <2> QED
    BY <2>2, <2>3, <2>6, <2>7, <2>8, <2>9 DEF OrderInv, Begins
<1>10. CASE HeaderReceived
  <2>1. UNCHANGED <<got, stream, sending, written, delivered, writer_open>>
    BY <1>10 DEF HeaderReceived, writerVars
  <2>2. OnTheWay' = OnTheWay
    BY <2>1 DEF OnTheWay
  <2> QED
    BY <1>1, <1>2, <2>1, <2>2, SameBytes
<1>11. CASE ReadTimesOut
  <2>1. UNCHANGED <<got, stream, sending, written, delivered, writer_open>>
    BY <1>11 DEF ReadTimesOut, Idle, writerVars
  <2>2. OnTheWay' = OnTheWay
    BY <2>1 DEF OnTheWay
  <2> QED
    BY <1>1, <1>2, <2>1, <2>2, SameBytes
<1>12. CASE ReaderCloses
  BY <1>12 DEF ReaderCloses
<1>13. CASE BeginRead \/ PayloadReceived \/ UNCHANGED streamVars
  <2>1. UNCHANGED <<got, stream, sending, written, delivered, writer_open>>
    BY <1>13 DEF BeginRead, PayloadReceived, writerVars, readerVars, streamVars
  <2>2. OnTheWay' = OnTheWay
    BY <2>1 DEF OnTheWay
  <2> QED
    BY <1>1, <1>2, <2>1, <2>2, SameBytes
<1> QED
  BY <1>5, <1>6, <1>7, <1>8, <1>9, <1>10, <1>11, <1>12, <1>13
     DEF StreamNext, Writer, Reader, ReadOn

-----------------------------------------------------------------------------
(***************************************************************************)
(* Theorems.                                                               *)
(***************************************************************************)
LEMMA StreamInvInit == StreamInit => StreamInv
<1> SUFFICES ASSUME StreamInit PROVE StreamInv
  OBVIOUS
<1> USE DEF StreamInit
<1>1. StreamTypeOK
  BY NoBytes, NoHeadType DEF StreamTypeOK
<1>2. BytesInv /\ EndsInv /\ HeadInv
  BY NoBytes DEF BytesInv, EndsInv, HeadInv
<1>3. OrderInv
  <2>1. written \in Seq(Frames) /\ Len(written) = 0 /\ Len(delivered) = 0
    OBVIOUS
  <2>2. Rest(written, Len(written) + 1) = <<>>
    BY <2>1, RestEnd
  <2>3. BytesFrom(Len(delivered) + 1) = <<>>
    BY <2>1, <2>2, BytesFromIsRest
  <2>4. OnTheWay = <<>>
    BY DEF OnTheWay
  <2> QED
    BY <2>1, <2>3, <2>4 DEF OrderInv, Begins
<1> QED
  BY <1>1, <1>2, <1>3 DEF StreamInv

LEMMA StreamInvStep == StreamInv /\ [StreamNext]_streamVars => StreamInv'
  BY StreamTypeStep, BytesStep, EndsStep, HeadStep, OrderStep DEF StreamInv

\* The bytes on their way are always the beginning of the bytes that are due.
THEOREM BytesInOrder == StreamSpec => []StreamInv
<1> QED
  BY StreamInvInit, StreamInvStep, PTL DEF StreamSpec

\* Every variable of the stream has a value of its type.
THEOREM StreamTypes == StreamSpec => []StreamTypeOK
<1>1. StreamInv => StreamTypeOK
  BY DEF StreamInv
<1> QED
  BY <1>1, BytesInOrder, PTL

\* The loops of sendAll and recvAll lose no byte of a frame that is due, however send
\* and recv divide the bytes.
THEOREM NoByteLost == StreamSpec => []NothingLost
<1>1. StreamInv => NothingLost
  BY DEF StreamInv, OrderInv, NothingLost, OnTheWay
<1> QED
  BY <1>1, BytesInOrder, PTL

\* Framing over TCP implements FrameChannel: writeFrame is Put, the end of readFrame
\* is Get, and only a read that is given up makes room for anything else.
THEOREM FramesInOrder == StreamSpec => DeliversFrames
<1>1. StreamInit => Channel!ChannelInit
  BY DEF StreamInit, Channel!ChannelInit
<1>2. StreamInv /\ [StreamNext]_streamVars
        => [Channel!ChannelNext]_Channel!channelVars
  <2> SUFFICES ASSUME StreamInv, [StreamNext]_streamVars
               PROVE  Channel!ChannelNext \/ UNCHANGED Channel!channelVars
    OBVIOUS
  <2> USE DEF Channel!ChannelNext, Channel!channelVars
  <2>1. CASE WriteFrame
    BY <2>1 DEF WriteFrame, readerVars, Channel!Put
  <2>2. CASE FrameReceived
    <3>1. CASE cut
      <4>1. Decoded \in Frames \cup {Noise}
        BY DecodedType DEF StreamInv
      <4> QED
        BY <2>2, <3>1, <4>1 DEF FrameReceived, writerVars, Channel!GetAnything
    <3>2. CASE ~ cut
      <4>1. Due \in 1..Len(written) /\ Decoded = written[Due]
        BY <2>2, <3>2, DueReceived
      <4>2. Len(delivered) < Len(written)
        BY <4>1, LengthsType DEF Due, StreamInv
      <4> QED
        BY <2>2, <4>1, <4>2 DEF FrameReceived, writerVars, Due, Channel!Get
    <3> QED
      BY <3>1, <3>2
  <2>3. CASE HeaderReceived
    BY <2>3 DEF HeaderReceived, Idle, writerVars, Channel!GiveUp
  <2>4. CASE ReadTimesOut
    <3>1. cut \in BOOLEAN
      BY DEF StreamInv, StreamTypeOK
    <3> QED
      BY <2>4, <3>1 DEF ReadTimesOut, writerVars, Channel!GiveUp
  <2>5. CASE SendSome \/ WriterCloses
    BY <2>5 DEF SendSome, WriterCloses, readerVars
  <2>6. CASE BeginRead \/ PayloadReceived \/ ReaderCloses
    BY <2>6 DEF BeginRead, PayloadReceived, ReaderCloses, writerVars
  <2>7. CASE RecvSome \/ UNCHANGED streamVars
    BY <2>7 DEF RecvSome, writerVars, readerVars, streamVars
  <2> QED
    BY <2>1, <2>2, <2>3, <2>4, <2>5, <2>6, <2>7
       DEF StreamNext, Writer, Reader, ReadOn
<1> QED
  BY <1>1, <1>2, BytesInOrder, PTL DEF StreamSpec, DeliversFrames, Channel!ChannelSpec
=============================================================================
