---------------------------- MODULE FrameStream ----------------------------
(***************************************************************************)
(* Framing in lib/rpc/src/rpc_transport.cpp: one direction of a TCP        *)
(* connection, from writeFrame / sendFrame through sendAll to the three    *)
(* recvAll calls of readFrame and RpcServer::pollOnce.                     *)
(*                                                                         *)
(* A frame is a header that names the sizes of the payload and the blob    *)
(* that follow.  TCP keeps the order of the bytes and nothing else: send   *)
(* and recv move any number of them.  Bytes are represented by the frame   *)
(* they belong to and their place in it, and a size counts a few of them.  *)
(***************************************************************************)
EXTENDS Naturals, SequencesExt

CONSTANTS
  Frames,         \* sizes of the frames that are written
  HeaderSize,     \* FRAME_HEADER_SIZE
  MaxFrameSize,   \* MAX_FRAME_SIZE
  SocketBuffer,   \* bytes the kernel holds between the two ends
  MaxFrames,      \* bound on the frames of a behaviour
  Noise           \* a frame that nobody wrote

FrameSizes == [payload: Nat, blob: Nat]

ASSUME FramesAssumption == Frames \subseteq FrameSizes
ASSUME SizesAssumption ==
  /\ HeaderSize \in Nat \ {0}
  /\ MaxFrameSize \in Nat
  /\ SocketBuffer \in Nat \ {0}
  /\ MaxFrames \in Nat
ASSUME NoiseAssumption == Noise \notin FrameSizes

VARIABLES
  \* writer
  written,      \* frames passed to sendAll so far (history)
  sending,      \* bytes sendAll still has to pass to send
  writer_open,  \* socket_fd_ of the writing end
  \* connection
  stream,       \* bytes sent and not yet received
  \* reader
  reader,       \* the part of a frame that recvAll is waiting for, or "idle"
  got,          \* bytes received since the read began
  head,         \* the header, once it was received
  reader_open,  \* socket_fd_ of the reading end
  delivered,    \* frames handed over so far (history)
  cut           \* a read was given up in mid-frame (history)

writerVars == <<written, sending, writer_open>>
readerVars == <<reader, got, head, reader_open, delivered, cut>>
streamVars == <<writerVars, stream, readerVars>>

NoHead == [payload |-> 0, blob |-> 0]

StreamInit ==
  /\ written = <<>> /\ sending = <<>> /\ writer_open = TRUE
  /\ stream = <<>>
  /\ reader = "idle" /\ got = <<>> /\ head = NoHead /\ reader_open = TRUE
  /\ delivered = <<>> /\ cut = FALSE

Smaller(a, b) == IF a < b THEN a ELSE b

Size(f) == HeaderSize + f.payload + f.blob

\* Places are counted from 0.
Bytes_FromZero(n, f) == [i \in 1..Size(f) |-> [frame |-> n, at |-> i - 1]]

\* The bytes of the n-th frame.
Bytes(n, f) == [i \in 1..Size(f) |-> [frame |-> n, at |-> i]]

-----------------------------------------------------------------------------
(***************************************************************************)
(* The writer: writeFrame and sendFrame copy header, payload and blob into *)
(* one buffer and sendAll repeats send until all of it was taken.          *)
(***************************************************************************)
WriteFrame ==
  /\ writer_open
  /\ sending = <<>>
  /\ Len(written) < MaxFrames
  /\ \E f \in Frames :
       /\ written' = Append(written, f)
       /\ sending' = Bytes(Len(written) + 1, f)
  /\ UNCHANGED <<writer_open, stream, readerVars>>

\* send took a part of the bytes and the rest is forgotten.
SendSome_NoLoop ==
  /\ sending # <<>>
  /\ \E k \in 1..Smaller(Len(sending), SocketBuffer - Len(stream)) :
       /\ stream' = stream \o SubSeq(sending, 1, k)
       /\ sending' = <<>>
  /\ UNCHANGED <<written, writer_open, readerVars>>

\* send blocks while the socket buffers are full.
SendSome ==
  /\ sending # <<>>
  /\ \E k \in 1..Smaller(Len(sending), SocketBuffer - Len(stream)) :
       /\ stream' = stream \o SubSeq(sending, 1, k)
       /\ sending' = SubSeq(sending, k + 1, Len(sending))
  /\ UNCHANGED <<written, writer_open, readerVars>>

\* send fails, or the writing end is closed between two frames.
WriterCloses ==
  /\ writer_open
  /\ writer_open' = FALSE
  /\ sending' = <<>>
  /\ UNCHANGED <<written, stream, readerVars>>

-----------------------------------------------------------------------------
(***************************************************************************)
(* The reader.  pollOnce looks for data first; sendRequest waits for it.   *)
(***************************************************************************)
BeginRead ==
  /\ reader_open
  /\ reader = "idle"
  /\ reader' = "header"
  /\ UNCHANGED <<writerVars, stream, got, head, reader_open, delivered, cut>>

Wanted ==
  CASE reader = "header"  -> HeaderSize
    [] reader = "payload" -> HeaderSize + head.payload
    [] reader = "blob"    -> Size(head)
    [] OTHER              -> 0

\* recv gets the beginning of the buffer each time: total_recv is not added.
RecvSome_SameAddress ==
  /\ reader # "idle"
  /\ \E k \in 1..Smaller(Len(stream), Wanted - Len(got)) :
       /\ got' = SubSeq(stream, 1, k) \o got
       /\ stream' = SubSeq(stream, k + 1, Len(stream))
  /\ UNCHANGED <<writerVars, reader, head, reader_open, delivered, cut>>

RecvSome ==
  /\ reader # "idle"
  /\ \E k \in 1..Smaller(Len(stream), Wanted - Len(got)) :
       /\ got' = got \o SubSeq(stream, 1, k)
       /\ stream' = SubSeq(stream, k + 1, Len(stream))
  /\ UNCHANGED <<writerVars, reader, head, reader_open, delivered, cut>>

\* deserializeHeader: bytes that are not a header give any sizes.
Headers ==
  IF got[1].at = 1 THEN {written[got[1].frame]}
  ELSE [payload: 0..MaxFrameSize + 1, blob: 0..MaxFrameSize + 1]

TooLarge(h) == h.payload > MaxFrameSize \/ h.blob > MaxFrameSize

Idle == reader' = "idle" /\ got' = <<>> /\ head' = NoHead

\* A frame above the guard rail is refused without being consumed.
HeaderReceived ==
  /\ reader = "header"
  /\ Len(got) = HeaderSize
  /\ \E h \in Headers :
       \/ /\ TooLarge(h)
          /\ Idle
          /\ cut' = TRUE
       \/ /\ ~ TooLarge(h)
          /\ reader' = "payload"
          /\ head' = h
          /\ UNCHANGED <<got, cut>>
  /\ UNCHANGED <<writerVars, stream, reader_open, delivered>>

\* recvAll is called for a payload of no bytes as well, and waits for some.
PayloadReceived_WaitsForNone ==
  /\ reader = "payload"
  /\ head.payload > 0
  /\ Len(got) = HeaderSize + head.payload
  /\ reader' = "blob"
  /\ UNCHANGED <<writerVars, stream, got, head, reader_open, delivered, cut>>

PayloadReceived ==
  /\ reader = "payload"
  /\ Len(got) = HeaderSize + head.payload
  /\ reader' = "blob"
  /\ UNCHANGED <<writerVars, stream, got, head, reader_open, delivered, cut>>

\* What is handed over: the frame whose bytes these are, if they are a frame.
Decoded ==
  IF \E n \in DOMAIN written : written[n] = head /\ got = Bytes(n, head)
  THEN head ELSE Noise

FrameReceived ==
  /\ reader = "blob"
  /\ Len(got) = Size(head)
  /\ delivered' = Append(delivered, Decoded)
  /\ Idle
  /\ UNCHANGED <<writerVars, stream, reader_open, cut>>

\* recvAll's deadline passes.  What was received of the frame is dropped and the
\* connection stays open.
ReadTimesOut ==
  /\ reader # "idle"
  /\ cut' = (cut \/ got # <<>>)
  /\ Idle
  /\ UNCHANGED <<writerVars, stream, reader_open, delivered>>

\* recv reports the end of the stream or an error, or the reading end is closed.
ReaderCloses ==
  /\ reader_open
  /\ reader_open' = FALSE
  /\ Idle
  /\ UNCHANGED <<writerVars, stream, delivered, cut>>

-----------------------------------------------------------------------------
Writer == WriteFrame \/ SendSome \/ WriterCloses

ReadOn == RecvSome \/ HeaderReceived \/ PayloadReceived \/ FrameReceived

Reader == BeginRead \/ ReadOn \/ ReadTimesOut \/ ReaderCloses

StreamNext == Writer \/ Reader

StreamSpec == StreamInit /\ [][StreamNext]_streamVars

\* The reader polls, and sendAll goes on as soon as there is room.  recvAll may be
\* called with a deadline that has passed (sendRequest near its own deadline), but
\* a read that finds data again and again receives some of it in the end: strong
\* fairness.  Timeouts and failures may happen and are not required to.
StreamFairness ==
  /\ WF_streamVars(SendSome)
  /\ WF_streamVars(BeginRead)
  /\ SF_streamVars(ReadOn)

FairStreamSpec == StreamSpec /\ StreamFairness

-----------------------------------------------------------------------------
(***************************************************************************)
(* Properties.                                                             *)
(***************************************************************************)
Byte == [frame: Nat \ {0}, at: Nat \ {0}]

\* Every variable of the stream has a value of its type.
StreamTypeOK ==
  /\ written \in Seq(Frames)
  /\ sending \in Seq(Byte)
  /\ writer_open \in BOOLEAN
  /\ stream \in Seq(Byte)
  /\ reader \in {"idle", "header", "payload", "blob"}
  /\ got \in Seq(Byte)
  /\ head \in FrameSizes
  /\ reader_open \in BOOLEAN
  /\ delivered \in Seq(FrameSizes \cup {Noise})
  /\ cut \in BOOLEAN

Channel == INSTANCE FrameChannel

\* The stream keeps the promises of FrameChannel: sendAll's and recvAll's loops
\* rebuild exactly the frames that were written, in their order, and only a
\* timeout or a refused frame in the middle of the stream can break that.
DeliversFrames == Channel!ChannelSpec

\* All bytes written since the last frame handed over, as the reader has yet to
\* see them.
BytesFrom(n) ==
  FlattenSeq([i \in 1..(Len(written) + 1 - n) |-> Bytes(n + i - 1, written[n + i - 1])])

\* While both ends are open and no read was given up, every byte of a frame that
\* was not handed over is held by sendAll, by the connection or by recvAll.
NothingLost ==
  ~ cut /\ writer_open /\ reader_open =>
    got \o stream \o sending = BytesFrom(Len(delivered) + 1)

\* A frame that was written is handed over, unless an end is closed or a read is
\* given up: pollOnce and sendAll never wait for each other in vain.
FramesArrive ==
  \A n \in 1..MaxFrames :
    Len(written) >= n ~> (Len(delivered) >= n \/ cut \/ ~ writer_open \/ ~ reader_open)
=============================================================================
