-------------------------- MODULE RpcSessionProofs --------------------------
(***************************************************************************)
(* RpcClient and RpcServer over any number of calls, notifications and     *)
(* connections: an answer goes to the call it belongs to, and the          *)
(* notifications are kept in their order.                                  *)
(***************************************************************************)
EXTENDS RpcSession, SequenceLemmas

-----------------------------------------------------------------------------
(***************************************************************************)
(* The inductive invariant.                                                *)
(***************************************************************************)
\* The id that sendRequest gives to its n-th call.
IdOf(n) == IF n = IdModulus THEN 0 ELSE n

\* Every request and response of q carries the id of its call, one of the first n.
OwnId(n, f) == f.of \in 1..n /\ f.id = IdOf(f.of)

Owned(n, q) == \A i \in 1..Len(q) : q[i].kind # "NOTE" => OwnId(n, q[i])

\* What the mutex holder has reserved.
CallInv ==
  /\ calls < IdModulus => next_request_id_ = IdOf(calls + 1)
  /\ lock # "free" =>
       socket_ # 0 /\ calls # 0 /\ pending_request_id_ = {IdOf(calls)}

FramesInv ==
  /\ \A c \in Connections :
       Clean(c) => Owned(calls, toServer[c]) /\ Owned(calls, toClient[c])
  /\ client_ # 0 /\ Clean(client_) => Owned(calls, serving)

AnswersInv == CallInv /\ FramesInv /\ AnswersOwnRequest

\* Connections in use were made, and the others carry nothing yet.
ConnectionsInv ==
  /\ socket_ <= connections /\ client_ <= connections
  /\ \A i \in 1..Len(backlog) : backlog[i] <= connections
  /\ \A c \in Connections :
       c > connections =>
         toClient[c] = <<>> /\ notified[c] = <<>> /\ dispatched[c] = <<>>

SessionInv == SessionTypeOK /\ AnswersInv /\ ConnectionsInv /\ NotificationsKept

-----------------------------------------------------------------------------
(***************************************************************************)
(* Frames and sequences of them.                                           *)
(***************************************************************************)
Requests == Frames({"REQUEST"})
Messages == Frames({"RESPONSE", "NOTE"})

LEMMA NoFrames == \A S : <<>> \in Seq(S)
  OBVIOUS

LEMMA TailOf ==
  ASSUME NEW S, NEW q \in Seq(S), q # <<>>
  PROVE  /\ Head(q) \in S /\ Head(q) = q[1] /\ 1 \in 1..Len(q)
         /\ Tail(q) \in Seq(S)
         /\ \A i \in 1..Len(Tail(q)) : i + 1 \in 1..Len(q) /\ Tail(q)[i] = q[i + 1]
  OBVIOUS

LEMMA AppendOf ==
  ASSUME NEW S, NEW q \in Seq(S), NEW x \in S
  PROVE  /\ Append(q, x) \in Seq(S)
         /\ \A i \in 1..Len(Append(q, x)) :
              Append(q, x)[i] = x \/ (i \in 1..Len(q) /\ Append(q, x)[i] = q[i])
<1>1. Len(q) \in Nat
  OBVIOUS
<1>2. /\ Append(q, x) \in Seq(S) /\ Len(Append(q, x)) = Len(q) + 1
      /\ Append(q, x)[Len(q) + 1] = x
      /\ \A i \in 1..Len(q) : Append(q, x)[i] = q[i]
  BY AppendIs
<1>3. ASSUME NEW i \in 1..Len(Append(q, x))
      PROVE  Append(q, x)[i] = x \/ (i \in 1..Len(q) /\ Append(q, x)[i] = q[i])
  <2>1. i = Len(q) + 1 \/ i \in 1..Len(q)
    BY <1>1, <1>2
  <2>2. CASE i = Len(q) + 1
    BY <1>2, <2>2
  <2>3. CASE i \in 1..Len(q)
    BY <1>2, <2>3, Zenon
  <2> QED
    BY <2>1, <2>2, <2>3
<1> QED
  BY <1>2, <1>3

LEMMA OneOf ==
  ASSUME NEW S, NEW x \in S
  PROVE  <<x>> \in Seq(S) /\ Len(<<x>>) = 1 /\ <<x>>[1] = x
  OBVIOUS

LEMMA DiscardedType ==
  ASSUME NEW S, NEW channel \in [Connections -> Seq(S)], NEW c
  PROVE  /\ Discarded(channel, c) \in [Connections -> Seq(S)]
         /\ \A n \in Connections :
              Discarded(channel, c)[n] = IF n = c THEN <<>> ELSE channel[n]
  BY NoFrames DEF Discarded

LEMMA IdOfType == \A n \in 1..IdModulus : IdOf(n) \in Ids
  BY IdsAssumption DEF IdOf, Ids

\* There are no more calls than ids, and different calls have different ids.
LEMMA IdOfInjective ==
  ASSUME NEW m \in 1..IdModulus, NEW n \in 1..IdModulus, IdOf(m) = IdOf(n)
  PROVE  m = n
  BY IdsAssumption DEF IdOf

-----------------------------------------------------------------------------
(***************************************************************************)
(* Types.                                                                  *)
(***************************************************************************)
SessionActions ==
  \/ Connect \/ Disconnect \/ SendRequest \/ WriteRequest \/ WriteFails
  \/ ReceiveResponse \/ ReceiveStale \/ ReceiveNote \/ PollNote \/ PollStray
  \/ GiveUp \/ ReadCut \/ ReadFails \/ Misread
  \/ ServerStart \/ ServerStop \/ Accept \/ Serve \/ Respond \/ Notify
  \/ NoteSent \/ LoseClient \/ ServerReadCut \/ ServerMisreads
  \/ UNCHANGED sessionVars

LEMMA SessionCases == [SessionNext]_sessionVars => SessionActions
  BY DEF SessionNext, Client, Server, ClientReads, SessionActions

LEMMA IncomingType ==
  ASSUME SessionTypeOK, NEW kind, Incoming(kind)
  PROVE  /\ socket_ \in Connections
         /\ Head(toClient[socket_]) \in Messages
         /\ toClient' \in [Connections -> Seq(Messages)]
         /\ UNCHANGED <<connections, backlog, toServer, garbled>>
<1>1. socket_ \in Connections
  BY SessionBounds DEF SessionTypeOK, Incoming, Connections
<1>2. toClient \in [Connections -> Seq(Messages)]
  BY DEF SessionTypeOK, Messages
<1>3. toClient[socket_] \in Seq(Messages) /\ toClient[socket_] # <<>>
  BY <1>1, <1>2 DEF Incoming
<1>4. Head(toClient[socket_]) \in Messages /\ Tail(toClient[socket_]) \in Seq(Messages)
  BY <1>3, TailOf
<1>5. toClient' = [toClient EXCEPT ![socket_] = Tail(toClient[socket_])]
  BY DEF Incoming
<1>6. toClient' \in [Connections -> Seq(Messages)]
  BY <1>1, <1>2, <1>4, <1>5
<1> QED
  BY <1>1, <1>4, <1>6 DEF Incoming

LEMMA DispatchType ==
  ASSUME SessionTypeOK, NEW of \in Nat, Dispatch(of)
  PROVE  dispatched' \in [Connections -> Seq(Nat)]
<1>1. dispatched \in [Connections -> Seq(Nat)]
  BY DEF SessionTypeOK
<1>2. CASE socket_ \in Connections
  <2>1. Append(dispatched[socket_], of) \in Seq(Nat)
    BY <1>1, <1>2
  <2> QED
    BY <1>1, <2>1 DEF Dispatch
<1>3. CASE socket_ \notin Connections
  BY <1>1, <1>3 DEF Dispatch
<1> QED
  BY <1>2, <1>3

LEMMA DeliverType ==
  ASSUME SessionTypeOK, NEW f \in Messages, Deliver(f)
  PROVE  /\ client_ \in Connections
         /\ toClient' \in [Connections -> Seq(Messages)]
         /\ UNCHANGED <<connections, backlog, toServer, garbled>>
<1>1. client_ \in Connections
  BY SessionBounds DEF SessionTypeOK, Deliver, Connections
<1>2. toClient \in [Connections -> Seq(Messages)]
  BY DEF SessionTypeOK, Messages
<1>3. Append(toClient[client_], f) \in Seq(Messages)
  BY <1>1, <1>2, AppendOf
<1>4. toClient' = [toClient EXCEPT ![client_] = Append(toClient[client_], f)]
  BY DEF Deliver
<1>5. toClient' \in [Connections -> Seq(Messages)]
  BY <1>2, <1>3, <1>4
<1> QED
  BY <1>1, <1>5 DEF Deliver

LEMMA CloseSocketType ==
  ASSUME SessionTypeOK, CloseSocket
  PROVE  /\ socket_' = 0
         /\ toClient' \in [Connections -> Seq(Messages)]
         /\ UNCHANGED <<connections, backlog, toServer, garbled>>
<1>1. toClient \in [Connections -> Seq(Messages)]
  BY DEF SessionTypeOK, Messages
<1> QED
  BY <1>1, DiscardedType DEF CloseSocket

\* SessionTypeOK, group by group.
CallTypes ==
  /\ lock \in {"free", "write", "await"}
  /\ next_request_id_ \in Ids
  /\ pending_request_id_ \in SUBSET Ids
  /\ calls \in 0..MaxCalls
  /\ result \in [call: Nat, answer: Nat, connection: Nat]

ClientTypes ==
  /\ socket_ \in 0..MaxConnections
  /\ dispatched \in [Connections -> Seq(Nat)]

NetworkTypes ==
  /\ connections \in 0..MaxConnections
  /\ backlog \in Seq(Connections)
  /\ toServer \in [Connections -> Seq(Requests)]
  /\ toClient \in [Connections -> Seq(Messages)]
  /\ garbled \subseteq Connections \X {"client", "server"}

ServerTypes ==
  /\ listening \in BOOLEAN
  /\ client_ \in 0..MaxConnections
  /\ serving \in Seq(Requests)
  /\ sending \in 0..MaxNotes
  /\ notes \in 0..MaxNotes
  /\ notified \in [Connections -> Seq(Nat)]

LEMMA TypeGroups ==
  SessionTypeOK => CallTypes /\ ClientTypes /\ NetworkTypes /\ ServerTypes
  BY DEF SessionTypeOK, CallTypes, ClientTypes, NetworkTypes, ServerTypes,
         Requests, Messages

LEMMA InConnections == \A c \in 0..MaxConnections : c # 0 <=> c \in Connections
  BY SessionBounds DEF Connections

LEMMA FrameType ==
  ASSUME NEW kind, NEW id \in Ids, NEW of \in Nat
  PROVE  /\ kind = "REQUEST" => Frame(kind, id, of) \in Requests
         /\ kind \in {"RESPONSE", "NOTE"} => Frame(kind, id, of) \in Messages
  BY DEF Frame, Frames, Requests, Messages

LEMMA FrameParts ==
  \A f \in Requests \cup Messages : f.id \in Ids /\ f.of \in Nat
  BY DEF Requests, Messages, Frames

LEMMA CallTypesStep ==
  ASSUME SessionTypeOK, SessionActions
  PROVE  CallTypes'
<1>1. CallTypes /\ ClientTypes
  BY TypeGroups
<1>2. CASE UNCHANGED callVars
  BY <1>1, <1>2 DEF CallTypes, callVars
<1>3. CASE Return /\ UNCHANGED result
  BY <1>1, <1>3 DEF CallTypes, Return
<1>4. CASE Return /\ \E of \in Nat : Result(of)
  <2>1. calls \in Nat /\ socket_ \in Nat
    BY <1>1, IdsAssumption, SessionBounds DEF CallTypes, ClientTypes
  <2>2. result' \in [call: Nat, answer: Nat, connection: Nat]
    BY <1>4, <2>1 DEF Result
  <2> QED
    BY <1>1, <1>4, <2>2 DEF CallTypes, Return
<1>5. CASE ReadEnds
  BY <1>1, <1>5 DEF CallTypes, ReadEnds
<1>6. CASE pending_request_id_' = {} /\ UNCHANGED <<lock, next_request_id_, calls, result>>
  BY <1>1, <1>6 DEF CallTypes
<1>7. CASE SendRequest
  <2>1. next_request_id_' \in Ids
    BY <1>1, <1>7, IdsAssumption DEF CallTypes, SendRequest, Ids
  <2>2. calls' \in 0..MaxCalls
    BY <1>1, <1>7, IdsAssumption DEF CallTypes, SendRequest
  <2>3. /\ pending_request_id_' \in SUBSET Ids /\ lock' = "write"
        /\ result' \in [call: Nat, answer: Nat, connection: Nat]
    BY <1>1, <1>7 DEF CallTypes, SendRequest, NoResult
  <2> QED
    BY <1>1, <2>1, <2>2, <2>3 DEF CallTypes
<1>8. CASE WriteRequest
  BY <1>1, <1>8 DEF CallTypes, WriteRequest
<1>9. CASE Connect \/ Disconnect
  BY <1>6, <1>9 DEF Connect, Disconnect
<1>10. CASE WriteFails \/ GiveUp
  BY <1>3, <1>10 DEF WriteFails, GiveUp
<1>11. CASE ReceiveResponse
  <2>1. Incoming("RESPONSE") /\ Result(Head(toClient[socket_]).of) /\ Return
    BY <1>11 DEF ReceiveResponse
  <2>2. Head(toClient[socket_]).of \in Nat
    BY <2>1, IncomingType, FrameParts
  <2> QED
    BY <1>4, <2>1, <2>2
<1>12. CASE ReceiveStale \/ ReceiveNote \/ PollNote \/ PollStray
  BY <1>2, <1>12 DEF ReceiveStale, ReceiveNote, PollNote, PollStray
<1>13. CASE ReadCut \/ ReadFails
  BY <1>5, <1>13 DEF ReadCut, ReadFails
<1>14. CASE Misread
  BY <1>2, <1>4, <1>14 DEF Misread
<1>15. CASE ServerStart \/ ServerStop \/ Accept \/ Serve \/ Respond
  BY <1>2, <1>15 DEF ServerStart, ServerStop, StopServer, Accept, Serve, Respond
<1>16. CASE Notify \/ NoteSent \/ LoseClient \/ ServerReadCut \/ ServerMisreads
  BY <1>2, <1>16 DEF Notify, NoteSent, LoseClient, ServerReadCut, ServerMisreads
<1>17. CASE UNCHANGED sessionVars
  BY <1>2, <1>17 DEF sessionVars
<1> QED
  BY <1>7, <1>8, <1>9, <1>10, <1>11, <1>12, <1>13, <1>14, <1>15, <1>16, <1>17
     DEF SessionActions

LEMMA ClientTypesStep ==
  ASSUME SessionTypeOK, SessionActions
  PROVE  ClientTypes'
<1>1. ClientTypes /\ NetworkTypes
  BY TypeGroups
<1>2. CASE UNCHANGED <<socket_, dispatched>>
  BY <1>1, <1>2 DEF ClientTypes
<1>3. CASE socket_' = 0 /\ UNCHANGED dispatched
  BY <1>1, <1>3, SessionBounds DEF ClientTypes
<1>4. CASE UNCHANGED socket_ /\ \E of \in Nat : Dispatch(of)
  BY <1>1, <1>4, DispatchType DEF ClientTypes
<1>5. CASE Connect
  <2>1. socket_' \in 0..MaxConnections
    BY <1>1, <1>5, SessionBounds DEF NetworkTypes, Connect
  <2> QED
    BY <1>1, <1>5, <2>1 DEF ClientTypes, Connect
<1>6. CASE Disconnect \/ WriteFails \/ ReadFails
  BY <1>3, <1>6 DEF Disconnect, WriteFails, ReadFails, ReadEnds, CloseSocket
<1>7. CASE SendRequest \/ WriteRequest \/ ReceiveResponse \/ ReceiveStale \/ PollStray
  BY <1>2, <1>7 DEF SendRequest, WriteRequest, ReceiveResponse, ReceiveStale, PollStray
<1>8. CASE ReceiveNote \/ PollNote
  <2>1. /\ Incoming("NOTE") /\ Dispatch(Head(toClient[socket_]).of)
        /\ UNCHANGED socket_
    BY <1>8 DEF ReceiveNote, PollNote
  <2>2. Head(toClient[socket_]).of \in Nat
    BY <2>1, IncomingType, FrameParts
  <2> QED
    BY <1>4, <2>1, <2>2
<1>9. CASE GiveUp \/ ReadCut
  BY <1>2, <1>9 DEF GiveUp, ReadCut, ReadEnds
<1>10. CASE Misread
  BY <1>2, <1>4, <1>10 DEF Misread
<1>11. CASE ServerStart \/ ServerStop \/ Accept \/ Serve \/ Respond
  BY <1>2, <1>11 DEF ServerStart, ServerStop, StopServer, Accept, Serve, Respond
<1>12. CASE Notify \/ NoteSent \/ LoseClient \/ ServerReadCut \/ ServerMisreads
  BY <1>2, <1>12 DEF Notify, NoteSent, LoseClient, ServerReadCut, ServerMisreads
<1>13. CASE UNCHANGED sessionVars
  BY <1>2, <1>13 DEF sessionVars
<1> QED
  BY <1>5, <1>6, <1>7, <1>8, <1>9, <1>10, <1>11, <1>12, <1>13 DEF SessionActions

LEMMA NetworkTypesStep ==
  ASSUME SessionTypeOK, SessionActions
  PROVE  NetworkTypes'
<1>1. CallTypes /\ ClientTypes /\ NetworkTypes /\ ServerTypes
  BY TypeGroups
<1>2. CASE UNCHANGED networkVars
  BY <1>1, <1>2 DEF NetworkTypes, networkVars
<1>3. CASE toClient' \in [Connections -> Seq(Messages)]
           /\ UNCHANGED <<connections, backlog, toServer, garbled>>
  BY <1>1, <1>3 DEF NetworkTypes
<1>4. CASE toServer' \in [Connections -> Seq(Requests)]
           /\ UNCHANGED <<connections, backlog, toClient, garbled>>
  BY <1>1, <1>4 DEF NetworkTypes
<1>5. CASE /\ \E c \in Connections, end \in {"client", "server"} : Cut(<<c, end>>)
           /\ UNCHANGED <<connections, backlog, toServer, toClient>>
  <2>1. garbled' \subseteq Connections \X {"client", "server"}
    BY <1>1, <1>5 DEF NetworkTypes, Cut
  <2> QED
    BY <1>1, <1>5, <2>1 DEF NetworkTypes
<1>6. CASE Connect
  <2>1. connections' \in Connections /\ connections' \in 0..MaxConnections
    BY <1>1, <1>6, SessionBounds DEF NetworkTypes, Connect, Connections
  <2>2. backlog' \in Seq(Connections)
    BY <1>1, <1>6, <2>1, AppendOf DEF NetworkTypes, Connect
  <2>3. toClient' \in [Connections -> Seq(Messages)]
    BY <1>1, <1>6, DiscardedType DEF NetworkTypes, Connect
  <2> QED
    BY <1>1, <1>6, <2>1, <2>2, <2>3 DEF NetworkTypes, Connect
<1>7. CASE Disconnect \/ WriteFails \/ ReadFails
  <2>1. CloseSocket
    BY <1>7 DEF Disconnect, WriteFails, ReadFails
  <2> QED
    BY <1>3, <2>1, CloseSocketType
<1>8. CASE WriteRequest
  <2>1. PICK id \in pending_request_id_ :
          toServer' = [toServer EXCEPT
                         ![socket_] = Append(toServer[socket_], Frame("REQUEST", id, calls))]
    BY <1>8 DEF WriteRequest
  <2>2. id \in Ids /\ calls \in Nat
    BY <1>1, IdsAssumption DEF CallTypes
  <2>3. Frame("REQUEST", id, calls) \in Requests
    BY <2>2, FrameType
  <2>4. toServer \in [Connections -> Seq(Requests)]
    BY <1>1 DEF NetworkTypes
  <2>5. toServer' \in [Connections -> Seq(Requests)]
    <3>1. CASE socket_ \in Connections
      <4>1. Append(toServer[socket_], Frame("REQUEST", id, calls)) \in Seq(Requests)
        BY <2>3, <2>4, <3>1, AppendOf
      <4> QED
        BY <2>1, <2>4, <4>1
    <3>2. CASE socket_ \notin Connections
      BY <2>1, <2>4, <3>2
    <3> QED
      BY <3>1, <3>2
  <2> QED
    BY <1>4, <1>8, <2>5 DEF WriteRequest
<1>9. CASE ReceiveResponse \/ ReceiveStale \/ ReceiveNote \/ PollNote \/ PollStray
  <2>1. Incoming("RESPONSE") \/ Incoming("NOTE")
    BY <1>9 DEF ReceiveResponse, ReceiveStale, ReceiveNote, PollNote, PollStray
  <2> QED
    BY <1>3, <2>1, IncomingType
<1>10. CASE ReadCut
  <2>1. socket_ \in Connections
    BY <1>1, <1>10, InConnections DEF ClientTypes, ReadCut
  <2> QED
    BY <1>5, <1>10, <2>1 DEF ReadCut
<1>11. CASE ServerReadCut
  <2>1. client_ \in Connections
    BY <1>1, <1>11, InConnections DEF ServerTypes, ServerReadCut
  <2> QED
    BY <1>5, <1>11, <2>1 DEF ServerReadCut
<1>12. CASE StopServer
  <2>1. backlog' \in Seq(Connections) /\ toServer' \in [Connections -> Seq(Requests)]
    BY <1>12, NoFrames DEF StopServer
  <2> QED
    BY <1>1, <1>12, <2>1 DEF NetworkTypes, StopServer
<1>13. CASE Accept
  <2>1. backlog' \in Seq(Connections)
    BY <1>1, <1>13, TailOf DEF NetworkTypes, Accept
  <2> QED
    BY <1>1, <1>13, <2>1 DEF NetworkTypes, Accept
<1>14. CASE Serve
  <2>1. client_ \in Connections /\ toServer \in [Connections -> Seq(Requests)]
    BY <1>1, <1>14, InConnections DEF NetworkTypes, ServerTypes, Serve
  <2>2. Tail(toServer[client_]) \in Seq(Requests)
    BY <1>14, <2>1, TailOf DEF Serve
  <2>3. toServer' = [toServer EXCEPT ![client_] = Tail(toServer[client_])]
    BY <1>14 DEF Serve
  <2>4. toServer' \in [Connections -> Seq(Requests)]
    BY <2>1, <2>2, <2>3
  <2> QED
    BY <1>4, <1>14, <2>4 DEF Serve
<1>15. CASE Respond
  <2>1. CASE UNCHANGED networkVars
    BY <1>2, <2>1
  <2>2. CASE Deliver(Frame("RESPONSE", serving[1].id, serving[1].of))
    <3>1. serving \in Seq(Requests) /\ serving # <<>>
      BY <1>1, <1>15 DEF ServerTypes, Respond
    <3>2. serving[1] \in Requests
      BY <3>1
    <3>3. Frame("RESPONSE", serving[1].id, serving[1].of) \in Messages
      BY <3>2, FrameParts, FrameType
    <3> QED
      BY <1>3, <2>2, <3>3, DeliverType
  <2> QED
    BY <1>15, <2>1, <2>2 DEF Respond
<1>16. CASE NoteSent
  <2>1. sending \in Nat /\ 0 \in Ids
    BY <1>1, <1>16, SessionBounds, IdsAssumption DEF ServerTypes, Ids
  <2>2. Frame("NOTE", 0, sending) \in Messages
    BY <2>1, FrameType
  <2> QED
    BY <1>3, <1>16, <2>2, DeliverType DEF NoteSent
<1>17. CASE LoseClient
  <2>1. toServer \in [Connections -> Seq(Requests)]
    BY <1>1 DEF NetworkTypes
  <2>2. toServer' \in [Connections -> Seq(Requests)]
    BY <1>17, <2>1, DiscardedType DEF LoseClient
  <2> QED
    BY <1>4, <1>17, <2>2 DEF LoseClient
<1>18. CASE SendRequest \/ GiveUp \/ Misread \/ Notify \/ ServerMisreads
  BY <1>2, <1>18 DEF SendRequest, GiveUp, Misread, Notify, ServerMisreads
<1>19. CASE UNCHANGED sessionVars
  BY <1>2, <1>19 DEF sessionVars
<1> QED
  BY <1>6, <1>7, <1>8, <1>9, <1>10, <1>11, <1>12, <1>13, <1>14, <1>15, <1>16, <1>17,
     <1>18, <1>19 DEF SessionActions, ServerStart, ServerStop

LEMMA ServerTypesStep ==
  ASSUME SessionTypeOK, SessionActions
  PROVE  ServerTypes'
<1>1. NetworkTypes /\ ServerTypes
  BY TypeGroups
<1>2. CASE UNCHANGED serverVars
  BY <1>1, <1>2 DEF ServerTypes, serverVars
<1>3. CASE StopServer /\ listening' \in BOOLEAN
  BY <1>1, <1>3, SessionBounds DEF ServerTypes, StopServer
<1>4. CASE Accept
  <2>1. backlog \in Seq(Connections) /\ backlog # <<>>
    BY <1>1, <1>4 DEF NetworkTypes, Accept
  <2>2. client_' \in Connections
    BY <1>4, <2>1, TailOf DEF Accept
  <2>3. client_' \in 0..MaxConnections
    BY <2>2, SessionBounds DEF Connections
  <2> QED
    BY <1>1, <1>4, <2>3 DEF ServerTypes, Accept
<1>5. CASE /\ serving' \in Seq(Requests)
           /\ UNCHANGED <<listening, client_, sending, notes, notified>>
  BY <1>1, <1>5 DEF ServerTypes
<1>6. CASE Serve
  <2>1. client_ \in Connections /\ toServer \in [Connections -> Seq(Requests)]
    BY <1>1, <1>6, InConnections DEF NetworkTypes, ServerTypes, Serve
  <2>2. Head(toServer[client_]) \in Requests
    BY <1>6, <2>1, TailOf DEF Serve
  <2>3. serving' \in Seq(Requests)
    BY <1>6, <2>2, OneOf DEF Serve
  <2> QED
    BY <1>5, <1>6, <2>3 DEF Serve
<1>7. CASE Respond
  BY <1>5, <1>7, NoFrames DEF Respond
<1>8. CASE ServerMisreads
  <2>1. PICK id \in Ids : serving' = <<Frame("REQUEST", id, 0)>>
    BY <1>8 DEF ServerMisreads
  <2>2. Frame("REQUEST", id, 0) \in Requests
    BY FrameType
  <2>3. serving' \in Seq(Requests)
    BY <2>1, <2>2, OneOf
  <2> QED
    BY <1>5, <1>8, <2>3 DEF ServerMisreads
<1>9. CASE Notify
  <2>1. notes' \in 0..MaxNotes /\ sending' \in 0..MaxNotes
    BY <1>1, <1>9, SessionBounds DEF ServerTypes, Notify
  <2> QED
    BY <1>1, <1>9, <2>1 DEF ServerTypes, Notify
<1>16. CASE NoteSent
  <2>1. sending \in Nat /\ sending' \in 0..MaxNotes
    BY <1>1, <1>16, SessionBounds DEF ServerTypes, NoteSent
  <2>2. client_ \in Connections /\ notified \in [Connections -> Seq(Nat)]
    BY <1>1, <1>16, InConnections DEF ServerTypes, NoteSent, Deliver
  <2>3. notified' = [notified EXCEPT ![client_] = Append(notified[client_], sending)]
    BY <1>16 DEF NoteSent
  <2>4. Append(notified[client_], sending) \in Seq(Nat)
    BY <2>1, <2>2, AppendOf
  <2>5. notified' \in [Connections -> Seq(Nat)]
    BY <2>2, <2>3, <2>4
  <2> QED
    BY <1>1, <1>16, <2>1, <2>5 DEF ServerTypes, NoteSent
<1>10. CASE LoseClient
  BY <1>1, <1>10, SessionBounds DEF ServerTypes, LoseClient
<1>11. CASE Connect \/ Disconnect \/ SendRequest \/ WriteRequest \/ WriteFails
  BY <1>2, <1>11 DEF Connect, Disconnect, SendRequest, WriteRequest, WriteFails
<1>12. CASE ReceiveResponse \/ ReceiveStale \/ ReceiveNote \/ PollNote \/ PollStray
  BY <1>2, <1>12 DEF ReceiveResponse, ReceiveStale, ReceiveNote, PollNote, PollStray
<1>13. CASE GiveUp \/ ReadCut \/ ReadFails \/ Misread
  BY <1>2, <1>13 DEF GiveUp, ReadCut, ReadFails, ReadEnds, Misread
<1>14. CASE ServerReadCut
  BY <1>2, <1>14 DEF ServerReadCut
<1>15. CASE UNCHANGED sessionVars
  BY <1>2, <1>15 DEF sessionVars
<1> QED
  BY <1>3, <1>4, <1>6, <1>7, <1>8, <1>9, <1>10, <1>11, <1>12, <1>13, <1>14, <1>15, <1>16
     DEF SessionActions, ServerStart, ServerStop

LEMMA SessionTypeStep ==
  SessionTypeOK /\ [SessionNext]_sessionVars => SessionTypeOK'
<1> SUFFICES ASSUME SessionTypeOK, SessionActions PROVE SessionTypeOK'
  BY SessionCases
<1>1. CallTypes' /\ ClientTypes' /\ NetworkTypes' /\ ServerTypes'
  BY CallTypesStep, ClientTypesStep, NetworkTypesStep, ServerTypesStep
<1> QED
  BY <1>1 DEF SessionTypeOK, CallTypes, ClientTypes, NetworkTypes, ServerTypes,
              Requests, Messages

-----------------------------------------------------------------------------
(***************************************************************************)
(* Connections.                                                            *)
(***************************************************************************)
\* What a step may change: readers only give up, and calls and connections are only
\* added.
LEMMA OnlyMore ==
  ASSUME SessionTypeOK, SessionActions
  PROVE  /\ garbled \subseteq garbled'
         /\ calls' = calls \/ calls' = calls + 1
         /\ calls' # calls => SendRequest
         /\ connections' = connections \/ connections' = connections + 1
         /\ connections' # connections => Connect
<1> USE DEF callVars, networkVars, serverVars
<1>1. CASE Connect \/ Disconnect \/ WriteRequest \/ WriteFails
  BY <1>1 DEF Connect, Disconnect, WriteRequest, WriteFails, CloseSocket, Return
<1>2. CASE SendRequest
  BY <1>2 DEF SendRequest
<1>3. CASE ReceiveResponse \/ ReceiveStale \/ ReceiveNote \/ PollNote \/ PollStray
  BY <1>3 DEF ReceiveResponse, ReceiveStale, ReceiveNote, PollNote, PollStray, Incoming,
              Return
<1>4. CASE GiveUp \/ ReadCut \/ ReadFails
  BY <1>4 DEF GiveUp, ReadCut, ReadFails, Cut, CloseSocket, Return, ReadEnds
<1>5. CASE Misread
  BY <1>5 DEF Misread, Return
<1>6. CASE ServerStart \/ ServerStop \/ Accept \/ Serve \/ LoseClient
  BY <1>6 DEF ServerStart, ServerStop, StopServer, Accept, Serve, LoseClient
<1>7. CASE Respond \/ Notify \/ NoteSent
  BY <1>7 DEF Respond, Notify, NoteSent, Deliver
<1>8. CASE ServerReadCut \/ ServerMisreads
  BY <1>8 DEF ServerReadCut, ServerMisreads, Cut
<1>9. CASE UNCHANGED sessionVars
  BY <1>9 DEF sessionVars
<1> QED
  BY <1>1, <1>2, <1>3, <1>4, <1>5, <1>6, <1>7, <1>8, <1>9 DEF SessionActions

\* A connection without a cut has had none before.
LEMMA CleanBefore ==
  ASSUME SessionTypeOK, SessionActions, NEW c, Clean(c)'
  PROVE  Clean(c)
  BY OnlyMore DEF Clean

-----------------------------------------------------------------------------
(***************************************************************************)
(* Calls and their ids.                                                    *)
(***************************************************************************)
LEMMA CallStep ==
  SessionTypeOK /\ CallInv /\ [SessionNext]_sessionVars => CallInv'
<1> SUFFICES ASSUME SessionTypeOK, CallInv, SessionActions PROVE CallInv'
  BY SessionCases
<1>1. /\ calls \in Nat /\ lock \in {"free", "write", "await"}
      /\ socket_ \in Nat /\ connections \in Nat /\ MaxCalls \in 0..IdModulus
      /\ IdModulus \in Nat \ {0}
  BY IdsAssumption, SessionBounds DEF SessionTypeOK
<1> USE DEF callVars, networkVars, serverVars, CallInv
<1>2. CASE Connect \/ Disconnect
  BY <1>1, <1>2 DEF Connect, Disconnect, CloseSocket
<1>3. CASE SendRequest
  BY <1>1, <1>3 DEF SendRequest, IdOf
<1>4. CASE WriteRequest
  BY <1>1, <1>4 DEF WriteRequest
<1>5. CASE WriteFails \/ ReceiveResponse \/ GiveUp
  BY <1>1, <1>5 DEF WriteFails, ReceiveResponse, GiveUp, Return
<1>6. CASE ReceiveStale \/ ReceiveNote \/ PollNote \/ PollStray
  BY <1>6 DEF ReceiveStale, ReceiveNote, PollNote, PollStray
<1>7. CASE ReadCut \/ ReadFails
  BY <1>7 DEF ReadCut, ReadFails, ReadEnds
<1>8. CASE Misread
  BY <1>8 DEF Misread, Return
<1>9. CASE ServerStart \/ ServerStop \/ Accept \/ Serve \/ LoseClient
  BY <1>9 DEF ServerStart, ServerStop, StopServer, Accept, Serve, LoseClient
<1>10. CASE Respond \/ Notify \/ NoteSent \/ ServerReadCut \/ ServerMisreads
  BY <1>10 DEF Respond, Notify, NoteSent, ServerReadCut, ServerMisreads
<1>11. CASE UNCHANGED sessionVars
  BY <1>11 DEF sessionVars
<1> QED
  BY <1>2, <1>3, <1>4, <1>5, <1>6, <1>7, <1>8, <1>9, <1>10, <1>11 DEF SessionActions

LEMMA OwnedTail ==
  ASSUME NEW S, NEW q \in Seq(S), q # <<>>, NEW n, Owned(n, q)
  PROVE  /\ Owned(n, Tail(q))
         /\ Head(q).kind # "NOTE" => OwnId(n, Head(q))
  BY TailOf DEF Owned

LEMMA OwnedAppend ==
  ASSUME NEW S, NEW q \in Seq(S), NEW x \in S, NEW n, Owned(n, q),
         x.kind # "NOTE" => OwnId(n, x)
  PROVE  Owned(n, Append(q, x))
  BY AppendOf DEF Owned

LEMMA OwnedLater ==
  ASSUME NEW q, NEW n \in Nat, NEW m \in Nat, n <= m, Owned(n, q)
  PROVE  Owned(m, q)
  BY DEF Owned, OwnId

LEMMA OwnedNone == \A n : Owned(n, <<>>)
  BY DEF Owned

LEMMA OwnedOne ==
  ASSUME NEW S, NEW x \in S, NEW n, x.kind # "NOTE" => OwnId(n, x)
  PROVE  Owned(n, <<x>>)
  BY OneOf DEF Owned

\* The frames on their way.
LEMMA ChannelsStep ==
  ASSUME SessionTypeOK, CallInv, FramesInv, SessionActions,
         NEW c \in Connections, Clean(c)'
  PROVE  Owned(calls, toServer'[c]) /\ Owned(calls, toClient'[c])
<1>1. /\ toServer \in [Connections -> Seq(Requests)]
      /\ toClient \in [Connections -> Seq(Messages)]
      /\ serving \in Seq(Requests)
  BY DEF SessionTypeOK, Requests, Messages
<1>2. Owned(calls, toServer[c]) /\ Owned(calls, toClient[c])
  BY CleanBefore DEF FramesInv
<1>3. toServer[c] \in Seq(Requests) /\ toClient[c] \in Seq(Messages)
  BY <1>1
<1>4. CASE UNCHANGED <<toServer, toClient>>
  BY <1>2, <1>4
<1>5. CASE UNCHANGED toServer /\ toClient' = Discarded(toClient, socket_)
  BY <1>1, <1>2, <1>5, DiscardedType, OwnedNone
<1>6. CASE WriteRequest
  <2>1. PICK id \in pending_request_id_ :
          toServer' = [toServer EXCEPT
                         ![socket_] = Append(toServer[socket_], Frame("REQUEST", id, calls))]
    BY <1>6 DEF WriteRequest
  <2> DEFINE f == Frame("REQUEST", id, calls)
  <2>2. f \in Requests
    BY <2>1 DEF Frame, Frames, SessionTypeOK, Requests
  <2>3. OwnId(calls, f)
    BY <1>6, <2>1, SMTT(30) DEF WriteRequest, CallInv, OwnId, Frame, SessionTypeOK
  <2> HIDE DEF f
  <2>4. Owned(calls, Append(toServer[c], f))
    BY <1>2, <1>3, <2>2, <2>3, OwnedAppend
  <2>5. toServer'[c] = toServer[c] \/ toServer'[c] = Append(toServer[c], f)
    BY <1>1, <2>1 DEF f
  <2>6. toClient' = toClient
    BY <1>6 DEF WriteRequest
  <2> QED
    BY <1>2, <2>4, <2>5, <2>6
<1>7. CASE Incoming("RESPONSE") \/ Incoming("NOTE")
  <2>1. /\ toClient[socket_] # <<>> /\ toServer' = toServer
        /\ toClient' = [toClient EXCEPT ![socket_] = Tail(toClient[socket_])]
    BY <1>7 DEF Incoming
  <2>2. CASE c = socket_
    <3>1. toClient'[c] = Tail(toClient[c]) /\ toClient[c] # <<>>
      BY <1>1, <2>1, <2>2
    <3> QED
      BY <1>2, <1>3, <2>1, <3>1, OwnedTail
  <2>3. CASE c # socket_
    BY <1>1, <1>2, <2>1, <2>3
  <2> QED
    BY <2>2, <2>3
<1>8. CASE StopServer
  BY <1>2, <1>8, OwnedNone DEF StopServer
<1>9. CASE Serve
  <2>1. /\ toServer[client_] # <<>> /\ toClient' = toClient
        /\ toServer' = [toServer EXCEPT ![client_] = Tail(toServer[client_])]
    BY <1>9 DEF Serve
  <2>2. CASE c = client_
    <3>1. toServer'[c] = Tail(toServer[c]) /\ toServer[c] # <<>>
      BY <1>1, <2>1, <2>2
    <3> QED
      BY <1>2, <1>3, <2>1, <3>1, OwnedTail
  <2>3. CASE c # client_
    BY <1>1, <1>2, <2>1, <2>3
  <2> QED
    BY <2>2, <2>3
<1>10. ASSUME NEW f \in Messages, Deliver(f),
              c = client_ /\ f.kind # "NOTE" => OwnId(calls, f)
       PROVE  Owned(calls, toServer'[c]) /\ Owned(calls, toClient'[c])
  <2>1. /\ toServer' = toServer
        /\ toClient' = [toClient EXCEPT ![client_] = Append(toClient[client_], f)]
    BY <1>10 DEF Deliver
  <2>2. CASE c = client_
    <3>1. toClient'[c] = Append(toClient[c], f)
      BY <1>1, <2>1, <2>2
    <3> QED
      BY <1>2, <1>3, <1>10, <2>1, <2>2, <3>1, OwnedAppend
  <2>3. CASE c # client_
    BY <1>1, <1>2, <2>1, <2>3
  <2> QED
    BY <2>2, <2>3
<1>11. CASE Respond
  <2> DEFINE f == Frame("RESPONSE", serving[1].id, serving[1].of)
  <2>1. serving[1] \in Requests /\ 1 \in 1..Len(serving)
    BY <1>1, <1>11 DEF Respond
  <2>2. f \in Messages /\ f.id = serving[1].id /\ f.of = serving[1].of
    BY <2>1 DEF Frame, Frames, Requests, Messages
  <2>3. ASSUME c = client_ PROVE OwnId(calls, f)
    <3>1. client_ # 0 /\ Clean(client_)
      BY <2>3, CleanBefore DEF Connections
    <3>2. serving[1].kind # "NOTE"
      BY <2>1 DEF Requests, Frames
    <3>3. OwnId(calls, serving[1])
      BY <2>1, <3>1, <3>2 DEF FramesInv, Owned
    <3> QED
      BY <2>2, <3>3 DEF OwnId
  <2>4. Deliver(f) \/ UNCHANGED networkVars
    BY <1>11 DEF Respond
  <2> HIDE DEF f
  <2>5. CASE Deliver(f)
    BY <1>10, <2>2, <2>3, <2>5
  <2>6. CASE UNCHANGED networkVars
    BY <1>4, <2>6 DEF networkVars
  <2> QED
    BY <2>4, <2>5, <2>6
<1>12. CASE NoteSent
  <2> DEFINE f == Frame("NOTE", 0, sending)
  <2>1. f \in Messages /\ f.kind = "NOTE"
    BY <1>12, IdsAssumption, SessionBounds DEF Frame, Frames, Messages, Ids, SessionTypeOK
  <2>2. Deliver(f)
    BY <1>12 DEF NoteSent
  <2> HIDE DEF f
  <2> QED
    BY <1>10, <2>1, <2>2
<1>13. CASE LoseClient
  <2>1. toServer' = Discarded(toServer, client_) /\ toClient' = toClient
    BY <1>13 DEF LoseClient
  <2>2. toServer'[c] = <<>> \/ toServer'[c] = toServer[c]
    BY <1>1, <2>1, DiscardedType
  <2> QED
    BY <1>2, <2>1, <2>2, OwnedNone
<1>14. CASE SendRequest \/ GiveUp \/ ReadCut \/ Misread \/ Notify
  BY <1>4, <1>14 DEF SendRequest, GiveUp, ReadCut, Misread, Notify, networkVars
<1>15. CASE Accept \/ ServerReadCut \/ ServerMisreads \/ UNCHANGED sessionVars
  BY <1>4, <1>15 DEF Accept, ServerReadCut, ServerMisreads, sessionVars, networkVars
<1>16. CASE Connect \/ Disconnect \/ WriteFails \/ ReadFails
  BY <1>5, <1>16 DEF Connect, Disconnect, WriteFails, ReadFails, CloseSocket
<1>17. CASE ReceiveResponse \/ ReceiveStale \/ ReceiveNote \/ PollNote \/ PollStray
  BY <1>7, <1>17 DEF ReceiveResponse, ReceiveStale, ReceiveNote, PollNote, PollStray
<1> QED
  BY <1>6, <1>8, <1>9, <1>11, <1>12, <1>13, <1>14, <1>15, <1>16, <1>17
     DEF SessionActions, ServerStart, ServerStop

\* The request in the handler.
LEMMA ServingStep ==
  ASSUME SessionTypeOK, FramesInv, SessionActions, client_' # 0, Clean(client_)'
  PROVE  Owned(calls, serving')
<1> USE DEF serverVars
<1>1. CASE Serve
  <2>1. client_ \in Connections /\ Clean(client_) /\ toServer[client_] # <<>>
        /\ serving' = <<Head(toServer[client_])>>
    <3>1. client_ \in Connections
      BY <1>1 DEF Serve, SessionTypeOK, Connections
    <3>2. client_' = client_
      BY <1>1 DEF Serve
    <3>3. Clean(client_)
      BY <1>1, <3>2, OnlyMore DEF Clean
    <3> QED
      BY <1>1, <3>1, <3>3 DEF Serve
  <2>2. toServer[client_] \in Seq(Requests)
    BY <2>1 DEF SessionTypeOK, Requests
  <2>3. Owned(calls, toServer[client_])
    BY <2>1 DEF FramesInv
  <2> QED
    BY <2>1, <2>2, <2>3, OwnedTail, OwnedOne, TailOf
<1>2. CASE Respond
  BY <1>2, OwnedNone DEF Respond
<1>3. CASE Accept
  BY <1>3, OwnedNone DEF Accept, ServerIdle
<1>4. CASE StopServer \/ LoseClient
  BY <1>4 DEF StopServer, LoseClient
<1>5. CASE ServerMisreads
  BY <1>5 DEF ServerMisreads, Clean, networkVars
<1>6. CASE UNCHANGED <<client_, serving>>
  <2>1. Clean(client_)
    BY <1>6, OnlyMore DEF Clean
  <2> QED
    BY <1>6, <2>1 DEF FramesInv
<1>7. CASE Connect \/ Disconnect \/ SendRequest \/ WriteRequest \/ WriteFails
  BY <1>6, <1>7 DEF Connect, Disconnect, SendRequest, WriteRequest, WriteFails
<1>8. CASE ReceiveResponse \/ ReceiveStale \/ ReceiveNote \/ PollNote \/ PollStray
  BY <1>6, <1>8 DEF ReceiveResponse, ReceiveStale, ReceiveNote, PollNote, PollStray
<1>9. CASE GiveUp \/ ReadCut \/ ReadFails \/ Misread
  BY <1>6, <1>9 DEF GiveUp, ReadCut, ReadFails, ReadEnds, Misread
<1>10. CASE Notify \/ NoteSent \/ ServerReadCut \/ UNCHANGED sessionVars
  BY <1>6, <1>10 DEF Notify, NoteSent, ServerReadCut, sessionVars
<1> QED
  BY <1>1, <1>2, <1>3, <1>4, <1>5, <1>7, <1>8, <1>9, <1>10
     DEF SessionActions, ServerStart, ServerStop

LEMMA FramesStep ==
  SessionTypeOK /\ CallInv /\ FramesInv /\ [SessionNext]_sessionVars => FramesInv'
<1> SUFFICES ASSUME SessionTypeOK, CallInv, FramesInv, SessionActions
             PROVE  FramesInv'
  BY SessionCases
<1>1. calls \in Nat /\ calls' \in Nat /\ calls <= calls'
  BY TypeGroups, OnlyMore, IdsAssumption DEF CallTypes
<1>2. \A c \in Connections :
        Clean(c)' => Owned(calls', toServer'[c]) /\ Owned(calls', toClient'[c])
  BY <1>1, ChannelsStep, OwnedLater
<1>3. client_' # 0 /\ Clean(client_)' => Owned(calls', serving')
  BY <1>1, ServingStep, OwnedLater
<1> QED
  BY <1>2, <1>3 DEF FramesInv

\* What sendRequest returns is the answer to its call.
LEMMA AnswerStep ==
  SessionTypeOK /\ AnswersInv /\ [SessionNext]_sessionVars => AnswersOwnRequest'
<1> SUFFICES ASSUME SessionTypeOK, AnswersInv, SessionActions,
                    Clean(result.connection)'
             PROVE  result'.answer = result'.call
  BY SessionCases DEF AnswersOwnRequest
<1> USE DEF callVars
<1>1. CASE ReceiveResponse
  <2> DEFINE f == Head(toClient[socket_])
  <2>1. /\ socket_ \in Connections /\ f \in Messages /\ f.kind = "RESPONSE"
        /\ toClient[socket_] # <<>> /\ f.id \in pending_request_id_
        /\ lock # "free"
        /\ result' = [call |-> calls, answer |-> f.of, connection |-> socket_]
    BY <1>1, IncomingType DEF ReceiveResponse, Incoming, Result
  <2>2. Clean(socket_)
    <3>1. garbled' = garbled /\ result'.connection = socket_
      BY <1>1, <2>1 DEF ReceiveResponse, Incoming
    <3> QED
      BY <3>1 DEF Clean
  <2>3. toClient[socket_] \in Seq(Messages) /\ Owned(calls, toClient[socket_])
    BY <2>1, <2>2 DEF SessionTypeOK, Messages, AnswersInv, FramesInv
  <2> HIDE DEF f
  <2>4. OwnId(calls, f)
    BY <2>1, <2>3, OwnedTail DEF f
  <2>5. f.of \in 1..IdModulus /\ calls \in 1..IdModulus /\ IdOf(f.of) = IdOf(calls)
    <3>1. f.of \in 1..calls /\ f.id = IdOf(f.of)
      BY <2>4 DEF OwnId
    <3>2. calls # 0 /\ f.id = IdOf(calls)
      BY <2>1 DEF AnswersInv, CallInv
    <3>3. calls \in 0..MaxCalls /\ MaxCalls \in 0..IdModulus /\ IdModulus \in Nat
      BY IdsAssumption DEF SessionTypeOK
    <3>4. calls \in 1..IdModulus /\ f.of \in 1..IdModulus
      BY <3>1, <3>2, <3>3
    <3> QED
      BY <3>1, <3>2, <3>4
  <2>6. f.of = calls
    BY <2>5, IdOfInjective
  <2> QED
    BY <2>1, <2>6
<1>2. CASE Misread
  <2>1. CASE Result(0)
    BY <1>2, <2>1 DEF Misread, Result, Clean, networkVars
  <2>2. CASE UNCHANGED callVars
    <3>1. Clean(result.connection)
      BY <1>2, <2>2 DEF Misread, Clean, networkVars
    <3> QED
      BY <2>2, <3>1 DEF AnswersInv, AnswersOwnRequest
  <2> QED
    BY <1>2, <2>1, <2>2 DEF Misread
<1>3. CASE UNCHANGED result
  <2>1. Clean(result.connection)
    BY <1>3, OnlyMore DEF Clean
  <2> QED
    BY <1>3, <2>1 DEF AnswersInv, AnswersOwnRequest
<1>4. CASE Connect \/ Disconnect \/ WriteRequest \/ WriteFails
  BY <1>3, <1>4 DEF Connect, Disconnect, WriteRequest, WriteFails
<1>5. CASE ReceiveStale \/ ReceiveNote \/ PollNote \/ PollStray
  BY <1>3, <1>5 DEF ReceiveStale, ReceiveNote, PollNote, PollStray
<1>6. CASE GiveUp \/ ReadCut \/ ReadFails
  BY <1>3, <1>6 DEF GiveUp, ReadCut, ReadFails, ReadEnds
<1>7. CASE ServerStart \/ ServerStop \/ Accept \/ Serve \/ LoseClient
  BY <1>3, <1>7 DEF ServerStart, ServerStop, StopServer, Accept, Serve, LoseClient
<1>8. CASE \/ Respond \/ Notify \/ NoteSent \/ ServerReadCut \/ ServerMisreads
           \/ UNCHANGED sessionVars
  BY <1>3, <1>8 DEF Respond, Notify, NoteSent, ServerReadCut, ServerMisreads, sessionVars
<1>9. CASE SendRequest
  BY <1>9 DEF SendRequest, NoResult
<1> QED
  BY <1>1, <1>2, <1>4, <1>5, <1>6, <1>7, <1>8, <1>9 DEF SessionActions

-----------------------------------------------------------------------------
(***************************************************************************)
(* Notifications.                                                          *)
(***************************************************************************)
NoteOf(f) == IF f.kind = "NOTE" THEN <<f.of>> ELSE <<>>

NotesOfEach(q) == [i \in 1..Len(q) |-> NoteOf(q[i])]

LEMMA NotesInIs ==
  ASSUME NEW q
  PROVE  NotesIn(q) = FlattenSeq(NotesOfEach(q))
  BY Zenon DEF NotesIn, NotesOfEach, NoteOf

LEMMA NoteOfType == ASSUME NEW f \in Messages PROVE NoteOf(f) \in Seq(Nat)
<1>1. f.of \in Nat
  BY DEF Messages, Frames
<1> QED
  BY <1>1, OneOf, NoFrames DEF NoteOf

LEMMA NotesOfEachType ==
  ASSUME NEW q \in Seq(Messages)
  PROVE  /\ NotesOfEach(q) \in Seq(Seq(Nat)) /\ Len(NotesOfEach(q)) = Len(q)
         /\ \A i \in 1..Len(q) : NotesOfEach(q)[i] = NoteOf(q[i])
<1>1. Len(q) \in Nat /\ \A i \in 1..Len(q) : q[i] \in Messages
  OBVIOUS
<1>2. \A i \in 1..Len(q) : NoteOf(q[i]) \in Seq(Nat)
  BY <1>1, NoteOfType
<1>3. NotesOfEach(q) \in [1..Len(q) -> Seq(Nat)]
  BY <1>2, Zenon DEF NotesOfEach
<1>4. \A i \in 1..Len(q) : NotesOfEach(q)[i] = NoteOf(q[i])
  BY Zenon DEF NotesOfEach
<1> QED
  BY <1>1, <1>3, <1>4, FunctionIsSeq

LEMMA NotesInType == ASSUME NEW q \in Seq(Messages) PROVE NotesIn(q) \in Seq(Nat)
  BY NotesInIs, NotesOfEachType, FlattenSeqType

LEMMA NotesInNone == NotesIn(<<>>) = <<>>
<1>1. <<>> \in Seq(Messages) /\ Len(<<>>) = 0
  OBVIOUS
<1>2. NotesOfEach(<<>>) \in Seq(Seq(Nat)) /\ Len(NotesOfEach(<<>>)) = 0
  BY <1>1, NotesOfEachType
<1>3. NotesOfEach(<<>>) = <<>>
  BY <1>2
<1> QED
  BY <1>3, NotesInIs, FlattenSeqEmpty

LEMMA NotesInAppend ==
  ASSUME NEW q \in Seq(Messages), NEW f \in Messages
  PROVE  NotesIn(Append(q, f)) = NotesIn(q) \o NoteOf(f)
<1> DEFINE v == Append(q, f)
           s == NotesOfEach(q)
           t == NotesOfEach(v)
           x == NoteOf(f)
           u == Append(s, x)
<1>1. /\ v \in Seq(Messages) /\ Len(v) = Len(q) + 1 /\ Len(q) \in Nat
      /\ v[Len(q) + 1] = f /\ \A i \in 1..Len(q) : v[i] = q[i]
  OBVIOUS
<1>2. x \in Seq(Nat)
  BY NoteOfType
<1> HIDE DEF v
<1>3. /\ s \in Seq(Seq(Nat)) /\ Len(s) = Len(q)
      /\ \A i \in 1..Len(q) : s[i] = NoteOf(q[i])
  BY NotesOfEachType
<1>4. /\ t \in Seq(Seq(Nat)) /\ Len(t) = Len(v)
      /\ \A i \in 1..Len(v) : t[i] = NoteOf(v[i])
  BY <1>1, NotesOfEachType
<1> HIDE DEF s, t, x
<1>5. /\ u \in Seq(Seq(Nat)) /\ Len(u) = Len(s) + 1
      /\ u[Len(s) + 1] = x /\ \A i \in 1..Len(s) : u[i] = s[i]
  BY <1>2, <1>3, AppendIs
<1> HIDE DEF u
<1>6. ASSUME NEW i \in 1..Len(t) PROVE t[i] = u[i]
  <2>1. i \in 1..Len(v) /\ (i = Len(q) + 1 \/ i \in 1..Len(q))
    BY <1>1, <1>4
  <2>2. CASE i = Len(q) + 1
    BY <1>1, <1>3, <1>4, <1>5, <2>1, <2>2 DEF x
  <2>3. CASE i \in 1..Len(q)
    BY <1>1, <1>3, <1>4, <1>5, <2>1, <2>3
  <2> QED
    BY <2>1, <2>2, <2>3
<1>7. Len(t) = Len(u)
  BY <1>1, <1>3, <1>4, <1>5
<1>8. t = u
  BY <1>4, <1>5, <1>6, <1>7, SeqEqual
<1>9. FlattenSeq(Append(s, x)) = FlattenSeq(s) \o x
  BY <1>2, <1>3, FlattenSeqAppend
<1> QED
  BY <1>8, <1>9, NotesInIs DEF s, t, u, x, v

LEMMA NotesInFirst ==
  ASSUME NEW q \in Seq(Messages), q # <<>>
  PROVE  NotesIn(q) = NoteOf(Head(q)) \o NotesIn(Tail(q))
<1> DEFINE v == Tail(q)
           s == NotesOfEach(v)
           t == NotesOfEach(q)
           x == NoteOf(Head(q))
           u == <<x>> \o s
<1>1. /\ v \in Seq(Messages) /\ Len(q) = Len(v) + 1 /\ Len(v) \in Nat
      /\ \A i \in 1..Len(v) : v[i] = q[i + 1]
      /\ Head(q) = q[1] /\ Head(q) \in Messages
  OBVIOUS
<1>2. x \in Seq(Nat)
  BY <1>1, NoteOfType
<1> HIDE DEF v
<1>3. /\ s \in Seq(Seq(Nat)) /\ Len(s) = Len(v)
      /\ \A i \in 1..Len(v) : s[i] = NoteOf(v[i])
  BY <1>1, NotesOfEachType
<1>4. /\ t \in Seq(Seq(Nat)) /\ Len(t) = Len(q)
      /\ \A i \in 1..Len(q) : t[i] = NoteOf(q[i])
  BY NotesOfEachType
<1> HIDE DEF s, t
<1>5. /\ u \in Seq(Seq(Nat)) /\ Len(u) = Len(s) + 1
      /\ u[1] = x /\ \A i \in 1..Len(s) : u[i + 1] = s[i]
  <2> HIDE DEF x
  <2> QED
    BY <1>2, <1>3, FirstIs
<1> HIDE DEF u
<1>6. ASSUME NEW i \in 1..Len(t) PROVE t[i] = u[i]
  <2>1. CASE i = 1
    BY <1>1, <1>4, <1>5, <2>1
  <2>2. CASE i # 1
    <3> DEFINE j == i - 1
    <3>1. j \in 1..Len(v) /\ i = j + 1 /\ i \in 1..Len(q)
      BY <1>1, <1>4, <2>2
    <3> HIDE DEF j
    <3>2. u[i] = NoteOf(v[j]) /\ v[j] = q[i]
      BY <1>1, <1>3, <1>5, <3>1
    <3> QED
      BY <1>4, <3>1, <3>2
  <2> QED
    BY <2>1, <2>2
<1>7. Len(t) = Len(u)
  BY <1>1, <1>3, <1>4, <1>5
<1>8. t = u
  BY <1>4, <1>5, <1>6, <1>7, SeqEqual
<1> HIDE DEF x
<1>9. FlattenSeq(<<x>> \o s) = x \o FlattenSeq(s)
  BY <1>2, <1>3, FlattenSeqFirst
<1> QED
  BY <1>8, <1>9, NotesInIs DEF s, t, u, x, v

LEMMA MoveFirst ==
  ASSUME NEW S, NEW s \in Seq(S), NEW t \in Seq(S), NEW x \in S
  PROVE  s \o (<<x>> \o t) = Append(s, x) \o t
  BY SMTT(30)

LEMMA MoveLast ==
  ASSUME NEW S, NEW s \in Seq(S), NEW t \in Seq(S), NEW x \in S
  PROVE  s \o (t \o <<x>>) = Append(s \o t, x)
  OBVIOUS

LEMMA MoveNone ==
  ASSUME NEW S, NEW t \in Seq(S)
  PROVE  <<>> \o t = t /\ t \o <<>> = t
  OBVIOUS

LEMMA ConnectionsStep ==
  SessionTypeOK /\ ConnectionsInv /\ [SessionNext]_sessionVars => ConnectionsInv'
<1> SUFFICES ASSUME SessionTypeOK, ConnectionsInv, SessionActions
             PROVE  ConnectionsInv'
  BY SessionCases
<1>1. /\ connections \in Nat /\ socket_ \in Nat /\ client_ \in Nat
      /\ backlog \in Seq(Connections)
      /\ toClient \in [Connections -> Seq(Messages)]
      /\ notified \in [Connections -> Seq(Nat)]
      /\ dispatched \in [Connections -> Seq(Nat)]
  BY SessionBounds DEF SessionTypeOK, Messages
<1>2. /\ connections' \in Nat /\ connections <= connections'
  BY <1>1, OnlyMore
<1>6. client_ <= connections'
  BY <1>1, <1>2 DEF ConnectionsInv
<1>7. ASSUME NEW i \in 1..Len(backlog) PROVE backlog[i] <= connections'
  <2> DEFINE b == backlog[i]
  <2>1. b \in Connections
    BY <1>1
  <2>2. b <= connections
    BY DEF ConnectionsInv
  <2> HIDE DEF b
  <2>3. b \in Nat
    BY <2>1, SessionBounds DEF Connections
  <2>4. b <= connections'
    BY <1>1, <1>2, <2>2, <2>3
  <2> QED
    BY <2>4 DEF b
<1> USE DEF callVars, networkVars, serverVars
<1>3. socket_' <= connections'
  <2>1. CASE UNCHANGED socket_ \/ socket_' = 0 \/ socket_' = connections'
    BY <1>1, <1>2, <2>1 DEF ConnectionsInv
  <2>2. CASE Connect \/ Disconnect \/ SendRequest \/ WriteRequest \/ WriteFails
    BY <2>1, <2>2 DEF Connect, Disconnect, SendRequest, WriteRequest, WriteFails, CloseSocket
  <2>3. CASE ReceiveResponse \/ ReceiveStale \/ ReceiveNote \/ PollNote \/ PollStray
    BY <2>1, <2>3 DEF ReceiveResponse, ReceiveStale, ReceiveNote, PollNote, PollStray
  <2>4. CASE GiveUp \/ ReadCut \/ ReadFails \/ Misread
    BY <2>1, <2>4 DEF GiveUp, ReadCut, ReadFails, Misread, CloseSocket
  <2>5. CASE ServerStart \/ ServerStop \/ Accept \/ Serve \/ LoseClient
    BY <2>1, <2>5 DEF ServerStart, ServerStop, StopServer, Accept, Serve, LoseClient
  <2>6. CASE \/ Respond \/ Notify \/ NoteSent \/ ServerReadCut \/ ServerMisreads
             \/ UNCHANGED sessionVars
    BY <2>1, <2>6 DEF Respond, Notify, NoteSent, ServerReadCut, ServerMisreads, sessionVars
  <2> QED
    BY <2>2, <2>3, <2>4, <2>5, <2>6 DEF SessionActions
<1>4. /\ client_' <= connections'
      /\ \A i \in 1..Len(backlog') : backlog'[i] <= connections'
  <2>1. CASE UNCHANGED <<client_, backlog>>
    BY <1>6, <1>7, <2>1
  <2>2. CASE Connect
    <3>1. connections' \in Connections /\ backlog' = Append(backlog, connections')
          /\ client_' = client_
      BY <1>1, <2>2, SessionBounds DEF Connect, Connections
    <3>2. \A i \in 1..Len(backlog') :
            backlog'[i] = connections' \/ (i \in 1..Len(backlog) /\ backlog'[i] = backlog[i])
      BY <1>1, <3>1, AppendOf
    <3>3. ASSUME NEW i \in 1..Len(backlog') PROVE backlog'[i] <= connections'
      BY <1>2, <1>7, <3>2
    <3> QED
      BY <1>6, <3>1, <3>3
  <2>3. CASE StopServer
    BY <1>2, <2>3 DEF StopServer
  <2>4. CASE Accept
    BY <1>1, <1>2, <2>4, TailOf DEF Accept, ConnectionsInv
  <2>5. CASE LoseClient
    BY <1>1, <1>2, <2>5 DEF LoseClient, ConnectionsInv
  <2>6. CASE Disconnect \/ SendRequest \/ WriteRequest \/ WriteFails
    BY <2>1, <2>6 DEF Disconnect, SendRequest, WriteRequest, WriteFails, CloseSocket
  <2>7. CASE ReceiveResponse \/ ReceiveStale \/ ReceiveNote \/ PollNote \/ PollStray
    BY <2>1, <2>7 DEF ReceiveResponse, ReceiveStale, ReceiveNote, PollNote, PollStray,
                      Incoming
  <2>8. CASE GiveUp \/ ReadCut \/ ReadFails \/ Misread
    BY <2>1, <2>8 DEF GiveUp, ReadCut, ReadFails, ReadEnds, Misread, CloseSocket
  <2>9. CASE Serve \/ Respond \/ Notify \/ NoteSent
    BY <2>1, <2>9 DEF Serve, Respond, Notify, NoteSent, Deliver
  <2>10. CASE ServerReadCut \/ ServerMisreads \/ UNCHANGED sessionVars
    BY <2>1, <2>10 DEF ServerReadCut, ServerMisreads, sessionVars
  <2> QED
    BY <2>2, <2>3, <2>4, <2>5, <2>6, <2>7, <2>8, <2>9, <2>10
       DEF SessionActions, ServerStart, ServerStop
<1>5. ASSUME NEW c \in Connections, c > connections'
      PROVE  toClient'[c] = <<>> /\ notified'[c] = <<>> /\ dispatched'[c] = <<>>
  <2>1. c \in Nat /\ c > connections /\ c # socket_ /\ c # client_
    BY <1>1, <1>2, <1>5 DEF ConnectionsInv, Connections
  <2>2. toClient[c] = <<>> /\ notified[c] = <<>> /\ dispatched[c] = <<>>
    BY <1>5, <2>1 DEF ConnectionsInv
  <2>3. CASE UNCHANGED <<toClient, notified, dispatched>>
    BY <2>2, <2>3
  <2>4. CASE toClient' = Discarded(toClient, socket_) /\ UNCHANGED <<notified, dispatched>>
    <3>1. toClient'[c] = <<>> \/ toClient'[c] = toClient[c]
      BY <1>5, <2>4 DEF Discarded
    <3> QED
      BY <2>2, <2>4, <3>1
  <2>5. CASE (Incoming("RESPONSE") \/ Incoming("NOTE")) /\ UNCHANGED notified
             /\ (UNCHANGED dispatched \/ \E of \in Nat : Dispatch(of))
    <3>1. toClient'[c] = toClient[c]
      BY <1>1, <2>1, <2>5 DEF Incoming
    <3>2. dispatched'[c] = dispatched[c]
      BY <1>1, <2>1, <2>5 DEF Dispatch
    <3> QED
      BY <2>2, <2>5, <3>1, <3>2
  <2>6. CASE Misread
    <3>1. dispatched'[c] = dispatched[c]
      BY <1>1, <2>1, <2>6 DEF Misread, Dispatch
    <3> QED
      BY <2>2, <2>6, <3>1 DEF Misread
  <2>7. CASE Respond
    <3>1. toClient'[c] = toClient[c]
      BY <1>1, <2>1, <2>7 DEF Respond, Deliver
    <3> QED
      BY <2>2, <2>7, <3>1 DEF Respond
  <2>8. CASE NoteSent
    <3>1. toClient'[c] = toClient[c] /\ notified'[c] = notified[c]
      BY <1>1, <2>1, <2>8 DEF NoteSent, Deliver
    <3> QED
      BY <2>2, <2>8, <3>1 DEF NoteSent
  <2>9. CASE Connect \/ Disconnect \/ WriteFails \/ ReadFails
    BY <2>4, <2>9 DEF Connect, Disconnect, WriteFails, ReadFails, ReadEnds, CloseSocket
  <2>10. CASE ReceiveResponse \/ ReceiveStale \/ PollStray
    BY <2>5, <2>10 DEF ReceiveResponse, ReceiveStale, PollStray
  <2>11. CASE ReceiveNote \/ PollNote
    <3>1. Head(toClient[socket_]).of \in Nat
      BY <2>11, IncomingType DEF ReceiveNote, PollNote, Messages, Frames
    <3> QED
      BY <2>5, <2>11, <3>1 DEF ReceiveNote, PollNote
  <2>12. CASE SendRequest \/ WriteRequest \/ GiveUp \/ ReadCut
    BY <2>3, <2>12 DEF SendRequest, WriteRequest, GiveUp, ReadCut, ReadEnds
  <2>13. CASE ServerStart \/ ServerStop \/ Accept \/ Serve \/ LoseClient
    BY <2>3, <2>13 DEF ServerStart, ServerStop, StopServer, Accept, Serve, LoseClient
  <2>14. CASE Notify \/ ServerReadCut \/ ServerMisreads \/ UNCHANGED sessionVars
    BY <2>3, <2>14 DEF Notify, ServerReadCut, ServerMisreads, sessionVars
  <2> QED
    BY <2>6, <2>7, <2>8, <2>9, <2>10, <2>11, <2>12, <2>13, <2>14 DEF SessionActions
<1> QED
  BY <1>3, <1>4, <1>5 DEF ConnectionsInv

\* Dispatching the first notification on the way, or sending one more, keeps them all.
LEMMA NotesStep ==
  SessionTypeOK /\ ConnectionsInv /\ NotificationsKept /\ [SessionNext]_sessionVars
    => NotificationsKept'
<1> SUFFICES ASSUME SessionTypeOK, ConnectionsInv, NotificationsKept, SessionActions,
                    socket_' # 0, Clean(socket_)'
             PROVE  notified'[socket_'] =
                      dispatched'[socket_'] \o NotesIn(toClient'[socket_'])
  BY SessionCases DEF NotificationsKept
<1> USE DEF callVars, networkVars, serverVars
<1>1. /\ toClient \in [Connections -> Seq(Messages)]
      /\ notified \in [Connections -> Seq(Nat)]
      /\ dispatched \in [Connections -> Seq(Nat)]
      /\ connections \in Nat /\ socket_ \in 0..MaxConnections
  BY SessionBounds DEF SessionTypeOK, Messages
<1>2. CASE Connect
  <2>1. /\ socket_' \in Connections /\ socket_' = connections + 1
        /\ socket_' > connections
        /\ UNCHANGED <<notified, dispatched>>
        /\ toClient' = Discarded(toClient, socket_)
    BY <1>1, <1>2, SessionBounds DEF Connect, Connections
  <2>2. /\ toClient[socket_'] = <<>> /\ notified[socket_'] = <<>>
        /\ dispatched[socket_'] = <<>>
    BY <2>1 DEF ConnectionsInv
  <2>3. toClient'[socket_'] = <<>>
    <3>1. toClient'[socket_'] = <<>> \/ toClient'[socket_'] = toClient[socket_']
      BY <2>1 DEF Discarded
    <3> QED
      BY <2>2, <3>1
  <2>4. <<>> \o <<>> = <<>>
    OBVIOUS
  <2> QED
    BY <2>1, <2>2, <2>3, <2>4, NotesInNone
<1>3. CASE socket_' = socket_
  <2> DEFINE q == toClient[socket_]
             d == dispatched[socket_]
             n == notified[socket_]
  <2>1. socket_ \in Connections /\ socket_ # 0
    BY <1>1, <1>3, SessionBounds DEF Connections
  <2>2. Clean(socket_)
    BY <1>3, OnlyMore DEF Clean
  <2>3. q \in Seq(Messages) /\ d \in Seq(Nat) /\ n \in Seq(Nat)
    BY <1>1, <2>1
  <2>4. n = d \o NotesIn(q)
    BY <2>1, <2>2 DEF NotificationsKept
  <2>5. CASE toClient'[socket_] = q /\ UNCHANGED <<notified, dispatched>>
    BY <1>3, <2>4, <2>5
  <2>6. CASE /\ Incoming("RESPONSE") /\ UNCHANGED <<notified, dispatched>>
    <3>1. /\ q # <<>> /\ Head(q).kind = "RESPONSE" /\ toClient'[socket_] = Tail(q)
      BY <1>1, <2>1, <2>6 DEF Incoming
    <3> HIDE DEF q, d, n
    <3>2. NotesIn(q) = NoteOf(Head(q)) \o NotesIn(Tail(q))
      BY <2>3, <3>1, NotesInFirst
    <3>3. NoteOf(Head(q)) = <<>>
      BY <3>1 DEF NoteOf
    <3>4. NotesIn(Tail(q)) \in Seq(Nat)
      BY <2>3, <3>1, TailOf, NotesInType
    <3>5. NotesIn(q) = NotesIn(Tail(q))
      BY <3>2, <3>3, <3>4, MoveNone
    <3> QED
      BY <1>3, <2>4, <2>6, <3>1, <3>5 DEF d, n
  <2>7. CASE /\ Incoming("NOTE") /\ Dispatch(Head(toClient[socket_]).of)
             /\ UNCHANGED notified
    <3>1. /\ q # <<>> /\ Head(q).kind = "NOTE" /\ toClient'[socket_] = Tail(q)
          /\ dispatched'[socket_] = Append(d, Head(q).of)
      BY <1>1, <2>1, <2>7 DEF Incoming, Dispatch
    <3> HIDE DEF q, d, n
    <3>2. NotesIn(q) = <<Head(q).of>> \o NotesIn(Tail(q))
      BY <2>3, <3>1, NotesInFirst DEF NoteOf
    <3>5. Head(q) \in Messages /\ Tail(q) \in Seq(Messages)
      BY <2>3, <3>1, TailOf
    <3>3. NotesIn(Tail(q)) \in Seq(Nat) /\ Head(q).of \in Nat
      BY <3>5, NotesInType DEF Messages, Frames
    <3>4. d \o (<<Head(q).of>> \o NotesIn(Tail(q)))
            = Append(d, Head(q).of) \o NotesIn(Tail(q))
      BY <2>3, <3>3, MoveFirst
    <3> QED
      BY <1>3, <2>4, <2>7, <3>1, <3>2, <3>4 DEF n
  <2>8. CASE Respond
    <3> DEFINE f == Frame("RESPONSE", serving[1].id, serving[1].of)
    <3>1. f \in Messages /\ f.kind = "RESPONSE"
      <4>1. serving[1] \in Requests
        BY <2>8 DEF Respond, SessionTypeOK, Requests
      <4> QED
        BY <4>1 DEF Frame, Frames, Requests, Messages
    <3>2. UNCHANGED <<notified, dispatched>> /\ (Deliver(f) \/ UNCHANGED networkVars)
      BY <2>8 DEF Respond
    <3> HIDE DEF f
    <3>3. toClient'[socket_] = q \/ toClient'[socket_] = Append(q, f)
      BY <1>1, <2>1, <3>2 DEF Deliver
    <3>4. NotesIn(Append(q, f)) = NotesIn(q) \o NoteOf(f)
      BY <2>3, <3>1, NotesInAppend
    <3>5. NoteOf(f) = <<>> /\ NotesIn(q) \in Seq(Nat)
      BY <2>3, <3>1, NotesInType DEF NoteOf
    <3> HIDE DEF q, d, n
    <3>6. NotesIn(Append(q, f)) = NotesIn(q)
      BY <3>4, <3>5, MoveNone
    <3> QED
      BY <1>3, <2>4, <3>2, <3>3, <3>6 DEF d, n
  <2>9. CASE NoteSent
    <3> DEFINE f == Frame("NOTE", 0, sending)
    <3>1. /\ f \in Messages /\ f.kind = "NOTE" /\ f.of = sending /\ sending \in Nat
      BY <2>9, IdsAssumption, SessionBounds
         DEF NoteSent, Frame, Frames, Messages, Ids, SessionTypeOK
    <3>2. /\ dispatched' = dispatched /\ Deliver(f)
          /\ notified' = [notified EXCEPT ![client_] = Append(notified[client_], sending)]
      BY <2>9 DEF NoteSent
    <3> HIDE DEF f
    <3>3. CASE client_ = socket_
      <4>1. toClient'[socket_] = Append(q, f) /\ notified'[socket_] = Append(n, sending)
        BY <1>1, <2>1, <3>2, <3>3 DEF Deliver
      <4> HIDE DEF q, d, n
      <4>2. NotesIn(Append(q, f)) = NotesIn(q) \o <<sending>>
        BY <2>3, <3>1, NotesInAppend DEF NoteOf
      <4>3. NotesIn(q) \in Seq(Nat)
        BY <2>3, NotesInType
      <4>4. d \o (NotesIn(q) \o <<sending>>) = Append(d \o NotesIn(q), sending)
        BY <2>3, <3>1, <4>3, MoveLast, SMTT(30)
      <4> QED
        BY <1>3, <2>4, <3>2, <4>1, <4>2, <4>4 DEF d
    <3>4. CASE client_ # socket_
      <4>1. toClient'[socket_] = q /\ notified'[socket_] = n
        BY <1>1, <2>1, <3>2, <3>4 DEF Deliver
      <4> HIDE DEF q, n
      <4> QED
        BY <1>3, <2>4, <3>2, <4>1
    <3> QED
      BY <3>3, <3>4
  <2>10. ~ Misread
    BY <1>3 DEF Misread, Clean
  <2>11. ~ (Disconnect \/ WriteFails \/ ReadFails)
    BY <1>3, <2>1 DEF Disconnect, WriteFails, ReadFails, CloseSocket
  <2>12. CASE ReceiveResponse \/ ReceiveStale \/ PollStray
    BY <2>6, <2>12 DEF ReceiveResponse, ReceiveStale, PollStray
  <2>13. CASE ReceiveNote \/ PollNote
    BY <2>7, <2>13 DEF ReceiveNote, PollNote
  <2>14. CASE SendRequest \/ WriteRequest \/ GiveUp \/ ReadCut
    BY <2>5, <2>14 DEF SendRequest, WriteRequest, GiveUp, ReadCut, ReadEnds
  <2>15. CASE ServerStart \/ ServerStop \/ Accept \/ Serve \/ LoseClient
    BY <2>5, <2>15 DEF ServerStart, ServerStop, StopServer, Accept, Serve, LoseClient
  <2>16. CASE Notify \/ ServerReadCut \/ ServerMisreads \/ UNCHANGED sessionVars
    BY <2>5, <2>16 DEF Notify, ServerReadCut, ServerMisreads, sessionVars
  <2> QED
    BY <1>2, <2>8, <2>9, <2>10, <2>11, <2>12, <2>13, <2>14, <2>15, <2>16
       DEF SessionActions
<1>4. CASE socket_' # socket_
  <2>1. ~ (Disconnect \/ WriteFails \/ ReadFails)
    BY DEF Disconnect, WriteFails, ReadFails, CloseSocket
  <2>2. ~ (SendRequest \/ WriteRequest \/ GiveUp \/ ReadCut \/ Misread)
    BY <1>4 DEF SendRequest, WriteRequest, GiveUp, ReadCut, Misread
  <2>3. ~ (ReceiveResponse \/ ReceiveStale \/ ReceiveNote \/ PollNote \/ PollStray)
    BY <1>4 DEF ReceiveResponse, ReceiveStale, ReceiveNote, PollNote, PollStray
  <2>4. ~ (ServerStart \/ ServerStop \/ Accept \/ Serve \/ LoseClient)
    BY <1>4 DEF ServerStart, ServerStop, StopServer, Accept, Serve, LoseClient
  <2>5. ~ (Respond \/ Notify \/ NoteSent \/ ServerReadCut \/ ServerMisreads)
    BY <1>4 DEF Respond, Notify, NoteSent, ServerReadCut, ServerMisreads
  <2>6. ~ UNCHANGED sessionVars
    BY <1>4 DEF sessionVars
  <2> QED
    BY <1>2, <2>1, <2>2, <2>3, <2>4, <2>5, <2>6 DEF SessionActions
<1> QED
  BY <1>3, <1>4

-----------------------------------------------------------------------------
(***************************************************************************)
(* Theorems.                                                               *)
(***************************************************************************)
LEMMA SessionInvInit == SessionInit => SessionInv
<1> SUFFICES ASSUME SessionInit PROVE SessionInv
  OBVIOUS
<1> USE IdsAssumption, SessionBounds DEF SessionInit
<1>1. 1 % IdModulus = IF IdModulus = 1 THEN 0 ELSE 1
  OBVIOUS
<1>2. SessionTypeOK
  <2>1. next_request_id_ \in Ids
    BY <1>1 DEF Ids
  <2>2. toServer \in [Connections -> Seq(Requests)]
        /\ toClient \in [Connections -> Seq(Messages)]
        /\ notified \in [Connections -> Seq(Nat)]
        /\ dispatched \in [Connections -> Seq(Nat)]
        /\ serving \in Seq(Requests) /\ backlog \in Seq(Connections)
    BY NoFrames
  <2>3. result \in [call: Nat, answer: Nat, connection: Nat]
    BY DEF NoResult
  <2>4. lock \in {"free", "write", "await"} /\ listening \in BOOLEAN
        /\ pending_request_id_ \in SUBSET Ids
        /\ garbled \subseteq Connections \X {"client", "server"}
    OBVIOUS
  <2>5. /\ socket_ \in 0..MaxConnections /\ client_ \in 0..MaxConnections
        /\ connections \in 0..MaxConnections
        /\ calls \in 0..MaxCalls /\ notes \in 0..MaxNotes /\ sending \in 0..MaxNotes
    OBVIOUS
  <2> HIDE DEF SessionInit
  <2> QED
    BY <2>1, <2>2, <2>3, <2>4, <2>5 DEF SessionTypeOK, Requests, Messages
<1>3. AnswersInv
  <2>1. CallInv
    BY <1>1 DEF CallInv, IdOf
  <2>2. FramesInv
    BY OwnedNone DEF FramesInv
  <2>3. AnswersOwnRequest
    BY DEF AnswersOwnRequest, NoResult
  <2> QED
    BY <2>1, <2>2, <2>3 DEF AnswersInv
<1>4. ConnectionsInv
  BY DEF ConnectionsInv
<1>5. NotificationsKept
  BY DEF NotificationsKept
<1> QED
  BY <1>2, <1>3, <1>4, <1>5 DEF SessionInv

LEMMA SessionInvStep == SessionInv /\ [SessionNext]_sessionVars => SessionInv'
  BY SessionTypeStep, CallStep, FramesStep, AnswerStep, ConnectionsStep, NotesStep
     DEF SessionInv, AnswersInv

LEMMA SessionInvariant == SessionSpec => []SessionInv
<1> QED
  BY SessionInvInit, SessionInvStep, PTL DEF SessionSpec

\* Every variable of the session has a value of its type.
THEOREM SessionTypes == SessionSpec => []SessionTypeOK
<1>1. SessionInv => SessionTypeOK
  BY DEF SessionInv
<1> QED
  BY <1>1, SessionInvariant, PTL

\* The answer that sendRequest returns belongs to its request, over any number of
\* connections and late answers, as long as the ids have not come round.
THEOREM AnswersGoHome == SessionSpec => []AnswersOwnRequest
<1>1. SessionInv => AnswersOwnRequest
  BY DEF SessionInv, AnswersInv
<1> QED
  BY <1>1, SessionInvariant, PTL

\* The callbacks get the notifications in the order in which they were sent, and none
\* is lost to a call that waits for its answer.
THEOREM NotesInOrder == SessionSpec => []NotificationsKept
<1>1. SessionInv => NotificationsKept
  BY DEF SessionInv
<1> QED
  BY <1>1, SessionInvariant, PTL
=============================================================================
