----------------------------- MODULE RpcSession -----------------------------
(***************************************************************************)
(* RpcClient and RpcServer (lib/rpc/src/rpc_transport.cpp) over successive *)
(* TCP connections.  Frames are whole here; FrameStream is about how they  *)
(* are cut into bytes and put together again.                              *)
(*                                                                         *)
(* Client threads exclude each other with socket_mutex_, which connect,    *)
(* disconnect, sendRequest and pollOnce hold from beginning to end: the    *)
(* client is described by what the holder of the mutex is doing.  The      *)
(* server is one thread: pollOnce, the request handler it calls, and the   *)
(* status and finished messages that are sent between and in them.  A send *)
(* without room holds up this thread, and with it everything else.         *)
(*                                                                         *)
(* Calls of sendRequest and notifications (STATUS and FINISHED frames) are *)
(* numbered; `of` is that number, which no code sees.                      *)
(***************************************************************************)
EXTENDS Naturals, FiniteSets, SequencesExt

CONSTANTS
  IdModulus,        \* request ids are counted modulo this number, 2^32
  Capacity,         \* frames a direction of a connection holds; writes block
  MaxCalls,         \* bound on the calls of sendRequest
  MaxNotes,         \* bound on the notifications
  MaxConnections,   \* bound on the connections
  MaxCuts           \* bound on the readers that give up in mid-frame

\* Fewer calls than there are ids: a client makes no 2^32 requests.
ASSUME IdsAssumption == IdModulus \in Nat \ {0} /\ MaxCalls \in 0..IdModulus
ASSUME SessionBounds ==
  /\ Capacity \in Nat \ {0}
  /\ MaxNotes \in Nat
  /\ MaxConnections \in Nat
  /\ MaxCuts \in Nat

VARIABLES
  \* client
  lock,                 \* what the holder of socket_mutex_ does, or "free"
  next_request_id_,
  pending_request_id_,  \* the set of at most one id
  socket_,              \* the client's connection, 0 for none
  calls,                \* calls of sendRequest so far
  result,               \* what the last call of sendRequest returned with true (history)
  dispatched,           \* notifications given to the callbacks (history)
  \* network
  connections,          \* connections so far
  backlog,              \* connections the server has yet to accept
  toServer, toClient,   \* frames in flight on each connection
  garbled,              \* readers that gave up in mid-frame
  \* server
  listening,            \* the server has a listen socket
  client_,              \* the server's connection, 0 for none
  serving,              \* the request in the handler, if any
  sending,              \* the notification the server thread is in send with, or 0
  notes,                \* notifications so far
  notified              \* notifications sent (history)

callVars    == <<lock, next_request_id_, pending_request_id_, calls, result>>
networkVars == <<connections, backlog, toServer, toClient, garbled>>
serverVars  == <<listening, client_, serving, sending, notes, notified>>
sessionVars == <<callVars, socket_, dispatched, networkVars, serverVars>>

Connections == 1..MaxConnections
Ids == 0..(IdModulus - 1)

Frame(kind, id, of) == [kind |-> kind, id |-> id, of |-> of]

NoResult == [call |-> 0, answer |-> 0, connection |-> 0]

Clean(c) == <<c, "client">> \notin garbled /\ <<c, "server">> \notin garbled

SessionInit ==
  /\ lock = "free" /\ next_request_id_ = 1 % IdModulus /\ pending_request_id_ = {}
  /\ socket_ = 0 /\ calls = 0 /\ result = NoResult
  /\ connections = 0 /\ backlog = <<>> /\ garbled = {}
  /\ toServer = [c \in Connections |-> <<>>]
  /\ toClient = [c \in Connections |-> <<>>]
  /\ listening = FALSE /\ client_ = 0 /\ serving = <<>> /\ sending = 0 /\ notes = 0
  /\ notified = [c \in Connections |-> <<>>]
  /\ dispatched = [c \in Connections |-> <<>>]

-----------------------------------------------------------------------------
(***************************************************************************)
(* The client.                                                             *)
(***************************************************************************)
\* The end of a connection discards what the closing end has not read.
Discarded(channel, c) == [n \in Connections |-> IF n = c THEN <<>> ELSE channel[n]]

Connect ==
  /\ lock = "free"
  /\ listening
  /\ connections < MaxConnections
  /\ connections' = connections + 1
  /\ socket_' = connections'
  /\ backlog' = Append(backlog, connections')
  /\ toClient' = Discarded(toClient, socket_)
  /\ pending_request_id_' = {}
  /\ UNCHANGED <<lock, next_request_id_, calls, result, dispatched, toServer, garbled,
                 serverVars>>

CloseSocket ==
  /\ socket_' = 0
  /\ toClient' = Discarded(toClient, socket_)
  /\ UNCHANGED <<connections, backlog, toServer, garbled>>

\* Also a connect that fails, as it does without a server: it closes the socket first.
Disconnect ==
  /\ lock = "free"
  /\ CloseSocket
  /\ pending_request_id_' = {}
  /\ UNCHANGED <<lock, next_request_id_, calls, result, dispatched, serverVars>>

\* The end of a call, with the pending id reset.
Return ==
  /\ lock' = "free"
  /\ pending_request_id_' = {}
  /\ UNCHANGED <<next_request_id_, calls>>

\* The id does not wrap.
SendRequest_NoWrap ==
  /\ lock = "free"
  /\ socket_ # 0
  /\ calls < MaxCalls
  /\ lock' = "write"
  /\ calls' = calls + 1
  /\ pending_request_id_' = {next_request_id_}
  /\ next_request_id_' = next_request_id_ + 1
  /\ result' = NoResult
  /\ UNCHANGED <<socket_, dispatched, networkVars, serverVars>>

SendRequest ==
  /\ lock = "free"
  /\ socket_ # 0
  /\ calls < MaxCalls
  /\ lock' = "write"
  /\ calls' = calls + 1
  /\ pending_request_id_' = {next_request_id_}
  /\ next_request_id_' = IF next_request_id_ + 1 = IdModulus THEN 0 ELSE next_request_id_ + 1
  /\ result' = NoResult
  /\ UNCHANGED <<socket_, dispatched, networkVars, serverVars>>

\* writeFrame; it has no deadline.
WriteRequest ==
  /\ lock = "write"
  /\ Len(toServer[socket_]) < Capacity
  /\ \E id \in pending_request_id_ :
       toServer' = [toServer EXCEPT ![socket_] = Append(@, Frame("REQUEST", id, calls))]
  /\ lock' = "await"
  /\ UNCHANGED <<next_request_id_, pending_request_id_, calls, result, socket_,
                 dispatched, connections, backlog, toClient, garbled, serverVars>>

WriteFails ==
  /\ lock = "write"
  /\ CloseSocket
  /\ Return
  /\ UNCHANGED <<result, dispatched, serverVars>>

\* readFrame takes the next frame of the given kind.
Incoming(kind) ==
  /\ socket_ # 0
  /\ toClient[socket_] # <<>>
  /\ Head(toClient[socket_]).kind = kind
  /\ toClient' = [toClient EXCEPT ![socket_] = Tail(@)]
  /\ UNCHANGED <<connections, backlog, toServer, garbled>>

Result(of) == result' = [call |-> calls, answer |-> of, connection |-> socket_]

\* Any response is taken for the answer.
ReceiveResponse_AnyId ==
  /\ lock = "await"
  /\ Incoming("RESPONSE")
  /\ Result(Head(toClient[socket_]).of)
  /\ Return
  /\ UNCHANGED <<socket_, dispatched, serverVars>>

ReceiveResponse ==
  /\ lock = "await"
  /\ Incoming("RESPONSE")
  /\ Head(toClient[socket_]).id \in pending_request_id_
  /\ Result(Head(toClient[socket_]).of)
  /\ Return
  /\ UNCHANGED <<socket_, dispatched, serverVars>>

\* The late answer to a call that has given up.
ReceiveStale ==
  /\ lock = "await"
  /\ Incoming("RESPONSE")
  /\ Head(toClient[socket_]).id \notin pending_request_id_
  /\ UNCHANGED <<callVars, socket_, dispatched, serverVars>>

\* The message that comes while a call waits is lost.
ReceiveNote_Dropped ==
  /\ lock = "await"
  /\ Incoming("NOTE")
  /\ UNCHANGED <<callVars, socket_, dispatched, serverVars>>

Dispatch(of) ==
  dispatched' = [dispatched EXCEPT ![socket_] = Append(@, of)]

ReceiveNote ==
  /\ lock = "await"
  /\ Incoming("NOTE")
  /\ Dispatch(Head(toClient[socket_]).of)
  /\ UNCHANGED <<callVars, socket_, serverVars>>

\* The deadline is only looked at when a frame has come.
GiveUp_AfterFrame ==
  /\ lock = "await"
  /\ toClient[socket_] # <<>>
  /\ Return
  /\ UNCHANGED <<result, socket_, dispatched, networkVars, serverVars>>

\* The deadline passes between two frames, or an answer cannot be parsed.
GiveUp ==
  /\ lock = "await"
  /\ Return
  /\ UNCHANGED <<result, socket_, dispatched, networkVars, serverVars>>

PollNote ==
  /\ lock = "free"
  /\ Incoming("NOTE")
  /\ Dispatch(Head(toClient[socket_]).of)
  /\ UNCHANGED <<callVars, socket_, serverVars>>

\* pollOnce drops a stray response.
PollStray ==
  /\ lock = "free"
  /\ Incoming("RESPONSE")
  /\ UNCHANGED <<callVars, socket_, dispatched, serverVars>>

Cut(reader) ==
  /\ Cardinality(garbled) < MaxCuts
  /\ garbled' = garbled \cup {reader}

\* sendRequest returns, or pollOnce does, with the connection unchanged or closed.
ReadEnds ==
  /\ lock \in {"free", "await"}
  /\ lock' = "free"
  /\ pending_request_id_' = IF lock = "await" THEN {} ELSE pending_request_id_
  /\ UNCHANGED <<next_request_id_, calls, result, dispatched, serverVars>>

\* The deadline passes within a frame: what comes next is not a header.
ReadCut ==
  /\ socket_ # 0
  /\ toClient[socket_] # <<>>
  /\ ReadEnds
  /\ Cut(<<socket_, "client">>)
  /\ UNCHANGED <<socket_, connections, backlog, toServer, toClient>>

\* The connection ends, or recv fails.
ReadFails ==
  /\ socket_ # 0
  /\ ReadEnds
  /\ CloseSocket

\* Bytes out of place look like a frame.
Misread ==
  /\ <<socket_, "client">> \in garbled
  /\ \/ /\ lock = "await"
        /\ Result(0)
        /\ Return
        /\ UNCHANGED dispatched
     \/ /\ lock \in {"free", "await"}
        /\ Len(dispatched[socket_]) <= MaxNotes
        /\ Dispatch(0)
        /\ UNCHANGED callVars
  /\ UNCHANGED <<socket_, networkVars, serverVars>>

-----------------------------------------------------------------------------
(***************************************************************************)
(* The server.                                                             *)
(***************************************************************************)
\* The server thread is neither in a handler nor in send.
ServerIdle == serving = <<>> /\ sending = 0

\* The connection and those in the listen queue end with the listen socket.
StopServer ==
  /\ ServerIdle
  /\ client_' = 0
  /\ backlog' = <<>>
  /\ toServer' = [c \in Connections |-> <<>>]
  /\ UNCHANGED <<callVars, socket_, dispatched, connections, toClient, garbled, serving,
                 sending, notes, notified>>

ServerStop == StopServer /\ listening' = FALSE

\* start first stops what is running; socket, bind or listen may fail.
ServerStart == StopServer /\ listening' \in BOOLEAN

Accept ==
  /\ listening
  /\ client_ = 0
  /\ ServerIdle
  /\ backlog # <<>>
  /\ client_' = Head(backlog)
  /\ backlog' = Tail(backlog)
  /\ UNCHANGED <<callVars, socket_, dispatched, connections, toServer, toClient, garbled,
                 listening, serving, sending, notes, notified>>

Serve ==
  /\ client_ # 0
  /\ ServerIdle
  /\ toServer[client_] # <<>>
  /\ serving' = <<Head(toServer[client_])>>
  /\ toServer' = [toServer EXCEPT ![client_] = Tail(@)]
  /\ UNCHANGED <<callVars, socket_, dispatched, connections, backlog, toClient, garbled,
                 listening, client_, sending, notes, notified>>

\* sendFrame with room in the socket buffers; without it send blocks.
Deliver(frame) ==
  /\ client_ # 0
  /\ Len(toClient[client_]) < Capacity
  /\ toClient' = [toClient EXCEPT ![client_] = Append(@, frame)]
  /\ UNCHANGED <<connections, backlog, toServer, garbled>>

\* The handler answers at its end, if the client is still there.
Respond ==
  /\ serving # <<>> /\ sending = 0
  /\ serving' = <<>>
  /\ \/ Deliver(Frame("RESPONSE", serving[1].id, serving[1].of))
     \/ client_ = 0 /\ UNCHANGED networkVars
  /\ UNCHANGED <<callVars, socket_, dispatched, listening, client_, sending, notes,
                 notified>>

\* sendStatusMessage, sendFinishedMessage: between two requests or in the handler.
\* The server thread enters send; without a client nothing is sent.
Notify ==
  /\ client_ # 0
  /\ sending = 0
  /\ notes < MaxNotes
  /\ notes' = notes + 1
  /\ sending' = notes'
  /\ UNCHANGED <<callVars, socket_, dispatched, networkVars, listening, client_, serving,
                 notified>>

\* send returns.
NoteSent ==
  /\ sending # 0
  /\ Deliver(Frame("NOTE", 0, sending))
  /\ notified' = [notified EXCEPT ![client_] = Append(@, sending)]
  /\ sending' = 0
  /\ UNCHANGED <<callVars, socket_, dispatched, listening, client_, serving, notes>>

\* A failed send is tried again instead of closing the connection.
LoseClient_NotInSend ==
  /\ client_ # 0
  /\ ServerIdle
  /\ client_' = 0
  /\ toServer' = Discarded(toServer, client_)
  /\ UNCHANGED <<callVars, socket_, dispatched, connections, backlog, toClient, garbled,
                 listening, serving, sending, notes, notified>>

\* The end of the stream is taken for an empty read.
LoseClient_NotInRead ==
  /\ client_ # 0
  /\ ~ ServerIdle
  /\ client_' = 0
  /\ sending' = 0
  /\ toServer' = Discarded(toServer, client_)
  /\ UNCHANGED <<callVars, socket_, dispatched, connections, backlog, toClient, garbled,
                 listening, serving, notes, notified>>

\* A read or a write fails, or the end of the stream is read.
LoseClient ==
  /\ client_ # 0
  /\ client_' = 0
  /\ sending' = 0
  /\ toServer' = Discarded(toServer, client_)
  /\ UNCHANGED <<callVars, socket_, dispatched, connections, backlog, toClient, garbled,
                 listening, serving, notes, notified>>

ServerReadCut ==
  /\ client_ # 0
  /\ ServerIdle
  /\ toServer[client_] # <<>>
  /\ Cut(<<client_, "server">>)
  /\ UNCHANGED <<callVars, socket_, dispatched, connections, backlog, toServer, toClient,
                 serverVars>>

ServerMisreads ==
  /\ <<client_, "server">> \in garbled
  /\ ServerIdle
  /\ \E id \in Ids : serving' = <<Frame("REQUEST", id, 0)>>
  /\ UNCHANGED <<callVars, socket_, dispatched, networkVars, listening, client_, sending,
                 notes, notified>>

-----------------------------------------------------------------------------
ClientReads == ReceiveResponse \/ ReceiveStale \/ ReceiveNote \/ PollNote \/ PollStray

Client ==
  \/ Connect
  \/ Disconnect
  \/ SendRequest
  \/ WriteRequest
  \/ WriteFails
  \/ ClientReads
  \/ GiveUp
  \/ ReadCut
  \/ ReadFails
  \/ Misread

Server ==
  \/ ServerStart
  \/ ServerStop
  \/ Accept
  \/ Serve
  \/ Respond
  \/ Notify
  \/ NoteSent
  \/ LoseClient
  \/ ServerReadCut
  \/ ServerMisreads

SessionNext == Client \/ Server

SessionSpec == SessionInit /\ [][SessionNext]_sessionVars

\* The server has closed the client's connection.
ServerGone == client_ # socket_ /\ \A i \in DOMAIN backlog : backlog[i] # socket_

(***************************************************************************)
(* Fairness.  Client threads keep polling and the mutex lets a poll in     *)
(* some time (strong fairness); the server loop runs; a send with room     *)
(* returns; a call reaches its deadline; the network tells either end that *)
(* the other one is gone.                                                  *)
(***************************************************************************)
SessionFairness ==
  /\ SF_sessionVars(ClientReads)
  /\ WF_sessionVars(WriteRequest)
  /\ WF_sessionVars(ServerGone /\ WriteFails)
  /\ WF_sessionVars(GiveUp)
  /\ WF_sessionVars(Accept)
  /\ SF_sessionVars(Serve)
  /\ WF_sessionVars(Respond)
  /\ WF_sessionVars(NoteSent)
  /\ WF_sessionVars(client_ # socket_ /\ LoseClient)

FairSessionSpec == SessionSpec /\ SessionFairness

-----------------------------------------------------------------------------
(***************************************************************************)
(* Properties.                                                             *)
(***************************************************************************)
Frames(kinds) == [kind: kinds, id: Ids, of: Nat]

\* Every variable of the session has a value of its type.
SessionTypeOK ==
  /\ lock \in {"free", "write", "await"}
  /\ next_request_id_ \in Ids
  /\ pending_request_id_ \in SUBSET Ids
  /\ socket_ \in 0..MaxConnections
  /\ calls \in 0..MaxCalls
  /\ result \in [call: Nat, answer: Nat, connection: Nat]
  /\ dispatched \in [Connections -> Seq(Nat)]
  /\ connections \in 0..MaxConnections
  /\ backlog \in Seq(Connections)
  /\ toServer \in [Connections -> Seq(Frames({"REQUEST"}))]
  /\ toClient \in [Connections -> Seq(Frames({"RESPONSE", "NOTE"}))]
  /\ garbled \subseteq Connections \X {"client", "server"}
  /\ listening \in BOOLEAN
  /\ client_ \in 0..MaxConnections
  /\ serving \in Seq(Frames({"REQUEST"}))
  /\ sending \in 0..MaxNotes
  /\ notes \in 0..MaxNotes
  /\ notified \in [Connections -> Seq(Nat)]

\* A call of sendRequest that returns true returns the answer to its own request:
\* answers to calls that timed out, on this connection or an earlier one, are
\* never taken for it, unless a reader of the connection gave up in mid-frame.
AnswersOwnRequest ==
  Clean(result.connection) => result.answer = result.call

\* The notifications among the frames of a sequence, in their order.
NotesIn(frames) ==
  FlattenSeq([i \in 1..Len(frames) |->
                IF frames[i].kind = "NOTE" THEN <<frames[i].of>> ELSE <<>>])

\* While the client keeps a connection on which no read was cut, the callbacks
\* have been given the notifications in the order in which they were sent, and the
\* others are on their way: none is lost to a call that waits for its response.
NotificationsKept ==
  socket_ # 0 /\ Clean(socket_) =>
    notified[socket_] = dispatched[socket_] \o NotesIn(toClient[socket_])

\* Both ends wait in send, each for the other to read: the client with a request, the
\* server with an answer or with a notification, in a handler or between two requests.
WriteCycle ==
  /\ lock = "write" /\ Len(toServer[socket_]) = Capacity
  /\ client_ = socket_ /\ ~ ServerIdle /\ Len(toClient[client_]) = Capacity

\* A call of sendRequest returns, in spite of a write without deadline, unless both
\* ends wait in send for each other.
CallsReturn == lock # "free" ~> (lock = "free" \/ WriteCycle)

\* The handler of a request is not held up for ever by its own answer, unless both
\* ends wait in send for each other.
HandlersReturn == serving # <<>> ~> (serving = <<>> \/ WriteCycle)

\* A connection the server has not accepted leaves the listen queue: it is accepted,
\* or ends with the server.  The client's former connection, whose end only a failing
\* read or write tells the server, does not keep the server busy for ever.
NewConnectionIsServed ==
  (\E i \in DOMAIN backlog : backlog[i] = socket_)
    ~> (\A i \in DOMAIN backlog : backlog[i] # socket_)
=============================================================================
