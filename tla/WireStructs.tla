----------------------------- MODULE WireStructs -----------------------------
(***************************************************************************)
(* The fixed-size payloads of the RPC layer and its frame header           *)
(* (lib/rpc/src/rpc_transport.cpp), all in network order.  The payloads    *)
(* must have exactly their size; the header is read by size.               *)
(***************************************************************************)
EXTENDS ByteBuffer

W32 == Width["u32"]
W64 == Width["u64"]

\* The number in `size` bytes after the first `skip`.
NetAt(data, skip, size) == FromNet(Window(data, skip, size))

Filled(data, out) == [Reader(data, out) EXCEPT !.pos = Len(data)]
Refused(data, out) == Require(Reader(data, out), FALSE)

serializeRequest(o) == U8(o.req_type) \o Net("u64", o.feature) \o Net("u64", o.action_id)

deserializeRequest(data, out) ==
  IF Len(data) # 1 + 2 * W64 THEN Refused(data, out)
  ELSE Filled(data, [req_type  |-> data[1],
                     feature   |-> NetAt(data, 1, W64),
                     action_id |-> NetAt(data, 1 + W64, W64)])

serializeResponse(o) == U8(o.resp_type) \o Net("u64", o.action_id)

deserializeResponse(data, out) ==
  IF Len(data) # 1 + W64 THEN Refused(data, out)
  ELSE Filled(data, [resp_type |-> data[1], action_id |-> NetAt(data, 1, W64)])

serializeStatus(o) == Net("u64", o.feature)

deserializeStatus(data, out) ==
  IF Len(data) # W64 THEN Refused(data, out)
  ELSE Filled(data, [feature |-> NetAt(data, 0, W64)])

serializeFinished(o) == Net("u64", o.action_id) \o Bool(o.success)

deserializeFinished(data, out) ==
  IF Len(data) # W64 + 1 THEN Refused(data, out)
  ELSE Filled(data, [action_id |-> NetAt(data, 0, W64), success |-> data[W64 + 1] # 0])

serializeHeader(o) ==
  U8(o.kind) \o Net("u32", o.request_id) \o Net("u32", o.payload_size)
  \o Net("u32", o.blob_size)

deserializeHeader(data) ==
  Filled(data, [kind         |-> data[1],
                request_id   |-> NetAt(data, 1, W32),
                payload_size |-> NetAt(data, 1 + W32, W32),
                blob_size    |-> NetAt(data, 1 + 2 * W32, W32)])
=============================================================================
