--------------------------- MODULE MCFrameStream ---------------------------
(***************************************************************************)
(* Frames of the run: no data, a payload, a payload with a blob, and a     *)
(* frame above the guard rail.                                             *)
(***************************************************************************)
EXTENDS FrameStream

FrameOf(payload, blob) == [payload |-> payload, blob |-> blob]

SmallFrames ==
  {FrameOf(0, 0), FrameOf(1, 0), FrameOf(1, 2), FrameOf(0, 3)}
=============================================================================
