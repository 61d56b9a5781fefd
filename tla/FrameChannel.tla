---------------------------- MODULE FrameChannel ----------------------------
(***************************************************************************)
(* What one direction of an RPC connection promises: frames are handed     *)
(* over in the order in which they were written, none is skipped, repeated *)
(* or made up, until a read is given up in the middle of a frame.  From    *)
(* then on the reader may hand over anything.                              *)
(***************************************************************************)
EXTENDS Naturals, Sequences

CONSTANTS
  Frames,   \* the frames that are written
  Noise     \* what is handed over when a frame was misread

VARIABLES
  written,     \* frames passed to the writer
  delivered,   \* frames handed over by the reader
  cut          \* a read was given up in mid-frame

channelVars == <<written, delivered, cut>>

ChannelInit == written = <<>> /\ delivered = <<>> /\ cut = FALSE

Put ==
  /\ \E f \in Frames : written' = Append(written, f)
  /\ UNCHANGED <<delivered, cut>>

Get ==
  /\ Len(delivered) < Len(written)
  /\ delivered' = Append(delivered, written[Len(delivered) + 1])
  /\ UNCHANGED <<written, cut>>

GetAnything ==
  /\ cut
  /\ \E f \in Frames \cup {Noise} : delivered' = Append(delivered, f)
  /\ UNCHANGED <<written, cut>>

GiveUp == cut' = TRUE /\ UNCHANGED <<written, delivered>>

ChannelNext == Put \/ Get \/ GetAnything \/ GiveUp

ChannelSpec == ChannelInit /\ [][ChannelNext]_channelVars
=============================================================================
