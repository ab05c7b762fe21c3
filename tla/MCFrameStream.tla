---------------------------- MODULE MCFrameStream ----------------------------
(***************************************************************************)
(* An instance of FrameStream for TLC.  A header of two bytes is the least *)
(* that can come in two reads, and with an image of two bytes so can an    *)
(* image; one more connection is enough for two threads to share one, or   *)
(* for the collector's own thread to take it.                              *)
(***************************************************************************)
EXTENDS FrameStream
=============================================================================
