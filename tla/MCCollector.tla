----------------------------- MODULE MCCollector -----------------------------
(***************************************************************************)
(* Instances of Collector for TLC.  Two sources are the fewest that can    *)
(* get out of step, two frames per object the fewest that tell the first   *)
(* frame of an object from a later one, and three objects let the empty     *)
(* name, the object without frames and one filled object be handed over.   *)
(***************************************************************************)
EXTENDS Collector
=============================================================================
