---------------------------- MODULE MCGigeCamera ----------------------------
(***************************************************************************)
(* Instances of GigeCamera for TLC.  Two blocks are the fewest that can be *)
(* out of order, three frames let two be given, one of them without and    *)
(* one with an object of its own, and two packets in the buffer of the     *)
(* socket let one overtake another.                                        *)
(***************************************************************************)
EXTENDS GigeCamera
=============================================================================
