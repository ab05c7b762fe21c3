---------------------------- MODULE MCObjectFlow ----------------------------
(***************************************************************************)
(* An instance of ObjectFlow for TLC: first, two middle, last and          *)
(* finalization module.  Three chunks let one overtake or hide another if  *)
(* it could; five objects let each chunk travel more than once.            *)
(***************************************************************************)
EXTENDS ObjectFlow
=============================================================================
