---------------------------- MODULE MCDclProcessor ----------------------------
(***************************************************************************)
(* An instance of DclProcessor for TLC: two runs with different            *)
(* configurations, the first of which needs the larger segment, in every   *)
(* order and overlap; each is a processor or a pipeline of its own.  The   *)
(* first has two blocks, the fewest that can find different segments, and  *)
(* a description that fits into its zone; that of the second may not.      *)
(***************************************************************************)
EXTENDS DclProcessor

CONSTANTS old, new

MCConfig ==
    [s \in {old, new} |->
        IF s = old THEN [modules_cnt |-> 3, proc_cnt |-> 4, data_cnt |-> 9, data_size |-> 128]
                   ELSE [modules_cnt |-> 2, proc_cnt |-> 0, data_cnt |-> 4, data_size |-> 42]]
MCDescLens == [s \in {old, new} |-> IF s = old THEN {12000} ELSE {12000, 20000}]
=============================================================================
