---------------------------- MODULE MCMessenger -----------------------------
(* Instances of Messenger for TLC. *)
EXTENDS Messenger

\* Lines a user types: one connects, one stops, one quits; one has two keywords, the
\* second in the name of its host, one none, one is an INIT whose host is cut.
MCLines ==
    {[words |-> {"CONNECT"}, host |-> "server"], [words |-> {"QUIT"}, host |-> "none"],
     [words |-> {"STOP"}, host |-> "server"], [words |-> {"INIT", "START"}, host |-> "server"],
     [words |-> {"INIT"}, host |-> "server"], [words |-> {}, host |-> "none"]}
=============================================================================
