--------------------------- MODULE MCGvcpControl ----------------------------
(* Instances of GvcpControl for TLC: a loopback and a real interface. *)
EXTENDS GvcpControl

Address(n, a) == [net |-> n, ip |-> a]
MCInterfaces == <<Address("lo", "127.0.0.1"), Address("lan", "10.0.1.9")>>
MCWanted == {Address("lo", "127.0.0.1"), Address("lan", "10.0.1.1"), Address("lan", "10.0.1.4"),
             Address("lan", "10.0.0.3"), Address("lan", "169.254.2.134"), Address("lan", "10.0.0.9")}
MCAnswers == [interface : 1..2, from : {Address("lo", "127.0.0.1"), Address("lan", "10.0.1.9")}]
             \cup [interface : {2}, from : MCWanted \cup {NoDevice}]
=============================================================================
