----------------------------- MODULE Discovery ------------------------------
(***************************************************************************)
(* How a source finds its camera (libcapture/GigE, device.c, interface.c): *)
(* device_find sends a discovery command on every interface, waits a while *)
(* and then reads, interface after interface, the answers that have come;  *)
(* the camera is the first that answers from the address asked for.        *)
(*                                                                         *)
(* An address is its subnet and the rest of it.  A packet without a body   *)
(* comes from the subnet "none".                                           *)
(***************************************************************************)
EXTENDS Naturals, Sequences, FiniteSets

CONSTANTS
    Interfaces, \* the addresses of the interfaces, in the order of getifaddrs
    Answers,    \* [interface |-> , from |-> ] that may come
    MaxAnswers, \* bound: the answers that come
    Wanted,     \* the addresses asked for, sdesc->sid_string
    MayFail     \* TRUE: a call of the system may fail

Ifaces == DOMAIN Interfaces
Loopback == "lo"

ASSUME DiscoveryAssumption ==
    /\ Len(Interfaces) \in Nat \ {0} /\ Ifaces = 1..Len(Interfaces)
    /\ \A a \in Answers : a.interface \in Ifaces
    /\ MaxAnswers \in Nat
    /\ MayFail \in BOOLEAN

VARIABLES
    finder,  \* where device_find is
    wanted,  \* id_string
    at,      \* the interface it reads
    answered, \* the answers that have come, not all need to
    inbox,   \* [Ifaces -> answers in the buffer of the socket]
    inTime,  \* the answers that had come when the waiting was over
    broken,  \* a socket has failed
    devices, \* devs->device_list, the addresses of the devices
    dev      \* the device found

findVars == <<finder, wanted, at, answered, inbox, inTime, broken, devices, dev>>

NoDevice == [net |-> "none", ip |-> "none"]

FindInit ==
    /\ finder = "start" /\ wanted \in Wanted /\ at = 1
    /\ answered = {} /\ inbox = [i \in Ifaces |-> <<>>]
    /\ inTime = {} /\ broken = FALSE
    /\ devices = <<>> /\ dev = NoDevice

-----------------------------------------------------------------------------
(* Faulty variants: see the properties.                                    *)

\* The first answer that is ignored ends the reading of the interface.
IgnoreEnds(a) ==
    /\ at' = at + 1
    /\ inbox' = [inbox EXCEPT ![at] = Tail(@)]
    /\ UNCHANGED devices

-----------------------------------------------------------------------------
\* prepare_interfaces_list: gvcp_discovery_packet goes to every interface; without
\* the list of the interfaces prepare_devices_list uses NULL.
Broadcast ==
    /\ finder = "start"
    /\ \/ finder' = "wait"
       \/ MayFail /\ finder' = "corrupt"
    /\ UNCHANGED <<wanted, at, answered, inbox, inTime, broken, devices, dev>>

\* A camera answers; the sockets are open until their interface has been read.
Answer(a) ==
    /\ finder \in {"wait", "listen"} /\ a \notin answered /\ Cardinality(answered) < MaxAnswers
    /\ answered' = answered \cup {a}
    /\ inbox' = IF a.interface >= at THEN [inbox EXCEPT ![a.interface] = Append(@, a)] ELSE inbox
    /\ UNCHANGED <<finder, wanted, at, inTime, broken, devices, dev>>

Waited ==
    /\ finder = "wait"
    /\ finder' = "listen"
    /\ inTime' = answered
    /\ UNCHANGED <<wanted, at, answered, inbox, broken, devices, dev>>

\* The tests of listen_discovery_answer: a body, not this host unless by loopback,
\* and the subnet of the interface.
Accepted(a) ==
    LET own == Interfaces[a.interface]
    IN  /\ a.from.net # "none"
        /\ own = a.from => own.net = Loopback
        /\ own.net = a.from.net

\* device_add, gvcp_discovery_ack.
AddDevice(a) ==
    /\ devices' = Append(devices, a.from)
    /\ inbox' = [inbox EXCEPT ![at] = Tail(@)]
    /\ UNCHANGED at

IgnoreAnswer(a) ==
    /\ inbox' = [inbox EXCEPT ![at] = Tail(@)]
    /\ UNCHANGED <<at, devices>>

\* One turn of the loop of listen_discovery_answer.
Listen ==
    /\ finder = "listen" /\ at \in Ifaces /\ inbox[at] # <<>>
    /\ LET a == Head(inbox[at])
       IN  \/ Accepted(a) /\ AddDevice(a) /\ UNCHANGED broken
           \/ ~Accepted(a) /\ IgnoreAnswer(a) /\ UNCHANGED broken
           \/ MayFail /\ broken' = TRUE /\ at' = at + 1 /\ UNCHANGED <<inbox, devices>>
    /\ UNCHANGED <<finder, wanted, answered, inTime, dev>>

\* Nothing to read: the socket is closed and the next interface is read.
Quiet ==
    /\ finder = "listen" /\ at \in Ifaces /\ inbox[at] = <<>>
    /\ at' = at + 1
    /\ UNCHANGED <<finder, wanted, answered, inbox, inTime, broken, devices, dev>>

\* The loop over the devices in device_find.
Select ==
    /\ finder = "listen" /\ at \notin Ifaces
    /\ \/ \E k \in DOMAIN devices :
              /\ devices[k] = wanted /\ \A j \in 1..(k - 1) : devices[j] # wanted
              /\ dev' = devices[k] /\ finder' = "found"
       \/ /\ \A k \in DOMAIN devices : devices[k] # wanted
          /\ finder' = "none" /\ UNCHANGED dev
    /\ UNCHANGED <<wanted, at, answered, inbox, inTime, broken, devices>>

FindNext == Broadcast \/ (\E a \in Answers : Answer(a)) \/ Waited \/ Listen \/ Quiet \/ Select

\* device_find gives the camera if it has answered, over the subnet of an interface,
\* by the time the waiting is over, whatever else has come and in whatever order
\* (listen_discovery_answer, device_find): and only a camera that did answer.
AnsweredInTimeIsFound ==
    /\ finder = "none" /\ ~broken => ~\E a \in inTime : a.from = wanted /\ Accepted(a)
    /\ finder = "found" => dev = wanted /\ \E a \in answered : a.from = dev /\ Accepted(a)
=============================================================================
