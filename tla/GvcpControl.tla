---------------------------- MODULE GvcpControl -----------------------------
(***************************************************************************)
(* The control channel of a GigE camera (libcapture/GigE, gvcp.c,          *)
(* gige_camera.c, gige_camera_ops.c) as source_data_thread_udp uses it:    *)
(* gige_camera_init and the start, watchdog and stop of the camera are     *)
(* scripts of register commands, sent one at a time over UDP, each waiting *)
(* half a second for the next packet that comes.                           *)
(*                                                                         *)
(* A command reads or writes a register; the registers of one vendor are   *)
(* one register here, and of a value only what is compared is kept.        *)
(***************************************************************************)
EXTENDS Discovery, SequencesExt

CONSTANTS
    CameraSizes, \* packet sizes a camera may have at first
    MaxWatches,  \* bound: calls of gvcp_watchdog
    MaxFaults    \* bound: packets lost, late or doubled, and privileges expired

DefaultPacketSize == 8000
Unset == 9999 \* a value no register has: uint32_t value = -1

ASSUME GvcpAssumption == CameraSizes \subseteq Nat /\ MaxWatches \in Nat /\ MaxFaults \in Nat

VARIABLES
    phase,    \* the script the source is at, or what it waits for
    step,     \* the command of the script
    sent,     \* the command has been sent, its answer is awaited
    packetId, \* packet_id, the copy of the caller of read_register and write_register
    lastId,   \* cam->last_gvcp_packet_id
    value,    \* the variable registers are read into
    size,     \* cam->packet_size
    answer,   \* the packet taken for the answer to the last command, or {}
    toCamera, \* commands on their way
    toHost,   \* acknowledges on their way or in the buffer of the socket
    camera,   \* the privilege and the packet size of the camera
    faults,   \* [kind -> how many there have been]
    watches,  \* calls of gvcp_watchdog
    over,     \* exit_flag, or cam->state no longer STREAM_LIVE
    owner     \* where source_destroy is

sourceVars == <<phase, step, sent, packetId, lastId, value, size, answer, watches>>
linkVars == <<toCamera, toHost, camera, faults>>
ownerVars == <<over, owner>>
vars == <<findVars, sourceVars, linkVars, ownerVars>>

FaultKinds == {"lose", "late", "double", "expire"}
Faulty(kind) ==
    /\ faults["lose"] + faults["late"] + faults["double"] + faults["expire"] < MaxFaults
    /\ faults' = [faults EXCEPT ![kind] = @ + 1]

Init ==
    /\ FindInit
    /\ phase = "find" /\ step = 1 /\ sent = FALSE
    /\ packetId = 0 /\ lastId = 0 /\ value = Unset /\ size = 0 /\ answer = {}
    /\ toCamera = <<>> /\ toHost = <<>>
    /\ camera \in [priv : {0}, size : CameraSizes]
    /\ faults = [k \in FaultKinds |-> 0]
    /\ watches = 0 /\ over = FALSE /\ owner = "none"

-----------------------------------------------------------------------------
(* Scripts.  "unclaimed" and "large" are the conditions of the two         *)
(* commands that are not always sent.                                      *)

Read(reg) == [op |-> "read", reg |-> reg, val |-> 0, when |-> "always"]
Write(reg, val) == [op |-> "write", reg |-> reg, val |-> val, when |-> "always"]
Claim == Write("priv", 2)
ClaimAgain == [Claim EXCEPT !.when = "unclaimed"]
Reads(n) == [k \in 1..n |-> Read("vendor")]
Writes(n) == [k \in 1..n |-> Write("vendor", 0)]
ReadToNowhere(reg) == [Read(reg) EXCEPT !.op = "wild"]

(* Faulty variants of definitions below, each a slip one could make in the *)
(* code.  They are not part of Next: they show that the properties can     *)
(* tell the code from a wrong one.                                         *)

\* epoll_wait without a timeout.
RunOutOfTimeNever == FALSE

\* gvcp_init
InitScript ==
    <<Read("channels"), Read("capability"), Claim, Write("ip", 0), Write("port", 0), Read("size"),
      [Write("size", DefaultPacketSize) EXCEPT !.when = "large"]>>

\* gvcp_get_timestamp_tick_frequency
TicksScript == <<Read("high"), Read("low")>>

NoOps == [start |-> <<>>, watch |-> <<>>, stop |-> <<>>]
ArvFake ==
    [start |-> <<Claim>> \o Writes(1),
     watch |-> <<Read("priv"), ClaimAgain>>,
     stop  |-> <<Claim>> \o Writes(1)]
FlirColor ==
    [start |-> <<Claim>> \o Writes(1) \o Reads(1) \o Writes(2) \o Reads(4) \o Writes(1) \o Reads(1)
               \o Writes(1) \o Reads(2) \o Writes(2) \o Reads(3)
               \o <<Read("port"), Read("source")>> \o Writes(1),
     watch |-> <<Read("priv"), ClaimAgain>> \o Writes(1) \o <<Read("source")>>,
     stop  |-> <<Claim>> \o Reads(1) \o Writes(1)]
FlirColor2 ==
    [start |-> <<Claim>> \o Writes(2) \o Reads(2) \o Writes(2) \o Reads(5) \o Writes(2) \o Reads(1)
               \o <<Read("port"), Read("source"), Claim>> \o Writes(1),
     watch |-> <<Claim>>,
     stop  |-> <<Claim>> \o Reads(1) \o Writes(1)]
Baumer ==
    [start |-> <<Write("priv", 2051), Read("port"), Read("source"), Claim>> \o Writes(1) \o Reads(1),
     watch |-> <<Write("priv", 2049)>>,
     stop  |-> <<ReadToNowhere("priv")>> \o Writes(1)]
LucidPolar ==
    [start |-> <<Claim>> \o Writes(1),
     watch |-> <<Claim>>,
     stop  |-> <<Read("priv")>> \o Writes(1)]

\* gige_camera_identify_ops
Ops ==
    CASE dev.ip = "127.0.0.1" -> ArvFake
      [] dev.ip = "169.254.2.134" -> FlirColor
      [] dev.ip \in {"10.0.1.1", "10.0.1.2"} -> Baumer
      [] dev.ip \in {"10.0.0.2", "10.0.1.4"} -> FlirColor2
      [] dev.ip \in {"169.254.0.1", "10.0.0.3"} -> LucidPolar
      [] OTHER -> NoOps

Script ==
    CASE phase = "init" -> InitScript
      [] phase = "ticks" -> TicksScript
      [] phase \in {"start", "watch", "stop"} -> Ops[phase]
      [] OTHER -> <<>>

Command == Script[step]
AtCommand == step <= Len(Script)

-----------------------------------------------------------------------------
(* read_register and write_register.                                       *)

\* next_packet_id: the caller's copy grows, 12 bits wide.
NextId(id) == (id + 1) % 4096

\* The first command of gvcp_init has the number it was given, the others the next.
NewId == IF phase = "init" /\ step = 1 THEN packetId ELSE NextId(packetId)

Due == CASE Command.when = "always" -> TRUE
         [] Command.when = "unclaimed" -> value # 2
         [] Command.when = "large" -> size > DefaultPacketSize

\* Faulty: a write does not wait for its acknowledge.
SendNoWait ==
    /\ AtCommand /\ ~sent /\ Due
    /\ sent' = (Command.op # "write") /\ step' = IF sent' THEN step ELSE step + 1
    /\ packetId' = NewId
    /\ toCamera' = Append(toCamera, [id |-> NewId, op |-> Command.op, reg |-> Command.reg, val |-> Command.val])
    /\ size' = IF Command.when = "large" THEN DefaultPacketSize ELSE size
    /\ UNCHANGED <<findVars, phase, lastId, value, answer, watches, toHost, camera, faults, ownerVars>>

Send ==
    /\ AtCommand /\ ~sent /\ Due
    /\ sent' = TRUE /\ packetId' = NewId
    /\ toCamera' = Append(toCamera, [id |-> NewId, op |-> Command.op, reg |-> Command.reg, val |-> Command.val])
    /\ size' = IF Command.when = "large" THEN DefaultPacketSize ELSE size
    /\ UNCHANGED <<findVars, phase, step, lastId, value, answer, watches, toHost, camera, faults, ownerVars>>

Skip ==
    /\ AtCommand /\ ~sent /\ ~Due
    /\ step' = step + 1
    /\ UNCHANGED <<findVars, phase, sent, packetId, lastId, value, size, answer, watches, linkVars, ownerVars>>

\* gvcp_register_ack; where the value of a Baumer's stop goes there is no memory.
TakeValue(v) ==
    /\ phase' = IF Command.op = "wild" THEN "corrupt" ELSE phase
    /\ value' = IF Command.op = "read" THEN v ELSE value
    /\ size' = IF Command = Read("size") THEN v ELSE size

\* listen_packet_ack_new takes whatever packet is next.
Receive ==
    /\ sent /\ toHost # <<>>
    /\ answer' = {Head(toHost)} /\ toHost' = Tail(toHost)
    /\ sent' = FALSE /\ step' = step + 1
    /\ TakeValue(Head(toHost).val)
    /\ UNCHANGED <<findVars, packetId, lastId, watches, toCamera, camera, faults, ownerVars>>

\* Half a second without a packet: it was lost, or it is late.
RunOutOfTime ==
    /\ sent /\ toHost = <<>>
    /\ IF toCamera = <<>> THEN UNCHANGED faults ELSE Faulty("late")
    /\ answer' = {} /\ sent' = FALSE /\ step' = step + 1
    /\ UNCHANGED <<findVars, phase, packetId, lastId, value, size, watches, toCamera, toHost, camera, ownerVars>>

-----------------------------------------------------------------------------
(* The camera and the network, as read_register and write_register use     *)
(* them: commands are carried out in order and each is acknowledged.       *)

Carried(reg) == CASE reg = "priv" -> camera.priv [] reg = "size" -> camera.size [] OTHER -> 1

Acknowledge ==
    /\ toCamera # <<>>
    /\ LET c == Head(toCamera)
       IN  /\ camera' = IF c.op = "write" /\ c.reg \in {"priv", "size"}
                        THEN [camera EXCEPT ![c.reg] = c.val] ELSE camera
           /\ toHost' = Append(toHost, [id |-> c.id, reg |-> c.reg,
                                        val |-> IF c.op = "write" THEN 1 ELSE Carried(c.reg)])
    /\ toCamera' = Tail(toCamera)
    /\ UNCHANGED <<findVars, sourceVars, faults, ownerVars>>

Lose ==
    /\ Faulty("lose")
    /\ \/ toCamera # <<>> /\ toCamera' = Tail(toCamera) /\ UNCHANGED toHost
       \/ toHost # <<>> /\ toHost' = Tail(toHost) /\ UNCHANGED toCamera
    /\ UNCHANGED <<findVars, sourceVars, camera, ownerVars>>

Double ==
    /\ Faulty("double")
    /\ toHost # <<>> /\ toHost' = <<Head(toHost)>> \o toHost
    /\ UNCHANGED <<findVars, sourceVars, toCamera, camera, ownerVars>>

\* Between two watchdogs the camera takes the privilege back.
Expire ==
    /\ Faulty("expire") /\ phase = "sleep" /\ camera.priv # 0
    /\ camera' = [camera EXCEPT !.priv = 0]
    /\ UNCHANGED <<findVars, sourceVars, toCamera, toHost, ownerVars>>

-----------------------------------------------------------------------------
(* The source: source_init, gige_camera_init and source_data_thread_udp.   *)

Call(script) ==
    /\ phase' = script /\ step' = 1 /\ value' = Unset
    /\ lastId' = NextId(lastId) /\ packetId' = NextId(lastId)
Become(place) ==
    /\ phase' = place
    /\ UNCHANGED <<step, packetId, lastId, value>>

\* gige_camera_init up to gvcp_init; a socket may be refused.
CameraInit ==
    /\ phase = "find" /\ finder = "found"
    /\ \/ Call("init")
       \/ MayFail /\ Become("null")
    /\ finder' = "used" /\ inTime' = {} /\ answered' = {} /\ broken' = FALSE /\ devices' = <<>>
    /\ inbox' = [i \in Ifaces |-> <<>>]
    /\ UNCHANGED <<wanted, at, dev, sent, size, answer, watches, linkVars, ownerVars>>

\* gige_camera_init: a camera without a packet size is no camera.
SizeKnown ==
    /\ phase = "init" /\ ~AtCommand
    /\ IF size > 0 THEN Call("ticks") ELSE Become("null")
    /\ UNCHANGED <<findVars, sent, size, answer, watches, linkVars, ownerVars>>

\* source_init makes the thread, which uses the camera at once, NULL or not.
StartThread ==
    /\ \/ phase = "ticks" /\ ~AtCommand /\ Become("wait")
       \/ phase = "null" /\ Become("corrupt")
    /\ UNCHANGED <<findVars, sent, size, answer, watches, linkVars, ownerVars>>

\* The first object is there; or source_destroy has posted empty_ready and freed the
\* camera.
FirstObject ==
    /\ phase = "wait"
    /\ IF owner = "freed" THEN Become("corrupt") ELSE Call("start")
    /\ UNCHANGED <<findVars, sent, size, answer, watches, linkVars, ownerVars>>

Started ==
    /\ phase = "start" /\ ~AtCommand
    /\ Become("loop")
    /\ UNCHANGED <<findVars, sent, size, answer, watches, linkVars, ownerVars>>

Loop ==
    /\ phase = "loop"
    /\ \/ over /\ Call("stop") /\ UNCHANGED watches
       \/ ~over /\ watches < MaxWatches /\ Call("watch") /\ watches' = watches + 1
    /\ UNCHANGED <<findVars, sent, size, answer, linkVars, ownerVars>>

Watched ==
    /\ phase = "watch" /\ ~AtCommand
    /\ Become("sleep")
    /\ UNCHANGED <<findVars, sent, size, answer, watches, linkVars, ownerVars>>

Slept ==
    /\ phase = "sleep"
    /\ Become("loop")
    /\ UNCHANGED <<findVars, sent, size, answer, watches, linkVars, ownerVars>>

Stopped ==
    /\ phase = "stop" /\ ~AtCommand
    /\ Become("done")
    /\ UNCHANGED <<findVars, sent, size, answer, watches, linkVars, ownerVars>>

\* camera_gvsp_thread has ended: cam->state is STREAM_STOP.
StreamEnds ==
    /\ phase \in {"loop", "watch", "sleep"} /\ ~over
    /\ over' = TRUE
    /\ UNCHANGED <<findVars, sourceVars, linkVars, owner>>

\* source_destroy: exit_flag; five seconds later, which are enough for a thread that
\* has started while few packets are lost, the camera is freed.
SourceDestroy ==
    /\ owner = "none" /\ phase \in {"wait", "start", "loop", "watch", "sleep"}
    /\ over' = TRUE /\ owner' = "sleep"
    /\ UNCHANGED <<findVars, sourceVars, linkVars>>

FreeCamera ==
    /\ owner = "sleep" /\ phase \in {"wait", "done"}
    /\ owner' = "freed"
    /\ UNCHANGED <<findVars, sourceVars, linkVars, over>>

-----------------------------------------------------------------------------
Source == CameraInit \/ SizeKnown \/ StartThread \/ FirstObject \/ Started \/ Loop \/ Watched
          \/ Slept \/ Stopped \/ Send \/ Skip \/ Receive \/ RunOutOfTime
Network == Acknowledge \/ Lose \/ Double \/ Expire

Next == \/ FindNext /\ UNCHANGED <<sourceVars, linkVars, ownerVars>>
        \/ phase # "corrupt" /\ (Source \/ StreamEnds \/ SourceDestroy \/ FreeCamera)
        \/ Network

Spec == Init /\ [][Next]_vars

\* The threads run and what is not lost arrives.
FairSpec ==
    /\ Spec
    /\ WF_findVars(FindNext) /\ WF_vars(phase # "corrupt" /\ (Source \/ FreeCamera)) /\ WF_vars(Acknowledge)

-----------------------------------------------------------------------------
(* Properties.                                                             *)

\* No packet is late and none comes twice.
Punctual == faults["late"] = 0 /\ faults["double"] = 0

\* While no packet is late or doubled, what is taken for the answer to a command is
\* the answer to that command, even if others are lost: nothing else ties the two
\* (listen_packet_ack_new looks at no number).
PunctualAnswersMatch ==
    [][~sent' /\ sent /\ Punctual =>
           \A a \in answer' : a.id = packetId /\ a.reg = Command.reg]_vars

\* source_destroy lets the thread of the source end.
DestroyEndsSource == (owner # "none") ~> phase \in {"done", "corrupt"}
=============================================================================
