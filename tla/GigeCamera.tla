----------------------------- MODULE GigeCamera -----------------------------
(***************************************************************************)
(* A source of frames that is a GigE camera: the control thread            *)
(* source_data_thread_udp, the stream thread camera_gvsp_thread, which     *)
(* puts frames together from the packets of the device and calls           *)
(* new_frame_action, and source_destroy.                                   *)
(*                                                                         *)
(* Around them stand the device and the network, which may lose,           *)
(* duplicate, damage and reorder packets, and the collector, which shares  *)
(* an object with the source and gathers its reports (module Collector).   *)
(*                                                                         *)
(* The thread only prints what leaders and trailers tell: packet 0 of a    *)
(* frame stands for both, the packets 1..Blocks are its data.              *)
(***************************************************************************)
EXTENDS Naturals, SequencesExt

CONSTANTS
    Frames,       \* bound: the frames the device sends
    Blocks,       \* data blocks of a frame
    FrameLimit,   \* OBJECT_DETECTION_FRAME_LIMIT
    QueueMax,     \* packets the buffer of the GVSP socket holds
    Faults,       \* what the network may do to a packet
    MaxFaults,    \* bound: the packets that do not arrive as they were sent
    MayStop       \* TRUE: the collector may stop

ASSUME CameraAssumption ==
    /\ Frames \in Nat /\ Blocks \in Nat
    /\ FrameLimit \in Nat /\ FrameLimit >= 1
    /\ QueueMax \in Nat
    /\ Faults \subseteq {"lose", "error", "duplicate", "reorder"} /\ MaxFaults \in Nat
    /\ MayStop \in BOOLEAN

FrameIds == 1..Frames
IsBlock(p) == p.ok /\ p.id \in 1..Blocks

VARIABLES
    sent,       \* packets the device has sent
    deviceOn,   \* the device streams
    faults,     \* packets that did not arrive as they were sent
    queue,      \* buffer of the GVSP socket
    damaged,    \* frames of which the network lost, doubled or moved a packet
    collector,  \* what the collector does next
    exitFlag,   \* source->exit_flag
    emptyReady, \* semaphore source->empty_ready
    dataReady,  \* semaphore source->data_ready
    inObject,   \* source->frames_in_object
    camState,   \* cam->state
    gvcpOpen,   \* cam->gvcp_fd is not -1
    gvspOpen,   \* the GVSP socket is open
    control,    \* where source_data_thread_udp is
    stream,     \* where camera_gvsp_thread is
    packet,     \* the packet it has received
    started,    \* frame->is_started
    lastFrame,  \* last_frame_id
    buffer,     \* the packets whose data are in cam->iframe.buffer
    owner,      \* where the caller of source_destroy is
    freed,      \* the camera is freed
    crashed     \* the process has died of a use of the freed camera

deviceVars == <<sent, faults, deviceOn, queue, damaged>>
semVars == <<emptyReady, dataReady>>
camVars == <<camState, gvcpOpen, gvspOpen>>
frameVars == <<packet, started, lastFrame, buffer>>
ownerVars == <<owner, freed, crashed>>
vars == <<deviceVars, collector, exitFlag, semVars, inObject, camVars, control, stream,
          frameVars, ownerVars>>

\* new_frame_action runs for the frame that has ended.
InNewFrameAction == stream \in {"hand", "posted", "wait", "add"}

Init ==
    /\ sent = 0 /\ faults = 0 /\ deviceOn = FALSE /\ queue = <<>> /\ damaged = {}
    /\ collector = "first"
    /\ exitFlag = FALSE /\ emptyReady = 0 /\ dataReady = 0 /\ inObject = 0
    /\ camState = "STOP" /\ gvcpOpen = TRUE /\ gvspOpen = TRUE
    /\ control = "start" /\ stream = "none"
    /\ packet = [frame |-> 1, id |-> 0, ok |-> TRUE]
    /\ started = FALSE /\ lastFrame = 0 /\ buffer = <<>>
    /\ owner = "none" /\ freed = FALSE /\ crashed = FALSE

-----------------------------------------------------------------------------
(* Faulty variants of the actions below, each a slip one could make in the *)
(* code.  They are not part of Next.                                       *)

\* buffer_size is not reset.
BeginFrameKeepsBuffer ==
    /\ stream = "begin" /\ ~freed
    /\ started' = TRUE
    /\ lastFrame' = packet.frame
    /\ stream' = "store"
    /\ UNCHANGED <<deviceVars, collector, exitFlag, semVars, inObject, camVars, control, packet,
                   buffer, ownerVars>>

\* is_started is not set.
BeginFrameNotStarted ==
    /\ stream = "begin" /\ ~freed
    /\ buffer' = <<>>
    /\ lastFrame' = packet.frame
    /\ stream' = "store"
    /\ UNCHANGED <<deviceVars, collector, exitFlag, semVars, inObject, camVars, control, packet,
                   started, ownerVars>>

\* Every block is copied to the start of the buffer.
StorePacketAtStart ==
    /\ stream = "store" /\ ~freed
    /\ buffer' = IF IsBlock(packet) THEN <<packet>> ELSE buffer
    /\ stream' = "test"
    /\ UNCHANGED <<deviceVars, collector, exitFlag, semVars, inObject, camVars, control, packet,
                   started, lastFrame, ownerVars>>

\* source_destroy does not post empty_ready.
WakeThreadsNoPost ==
    /\ owner = "sleep"
    /\ control \in {"start", "join", "done"} /\ stream \in {"none", "wait", "done"}
    /\ camState' = "STOP"
    /\ owner' = "close"
    /\ UNCHANGED <<deviceVars, collector, exitFlag, semVars, inObject, gvcpOpen, gvspOpen,
                   control, stream, frameVars, freed, crashed>>

-----------------------------------------------------------------------------
(* The device and the network.                                             *)

Sent(n) == [frame |-> 1 + n \div (Blocks + 1), id |-> n % (Blocks + 1), ok |-> TRUE]

\* The device sends its next packet; q is the socket's buffer with it, hurt the
\* frames that do not arrive as they were sent.
Send(q, hurt) ==
    /\ deviceOn /\ sent < Frames * (Blocks + 1)
    /\ sent' = sent + 1
    /\ queue' = q
    /\ damaged' = damaged \cup hurt
    /\ UNCHANGED <<deviceOn, collector, exitFlag, semVars, inObject, camVars, control, stream,
                   frameVars, ownerVars>>

Fault ==
    /\ faults < MaxFaults
    /\ faults' = faults + 1

Room(n) == gvspOpen /\ Len(queue) + n <= QueueMax

SendPacket ==
    /\ Room(1)
    /\ Send(Append(queue, Sent(sent)), {})
    /\ UNCHANGED faults

\* A full buffer drops the packet without a trace, and so may the network.
DropPacket ==
    /\ ~Room(1) /\ Fault
    /\ Send(queue, {Sent(sent).frame})

LosePacket ==
    /\ "lose" \in Faults /\ Fault
    /\ Send(queue, {Sent(sent).frame})

ErrorPacket ==
    /\ "error" \in Faults /\ Fault /\ Room(1)
    /\ Send(Append(queue, [Sent(sent) EXCEPT !.ok = FALSE]), {Sent(sent).frame})

DuplicatePacket ==
    /\ "duplicate" \in Faults /\ Fault /\ Room(2)
    /\ Send(queue \o <<Sent(sent), Sent(sent)>>, {Sent(sent).frame})

\* The packet overtakes the ones from the k-th on.
ReorderPacket ==
    /\ "reorder" \in Faults /\ Fault /\ Room(1)
    /\ \E k \in 1..Len(queue) :
         Send(InsertAt(queue, k, Sent(sent)),
              {Sent(sent).frame} \cup {queue[j].frame : j \in k..Len(queue)})

Network ==
    \/ SendPacket \/ DropPacket \/ LosePacket \/ ErrorPacket \/ DuplicatePacket
    \/ ReorderPacket

-----------------------------------------------------------------------------
(* The collector, as this source sees it.                                  *)

collectorLeaves == <<deviceVars, inObject, camVars, control, stream, frameVars, ownerVars>>

ShareObject ==
    /\ collector \in {"first", "share"}
    /\ emptyReady' = emptyReady + 1
    /\ collector' = "gather"
    /\ UNCHANGED <<exitFlag, dataReady, collectorLeaves>>

GatherReport ==
    /\ collector = "gather" /\ dataReady > 0
    /\ dataReady' = dataReady - 1
    /\ collector' = "share"
    /\ UNCHANGED <<exitFlag, emptyReady, collectorLeaves>>

StopSource ==
    /\ MayStop /\ collector \in {"share", "gather"}
    /\ exitFlag' = TRUE
    /\ collector' = "last"
    /\ UNCHANGED <<semVars, collectorLeaves>>

LastGather ==
    /\ collector = "last" /\ dataReady > 0
    /\ dataReady' = dataReady - 1
    /\ collector' = "done"
    /\ UNCHANGED <<exitFlag, emptyReady, collectorLeaves>>

Collector == ShareObject \/ GatherReport \/ LastGather

-----------------------------------------------------------------------------
(* source_data_thread_udp.                                                 *)

controlLeaves == <<sent, faults, queue, damaged, collector, inObject, gvspOpen, frameVars, ownerVars>>

WaitFirstObject ==
    /\ control = "start" /\ emptyReady > 0
    /\ emptyReady' = emptyReady - 1
    /\ control' = "begin"
    /\ UNCHANGED <<deviceOn, exitFlag, dataReady, camState, gvcpOpen, stream, controlLeaves>>

\* gvcp_start; cam->state = STREAM_LIVE; pthread_create.
BeginStream ==
    /\ control = "begin" /\ ~freed
    /\ deviceOn' = TRUE
    /\ camState' = "LIVE"
    /\ stream' = "test"
    /\ control' = "loop"
    /\ UNCHANGED <<exitFlag, semVars, gvcpOpen, controlLeaves>>

\* The watchdog loop ends.
LeaveLoop ==
    /\ control = "loop" /\ ~freed
    /\ exitFlag \/ camState # "LIVE"
    /\ control' = "stop"
    /\ UNCHANGED <<deviceOn, exitFlag, semVars, camState, gvcpOpen, stream, controlLeaves>>

\* cam->state = STREAM_STOP; gvcp_stop; exit_flag = 1; sem_post(&source->data_ready).
\* The flag changes here only when the stream thread has ended by itself.
StopStream ==
    /\ control = "stop" /\ ~freed
    /\ camState' = "STOP"
    /\ deviceOn' = FALSE
    /\ exitFlag' = TRUE
    /\ dataReady' = dataReady + 1
    /\ control' = "close"
    /\ UNCHANGED <<emptyReady, gvcpOpen, stream, controlLeaves>>

CloseControl ==
    /\ control = "close" /\ ~freed
    /\ gvcpOpen' = FALSE
    /\ control' = "join"
    /\ UNCHANGED <<deviceOn, exitFlag, semVars, camState, stream, controlLeaves>>

JoinStream ==
    /\ control = "join" /\ stream = "done"
    /\ control' = "done"
    /\ UNCHANGED <<deviceOn, exitFlag, semVars, camState, gvcpOpen, stream, controlLeaves>>

Control ==
    \/ WaitFirstObject \/ BeginStream \/ LeaveLoop \/ StopStream
    \/ CloseControl \/ JoinStream

-----------------------------------------------------------------------------
(* camera_gvsp_thread and, called by it, new_frame_action.                 *)

streamLeaves == <<sent, faults, deviceOn, damaged, collector, exitFlag, gvcpOpen, gvspOpen, control,
                  ownerVars>>

\* The loop ends and the thread with it.
EndStream ==
    /\ stream = "test" /\ ~freed
    /\ camState # "LIVE" \/ ~gvcpOpen
    /\ camState' = "STOP"
    /\ stream' = "done"
    /\ UNCHANGED <<queue, semVars, inObject, frameVars, streamLeaves>>

\* epoll_wait reports a packet, which a closed socket never does; a timeout goes back
\* to the test.
Poll ==
    /\ stream = "test" /\ ~freed
    /\ camState = "LIVE" /\ gvcpOpen
    /\ gvspOpen /\ queue # <<>>
    /\ stream' = "recv"
    /\ UNCHANGED <<queue, semVars, inObject, camState, frameVars, streamLeaves>>

\* A packet with another frame id than the one before ends the frame.  The ids of
\* frames are not compared otherwise, and no packet is found to be a duplicate:
\* n_packets is always 0.
Receive ==
    /\ stream = "recv" /\ gvspOpen /\ ~freed
    /\ packet' = Head(queue)
    /\ queue' = Tail(queue)
    /\ stream' = IF packet'.frame = lastFrame THEN "store"
                 ELSE IF started THEN "hand" ELSE "begin"
    /\ UNCHANGED <<semVars, inObject, camState, started, lastFrame, buffer, streamLeaves>>

\* recvfrom fails: the thread returns and leaves cam->state as it is.
ReceiveFails ==
    /\ stream = "recv" /\ ~gvspOpen
    /\ stream' = "done"
    /\ UNCHANGED <<queue, semVars, inObject, camState, frameVars, streamLeaves>>

\* new_frame_action takes the frame; a new object is reported.
HandFrame ==
    /\ stream = "hand" /\ ~freed
    /\ IF inObject % FrameLimit = 0
         THEN inObject' = 0 /\ dataReady' = dataReady + 1 /\ stream' = "posted"
         ELSE stream' = "add" /\ UNCHANGED <<inObject, dataReady>>
    /\ UNCHANGED <<queue, emptyReady, camState, packet, started, lastFrame, buffer, streamLeaves>>

TestExit ==
    /\ stream = "posted"
    /\ stream' = IF exitFlag THEN "add" ELSE "wait"
    /\ UNCHANGED <<queue, semVars, inObject, camState, frameVars, streamLeaves>>

WaitNextObject ==
    /\ stream = "wait" /\ emptyReady > 0
    /\ emptyReady' = emptyReady - 1
    /\ stream' = "add"
    /\ UNCHANGED <<queue, dataReady, inObject, camState, frameVars, streamLeaves>>

\* add_frame_callback and save_frame_callback read the camera's buffer.
AddFrame ==
    /\ stream = "add" /\ ~freed
    /\ inObject' = inObject + 1
    /\ stream' = "begin"
    /\ UNCHANGED <<queue, semVars, camState, frameVars, streamLeaves>>

BeginFrame ==
    /\ stream = "begin" /\ ~freed
    /\ buffer' = <<>>
    /\ started' = TRUE
    /\ lastFrame' = packet.frame
    /\ stream' = "store"
    /\ UNCHANGED <<queue, semVars, inObject, camState, packet, streamLeaves>>

\* Blocks are put one behind the other as they come, not where their ids say.
StorePacket ==
    /\ stream = "store" /\ ~freed
    /\ buffer' = IF IsBlock(packet) THEN Append(buffer, packet) ELSE buffer
    /\ stream' = "test"
    /\ UNCHANGED <<queue, semVars, inObject, camState, packet, started, lastFrame,
                   streamLeaves>>

Stream ==
    \/ Poll \/ Receive \/ ReceiveFails \/ HandFrame \/ TestExit \/ WaitNextObject
    \/ AddFrame \/ BeginFrame \/ StorePacket \/ EndStream

-----------------------------------------------------------------------------
(* source_destroy.  Its sleep(5) is taken to be long enough for every       *)
(* thread that is not blocked: it ends when they all are.                  *)

ownerLeaves == <<deviceVars, collector, dataReady, inObject, gvcpOpen, control, stream,
                 frameVars, crashed>>

Blocked ==
    /\ control \in {"start", "join", "done"}
    /\ stream \in {"none", "wait", "done"}

Destroy ==
    /\ owner = "none" /\ collector = "done"
    /\ exitFlag' = TRUE
    /\ owner' = "sleep"
    /\ UNCHANGED <<emptyReady, camState, gvspOpen, freed, ownerLeaves>>

\* camera->state = STREAM_STOP; sem_post(&source->empty_ready).
WakeThreads ==
    /\ owner = "sleep" /\ Blocked
    /\ camState' = "STOP"
    /\ emptyReady' = emptyReady + 1
    /\ owner' = "close"
    /\ UNCHANGED <<exitFlag, gvspOpen, freed, ownerLeaves>>

CloseSockets ==
    /\ owner = "close"
    /\ gvspOpen' = FALSE
    /\ owner' = "free"
    /\ UNCHANGED <<exitFlag, emptyReady, camState, freed, ownerLeaves>>

FreeCamera ==
    /\ owner = "free"
    /\ freed' = TRUE
    /\ owner' = "join"
    /\ UNCHANGED <<exitFlag, emptyReady, camState, gvspOpen, ownerLeaves>>

JoinControl ==
    /\ owner = "join" /\ control = "done"
    /\ owner' = "done"
    /\ UNCHANGED <<exitFlag, emptyReady, camState, gvspOpen, freed, ownerLeaves>>

Owner == Destroy \/ WakeThreads \/ CloseSockets \/ FreeCamera \/ JoinControl

\* A camera is more than 120 MB, which malloc maps and free unmaps: whoever touches
\* it afterwards dies.
UseFreed ==
    /\ freed
    /\ \/ control \in {"begin", "loop", "stop", "close"}
       \/ stream \in {"test", "recv", "hand", "add", "begin", "store"}
    /\ crashed' = TRUE
    /\ UNCHANGED <<deviceVars, collector, exitFlag, semVars, inObject, camVars, control, stream,
                   frameVars, owner, freed>>

Next ==
    /\ ~crashed
    /\ Network \/ Collector \/ StopSource \/ Control \/ Stream \/ Owner \/ UseFreed

Spec == Init /\ [][Next]_vars

Fairness ==
    /\ WF_vars(~crashed /\ Collector)
    /\ WF_vars(~crashed /\ Control)
    /\ WF_vars(~crashed /\ Stream)
    /\ WF_vars(~crashed /\ Owner)
    /\ WF_vars(~crashed /\ UseFreed)

FairSpec == Spec /\ Fairness

-----------------------------------------------------------------------------
(* Properties.                                                             *)

\* Whatever the network does, the buffer that new_frame_action gets holds data of no
\* other frame than the one whose id comes with it.
FramesNotMixed ==
    InNewFrameAction => \A j \in 1..Len(buffer) : buffer[j].frame = lastFrame

\* A frame whose packets all came as they were sent is whole when new_frame_action
\* gets it, with its blocks in their order.
CompleteIfIntact ==
    InNewFrameAction /\ lastFrame \notin damaged
        => buffer = [b \in 1..Blocks |-> [frame |-> lastFrame, id |-> b, ok |-> TRUE]]

\* A frame that came as it was sent, and behind which there is a packet of another
\* frame, is given to new_frame_action, unless the source is told to stop.
Ended(f) ==
    /\ f \notin damaged
    /\ \E j, k \in 1..Len(queue) :
         j < k /\ queue[j].frame = f /\ queue[j].id = Blocks /\ queue[k].frame # f

FrameIsGiven ==
    \A f \in FrameIds :
        Ended(f) ~> (exitFlag \/ f \in damaged \/ (stream = "hand" /\ lastFrame = f))

\* source_destroy joins every thread and returns, though it may be waiting itself for
\* a thread that waits for an object, unless such a thread, once woken, uses the camera
\* after it is freed.
DestroyReturns == owner # "none" ~> (owner = "done" \/ crashed)

=============================================================================
