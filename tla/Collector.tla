------------------------------ MODULE Collector ------------------------------
(***************************************************************************)
(* The collector in the first process of a pipeline                        *)
(* (dclprocessor/collector, dclprocessor/processor): one thread per source *)
(* reads frames and adds them to the current object, collect_data_thread   *)
(* gathers the sources when each has its share of the object, and          *)
(* first_action, called for every free chunk of the pipeline, takes the    *)
(* name of the object and makes the next one.                              *)
(*                                                                         *)
(* Sources are of the kind source_data_thread_tcp.  Objects are numbered   *)
(* in the order of their names; number 0 is the empty name that            *)
(* collector->data has at first.  Frames are counted, not looked at.       *)
(***************************************************************************)
EXTENDS Naturals

CONSTANTS
    SourcesCnt, \* collector->sources_cnt
    FrameLimit, \* OBJECT_DETECTION_FRAME_LIMIT
    MaxObjects, \* bound: the objects first_action makes
    MayDetect,  \* TRUE: an object_detection_callback is set
    MayFail,    \* TRUE: read may fail
    MayDestroy  \* TRUE: collector_destroy may be called

ASSUME CollectorAssumption ==
    /\ SourcesCnt \in Nat /\ SourcesCnt >= 1
    /\ FrameLimit \in Nat /\ FrameLimit >= 1
    /\ MaxObjects \in Nat
    /\ MayDetect \in BOOLEAN /\ MayFail \in BOOLEAN /\ MayDestroy \in BOOLEAN

Sources == 1..SourcesCnt
Objects == 0..MaxObjects

VARIABLES
    action,     \* where the caller of first_action is
    made,       \* number of the newest object
    data,       \* collector->data
    handed,     \* objects whose name first_action has given to the pipeline
    emptyReady, \* semaphore collector->empty_ready
    dataReady,  \* semaphore collector->data_ready
    exitFlag,   \* collector->exit_flag
    collect,    \* where collect_data_thread is
    i,          \* its position in collector->sources
    srcPc,      \* [Sources -> where the thread of the source is]
    srcData,    \* [Sources -> source->data]
    srcEmpty,   \* [Sources -> semaphore source->empty_ready]
    srcReady,   \* [Sources -> semaphore source->data_ready]
    srcExit,    \* [Sources -> source->exit_flag]
    inObject,   \* [Sources -> frames_in_object]
    frames,     \* [Objects -> [Sources -> frames stored in the object]]
    owner       \* where the caller of collector_destroy is

actionVars == <<action, made, data, handed>>
collectVars == <<collect, i>>
sourceVars == <<srcPc, srcData, srcEmpty, srcReady, srcExit, inObject, frames>>
vars == <<actionVars, emptyReady, dataReady, exitFlag, collectVars, sourceVars, owner>>

CollectPlaces == {"start", "share", "gather", "check", "wait", "last", "done"}
SourcePlaces == {"start", "test", "read", "posted", "wait", "add", "store", "counted",
                 "end", "done"}

\* collector_init and source_init.
Init ==
    /\ action = "idle" /\ made = 0 /\ data = 0 /\ handed = {}
    /\ emptyReady = 0 /\ dataReady = 1 /\ exitFlag = FALSE
    /\ collect = "start" /\ i = 1
    /\ srcPc = [s \in Sources |-> "start"]
    /\ srcData = [s \in Sources |-> 0]
    /\ srcEmpty = [s \in Sources |-> 0]
    /\ srcReady = [s \in Sources |-> 0]
    /\ srcExit = [s \in Sources |-> FALSE]
    /\ inObject = [s \in Sources |-> 0]
    /\ frames = [o \in Objects |-> [s \in Sources |-> 0]]
    /\ owner = "none"

SrcGoto(s, place) == srcPc' = [srcPc EXCEPT ![s] = place]

-----------------------------------------------------------------------------
(* Faulty variants of the actions below, each a slip one could make in the *)
(* code.  They are not part of Next: they show that the properties can     *)
(* tell the code from a wrong one.                                         *)

\* A source reports its share and goes on without waiting for the next object.
TestExitNoWait(s) ==
    /\ srcPc[s] = "posted"
    /\ SrcGoto(s, "add")
    /\ UNCHANGED <<actionVars, emptyReady, dataReady, exitFlag, collectVars, srcData,
                   srcEmpty, srcReady, srcExit, inObject, frames, owner>>

\* The thread gathers the first source only.
GatherOne ==
    /\ collect = "gather" /\ i <= SourcesCnt
    /\ srcReady[i] > 0
    /\ srcReady' = [srcReady EXCEPT ![i] = @ - 1]
    /\ i' = SourcesCnt + 1
    /\ UNCHANGED <<actionVars, emptyReady, dataReady, exitFlag, collect, srcPc, srcData,
                   srcEmpty, srcExit, inObject, frames, owner>>

\* The thread gathers the sources and forgets to tell first_action.
PostDataForgotten ==
    /\ collect = "gather" /\ i > SourcesCnt
    /\ collect' = "check"
    /\ UNCHANGED <<actionVars, emptyReady, dataReady, exitFlag, i, sourceVars, owner>>

-----------------------------------------------------------------------------
(* first_action.                                                           *)

\* The pipeline gives a chunk to the process.
CallAction ==
    /\ action = "idle" /\ ~exitFlag /\ made < MaxObjects
    /\ action' = "wait"
    /\ UNCHANGED <<made, data, handed, emptyReady, dataReady, exitFlag, collectVars,
                   sourceVars, owner>>

\* A stopped collector is only told to go on.
CallStopped ==
    /\ action = "idle" /\ exitFlag /\ emptyReady = 0  \* the last conjunct is a bound
    /\ emptyReady' = emptyReady + 1
    /\ UNCHANGED <<actionVars, dataReady, exitFlag, collectVars, sourceVars, owner>>

\* The name goes into the chunk.
TakeObject ==
    /\ action = "wait" /\ dataReady > 0
    /\ dataReady' = dataReady - 1
    /\ handed' = handed \cup {data}
    /\ action' = "make"
    /\ UNCHANGED <<made, data, emptyReady, exitFlag, collectVars, sourceVars, owner>>

\* The next object is created in the storage and becomes the current one.
MakeObject ==
    /\ action = "make"
    /\ made' = made + 1
    /\ data' = made + 1
    /\ emptyReady' = emptyReady + 1
    /\ action' = "idle"
    /\ UNCHANGED <<handed, dataReady, exitFlag, collectVars, sourceVars, owner>>

FirstAction == CallAction \/ CallStopped \/ TakeObject \/ MakeObject

-----------------------------------------------------------------------------
(* collect_data_thread.                                                    *)

\* The first object, and each next one, when first_action has made it.
WaitEmpty ==
    /\ collect \in {"start", "wait"} /\ emptyReady > 0
    /\ emptyReady' = emptyReady - 1
    /\ collect' = "share"
    /\ i' = 1
    /\ UNCHANGED <<actionVars, dataReady, exitFlag, sourceVars, owner>>

\* One source learns the name and may go on.
Share ==
    /\ collect = "share" /\ i <= SourcesCnt
    /\ srcData' = [srcData EXCEPT ![i] = data]
    /\ srcEmpty' = [srcEmpty EXCEPT ![i] = @ + 1]
    /\ i' = i + 1
    /\ UNCHANGED <<actionVars, emptyReady, dataReady, exitFlag, collect, srcPc, srcReady,
                   srcExit, inObject, frames, owner>>

\* while (!collector->exit_flag)
TestLoop ==
    /\ collect = "share" /\ i > SourcesCnt
    /\ collect' = IF exitFlag THEN "last" ELSE "gather"
    /\ i' = 1
    /\ UNCHANGED <<actionVars, emptyReady, dataReady, exitFlag, sourceVars, owner>>

Gather ==
    /\ collect = "gather" /\ i <= SourcesCnt
    /\ srcReady[i] > 0
    /\ srcReady' = [srcReady EXCEPT ![i] = @ - 1]
    /\ i' = i + 1
    /\ UNCHANGED <<actionVars, emptyReady, dataReady, exitFlag, collect, srcPc, srcData,
                   srcEmpty, srcExit, inObject, frames, owner>>

PostData ==
    /\ collect = "gather" /\ i > SourcesCnt
    /\ dataReady' = dataReady + 1
    /\ collect' = "check"
    /\ UNCHANGED <<actionVars, emptyReady, exitFlag, i, sourceVars, owner>>

\* cnt is declared inside the loop, so it counts no further than 1.
AllSourcesSeenStopped == SourcesCnt = 1 /\ srcExit[1]

CheckSources ==
    /\ collect = "check"
    /\ exitFlag' = (exitFlag \/ AllSourcesSeenStopped)
    /\ IF exitFlag'
          THEN /\ srcExit' = [s \in Sources |-> TRUE]
               /\ collect' = "last"
               /\ i' = 1
          ELSE /\ collect' = "wait"
               /\ UNCHANGED <<i, srcExit>>
    /\ UNCHANGED <<actionVars, emptyReady, dataReady, srcPc, srcData, srcEmpty, srcReady,
                   inObject, frames, owner>>

\* The stop loop raises the flag of a source and waits for its last post.
StopSource ==
    /\ collect = "last" /\ i <= SourcesCnt
    /\ ~srcExit[i]
    /\ srcExit' = [srcExit EXCEPT ![i] = TRUE]
    /\ UNCHANGED <<actionVars, emptyReady, dataReady, exitFlag, collectVars, srcPc, srcData,
                   srcEmpty, srcReady, inObject, frames, owner>>

LastGather ==
    /\ collect = "last" /\ i <= SourcesCnt
    /\ srcExit[i] /\ srcReady[i] > 0
    /\ srcReady' = [srcReady EXCEPT ![i] = @ - 1]
    /\ i' = i + 1
    /\ UNCHANGED <<actionVars, emptyReady, dataReady, exitFlag, collect, srcPc, srcData,
                   srcEmpty, srcExit, inObject, frames, owner>>

LastPost ==
    /\ collect = "last" /\ i > SourcesCnt
    /\ dataReady' = dataReady + 1
    /\ collect' = "done"
    /\ UNCHANGED <<actionVars, emptyReady, exitFlag, i, sourceVars, owner>>

Collect ==
    \/ WaitEmpty \/ Share \/ TestLoop \/ Gather \/ PostData \/ CheckSources
    \/ StopSource \/ LastGather \/ LastPost

-----------------------------------------------------------------------------
(* source_data_thread_tcp and new_frame_action.                            *)

sourceLeaves == <<actionVars, emptyReady, dataReady, exitFlag, collectVars, owner>>

WaitFirstObject(s) ==
    /\ srcPc[s] = "start" /\ srcEmpty[s] > 0
    /\ srcEmpty' = [srcEmpty EXCEPT ![s] = @ - 1]
    /\ SrcGoto(s, "test")
    /\ UNCHANGED <<srcData, srcReady, srcExit, inObject, frames, sourceLeaves>>

\* while (!(source->exit_flag)); a flag raised later is not seen by the read.
TestSourceLoop(s) ==
    /\ srcPc[s] = "test"
    /\ SrcGoto(s, IF srcExit[s] THEN "end" ELSE "read")
    /\ UNCHANGED <<srcData, srcEmpty, srcReady, srcExit, inObject, frames, sourceLeaves>>

\* Nothing, or a part of a frame, was read: back to the test.  This matters only
\* when the flag was raised meanwhile.
ReadPart(s) ==
    /\ srcPc[s] = "read" /\ srcExit[s]
    /\ SrcGoto(s, "test")
    /\ UNCHANGED <<srcData, srcEmpty, srcReady, srcExit, inObject, frames, sourceLeaves>>

\* The share of the object is complete: tell the collector.
Report(s) ==
    /\ inObject' = [inObject EXCEPT ![s] = 0]
    /\ srcReady' = [srcReady EXCEPT ![s] = @ + 1]
    /\ SrcGoto(s, "posted")

\* A frame is complete that begins a new object: the first one, one behind a full
\* share, or one in which the callback sees a new object.
FrameOfNextObject(s) ==
    /\ srcPc[s] = "read"
    /\ inObject[s] % FrameLimit = 0 \/ MayDetect
    /\ Report(s)
    /\ UNCHANGED <<srcData, srcEmpty, srcExit, frames, sourceLeaves>>

FrameOfSameObject(s) ==
    /\ srcPc[s] = "read"
    /\ inObject[s] % FrameLimit # 0
    /\ SrcGoto(s, "add")
    /\ UNCHANGED <<srcData, srcEmpty, srcReady, srcExit, inObject, frames, sourceLeaves>>

ReadFails(s) ==
    /\ MayFail
    /\ srcPc[s] = "read"
    /\ srcExit' = [srcExit EXCEPT ![s] = TRUE]
    /\ SrcGoto(s, "end")
    /\ UNCHANGED <<srcData, srcEmpty, srcReady, inObject, frames, sourceLeaves>>

\* exit_flag is tested after the post, without a lock.
TestExit(s) ==
    /\ srcPc[s] = "posted"
    /\ SrcGoto(s, IF srcExit[s] THEN "add" ELSE "wait")
    /\ UNCHANGED <<srcData, srcEmpty, srcReady, srcExit, inObject, frames, sourceLeaves>>

WaitNextObject(s) ==
    /\ srcPc[s] = "wait" /\ srcEmpty[s] > 0
    /\ srcEmpty' = [srcEmpty EXCEPT ![s] = @ - 1]
    /\ SrcGoto(s, "add")
    /\ UNCHANGED <<srcData, srcReady, srcExit, inObject, frames, sourceLeaves>>

\* exit_flag is tested before add_frame_callback, again without a lock.
TestAdd(s) ==
    /\ srcPc[s] = "add"
    /\ SrcGoto(s, IF srcExit[s] THEN "counted" ELSE "store")
    /\ UNCHANGED <<srcData, srcEmpty, srcReady, srcExit, inObject, frames, sourceLeaves>>

\* add_frame_callback stores the frame in the object that source->data names.
StoreFrame(s) ==
    /\ srcPc[s] = "store"
    /\ frames' = [frames EXCEPT ![srcData[s]][s] = @ + 1]
    /\ SrcGoto(s, "counted")
    /\ UNCHANGED <<srcData, srcEmpty, srcReady, srcExit, inObject, sourceLeaves>>

CountFrame(s) ==
    /\ srcPc[s] = "counted"
    /\ inObject' = [inObject EXCEPT ![s] = @ + 1]
    /\ SrcGoto(s, "test")
    /\ UNCHANGED <<srcData, srcEmpty, srcReady, srcExit, frames, sourceLeaves>>

EndSource(s) ==
    /\ srcPc[s] = "end"
    /\ srcReady' = [srcReady EXCEPT ![s] = @ + 1]
    /\ SrcGoto(s, "done")
    /\ UNCHANGED <<srcData, srcEmpty, srcExit, inObject, frames, sourceLeaves>>

\* What a source does without a new frame.
SourceGoesOn(s) ==
    \/ WaitFirstObject(s) \/ TestSourceLoop(s) \/ ReadPart(s) \/ TestExit(s)
    \/ WaitNextObject(s) \/ TestAdd(s) \/ StoreFrame(s) \/ CountFrame(s) \/ EndSource(s)

FrameComes(s) == FrameOfNextObject(s) \/ FrameOfSameObject(s)

-----------------------------------------------------------------------------
(* collector_destroy and source_destroy.                                   *)

Destroy ==
    /\ MayDestroy /\ owner = "none"
    /\ exitFlag' = TRUE
    /\ owner' = "join"
    /\ UNCHANGED <<actionVars, emptyReady, dataReady, collectVars, sourceVars>>

\* The collector's thread is joined, then every source is told to stop and joined.
DestroySources ==
    /\ owner = "join" /\ collect = "done"
    /\ srcExit' = [s \in Sources |-> TRUE]
    /\ owner' = "sources"
    /\ UNCHANGED <<actionVars, emptyReady, dataReady, exitFlag, collectVars, srcPc, srcData,
                   srcEmpty, srcReady, inObject, frames>>

Destroyed ==
    /\ owner = "sources"
    /\ \A s \in Sources : srcPc[s] = "done"
    /\ owner' = "done"
    /\ UNCHANGED <<actionVars, emptyReady, dataReady, exitFlag, collectVars, sourceVars>>

-----------------------------------------------------------------------------
Next ==
    \/ FirstAction
    \/ Collect
    \/ \E s \in Sources : SourceGoesOn(s) \/ FrameComes(s) \/ ReadFails(s)
    \/ Destroy
    \/ DestroySources
    \/ Destroyed

Spec == Init /\ [][Next]_vars

\* Every thread runs when it can, the pipeline keeps giving chunks, and frames keep
\* coming to a source that reads.  A read need not fail, nobody need destroy.
Fairness ==
    /\ WF_vars(FirstAction)
    /\ WF_vars(Collect)
    /\ \A s \in Sources : WF_vars(SourceGoesOn(s)) /\ WF_vars(FrameComes(s))
    /\ WF_vars(DestroySources)
    /\ WF_vars(Destroyed)

FairSpec == Spec /\ Fairness

-----------------------------------------------------------------------------
(* Properties.                                                             *)

\* Objects, positions and flags stay in their ranges.
TypeOK ==
    /\ action \in {"idle", "wait", "make"}
    /\ made \in Objects /\ data \in Objects /\ handed \subseteq Objects
    /\ emptyReady \in Nat /\ dataReady \in Nat /\ exitFlag \in BOOLEAN
    /\ collect \in CollectPlaces /\ i \in 1..(SourcesCnt + 1)
    /\ srcPc \in [Sources -> SourcePlaces]
    /\ srcData \in [Sources -> Objects]
    /\ srcEmpty \in [Sources -> Nat] /\ srcReady \in [Sources -> Nat]
    /\ srcExit \in [Sources -> BOOLEAN]
    /\ inObject \in [Sources -> Nat]
    /\ frames \in [Objects -> [Sources -> Nat]]
    /\ owner \in {"none", "join", "sources", "done"}

\* Once first_action has given an object to the pipeline, whose processes read it,
\* no source stores a frame in it any more: not even one that failed, was told to
\* stop or is late.
HandedIsSealed == [][\A o \in handed : frames'[o] = frames[o]]_vars

\* All sources fill the same object.
SourcesAligned ==
    \A s, t \in Sources :
        srcPc[s] = "store" /\ srcPc[t] = "store" => srcData[s] = srcData[t]

\* While no source stops, an object behind the first one is given to the pipeline
\* with at least one frame of every source and no more than the limit.
HandedIsFilled ==
    \A o \in handed : o > 1 /\ (\A s \in Sources : ~srcExit[s])
        => \A s \in Sources : frames[o][s] \in 1..FrameLimit

\* While no source stops, every object that is made is given to the pipeline.
EveryObjectIsHanded ==
    \A o \in Objects \ {MaxObjects} :
        made >= o ~> (o \in handed \/ exitFlag \/ \E s \in Sources : srcExit[s])

\* The comment in collector.c:84 and :91, "Stop all sources if collector stopping":
\* a collector that stops has all its sources ended.
CollectorStopsSources ==
    exitFlag ~> \A s \in Sources : srcPc[s] = "done"
=============================================================================
