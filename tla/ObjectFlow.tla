------------------------------ MODULE ObjectFlow ------------------------------
(***************************************************************************)
(* The objects that travel through a processor: the actions of its blocks  *)
(* (dclprocessor/processor) on top of the belt of chunks (Conveyor, which  *)
(* PipelineFlow implements).                                               *)
(*                                                                         *)
(* A chunk carries the name of an object of the storage, or the empty      *)
(* name.  first_action, in the child process of module 0, writes the name  *)
(* of the object that the collector has completed into the chunk and makes *)
(* the next object; middle_action, in the children of modules 1..Last-2,   *)
(* looks at the object; last_action, in the child of module Last-1, frees  *)
(* it; the finalization thread, module Last, clears the chunk.             *)
(***************************************************************************)
EXTENDS Integers, Sequences

CONSTANTS
    Last,       \* index of the finalization module
    DataCnt,    \* number of chunks in the ring
    MaxObjects, \* bound: the objects first_action makes
    MayLack     \* blocks whose processor may have no collector

ASSUME ObjectAssumption ==
    /\ Last \in Nat /\ Last >= 2
    /\ DataCnt \in Nat
    /\ MaxObjects \in Nat
    /\ MayLack \subseteq 0..(Last - 1)

VARIABLES
    held, mail, free, \* the belt, see Conveyor
    name,       \* [Chunks -> the object whose name the chunk carries, or Empty]
    answer,     \* [Blocks -> cmd_result for the chunk it holds, or "none"]
    status,     \* [Blocks -> the variable status of pipeline_process]
    block,      \* [Blocks -> its child process: "serves", "lacks" its collector, "gone"]
    first,      \* where first_action is
    made,       \* the newest object
    data,       \* collector->data, the object that is being filled
    alive,      \* the objects of the storage
    emptyReady, \* semaphore collector->empty_ready
    dataReady,  \* semaphore collector->data_ready
    exitFlag,   \* collector->exit_flag
    collect     \* where collect_data_thread is

belt == <<held, mail, free>>
blockVars == <<answer, status, block>>
collectorVars == <<emptyReady, dataReady, exitFlag, collect>>
vars == <<belt, name, blockVars, first, made, data, alive, collectorVars>>

Belt == INSTANCE Conveyor

Blocks == 0..(Last - 1)
Chunks == 1..DataCnt
NoChunk == 0
Empty == 0

Init ==
    /\ Belt!Init
    /\ name = [c \in Chunks |-> Empty]
    /\ answer = [m \in Blocks |-> "none"]
    /\ status = [m \in Blocks |-> -1]
    /\ \E lacking \in SUBSET MayLack :
          block = [m \in Blocks |-> IF m \in lacking THEN "lacks" ELSE "serves"]
    /\ first = "idle" /\ made = 0 /\ data = Empty /\ alive = {}
    /\ emptyReady = 0 /\ dataReady = 1 /\ exitFlag = FALSE /\ collect = "wait"

Named(m) == name[held[m]]
Asked(m) == held[m] # NoChunk /\ answer[m] = "none"

-----------------------------------------------------------------------------
(* Faulty variants of the definitions below, each a slip one could make in *)
(* the code.  They are not part of Next: they show that the properties can *)
(* tell the code from a wrong one.                                         *)

\* The finalization thread returns the chunk as it is.
FinalizeKeepsName ==
    /\ held[Last] # NoChunk
    /\ Belt!GiveBack(Last)
    /\ UNCHANGED <<name, blockVars, first, made, data, alive, collectorVars>>

\* middle_action forgets *status = 0: the status of the chunk before stays.
LooksKeepingStatus(m) ==
    IF Named(m) = Empty THEN 1 ELSE IF status[m] = -1 THEN 0 ELSE status[m]

\* last_action does not free the object.
FreesNothing(object) == UNCHANGED alive

-----------------------------------------------------------------------------
(* pipeline_process, the loop of the child processes.                      *)

\* cmd_result is the status of the action; -1 ends the process and counts as 0.
Answer(m, s) ==
    /\ status' = [status EXCEPT ![m] = IF s = -1 THEN 0 ELSE s]
    /\ answer' = [answer EXCEPT ![m] = IF s = 1 THEN "skip" ELSE "ok"]
    /\ block' = [block EXCEPT ![m] = IF s = -1 THEN "gone" ELSE @]

\* Without a collector middle_action and last_action return at once and leave
\* the status as it was; the first block does not even enter the loop.
ActsWithout(m) ==
    /\ m > 0 /\ Asked(m) /\ block[m] = "lacks"
    /\ Answer(m, status[m])
    /\ UNCHANGED <<belt, name, first, made, data, alive, collectorVars>>

-----------------------------------------------------------------------------
(* first_action. *)

\* A count that no thread waits for any more is kept at this bound.
EmptyMax == 2

\* A collector that has stopped is only told to go on.
FirstStopped ==
    /\ Asked(0) /\ block[0] = "serves" /\ first = "idle"
    /\ exitFlag
    /\ emptyReady' = IF emptyReady < EmptyMax THEN emptyReady + 1 ELSE emptyReady
    /\ Answer(0, 0)
    /\ UNCHANGED <<belt, name, first, made, data, alive, dataReady, exitFlag, collect>>

FirstCalled ==
    /\ Asked(0) /\ block[0] = "serves" /\ first = "idle"
    /\ ~exitFlag /\ made < MaxObjects
    /\ first' = "wait"
    /\ UNCHANGED <<belt, name, blockVars, made, data, alive, collectorVars>>

\* sem_wait(&collector->data_ready); the name goes into the chunk.
FirstTakes ==
    /\ first = "wait" /\ dataReady > 0
    /\ dataReady' = dataReady - 1
    /\ name' = [name EXCEPT ![held[0]] = data]
    /\ first' = "make"
    /\ UNCHANGED <<belt, blockVars, made, data, alive, emptyReady, exitFlag, collect>>

\* The next object is created and given to the collector.
FirstMakes ==
    /\ first = "make"
    /\ made' = made + 1
    /\ alive' = alive \cup {made + 1}
    /\ data' = made + 1
    /\ emptyReady' = emptyReady + 1
    /\ first' = "idle"
    /\ Answer(0, 0)
    /\ UNCHANGED <<belt, name, dataReady, exitFlag, collect>>

FirstAction == FirstStopped \/ FirstCalled \/ FirstTakes \/ FirstMakes

-----------------------------------------------------------------------------
(* middle_action and last_action. *)

\* What middle_action answers: 1 for the empty name.
Looks(m) == IF Named(m) = Empty THEN 1 ELSE 0

MiddleAction(m) ==
    /\ m \in 1..(Last - 2) /\ Asked(m) /\ block[m] = "serves"
    /\ Answer(m, Looks(m))
    /\ UNCHANGED <<belt, name, first, made, data, alive, collectorVars>>

\* storage_interface_free_object
Frees(object) == alive' = alive \ {object}

\* last_action does not look at the name.
LastAction(m) ==
    /\ m = Last - 1 /\ Asked(m) /\ block[m] = "serves"
    /\ Frees(Named(m))
    /\ Answer(m, 0)
    /\ UNCHANGED <<belt, name, first, made, data, collectorVars>>

-----------------------------------------------------------------------------
(* The threads of the modules.                                             *)

TakeChunk ==
    /\ Belt!Take
    /\ UNCHANGED <<name, blockVars, first, made, data, alive, collectorVars>>

ReceiveChunk(m) ==
    /\ Belt!Receive(m)
    /\ UNCHANGED <<name, blockVars, first, made, data, alive, collectorVars>>

\* The thread of module 0 does not look at the result.
PassChunk(m) ==
    /\ answer[m] = "ok" \/ (m = 0 /\ answer[m] # "none")
    /\ Belt!Pass(m)
    /\ answer' = [answer EXCEPT ![m] = "none"]
    /\ UNCHANGED <<name, status, block, first, made, data, alive, collectorVars>>

\* "drop frame and continue": the chunk goes back to the ring as it is.
SkipChunk(m) ==
    /\ m > 0 /\ answer[m] = "skip"
    /\ Belt!GiveBack(m)
    /\ answer' = [answer EXCEPT ![m] = "none"]
    /\ UNCHANGED <<name, status, block, first, made, data, alive, collectorVars>>

\* data[0] = '\0', and the chunk goes back.
Finalize ==
    /\ held[Last] # NoChunk
    /\ name' = [name EXCEPT ![held[Last]] = Empty]
    /\ Belt!GiveBack(Last)
    /\ UNCHANGED <<blockVars, first, made, data, alive, collectorVars>>

\* One step of the thread of module m or of its child.
Module(m) ==
    \/ m = 0 /\ (TakeChunk \/ FirstAction)
    \/ m > 0 /\ ReceiveChunk(m)
    \/ m < Last /\ (ActsWithout(m) \/ MiddleAction(m) \/ LastAction(m)
                      \/ PassChunk(m) \/ SkipChunk(m))
    \/ m = Last /\ Finalize

-----------------------------------------------------------------------------
(* collect_data_thread, in outline: see Collector.                         *)

\* The sources get the new object ...
CollectBegins ==
    /\ collect = "wait" /\ emptyReady > 0
    /\ emptyReady' = emptyReady - 1
    /\ collect' = "fill"
    /\ UNCHANGED <<dataReady, exitFlag>>

\* ... and have filled it.
CollectEnds ==
    /\ collect \in {"fill", "last"}
    /\ dataReady' = dataReady + 1
    /\ collect' = IF collect = "fill" THEN "posted" ELSE "done"
    /\ UNCHANGED <<emptyReady, exitFlag>>

\* The sources have stopped, or the thread waits for the next object.
CollectTests ==
    /\ collect = "posted"
    /\ \/ exitFlag' = TRUE /\ collect' = "last"
       \/ collect' = "wait" /\ UNCHANGED exitFlag
    /\ UNCHANGED <<emptyReady, dataReady>>

Collect ==
    /\ CollectBegins \/ CollectEnds \/ CollectTests
    /\ UNCHANGED <<belt, name, blockVars, first, made, data, alive>>

Next == Collect \/ (\E m \in 0..Last : Module(m))

Spec == Init /\ [][Next]_vars

\* Threads and processes are scheduled, and sources fill their objects.
FairSpec == Spec /\ WF_vars(Collect) /\ (\A m \in 0..Last : WF_vars(Module(m)))

-----------------------------------------------------------------------------
(* Properties. *)

\* The chunks on their way to last_action.
OnTheWay ==
    {c \in Chunks :
        \/ \E m \in Blocks : held[m] = c /\ (m = Last - 1 => answer[m] = "none")
        \/ \E m \in 1..(Last - 1) : mail[m] = c}

\* The object whose name a chunk carries to a block is in the storage, is not the
\* one that the collector fills, and no other chunk carries it: no block works on
\* an object that is freed, and none is freed twice, also when the collector has
\* stopped and chunks travel that first_action did not write
\* (dclprocessor.c:29-33, :50 and :141, pipeline_server.c:54).
UsedIsAlive ==
    \A c, d \in OnTheWay : name[c] # Empty =>
        /\ name[c] \in alive
        /\ name[c] = data => first = "make"
        /\ name[c] = name[d] => c = d

\* Every object of the storage is being filled or on its way to last_action, so
\* there are never more than DataCnt + 1: a chunk dropped on the way, or passed
\* on by a block that has no collector, takes no object with it
\* (dclprocessor.c:93-111, pipeline_server.c:299-305).
NothingLeaks ==
    block[Last - 1] = "serves" => alive \subseteq {data} \cup {name[c] : c \in OnTheWay}

\* An object that is handed to the pipeline is freed, when no block lacks its
\* collector (dclprocessor.c:50-141).
HandedIsFreed ==
    (\A m \in Blocks : block[m] = "serves") =>
        \A o \in 1..MaxObjects : (\E c \in Chunks : name[c] = o) ~> o \notin alive

=============================================================================
