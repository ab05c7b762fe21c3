--------------------------- MODULE PipelineControl ---------------------------
(***************************************************************************)
(* The control plane of a pipeline (dclprocessor/pipeline, process): the   *)
(* main thread of a pipeline that starts the modules one after another,    *)
(* decides whether the pipeline is usable, joins the threads of its        *)
(* modules and frees everything; the owner that starts, switches, stops    *)
(* and destroys the pipeline, and may make another one; and the table of   *)
(* processes that all pipelines of a program share.                        *)
(*                                                                         *)
(* The modules stand in the list in the order of their chain.  What a      *)
(* module thread does between its start and its end is PipelineFlow; here  *)
(* it is "running" until the end of its predecessor lets it leave its loop *)
(* (PipelineFlow!StopEndsThreadsIfChildrenStay).                           *)
(***************************************************************************)
EXTENDS Integers

CONSTANTS
    Last,       \* index of the finalization module
    FirstModes, \* for each pipeline "EXTERNAL": source_thread, "INTERNAL": initial_thread
    MayLackName, \* modules whose description may have no "name": argv is NULL
    ProcMax,    \* map->process_cnt, the size of the table of processes
    MaxPipelines, \* bound: how many pipelines the owner makes, one after another
    Patient     \* TRUE: the owner commands a pipeline only after pipeline_start

ASSUME ControlAssumption ==
    /\ Last \in Nat /\ Last >= 1
    /\ FirstModes \in [1..MaxPipelines -> {"EXTERNAL", "INTERNAL"}]
    /\ MayLackName \subseteq 0..(Last - 1)
    /\ ProcMax \in Nat
    /\ MaxPipelines \in Nat
    /\ Patient \in BOOLEAN

Modules == 0..Last

VARIABLES
    made,       \* pipelines made so far
    owner,      \* where the thread that calls the API is
    target,     \* the state it is giving to the modules
    at,         \* the module of the list it has reached
    asked,      \* pipeline_start has returned for this pipeline
    plState,    \* pl->state
    exitFlag,   \* pl->exit_flag
    main,       \* where pipeline_thread is
    cur,        \* its position in the list
    realStarted,  \* real_started
    startControl, \* the semaphore start_control
    thread,     \* [Modules -> the thread of the module]
    idx,        \* [Modules -> module->idx]
    state,      \* [Modules -> module->state]
    mailbox,    \* [Modules -> its semaphores new_cmd and result]
    processCnt  \* static process_cnt: ids given out so far

\* What the first module of the pipeline is, and which modules start a child
\* process with their argv.
FirstMode == FirstModes[made]
WithChild == {m \in 0..(Last - 1) : m > 0 \/ FirstMode = "EXTERNAL"}

\* At its end initial_thread takes an index above 1 of the next module for a child
\* of its own, and waits for an answer that nobody gives.
WaitsForNobody == FirstMode = "INTERNAL" /\ idx[1] > 1

ownerVars == <<made, owner, target, at, asked>>
mainVars == <<main, cur, realStarted>>
vars == <<ownerVars, plState, exitFlag, mainVars, startControl, thread, idx,
          state, mailbox, processCnt>>

NotStarted == -1    \* pipeline_module_add, and a failed process_start
Initialized == -200 \* pipeline_module_init
Destroyed == -250   \* pipeline_module_destroy

PlStates == {"UNKNOWN", "ERROR", "INIT", "PAUSE", "LIVE", "STOP"}
\* A thread is "lost" on semaphores that are set up only later, and "stuck" on
\* one that nobody will post.
ThreadPlaces == {"none", "created", "running", "ending", "stuck", "done", "joined", "lost"}
OwnerPlaces == {"none", "idle", "poll", "check", "write", "publish", "join"}
MainPlaces == {"none", "enter", "create", "wait", "test", "joinfailed", "decide",
               "join", "free", "exited"}

\* pipeline_init: a new structure, the modules added to its list, the main thread.
NewPipeline ==
    /\ plState' = "UNKNOWN"
    /\ exitFlag' = 0
    /\ main' = "enter"
    /\ cur' = 0
    /\ realStarted' = 0
    /\ startControl' = 0
    /\ thread' = [m \in Modules |-> "none"]
    /\ idx' = [m \in Modules |-> NotStarted]
    /\ state' = [m \in Modules |-> "UNKNOWN"]
    /\ mailbox' = [m \in Modules |-> "raw"]

Init ==
    /\ made = 0
    /\ owner = "none" /\ target = "UNKNOWN" /\ at = 0 /\ asked = FALSE
    /\ plState = "UNKNOWN" /\ exitFlag = 0
    /\ main = "none" /\ cur = 0 /\ realStarted = 0 /\ startControl = 0
    /\ thread = [m \in Modules |-> "none"]
    /\ idx = [m \in Modules |-> NotStarted]
    /\ state = [m \in Modules |-> "UNKNOWN"]
    /\ mailbox = [m \in Modules |-> "raw"]
    /\ processCnt = 0

-----------------------------------------------------------------------------
(* Faulty variants of the definitions below, each a slip one could make in *)
(* the code.  They are not part of Next: they show that the properties can *)
(* tell the code from a wrong one.                                         *)

\* process_cnt > process_cnt_max in place of >=.
TableFullOffByOne == processCnt > ProcMax

\* A failed start does not raise exit_flag.
StartFailedKeepsFlag(m) ==
    /\ startControl' = startControl + 1
    /\ thread' = [thread EXCEPT ![m] = "done"]
    /\ UNCHANGED exitFlag

\* Modules are destroyed without waiting for their threads.
JoinNextForgotten ==
    /\ main = "join" /\ cur <= Last
    /\ idx' = [idx EXCEPT ![cur] = Destroyed]
    /\ state' = [state EXCEPT ![cur] = "UNKNOWN"]
    /\ mailbox' = [mailbox EXCEPT ![cur] = "gone"]
    /\ cur' = cur + 1
    /\ UNCHANGED <<ownerVars, plState, exitFlag, main, realStarted, startControl,
                   thread, processCnt>>

\* pipeline_start that takes any decision of the main thread for the last one.
StartSeesDecision ==
    /\ owner = "poll" /\ plState \in {"INIT", "ERROR"}
    /\ target' = "PAUSE"
    /\ at' = 0
    /\ owner' = "check"
    /\ UNCHANGED <<made, asked, plState, exitFlag, mainVars, startControl, thread, idx,
                   state, mailbox, processCnt>>

\* initial_thread does not look at its state for MD_STATE_STOP.
FirstMayLeaveOnlyByFlag == exitFlag = 1

-----------------------------------------------------------------------------
(* The threads of the modules.                                             *)

\* process_start: no id is left.
TableFull == processCnt >= ProcMax

\* process_start with success: an id nobody had before.
TakeId(m) ==
    /\ ~TableFull
    /\ idx' = [idx EXCEPT ![m] = processCnt]
    /\ processCnt' = processCnt + 1

\* process_start that fails.  An id taken before access or fork failed is lost.
NoId(m) ==
    /\ idx' = [idx EXCEPT ![m] = NotStarted]
    /\ processCnt' = IF TableFull THEN processCnt ELSE processCnt + 1

\* The tail of a failed start: *(module->exit_flag) = 1, the post, the return.
StartFailed(m) ==
    /\ exitFlag' = 1
    /\ startControl' = startControl + 1
    /\ thread' = [thread EXCEPT ![m] = "done"]

\* The thread of m has its process and enters its loop.
ThreadStarts(m) ==
    /\ thread[m] = "created"
    /\ TakeId(m)
    /\ startControl' = startControl + 1
    /\ thread' = [thread EXCEPT ![m] = "running"]
    /\ UNCHANGED <<ownerVars, plState, exitFlag, mainVars, state, mailbox>>

\* No id is left for an internal thread.  Its result is not tested: the thread
\* enters its loop all the same.
InternalStartsWithoutId(m) ==
    /\ thread[m] = "created" /\ m \notin WithChild /\ TableFull
    /\ NoId(m)
    /\ startControl' = startControl + 1
    /\ thread' = [thread EXCEPT ![m] = "running"]
    /\ UNCHANGED <<ownerVars, plState, exitFlag, mainVars, state, mailbox>>

\* The process of m could not be started.
ThreadFails(m) ==
    /\ thread[m] = "created" /\ m \in WithChild
    /\ NoId(m)
    /\ StartFailed(m)
    /\ UNCHANGED <<ownerVars, plState, mainVars, state, mailbox>>

\* argv is NULL: the thread returns, and tells nobody.
ThreadGivesUp(m) ==
    /\ thread[m] = "created" /\ m \in MayLackName \cap WithChild
    /\ thread' = [thread EXCEPT ![m] = "done"]
    /\ UNCHANGED <<ownerVars, plState, exitFlag, mainVars, startControl, idx, state,
                   mailbox, processCnt>>

\* What ends the loop of the first thread.
FirstMayLeave == exitFlag = 1 \/ (FirstMode = "INTERNAL" /\ state[0] = "STOP")

\* Where a thread is that has sent PROCESS_CMD_STOP to its successor.
AfterStop == {"ending", "stuck", "done", "joined"}

\* The thread of m leaves its loop: the first by itself, another one when its
\* predecessor has sent PROCESS_CMD_STOP.
MayLeave(m) ==
    /\ thread[m] = "running"
    /\ IF m = 0 THEN FirstMayLeave ELSE thread[m - 1] \in AfterStop

\* It sends PROCESS_CMD_STOP to its successor.  A wait on semaphores that
\* pipeline_module_init sets up later is never woken.
LeaveLoop(m) ==
    /\ m < Last /\ MayLeave(m)
    /\ thread' = [thread EXCEPT ![m] = IF mailbox[m + 1] = "ready" THEN "ending" ELSE "lost"]
    /\ UNCHANGED <<ownerVars, plState, exitFlag, mainVars, startControl, idx, state,
                   mailbox, processCnt>>

\* pipeline_module_set_state of a thread that ends: an ERROR stays.
EndState(m) ==
    IF state[m] = "ERROR" THEN state
    ELSE [state EXCEPT ![m] = IF m = 0 /\ FirstMode = "INTERNAL" THEN "STOP" ELSE "INIT"]

\* The child has answered PROCESS_CMD_STOP and the thread returns; process_thread
\* leaves its state alone, initial_thread may wait for a child it does not have.
EndThread(m) ==
    /\ m < Last /\ thread[m] = "ending"
    /\ IF m = 0 /\ WaitsForNobody
          THEN thread' = [thread EXCEPT ![m] = "stuck"] /\ UNCHANGED state
          ELSE /\ thread' = [thread EXCEPT ![m] = "done"]
               /\ state' = IF m = 0 THEN EndState(m) ELSE state
    /\ UNCHANGED <<ownerVars, plState, exitFlag, mainVars, startControl, idx, mailbox,
                   processCnt>>

\* The first thread tested exit_flag before the failure of m raised it, and its state
\* after pipeline_live: one more chunk comes to the mailbox of m, where nobody reads
\* it, so the thread before m waits in vain to send PROCESS_CMD_STOP there.
ChunkForNobody(m) ==
    /\ m > 0 /\ thread[m] = "joined"
    /\ \A k \in 0..(m - 1) : thread[k] = "running"
    /\ state[0] = "LIVE"
    /\ thread' = [thread EXCEPT ![m - 1] = "stuck"]
    /\ UNCHANGED <<ownerVars, plState, exitFlag, mainVars, startControl, idx, state,
                   mailbox, processCnt>>

\* finalization_thread has read PROCESS_CMD_STOP and returns.
EndFinalization ==
    /\ MayLeave(Last)
    /\ thread' = [thread EXCEPT ![Last] = "done"]
    /\ state' = EndState(Last)
    /\ UNCHANGED <<ownerVars, plState, exitFlag, mainVars, startControl, idx, mailbox,
                   processCnt>>

Thread(m) ==
    \/ ThreadStarts(m)
    \/ InternalStartsWithoutId(m)
    \/ ThreadFails(m)
    \/ ThreadGivesUp(m)
    \/ LeaveLoop(m)
    \/ EndThread(m)

-----------------------------------------------------------------------------
(* pipeline_thread.                                                        *)

\* process_subsystem_init does not touch process_cnt.
Enter ==
    /\ main = "enter"
    /\ plState' = "UNKNOWN"
    /\ main' = "create"
    /\ UNCHANGED <<ownerVars, exitFlag, cur, realStarted, startControl, thread, idx,
                   state, mailbox, processCnt>>

\* pipeline_module_init and pthread_create for the next module of the list.
CreateModule ==
    /\ main = "create" /\ cur <= Last
    /\ idx' = [idx EXCEPT ![cur] = Initialized]
    /\ state' = [state EXCEPT ![cur] = "UNKNOWN"]
    /\ mailbox' = [mailbox EXCEPT ![cur] = "ready"]
    /\ thread' = [thread EXCEPT ![cur] = "created"]
    /\ main' = "wait"
    /\ UNCHANGED <<ownerVars, plState, exitFlag, cur, realStarted, startControl, processCnt>>

WaitStart ==
    /\ main = "wait" /\ startControl > 0
    /\ startControl' = startControl - 1
    /\ main' = "test"
    /\ UNCHANGED <<ownerVars, plState, exitFlag, cur, realStarted, thread, idx, state,
                   mailbox, processCnt>>

ModuleStarted ==
    /\ main = "test" /\ idx[cur] # NotStarted
    /\ state' = [state EXCEPT ![cur] = "INIT"]
    /\ realStarted' = realStarted + 1
    /\ cur' = cur + 1
    /\ main' = IF cur = Last THEN "decide" ELSE "create"
    /\ UNCHANGED <<ownerVars, plState, exitFlag, startControl, thread, idx, mailbox, processCnt>>

ModuleFailed ==
    /\ main = "test" /\ idx[cur] = NotStarted
    /\ main' = "joinfailed"
    /\ UNCHANGED <<ownerVars, plState, exitFlag, cur, realStarted, startControl, thread,
                   idx, state, mailbox, processCnt>>

\* The thread of the failed module is joined and the start loop left.
JoinFailed ==
    /\ main = "joinfailed" /\ thread[cur] = "done"
    /\ thread' = [thread EXCEPT ![cur] = "joined"]
    /\ state' = [state EXCEPT ![cur] = "ERROR"]
    /\ plState' = "ERROR"
    /\ main' = "decide"
    /\ UNCHANGED <<ownerVars, exitFlag, cur, realStarted, startControl, idx, mailbox, processCnt>>

Decide ==
    /\ main = "decide"
    /\ plState' = IF realStarted >= 2 THEN "INIT" ELSE "ERROR"
    /\ cur' = 0
    /\ main' = "join"
    /\ UNCHANGED <<ownerVars, exitFlag, realStarted, startControl, thread, idx, state,
                   mailbox, processCnt>>

\* A module whose thread was joined, or never made, has idx -1.
ReadyToJoin == idx[cur] = NotStarted \/ thread[cur] = "done"

\* pthread_join and pipeline_module_destroy for the next module of the list.
JoinNext ==
    /\ main = "join" /\ cur <= Last
    /\ ReadyToJoin
    /\ thread' = IF idx[cur] = NotStarted THEN thread ELSE [thread EXCEPT ![cur] = "joined"]
    /\ idx' = [idx EXCEPT ![cur] = Destroyed]
    /\ state' = [state EXCEPT ![cur] = "UNKNOWN"]
    /\ mailbox' = [mailbox EXCEPT ![cur] = "gone"]
    /\ cur' = cur + 1
    /\ UNCHANGED <<ownerVars, plState, exitFlag, main, realStarted, startControl, processCnt>>

\* ring_buffer_destroy, process_subsystem_destroy: process_cnt stays what it is.
FreeAll ==
    /\ main = "join" /\ cur > Last
    /\ main' = "exited"
    /\ UNCHANGED <<ownerVars, plState, exitFlag, cur, realStarted, startControl, thread,
                   idx, state, mailbox, processCnt>>

Main ==
    \/ Enter \/ CreateModule \/ WaitStart \/ ModuleStarted \/ ModuleFailed
    \/ JoinFailed \/ Decide \/ JoinNext \/ FreeAll

-----------------------------------------------------------------------------
(* The owner.                                                              *)

ownerLeaves == <<exitFlag, mainVars, startControl, thread, idx, mailbox, processCnt>>

InitPipeline ==
    /\ owner = "none" /\ made < MaxPipelines
    /\ made' = made + 1
    /\ owner' = "idle"
    /\ asked' = FALSE
    /\ NewPipeline
    /\ UNCHANGED <<target, at, processCnt>>

CallStart ==
    /\ owner = "idle" /\ ~asked
    /\ owner' = "poll"
    /\ UNCHANGED <<made, target, at, asked, plState, state, ownerLeaves>>

\* pipeline_modules_set_state begins at the head of the list.
BeginSet(new) ==
    /\ target' = new
    /\ at' = 0
    /\ owner' = "check"
    /\ UNCHANGED <<made, asked, plState, state, ownerLeaves>>

\* The loop of pipeline_start ends only on PL_STATE_INIT.
StartSeesInit == owner = "poll" /\ plState = "INIT" /\ BeginSet("PAUSE")

MayCommand == owner = "idle" /\ (Patient => asked)
MayLive == plState = "PAUSE"

CallLive == MayCommand /\ MayLive /\ BeginSet("LIVE")
CallPause == MayCommand /\ plState = "LIVE" /\ BeginSet("PAUSE")
CallStop == MayCommand /\ BeginSet("STOP")

\* pipeline_module_set_state reads the old state, and writes the new one in a
\* step of its own: no lock is held.
CheckState ==
    /\ owner = "check" /\ at <= Last
    /\ IF state[at] = "ERROR"
          THEN at' = at + 1 /\ UNCHANGED owner
          ELSE owner' = "write" /\ UNCHANGED at
    /\ UNCHANGED <<made, target, asked, plState, state, ownerLeaves>>

WriteState ==
    /\ owner = "write"
    /\ state' = [state EXCEPT ![at] = target]
    /\ at' = at + 1
    /\ owner' = "check"
    /\ UNCHANGED <<made, target, asked, plState, ownerLeaves>>

\* pl->state follows the modules; pipeline_start returns here too.
Publish ==
    /\ owner = "check" /\ at > Last
    /\ plState' = target
    /\ asked' = (asked \/ target = "PAUSE")
    /\ owner' = "idle"
    /\ UNCHANGED <<made, target, at, state, ownerLeaves>>

CallDestroy ==
    /\ MayCommand
    /\ owner' = "join"
    /\ UNCHANGED <<made, target, at, asked, plState, state, ownerLeaves>>

\* pipeline_destroy joins the main thread before it raises exit_flag.
DestroyPipeline ==
    /\ owner = "join" /\ main = "exited"
    /\ owner' = "none"
    /\ state' = [m \in Modules |-> "UNKNOWN"]
    /\ plState' = "UNKNOWN"
    /\ exitFlag' = 1
    /\ main' = "none"
    /\ UNCHANGED <<made, target, at, asked, cur, realStarted, startControl, thread, idx,
                   mailbox, processCnt>>

\* What the owner does once it has called.
OwnerGoesOn == StartSeesInit \/ CheckState \/ WriteState \/ Publish \/ DestroyPipeline
OwnerCalls == InitPipeline \/ CallStart \/ CallLive \/ CallPause \/ CallStop \/ CallDestroy

-----------------------------------------------------------------------------
Next ==
    \/ \E m \in Modules : Thread(m)
    \/ \E m \in Modules : ChunkForNobody(m)
    \/ EndFinalization
    \/ Main
    \/ OwnerGoesOn
    \/ OwnerCalls

Spec == Init /\ [][Next]_vars

\* Every thread runs when it can.  A call of the API that has begun goes on; which
\* calls are made, and whether a process starts, is left open.  That a thread
\* leaves its loop and ends rests on children that stay (see PipelineFlow).
Fairness ==
    /\ WF_vars(Main)
    /\ WF_vars(OwnerGoesOn)
    /\ WF_vars(EndFinalization)
    /\ \A m \in Modules : WF_vars(Thread(m))

FairSpec == Spec /\ Fairness

-----------------------------------------------------------------------------
(* Properties.                                                             *)

TypeOK ==
    /\ made \in 0..MaxPipelines
    /\ owner \in OwnerPlaces
    /\ target \in {"UNKNOWN", "PAUSE", "LIVE", "STOP"}
    /\ at \in 0..(Last + 1)
    /\ asked \in BOOLEAN
    /\ plState \in PlStates
    /\ exitFlag \in {0, 1}
    /\ main \in MainPlaces
    /\ cur \in 0..(Last + 1)
    /\ realStarted \in 0..(Last + 1)
    /\ startControl \in {0, 1}
    /\ thread \in [Modules -> ThreadPlaces]
    /\ idx \in [Modules -> {NotStarted, Initialized, Destroyed} \cup 0..(ProcMax - 1)]
    /\ state \in [Modules -> PlStates]
    /\ mailbox \in [Modules -> {"raw", "ready", "gone"}]
    /\ processCnt \in 0..ProcMax

\* When pipeline_thread frees the ring of chunks and the table of processes
\* (pipeline.c:97-98), no thread of a module can use them any more.  The join
\* loop decides from idx alone which threads are left to join.
NothingOutlivesPipeline ==
    main \in {"exited", "none"} => \A m \in Modules : thread[m] \in {"none", "joined"}

\* The modules of all pipelines of the program get different entries of the
\* table of processes, and none behind its end (process_start, proc_info + idx).
OwnTableEntry ==
    \A m \in Modules : idx[m] >= 0 =>
        /\ idx[m] < ProcMax
        /\ \A n \in Modules : n # m => idx[n] # idx[m]

\* A thread that may wait on the semaphores of its own module, or of the next one,
\* finds them set up and not destroyed, although the main thread sets them up
\* while the threads before already run and destroys them while others still run.
MailboxesUsable ==
    \A m \in Modules :
        /\ thread[m] \in {"created", "running", "ending", "stuck"} => mailbox[m] = "ready"
        /\ m < Last /\ thread[m] \in {"ending", "stuck"} => mailbox[m + 1] = "ready"
        /\ thread[m] # "lost"

\* A state that the owner has given to the pipeline is changed by the owner only:
\* pipeline_start waits until the main thread has written its last decision.
OwnerHasTheLastWord ==
    [][(plState \in {"PAUSE", "LIVE", "STOP"}) => (plState' = plState \/ owner' # owner)]_vars

\* The comment before pipeline_start in dclprocessor.c:228: a pipeline is not LIVE
\* while some process of it did not start.
LiveMeansComplete == plState = "LIVE" => realStarted = Last + 1

\* What pipeline_live, pause and stop command reaches every module: once such a call
\* has returned, no thread that still runs has another state than that of the
\* pipeline, although pipeline_module_set_state tests and writes without a lock while
\* the threads and the main thread write states too (pipeline_module.c:137).
CommandReaches ==
    owner = "idle" /\ asked =>
        \A m \in Modules :
            thread[m] \in {"running", "ending", "stuck"} => state[m] \in {plState, "ERROR"}

\* After a module failed, the threads that were started end and the main thread frees
\* everything, with no help of the owner (pipeline_server.c:172, :257).  Not so if
\* initial_thread waits for a child it does not have, or if a chunk still came to the
\* module that failed: then the thread before it waits for ever.
FailedStartIsFreed ==
    (\E m \in Modules : state[m] = "ERROR") /\ ~WaitsForNobody
        ~> main = "exited" \/ \E m \in Modules : thread[m] = "stuck"

\* After pipeline_stop the main thread of a complete pipeline fed by initial_thread
\* gets through its join loop and frees everything (pipeline.c:88-98), unless
\* initial_thread waits for a child it does not have, where the comment "when pipeline
\* stopped we should free memory" (:88) does not hold.
StopFreesMemory ==
    plState = "STOP" /\ FirstMode = "INTERNAL" /\ realStarted = Last + 1 /\ ~WaitsForNobody
        ~> main = "exited"
=============================================================================
