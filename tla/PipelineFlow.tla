---------------------------- MODULE PipelineFlow ----------------------------
(***************************************************************************)
(* The data plane of a running pipeline (dclprocessor/pipeline): one       *)
(* thread per module, one child process per external module, the ring of   *)
(* free chunks, and the semaphores that connect them.                      *)
(*                                                                         *)
(* Module 0 is the first module (source_thread or initial_thread), modules *)
(* 1 .. Last-1 are middle modules (process_thread), module Last is the     *)
(* finalization module.  The model starts when pipeline_thread has left    *)
(* its start loop: either every module runs, or the process of a middle    *)
(* module could not be started, which raised exit_flag, and only the       *)
(* modules before it run.                                                  *)
(*                                                                         *)
(* A stretch of a thread between two semaphore operations touches memory   *)
(* that the handshake gives to it alone; a wait opens the stretch (one     *)
(* step), the writes and the closing post are the next step.  Whether the  *)
(* handshake really gives that exclusion is what the invariants say.       *)
(***************************************************************************)
EXTENDS Naturals, Sequences

CONSTANTS
    Last,       \* index of the finalization module
    DataCnt,    \* map->data_cnt, the chunks of the ring
    FirstMode,  \* "EXTERNAL": source_thread, "INTERNAL": initial_thread
    NextIdx,    \* idx that process_start gave to module 1
    Statuses    \* what the action of a child may report

ASSUME FlowAssumption ==
    /\ Last \in Nat /\ Last >= 1
    /\ DataCnt \in Nat
    /\ FirstMode \in {"EXTERNAL", "INTERNAL"}
    /\ NextIdx \in Nat
    /\ Statuses \subseteq {"ok", "skip", "quit"}

Modules == 0..Last
Receivers == 1..Last
Chunks == 1..DataCnt
NoChunk == 0
Cmds == {"JOB", "STOP"}

\* The modules that hand work to a child process.
WithChild == {m \in 0..(Last - 1) : m > 0 \/ FirstMode = "EXTERNAL"}

VARIABLES
    pc,         \* [Modules -> where the thread of the module is]
    local,      \* [Modules -> the chunk its thread owns]; dead values are NoChunk
    newCmd,     \* [Receivers -> semaphore module->new_cmd]
    result,     \* [Receivers -> semaphore module->result]
    cmd,        \* [Receivers -> module->cmd]
    dataoffset, \* [Receivers -> module->dataoffset]
    semJob,     \* [Modules -> semaphore proc_info->sem_job]
    semResult,  \* [Modules -> semaphore proc_info->sem_result]
    procCmd,    \* [Modules -> proc_info->cmd]
    procOffs,   \* [Modules -> proc_info->cmd_offs]
    procResult, \* [Modules -> proc_info->cmd_result]
    child,      \* [Modules -> what the child process of the module does]
    ring,       \* data_ring, the free chunks, oldest first
    state,      \* state of module 0, the only one a thread reads
    plState     \* pl->state

mailbox == <<newCmd, result, cmd, dataoffset>>
process == <<semJob, semResult, procCmd, procOffs, procResult, child>>
control == <<state, plState>>
vars == <<pc, local, mailbox, process, ring, control>>

\* Where a module's thread may be.  "none": no thread runs.
FirstOnly == {"loop", "state", "pop"}
Writing == {"write", "stopwrite"}
Places == FirstOnly \cup Writing \cup
          {"none", "wait", "read", "job", "busy", "acquire", "free",
           "stopacquire", "stopchild", "stopwait", "done"}

\* *(module->exit_flag), raised by a middle module whose process did not start.
ExitFlag == pc[Last] = "none"

FirstPc(m) == IF m = 0 THEN "loop" ELSE "wait"
Goto(m, place) == pc' = [pc EXCEPT ![m] = place]

\* Modules 0 .. started-1 run.  pipeline_module_init was called for them and for
\* the module that failed.  The first thread may have tested exit_flag before.
InitStarted(started) ==
    /\ \E first \in IF started <= Last THEN {"loop", "state"} ELSE {"loop"} :
          pc = [m \in Modules |-> IF m >= started THEN "none"
                                  ELSE IF m = 0 THEN first ELSE "wait"]
    /\ result = [m \in Receivers |-> IF m <= started THEN 1 ELSE 0]
    /\ child = [m \in Modules |-> IF m \in WithChild /\ m < started THEN "idle" ELSE "none"]
    /\ plState = IF started >= 2 THEN "INIT" ELSE "ERROR"

Init ==
    /\ \E started \in 1..(Last + 1) \ {Last} : InitStarted(started)
    /\ local = [m \in Modules |-> NoChunk]
    /\ newCmd = [m \in Receivers |-> 0]
    /\ cmd = [m \in Receivers |-> "JOB"]
    /\ dataoffset = [m \in Receivers |-> NoChunk]
    /\ semJob = [m \in Modules |-> 0]
    /\ semResult = [m \in Modules |-> 0]
    /\ procCmd = [m \in Modules |-> "JOB"]
    /\ procOffs = [m \in Modules |-> NoChunk]
    /\ procResult = [m \in Modules |-> "ok"]
    /\ ring = [i \in Chunks |-> i]
    /\ state = "INIT"

-----------------------------------------------------------------------------
(* Faulty variants of the actions below, each a slip one could make in the *)
(* code.  They are not part of Next: they show that the properties can     *)
(* tell the code from a wrong one.                                         *)

\* sem_wait(&module->next->result) forgotten.
WaitNextForgotten(m) ==
    /\ pc[m] \in {"acquire", "stopacquire"}
    /\ Goto(m, IF pc[m] = "acquire" THEN "write" ELSE "stopwrite")
    /\ UNCHANGED <<local, mailbox, process, ring, control>>

\* sem_wait(&proc_info->sem_result) does not block.
TakeBackEarly(m) ==
    /\ pc[m] = "busy"
    /\ semResult' = [semResult EXCEPT ![m] = @ - 1]
    /\ Goto(m, "acquire")
    /\ UNCHANGED <<local, mailbox, semJob, procCmd, procOffs, procResult, child, ring, control>>

\* sem_wait(&proc_info->sem_result) forgotten.
TakeBackForgotten(m) ==
    /\ pc[m] = "busy"
    /\ Goto(m, "acquire")
    /\ UNCHANGED <<local, mailbox, process, ring, control>>

\* The continue after the push is missing: the freed chunk is passed on too.
TakeBackNoContinue(m) ==
    /\ pc[m] = "busy"
    /\ semResult[m] > 0
    /\ semResult' = [semResult EXCEPT ![m] = @ - 1]
    /\ ring' = IF m > 0 /\ procResult[m] # "ok" THEN Append(ring, local[m]) ELSE ring
    /\ Goto(m, "acquire")
    /\ UNCHANGED <<local, mailbox, semJob, procCmd, procOffs, procResult, child, control>>

\* sem_post(&module->result) forgotten.
ReadCmdNoPost(m) ==
    /\ pc[m] = "read"
    /\ Goto(m, IF cmd[m] = "STOP" THEN (IF m = Last THEN "done" ELSE "stopacquire")
               ELSE (IF m = Last THEN "free" ELSE "job"))
    /\ local' = [local EXCEPT ![m] = IF cmd[m] = "JOB" THEN dataoffset[m] ELSE NoChunk]
    /\ UNCHANGED <<mailbox, process, ring, control>>

\* A middle thread returns on STOP and does not forward it.
ReadCmdNoForward(m) ==
    /\ pc[m] = "read"
    /\ result' = [result EXCEPT ![m] = @ + 1]
    /\ Goto(m, IF cmd[m] = "STOP" THEN "done" ELSE IF m = Last THEN "free" ELSE "job")
    /\ local' = [local EXCEPT ![m] = IF cmd[m] = "JOB" THEN dataoffset[m] ELSE NoChunk]
    /\ UNCHANGED <<newCmd, cmd, dataoffset, process, ring, control>>

\* The loop of a middle thread tests its state as the first module does.
WaitCmdUnlessStopped(m) ==
    /\ pc[m] = "wait"
    /\ IF state = "STOP" /\ m < Last
       THEN Goto(m, "stopacquire") /\ UNCHANGED newCmd
       ELSE /\ newCmd[m] > 0
            /\ newCmd' = [newCmd EXCEPT ![m] = @ - 1]
            /\ Goto(m, "read")
    /\ UNCHANGED <<local, result, cmd, dataoffset, process, ring, control>>

\* The first thread goes on after it passed STOP.
PassStopAndGoOn(m) ==
    /\ pc[m] = "stopwrite"
    /\ cmd' = [cmd EXCEPT ![m + 1] = "STOP"]
    /\ newCmd' = [newCmd EXCEPT ![m + 1] = @ + 1]
    /\ Goto(m, IF m = 0 THEN "loop" ELSE "stopchild")
    /\ UNCHANGED <<local, result, dataoffset, process, ring, control>>

-----------------------------------------------------------------------------
(* The first module. *)

\* while(!(*(module->exit_flag)))
CheckExit ==
    /\ pc[0] = "loop"
    /\ Goto(0, IF ExitFlag THEN "stopacquire" ELSE "state")
    /\ UNCHANGED <<local, mailbox, process, ring, control>>

\* source_thread polls until its state is LIVE; STOP does not end it.
SourceSees == IF state = "LIVE" THEN "pop" ELSE "loop"

\* initial_thread also leaves its loop on STOP.
InitialSees == IF state = "STOP" THEN "stopacquire" ELSE SourceSees

CheckState ==
    /\ pc[0] = "state"
    /\ Goto(0, IF FirstMode = "EXTERNAL" THEN SourceSees ELSE InitialSees)
    /\ UNCHANGED <<local, mailbox, process, ring, control>>

\* ring_buffer_pop waits for a free chunk and takes the oldest.
PopChunk ==
    /\ pc[0] = "pop"
    /\ ring # <<>>
    /\ local' = [local EXCEPT ![0] = Head(ring)]
    /\ ring' = Tail(ring)

\* source_thread lets its child fill the chunk.
SourceCapture ==
    /\ FirstMode = "EXTERNAL"
    /\ PopChunk
    /\ Goto(0, "job")
    /\ UNCHANGED <<mailbox, process, control>>

\* initial_thread fills it itself; it writes its proc_info, which nobody reads.
InitialCapture ==
    /\ FirstMode = "INTERNAL"
    /\ PopChunk
    /\ Goto(0, "acquire")
    /\ procCmd' = [procCmd EXCEPT ![0] = "JOB"]
    /\ procOffs' = [procOffs EXCEPT ![0] = Head(ring)]
    /\ UNCHANGED <<mailbox, semJob, semResult, procResult, child, control>>

-----------------------------------------------------------------------------
(* Receiving a command: middle modules and the finalization module. *)

\* sem_wait(&module->new_cmd)
WaitCmd(m) ==
    /\ pc[m] = "wait"
    /\ newCmd[m] > 0
    /\ newCmd' = [newCmd EXCEPT ![m] = @ - 1]
    /\ Goto(m, "read")
    /\ UNCHANGED <<local, result, cmd, dataoffset, process, ring, control>>

\* Copy cmd and dataoffset, sem_post(&module->result).
ReadCmd(m) ==
    /\ pc[m] = "read"
    /\ result' = [result EXCEPT ![m] = @ + 1]
    /\ \/ /\ cmd[m] = "STOP"
          /\ Goto(m, IF m = Last THEN "done" ELSE "stopacquire")
          /\ UNCHANGED local
       \/ /\ cmd[m] = "JOB"
          /\ Goto(m, IF m = Last THEN "free" ELSE "job")
          /\ local' = [local EXCEPT ![m] = dataoffset[m]]
    /\ UNCHANGED <<newCmd, cmd, dataoffset, process, ring, control>>

\* The finalization module clears the chunk and returns it.
FreeChunk ==
    /\ pc[Last] = "free"
    /\ ring' = Append(ring, local[Last])
    /\ local' = [local EXCEPT ![Last] = NoChunk]
    /\ Goto(Last, "wait")
    /\ UNCHANGED <<mailbox, process, control>>

-----------------------------------------------------------------------------
(* Handing the chunk to the child process of the module and back. *)

\* Fill proc_info, sem_post(&proc_info->sem_job)
GiveJob(m) ==
    /\ pc[m] = "job"
    /\ procCmd' = [procCmd EXCEPT ![m] = "JOB"]
    /\ procOffs' = [procOffs EXCEPT ![m] = local[m]]
    /\ semJob' = [semJob EXCEPT ![m] = @ + 1]
    /\ Goto(m, "busy")
    /\ UNCHANGED <<local, mailbox, semResult, procResult, child, ring, control>>

\* sem_wait(&proc_info->sem_result).  A middle module returns a chunk whose
\* cmd_result is not 0; source_thread does not look at cmd_result.
TakeBack(m) ==
    /\ pc[m] = "busy"
    /\ semResult[m] > 0
    /\ semResult' = [semResult EXCEPT ![m] = @ - 1]
    /\ IF m > 0 /\ procResult[m] # "ok"
       THEN /\ ring' = Append(ring, local[m])
            /\ local' = [local EXCEPT ![m] = NoChunk]
            /\ Goto(m, "wait")
       ELSE /\ Goto(m, "acquire")
            /\ UNCHANGED <<ring, local>>
    /\ UNCHANGED <<mailbox, semJob, procCmd, procOffs, procResult, child, control>>

\* pipeline_process: sem_wait(&proc_info->sem_job)
ChildTake(m) ==
    /\ child[m] = "idle"
    /\ semJob[m] > 0
    /\ semJob' = [semJob EXCEPT ![m] = @ - 1]
    /\ child' = [child EXCEPT ![m] = "work"]
    /\ UNCHANGED <<pc, local, mailbox, semResult, procCmd, procOffs, procResult, ring, control>>

\* The switch on cmd, cmd_result, sem_post(&proc_info->sem_result).  A status
\* of -1 ("quit") ends the child and is reported as 0.
ChildAnswer(m) ==
    /\ child[m] = "work"
    /\ \/ /\ procCmd[m] = "STOP"
          /\ procResult' = [procResult EXCEPT ![m] = "ok"]
          /\ child' = [child EXCEPT ![m] = "exited"]
       \/ /\ procCmd[m] = "JOB"
          /\ \E status \in Statuses :
                /\ procResult' = [procResult EXCEPT ![m] = IF status = "quit" THEN "ok" ELSE status]
                /\ child' = [child EXCEPT ![m] = IF status = "quit" THEN "exited" ELSE "idle"]
    /\ semResult' = [semResult EXCEPT ![m] = @ + 1]
    /\ UNCHANGED <<pc, local, mailbox, semJob, procCmd, procOffs, ring, control>>

-----------------------------------------------------------------------------
(* Passing the chunk, and at the end the STOP command, to the next module. *)

\* sem_wait(&module->next->result): the next module has read its mailbox.
WaitNext(m) ==
    /\ pc[m] \in {"acquire", "stopacquire"}
    /\ result[m + 1] > 0
    /\ result' = [result EXCEPT ![m + 1] = @ - 1]
    /\ Goto(m, IF pc[m] = "acquire" THEN "write" ELSE "stopwrite")
    /\ UNCHANGED <<local, newCmd, cmd, dataoffset, process, ring, control>>

\* Write JOB and the offset, sem_post(&module->next->new_cmd).
PassChunk(m) ==
    /\ pc[m] = "write"
    /\ cmd' = [cmd EXCEPT ![m + 1] = "JOB"]
    /\ dataoffset' = [dataoffset EXCEPT ![m + 1] = local[m]]
    /\ newCmd' = [newCmd EXCEPT ![m + 1] = @ + 1]
    /\ local' = [local EXCEPT ![m] = NoChunk]
    /\ Goto(m, FirstPc(m))
    /\ UNCHANGED <<result, process, ring, control>>

\* Does the thread wait for a child before it ends?  initial_thread has none,
\* and waits all the same when the index of the next process is above 1.
StopsChild(m) ==
    \/ m \in WithChild
    \/ m = 0 /\ FirstMode = "INTERNAL" /\ pc[1] # "none" /\ NextIdx > 1

\* pipeline_module_set_state at the end of the thread of module m.
EndThread(m) ==
    /\ Goto(m, "done")
    /\ state' = IF m > 0 THEN state
                ELSE IF FirstMode = "EXTERNAL" THEN "INIT" ELSE "STOP"

\* Write STOP, sem_post(&module->next->new_cmd).
PassStop(m) ==
    /\ pc[m] = "stopwrite"
    /\ cmd' = [cmd EXCEPT ![m + 1] = "STOP"]
    /\ newCmd' = [newCmd EXCEPT ![m + 1] = @ + 1]
    /\ IF StopsChild(m) THEN Goto(m, "stopchild") /\ UNCHANGED state
                        ELSE EndThread(m)
    /\ UNCHANGED <<local, result, dataoffset, process, ring, plState>>

\* Write STOP to proc_info, sem_post(&proc_info->sem_job).
StopChild(m) ==
    /\ pc[m] = "stopchild"
    /\ procCmd' = [procCmd EXCEPT ![m] = "STOP"]
    /\ semJob' = [semJob EXCEPT ![m] = @ + 1]
    /\ Goto(m, "stopwait")
    /\ UNCHANGED <<local, mailbox, semResult, procOffs, procResult, child, ring, control>>

\* sem_wait(&proc_info->sem_result), the end of the thread.
ChildStopped(m) ==
    /\ pc[m] = "stopwait"
    /\ semResult[m] > 0
    /\ semResult' = [semResult EXCEPT ![m] = @ - 1]
    /\ EndThread(m)
    /\ UNCHANGED <<local, mailbox, semJob, procCmd, procOffs, procResult, child, ring, plState>>

-----------------------------------------------------------------------------
(* The calls of the pipeline's owner. *)

SetStates(s) == state' = s /\ plState' = s

\* pipeline_start (which polls until plState is INIT)
Start == plState = "INIT" /\ SetStates("PAUSE")

\* pipeline_live and pipeline_pause refuse any other plState.
Live == plState = "PAUSE" /\ SetStates("LIVE")
Pause == plState = "LIVE" /\ SetStates("PAUSE")

\* pipeline_stop
Stop == SetStates("STOP")

Owner ==
    /\ Start \/ Live \/ Pause \/ Stop
    /\ UNCHANGED <<pc, local, mailbox, process, ring>>

-----------------------------------------------------------------------------
First == CheckExit \/ CheckState \/ SourceCapture \/ InitialCapture

\* One step of the thread of module m.
Thread(m) ==
    \/ m = 0 /\ First
    \/ m \in Receivers /\ (WaitCmd(m) \/ ReadCmd(m))
    \/ m = Last /\ FreeChunk
    \/ m < Last /\ \/ GiveJob(m) \/ TakeBack(m)
                   \/ WaitNext(m) \/ PassChunk(m) \/ PassStop(m)
                   \/ StopChild(m) \/ ChildStopped(m)

\* One step of the child process of module m.
Child(m) == ChildTake(m) \/ ChildAnswer(m)

Next ==
    \/ \E m \in Modules : Thread(m)
    \/ \E m \in WithChild : Child(m)
    \/ Owner

Spec == Init /\ [][Next]_vars

\* Every thread and child process is scheduled, and the action of a child
\* returns; the owner need not ever call anything.
Fairness ==
    /\ \A m \in Modules : WF_vars(Thread(m))
    /\ \A m \in WithChild : WF_vars(Child(m))

FairSpec == Spec /\ Fairness

-----------------------------------------------------------------------------
(* Properties.  A clause about the number of threads at a semaphore counts *)
(* the post they still owe.                                                *)

One(condition) == IF condition THEN 1 ELSE 0

TypeOK ==
    /\ pc \in [Modules -> Places]
    /\ local \in [Modules -> Chunks \cup {NoChunk}]
    /\ newCmd \in [Receivers -> Nat]
    /\ result \in [Receivers -> Nat]
    /\ cmd \in [Receivers -> Cmds]
    /\ dataoffset \in [Receivers -> Chunks \cup {NoChunk}]
    /\ semJob \in [Modules -> Nat]
    /\ semResult \in [Modules -> Nat]
    /\ procCmd \in [Modules -> Cmds]
    /\ procOffs \in [Modules -> Chunks \cup {NoChunk}]
    /\ procResult \in [Modules -> {"ok", "skip"}]
    /\ child \in [Modules -> {"none", "idle", "work", "exited"}]
    /\ ring \in Seq(Chunks)
    /\ state \in {"INIT", "PAUSE", "LIVE", "STOP"}
    /\ plState \in {"ERROR", "INIT", "PAUSE", "LIVE", "STOP"}

\* The mailbox of a module is either unread (new_cmd), read (result), being read
\* by its thread or being written by the thread before it, and only one of these:
\* no command is overwritten before it is read, none is read half written
\* (pipeline_server.c, the waits on new_cmd and next->result).
MailboxHandshake ==
    \A m \in Receivers :
        result[m] + newCmd[m] + One(pc[m] = "read") + One(pc[m - 1] \in Writing)
            = One(pc[m - 1] # "none")

\* A child has at most one job, and only while the thread of its module waits
\* for the answer; the job it works on is the chunk that thread owns, or STOP.
ChildHandshake ==
    \A m \in WithChild :
        /\ semJob[m] + semResult[m] + One(child[m] = "work")
               = One(pc[m] \in {"busy", "stopwait"})
        /\ pc[m] = "busy" => procCmd[m] = "JOB" /\ procOffs[m] = local[m]
        /\ pc[m] = "stopwait" => procCmd[m] = "STOP"

\* The chunk that waits for each module.
Mail ==
    [m \in Receivers |-> IF cmd[m] = "JOB" /\ (newCmd[m] > 0 \/ pc[m] = "read")
                         THEN dataoffset[m] ELSE NoChunk]

Abstract == INSTANCE Conveyor WITH held <- local, mail <- Mail, free <- ring

\* Two threads, a thread and a mailbox, or either and the ring never have the
\* same chunk, and no chunk is lost: each is with a module, in a mailbox or free.
ChunksConserved == Abstract!Conserved

\* The pipeline implements the belt: chunks keep their order, see Conveyor.
ImplementsConveyor == Abstract!Spec

\* STOP comes behind the last chunk: a thread that ended leaves no chunk behind
\* it ("finalization should be always", "data in the middle should visit all
\* active steps of pipeline").
StopDrainsBehind ==
    \A m \in Modules : pc[m] = "done" =>
        /\ \A k \in 0..m : local[k] = NoChunk
        /\ \A k \in 1..m : Mail[k] = NoChunk

\* After STOP a mailbox never gets another command.
StopIsLast ==
    [][\A m \in Receivers : cmd[m] = "STOP" => cmd'[m] = "STOP" /\ newCmd'[m] <= newCmd[m]]_vars

AllStarted == pc[Last] # "none"
AllEnded == \A m \in Modules : pc[m] \in {"none", "done"}

\* The thread of m has nothing to do: it ended, tests its state or awaits a command.
Rests(m) == \/ pc[m] \in {"none", "done", "loop", "state"}
            \/ pc[m] = "wait" /\ newCmd[m] = 0

\* The thread of m is in a call that does not return: a wait for a free chunk, for
\* the next module or for the child.
Blocked(m) == \/ pc[m] = "pop" /\ ring = <<>>
              \/ pc[m] \in {"acquire", "stopacquire"} /\ result[m + 1] = 0
              \/ pc[m] \in {"busy", "stopwait"} /\ semResult[m] = 0

ChildCanGo(m) == child[m] = "work" \/ (child[m] = "idle" /\ semJob[m] > 0)

\* The thread of m waits for a child that left by the status -1, or has none.
Forsaken(m) == /\ pc[m] \in {"busy", "stopwait"} /\ semResult[m] = 0
               /\ m \notin WithChild \/ child[m] = "exited"

AllIdle == pc[0] \in {"loop", "state"} /\ \A m \in Receivers : pc[m] = "wait" /\ newCmd[m] = 0

\* The waits for a command, for the next module, for the child and for a free chunk
\* never close a circle: as long as anything is under way, a chunk or STOP, one that
\* does not merely poll can go on, but for a module whose child is no longer there.
NobodyStuck ==
    AllStarted =>
        \/ AllEnded \/ AllIdle
        \/ \E m \in Modules : ~Rests(m) /\ ~Blocked(m)
        \/ \E m \in WithChild : ChildCanGo(m)
        \/ \E m \in Modules : Forsaken(m)

-----------------------------------------------------------------------------
(* Liveness, under FairSpec. *)

\* No child ends itself by the status -1.
ChildrenStay == [](\A m \in WithChild : ~(child[m] = "exited" /\ procCmd[m] = "JOB"))

\* A chunk that the first module took comes back to the ring, whatever the
\* owner does to the pipeline meanwhile.
EveryChunkReturns ==
    AllStarted => \A c \in Chunks : []<>(\E i \in DOMAIN ring : ring[i] = c)

\* The same while no child leaves.
EveryChunkReturnsIfChildrenStay == ChildrenStay => EveryChunkReturns

\* pipeline_stop ends every thread of a pipeline that started.
StopEndsThreads ==
    AllStarted => (plState = "STOP" ~> AllEnded)
StopEndsThreadsIfChildrenStay == ChildrenStay => StopEndsThreads

=============================================================================
