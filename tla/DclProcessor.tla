----------------------------- MODULE DclProcessor -----------------------------
(***************************************************************************)
(* How a processor and the processes of its blocks come to share memory    *)
(* (dclprocessor/processor, shmem, pipeline): the server makes a segment   *)
(* under a name, writes its map and its description into it, and starts    *)
(* the blocks; the server's own pipeline and each block find the segment   *)
(* again by its name, a block of a processor even twice.                   *)
(*                                                                         *)
(* The name outlives the processes.  Servers are runs of programs with the *)
(* same name, one after another, after a crash, or at the same time: such  *)
(* as call dclprocessor_init, and such as call pipeline_init alone.  The   *)
(* segments are numbered as they are made; one whose name is gone lives on *)
(* for those who have mapped it.                                           *)
(***************************************************************************)
EXTENDS MemoryMap, Sequences

CONSTANTS
    Servers,         \* runs of server programs
    Config,          \* [Servers -> [modules_cnt, proc_cnt, data_cnt, data_size of
                     \*             pipeline_desc]]
    ProcessInfoSize, \* sizeof(struct process_info)
    DescMaxLen,      \* DESCRIPTOR_DATA_MAX_LEN
    DescLens,        \* [Servers -> bytes its description may have, the length in front
                     \*             included]
    MayFail          \* TRUE: ftruncate, mmap and process_start may fail

ASSUME ProcessorAssumption ==
    /\ Config \in [Servers ->
                     [modules_cnt : Nat, proc_cnt : Nat, data_cnt : Nat, data_size : Nat]]
    /\ ProcessInfoSize \in Nat /\ DescMaxLen \in Nat
    /\ DescLens \in [Servers -> SUBSET Nat]
    /\ MayFail \in BOOLEAN

VARIABLES
    common,   \* [Servers -> TRUE: dclprocessor_init, FALSE: pipeline_init alone]
    descLen,  \* [Servers -> bytes of its description, 0 if it writes none]
    segments, \* all segments ever made, in that order
    name,     \* the segment the name stands for, or 0
    pc,       \* [Servers -> where its initialisation is]
    since,    \* [Servers -> number of segments when it removed the name]
    mine,     \* [Servers -> the segment it made, or 0]
    pl,       \* [Servers -> the segment pipeline->shmem, or 0]
    child,    \* [Servers -> [Modules(s) -> where the process of the block is]]
    source,   \* [Servers -> [Modules(s) -> the segment dclprocessor_get maps, or 0]]
    known,    \* [Servers -> [Modules(s) -> the description it has: "none", "whole", "blank"]]
    table     \* [Servers -> [Modules(s) -> the segment pipeline_process maps, or 0]]

memory == <<segments, name>>
serverVars == <<pc, since, mine, pl>>
childVars == <<child, source, known, table>>
program == <<common, descLen>>
vars == <<program, memory, serverVars, childVars>>

\* The modules of s that are processes, the blocks: all but the finalization thread.
Modules(s) == 0..(Config[s].modules_cnt - 2)
NoMap == [process_cnt |-> 0, process_size |-> 0, data_cnt |-> 0, data_size |-> 0,
          description_zone_cnt |-> 0, description_zone_size |-> 0]

\* The number of processes when the description of a pipeline has none.
PROCESS_MAX_CNT == 10

\* The map that dclprocessor_init makes, with enough chunks for all modules ...
CommonMap(c) ==
    LET proc_cnt == c.modules_cnt + 2
    IN  [process_cnt |-> proc_cnt, process_size |-> ProcessInfoSize,
         data_cnt |-> IF c.data_cnt > proc_cnt + 2 THEN c.data_cnt ELSE proc_cnt + 2,
         data_size |-> c.data_size,
         description_zone_cnt |-> 1, description_zone_size |-> DescMaxLen]

\* ... and the one that pipeline_init makes.
PipelineMap(c) ==
    [process_cnt |-> IF c.proc_cnt > 0 THEN c.proc_cnt + 2 ELSE PROCESS_MAX_CNT,
     process_size |-> ProcessInfoSize, data_cnt |-> c.data_cnt, data_size |-> c.data_size,
     description_zone_cnt |-> 1, description_zone_size |-> DescMaxLen]

MapOf(s) == IF common[s] THEN CommonMap(Config[s]) ELSE PipelineMap(Config[s])

\* What the server and its children map of a segment.
Mapped(s) == memory_get_size(MapOf(s))

Init ==
    /\ common \in [Servers -> BOOLEAN]
    /\ descLen \in [Servers -> UNION {DescLens[s] : s \in Servers} \cup {0}]
    /\ \A s \in Servers : descLen[s] \in IF common[s] THEN DescLens[s] ELSE {0}
    /\ segments = <<>> /\ name = 0
    /\ pc = [s \in Servers |-> "off"]
    /\ since = [s \in Servers |-> 0]
    /\ mine = [s \in Servers |-> 0]
    /\ pl = [s \in Servers |-> 0]
    /\ child = [s \in Servers |-> [m \in Modules(s) |-> "none"]]
    /\ source = [s \in Servers |-> [m \in Modules(s) |-> 0]]
    /\ known = [s \in Servers |-> [m \in Modules(s) |-> "none"]]
    /\ table = [s \in Servers |-> [m \in Modules(s) |-> 0]]

Goto(s, place) == pc' = [pc EXCEPT ![s] = place]

-----------------------------------------------------------------------------
(* Faulty variants of the definitions below, each a slip one could make in *)
(* the code.  They are not part of Next: they show that the properties can *)
(* tell the code from a wrong one.                                         *)

\* A name that exists is not removed.
UnlinkForgotten(s) ==
    /\ pc[s] = "off"
    /\ since' = [since EXCEPT ![s] = Len(segments)]
    /\ Goto(s, "create")
    /\ UNCHANGED <<memory, mine, pl>>

\* A segment that exists is used again.
UnlinkReuses(s) ==
    /\ pc[s] = "off"
    /\ since' = [since EXCEPT ![s] = Len(segments)]
    /\ IF name = 0 THEN UNCHANGED mine /\ Goto(s, "create")
       ELSE mine' = [mine EXCEPT ![s] = name] /\ Goto(s, "truncate")
    /\ UNCHANGED <<memory, pl>>

\* The description is written when the blocks have been started.
WriteMapOnly(s) ==
    /\ pc[s] = "header"
    /\ segments' = [segments EXCEPT ![mine[s]].map = MapOf(s)]
    /\ IF common[s] THEN Goto(s, "attach") /\ UNCHANGED pl
       ELSE Goto(s, "table") /\ pl' = [pl EXCEPT ![s] = mine[s]]
    /\ UNCHANGED <<name, since, mine>>

-----------------------------------------------------------------------------
(* A server: dclprocessor_init, pipeline_init, shared_memory_server_init.  *)

\* shared_memory_unlink, whoever made the segment of that name.
Unlink(s) ==
    /\ pc[s] = "off"
    /\ name' = 0
    /\ since' = [since EXCEPT ![s] = Len(segments)]
    /\ Goto(s, "create")
    /\ UNCHANGED <<segments, mine, pl>>

NewSegment == [size |-> 0, map |-> NoMap, desc |-> "none", ready |-> FALSE]

\* shm_open with O_CREAT|O_EXCL
Create(s) ==
    /\ pc[s] = "create" /\ name = 0
    /\ segments' = Append(segments, NewSegment)
    /\ name' = Len(segments) + 1
    /\ mine' = [mine EXCEPT ![s] = Len(segments) + 1]
    /\ Goto(s, "truncate")
    /\ UNCHANGED <<since, pl>>

CreateFails(s) ==
    /\ pc[s] = "create" /\ name # 0
    /\ Goto(s, "taken")
    /\ UNCHANGED <<memory, since, mine, pl>>

\* ftruncate
Truncate(s) ==
    /\ pc[s] = "truncate"
    /\ segments' = [segments EXCEPT ![mine[s]].size = Mapped(s)]
    /\ Goto(s, "header")
    /\ UNCHANGED <<name, since, mine, pl>>

\* ftruncate or mmap fails: the name is removed, whatever it stands for now.
ServerInitFails(s) ==
    /\ MayFail
    /\ pc[s] \in {"truncate", "header"}
    /\ name' = 0
    /\ Goto(s, "failed")
    /\ UNCHANGED <<segments, since, mine, pl>>

\* memcpy of the map, and shared_memory_setenv.
WriteMap(s) ==
    /\ pc[s] = "header"
    /\ segments' = [segments EXCEPT ![mine[s]].map = MapOf(s)]
    /\ IF common[s] THEN Goto(s, "size") /\ UNCHANGED pl
       ELSE Goto(s, "table") /\ pl' = [pl EXCEPT ![s] = mine[s]]
    /\ UNCHANGED <<name, since, mine>>

\* The length of the description, and then its text, which is written as long as it
\* is: beyond what is mapped the write ends the server, or hits what it may.
WriteSize(s) ==
    /\ pc[s] = "size"
    /\ segments' = [segments EXCEPT ![mine[s]].desc = "length"]
    /\ Goto(s, "text")
    /\ UNCHANGED <<name, since, mine, pl>>

Overruns(s) == memory_get_description_offset(MapOf(s)) + descLen[s] > Mapped(s)

WriteText(s) ==
    /\ pc[s] = "text"
    /\ segments' = [segments EXCEPT ![mine[s]].desc = "whole"]
    /\ Goto(s, "attach")
    /\ UNCHANGED <<name, since, mine, pl>>

WriteOverruns(s) ==
    /\ pc[s] = "text" /\ Overruns(s)
    /\ Goto(s, "lost")
    /\ UNCHANGED <<memory, since, mine, pl>>

\* The pipeline maps the segment by its name.
Attach(s) ==
    /\ pc[s] = "attach" /\ name # 0
    /\ pl' = [pl EXCEPT ![s] = name]
    /\ Goto(s, "table")
    /\ UNCHANGED <<memory, since, mine>>

NoSuchName(s) ==
    /\ pc[s] = "attach" /\ name = 0
    /\ Goto(s, "lost")
    /\ UNCHANGED <<memory, since, mine, pl>>

\* shared_memory_client_init removes the name when its mmap fails.
AttachFails(s) ==
    /\ MayFail
    /\ pc[s] = "attach" /\ name # 0
    /\ name' = 0
    /\ Goto(s, "failed")
    /\ UNCHANGED <<segments, since, mine, pl>>

\* The table of processes is within the segment and what s has mapped of it.
Reaches(s, g) ==
    /\ segments[g].size # 0
    /\ segments[g].map # NoMap
    /\ memory_get_data_offset(segments[g].map) <= Mapped(s)

\* process_subsystem_init sets up the entries of the table.  Without a table the
\* server dies here, or starts nothing and polls for PL_STATE_INIT for ever.
InitTable(s) ==
    /\ pc[s] = "table"
    /\ IF Reaches(s, pl[s])
       THEN /\ segments' = [segments EXCEPT ![pl[s]].ready = TRUE]
            /\ Goto(s, "fork")
       ELSE Goto(s, "lost") /\ UNCHANGED segments
    /\ UNCHANGED <<name, since, mine, pl>>

\* It is the turn of module m of s to be started, the finalization thread last.
Finalization(s) == Config[s].modules_cnt - 1
Turn(s, m) ==
    /\ pc[s] = "fork"
    /\ m \in Modules(s) => child[s][m] = "none"
    /\ \A k \in 0..(m - 1) : child[s][k] # "none"

HasEntry(s, m) == m < segments[pl[s]].map.process_cnt

\* pipeline_start returns when two modules have started, also if another one failed,
\* and 3 s later there is pipeline_live; with less it polls for ever.
GoLive(s) ==
    /\ Turn(s, Finalization(s)) /\ HasEntry(s, Finalization(s))
    /\ Goto(s, IF Config[s].modules_cnt >= 2 THEN "live" ELSE "polls")
    /\ UNCHANGED <<memory, since, mine, pl>>

\* process_start fails: no entry is left, or access or fork failed, which the
\* finalization thread does not call.  Without an entry that one runs all the same,
\* is taken for failed, and joined for ever.
StartFails(s, m) ==
    /\ Turn(s, m)
    /\ ~HasEntry(s, m) \/ (m \in Modules(s) /\ MayFail)
    /\ Goto(s, IF m \in Modules(s) /\ m >= 2 THEN "live"
               ELSE IF HasEntry(s, m) THEN "polls" ELSE "full")
    /\ UNCHANGED <<memory, since, mine, pl>>

ServerStep(s) ==
    /\ \/ Create(s) \/ CreateFails(s) \/ Truncate(s) \/ WriteMap(s) \/ WriteSize(s)
       \/ WriteText(s) \/ WriteOverruns(s) \/ Attach(s) \/ NoSuchName(s) \/ InitTable(s)
       \/ GoLive(s) \/ \E m \in 0..Finalization(s) : StartFails(s, m)
    /\ UNCHANGED <<program, childVars>>

\* The program returns from main or is killed.  dclprocessor_destroy leaves the
\* name too: the processor has no description to take it from.
End(s) ==
    /\ pc[s] \notin {"off", "taken", "failed", "ended"}
    /\ Goto(s, "ended")
    /\ UNCHANGED <<memory, since, mine, pl>>

\* pipeline_destroy of a pipeline with a segment of its own removes the name.
Destroy(s) ==
    /\ pc[s] = "live" /\ ~common[s]
    /\ name' = 0
    /\ Goto(s, "ended")
    /\ UNCHANGED <<segments, since, mine, pl>>

\* What a server need not do.
ServerMay(s) ==
    /\ Unlink(s) \/ ServerInitFails(s) \/ AttachFails(s) \/ End(s) \/ Destroy(s)
    /\ UNCHANGED <<program, childVars>>

-----------------------------------------------------------------------------
(* The process of a block: dclprocessor_get and pipeline_process_init.     *)

Move(s, m, place) == child' = [child EXCEPT ![s][m] = place]

\* process_start, one module after another.
Fork(s, m) ==
    /\ Turn(s, m) /\ HasEntry(s, m)
    /\ Move(s, m, IF common[s] THEN "get" ELSE "attach")
    /\ UNCHANGED <<name, source, known, table>>

\* The segment is mapped by the name from the environment.
Get(s, m) ==
    /\ child[s][m] = "get" /\ name # 0
    /\ source' = [source EXCEPT ![s][m] = name]
    /\ Move(s, m, "read")
    /\ UNCHANGED <<name, known, table>>

\* shared_memory_client_init returns NULL, and the block ends.
NoMemory(s, m) ==
    /\ child[s][m] \in {"get", "attach"} /\ name = 0
    /\ Move(s, m, "gone")
    /\ UNCHANGED <<name, source, known, table>>

\* The bytes that the length in segment g announces.
Announced(g) ==
    IF segments[g].desc = "none" THEN 0 ELSE descLen[CHOOSE r \in Servers : mine[r] = g]

\* The whole description is in segment g and in what s has mapped of it.
Described(s, g) ==
    /\ segments[g].map # NoMap /\ segments[g].desc = "whole"
    /\ LET end == memory_get_description_offset(segments[g].map) + Announced(g)
       IN  end <= Mapped(s) /\ end <= segments[g].size

\* The length and the text are read.  With less than the whole text, or bytes of
\* nobody behind it, the block has a description with nothing in it, if it gets
\* that far.
ReadDescription(s, m) ==
    LET g == source[s][m]
    IN  /\ child[s][m] = "read"
        /\ \/ /\ segments[g].size # 0
              /\ known' = [known EXCEPT ![s][m] = IF Described(s, g) THEN "whole" ELSE "blank"]
              /\ Move(s, m, "attach")
           \/ ~Described(s, g) /\ Move(s, m, "gone") /\ UNCHANGED known
        /\ UNCHANGED <<name, source, table>>

\* pipeline_process_init maps it a second time.
AttachTable(s, m) ==
    /\ child[s][m] = "attach" /\ name # 0
    /\ table' = [table EXCEPT ![s][m] = name]
    /\ Move(s, m, "entry")
    /\ UNCHANGED <<name, source, known>>

\* The first sem_wait on the entry of the table.
WaitJob(s, m) ==
    /\ child[s][m] = "entry"
    /\ Move(s, m, IF segments[table[s][m]].size = 0 THEN "gone" ELSE "waits")
    /\ UNCHANGED <<name, source, known, table>>

ChildStep(s, m) ==
    /\ \/ Fork(s, m) \/ Get(s, m) \/ NoMemory(s, m) \/ ReadDescription(s, m)
       \/ AttachTable(s, m) \/ WaitJob(s, m)
    /\ UNCHANGED <<program, segments, serverVars>>

\* mmap fails: the name is removed from under everybody.
ChildMapFails(s, m) ==
    /\ MayFail
    /\ child[s][m] \in {"get", "attach"} /\ name # 0
    /\ name' = 0
    /\ Move(s, m, "gone")
    /\ UNCHANGED <<program, segments, serverVars, source, known, table>>

Next ==
    \/ \E s \in Servers : ServerStep(s) \/ ServerMay(s)
    \/ \E s \in Servers : \E m \in Modules(s) : ChildStep(s, m) \/ ChildMapFails(s, m)

Spec == Init /\ [][Next]_vars

\* Processes are scheduled.  Nobody has to start or to end a server, and no call
\* has to fail.
FairSpec ==
    /\ Spec
    /\ \A s \in Servers : WF_vars(ServerStep(s))
    /\ \A s \in Servers : \A m \in Modules(s) : WF_vars(ChildStep(s, m))

-----------------------------------------------------------------------------
(* Properties. *)

Segments == [size : Nat, map : Maps, desc : {"none", "length", "whole"}, ready : BOOLEAN]
Numbers == 0..Len(segments)
ServerPlaces == {"off", "create", "taken", "truncate", "header", "failed", "size", "text",
                 "attach", "lost", "table", "fork", "live", "polls", "full",
                 "ended"}
ChildPlaces == {"none", "get", "read", "attach", "entry", "waits", "gone"}

\* Numbers of segments stay within those that were made.
TypeOK ==
    /\ common \in [Servers -> BOOLEAN] /\ descLen \in [Servers -> Nat]
    /\ segments \in Seq(Segments) /\ name \in Numbers
    /\ pc \in [Servers -> ServerPlaces]
    /\ since \in [Servers -> Numbers]
    /\ mine \in [Servers -> Numbers] /\ pl \in [Servers -> Numbers]
    /\ DOMAIN child = Servers /\ DOMAIN source = Servers
    /\ DOMAIN known = Servers /\ DOMAIN table = Servers
    /\ \A s \in Servers :
          /\ child[s] \in [Modules(s) -> ChildPlaces]
          /\ source[s] \in [Modules(s) -> Numbers]
          /\ known[s] \in [Modules(s) -> {"none", "whole", "blank"}]
          /\ table[s] \in [Modules(s) -> Numbers]

\* The name does not stand for the segment of s: since s removed it another
\* segment was made under it, or it was removed by somebody.
Disturbed(s) == IF mine[s] = 0 THEN Len(segments) > since[s] ELSE name # mine[s]

\* Neither the pipeline nor a block of a server ever uses a segment that was made
\* before the server began: not that of a run that crashed, and not one that
\* somebody makes, replaces or removes meanwhile (dclprocessor.c:186,
\* shared_memory.c:23, pipeline.c:149, pipeline_client.c:89).
NeverOlder ==
    \A s \in Servers :
        /\ pl[s] # 0 => pl[s] > since[s]
        /\ \A m \in Modules(s) :
              /\ source[s][m] # 0 => source[s][m] > since[s]
              /\ table[s][m] # 0 => table[s][m] > since[s]

\* The description of s fits into its zone, for which nobody tests (dclprocessor.c:208).
DescriptionFits(s) == descLen[s] <= DescMaxLen

\* While the name stands for the segment of s, its pipeline and its blocks have
\* found that segment with everything in it that they read: the whole description,
\* a table that is set up, and an entry of their own in it, all within what they
\* have mapped, provided the description fits into its zone (dclprocessor.c:205-221,
\* :279-287, pipeline_client.c:96-99).
TroubleNeedsDisturbance ==
    \A s \in Servers : ~Disturbed(s) /\ DescriptionFits(s) =>
        /\ pc[s] \notin {"taken", "lost"}
        /\ pl[s] \in {0, mine[s]}
        /\ \A m \in Modules(s) :
              /\ child[s][m] # "gone" /\ known[s][m] # "blank"
              /\ child[s][m] = "waits" =>
                    LET g == segments[table[s][m]]
                    IN  /\ table[s][m] = mine[s] /\ g.ready
                        /\ m < g.map.process_cnt
                        /\ ProcessArea(g.map, m).end <= Mapped(s)

\* Entries of the table, chunks and descriptions of a segment are apart from each
\* other and from its map, and within its size (memory_map.h).
ZonesApart ==
    \A g \in DOMAIN segments : LET map == segments[g].map IN
        /\ \A i \in 0..(map.process_cnt - 1), j \in 0..(map.data_cnt - 1) :
              /\ SizeofMap <= ProcessArea(map, i).first
              /\ Before(ProcessArea(map, i), ChunkArea(map, j))
        /\ \A j \in 0..(map.data_cnt - 1), k \in 0..(map.description_zone_cnt - 1) :
              Before(ChunkArea(map, j), DescriptionArea(map, k))
        /\ \A k \in 0..(map.description_zone_cnt - 1) :
              DescriptionArea(map, k).end <= segments[g].size

\* A server whose description fits comes up, whatever crashed before it and at which
\* step, unless another one disturbs it, or a call of its own fails: ftruncate or mmap,
\* after which it gives up, or access or fork for a block, after which it may poll for
\* ever.  It never runs out of entries (dclprocessor.c:186-235, pipeline.c:72-77, :282).
ComesUp ==
    \A s \in Servers :
        pc[s] = "create" /\ DescriptionFits(s)
            ~> pc[s] \in {"live", "polls", "failed", "ended"} \/ Disturbed(s)
=============================================================================
