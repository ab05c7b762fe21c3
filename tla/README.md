# TLA+ models of the DCL processor

These modules model the concurrent core of this repository: a *pipeline* of
processing blocks that hand chunks of shared memory from one to the next, the
threads, semaphores and child processes that make it run, the *collector* that
fills objects with the frames of several cameras, the *capture* of those frames
from GigE cameras and from a fake one, the *objects* that travel through a
processor, the shared memory its processes find each other by, and the text
commands of the TCP client and server. TLC checks the models on small instances,
TLAPS proves the central theorems for every value of the constants.

Paths below are relative to `src/dclprocessor/` unless they start with `src/`.

## 1. The system

### Components, their state and their operations

| Component | Source | State | Operations | Model |
|---|---|---|---|---|
| Pipeline, data plane | `pipeline/src/pipeline_server.c`, `pipeline_client.c` | per module: semaphores `new_cmd`, `result`, the mailbox `cmd`/`dataoffset`; per child process: `sem_job`, `sem_result`, `cmd`, `cmd_offs`, `cmd_result`; the ring `data_ring` of free chunks | the loops of `source_thread`, `initial_thread`, `process_thread`, `finalization_thread` and `pipeline_process` | `PipelineFlow`, abstractly `Conveyor` |
| Pipeline, control plane | `pipeline/src/pipeline.c`, `pipeline_module.c` | `pl->state`, `pl->exit_flag`, `real_started`, `start_control`; per module `state`, `idx` and its thread | `pipeline_init/start/live/pause/stop/destroy`, `pipeline_thread`, `pipeline_module_init/destroy/set_state` | `PipelineControl` |
| Process manager | `process/src/process_mngr.c`, `signal_reaction.c` | `process_cnt`, the table `proc_info` | `process_subsystem_init`, `process_start`, `process_kill_all`, signal handlers | `process_start` in `PipelineControl`, the table in `DclProcessor` |
| Collector | `collector/src/collector.c`, `source.c` | `data`, semaphores `empty_ready`/`data_ready` of the collector and of every source, `exit_flag`s, `frames_in_object` | `collect_data_thread`, `source_data_thread_tcp`, `source_data_thread_udp`, `new_frame_action`, `collector_destroy`, `source_destroy` | `Collector`; with a camera `GigeCamera` and `GvcpControl` |
| Processor | `processor/src/dclprocessor.c` | the objects of the storage, the segment, the pipeline and the collector | `first_action`, `middle_action`, `last_action`, `dclprocessor_init`, `get`, `destroy` | `ObjectFlow`, `DclProcessor`; `first_action` also in `Collector` |
| TCP messenger | `tcp/src/*.c` | per connection `buffer` and `offset`, lists of connections, `exit_flag`s, two event threads | connect, accept, send, extract, execute, create and destroy on both sides | `Messenger` |
| GigE capture | `src/libcapture/GigE/src/*.c` | interfaces and devices found, packet ids, registers of the camera, stream state, frame buffers | discovery, GVCP commands and acknowledgements, GVSP reassembly | `Discovery`, `GvcpControl`, `GigeCamera` |
| FakeTCP capture | `src/libcapture/FakeTCP/src/*.cpp` | `generator->fd`, `curr`; the reader's counters `recieved_len`, `remaining_len`, `frames_*_cnt`, its semaphores | listener and writers, cutting the stream into frames and the frames into objects, `cv_collector_destroy` | `FrameStream` |
| Shared memory | `shmem/src/shared_memory.c`, `memory_map.h` | the name, the segments, their maps and zones | create, attach, write and read the description, unlink | `MemoryMap`, `DclProcessor` |
| Description | `description/src/*.c` | none between calls | reading and writing JSON | not modelled: sequential parsing |
| C++ wrapper, examples | `DCLProcessor`, `src/dclcomponents` | | | not modelled: demonstrations |

The ring buffer, the list, the log, the storage and the generator of names come
from libraries outside `src/`. The ring is a sequence, the storage a set of
numbered objects.

### How they interact

* The **owner** (a program such as those in `pipeline/examples` and
  `processor/examples`) calls `pipeline_init`, which makes the **main thread** of the
  pipeline. The main thread makes one thread per module and waits, on `start_control`,
  for each to report that its child process started; then it decides whether the
  pipeline is usable, and joins the threads.
* The **module threads** pass a chunk on by writing the mailbox of the next module
  between a wait on `next->result` and a post of `next->new_cmd`. An external
  module hands the chunk to its **child process** through shared memory, between
  a post of `sem_job` and a wait on `sem_result`. The first module takes chunks
  from the ring, the finalization module, or a middle module that rejects a chunk,
  returns them.
* `pipeline_live`, `pause` and `stop` write the state of every module and of the
  pipeline; only the first module reads its state. `STOP` then travels down the
  chain as a command behind the chunks.
* In the child of the first module `first_action` is called for each chunk: it
  writes the name of the object that the **collector** has just completed into the
  chunk and makes the next object. One thread per source stores frames in the
  current object and reports when its share is complete; `collect_data_thread`
  gathers the reports.
* A **processor** makes a segment of shared memory under a name; its own pipeline and
  every block find the segment again by that name, a block twice: for the description
  and for the table of processes. An **object** is made by `first_action`, filled by the
  collector, named by a chunk, looked at by the middle blocks and freed by
  `last_action`.
* A source that is a **camera** asks for it on every interface, sets it up by register
  commands, and has one thread for the stream and one that keeps the camera claimed. The
  **fake camera** is a program that writes its images to each connection for ever.
* The **client** of `tcp/examples` reads lines from a user and writes them to servers; the
  **server** executes the lines it gets. Each has a thread that waits for events, and a
  main thread that destroys what that thread uses.

### What is hard, and what correctness means

* *Data plane.* Two handshakes share semaphores over four kinds of loop; children
  may reject a chunk or leave; STOP must not strand chunks. Correct: no command is
  overwritten or read half written, a thread and its child alternate, no chunk is
  lost, duplicated or overtaken, each comes back, STOP drains and ends everything.
* *Control plane.* Threads run while later modules are not yet initialised; states
  are tested and written without a lock by three threads; whether a thread is
  joined is decided from an index the thread itself writes; a start may fail at
  every module. Correct: nobody uses semaphores that are not set up or destroyed,
  what the owner commands reaches every module that still runs, a failed start and a stop
  free everything (not always: section 5), nothing outlives its pipeline, entries of the
  table are distinct.
* *Camera.* Packets are lost, damaged, doubled, reordered, and dropped while the
  stream thread waits for an object; it is stopped through three flags by two
  threads. Correct: no frame holds data of another, one that came intact is whole and
  is handed over, stopping and destroying end the threads.
* *Collector.* The change from one object to the next is seen by each source at a
  time of its own. Correct: an object given to the pipeline is complete and never
  written again, all sources fill the same object, no object is forgotten, stopping
  ends every thread.
* *Camera control.* UDP loses, delays and doubles packets, nothing ties an acknowledge to
  its command, answers to a discovery come when they like, and the owner may free a camera
  that is being started. Correct: what answers in time is found, punctual answers belong
  to their commands, the thread of the source ends.
* *Fake camera.* TCP cuts the stream anywhere, also in the header; threads of the generator
  share fields without a lock. Correct: frames are whole and in an object that is not given
  away, destroying the collector ends it.
* *Objects.* Chunks are reused, skipped, and passed on by blocks without a collector.
  Correct: a block never works on an object that is freed or of another chunk, and none
  stays in the storage.
* *Shared memory.* The name outlives crashes and may be replaced or removed while blocks
  are still to find it. Correct: nobody uses what an earlier run left, an undisturbed
  processor comes up complete, the zones of a segment do not overlap.
* *Messenger.* Lines come in pieces and are copied without their end; two threads share
  lists without a lock; ends are signalled by a flag, a signal or neither. Correct: a message
  is a line that was sent, whole, and is executed as what it says (not so: section 5), QUIT
  and STOP end their programs.

`PROJECT.json` lists the forty hazards that weigh most, line by line, with the properties
aimed at them; section 5 has those that were met besides.

## 2. The modules

* **`Conveyor`** is the promise of the pipeline: a belt with one place per module
  and per mailbox, and the ring. Chunks move into empty places only.
* **`PipelineFlow`** is the data plane. `pc[m]` is where the thread of module `m` is,
  `local[m]` its local variable `dataoffset`, the other variables carry the names
  of the code. A stretch between two semaphore operations is one action for the
  wait and one for the writes and the post; that the stretch is exclusive is not
  assumed but is what `MailboxHandshake` and `ChildHandshake` say. `Init` covers a
  complete pipeline and one whose start was cut short at any middle module. The
  refinement mapping to `Conveyor` is `held <- local`, `mail <- Mail` (the unread
  job in a mailbox), `free <- ring`.
* **`PipelineControl`** is the control plane, with one action per call of the API for
  each stretch that others can interrupt (`pipeline_module_set_state` is a test and a
  write), per step of `pipeline_thread`, and per way in which a module thread starts,
  fails to start, gives up and ends. What a thread does meanwhile is `PipelineFlow`;
  here it is `"running"` until the thread before it has ended or is ending. `FirstModes`
  says for each pipeline of the program what its first module is. `"lost"` is a thread
  that waits on semaphores which are set up only later, `"stuck"` one that waits for a post
  nobody will make: `initial_thread` at its end, when it takes the next module for a child of
  its own (`WaitsForNobody`, `pipeline_server.c:136`), or a thread that put a chunk into the
  mailbox of a module whose thread has failed (`ChunkForNobody`).
* **`Collector`** composes first_action, `collect_data_thread` and the sources.
  Objects are numbered by their names, 0 is the empty name at the start. Reading a
  frame is one step, since only whole frames reach `new_frame_action`.
* **`GigeCamera`** is a source that is a camera: `source_data_thread_udp` (`control`),
  `camera_gvsp_thread` (`stream`), which calls `new_frame_action` itself, and
  `source_destroy` (`owner`), between a device with its network, which is external, and
  the collector as one source sees it. One packet stands for leader and trailer, which
  the thread only prints. Frame ids begin at 1, so "ignore packet" is not reached.
  `sleep(5)` in `source_destroy` is modelled as a wait until the other threads are
  blocked or done (`Blocked`). A thread that uses the camera after `free`
  ends the process (`UseFreed`): that happens when `source_destroy` wakes a stream
  thread that waits for an object and frees the camera before the thread has ended.
* **`Discovery`** is `device_find`: the question on every interface, one second, and the
  answers read interface by interface, of which the damaged, those of this host and those
  of another subnet are passed over. An address is its subnet and the rest of it.
* **`GvcpControl`** extends it with the control channel: `gige_camera_init` and the `start`,
  `watchdog` and `stop` of each vendor are scripts of register commands, sent by
  `read_register` and `write_register` one at a time, with the reception of
  `listen_packet_ack_new` and its half second; `phase` is where the source thread is.
  The registers of a vendor that differ in nothing the code compares are one register.
* **`FrameStream`** is FakeTCP: `generator_init` (listener), `generate_data_thread` (one
  `writer` per connection), `cv_collect_data_thread` (`reader`) with a byte stream
  between them, and the caller of the collector, which is external. A byte is the image it
  belongs to and its place there, so a frame put together from two images is seen
  (`part = Torn`); `split` remembers a header that came in pieces, after which
  `remaining_len` is wrong and the reader may write beyond its buffer (`"overrun"`). The
  same loop runs in `source_data_thread_tcp`.
* **`ObjectFlow`** puts the actions of the blocks on `Conveyor`, which `PipelineFlow`
  implements: a chunk carries the `name` of an object, `alive` is the storage, `status` the
  variable of `pipeline_process` that lives across the calls of an action. A block whose
  processor has no collector (`MayLack`) returns without writing it.
* **`MemoryMap`** is the layout of a segment, an operator per function of `memory_map.h`.
  **`DclProcessor`** is the life of segments under a name: one step per system call of
  `dclprocessor_init` or `pipeline_init` in each server, and of `dclprocessor_get` and
  `pipeline_process_init` in each block. A server may end or crash at each of them. Servers
  follow one another or overlap; `Disturbed(s)` says that the name no longer stands for the
  segment of `s`. `descLen` is the length of the description a server writes, with no upper
  bound: one that goes beyond what is mapped may end the server (`WriteOverruns`), a block
  gets one whole only within its own mapping (`Described`). `StartFails` is a `process_start`
  that finds no entry, or whose `access` or `fork` fails; with fewer than two modules started
  `pipeline_start` then `"polls"` for ever.
* **`TextCommands`** is what a line means: the set of keywords in it, since
  `parse_api_request` looks for each of them in turn, and its host; and what is promised of
  the lines a client sends and the messages a server executes. The server copies the bytes of
  a line without the `'\0'` behind them into fresh memory, so it may also find keywords that
  `malloc` left there (`ServerCommands`). **`Messenger`** extends it
  with the client and the server of `tcp/examples`, between which a line travels as two
  pieces. A program that has used a connection it has freed, or NULL, is `Corrupt`.
* `MC...` modules are the instances for TLC; `ConveyorProofs`, `PipelineFlowProofs`,
  `PipelineControlProofs`, `CollectorProofs`, `GigeCameraProofs`, `ObjectFlowProofs`,
  `DclProcessorProofs` and `FrameStreamProofs` hold the proofs. `GigeCameraProofs` also has
  those about `GvcpControl`, and `FrameStreamProofs` those about `Messenger`: each takes the
  other model as an instance (`Gvcp`, `Msg`) in which only names are replaced, and extends the
  module it shares with it (`Discovery`, `TextCommands`).

Composition: `ObjectFlow` runs on `Conveyor`, whose implementation `PipelineFlow` is shown
to be; `GvcpControl` contains `Discovery` and `Messenger` `TextCommands`; `DclProcessor` uses `MemoryMap`. `Collector` and
`GigeCamera` share the semaphores of a source and meet in `new_frame_action`.

Each model module has a section of faulty variants (`WaitNextForgotten`,
`StartFailedKeepsFlag`, `GatherOne`, ...), outside `Next`: with one in place of the
action it is named after, the property beside it in `PROJECT.json` is violated, so
every property is known to notice a slip in the code.

Left out on purpose: the contents of chunks and frames, printing, failures of
`malloc`, `pthread_create` and `sem_init`, and the death of a child by a signal
(the code has no reaction to it in a pipeline).

## 3. The runs

| Run | Instance | Shows |
|---|---|---|
| `flow_external` | 4 modules, 2 chunks, source_thread, children that accept, reject, leave | types, both handshakes, nobody stuck but over a child that left, refinement of `Conveyor`, every chunk returns if no child leaves |
| `flow_internal` | the same with initial_thread | STOP drains, is last in every mailbox, and ends every thread if no child leaves |
| `control` | three pipelines in a row fed by a thread, a child and a thread, each module may fail to start, modules 0 and 2 may lack a name, 10 entries of the table | semaphores usable, nothing outlives its pipeline, own entry in the table, a command reaches every module that runs; a failed start is freed, and a pipeline fed by initial_thread is freed after a stop, but for the stuck threads of section 5 |
| `control_live` | two pipelines, each module may fail to start | violated: a pipeline is LIVE only when complete |
| `collector` | 2 sources, 2 frames per object, 3 objects, early detection, read errors, destruction at any time | sources aligned; an object is filled, then sealed; every object handed over |
| `camera` | 3 frames of 2 blocks, socket buffer of 2 packets, 2 faults of the network of any kind, stop and destruction at any time | frames not mixed, intact frames whole and handed over, destruction returns or the freed camera is used |
| `gvcp` | 2 interfaces, 2 of the possible answers, cameras of each vendor, 3 packet sizes, 2 watchdogs, 2 faults | an answer in time is found, punctual acknowledgements match, destruction ends the source |
| `stream` | a header and an image of 2 bytes each, 2 images, 2 connections, every split of the reads | frames whole, given objects sealed, destruction returns |
| `objects` | first, two middle and last block, 3 chunks, 5 objects, three blocks may lack a collector | objects used are alive, none leaks, each one handed over is freed |
| `processor` | 2 servers with 2 and 1 blocks, processor or bare pipeline, crash at any step, overlap, failing `ftruncate`, `mmap`, `access` and `fork`, one description within its zone and one possibly beyond | nothing older is used, trouble needs a disturbance, zones apart, a server comes up unless a call of its own fails |
| `messenger` | 2 connections, 5 of 6 kinds of line, lines in pieces, failing calls | a message is the first line of its connection, whole; a freed connection is used only after the server closed, QUIT and STOP end their programs |
| `collector_stop` | the collector, small | violated: stopping the collector ends its sources |

**Bounds.** Four modules are the fewest with a middle module that has middle neighbours
on one side and an end on the other, and in which two modules may have started before a
third fails (the branch `real_started >= 2`). Two chunks let a chunk wait behind
another; a third would only fill more mailboxes. Three pipelines in a row with a table
of ten, the size in the code, let the third run out of ids midway, at each of the ways a
start can fail. Two sources are the fewest that can get out of step, two frames the
fewest that distinguish the first frame of an object from a later one; three objects are
the empty name, the first object (which gets no frames, since each source reports before
its first frame) and one that is filled. `CallStopped` is taken only while `emptyReady`
is 0, which bounds that semaphore. Three frames let two be handed over, one with an
object of its own and one without; two blocks are the fewest that can be out of order,
two faults the fewest that can combine; a packet dropped by a full socket buffer counts
as one. Two interfaces, one of them loopback, let an answer come on the wrong one and
after its socket was read; two faults let a late acknowledge meet a lost one. Two bytes
are the least that a read can cut, two connections the fewest that can be confused;
`ObjectFrames` and `EmptyFrames` replace 16 and 8, the counters are kept up to the
thresholds they are compared with. Three chunks let one pass through each of the middle
blocks while a third is on its way back, five objects let each chunk travel more than
once. Two servers are a run and the one before it, or a run and its disturber; two
blocks are the fewest that can find different segments. Five lines let a connection be
made, used, lost and made again.

**Deadlock** is not checked: a pipeline that has ended, or whose owner calls nothing
more, has no step; and a first module that polls always has one. That threads do not wait
for one another in a circle is `NobodyStuck` for the pipeline, which names the waits one by
one, and is stated by the liveness properties elsewhere.

**Fairness.** Weak fairness of every thread and child process: the scheduler of the
operating system runs a thread that can run, and POSIX semaphores wake a waiter
when the count is positive. No fairness for calls of the owner, for a start that
fails, for a read that fails, or for `pipeline_stop`: nothing obliges anyone. A
child's action is assumed to return and frames to keep coming to a source that
reads, without which no code could make progress; a camera's properties need no
fairness of the device, only of the threads and of the collector. In `GvcpControl`
the camera answers what reaches it, packets may still be lost; in `DclProcessor` nobody has
to start, end or crash a server; in `Messenger` the user need not type. The caller in
`FrameStream` names a new object for each one it is given. `ChildrenStay` is a hypothesis
of two properties, not fairness: no child reports -1.

**The patient owner.** `Patient` says that the owner commands a pipeline only after
`pipeline_start` has returned, as `processor` does. Without it (`Patient = FALSE`) TLC
violates `OwnerHasTheLastWord`, which no run checks, in both modes, because an early
`pipeline_stop` runs beside the main thread that still writes the same fields, and
`MailboxesUsable` with initial_thread, which may then leave its loop before the next module
has its semaphores. `CommandReaches` speaks of calls after `pipeline_start` has returned only;
TLC finds no violation of it without `Patient` either, the proof uses it.
`NothingOutlivesPipeline` and `OwnTableEntry` hold, and are proved, for either value, as is
type correctness.

**What is excepted.** A liveness property that a known defect breaks has the defect as its
exception, by name, and section 5 describes it. Without `~WaitsForNobody` TLC violates
`StopFreesMemory` in the second of two pipelines fed by initial_thread, and without the
hypothesis on `FirstMode` in the first one fed by source_thread. `FailedStartIsFreed` admits a `"stuck"` thread, whose
two causes are above. `ComesUp` admits `"polls"` and `"failed"`, ends that only a failing call
of the server itself or a processor with a single module reaches; that every entry is used up
(`"full"`), or that the server is lost, it does not admit.

## 4. The proofs

Every safety property of the runs that pass, invariant or action property, is proved for any
number of modules, chunks, processes, pipelines, sources, objects, frames, servers, blocks,
connections, lines, packets and interfaces, from the named assumptions on the constants only:

* `ConveyorProofs!BeltConserves`: no chunk of the belt is lost or in two places.
* `PipelineFlowProofs`: `TypeCorrect`, `MailboxesHandshake`, `ChildrenHandshake`,
  `StopDrains`, `StopLast`, `Refinement` (to `Conveyor`) and `Conservation`, which
  follows from the refinement and `BeltConserves`. The inductive invariant `IInv` is
  the type invariant, the places a thread can be in according to its function, that
  a thread holds a chunk exactly between taking it and handing it over, that a job
  in a mailbox names a chunk, the two handshakes, and `StopOK`: a mailbox holds
  STOP only when every thread before has passed it on. The handshakes are counting
  arguments: exactly one of "unread", "read", "being read", "being written" holds for
  each mailbox, so a post always finds the count at zero. `StopOK` is what makes
  draining inductive: a thread that is ending has no job left in its mailbox.
  `SomebodyGoes` (`NobodyStuck`, if there is a chunk at all) follows from these and from
  `Conservation`. Suppose nothing can go on. By the handshake of the children no thread waits
  for a child that is there. Of the threads that wait for the next module take the last: by
  the handshake of the mailboxes its successor has an unread command, so it neither rests nor
  waits for a successor of its own, a contradiction. So all rest, or the first waits for a
  chunk; but a chunk not in the ring would be with a thread that does not rest. If the first
  has ended so have all: STOP that was passed is in the mailbox or was obeyed (`StopArrives`).
* `PipelineControlProofs`: `TypeCorrect`, `FreedAlone` (nothing outlives its
  pipeline) and `EntriesDistinct`. The join loop joins by `module->idx`, so the
  invariant needs that a module with index -1 has no running thread
  (`QuietWithoutId`), except the one being started; that in turn needs the order of
  the start loop, where one created thread and one post of `start_control` exist at
  a time (`CreatedByMain`). Ids are distinct because all given out lie below
  `process_cnt`, which only grows (`IdsGivenOut`). `MailboxesStayUsable` and
  `OwnerKeepsTheLastWord` have the hypothesis `Patient`, without which they are false, and so
  has `CommandsAlwaysReach`, whose proof uses them. For the
  first, both loops go through the modules in the order of the list: the start loop has set up
  those before `cur` (`SetUpInOrder`), the join loop destroys only those before `cur`
  (`DestroyedInOrder`), whose threads and the ones before them are joined, and no thread ends
  while modules are left to set up (`NobodyEndsEarly`), unless a start failed and the loop is
  over (`FailureStopsTheLoop`). The second adds that the states of the owner come after the
  decision of the main thread (`Commanded`). `CommandsAlwaysReach` rests on both: while the
  owner goes through the list the modules behind it have the new state or ERROR (`Reached`),
  since a thread writes its own state only as it ends, and the main thread that of a module
  whose thread has ended (`OthersLeaveTheAlive`).
* `CollectorProofs`: `SourcesAlwaysAligned` and `HandedStaysSealed`. Neither property is
  inductive: that a source may store a frame depends on where the current object is in its
  round from `first_action` to the collecting thread, to each source, and back. The
  invariant is a token argument: `Turn` says which of the semaphores and places between
  `first_action` and the thread holds the object, `Token` the same for each source that was
  not told to stop, and `Shared` ties `source->data` to the object while the token is with
  the source. A source that was told to stop may skip its wait; `Storing` says that a frame
  it still stores belongs to an object it has not reported. `HandedAlwaysFilled` goes on from
  there: while none stops, `Stock` says for each place of a source how many frames it has put
  into the current object, and an object is given away only when no source holds its token.
* `ObjectFlowProofs`: `UsedIsAlwaysAlive` and `NothingEverLeaks`. That a chunk is in one
  place is the belt's invariant, taken from `ConveyorProofs` by an instance; on top of it
  the names in the chunks on their way are distinct objects of the storage, chunks in the
  ring have no name, because `finalization_thread` clears them and a rejected chunk never
  had one, and every other object is the one being filled.
* `GigeCameraProofs`: `FramesNeverMixed`. The data in the buffer are of the frame whose id
  is kept, and a packet about to be stored is of that frame, whatever the network does.
  `IntactAlwaysComplete` needs the packets on their way as well. `Line` is the packet in the
  hand of the thread, or the last one it stored, and behind it the queue; for a frame that is
  not damaged `Orderly` says that its packets in the line are numbered in order, without a gap
  and with none of another frame in between, up to the packet the camera sends next
  (`Numbered`, `InOrder`, `Ahead`, `Behind`), and `Content` that the buffer has all blocks up
  to the packet taken last. A fault of the network breaks this for the frames it damages only.
  `PunctualAnswersAlwaysMatch`: until a packet is late or doubled there is at most one on the
  way, the last command or its answer (`OnlyMine`). `AnsweredInTimeIsAlwaysFound`: an
  acceptable answer that was in time is among the devices or still in the buffer of an
  interface that has not been read (`InTimeKept`).
* `DclProcessorProofs`: `LayoutApart` (the arithmetic of `memory_map.h`, for any sizes),
  `ZonesAlwaysApart` (every segment that is ever made has the size of its map), and
  `NeverOlderAlways`: the name stands for nothing older than the last server that removed
  it, in each state, because segments are numbered as they are made and a server begins by
  removing the name. `TroubleAlwaysNeedsDisturbance` says what each server has done to its own
  segment at each place (`Filled`) and what its pipeline and blocks have found while the name
  stands for it (`Found`); nobody else writes to that segment, and a name that is lost never
  stands for it again. Nothing is assumed of the lengths of descriptions: the theorem speaks
  of the servers whose own description fits, beside any others, and the length that a block
  reads is the one of the server that made the segment (`AnnouncedByMaker`).
* `FrameStreamProofs`: `GivenStaysSealed`. Between the caller and the reader there is one
  permission to fill an object until `exit_flag` is up (`Round`). `FramesStayWhole`: while one
  thread at most writes to the connection, the bytes on the wire follow one another
  (`BytesFollow`), the first continues what the reader has of its frame (`HeadFits`), the last
  is the one before what the writer writes next (`TailFits`), and the counters of the reader
  say how much of the frame is there (`Position`).
  `MessageIsAlwaysFirstLine`: the pieces in the buffer of a connection and on their way to it are
  together the lines written to it, two for each; as many '\n' were made '\0' as messages were
  executed, from the front (`Told`). So the first '\n' a message ends at is always the one
  behind the last, while its `msg_len` bytes are those of the first line. What those bytes are
  taken for is another matter (section 5). `CorruptAlwaysNeedsClose`: until
  the client ends, a connection it has freed was closed by the server (`FreedBehind`).

`CollectorProofs`, `ObjectFlowProofs` and `DclProcessorProofs` have a type invariant among
the conjuncts of theirs; it is part of no run, since the theorems contain it.

Only model-checked: the properties under fairness, which the prover cannot treat (it has no
ENABLED): `EveryChunkReturnsIfChildrenStay`, `StopEndsThreadsIfChildrenStay`,
`FailedStartIsFreed`, `StopFreesMemory`, `EveryObjectIsHanded`, `FrameIsGiven`,
`DestroyReturns`, `QuitEndsClient`, `StopEndsServer`, `DestroyEndsSource`, `DestroyEnds`,
`HandedIsFreed` and `ComesUp`.

The theorems about `Messenger` assume of its constants that the buffer has a size
(`BufferRoom \in Nat`), those about `GvcpControl` and `Discovery` only what
`DiscoveryAssumption` says.

## 5. Where code and comments disagree

* `control_live`: an ERROR at start-up is overwritten by INIT once two modules had
  started, so a pipeline without its last module goes LIVE.
* `collector_stop`: a source waiting for its next object is not woken when the
  collector stops, and is joined for ever.

Seen while modelling, without a run of their own; each is a step or an outcome of the models
unless it says otherwise:

* *Pipeline.* A child that reports -1 leaves its loop while its status is reported as 0: the
  next chunk for that module is never taken back. `initial_thread` takes an index above 1 of
  the next module for a child of its own and waits for it at its end (`WaitsForNobody`).
  `process_cnt` is never reset, so that is the case in every pipeline of a program but the
  first, which is then never freed, whatever the comment says (`pipeline.c:88`). A pipeline fed
  by a child process is not ended by `pipeline_stop`, and `pipeline_destroy` joins before it
  raises the flag that would end it. `pipeline_start` never returns when a start
  fails before two modules have started (`"polls"` in `DclProcessor`) or an early stop
  overtakes it. If the owner goes LIVE although a later module failed, a chunk may come to the
  mailbox of that module, and the thread before it waits for ever to send STOP there
  (`ChunkForNobody`). A `source_thread` or `process_thread` without argv returns without a post
  (`ThreadGivesUp`); the internal threads ignore a failed `process_start`
  (`InternalStartsWithoutId`), so the main thread joins a thread that runs on. Not in the
  models: `pipeline_destroy` reads a module after freeing it (`pipeline.c:348`) and joins a
  main thread that could not be made (`:165`); after a failed `execv` the child goes on as a
  copy of its parent's thread (`process_mngr.c:119`).
* *Collector.* `cnt` in `collect_data_thread` is declared inside its loop, so a collector with
  several sources never notices that all have stopped; the first name given to the
  pipeline is empty.
* *Camera.* The comment says that a frame begins when its id is greater than the last one;
  the code compares for difference, so a late packet goes back to an older frame, and both
  are handed over in pieces. Nothing bounds `buffer_size`. After an interrupted `recvfrom`
  the packet is freed and used (not modelled: no signals).
* *Camera control.* No packet id is compared, so a late acknowledge is taken for the next
  answer, and all that follow are shifted. A lost write of the packet size leaves the old one
  in the camera. The ids passed to the scripts are reused, although the comment wants them
  increasing. `gvcp_stop_baumer` passes a number where a pointer is expected
  (`gige_camera_ops.c:202`). `source_init` starts a thread also when the camera is NULL. A
  source destroyed before its first object starts a camera that is freed.
* *Fake camera.* A header in two reads makes the reader ask for too much and write beyond its
  image; `curr` begins at -1, before the images; a collector that leaves ends the generator by
  SIGPIPE; a thread of the generator may read the `fd` of the next connection; a collector
  that is stopped adds one more frame to an object it gave away.
* *Processor.* The name is never removed by `dclprocessor_destroy`; a failing `mmap` in a
  client removes the name for everybody; a second server under the same name takes the
  segment away from blocks still to come. A description longer than
  `DESCRIPTOR_DATA_MAX_LEN` is written without a test (`dclprocessor.c:211`), beyond its zone
  and, if it is long enough, beyond the segment (`WriteOverruns`). Not in the model: `sleep(3)`
  stands for the blocks' having started (`:234`).
* *Messenger.* A line is never removed from the buffer, so only the first line of a
  connection is ever executed, once for each read that brings a '\n'; a full buffer
  drops the connection. The copy of a line that the server searches has no end of its own
  (`messenger.c:456`), so a keyword left behind it in memory can decide the command, and a
  START can stop the server (`ServerCommands`). A reconnection of the client uses the NULL it has just tested.
  The lists of connections have no lock. `server_destroy` prints that it sends a signal
  and sends none: it waits until the server's thread sees an event.

## 6. Not modelled, and what is left

* **Description**: parsing and writing JSON has no state between calls and no concurrency;
  its result is a constant of the models.
* **Signal handlers and `process_kill_all`**: no pipeline calls them.
* **C++ wrapper, examples, tools**: they call what is modelled.
* **proxy.c**: called by nothing.
* Left to prove: invariants that exclude the stuck states, as `NobodyStuck` does for the
  pipeline, for the other liveness properties; that the invariants of `ObjectFlow` hold with the threads of `PipelineFlow` in place of the belt.
* Left to model: `pipeline_module_add` for modules added in any order; `PipelineFlow` and
  `PipelineControl` take the chain as given.
