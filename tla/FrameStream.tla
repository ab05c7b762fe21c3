----------------------------- MODULE FrameStream -----------------------------
(***************************************************************************)
(* The fake camera and its collector (libcapture/FakeTCP): a generator     *)
(* accepts connections and writes its images to them for ever, one thread  *)
(* per connection; a collector cuts the stream of bytes it reads back into *)
(* frames, divides the frames into objects and adds each to the object     *)
(* whose name it was given.                                                *)
(*                                                                         *)
(* One collector is followed closely, the others only as connections of    *)
(* the same generator.  The loop that cuts the stream is also that of      *)
(* source_data_thread_tcp (dclprocessor/collector/src/source.c), which     *)
(* Collector models by whole frames.  A byte is the image it belongs to    *)
(* and its place there.  The storage of objects and the program that calls *)
(* the collector, which gives it the names, are not in the repository.     *)
(***************************************************************************)
EXTENDS Integers, Sequences

CONSTANTS
    Own,          \* the connection of the collector
    Others,       \* further connections to the generator
    HeaderSize,   \* IMAGE_HEADER_SIZE
    RawSize,      \* IMAGE_RAW_SIZE
    SizeMod,      \* size_t wraps around here
    DataCnt,      \* DATA_CNT: the images of the generator
    Room,         \* bytes a connection holds
    ObjectFrames, \* frames_obj_cnt at which an object may break (16)
    EmptyFrames,  \* frames_empty_cnt that break it (8)
    MayFail       \* TRUE: accept, getnameinfo and read may fail

ASSUME FrameStreamAssumption ==
    /\ Own \notin Others
    /\ HeaderSize \in Nat \ {0} /\ RawSize \in Nat \ {0}
    /\ SizeMod \in Nat /\ SizeMod > HeaderSize + RawSize
    /\ DataCnt \in Nat \ {0, 1} /\ Room \in Nat \ {0}
    /\ ObjectFrames \in Nat \ {0} /\ EmptyFrames \in 1..ObjectFrames
    /\ MayFail \in BOOLEAN

Connections == Others \cup {Own}
DataSize == HeaderSize + RawSize
Images == 0..(DataCnt - 1)
NoImage == -1
Torn == -2

VARIABLES
    generator,  \* "up", or "dead": the process has ended
    genFd,      \* generator->fd
    curr,       \* generator->curr, modulo DataCnt once it is not negative
    writer,     \* [Connections -> where its generate_data_thread is]
    writerFd,   \* [Connections -> the connection that thread writes to]
    image,      \* [Connections -> the image that thread writes to Own]
    written,    \* [Connections -> bytes of it written]
    shared,     \* two threads of the generator have had the fd of Own
    peer,       \* [Connections -> "off", "open" or "closed" at the far end]
    wire,       \* bytes written to Own and not yet read
    reader,     \* where cv_collect_data_thread is
    headerOk, received, remaining, \* header_ok, recieved_len, remaining_len
    part,       \* the image all bytes of the frame so far belong to, or Torn
    split,      \* the header of the frame took more than one read
    objCnt, emptyCnt, nonCnt, \* frames_obj_cnt, frames_empty_cnt, frames_non_cnt
    exitFlag, emptyReady, dataReady, \* fields of the collector
    named,      \* collector->data names an object that was not given away
    giver,      \* the program that names the objects: "idle" or "gives"
    owner       \* where the caller of cv_collector_destroy is

writerVars == <<genFd, curr, writer, writerFd, image, written, shared>>
frameVars == <<headerOk, received, remaining, part, split>>
detectVars == <<objCnt, emptyCnt, nonCnt>>
collectorVars == <<reader, frameVars, detectVars, exitFlag, emptyReady, dataReady, named>>
vars == <<generator, writerVars, peer, wire, collectorVars, giver, owner>>

Init ==
    /\ generator = "up" /\ genFd = Own /\ curr = -1
    /\ writer = [c \in Connections |-> "none"]
    /\ writerFd = [c \in Connections |-> c]
    /\ image = [c \in Connections |-> NoImage]
    /\ written = [c \in Connections |-> 0]
    /\ shared = FALSE
    /\ peer = [c \in Connections |-> "off"]
    /\ wire = <<>>
    /\ reader = "off"
    /\ headerOk = FALSE /\ received = 0 /\ remaining = HeaderSize
    /\ part = NoImage /\ split = FALSE
    /\ objCnt = 0 /\ emptyCnt = 0 /\ nonCnt = 0
    /\ exitFlag = FALSE /\ emptyReady = 0 /\ dataReady = 0
    /\ named = FALSE /\ giver = "gives" /\ owner = "none"

-----------------------------------------------------------------------------
(* Faulty variants of the definitions below, each a slip one could make in *)
(* the code.  They are not part of Next: they show that the properties can *)
(* tell the code from a wrong one.                                         *)

\* The rest of a header is read over its beginning.
HeaderGoesOnAgain(n) ==
    /\ remaining' = remaining - n
    /\ split' = TRUE
    /\ reader' = "loop"
    /\ UNCHANGED <<headerOk, received>>

\* After a break the frame is added without waiting for the next object.
TestExitNoWait ==
    /\ reader = "posted"
    /\ reader' = "store"
    /\ UNCHANGED <<frameVars, detectVars, exitFlag, emptyReady, dataReady, named, wire>>

\* read at the end of the stream is tried again without a look at exit_flag.
ReadNothingAgain ==
    /\ reader = "read" /\ wire = <<>> /\ generator = "dead"
    /\ UNCHANGED <<reader, frameVars, detectVars, exitFlag, emptyReady, dataReady, named, wire>>

-----------------------------------------------------------------------------
(* The generator. *)

\* accept and getnameinfo succeed: generator->fd, and a thread that will read it.
Accept(c) ==
    /\ peer[c] # "off" /\ writer[c] = "none"
    /\ genFd' = c
    /\ writer' = [writer EXCEPT ![c] = "born"]
    /\ UNCHANGED <<generator, curr, writerFd, image, written, shared>>

\* getnameinfo fails: the connection stays open and nobody writes to it.
NoName(c) ==
    /\ MayFail
    /\ peer[c] # "off" /\ writer[c] = "none"
    /\ writer' = [writer EXCEPT ![c] = "nobody"]
    /\ UNCHANGED <<generator, genFd, curr, writerFd, image, written, shared>>

\* The program ends, and its threads with it.
GeneratorEnds ==
    /\ generator' = "dead"
    /\ curr' = -1
    /\ writer' = [c \in Connections |-> "none"]
    /\ writerFd' = [c \in Connections |-> c]
    /\ image' = [c \in Connections |-> NoImage]
    /\ written' = [c \in Connections |-> 0]
    /\ genFd' = Own
    /\ UNCHANGED shared

\* accept fails for good: generator_init returns and main with it.
AcceptFails == MayFail /\ GeneratorEnds

Listen ==
    /\ generator = "up"
    /\ \E c \in Connections : Accept(c) \/ NoName(c)
    /\ UNCHANGED <<peer, wire, collectorVars, giver, owner>>

Listener ==
    \/ Listen
    \/ /\ generator = "up"
       /\ AcceptFails
       /\ UNCHANGED <<peer, wire, collectorVars, giver, owner>>

\* The threads that write to the collector: two, when an accept came before the
\* thread of the one before had read generator->fd.
Writers == {c \in Connections : writer[c] \in {"next", "write"} /\ writerFd[c] = Own}

\* The new thread reads generator->fd.
BeginWriter(c) ==
    /\ writer[c] = "born"
    /\ writerFd' = [writerFd EXCEPT ![c] = genFd]
    /\ writer' = [writer EXCEPT ![c] = "next"]
    /\ shared' = (shared \/ (genFd = Own /\ Writers # {}))
    /\ UNCHANGED <<generator, genFd, curr, image, written, wire>>

\* next_image, from curr = 0 on.  The threads share generator->curr without a
\* lock: when two are here the increment of one may be lost.
NextImage(c) ==
    /\ writer[c] = "next" /\ curr >= 0
    /\ image' = [image EXCEPT ![c] = IF writerFd[c] = Own THEN curr ELSE NoImage]
    /\ \/ curr' = (curr + 1) % DataCnt
       \/ (\E d \in Connections \ {c} : writer[d] = "next") /\ UNCHANGED curr
    /\ writer' = [writer EXCEPT ![c] = "write"]
    /\ UNCHANGED <<generator, genFd, writerFd, written, shared, wire>>

\* next_image for curr = -1 points before the images: to a fresh page, which
\* reads as an image of 0 bytes, or to no page at all.
ImageBeforeFirst(c) ==
    /\ writer[c] = "next" /\ curr = -1
    /\ \/ curr' = 0 /\ UNCHANGED <<generator, genFd, writer, writerFd, image, written, shared>>
       \/ GeneratorEnds
    /\ UNCHANGED wire

\* write of the whole image to the collector: bytes go out as there is room.
WriteByte(c) ==
    /\ writer[c] = "write" /\ writerFd[c] = Own /\ peer[Own] = "open"
    /\ Len(wire) < Room
    /\ wire' = Append(wire, <<image[c], written[c] + 1>>)
    /\ IF written[c] + 1 = DataSize
       THEN /\ written' = [written EXCEPT ![c] = 0]
            /\ image' = [image EXCEPT ![c] = NoImage]
            /\ writer' = [writer EXCEPT ![c] = "next"]
       ELSE /\ written' = [written EXCEPT ![c] = @ + 1]
            /\ UNCHANGED <<image, writer>>
    /\ UNCHANGED <<generator, genFd, curr, writerFd, shared>>

\* write to another connection.
WriteAway(c) ==
    /\ writer[c] = "write" /\ writerFd[c] # Own /\ peer[writerFd[c]] = "open"
    /\ writer' = [writer EXCEPT ![c] = "next"]
    /\ UNCHANGED <<generator, genFd, curr, writerFd, image, written, shared, wire>>

\* write to a connection whose far end is closed: SIGPIPE ends the program.
WriteToClosed(c) ==
    /\ writer[c] = "write" /\ peer[writerFd[c]] = "closed"
    /\ GeneratorEnds
    /\ UNCHANGED wire

Writer(c) ==
    /\ generator = "up"
    /\ \/ BeginWriter(c) \/ NextImage(c) \/ ImageBeforeFirst(c)
       \/ WriteByte(c) \/ WriteAway(c) \/ WriteToClosed(c)
    /\ UNCHANGED <<peer, collectorVars, giver, owner>>

\* Other collectors connect and close when they like.
Peer(c) ==
    /\ \/ generator = "up" /\ peer[c] = "off" /\ peer' = [peer EXCEPT ![c] = "open"]
       \/ peer[c] = "open" /\ peer' = [peer EXCEPT ![c] = "closed"]
    /\ UNCHANGED <<generator, writerVars, wire, collectorVars, giver, owner>>

-----------------------------------------------------------------------------
(* The collector. *)

\* cv_collector_init: connect to the generator, start the thread.
Connect ==
    /\ generator = "up"
    /\ reader = "off"
    /\ reader' = "first"
    /\ peer' = [peer EXCEPT ![Own] = "open"]
    /\ UNCHANGED <<generator, writerVars, wire, frameVars, detectVars, exitFlag, emptyReady,
                   dataReady, named, giver, owner>>

\* sem_wait(&collector->empty_ready), before the first frame and after a break.
WaitObject ==
    /\ reader \in {"first", "wait"}
    /\ emptyReady > 0
    /\ emptyReady' = emptyReady - 1
    /\ reader' = IF reader = "first" THEN "loop" ELSE "store"
    /\ UNCHANGED <<frameVars, detectVars, exitFlag, dataReady, named, wire>>

\* The tests of exit_flag and of remaining_len = 0.
TestLoop ==
    /\ reader = "loop"
    /\ \/ exitFlag /\ reader' = "end" /\ UNCHANGED remaining
       \/ ~exitFlag /\ remaining = 0 /\ remaining' = HeaderSize /\ UNCHANGED reader
       \/ ~exitFlag /\ remaining # 0 /\ reader' = "read" /\ UNCHANGED remaining
    /\ UNCHANGED <<headerOk, received, part, split, detectVars, exitFlag, emptyReady, dataReady,
                   named, wire>>

Least(m, n) == IF m < n THEN m ELSE n

\* The image that bytes belong to, read to the place after "at" of a frame whose
\* bytes before belong to "known".
Belongs(known, bytes, at) ==
    LET first == IF known = NoImage THEN bytes[1][1] ELSE known
    IN  IF \A k \in DOMAIN bytes : bytes[k] = <<first, at + k>> THEN first ELSE Torn

\* The size in a header: that of an image, or whatever its bytes are.
Announced(known) ==
    IF known # Torn THEN {DataSize} ELSE {0, 1, DataSize, SizeMod - 1}

\* Bytes of a header that is not complete yet.
HeaderGoesOn(n) ==
    /\ received' = received + n
    /\ remaining' = remaining - n
    /\ split' = TRUE
    /\ reader' = "loop"
    /\ UNCHANGED headerOk

\* The last bytes of a header: remaining_len becomes the size in it, which
\* counts the header too, less the bytes of this read.
HeaderEnds(n) ==
    /\ headerOk' = TRUE
    /\ received' = 0
    /\ \E size \in Announced(part') : remaining' = (size + SizeMod - n) % SizeMod
    /\ reader' = "loop"
    /\ UNCHANGED split

\* Bytes of the image: the frame is complete when they fill its buffer exactly;
\* beyond the buffer they overwrite memory that is not the image's.
RawGoesOn(n) ==
    /\ received' = received + n
    /\ \/ /\ received' < RawSize
          /\ remaining' = (remaining + SizeMod - n) % SizeMod
          /\ reader' = "loop"
       \/ received' = RawSize /\ reader' = "detect" /\ UNCHANGED remaining
       \/ received' > RawSize /\ reader' = "overrun" /\ UNCHANGED remaining
    /\ UNCHANGED <<headerOk, split>>

\* read returns what there is, up to remaining_len.
ReadBytes ==
    LET n  == Least(remaining, Len(wire))
        at == received + (IF headerOk THEN HeaderSize ELSE 0)
    IN  /\ reader = "read" /\ wire # <<>>
        /\ wire' = SubSeq(wire, n + 1, Len(wire))
        /\ part' = Belongs(part, SubSeq(wire, 1, n), at)
        /\ \/ headerOk /\ RawGoesOn(n)
           \/ ~headerOk /\ received + n < HeaderSize /\ HeaderGoesOn(n)
           \/ ~headerOk /\ received + n = HeaderSize /\ HeaderEnds(n)
        /\ UNCHANGED <<detectVars, exitFlag, emptyReady, dataReady, named>>

\* read returns 0 at the end of the stream: sleep and try again.
ReadNothing ==
    /\ reader = "read" /\ wire = <<>> /\ generator = "dead"
    /\ reader' = "loop"
    /\ UNCHANGED <<frameVars, detectVars, exitFlag, emptyReady, dataReady, named, wire>>

ReadFails ==
    /\ MayFail
    /\ reader = "read"
    /\ exitFlag' = TRUE
    /\ reader' = "end"
    /\ UNCHANGED <<frameVars, detectVars, emptyReady, dataReady, named, wire>>

\* A counter that is compared with thresholds only is kept up to the larger one.
Count(n) == Least(n, ObjectFrames)

\* findRadius >= 150: a frame of an object, and so were the ones before it.
FrameWithObject ==
    /\ objCnt' = Count(objCnt + 1 + emptyCnt + nonCnt)
    /\ emptyCnt' = 0 /\ nonCnt' = 0
    /\ reader' = "store"
    /\ UNCHANGED <<dataReady, named>>

\* 135 <= findRadius < 150
FrameBetween ==
    /\ nonCnt' = Count(nonCnt + 1)
    /\ reader' = "store"
    /\ UNCHANGED <<objCnt, emptyCnt, dataReady, named>>

\* findRadius < 135 while the object is long enough, and now the gap too.
Breaks == objCnt >= ObjectFrames /\ emptyCnt + 1 >= EmptyFrames

FrameEmpty ==
    /\ ~Breaks
    /\ emptyCnt' = Count(emptyCnt + 1)
    /\ reader' = "store"
    /\ UNCHANGED <<objCnt, nonCnt, dataReady, named>>

\* The object is given away: sem_post(&collector->data_ready).
ObjectBreak ==
    /\ Breaks
    /\ dataReady' = dataReady + 1
    /\ named' = FALSE
    /\ objCnt' = 0 /\ emptyCnt' = 0 /\ nonCnt' = 0
    /\ reader' = "posted"

Detect ==
    /\ reader = "detect"
    /\ FrameWithObject \/ FrameBetween \/ FrameEmpty \/ ObjectBreak
    /\ UNCHANGED <<frameVars, exitFlag, emptyReady, wire>>

\* if (!collector->exit_flag) before the wait for the next object.
TestExit ==
    /\ reader = "posted"
    /\ reader' = IF exitFlag THEN "store" ELSE "wait"
    /\ UNCHANGED <<frameVars, detectVars, exitFlag, emptyReady, dataReady, named, wire>>

\* storage_interface_add_frame_to_object_with_framesets, and the next frame.
StoreFrame ==
    /\ reader = "store"
    /\ remaining' = HeaderSize /\ received' = 0 /\ headerOk' = FALSE
    /\ part' = NoImage /\ split' = FALSE
    /\ reader' = "loop"
    /\ UNCHANGED <<detectVars, exitFlag, emptyReady, dataReady, named, wire>>

\* sem_post(&collector->data_ready) at the end of the thread; what it read of a
\* frame, and its counters, are gone with it.
EndReader ==
    /\ reader = "end"
    /\ dataReady' = dataReady + 1
    /\ reader' = "done"
    /\ headerOk' = FALSE /\ received' = 0 /\ remaining' = HeaderSize
    /\ part' = NoImage /\ split' = FALSE
    /\ objCnt' = 0 /\ emptyCnt' = 0 /\ nonCnt' = 0
    /\ UNCHANGED <<exitFlag, emptyReady, named, wire>>

Collect ==
    /\ \/ WaitObject \/ TestLoop \/ ReadBytes \/ ReadNothing
       \/ Detect \/ TestExit \/ StoreFrame \/ EndReader
    /\ UNCHANGED <<generator, writerVars, peer, giver, owner>>

Reader == Collect \/ (ReadFails /\ UNCHANGED <<generator, writerVars, peer, giver, owner>>)

-----------------------------------------------------------------------------
(* The program that calls the collector. *)

\* It waits for data_ready, and for each object given away ...
TakeObject ==
    /\ giver = "idle" /\ dataReady > 0
    /\ dataReady' = dataReady - 1
    /\ giver' = "gives"
    /\ UNCHANGED <<emptyReady, named>>

\* ... names a new one and posts empty_ready; the first it gives by itself.
GiveObject ==
    /\ giver = "gives" /\ reader # "off"
    /\ named' = TRUE
    /\ emptyReady' = emptyReady + 1
    /\ giver' = "idle"
    /\ UNCHANGED dataReady

Giver ==
    /\ owner # "done"
    /\ TakeObject \/ GiveObject
    /\ UNCHANGED <<generator, writerVars, peer, wire, reader, frameVars, detectVars, exitFlag,
                   owner>>

\* cv_collector_destroy raises exit_flag and joins the thread ...
Destroy ==
    /\ owner = "none" /\ reader # "off"
    /\ exitFlag' = TRUE
    /\ owner' = "join"
    /\ UNCHANGED peer

\* ... closes the connection ...
Joined ==
    /\ owner = "join" /\ reader = "done"
    /\ peer' = [peer EXCEPT ![Own] = "closed"]
    /\ owner' = "closed"
    /\ UNCHANGED exitFlag

\* ... and after 5 s frees the collector.
Free ==
    /\ owner = "closed"
    /\ owner' = "done"
    /\ UNCHANGED <<peer, exitFlag>>

OwnerEnds == Joined \/ Free

Owner ==
    /\ Destroy \/ OwnerEnds
    /\ UNCHANGED <<generator, writerVars, wire, reader, frameVars, detectVars, emptyReady,
                   dataReady, named, giver>>

Next ==
    \/ Listener
    \/ \E c \in Connections : Writer(c)
    \/ \E c \in Others : Peer(c)
    \/ Connect \/ Reader \/ Giver \/ Owner

Spec == Init /\ [][Next]_vars

\* Threads are scheduled, connections are accepted and the caller serves its
\* collector; nobody has to connect or to destroy the collector, and no call
\* has to fail.
Fairness ==
    /\ WF_vars(Listen)
    /\ \A c \in Connections : WF_vars(Writer(c))
    /\ WF_vars(Collect) /\ WF_vars(Giver)
    /\ WF_vars(Owner /\ owner # "none")

FairSpec == Spec /\ Fairness

-----------------------------------------------------------------------------
(* Properties. *)

\* However read cuts the stream, the header and the image of a frame that is
\* stored are those of one image of the generator, complete and in their place, and
\* a read goes beyond the buffer of the image only after a header that took two
\* reads, the first of which is not subtracted from remaining_len; unless two
\* threads of the generator share the connection (cvcollector.cpp:94-147).
FramesAreWhole ==
    /\ reader \in {"detect", "posted", "wait", "store"} => part \in Images \/ shared
    /\ reader = "overrun" => split \/ shared

\* A frame is added only to an object that has not been given away, unless the
\* collector is being stopped (cvcollector.cpp:165-201).
GivenIsSealed == reader = "store" => named \/ exitFlag

\* Nobody writes to the collector: the thread of its connection took the fd of
\* another one, or getnameinfo failed.
Starved ==
    /\ generator = "up" /\ writer[Own] # "none" /\ Writers = {}
    /\ genFd = Own => \A c \in Connections : writer[c] # "born"

\* cv_collector_destroy returns, whatever its thread waits for at that moment and
\* whatever becomes of the generator, unless the thread has overrun its buffer or
\* reads from a connection that nobody or two threads write to
\* (cvcollector.cpp:278-286).
DestroyEnds == owner = "join" ~> owner = "done" \/ reader = "overrun" \/ Starved \/ shared
=============================================================================
