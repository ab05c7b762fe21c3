-------------------------- MODULE FrameStreamProofs --------------------------
(***************************************************************************)
(* Proofs about the two programs that cut a stream back into what was      *)
(* written to it.  FrameStream, for any number of connections and images   *)
(* of any size: a frame is added to no object that was given away, and a   *)
(* frame that is stored is one image, complete and in its place.           *)
(* Messenger, at the end of the module, for any number of connections and  *)
(* lines: what a server executes was written to it, and a client that uses *)
(* a connection it has freed was left by a server.                         *)
(*                                                                         *)
(* The permission to fill an object makes a round: the caller names an     *)
(* object (empty_ready), the thread fills it and gives it away             *)
(* (data_ready), the caller takes it and names the next.  Round says that  *)
(* there is one such permission and where it is.  Once exit_flag is up the *)
(* round is broken: the thread skips its wait and posts at its end.        *)
(* StreamInv, further down, ties the bytes on the wire to one another, to  *)
(* what the thread of the generator has written of its image and to what   *)
(* the collector has read of its frame.                                    *)
(***************************************************************************)
EXTENDS FrameStream, TextCommands, SequenceTheorems, WellFoundedInduction, TLAPS

-----------------------------------------------------------------------------
(* The inductive invariant.                                                *)

Filling == {"loop", "read", "detect", "store", "overrun"}
Waiting == {"posted", "wait"}
Before == {"off", "first"}

\* The thread fills an object; one was named for it; it was given away; or the
\* caller is about to name the next.
Round ==
    \/ reader \in Filling /\ named /\ emptyReady = 0 /\ dataReady = 0 /\ giver = "idle"
    \/ reader \in Before \cup Waiting /\ named /\ emptyReady = 1 /\ dataReady = 0 /\ giver = "idle"
    \/ reader \in Waiting /\ emptyReady = 0 /\ dataReady = 1 /\ giver = "idle"
    \/ reader \in Before \cup Waiting /\ emptyReady = 0 /\ dataReady = 0 /\ giver = "gives"

IInv == exitFlag \/ Round

roundVars == <<reader, exitFlag, emptyReady, dataReady, named, giver>>

-----------------------------------------------------------------------------
LEMMA InitRound == Init => IInv
  BY DEF Init, IInv, Round, Before

\* A step that touches none of the variables of the round.
LEMMA Untouched ==
  ASSUME IInv, UNCHANGED roundVars
  PROVE  IInv'
  BY DEF IInv, Round, roundVars

\* The generator and the other collectors know nothing of the round.
LEMMA OutsideRound ==
  ASSUME IInv,
         Listener \/ (\E c \in Connections : Writer(c)) \/ (\E c \in Others : Peer(c))
                  \/ (Owner /\ ~Destroy)
  PROVE  IInv'
<1>1. UNCHANGED roundVars
  BY DEF Listener, Listen, Writer, Peer, Owner, OwnerEnds, Joined, Free, collectorVars, roundVars
<1> QED
  BY <1>1, Untouched

LEMMA ConnectRound ==
  ASSUME IInv, Connect
  PROVE  IInv'
  BY DEF Connect, IInv, Round, Before, Waiting, Filling

LEMMA DestroyRound ==
  ASSUME IInv, Owner, Destroy
  PROVE  IInv'
  BY DEF Destroy, Owner, IInv

\* The caller takes an object only while none is named, and names one then.
LEMMA GiverRound ==
  ASSUME IInv, Giver
  PROVE  IInv'
<1>1. CASE exitFlag
  BY <1>1 DEF Giver, IInv
<1>2. CASE Round /\ TakeObject
  BY <1>2 DEF Giver, TakeObject, IInv, Round, Before, Waiting, Filling
<1>3. CASE Round /\ GiveObject
  BY <1>3 DEF Giver, GiveObject, IInv, Round, Before, Waiting, Filling
<1> QED
  BY <1>1, <1>2, <1>3 DEF Giver, IInv

\* Cutting the stream into frames leaves the thread where it fills an object.
LEMMA ReadRound ==
  ASSUME IInv, ReadBytes, UNCHANGED giver
  PROVE  IInv'
<1> DEFINE n == Least(remaining, Len(wire))
<1>1. /\ reader = "read"
      /\ (headerOk /\ RawGoesOn(n)) \/ HeaderGoesOn(n) \/ HeaderEnds(n)
      /\ UNCHANGED <<exitFlag, emptyReady, dataReady, named>>
  BY DEF ReadBytes
<1>2. reader' \in Filling
  BY <1>1 DEF RawGoesOn, HeaderGoesOn, HeaderEnds, Filling
<1> QED
  BY <1>1, <1>2 DEF IInv, Round, Before, Waiting, Filling

\* The thread gives its object away only while it fills one.
LEMMA DetectRound ==
  ASSUME IInv, Detect, UNCHANGED giver
  PROVE  IInv'
<1>1. CASE FrameWithObject \/ FrameBetween \/ FrameEmpty
  BY <1>1 DEF Detect, FrameWithObject, FrameBetween, FrameEmpty, IInv, Round, Before, Waiting,
              Filling
<1>2. CASE ObjectBreak
  BY <1>2 DEF Detect, ObjectBreak, IInv, Round, Before, Waiting, Filling
<1> QED
  BY <1>1, <1>2 DEF Detect

LEMMA CollectRound ==
  ASSUME IInv, Collect
  PROVE  IInv'
<1>1. UNCHANGED giver
  BY DEF Collect
<1>2. CASE WaitObject
  BY <1>1, <1>2 DEF WaitObject, IInv, Round, Before, Waiting, Filling
<1>3. CASE TestLoop
  BY <1>1, <1>3 DEF TestLoop, IInv, Round, Before, Waiting, Filling
<1>4. CASE ReadBytes
  BY <1>1, <1>4, ReadRound
<1>5. CASE ReadNothing
  BY <1>1, <1>5 DEF ReadNothing, IInv, Round, Before, Waiting, Filling
<1>6. CASE Detect
  BY <1>1, <1>6, DetectRound
<1>7. CASE TestExit
  BY <1>1, <1>7 DEF TestExit, IInv, Round, Before, Waiting, Filling
<1>8. CASE StoreFrame
  BY <1>1, <1>8 DEF StoreFrame, IInv, Round, Before, Waiting, Filling
<1>9. CASE EndReader
  BY <1>1, <1>9 DEF EndReader, IInv, Round, Before, Waiting, Filling
<1> QED
  BY <1>2, <1>3, <1>4, <1>5, <1>6, <1>7, <1>8, <1>9 DEF Collect

LEMMA NextRound ==
  ASSUME IInv, [Next]_vars
  PROVE  IInv'
<1>1. CASE Listener \/ (\E c \in Connections : Writer(c)) \/ (\E c \in Others : Peer(c))
  BY <1>1, OutsideRound
<1>2. CASE Connect
  BY <1>2, ConnectRound
<1>3. CASE Collect
  BY <1>3, CollectRound
<1>4. CASE ReadFails
  BY <1>4 DEF ReadFails, IInv
<1>5. CASE Giver
  BY <1>5, GiverRound
<1>6. CASE Owner
  BY <1>6, OutsideRound, DestroyRound
<1>7. CASE UNCHANGED vars
  BY <1>7, Untouched DEF vars, collectorVars, roundVars
<1> QED
  BY <1>1, <1>2, <1>3, <1>4, <1>5, <1>6, <1>7 DEF Next, Reader

-----------------------------------------------------------------------------
\* A frame is added only to an object that has not been given away, unless the
\* collector is being stopped (cv_collect_data_thread).
THEOREM GivenStaysSealed == Spec => []GivenIsSealed
<1>1. IInv => GivenIsSealed
  BY DEF IInv, Round, GivenIsSealed, Before, Waiting, Filling
<1> QED
  BY <1>1, InitRound, NextRound, PTL DEF Spec

-----------------------------------------------------------------------------
(* The bytes on their way.  While one thread at most writes to the         *)
(* collector, they are its images, one behind the other: the invariant     *)
(* ties each byte on the wire to the ones before it, the first to what the *)
(* collector has read of its frame, the last to what the thread has        *)
(* written of its image.                                                   *)

\* How many bytes of its frame the collector has read.
At == received + (IF headerOk THEN HeaderSize ELSE 0)

\* The byte behind which the next one will be written.
LastByte == IF wire = <<>> THEN <<part, At>> ELSE wire[Len(wire)]

Bytes == Images \X (1..DataSize)

StreamType ==
    /\ generator \in {"up", "dead"}
    /\ generator = "dead" => Writers = {}
    /\ genFd \in Connections
    /\ curr \in -1..(DataCnt - 1)
    /\ writer \in [Connections -> {"none", "nobody", "born", "next", "write"}]
    /\ writerFd \in [Connections -> Connections]
    /\ image \in [Connections -> Images \cup {NoImage}]
    /\ written \in [Connections -> 0..(DataSize - 1)]
    /\ wire \in Seq(Bytes)
    /\ received \in Nat /\ remaining \in Nat /\ headerOk \in BOOLEAN
    /\ \A c \in Connections : writer[c] # "write" \/ writerFd[c] # Own => written[c] = 0
    /\ \A c \in Writers : writer[c] = "write" => image[c] \in Images

OneWriter == \A c, d \in Writers : c = d

\* Bytes of one image follow one another, and its last byte is followed by the first
\* of another image.
Follow(w) ==
    /\ \A j, k \in 1..Len(w) : j < k /\ w[j][2] + (k - j) <= DataSize
          => w[k] = <<w[j][1], w[j][2] + (k - j)>>
    /\ \A j \in 1..Len(w) : j < Len(w) /\ w[j][2] = DataSize => w[j + 1][2] = 1

BytesFollow == Follow(wire)

HeadFits ==
    /\ At \in {0, DataSize} /\ wire # <<>> => wire[1][2] = 1
    /\ At # 0 => \A k \in 1..Len(wire) : At + k <= DataSize => wire[k] = <<part, At + k>>

TailFits == generator = "up" =>
    /\ Writers = {} => LastByte[2] \in {0, DataSize}
    /\ \A c \in Writers :
          IF LastByte[2] \in {0, DataSize} THEN written[c] = 0
          ELSE writer[c] = "write" /\ <<image[c], written[c]>> = LastByte

Complete == {"detect", "posted", "wait", "store"}

\* What the collector believes of its frame.  Only a header that took two reads makes
\* it ask for more than the frame has.
Position ==
    /\ reader \in Complete => headerOk /\ received = RawSize
    /\ reader \in Before => At = 0
    /\ IF At = 0 THEN part = NoImage ELSE part \in Images
    /\ ~headerOk => /\ received < HeaderSize /\ remaining = HeaderSize - received
                    /\ received = 0 => ~split
                    /\ received > 0 => split
    /\ headerOk /\ reader \notin Complete =>
         /\ received < RawSize
         /\ remaining \in (RawSize - received)..(SizeMod - 1)
         /\ ~split => remaining = RawSize - received

\* The collector has stopped to read, or has overrun its buffer.
Lost == {"end", "done", "overrun"}

Aligned == BytesFollow /\ HeadFits /\ TailFits /\ Position

StreamInv ==
    /\ StreamType
    /\ ~shared => OneWriter
    /\ ~shared /\ reader \notin Lost => Aligned
    /\ ~shared /\ reader = "overrun" => split

LEMMA Sizes ==
  /\ HeaderSize \in Nat /\ HeaderSize > 0 /\ RawSize \in Nat /\ RawSize > 0
  /\ DataSize \in Nat /\ DataSize = HeaderSize + RawSize /\ DataSize > 1
  /\ SizeMod \in Nat /\ SizeMod > DataSize
  /\ DataCnt \in Nat /\ DataCnt > 1
  /\ NoImage \notin Images
  BY FrameStreamAssumption DEF DataSize, NoImage, Images

LEMMA InitStream == Init => StreamInv
<1> SUFFICES ASSUME Init PROVE StreamInv
  OBVIOUS
<1> USE DEF Init
<1>1. Own \in Connections /\ At = 0 /\ Writers = {}
  <2>1. \A c \in Connections : writer[c] = "none"
    OBVIOUS
  <2>2. Writers = {}
    BY <2>1 DEF Writers
  <2> QED
    BY <2>2 DEF Connections, At
<1>2. StreamType
  <2>1. wire \in Seq(Bytes)
    OBVIOUS
  <2>2. written \in [Connections -> 0..(DataSize - 1)]
    BY Sizes
  <2>3. curr \in -1..(DataCnt - 1)
    BY Sizes
  <2>4. remaining \in Nat
    BY Sizes
  <2> QED
    BY <1>1, <2>1, <2>2, <2>3, <2>4 DEF StreamType
<1>3. BytesFollow /\ HeadFits /\ TailFits
  BY <1>1 DEF BytesFollow, Follow, HeadFits, TailFits, LastByte
<1>4. Position
  BY <1>1, Sizes DEF Position, Complete, Before
<1> QED
  BY <1>1, <1>2, <1>3, <1>4 DEF StreamInv, Aligned, OneWriter

-----------------------------------------------------------------------------
(* The generator.                                                          *)

readerVars == <<reader, frameVars, wire>>

\* A step that the collector does not take part in.
LEMMA ReaderStays ==
  ASSUME StreamInv, UNCHANGED readerVars, shared => shared', StreamType',
         ~shared' => OneWriter',
         ~shared' /\ reader \notin Lost => TailFits'
  PROVE  StreamInv'
<1> USE DEF readerVars, frameVars
<1>1. BytesFollow' <=> BytesFollow
  BY DEF BytesFollow, Follow
<1>2. (HeadFits' <=> HeadFits) /\ (Position' <=> Position)
  BY DEF HeadFits, Position, At
<1> QED
  BY <1>1, <1>2 DEF StreamInv, Aligned

LEMMA GeneratorEndsStream ==
  ASSUME StreamInv, GeneratorEnds, UNCHANGED readerVars
  PROVE  StreamInv'
<1> USE DEF GeneratorEnds
<1>1. Writers' = {}
  <2>1. \A c \in Connections : writer'[c] = "none"
    OBVIOUS
  <2> QED
    BY <2>1 DEF Writers
<1>2. StreamType'
  <2>1. Own \in Connections /\ -1 \in -1..(DataCnt - 1) /\ 0 \in 0..(DataSize - 1)
    BY Sizes DEF Connections
  <2> QED
    BY <1>1, <2>1 DEF StreamInv, StreamType, readerVars, frameVars
<1>3. OneWriter' /\ TailFits'
  BY <1>1 DEF OneWriter, TailFits
<1> QED
  BY <1>2, <1>3, ReaderStays

\* The threads that write to the collector stay where they are.
LEMMA WritersStay ==
  ASSUME StreamInv, UNCHANGED <<generator, readerVars, written>>, shared => shared',
         StreamType', Writers' = Writers,
         \A c \in Writers : writer'[c] = writer[c] /\ image'[c] = image[c]
  PROVE  StreamInv'
<1>1. OneWriter' <=> OneWriter
  BY DEF OneWriter
<1>2. LastByte' = LastByte
  BY DEF LastByte, At, readerVars, frameVars
<1>3. TailFits' <=> TailFits
  BY <1>2 DEF TailFits
<1> QED
  BY <1>1, <1>3, ReaderStays DEF StreamInv, Aligned

LEMMA ListenerStream ==
  ASSUME StreamInv, Listener
  PROVE  StreamInv'
<1>1. UNCHANGED readerVars
  BY DEF Listener, Listen, collectorVars, readerVars
<1>2. ASSUME NEW c \in Connections, generator = "up", Accept(c) \/ NoName(c)
      PROVE  StreamInv'
  <2>1. /\ writer[c] = "none" /\ genFd' \in Connections
        /\ writer' = [writer EXCEPT ![c] = "born"] \/ writer' = [writer EXCEPT ![c] = "nobody"]
        /\ UNCHANGED <<generator, curr, writerFd, image, written, shared>>
    BY <1>2 DEF Accept, NoName, StreamInv, StreamType
  <2>2. \A d \in Connections :
          /\ d # c => writer'[d] = writer[d]
          /\ writer'[c] \in {"born", "nobody"}
    BY <2>1 DEF StreamInv, StreamType
  <2>3. Writers' = Writers
    BY <2>1, <2>2 DEF Writers
  <2>4. StreamType'
    BY <1>1, <2>1, <2>2, <2>3 DEF StreamInv, StreamType, readerVars, frameVars, Writers
  <2>5. \A d \in Writers : writer'[d] = writer[d] /\ image'[d] = image[d]
    BY <2>1, <2>2 DEF Writers
  <2> QED
    BY <1>1, <2>1, <2>3, <2>4, <2>5, WritersStay
<1> QED
  BY <1>1, <1>2, GeneratorEndsStream DEF Listener, Listen, AcceptFails

LEMMA BeginWriterStream ==
  ASSUME StreamInv, generator = "up", NEW c \in Connections, BeginWriter(c),
         UNCHANGED readerVars
  PROVE  StreamInv'
<1> USE DEF BeginWriter, StreamInv
<1>1. /\ writer[c] = "born" /\ writer'[c] = "next" /\ writerFd'[c] = genFd /\ written[c] = 0
      /\ \A d \in Connections : d # c => writer'[d] = writer[d] /\ writerFd'[d] = writerFd[d]
  BY DEF StreamType
<1>2. c \notin Writers /\ Writers' = IF genFd = Own THEN Writers \cup {c} ELSE Writers
  BY <1>1 DEF Writers
<1>3. StreamType'
  <2>1. \A d \in Connections : writer'[d] # "write" \/ writerFd'[d] # Own => written'[d] = 0
    BY <1>1 DEF StreamType
  <2>2. \A d \in Writers' : writer'[d] = "write" => image'[d] \in Images
    BY <1>1, <1>2 DEF StreamType, Writers
  <2>3. /\ writer' \in [Connections -> {"none", "nobody", "born", "next", "write"}]
        /\ writerFd' \in [Connections -> Connections]
    BY DEF StreamType
  <2> QED
    BY <2>1, <2>2, <2>3 DEF StreamType, readerVars, frameVars
<1>4. CASE genFd # Own
  <2>1. \A d \in Writers : writer'[d] = writer[d]
    BY <1>1, <1>2 DEF Writers
  <2> QED
    BY <1>2, <1>3, <1>4, <2>1, WritersStay
<1>5. CASE genFd = Own /\ Writers # {}
  BY <1>3, <1>5, ReaderStays
<1>6. CASE genFd = Own /\ Writers = {}
  <2>1. Writers' = {c} /\ LastByte' = LastByte
    BY <1>2, <1>6 DEF LastByte, At, readerVars, frameVars
  <2>2. OneWriter'
    BY <2>1 DEF OneWriter
  <2>3. ~shared /\ reader \notin Lost => TailFits'
    BY <1>1, <1>6, <2>1 DEF TailFits, Aligned
  <2> QED
    BY <1>3, <1>6, <2>2, <2>3, ReaderStays
<1> QED
  BY <1>4, <1>5, <1>6

LEMMA NextImageStream ==
  ASSUME StreamInv, generator = "up", NEW c \in Connections,
         NextImage(c) \/ ImageBeforeFirst(c) \/ WriteAway(c) \/ WriteToClosed(c),
         UNCHANGED readerVars
  PROVE  StreamInv'
<1> USE DEF StreamInv
<1>1. CASE NextImage(c)
  <2> USE <1>1 DEF NextImage
  <2>1. /\ writer[c] = "next" /\ writer'[c] = "write" /\ written[c] = 0
        /\ image'[c] = IF writerFd[c] = Own THEN curr ELSE NoImage
        /\ \A d \in Connections : d # c => writer'[d] = writer[d] /\ image'[d] = image[d]
    BY DEF StreamType
  <2>2. Writers' = Writers /\ curr \in Images
    BY <2>1, Sizes DEF Writers, StreamType, Images
  <2>3. curr' \in -1..(DataCnt - 1)
    <3>1. curr' = curr \/ curr' = (curr + 1) % DataCnt
      OBVIOUS
    <3>2. curr + 1 \in Int /\ DataCnt \in Nat \ {0}
      BY Sizes DEF StreamType
    <3>3. (curr + 1) % DataCnt \in 0..(DataCnt - 1)
      BY <3>2
    <3> QED
      BY <3>1, <3>3, Sizes DEF StreamType
  <2>4. StreamType'
    <3>1. image' \in [Connections -> Images \cup {NoImage}]
      BY <2>2 DEF StreamType
    <3>2. writer' \in [Connections -> {"none", "nobody", "born", "next", "write"}]
      BY DEF StreamType
    <3>3. \A d \in Connections : writer'[d] # "write" \/ writerFd'[d] # Own => written'[d] = 0
      BY <2>1 DEF StreamType
    <3>4. \A d \in Writers' : writer'[d] = "write" => image'[d] \in Images
      BY <2>1, <2>2 DEF StreamType, Writers
    <3> QED
      BY <2>2, <2>3, <3>1, <3>2, <3>3, <3>4 DEF StreamType, readerVars, frameVars
  <2>5. LastByte' = LastByte
    BY DEF LastByte, At, readerVars, frameVars
  <2>6. OneWriter => OneWriter'
    BY <2>2 DEF OneWriter
  <2>7. TailFits => TailFits'
    BY <2>1, <2>2, <2>5 DEF TailFits, Writers
  <2> QED
    BY <2>4, <2>6, <2>7, ReaderStays DEF Aligned
<1>2. CASE ImageBeforeFirst(c)
  <2>1. CASE GeneratorEnds
    BY <2>1, GeneratorEndsStream
  <2>2. CASE curr' = 0 /\ UNCHANGED <<generator, genFd, writer, writerFd, image, written, shared>>
    <3>1. StreamType' /\ Writers' = Writers
      BY <2>2, Sizes DEF StreamType, Writers, readerVars, frameVars
    <3> QED
      BY <2>2, <3>1, WritersStay
  <2> QED
    BY <1>2, <2>1, <2>2 DEF ImageBeforeFirst
<1>3. CASE WriteAway(c)
  <2> USE <1>3 DEF WriteAway
  <2>1. /\ c \notin Writers /\ Writers' = Writers
        /\ \A d \in Connections : d # c => writer'[d] = writer[d]
    BY DEF Writers, StreamType
  <2>2. /\ writer' \in [Connections -> {"none", "nobody", "born", "next", "write"}]
        /\ \A d \in Connections : writer'[d] # "write" \/ writerFd'[d] # Own => written'[d] = 0
    BY DEF StreamType
  <2>3. \A d \in Writers : writer'[d] = writer[d] /\ image'[d] = image[d]
    BY <2>1 DEF Writers
  <2>4. StreamType'
    BY <2>1, <2>2, <2>3 DEF StreamType, readerVars, frameVars
  <2> QED
    BY <2>1, <2>3, <2>4, WritersStay
<1>4. CASE WriteToClosed(c)
  BY <1>4, GeneratorEndsStream DEF WriteToClosed
<1> QED
  BY <1>1, <1>2, <1>3, <1>4

\* A byte that fits behind the last one makes a longer sequence of bytes that follow.
LEMMA AppendFollows ==
  ASSUME NEW w \in Seq(Bytes), NEW x \in Bytes, Follow(w),
         w # <<>> => IF w[Len(w)][2] = DataSize THEN x[2] = 1
                     ELSE x = <<w[Len(w)][1], w[Len(w)][2] + 1>>
  PROVE  Follow(Append(w, x))
<1> DEFINE n == Len(w)
           v == Append(w, x)
<1>1. /\ n \in Nat /\ Len(v) = n + 1 /\ v[n + 1] = x
      /\ \A k \in 1..n : v[k] = w[k]
  BY AppendProperties
<1>2. \A k \in 1..n : w[k] \in Bytes
  BY ElementOfSeq
<1>3. \A k \in 1..n : w[k][2] \in 1..DataSize
  BY <1>2 DEF Bytes
<1> HIDE DEF v, n
<1>4. ASSUME NEW j \in 1..n, w[j][2] + (n + 1 - j) <= DataSize
      PROVE  x = <<w[j][1], w[j][2] + (n + 1 - j)>>
  <2>1. n \in 1..n /\ w # <<>>
    BY <1>1 DEF n
  <2>2. j < n => w[n] = <<w[j][1], w[j][2] + (n - j)>>
    <3>1. \A k \in 1..n : j < k /\ w[j][2] + (k - j) <= DataSize =>
                             w[k] = <<w[j][1], w[j][2] + (k - j)>>
      BY <1>4 DEF Follow, n
    <3>2. w[j][2] \in Int /\ n \in Int /\ j \in Int /\ DataSize \in Int
      BY <1>1, <1>3, Sizes
    <3>3. w[j][2] + (n - j) <= DataSize
      BY <1>4, <3>2
    <3> QED
      BY <2>1, <3>1, <3>3
  <2>3. w[n][1] = w[j][1] /\ w[n][2] = w[j][2] + (n - j)
    BY <1>1, <1>3, <2>2
  <2>4. w[n][2] # DataSize
    BY <1>1, <1>3, <1>4, <2>3, Sizes
  <2>5. x = <<w[n][1], w[n][2] + 1>>
    BY <2>1, <2>4 DEF n
  <2>6. w[j][2] \in Int /\ n \in Int /\ j \in Int
    BY <1>1, <1>3
  <2>7. w[n][2] + 1 = w[j][2] + (n + 1 - j)
    BY <2>3, <2>6
  <2> QED
    BY <2>3, <2>5, <2>7
<1>5. n > 0 /\ w[n][2] = DataSize => x[2] = 1
  BY <1>1 DEF n
<1>6. ASSUME NEW j \in 1..(n + 1), NEW k \in 1..(n + 1), j < k,
             v[j][2] + (k - j) <= DataSize
      PROVE  v[k] = <<v[j][1], v[j][2] + (k - j)>>
  <2>1. j \in 1..n /\ v[j] = w[j]
    BY <1>1, <1>6
  <2>2. CASE k = n + 1
    BY <1>1, <1>4, <1>6, <2>1, <2>2
  <2>3. CASE k # n + 1
    <3>1. k \in 1..n /\ v[k] = w[k]
      BY <1>1, <2>3
    <3> QED
      BY <1>6, <2>1, <3>1 DEF Follow, n
  <2> QED
    BY <2>2, <2>3
<1>7. ASSUME NEW j \in 1..(n + 1), j < n + 1, v[j][2] = DataSize
      PROVE  v[j + 1][2] = 1
  <2>1. j \in 1..n /\ v[j] = w[j]
    BY <1>1, <1>7
  <2>2. CASE j = n
    BY <1>1, <1>5, <1>7, <2>1, <2>2
  <2>3. CASE j # n
    <3>1. j < n /\ j + 1 \in 1..n /\ v[j + 1] = w[j + 1]
      BY <1>1, <2>1, <2>3
    <3> QED
      BY <1>7, <2>1, <3>1 DEF Follow, n
  <2> QED
    BY <2>2, <2>3
<1> QED
  BY <1>1, <1>6, <1>7 DEF Follow, v

\* Bytes that are read off the front leave bytes that follow.
LEMMA DropFollows ==
  ASSUME NEW w \in Seq(Bytes), Follow(w), NEW n \in 0..Len(w)
  PROVE  LET v == SubSeq(w, n + 1, Len(w))
         IN  /\ v \in Seq(Bytes) /\ Len(v) = Len(w) - n
             /\ \A k \in 1..Len(v) : v[k] = w[k + n]
             /\ Follow(v)
<1> DEFINE v == SubSeq(w, n + 1, Len(w))
<1>1. Len(w) \in Nat
  OBVIOUS
<1>2. /\ v \in Seq(Bytes) /\ Len(v) = Len(w) - n
      /\ \A k \in 1..Len(v) : v[k] = w[k + n]
  <2>1. /\ \A k \in (n + 1)..Len(w) : w[k] \in Bytes
        /\ n + 1 \in 1..(Len(w) + 1)
    BY <1>1, ElementOfSeq
  <2> QED
    BY <1>1, <2>1, SubSeqProperties
<1> HIDE DEF v
<1>3. ASSUME NEW j \in 1..Len(v), NEW k \in 1..Len(v), j < k, v[j][2] + (k - j) <= DataSize
      PROVE  v[k] = <<v[j][1], v[j][2] + (k - j)>>
  <2>1. j + n \in 1..Len(w) /\ k + n \in 1..Len(w) /\ j + n < k + n
        /\ (k + n) - (j + n) = k - j
    BY <1>1, <1>2, <1>3
  <2>2. v[j] = w[j + n] /\ v[k] = w[k + n]
    BY <1>2
  <2> QED
    BY <1>3, <2>1, <2>2 DEF Follow
<1>4. ASSUME NEW j \in 1..Len(v), j < Len(v), v[j][2] = DataSize
      PROVE  v[j + 1][2] = 1
  <2>1. j + n \in 1..Len(w) /\ j + n < Len(w) /\ (j + n) + 1 = (j + 1) + n /\ j + 1 \in 1..Len(v)
    BY <1>1, <1>2, <1>4
  <2>2. v[j] = w[j + n] /\ v[j + 1] = w[(j + 1) + n]
    BY <1>2, <2>1
  <2> QED
    BY <1>4, <2>1, <2>2 DEF Follow
<1> QED
  BY <1>2, <1>3, <1>4 DEF Follow, v

\* A byte goes out behind the last one.
LEMMA WriteByteStream ==
  ASSUME StreamInv, generator = "up", NEW c \in Connections, WriteByte(c),
         UNCHANGED <<reader, frameVars>>
  PROVE  StreamInv'
<1> DEFINE byte == <<image[c], written[c] + 1>>
           n == Len(wire)
<1> USE DEF StreamInv
<1>1. /\ c \in Writers /\ image[c] \in Images /\ writer[c] = "write"
      /\ written[c] \in 0..(DataSize - 1)
      /\ byte \in Images \X (1..DataSize)
      /\ UNCHANGED <<generator, genFd, curr, writerFd, shared>>
  <2>1. c \in Writers /\ image[c] \in Images /\ writer[c] = "write"
    BY DEF WriteByte, Writers, StreamType
  <2>2. written[c] \in 0..(DataSize - 1)
    BY DEF StreamType
  <2>3. written[c] + 1 \in 1..DataSize
    BY <2>2, Sizes
  <2> QED
    BY <2>1, <2>2, <2>3 DEF WriteByte
<1>2. /\ wire \in Seq(Bytes) /\ byte \in Bytes /\ wire' = Append(wire, byte)
      /\ wire' \in Seq(Bytes) /\ wire' # <<>>
      /\ n \in Nat /\ Len(wire') = n + 1 /\ wire'[n + 1] = byte
      /\ \A k \in 1..n : wire'[k] = wire[k] /\ wire[k] \in Bytes
  <2>1. wire \in Seq(Bytes) /\ wire' = Append(wire, byte) /\ byte \in Bytes
    BY <1>1 DEF WriteByte, StreamType, Bytes
  <2>2. \A k \in 1..n : wire[k] \in Bytes
    BY <2>1, ElementOfSeq
  <2> HIDE DEF byte
  <2> QED
    BY <2>1, <2>2, AppendProperties
<1>3. /\ written'[c] = IF written[c] + 1 = DataSize THEN 0 ELSE written[c] + 1
      /\ writer'[c] = IF written[c] + 1 = DataSize THEN "next" ELSE "write"
      /\ image'[c] = IF written[c] + 1 = DataSize THEN NoImage ELSE image[c]
      /\ \A d \in Connections : d # c => /\ written'[d] = written[d] /\ writer'[d] = writer[d]
                                         /\ image'[d] = image[d]
  BY <1>1 DEF WriteByte, StreamType
<1>4. Writers' = Writers
  BY <1>1, <1>3 DEF Writers
<1>5. StreamType'
  <2>1. /\ writer' \in [Connections -> {"none", "nobody", "born", "next", "write"}]
        /\ image' \in [Connections -> Images \cup {NoImage}]
    BY DEF WriteByte, StreamType
  <2>2. written' \in [Connections -> 0..(DataSize - 1)]
    <3>1. 0 \in 0..(DataSize - 1)
      BY Sizes
    <3>2. written[c] + 1 # DataSize => written[c] + 1 \in 0..(DataSize - 1)
      BY <1>1, Sizes
    <3> QED
      BY <3>1, <3>2 DEF WriteByte, StreamType
  <2>3. \A d \in Connections : writer'[d] # "write" \/ writerFd'[d] # Own => written'[d] = 0
    BY <1>1, <1>3 DEF StreamType, Writers
  <2>4. ASSUME NEW d \in Writers', writer'[d] = "write"
        PROVE  image'[d] \in Images
    <3>1. d \in Writers /\ d \in Connections
      BY <1>4 DEF Writers
    <3>2. d = c => image'[d] = image[c]
      BY <1>3, <2>4
    <3>3. d # c => image'[d] = image[d] /\ writer[d] = "write"
      BY <1>3, <2>4, <3>1
    <3> QED
      BY <1>1, <3>1, <3>2, <3>3 DEF StreamType
  <2> QED
    BY <1>1, <1>2, <1>4, <2>1, <2>2, <2>3, <2>4 DEF StreamType, frameVars
<1>6. ~shared => OneWriter'
  BY <1>4 DEF OneWriter
<1>7. ASSUME ~shared, reader \notin Lost
      PROVE  Aligned'
  <2>1. Aligned /\ Writers = {c}
    BY <1>1, <1>7 DEF OneWriter
  <2>2. wire # <<>> => LastByte = wire[n] /\ n \in 1..n /\ LastByte[2] \in 1..DataSize
    BY <1>2, EmptySeq DEF LastByte, Bytes
  <2>3. wire = <<>> => LastByte = <<part, At>> /\ At \in Nat /\ n = 0
    BY Sizes DEF LastByte, At, StreamType
  <2>4. IF LastByte[2] \in {0, DataSize} THEN byte[2] = 1
        ELSE byte = <<LastByte[1], LastByte[2] + 1>>
    BY <1>1, <2>1 DEF Aligned, TailFits
  <2>5. BytesFollow'
    <3>1. wire # <<>> => IF wire[n][2] = DataSize THEN byte[2] = 1
                         ELSE byte = <<wire[n][1], wire[n][2] + 1>>
      BY <2>2, <2>4, Sizes
    <3> HIDE DEF byte
    <3> QED
      BY <1>2, <2>1, <3>1, AppendFollows DEF Aligned, BytesFollow
  <2>6. HeadFits'
    <3>1. At' = At /\ part' = part /\ At \in Nat
      BY Sizes DEF At, frameVars, StreamType
    <3>2. ASSUME At \in {0, DataSize}
          PROVE  wire'[1][2] = 1
      <4>1. CASE wire = <<>>
        BY <1>2, <2>3, <2>4, <3>2, <4>1
      <4>2. CASE wire # <<>>
        BY <1>2, <2>1, <2>2, <3>2, <4>2 DEF Aligned, HeadFits
      <4> QED
        BY <4>1, <4>2
    <3>3. ASSUME At # 0, NEW k \in 1..(n + 1), At + k <= DataSize
          PROVE  wire'[k] = <<part, At + k>>
      <4>1. CASE k \in 1..n
        BY <1>2, <2>1, <3>3, <4>1 DEF Aligned, HeadFits
      <4>2. CASE k = n + 1 /\ wire = <<>>
        <5>1. k = 1 /\ At \notin {0, DataSize}
          BY <2>3, <3>3, <4>2
        <5> QED
          BY <1>2, <2>3, <2>4, <4>2, <5>1
      <4>3. CASE k = n + 1 /\ wire # <<>>
        <5>1. n \in 1..n /\ At + n <= DataSize /\ At + n < DataSize
          BY <1>2, <2>2, <3>1, <3>3, <4>3, Sizes
        <5>2. wire[n] = <<part, At + n>>
          BY <2>1, <3>3, <5>1 DEF Aligned, HeadFits
        <5>3. LastByte = <<part, At + n>> /\ LastByte[2] \notin {0, DataSize}
          BY <2>2, <3>1, <4>3, <5>1, <5>2, Sizes
        <5>4. byte = <<part, (At + n) + 1>>
          BY <2>4, <5>3
        <5>5. At + k = (At + n) + 1
          BY <1>2, <3>1, <4>3
        <5> QED
          BY <1>2, <4>3, <5>4, <5>5
      <4> QED
        BY <1>2, <4>1, <4>2, <4>3
    <3> HIDE DEF byte, n
    <3> QED
      BY <1>2, <3>1, <3>2, <3>3 DEF HeadFits
  <2>7. TailFits'
    <3>1. LastByte' = byte
      BY <1>2 DEF LastByte
    <3>2. Writers' = {c} /\ byte[2] = written[c] + 1 /\ byte[2] # 0
      BY <1>1, <1>4, <2>1
    <3>3. CASE byte[2] = DataSize
      BY <1>3, <3>1, <3>2, <3>3 DEF TailFits
    <3>4. CASE byte[2] # DataSize
      <4>1. writer'[c] = "write" /\ <<image'[c], written'[c]>> = byte
        BY <1>3, <3>2, <3>4
      <4> HIDE DEF byte
      <4> QED
        BY <3>1, <3>2, <3>4, <4>1 DEF TailFits
    <3> QED
      BY <3>3, <3>4
  <2>8. Position'
    BY <2>1 DEF Aligned, Position, At, frameVars
  <2> QED
    BY <2>5, <2>6, <2>7, <2>8 DEF Aligned
<1> QED
  BY <1>1, <1>5, <1>6, <1>7 DEF frameVars

-----------------------------------------------------------------------------
(* The collector.                                                          *)

\* A step that reads nothing: the frame stays what it is, or a whole one is stored.
LEMMA ReaderMoves ==
  ASSUME StreamInv, UNCHANGED <<generator, writerVars, wire>>,
         received' \in Nat, remaining' \in Nat, headerOk' \in BOOLEAN,
         ~shared /\ reader' \notin Lost => reader \notin Lost,
         Aligned /\ reader' \notin Lost =>
            /\ Position'
            /\ (At' = At /\ part' = part) \/ (At = DataSize /\ At' = 0),
         reader' = "overrun" => reader = "overrun" /\ split' = split
  PROVE  StreamInv'
<1> USE DEF StreamInv, writerVars
<1>1. StreamType' /\ (OneWriter' <=> OneWriter) /\ shared' = shared
  BY DEF StreamType, Writers, OneWriter
<1>2. ASSUME ~shared, reader' \notin Lost
      PROVE  Aligned'
  <2>1. /\ Aligned /\ Position' /\ DataSize # 0
        /\ (At' = At /\ part' = part) \/ (At = DataSize /\ At' = 0)
    BY <1>2, Sizes
  <2>2. BytesFollow'
    BY <2>1 DEF Aligned, BytesFollow, Follow
  <2>3. HeadFits'
    BY <2>1 DEF Aligned, HeadFits
  <2>4. LastByte' = LastByte \/ (LastByte[2] \in {0, DataSize} /\ LastByte'[2] \in {0, DataSize})
    BY <2>1 DEF LastByte
  <2>5. TailFits'
    BY <2>1, <2>4 DEF Aligned, TailFits, Writers
  <2> QED
    BY <2>1, <2>2, <2>3, <2>5 DEF Aligned
<1> QED
  BY <1>1, <1>2 DEF Lost

\* A step that leaves the frame alone, and in which the collector stays among the
\* places where it has a whole frame or among those where it has not.
LEMMA ReaderWalks ==
  ASSUME StreamInv, UNCHANGED <<generator, writerVars, wire, frameVars>>,
         \/ reader' \in Lost \ {"overrun"}
         \/ reader \in Before /\ reader' \in Before \cup {"loop"}
         \/ reader \in {"loop", "read"} /\ reader' \in {"loop", "read"}
         \/ reader \in Complete /\ reader' \in Complete
         \/ reader' = reader
  PROVE  StreamInv'
<1>1. received' \in Nat /\ remaining' \in Nat /\ headerOk' \in BOOLEAN
  BY DEF StreamInv, StreamType, frameVars
<1>2. reader' \notin Lost => reader \notin Lost
  BY DEF Lost, Before, Complete
<1>3. reader' = "overrun" => reader = "overrun"
  BY DEF Lost, Before, Complete
<1>4. At' = At /\ part' = part /\ split' = split
  BY DEF At, frameVars
<1>5. Position /\ reader' \notin Lost => Position'
  BY <1>4 DEF Position, Complete, Before, Lost, frameVars
<1> QED
  BY <1>1, <1>2, <1>3, <1>4, <1>5, ReaderMoves DEF Aligned

LEMMA AroundStream ==
  ASSUME StreamInv, Connect \/ Giver \/ Owner \/ (\E c \in Others : Peer(c))
  PROVE  StreamInv'
<1>1. CASE Connect
  BY <1>1, ReaderWalks DEF Connect, Before
<1>2. CASE Giver \/ Owner \/ (\E c \in Others : Peer(c))
  <2>1. UNCHANGED <<generator, writerVars, wire, frameVars, reader>>
    BY <1>2 DEF Giver, Owner, Peer, collectorVars
  <2> QED
    BY <2>1, ReaderWalks
<1> QED
  BY <1>1, <1>2

LEMMA WalkStream ==
  ASSUME StreamInv, UNCHANGED <<generator, writerVars>>,
         WaitObject \/ ReadNothing \/ ReadFails \/ Detect \/ TestExit
  PROVE  StreamInv'
<1>1. UNCHANGED <<wire, frameVars>>
  BY DEF WaitObject, ReadNothing, ReadFails, Detect, TestExit
<1>2. \/ reader' \in Lost \ {"overrun"}
      \/ reader \in Before /\ reader' \in Before \cup {"loop"}
      \/ reader \in {"loop", "read"} /\ reader' \in {"loop", "read"}
      \/ reader \in Complete /\ reader' \in Complete
  BY DEF WaitObject, ReadNothing, ReadFails, Detect, TestExit, FrameWithObject, FrameBetween,
         FrameEmpty, ObjectBreak, Lost, Before, Complete
<1> QED
  BY <1>1, <1>2, ReaderWalks

\* The collector that has not read the last byte of its frame waits for more.
LEMMA SomethingRemains ==
  ASSUME Position, reader \in {"loop", "read"}, StreamType
  PROVE  remaining > 0 /\ At \in 0..(DataSize - 1)
<1>1. reader \notin Complete
  BY DEF Complete
<1>2. CASE headerOk
  BY <1>1, <1>2, Sizes DEF Position, At, StreamType
<1>3. CASE ~headerOk
  BY <1>3, Sizes DEF Position, At, StreamType
<1> QED
  BY <1>2, <1>3

LEMMA LoopStream ==
  ASSUME StreamInv, UNCHANGED <<generator, writerVars>>, TestLoop
  PROVE  StreamInv'
<1>1. CASE UNCHANGED remaining
  BY <1>1, ReaderWalks DEF TestLoop, Lost, frameVars
<1>2. CASE remaining = 0 /\ remaining' = HeaderSize /\ reader' = reader
  <2>1. ~Aligned
    BY <1>2, SomethingRemains DEF TestLoop, Aligned, StreamInv
  <2>2. remaining' \in Nat /\ received' \in Nat /\ headerOk' \in BOOLEAN
    BY <1>2, Sizes DEF TestLoop, StreamInv, StreamType
  <2> QED
    BY <1>2, <2>1, <2>2, ReaderMoves DEF TestLoop
<1> QED
  BY <1>1, <1>2 DEF TestLoop

LEMMA FrameEndsStream ==
  ASSUME StreamInv, UNCHANGED <<generator, writerVars>>, StoreFrame \/ EndReader
  PROVE  StreamInv'
<1>1. /\ received' = 0 /\ remaining' = HeaderSize /\ headerOk' = FALSE
      /\ part' = NoImage /\ split' = FALSE /\ UNCHANGED wire
      /\ (reader = "store" /\ reader' = "loop") \/ reader' = "done"
  BY DEF StoreFrame, EndReader
<1>2. received' \in Nat /\ remaining' \in Nat /\ headerOk' \in BOOLEAN
  BY <1>1, Sizes
<1>3. reader = "store" /\ Position => At = DataSize
  BY Sizes DEF Position, Complete, At, DataSize
<1>4. At' = 0
  BY <1>1 DEF At
<1>5. reader' = "loop" => Position'
  BY <1>1, <1>4, Sizes DEF Position, Complete, Before
<1> QED
  BY <1>1, <1>2, <1>3, <1>4, <1>5, ReaderMoves DEF Aligned, Lost

\* The subtraction of two sizes, the first of them not the smaller.
LEMMA SizeLess ==
  ASSUME NEW m \in 0..(SizeMod - 1), NEW n \in 0..m
  PROVE  (m + SizeMod - n) % SizeMod = m - n
<1>1. SizeMod \in Nat /\ SizeMod > 0 /\ m - n \in 0..(SizeMod - 1)
  BY Sizes
<1>2. ASSUME NEW M \in Nat \ {0}, NEW k \in 0..(M - 1)
      PROVE  (k + M) % M = k
  BY <1>2
<1>3. m + SizeMod - n = (m - n) + SizeMod
  BY <1>1
<1>4. SizeMod \in Nat \ {0}
  BY <1>1
<1> QED
  BY <1>1, <1>2, <1>3, <1>4

\* What the collector reads next is the rest of one image: of the one it reads, or of
\* the next one.
LEMMA OneImageNext ==
  ASSUME StreamType, BytesFollow, HeadFits, Position, reader = "read", wire # <<>>
  PROVE  LET first == IF At = 0 THEN wire[1][1] ELSE part
         IN  /\ first \in Images
             /\ \A k \in 1..Len(wire) : At + k <= DataSize => wire[k] = <<first, At + k>>
<1> DEFINE first == IF At = 0 THEN wire[1][1] ELSE part
<1>1. wire \in Seq(Bytes) /\ Len(wire) \in Nat /\ 1 \in 1..Len(wire)
  BY EmptySeq DEF StreamType
<1>2. wire[1] \in Images \X (1..DataSize)
  BY <1>1, ElementOfSeq DEF Bytes
<1>3. CASE At = 0
  <2>1. wire[1][2] = 1 /\ wire[1] = <<first, 1>>
    BY <1>2, <1>3 DEF HeadFits
  <2>2. ASSUME NEW k \in 1..Len(wire), At + k <= DataSize
        PROVE  wire[k] = <<first, At + k>>
    <3>1. CASE k = 1
      BY <1>3, <2>1, <3>1
    <3>2. CASE k # 1
      <4>1. 1 < k /\ 1 + (k - 1) <= DataSize /\ 1 + (k - 1) = At + k
        BY <1>3, <2>2, <3>2
      <4>2. wire[k] = <<wire[1][1], 1 + (k - 1)>>
        BY <1>1, <2>1, <4>1 DEF BytesFollow, Follow
      <4> QED
        BY <1>3, <4>1, <4>2
    <3> QED
      BY <3>1, <3>2
  <2> QED
    BY <1>2, <1>3, <2>2
<1>4. CASE At # 0
  BY <1>4 DEF HeadFits, Position
<1> QED
  BY <1>3, <1>4

\* A read that does not go beyond the frame: what it leaves on the wire fits behind it.
LEMMA ReadFits ==
  ASSUME StreamType, Aligned, reader = "read", wire # <<>>,
         NEW n \in 1..Len(wire), At + n <= DataSize,
         wire' = SubSeq(wire, n + 1, Len(wire)),
         part' = Belongs(part, SubSeq(wire, 1, n), At),
         At' = At + n, UNCHANGED <<generator, writerVars>>
  PROVE  part' \in Images /\ BytesFollow' /\ HeadFits' /\ TailFits'
<1> DEFINE first == IF At = 0 THEN wire[1][1] ELSE part
<1>1. /\ wire \in Seq(Bytes) /\ Len(wire) \in Nat /\ At \in Nat
      /\ first \in Images
      /\ \A k \in 1..Len(wire) : At + k <= DataSize => wire[k] = <<first, At + k>>
  BY OneImageNext, Sizes DEF StreamType, Aligned, At
<1>2. part' = first
  <2> DEFINE bytes == SubSeq(wire, 1, n)
             f == IF part = NoImage THEN bytes[1][1] ELSE part
  <2>1. Len(bytes) = n /\ \A k \in 1..n : bytes[k] = wire[k]
    <3>1. /\ n \in 1..Len(wire) /\ 1 \in 1..(Len(wire) + 1)
          /\ \A k \in 1..n : wire[k] \in Bytes
      BY <1>1, ElementOfSeq
    <3> QED
      BY <1>1, <3>1, SubSeqProperties
  <2>2. DOMAIN bytes = 1..n
    BY <1>1, <2>1, SubSeqProperties
  <2>3. f = first
    BY <1>1, <2>1, Sizes DEF Aligned, Position
  <2>4. \A k \in DOMAIN bytes : bytes[k] = <<f, At + k>>
    <3>1. \A k \in 1..n : k \in 1..Len(wire) /\ At + k <= DataSize
      BY <1>1, Sizes
    <3> HIDE DEF bytes, f, first
    <3> QED
      BY <1>1, <2>1, <2>2, <2>3, <3>1
  <2> HIDE DEF bytes
  <2>5. Belongs(part, bytes, At) = f
    BY <2>4 DEF Belongs
  <2> QED
    BY <2>3, <2>5 DEF bytes
<1> HIDE DEF first
<1>3. /\ wire' \in Seq(Bytes) /\ Len(wire') = Len(wire) - n
      /\ \A k \in 1..Len(wire') : wire'[k] = wire[k + n]
      /\ BytesFollow'
  BY <1>1, DropFollows DEF Aligned, BytesFollow
<1>4. wire[n] = <<first, At + n>>
  BY <1>1
<1>5. HeadFits'
  <2>1. ASSUME At + n = DataSize, wire' # <<>>
        PROVE  wire'[1][2] = 1
    <3>1. n < Len(wire) /\ 1 \in 1..Len(wire')
      BY <1>1, <1>3, <2>1, EmptySeq
    <3>2. wire[n + 1][2] = 1
      BY <1>1, <1>4, <2>1, <3>1 DEF Aligned, BytesFollow, Follow
    <3> QED
      BY <1>3, <3>1, <3>2
  <2>2. ASSUME NEW k \in 1..Len(wire'), At' + k <= DataSize
        PROVE  wire'[k] = <<part', At' + k>>
    <3>1. k + n \in 1..Len(wire) /\ At + (k + n) = At' + k
      BY <1>1, <1>3, <2>2
    <3> QED
      BY <1>1, <1>2, <1>3, <2>2, <3>1
  <2>3. At' # 0
    BY <1>1
  <2> QED
    BY <2>1, <2>2, <2>3 DEF HeadFits
<1>6. LastByte' = LastByte
  <2>1. CASE wire' = <<>>
    <3>1. n = Len(wire)
      <4>1. Len(wire') = 0
        BY <1>3, <2>1, EmptySeq
      <4> QED
        BY <1>1, <1>3, <4>1
    <3> QED
      BY <1>2, <1>4, <2>1, <3>1 DEF LastByte
  <2>2. CASE wire' # <<>>
    <3>1. Len(wire') \in 1..Len(wire') /\ Len(wire') + n = Len(wire)
      BY <1>1, <1>3, <2>2, EmptySeq
    <3> QED
      BY <1>3, <2>2, <3>1 DEF LastByte
  <2> QED
    BY <2>1, <2>2
<1>7. TailFits'
  BY <1>6 DEF Aligned, TailFits, Writers, writerVars
<1> QED
  BY <1>1, <1>2, <1>3, <1>5, <1>7

\* The numbers stay numbers whatever is read.
LEMMA ReadType ==
  ASSUME StreamInv, UNCHANGED <<generator, writerVars>>, ReadBytes
  PROVE  StreamType' /\ OneWriter' = OneWriter /\ shared' = shared
<1> DEFINE n == Least(remaining, Len(wire))
<1>1. /\ wire \in Seq(Bytes) /\ Len(wire) \in Nat /\ received \in Nat /\ remaining \in Nat
      /\ headerOk \in BOOLEAN /\ SizeMod \in Nat \ {0} /\ DataSize \in Nat
  BY Sizes DEF StreamInv, StreamType
<1>2. n \in 0..Len(wire) /\ n <= remaining
  BY <1>1 DEF Least
<1> HIDE DEF n
<1>3. wire' \in Seq(Bytes)
  <2>1. \A k \in (n + 1)..Len(wire) : wire[k] \in Bytes
    BY <1>1, <1>2, ElementOfSeq
  <2>2. wire' = SubSeq(wire, n + 1, Len(wire))
    BY DEF ReadBytes, n
  <2> QED
    BY <1>1, <1>2, <2>1, <2>2, SubSeqProperties
<1>4. \A m \in Int : m % SizeMod \in Nat
  BY <1>1
<1>5. received' \in Nat /\ remaining' \in Nat /\ headerOk' \in BOOLEAN
  <2>1. CASE RawGoesOn(n) /\ headerOk
    <3>1. (remaining + SizeMod - n) % SizeMod \in Nat
      BY <1>1, <1>2, <1>4
    <3> QED
      BY <1>1, <1>2, <2>1, <3>1 DEF RawGoesOn
  <2>2. CASE HeaderGoesOn(n) /\ ~headerOk
    BY <1>1, <1>2, <2>2 DEF HeaderGoesOn
  <2>3. CASE HeaderEnds(n)
    <3>1. \A size \in Announced(part') : (size + SizeMod - n) % SizeMod \in Nat
      <4>1. ASSUME NEW size \in Announced(part')
            PROVE  size + SizeMod - n \in Int
        BY <1>1, <1>2 DEF Announced
      <4> QED
        BY <1>4, <4>1
    <3> QED
      BY <2>3, <3>1 DEF HeaderEnds
  <2> QED
    BY <2>1, <2>2, <2>3 DEF ReadBytes, n
<1> QED
  BY <1>3, <1>5 DEF StreamInv, StreamType, OneWriter, Writers, writerVars

LEMMA ReadStream ==
  ASSUME StreamInv, UNCHANGED <<generator, writerVars>>, ReadBytes
  PROVE  StreamInv'
<1> DEFINE n == Least(remaining, Len(wire))
<1>1. StreamType' /\ OneWriter' = OneWriter /\ shared' = shared
  BY ReadType
<1>2. SUFFICES ASSUME ~shared
               PROVE  /\ reader' \notin Lost => Aligned'
                      /\ reader' = "overrun" => split'
  BY <1>1, <1>2 DEF StreamInv
<1>3. Aligned /\ StreamType /\ reader = "read" /\ wire # <<>> /\ reader \notin Complete
  BY <1>2 DEF StreamInv, ReadBytes, Lost, Complete
<1>4. /\ Len(wire) \in Nat \ {0} /\ received \in Nat /\ remaining \in Nat \ {0}
      /\ At \in 0..(DataSize - 1) /\ headerOk \in BOOLEAN
  BY <1>3, SomethingRemains, EmptySeq DEF Aligned, StreamType
<1>5. n \in 1..Len(wire) /\ n <= remaining
  BY <1>4 DEF Least
<1>6. /\ wire' = SubSeq(wire, n + 1, Len(wire))
      /\ part' = Belongs(part, SubSeq(wire, 1, n), At)
      /\ \/ headerOk /\ RawGoesOn(n)
         \/ ~headerOk /\ received + n < HeaderSize /\ HeaderGoesOn(n)
         \/ ~headerOk /\ received + n = HeaderSize /\ HeaderEnds(n)
  BY DEF ReadBytes, At
<1> HIDE DEF n
<1>7. ASSUME At' = At + n, At + n <= DataSize
      PROVE  part' \in Images /\ BytesFollow' /\ HeadFits' /\ TailFits'
  BY <1>3, <1>5, <1>6, <1>7, ReadFits
<1>8. CASE ~headerOk /\ received + n < HeaderSize /\ HeaderGoesOn(n)
  <2>1. At' = At + n /\ At' <= DataSize /\ At' > 0
    BY <1>4, <1>5, <1>8, Sizes DEF HeaderGoesOn, At
  <2>2. part' \in Images /\ BytesFollow' /\ HeadFits' /\ TailFits'
    BY <1>7, <2>1
  <2>3. Position'
    BY <1>3, <1>4, <1>5, <1>8, <2>1, <2>2, Sizes
       DEF HeaderGoesOn, Position, Aligned, Complete, Before
  <2> QED
    BY <1>8, <2>2, <2>3 DEF Aligned, HeaderGoesOn
<1>9. CASE ~headerOk /\ received + n = HeaderSize /\ HeaderEnds(n)
  <2>1. At' = At + n /\ At' = HeaderSize
    BY <1>4, <1>5, <1>9, Sizes DEF HeaderEnds, At
  <2>2. part' \in Images /\ BytesFollow' /\ HeadFits' /\ TailFits'
    BY <1>7, <2>1, Sizes
  <2>3. remaining' = DataSize - n
    <3>1. Announced(part') = {DataSize}
      BY <2>2 DEF Announced, Images, Torn
    <3>2. DataSize \in 0..(SizeMod - 1) /\ n \in 0..DataSize
      BY <1>4, <1>5, <1>9, Sizes
    <3> QED
      BY <1>9, <3>1, <3>2, SizeLess DEF HeaderEnds
  <2>4. ~split => n = HeaderSize
    BY <1>3, <1>4, <1>5, <1>9, Sizes DEF Aligned, Position
  <2>5. Position'
    BY <1>4, <1>5, <1>9, <2>1, <2>2, <2>3, <2>4, Sizes
       DEF HeaderEnds, Position, Complete, Before
  <2> QED
    BY <1>9, <2>2, <2>5 DEF Aligned, HeaderEnds
<1>10. CASE headerOk /\ RawGoesOn(n)
  <2>1. /\ At' = At + n /\ received' = received + n /\ headerOk' /\ split' = split
        /\ At = received + HeaderSize
    BY <1>4, <1>5, <1>10, Sizes DEF RawGoesOn, At
  <2>2. /\ remaining \in (RawSize - received)..(SizeMod - 1)
        /\ ~split => remaining = RawSize - received
    BY <1>3, <1>10 DEF Aligned, Position
  <2>3. CASE reader' = "overrun"
    <3>1. received' > RawSize
      BY <1>10, <2>3 DEF RawGoesOn
    <3> QED
      BY <1>4, <1>5, <2>1, <2>2, <2>3, <3>1, Sizes DEF Lost
  <2>4. CASE reader' = "detect" /\ received' = RawSize
    <3>1. At + n <= DataSize /\ At' # 0
      BY <1>4, <1>5, <2>1, <2>4, Sizes
    <3>2. part' \in Images /\ BytesFollow' /\ HeadFits' /\ TailFits'
      BY <1>7, <2>1, <3>1
    <3>3. Position'
      BY <2>1, <2>4, <3>1, <3>2 DEF Position, Complete, Before
    <3> QED
      BY <2>4, <3>2, <3>3 DEF Aligned
  <2>5. CASE reader' = "loop" /\ received' < RawSize
    <3>1. At + n <= DataSize /\ At' # 0
      BY <1>4, <1>5, <2>1, <2>5, Sizes
    <3>2. part' \in Images /\ BytesFollow' /\ HeadFits' /\ TailFits'
      BY <1>7, <2>1, <3>1
    <3>3. remaining' = remaining - n
      <4>1. remaining' = (remaining + SizeMod - n) % SizeMod
        BY <1>10, <2>5 DEF RawGoesOn
      <4>2. remaining \in 0..(SizeMod - 1) /\ n \in 0..remaining
        BY <1>4, <1>5, <2>2, Sizes
      <4> QED
        BY <4>1, <4>2, SizeLess
    <3>4. Position'
      BY <1>4, <1>5, <2>1, <2>2, <2>5, <3>1, <3>2, <3>3, Sizes
         DEF Position, Complete, Before
    <3> QED
      BY <2>5, <3>2, <3>4 DEF Aligned
  <2> QED
    BY <1>10, <2>3, <2>4, <2>5 DEF RawGoesOn
<1> QED
  BY <1>6, <1>8, <1>9, <1>10

LEMMA NextStream ==
  ASSUME StreamInv, [Next]_vars
  PROVE  StreamInv'
<1>1. CASE Listener
  BY <1>1, ListenerStream
<1>2. ASSUME NEW c \in Connections, Writer(c)
      PROVE  StreamInv'
  <2>1. generator = "up" /\ UNCHANGED <<reader, frameVars>>
    BY <1>2 DEF Writer, collectorVars
  <2>2. CASE WriteByte(c)
    BY <1>2, <2>1, <2>2, WriteByteStream
  <2>3. CASE BeginWriter(c)
    BY <1>2, <2>1, <2>3, BeginWriterStream DEF BeginWriter, readerVars
  <2>4. CASE NextImage(c) \/ ImageBeforeFirst(c) \/ WriteAway(c) \/ WriteToClosed(c)
    <3>1. UNCHANGED readerVars
      BY <2>1, <2>4 DEF NextImage, ImageBeforeFirst, WriteAway, WriteToClosed, readerVars
    <3> QED
      BY <2>1, <2>4, <3>1, NextImageStream
  <2> QED
    BY <1>2, <2>2, <2>3, <2>4 DEF Writer
<1>3. CASE Reader
  <2>1. UNCHANGED <<generator, writerVars>>
    BY <1>3 DEF Reader, Collect
  <2> QED
    BY <1>3, <2>1, WalkStream, LoopStream, ReadStream, FrameEndsStream DEF Reader, Collect
<1>4. CASE Connect \/ Giver \/ Owner \/ (\E c \in Others : Peer(c))
  BY <1>4, AroundStream
<1>5. CASE UNCHANGED vars
  BY <1>5, ReaderWalks DEF vars, collectorVars
<1> QED
  BY <1>1, <1>2, <1>3, <1>4, <1>5 DEF Next

\* Whatever the pieces in which read returns the stream, a frame that is stored is one
\* image of the generator, complete and in its place, and no read goes beyond the
\* buffer of the image but after a header that took two reads; as long as no two
\* threads of the generator write to the connection (cvcollector.cpp:94-147).
THEOREM FramesStayWhole == Spec => []FramesAreWhole
<1>1. StreamInv => FramesAreWhole
  <2> SUFFICES ASSUME StreamInv, ~shared
               PROVE  FramesAreWhole
    BY DEF FramesAreWhole
  <2>1. ASSUME reader \in Complete
        PROVE  part \in Images
    <3>1. Position /\ received = RawSize /\ headerOk
      BY <2>1 DEF StreamInv, Aligned, Position, Complete, Lost
    <3>2. At # 0
      BY <3>1, Sizes DEF At
    <3> QED
      BY <3>1, <3>2 DEF Position
  <2>2. reader = "overrun" => split
    BY DEF StreamInv
  <2> QED
    BY <2>1, <2>2 DEF FramesAreWhole, Complete
<1> QED
  BY <1>1, InitStream, NextStream, PTL DEF Spec

-----------------------------------------------------------------------------
(* The text commands.  Messenger too cuts a stream back into what was      *)
(* written to it: what its server executes on a connection is a line the   *)
(* client wrote there.  The pieces in the buffer of a connection and those *)
(* on their way to it are, in this order, the lines written: the '\n' of   *)
(* the first ones, as many as messages were executed, is a '\0', and the   *)
(* others are still there.                                                 *)

CONSTANTS MaxLines, Lines, BufferRoom, MayLeaveEarly
VARIABLES user, typed, msg, conn, event, cliExit, cliSignal, cliConn, pieces, listen, batch,
          reading, serverMain, srvExit, srvSignal, srvConn, buffer

Msg == INSTANCE Messenger WITH wire <- pieces, owner <- serverMain, Room <- BufferRoom

\* The lines a message can be about: the message of the start holds none of Lines.
Texts == Lines \cup {[words |-> {}, host |-> "none"]}
Pieces == [line : Texts, part : {"text", "newline", "nul"}]

\* The p-th piece of what is in the buffer and what is to come.
Nth(here, coming, p) == IF p <= Len(here) THEN here[p] ELSE coming[p - Len(here)]

\* What one connection holds, tells of the lines written to it and those executed.
Told(here, coming, lines, done) ==
    /\ Len(here) + Len(coming) = 2 * Len(lines)
    /\ 2 * Len(done) <= Len(here)
    /\ \A k \in 1..Len(lines) :
          /\ Nth(here, coming, 2 * k - 1) = [line |-> lines[k], part |-> "text"]
          /\ Nth(here, coming, 2 * k) = [line |-> lines[k],
                                         part |-> IF k <= Len(done) THEN "nul" ELSE "newline"]
    /\ \A k \in 1..Len(done) : done[k].line = lines[1]

\* The places of a line behind m others, of which i pieces are here and j to come.
LEMMA NextPlaces ==
  ASSUME NEW i \in Nat, NEW j \in Nat, NEW m \in Nat, i + j = 2 * m
  PROVE  /\ ~(2 * (m + 1) - 1 <= i) /\ (2 * (m + 1) - 1) - i = j + 1
         /\ ~(2 * (m + 1) <= i) /\ 2 * (m + 1) - i = j + 2
  OBVIOUS

\* A line is written at the end of the stream.
LEMMA ToldOfWrite ==
  ASSUME NEW b \in Seq(Pieces), NEW w \in Seq(Pieces), NEW s \in Seq(Texts), NEW A, NEW e \in Seq(A),
         NEW l \in Texts, Told(b, w, s, e)
  PROVE  LET line == <<[line |-> l, part |-> "text"], [line |-> l, part |-> "newline"]>>
         IN  w \o line \in Seq(Pieces) /\ Told(b, w \o line, Append(s, l), e)
<1> DEFINE line == <<[line |-> l, part |-> "text"], [line |-> l, part |-> "newline"]>>
           w2 == w \o line
           s2 == Append(s, l)
<1>1. line \in Seq(Pieces) /\ Len(line) = 2
      /\ line[1] = [line |-> l, part |-> "text"] /\ line[2] = [line |-> l, part |-> "newline"]
  BY DEF Pieces
<1> HIDE DEF line
<1>2. /\ w2 \in Seq(Pieces) /\ Len(w2) = Len(w) + 2
      /\ \A p \in 1..Len(w) : w2[p] = w[p]
      /\ w2[Len(w) + 1] = line[1] /\ w2[Len(w) + 2] = line[2]
  <2>1. /\ w2 \in Seq(Pieces) /\ Len(w2) = Len(w) + Len(line)
        /\ \A i \in 1..(Len(w) + Len(line)) : w2[i] = IF i <= Len(w) THEN w[i] ELSE line[i - Len(w)]
    BY <1>1, ConcatProperties
  <2> HIDE DEF w2
  <2>2. Len(w) \in Nat /\ Len(line) = 2
    BY <1>1, LenProperties
  <2>3. w2[Len(w) + 1] = line[1] /\ w2[Len(w) + 2] = line[2]
    <3>1. Len(w) + 1 \in 1..(Len(w) + Len(line)) /\ Len(w) + 2 \in 1..(Len(w) + Len(line))
      BY <2>2
    <3>2. /\ ~(Len(w) + 1 <= Len(w)) /\ (Len(w) + 1) - Len(w) = 1
          /\ ~(Len(w) + 2 <= Len(w)) /\ (Len(w) + 2) - Len(w) = 2
      BY <2>2
    <3> QED
      BY <2>1, <3>1, <3>2, Zenon
  <2>4. \A p \in 1..Len(w) : w2[p] = w[p]
    BY <2>1, <2>2
  <2> QED
    BY <1>1, <2>1, <2>3, <2>4
<1>3. /\ s2 \in Seq(Texts) /\ Len(s2) = Len(s) + 1 /\ s2[Len(s) + 1] = l
      /\ \A k \in 1..Len(s) : s2[k] = s[k]
  <2>1. /\ s2 \in Seq(Texts) /\ Len(s2) = Len(s) + 1
        /\ \A k \in 1..(Len(s) + 1) : s2[k] = IF k = Len(s) + 1 THEN l ELSE s[k]
    BY AppendProperties
  <2> HIDE DEF s2
  <2>2. Len(s) \in Nat
    BY LenProperties
  <2>3. Len(s) + 1 \in 1..(Len(s) + 1)
    BY <2>2
  <2>4. ASSUME NEW k \in 1..Len(s)
        PROVE  k \in 1..(Len(s) + 1) /\ k # Len(s) + 1
    BY <2>2
  <2> QED
    BY <2>1, <2>3, <2>4
<1>4. Len(b) \in Nat /\ Len(w) \in Nat /\ Len(s) \in Nat /\ Len(e) \in Nat
  BY LenProperties
<1> HIDE DEF w2, s2
<1>5. Len(b) + Len(w) = 2 * Len(s) /\ 2 * Len(e) <= Len(b)
  BY DEF Told
<1>6. ASSUME NEW k \in 1..Len(s2)
      PROVE  /\ Nth(b, w2, 2 * k - 1) = [line |-> s2[k], part |-> "text"]
             /\ Nth(b, w2, 2 * k) = [line |-> s2[k], part |-> IF k <= Len(e) THEN "nul" ELSE "newline"]
  <2>1. CASE k <= Len(s)
    <3>1. /\ Nth(b, w, 2 * k - 1) = [line |-> s[k], part |-> "text"]
          /\ Nth(b, w, 2 * k) = [line |-> s[k], part |-> IF k <= Len(e) THEN "nul" ELSE "newline"]
      <4>1. k \in 1..Len(s)
        BY <2>1, <1>3, <1>4
      <4> QED
        BY <4>1, Zenon DEF Told
    <3>2. ASSUME NEW p \in 1..(Len(b) + Len(w))
          PROVE  Nth(b, w2, p) = Nth(b, w, p)
      <4>1. CASE p <= Len(b)
        BY <4>1 DEF Nth
      <4>2. CASE ~(p <= Len(b))
        <5>1. p - Len(b) \in 1..Len(w)
          BY <4>2, <1>4
        <5> QED
          BY <1>2, <4>2, <5>1 DEF Nth
      <4> QED
        BY <4>1, <4>2
    <3>3. 2 * k - 1 \in 1..(Len(b) + Len(w)) /\ 2 * k \in 1..(Len(b) + Len(w))
      BY <2>1, <1>4, <1>5
    <3>4. s2[k] = s[k]
      BY <2>1, <1>3, <1>4
    <3>5. /\ Nth(b, w2, 2 * k - 1) = Nth(b, w, 2 * k - 1)
          /\ Nth(b, w2, 2 * k) = Nth(b, w, 2 * k)
      BY <3>2, <3>3, Zenon
    <3> QED
      BY <3>1, <3>4, <3>5, Zenon
  <2>2. CASE k = Len(s) + 1
    <3>1. Nth(b, w2, 2 * k - 1) = line[1] /\ Nth(b, w2, 2 * k) = line[2]
      <4>1. /\ ~(2 * k - 1 <= Len(b)) /\ (2 * k - 1) - Len(b) = Len(w) + 1
            /\ ~(2 * k <= Len(b)) /\ 2 * k - Len(b) = Len(w) + 2
        BY <2>2, <1>4, <1>5, NextPlaces
      <4> QED
        BY <1>2, <4>1 DEF Nth
    <3>2. ~(k <= Len(e))
      BY <2>2, <1>4, <1>5
    <3> QED
      BY <3>1, <3>2, <2>2, <1>1, <1>3
  <2> QED
    BY <2>1, <2>2, <1>3, <1>4
<1>7. \A k \in 1..Len(e) : e[k].line = s2[1]
  BY <1>3, <1>4, <1>5 DEF Told
<1>8. Told(b, w2, s2, e)
  BY <1>2, <1>3, <1>4, <1>5, <1>6, <1>7 DEF Told
<1> QED
  BY <1>2, <1>8 DEF w2, s2, line

\* A read moves pieces from the way into the buffer.
LEMMA ToldOfRead ==
  ASSUME NEW b \in Seq(Pieces), NEW w \in Seq(Pieces), NEW s, NEW A, NEW e \in Seq(A),
         Len(s) \in Nat, NEW n \in 1..Len(w), Told(b, w, s, e)
  PROVE  LET b2 == b \o SubSeq(w, 1, n)
             w2 == SubSeq(w, n + 1, Len(w))
         IN  b2 \in Seq(Pieces) /\ w2 \in Seq(Pieces) /\ Told(b2, w2, s, e)
<1> DEFINE x == SubSeq(w, 1, n)
           b2 == b \o x
           w2 == SubSeq(w, n + 1, Len(w))
<1>1. Len(b) \in Nat /\ Len(w) \in Nat /\ Len(e) \in Nat /\ n \in Nat /\ 1 <= n /\ n <= Len(w)
  BY LenProperties
<1>0. Len(b) + Len(w) = 2 * Len(s) /\ 2 * Len(e) <= Len(b)
  BY DEF Told
<1>2. x \in Seq(Pieces) /\ Len(x) = n /\ \A i \in 1..n : x[i] = w[i]
  BY <1>1, SubSeqProperties
<1>3. w2 \in Seq(Pieces) /\ Len(w2) = Len(w) - n /\ \A i \in 1..(Len(w) - n) : w2[i] = w[n + i]
  BY <1>1, SubSeqProperties
<1> HIDE DEF x
<1>4. /\ b2 \in Seq(Pieces) /\ Len(b2) = Len(b) + n
      /\ \A p \in 1..Len(b) : b2[p] = b[p]
      /\ \A p \in (Len(b) + 1)..(Len(b) + n) : b2[p] = x[p - Len(b)]
  <2>1. /\ b2 \in Seq(Pieces) /\ Len(b2) = Len(b) + Len(x)
        /\ \A i \in 1..(Len(b) + Len(x)) : b2[i] = IF i <= Len(b) THEN b[i] ELSE x[i - Len(b)]
    BY <1>2, ConcatProperties
  <2> HIDE DEF b2
  <2> QED
    BY <1>1, <1>2, <2>1
<1> HIDE DEF b2, w2
<1>5. \A p \in 1..(Len(b) + Len(w)) : Nth(b2, w2, p) = Nth(b, w, p)
  <2> SUFFICES ASSUME NEW p \in 1..(Len(b) + Len(w))
               PROVE  Nth(b2, w2, p) = Nth(b, w, p)
    OBVIOUS
  <2>1. CASE p <= Len(b)
    <3>1. p \in 1..Len(b) /\ p <= Len(b) + n
      BY <2>1, <1>1
    <3> QED
      BY <2>1, <3>1, <1>4 DEF Nth
  <2>2. CASE ~(p <= Len(b)) /\ p <= Len(b) + n
    <3>1. p \in (Len(b) + 1)..(Len(b) + n) /\ p - Len(b) \in 1..n
      BY <2>2, <1>1
    <3> QED
      BY <2>2, <3>1, <1>2, <1>4 DEF Nth
  <2>3. CASE ~(p <= Len(b)) /\ ~(p <= Len(b) + n)
    <3>1. p - (Len(b) + n) \in 1..(Len(w) - n) /\ n + (p - (Len(b) + n)) = p - Len(b)
      BY <2>3, <1>1
    <3> QED
      BY <2>3, <3>1, <1>3, <1>4 DEF Nth
  <2> QED
    BY <2>1, <2>2, <2>3
<1>6. \A k \in 1..Len(s) : 2 * k - 1 \in 1..(Len(b) + Len(w)) /\ 2 * k \in 1..(Len(b) + Len(w))
  BY <1>0, <1>1
<1>7. Len(b2) + Len(w2) = 2 * Len(s) /\ 2 * Len(e) <= Len(b2)
  <2>1. Len(b2) = Len(b) + n /\ Len(w2) = Len(w) - n
    BY <1>3, <1>4
  <2>2. Len(b2) + Len(w2) = Len(b) + Len(w) /\ Len(b) <= Len(b2) /\ Len(b2) \in Nat
    BY <2>1, <1>1
  <2> QED
    BY <2>2, <1>0, <1>1
<1>8. \A k \in 1..Len(s) : Nth(b2, w2, 2 * k - 1) = Nth(b, w, 2 * k - 1)
                           /\ Nth(b2, w2, 2 * k) = Nth(b, w, 2 * k)
  BY <1>5, <1>6
<1>9. Told(b2, w2, s, e)
  <2>1. ASSUME NEW k \in 1..Len(s)
        PROVE  /\ Nth(b2, w2, 2 * k - 1) = [line |-> s[k], part |-> "text"]
               /\ Nth(b2, w2, 2 * k) = [line |-> s[k],
                                        part |-> IF k <= Len(e) THEN "nul" ELSE "newline"]
    BY <1>8, <2>1 DEF Told
  <2>2. \A k \in 1..Len(e) : e[k].line = s[1]
    BY DEF Told
  <2> QED
    BY <1>7, <2>1, <2>2 DEF Told
<1> QED
  BY <1>3, <1>4, <1>9 DEF b2, w2, x

LEMMA Parity ==
  ASSUME NEW j \in Nat, 1 <= j
  PROVE  \E i \in Nat : 1 <= i /\ (j = 2 * i - 1 \/ j = 2 * i)
<1> DEFINE q == j \div 2
           r == j % 2
<1>1. q \in Nat /\ r \in 0..1 /\ j = 2 * q + r
  OBVIOUS
<1> HIDE DEF q, r
<1>2. CASE r = 0
  <2>1. 1 <= q /\ j = 2 * q
    BY <1>1, <1>2
  <2> QED
    BY <1>1, <2>1
<1>3. CASE r = 1
  <2>1. q + 1 \in Nat /\ 1 <= q + 1 /\ j = 2 * (q + 1) - 1
    BY <1>1, <1>3
  <2> QED
    BY <2>1
<1> QED
  BY <1>1, <1>2, <1>3

\* The first '\n' of the buffer becomes a '\0', and a message about the first line is
\* executed.
LEMMA ToldOfExtract ==
  ASSUME NEW b \in Seq(Pieces), NEW w \in Seq(Pieces), NEW s \in Seq(Texts), NEW A, NEW e \in Seq(A),
         NEW m \in A, Told(b, w, s, e),
         NEW k \in DOMAIN b, b[k].part = "newline", m.line = b[1].line
  PROVE  LET first == 2 * Len(e) + 2
             b2 == [b EXCEPT ![first].part = "nul"]
         IN  /\ first \in DOMAIN b /\ b[first].part = "newline"
             /\ \A j \in DOMAIN b : b[j].part = "newline" => first <= j
             /\ b2 \in Seq(Pieces) /\ Told(b2, w, s, Append(e, m))
<1> DEFINE first == 2 * Len(e) + 2
           b2 == [b EXCEPT ![first].part = "nul"]
           e2 == Append(e, m)
<1>1. Len(b) \in Nat /\ Len(w) \in Nat /\ Len(s) \in Nat /\ Len(e) \in Nat /\ DOMAIN b = 1..Len(b)
  BY LenProperties
<1>2. Len(b) + Len(w) = 2 * Len(s) /\ 2 * Len(e) <= Len(b)
  BY DEF Told
<1>3. ASSUME NEW i \in 1..Len(s)
      PROVE  /\ Nth(b, w, 2 * i - 1) = [line |-> s[i], part |-> "text"]
             /\ Nth(b, w, 2 * i) = [line |-> s[i], part |-> IF i <= Len(e) THEN "nul" ELSE "newline"]
  BY <1>3 DEF Told
<1>4. ASSUME NEW j \in DOMAIN b, b[j].part = "newline"
      PROVE  first <= j
  <2>1. PICK i \in 1..Len(s) : j = 2 * i - 1 \/ j = 2 * i
    <3>1. j \in Nat /\ 1 <= j /\ j <= 2 * Len(s)
      BY <1>1, <1>2
    <3>2. PICK i \in Nat : 1 <= i /\ (j = 2 * i - 1 \/ j = 2 * i)
      BY <3>1, Parity
    <3>3. i <= Len(s)
      BY <3>1, <3>2, <1>1
    <3> QED
      BY <3>2, <3>3, <1>1
  <2>2. Nth(b, w, j) = b[j]
    BY <1>1, <1>4 DEF Nth
  <2>3. CASE j = 2 * i - 1
    <3>1. b[j] = [line |-> s[i], part |-> "text"]
      BY <2>2, <2>3, <1>3
    <3> QED
      BY <3>1, <1>4
  <2>4. CASE j = 2 * i
    <3>1. b[j] = [line |-> s[i], part |-> IF i <= Len(e) THEN "nul" ELSE "newline"]
      BY <2>2, <2>4, <1>3
    <3>2. ~(i <= Len(e))
      BY <3>1, <1>4
    <3> QED
      BY <3>2, <2>4, <1>1
  <2> QED
    BY <2>1, <2>3, <2>4
<1>5. first <= k /\ first \in 1..Len(b) /\ Len(e) + 1 \in 1..Len(s)
  BY <1>1, <1>2, <1>4
<1>6. b[first] = [line |-> s[Len(e) + 1], part |-> "newline"]
  <2>1. 2 * (Len(e) + 1) = first /\ ~(Len(e) + 1 <= Len(e))
    BY <1>1
  <2>2. Nth(b, w, first) = b[first]
    BY <1>5 DEF Nth
  <2> QED
    BY <1>3, <1>5, <2>1, <2>2
<1> HIDE DEF first
<1>7. /\ b2 \in Seq(Pieces) /\ Len(b2) = Len(b)
      /\ \A j \in 1..Len(b) : j # first => b2[j] = b[j]
      /\ b2[first] = [line |-> s[Len(e) + 1], part |-> "nul"]
  <2>1. [b[first] EXCEPT !.part = "nul"] = [line |-> s[Len(e) + 1], part |-> "nul"]
    BY <1>6
  <2>2. [line |-> s[Len(e) + 1], part |-> "nul"] \in Pieces
    BY <1>5 DEF Pieces
  <2>3. b2 = [b EXCEPT ![first] = [line |-> s[Len(e) + 1], part |-> "nul"]]
    BY <2>1
  <2> DEFINE nul == [line |-> s[Len(e) + 1], part |-> "nul"]
  <2> HIDE DEF b2, nul
  <2>4. nul \in Pieces /\ b2 = [b EXCEPT ![first] = nul]
    BY <2>2, <2>3 DEF nul
  <2>5. /\ b2 \in Seq(Pieces) /\ Len(b2) = Len(b)
        /\ \A j \in 1..Len(b) : b2[j] = IF j = first THEN nul ELSE b[j]
    BY <1>5, <2>4, ExceptSeq
  <2> QED
    BY <1>5, <2>5 DEF nul
<1>8. e2 \in Seq(A) /\ Len(e2) = Len(e) + 1 /\ e2[Len(e) + 1] = m
      /\ \A i \in 1..Len(e) : e2[i] = e[i]
  BY AppendProperties
<1> HIDE DEF b2, e2
<1>9. ASSUME NEW i \in 1..Len(s)
      PROVE  /\ Nth(b2, w, 2 * i - 1) = [line |-> s[i], part |-> "text"]
             /\ Nth(b2, w, 2 * i) = [line |-> s[i], part |-> IF i <= Len(e2) THEN "nul" ELSE "newline"]
  <2>1. 2 * i - 1 # first /\ Nth(b2, w, 2 * i - 1) = Nth(b, w, 2 * i - 1)
    <3>1. 2 * i - 1 # first
      BY <1>1 DEF first
    <3>2. CASE 2 * i - 1 <= Len(b)
      <4>1. 2 * i - 1 \in 1..Len(b)
        BY <3>2, <1>1
      <4>2. b2[2 * i - 1] = b[2 * i - 1]
        BY <3>1, <4>1, <1>7
      <4> QED
        BY <3>1, <3>2, <4>2, <1>7 DEF Nth
    <3>3. CASE ~(2 * i - 1 <= Len(b))
      BY <3>1, <3>3, <1>7 DEF Nth
    <3> QED
      BY <3>2, <3>3
  <2>2. CASE i = Len(e) + 1
    <3>1. 2 * i = first /\ i <= Len(e2)
      BY <2>2, <1>1, <1>8 DEF first
    <3>2. Nth(b2, w, 2 * i) = b2[first]
      BY <3>1, <1>5, <1>7 DEF Nth
    <3> QED
      BY <1>3, <1>7, <2>1, <2>2, <3>1, <3>2
  <2>3. CASE i # Len(e) + 1
    <3>1. 2 * i # first /\ (i <= Len(e2) <=> i <= Len(e))
      BY <2>3, <1>1, <1>8 DEF first
    <3>2. Nth(b2, w, 2 * i) = Nth(b, w, 2 * i)
      BY <3>1, <1>1, <1>7 DEF Nth
    <3> QED
      BY <1>3, <2>1, <3>1, <3>2
  <2> QED
    BY <2>2, <2>3
<1>10. \A i \in 1..Len(e2) : e2[i].line = s[1]
  <2>1. b[1] = [line |-> s[1], part |-> "text"]
    <3>1. 1 \in 1..Len(s) /\ 2 * 1 - 1 = 1 /\ 1 <= Len(b)
      BY <1>1, <1>2, <1>5 DEF first
    <3>2. Nth(b, w, 1) = b[1]
      BY <3>1 DEF Nth
    <3> QED
      BY <1>3, <3>1, <3>2
  <2>2. m.line = s[1]
    BY <2>1
  <2>3. \A i \in 1..Len(e) : e[i].line = s[1]
    BY DEF Told
  <2> QED
    BY <1>1, <1>8, <2>2, <2>3
<1>11. Len(b2) + Len(w) = 2 * Len(s) /\ 2 * Len(e2) <= Len(b2)
  BY <1>1, <1>2, <1>5, <1>7, <1>8 DEF first
<1>12. Told(b2, w, s, e2)
  BY <1>9, <1>10, <1>11 DEF Told
<1> QED
  BY <1>1, <1>4, <1>5, <1>6, <1>7, <1>12 DEF b2, e2, first

Messages == [line : Texts, stop : BOOLEAN]
States == {"none", "backlog", "open", "freed"}

\* A connection the client has freed was closed by the server, until the client ends.
FreedBehind ==
    \A c \in Msg!Conns : cliConn[c] = "freed" => user = "done" \/ ~Msg!ServerUp \/ srvConn[c] = "freed"

MsgTypes ==
    /\ msg.line \in Texts
    /\ pieces \in [Msg!Conns -> Seq(Pieces)] /\ buffer \in [Msg!Conns -> Seq(Pieces)]
    /\ sent \in [Msg!Conns -> Seq(Texts)] /\ executed \in [Msg!Conns -> Seq(Messages)]
    /\ cliConn \in [Msg!Conns -> States] /\ srvConn \in [Msg!Conns -> States]

AllTold == \A c \in Msg!Conns : Told(buffer[c], pieces[c], sent[c], executed[c])

MsgInv ==
    /\ MsgTypes /\ AllTold /\ FreedBehind
    /\ user = "write" => conn \in Msg!Conns

LEMMA InitMsg == Msg!Init => MsgInv
<1> SUFFICES ASSUME Msg!Init
             PROVE  MsgInv
  OBVIOUS
<1>1. /\ msg.line = [words |-> {}, host |-> "none"] /\ user = "start"
      /\ cliConn = [c \in Msg!Conns |-> "none"] /\ srvConn = [c \in Msg!Conns |-> "none"]
      /\ pieces = [c \in Msg!Conns |-> <<>>] /\ buffer = [c \in Msg!Conns |-> <<>>]
      /\ sent = [c \in Msg!Conns |-> <<>>] /\ executed = [c \in Msg!Conns |-> <<>>]
  BY DEF Msg!Init, Msg!ClientInit, Msg!ServerInit
<1>2. MsgTypes
  BY <1>1 DEF MsgTypes, Texts, States
<1>3. AllTold
  BY <1>1 DEF AllTold, Told
<1> QED
  BY <1>1, <1>2, <1>3 DEF MsgInv, FreedBehind

streamVars == <<msg, pieces, buffer, sent, executed>>
freeVars == <<user, conn, cliConn, serverMain, srvConn>>

\* What changes none of the pieces.
LEMMA ToldStays ==
  ASSUME MsgInv, UNCHANGED <<pieces, buffer, sent, executed>>
  PROVE  AllTold'
  BY DEF MsgInv, AllTold

\* A server that has ended stays so, and a connection it has freed too.
LEMMA FreedStays ==
  ASSUME MsgInv, UNCHANGED cliConn, user = "done" => user' = "done",
         ~Msg!ServerUp => ~Msg!ServerUp', \A c \in Msg!Conns : srvConn[c] = "freed" => srvConn'[c] = "freed"
  PROVE  FreedBehind'
  BY DEF MsgInv, FreedBehind

\* A number of a set of numbers is the least.
LEMMA MinIsLeast ==
  ASSUME NEW S \in SUBSET Nat, S # {}
  PROVE  Msg!Min(S) \in S /\ \A n \in S : Msg!Min(S) <= n
<1>1. \E n \in S : \A y \in S : n <= y
  <2>1. PICK n \in S : \A y \in S : <<y, n>> \notin OpToRel(<, Nat)
    BY NatLessThanWellFounded, WFMin
  <2>2. ASSUME NEW y \in S
        PROVE  n <= y
    <3>1. y \in Nat /\ n \in Nat
      OBVIOUS
    <3>2. ~(y < n)
      <4>1. y < n => <<y, n>> \in OpToRel(<, Nat)
        <5> SUFFICES ASSUME y < n
                     PROVE  <<y, n>> \in {pair \in Nat \X Nat : pair[1] < pair[2]}
          BY Zenon DEF OpToRel
        <5> QED
          BY <3>1
      <4> QED
        BY <4>1, <2>1, Zenon
    <3> QED
      BY <3>1, <3>2
  <2> QED
    BY <2>2
<1> QED
  BY <1>1 DEF Msg!Min

LEMMA TypeLineMsg ==
  ASSUME MsgInv, Msg!TypeLine
  PROVE  MsgInv'
<1>1. /\ UNCHANGED <<pieces, buffer, sent, executed, conn, cliConn, serverMain, srvConn>>
      /\ user = "type" /\ user' = "execute" /\ msg'.line \in Lines
  BY DEF Msg!TypeLine, Msg!serverVars
<1>2. MsgTypes' /\ AllTold'
  BY <1>1, ToldStays DEF MsgInv, MsgTypes, Texts, Msg!Conns
<1>3. FreedBehind'
  BY <1>1, FreedStays DEF MsgInv, Msg!ServerUp
<1> QED
  BY <1>1, <1>2, <1>3 DEF MsgInv

\* What leaves the pieces and the connections alone.
LEMMA OtherMsg ==
  ASSUME MsgInv, UNCHANGED <<msg, pieces, buffer, sent, executed, conn, cliConn, serverMain, srvConn>>,
         user = "done" => user' = "done", user' = "write" => user = "write"
  PROVE  MsgInv'
<1>1. MsgTypes' /\ AllTold'
  BY ToldStays DEF MsgInv, MsgTypes
<1>2. FreedBehind'
  BY FreedStays DEF MsgInv, Msg!ServerUp
<1> QED
  BY <1>1, <1>2 DEF MsgInv

LEMMA ClientMsg ==
  ASSUME MsgInv,
         Msg!ClientStart \/ Msg!SetExit \/ Msg!Kill \/ Msg!Ignore \/ Msg!LeaveLoop
           \/ Msg!EventTest \/ Msg!EventEnter
  PROVE  MsgInv'
<1>1. /\ UNCHANGED <<msg, pieces, buffer, sent, executed, conn, cliConn, serverMain, srvConn>>
      /\ user = "done" => user' = "done"
      /\ user' = "write" => user = "write"
  BY DEF Msg!ClientStart, Msg!SetExit, Msg!Kill, Msg!Ignore, Msg!LeaveLoop, Msg!EventTest, Msg!EventEnter,
         Msg!serverVars
<1> QED
  BY <1>1, OtherMsg

LEMMA ConnectsMsg ==
  ASSUME MsgInv, Msg!Connect \/ Msg!Reconnect
  PROVE  MsgInv'
<1>1. /\ UNCHANGED <<msg, pieces, buffer, sent, executed, conn, serverMain>>
      /\ user = "execute" /\ user' # "write"
      /\ (\E c \in Msg!Conns : Msg!Connects(c)) \/ UNCHANGED <<cliConn, srvConn>>
  BY DEF Msg!Connect, Msg!Reconnect, Msg!Corrupt
<1>2. AllTold'
  BY <1>1, ToldStays
<1>3. /\ cliConn' \in [Msg!Conns -> States] /\ srvConn' \in [Msg!Conns -> States]
      /\ FreedBehind'
  <2>1. CASE UNCHANGED <<cliConn, srvConn>>
    BY <1>1, <2>1, FreedStays DEF MsgInv, MsgTypes, Msg!ServerUp
  <2>2. ASSUME NEW c \in Msg!Conns, Msg!Connects(c)
        PROVE  /\ cliConn' \in [Msg!Conns -> States] /\ srvConn' \in [Msg!Conns -> States]
               /\ FreedBehind'
    <3>1. /\ cliConn' = [cliConn EXCEPT ![c] = "open"] /\ cliConn[c] = "none"
          /\ srvConn' = [srvConn EXCEPT ![c] = "backlog"]
      BY <2>2 DEF Msg!Connects, Msg!Added
    <3>2. cliConn \in [Msg!Conns -> States] /\ srvConn \in [Msg!Conns -> States] /\ FreedBehind
      BY DEF MsgInv, MsgTypes
    <3>3. cliConn' \in [Msg!Conns -> States] /\ srvConn' \in [Msg!Conns -> States]
      BY <3>1, <3>2 DEF States
    <3>4. ASSUME NEW d \in Msg!Conns, cliConn'[d] = "freed"
          PROVE  ~Msg!ServerUp' \/ srvConn'[d] = "freed"
      <4>1. d # c /\ cliConn[d] = "freed" /\ srvConn'[d] = srvConn[d]
        BY <3>1, <3>2, <3>4
      <4> QED
        BY <4>1, <3>2, <1>1 DEF FreedBehind, Msg!ServerUp
    <3> QED
      BY <3>3, <3>4 DEF FreedBehind
  <2> QED
    BY <1>1, <2>1, <2>2
<1> QED
  BY <1>1, <1>2, <1>3 DEF MsgInv, MsgTypes

LEMMA FindConnectionMsg ==
  ASSUME MsgInv, Msg!FindConnection
  PROVE  MsgInv'
<1>1. /\ UNCHANGED <<msg, pieces, buffer, sent, executed, cliConn, serverMain, srvConn>>
      /\ user = "execute" /\ Msg!Found # {} /\ conn' = Msg!Min(Msg!Found)
  BY DEF Msg!FindConnection, Msg!serverVars
<1>2. Msg!Found \in SUBSET Nat /\ Msg!Found \subseteq Msg!Conns
  BY DEF Msg!Found, Msg!Conns
<1>3. conn' \in Msg!Conns
  BY <1>1, <1>2, MinIsLeast
<1>4. MsgTypes' /\ AllTold'
  BY <1>1, ToldStays DEF MsgInv, MsgTypes
<1>5. FreedBehind'
  BY <1>1, FreedStays DEF MsgInv, Msg!ServerUp
<1> QED
  BY <1>3, <1>4, <1>5 DEF MsgInv, Msg!Conns

LEMMA WriteLineMsg ==
  ASSUME MsgInv, Msg!WriteLine
  PROVE  MsgInv'
<1>1. /\ UNCHANGED <<msg, buffer, executed, conn, cliConn, serverMain, srvConn>>
      /\ user = "write" /\ user' # "write"
  BY DEF Msg!WriteLine, Msg!serverVars, Msg!Corrupt
<1>2. MsgTypes /\ AllTold /\ FreedBehind /\ conn \in Msg!Conns
  BY <1>1 DEF MsgInv
<1>3. FreedBehind'
  BY <1>1, FreedStays DEF Msg!ServerUp
<1>4. CASE UNCHANGED <<pieces, sent>>
  BY <1>1, <1>2, <1>3, <1>4, ToldStays DEF MsgInv, MsgTypes
<1>5. CASE /\ pieces' = [pieces EXCEPT ![conn] = @ \o Msg!Pieces(msg.line)]
           /\ sent' = [sent EXCEPT ![conn] = Append(@, msg.line)]
  <2> DEFINE l == msg.line
             line == <<[line |-> l, part |-> "text"], [line |-> l, part |-> "newline"]>>
             w == pieces[conn] \o line
             s == Append(sent[conn], l)
  <2>1. /\ buffer[conn] \in Seq(Pieces) /\ pieces[conn] \in Seq(Pieces) /\ sent[conn] \in Seq(Texts)
        /\ executed[conn] \in Seq(Messages) /\ l \in Texts
        /\ Told(buffer[conn], pieces[conn], sent[conn], executed[conn])
    BY <1>2 DEF MsgTypes, AllTold
  <2>2. w \in Seq(Pieces) /\ Told(buffer[conn], w, s, executed[conn])
    BY <2>1, ToldOfWrite
  <2>3. s \in Seq(Texts)
    BY <2>1
  <2>4. pieces' = [pieces EXCEPT ![conn] = w] /\ sent' = [sent EXCEPT ![conn] = s]
    BY <1>5 DEF Msg!Pieces
  <2> HIDE DEF w, s
  <2>5. MsgTypes'
    BY <1>1, <1>2, <2>2, <2>3, <2>4 DEF MsgTypes
  <2>6. ASSUME NEW c \in Msg!Conns
        PROVE  Told(buffer'[c], pieces'[c], sent'[c], executed'[c])
    <3>1. CASE c = conn
      <4>1. buffer'[c] = buffer[conn] /\ pieces'[c] = w /\ sent'[c] = s /\ executed'[c] = executed[conn]
        BY <3>1, <1>1, <1>2, <2>4 DEF MsgTypes
      <4> QED
        BY <4>1, <2>2
    <3>2. CASE c # conn
      <4>1. buffer'[c] = buffer[c] /\ pieces'[c] = pieces[c] /\ sent'[c] = sent[c] /\ executed'[c] = executed[c]
        BY <3>2, <1>1, <1>2, <2>4 DEF MsgTypes
      <4> QED
        BY <4>1, <1>2 DEF AllTold
    <3> QED
      BY <3>1, <3>2
  <2>7. AllTold'
    BY <2>6 DEF AllTold, Msg!Conns
  <2> QED
    BY <1>1, <1>3, <2>5, <2>7 DEF MsgInv
<1> QED
  BY <1>4, <1>5 DEF Msg!WriteLine

LEMMA EndClientMsg ==
  ASSUME MsgInv, Msg!EndClient
  PROVE  MsgInv'
<1>1. /\ UNCHANGED <<msg, pieces, buffer, sent, executed, conn, serverMain, srvConn>>
      /\ user' = "done" /\ cliConn' = Msg!Deleted(cliConn, Msg!Conns)
  BY DEF Msg!EndClient, Msg!ClientDestroyed, Msg!serverVars
<1>2. cliConn' \in [Msg!Conns -> States]
  BY <1>1 DEF MsgInv, MsgTypes, Msg!Deleted, States
<1>3. MsgTypes' /\ AllTold'
  BY <1>1, <1>2, ToldStays DEF MsgInv, MsgTypes
<1> QED
  BY <1>1, <1>3 DEF MsgInv, FreedBehind

LEMMA EventWaitMsg ==
  ASSUME MsgInv, Msg!EventWait
  PROVE  MsgInv'
<1>1. /\ UNCHANGED <<msg, pieces, buffer, sent, executed, user, conn, serverMain, srvConn>>
      /\ cliConn' = cliConn \/ cliConn' = Msg!Deleted(cliConn, Msg!Hungup)
  BY DEF Msg!EventWait, Msg!serverVars
<1>2. cliConn' \in [Msg!Conns -> States]
  BY <1>1 DEF MsgInv, MsgTypes, Msg!Deleted, States
<1>3. MsgTypes' /\ AllTold'
  BY <1>1, <1>2, ToldStays DEF MsgInv, MsgTypes
<1>4. ASSUME NEW c \in Msg!Conns, cliConn'[c] = "freed"
      PROVE  user' = "done" \/ ~Msg!ServerUp' \/ srvConn'[c] = "freed"
  <2>1. cliConn[c] = "freed" \/ c \in Msg!Hungup
    BY <1>1, <1>4 DEF Msg!Deleted
  <2> QED
    BY <2>1, <1>1 DEF MsgInv, FreedBehind, Msg!Hungup, Msg!ServerUp
<1> QED
  BY <1>1, <1>4, <1>3 DEF MsgInv, FreedBehind

\* The server's own threads, where they change neither a buffer nor what was executed.
LEMMA ServerMsg ==
  ASSUME MsgInv,
         \/ Msg!ListenStart \/ Msg!ListenTest \/ Msg!ListenWait \/ Msg!EndOfBatch
         \/ \E c \in Msg!Conns : Msg!Accept(c)
         \/ Msg!ServerMain
  PROVE  MsgInv'
<1>1. /\ UNCHANGED <<msg, pieces, buffer, sent, executed, user, conn, cliConn>>
      /\ ~Msg!ServerUp => ~Msg!ServerUp'
      /\ \/ UNCHANGED srvConn
         \/ \E c \in Msg!Conns : srvConn[c] = "backlog" /\ srvConn' = Msg!Added(srvConn, c)
         \/ \E c \in Msg!Conns : srvConn' = Msg!Deleted(srvConn, {c})
  BY DEF Msg!ListenStart, Msg!ListenTest, Msg!ListenWait, Msg!EndOfBatch, Msg!Accept, Msg!AddConnection,
         Msg!ServerMain, Msg!SeeExit, Msg!DeleteConnection, Msg!RaiseExit, Msg!EndServer, Msg!ServerUp,
         Msg!Corrupt, Msg!clientVars
<1>2. srvConn \in [Msg!Conns -> States]
  BY DEF MsgInv, MsgTypes
<1>3. srvConn' \in [Msg!Conns -> States]
  BY <1>1, <1>2 DEF Msg!Added, Msg!Deleted, States
<1>4. \A c \in Msg!Conns : srvConn[c] = "freed" => srvConn'[c] = "freed"
  BY <1>1, <1>2 DEF Msg!Added, Msg!Deleted
<1>5. FreedBehind'
  BY <1>1, <1>4, FreedStays
<1>6. MsgTypes' /\ AllTold'
  BY <1>1, <1>3, ToldStays DEF MsgInv, MsgTypes
<1> QED
  BY <1>1, <1>5, <1>6 DEF MsgInv

LEMMA ReadDataMsg ==
  ASSUME BufferRoom \in Nat, MsgInv, NEW c \in Msg!Conns, Msg!ReadData(c)
  PROVE  MsgInv'
<1>1. /\ UNCHANGED <<msg, sent, executed, user, conn, cliConn>>
      /\ Msg!ServerUp
  BY DEF Msg!ReadData, Msg!clientVars
<1>2. MsgTypes /\ AllTold /\ FreedBehind
  BY DEF MsgInv
<1>3. CASE UNCHANGED <<pieces, buffer>>
  <2>1. srvConn' = srvConn \/ srvConn' = Msg!Deleted(srvConn, {c})
    BY <1>3 DEF Msg!ReadData
  <2>2. srvConn' \in [Msg!Conns -> States] /\ \A d \in Msg!Conns : srvConn[d] = "freed" => srvConn'[d] = "freed"
    BY <2>1, <1>2 DEF MsgTypes, Msg!Deleted, States
  <2>3. FreedBehind'
    BY <1>1, <2>2, FreedStays
  <2>4. MsgTypes' /\ AllTold'
    BY <1>1, <1>2, <1>3, <2>2, ToldStays DEF MsgTypes
  <2> QED
    BY <1>1, <2>3, <2>4 DEF MsgInv
<1>4. ASSUME NEW n \in 1..Msg!Fits(c), UNCHANGED <<srvConn, serverMain>>,
             buffer' = [buffer EXCEPT ![c] = @ \o SubSeq(pieces[c], 1, n)],
             pieces' = [pieces EXCEPT ![c] = SubSeq(@, n + 1, Len(@))]
      PROVE  MsgInv'
  <2> DEFINE b == buffer[c] \o SubSeq(pieces[c], 1, n)
             w == SubSeq(pieces[c], n + 1, Len(pieces[c]))
  <2>1. /\ buffer[c] \in Seq(Pieces) /\ pieces[c] \in Seq(Pieces) /\ sent[c] \in Seq(Texts)
        /\ executed[c] \in Seq(Messages)
        /\ Told(buffer[c], pieces[c], sent[c], executed[c])
    BY <1>2 DEF MsgTypes, AllTold
  <2>2. n \in 1..Len(pieces[c])
    <3> DEFINE room == BufferRoom - Len(buffer[c])
               come == Len(pieces[c])
    <3>1. room \in Int /\ come \in Int
      BY <2>1, LenProperties
    <3>2. Msg!Fits(c) = Msg!Min({room, come})
      BY DEF Msg!Fits
    <3> HIDE DEF room, come
    <3>3. \E x \in {room, come} : \A y \in {room, come} : x <= y
      BY <3>1
    <3>4. Msg!Fits(c) \in {room, come} /\ Msg!Fits(c) <= come
      BY <3>2, <3>3 DEF Msg!Min
    <3>5. n \in Int /\ 1 <= n /\ n <= come
      BY <1>4, <3>1, <3>4
    <3> QED
      BY <3>5 DEF come
  <2>3. b \in Seq(Pieces) /\ w \in Seq(Pieces) /\ Told(b, w, sent[c], executed[c])
    <3>1. Len(sent[c]) \in Nat
      BY <2>1, LenProperties
    <3> QED
      BY <2>1, <2>2, <3>1, ToldOfRead
  <2>4. buffer' = [buffer EXCEPT ![c] = b] /\ pieces' = [pieces EXCEPT ![c] = w]
    BY <1>4
  <2> HIDE DEF b, w
  <2>5. MsgTypes'
    <3>1. pieces' \in [Msg!Conns -> Seq(Pieces)] /\ buffer' \in [Msg!Conns -> Seq(Pieces)]
      BY <1>2, <2>3, <2>4 DEF MsgTypes
    <3> QED
      BY <1>1, <1>2, <1>4, <3>1 DEF MsgTypes
  <2>6. ASSUME NEW d \in Msg!Conns
        PROVE  Told(buffer'[d], pieces'[d], sent'[d], executed'[d])
    <3>1. CASE d = c
      <4>1. buffer'[d] = b /\ pieces'[d] = w /\ sent'[d] = sent[c] /\ executed'[d] = executed[c]
        BY <3>1, <1>1, <1>2, <2>4 DEF MsgTypes
      <4> QED
        BY <4>1, <2>3
    <3>2. CASE d # c
      <4>1. buffer'[d] = buffer[d] /\ pieces'[d] = pieces[d] /\ sent'[d] = sent[d] /\ executed'[d] = executed[d]
        BY <3>2, <1>1, <1>2, <2>4 DEF MsgTypes
      <4> QED
        BY <4>1, <1>2 DEF AllTold
    <3> QED
      BY <3>1, <3>2
  <2>7. AllTold'
    BY <2>6 DEF AllTold, Msg!Conns
  <2>8. FreedBehind'
    BY <1>1, <1>4, FreedStays DEF Msg!ServerUp
  <2> QED
    BY <1>1, <2>5, <2>7, <2>8 DEF MsgInv
<1> QED
  BY <1>3, <1>4 DEF Msg!ReadData

LEMMA ExtractMessageMsg ==
  ASSUME MsgInv, NEW c \in Msg!Conns, Msg!ExtractMessage(c)
  PROVE  MsgInv'
<1>1. /\ UNCHANGED <<msg, pieces, sent, user, conn, cliConn, srvConn>>
      /\ ~Msg!ServerUp => ~Msg!ServerUp'
  BY DEF Msg!ExtractMessage, Msg!clientVars, Msg!ServerUp
<1>2. MsgTypes /\ AllTold /\ FreedBehind
  BY DEF MsgInv
<1>3. FreedBehind'
  BY <1>1, FreedStays
<1>4. CASE UNCHANGED <<buffer, executed>>
  BY <1>1, <1>2, <1>3, <1>4, ToldStays DEF MsgInv, MsgTypes
<1>5. CASE ~UNCHANGED <<buffer, executed>>
  <2>1. PICK stop \in BOOLEAN : Msg!Execute(c, [line |-> buffer[c][1].line, stop |-> stop])
    BY <1>5 DEF Msg!ExtractMessage
  <2>2. Msg!NewLines(c) # {} /\ Msg!MarkLine(c)
    BY <1>5 DEF Msg!ExtractMessage
  <2> DEFINE m == [line |-> buffer[c][1].line, stop |-> stop]
             first == 2 * Len(executed[c]) + 2
             b == [buffer[c] EXCEPT ![first].part = "nul"]
             e == Append(executed[c], m)
  <2>3. /\ buffer[c] \in Seq(Pieces) /\ pieces[c] \in Seq(Pieces) /\ sent[c] \in Seq(Texts)
        /\ executed[c] \in Seq(Messages)
        /\ Told(buffer[c], pieces[c], sent[c], executed[c])
    BY <1>2 DEF MsgTypes, AllTold
  <2>4. PICK k \in DOMAIN buffer[c] : buffer[c][k].part = "newline"
    BY <2>2 DEF Msg!NewLines
  <2>5. m \in Messages /\ m.line = buffer[c][1].line
    <3>1. 1 \in 1..Len(buffer[c])
      BY <2>3, <2>4, LenProperties
    <3>2. buffer[c][1] \in Pieces
      BY <2>3, <3>1, ElementOfSeq
    <3>3. buffer[c][1].line \in Texts
      BY <3>2 DEF Pieces
    <3> QED
      BY <2>1, <3>3 DEF Messages
  <2> HIDE DEF m
  <2>6. /\ first \in DOMAIN buffer[c] /\ buffer[c][first].part = "newline"
        /\ \A j \in DOMAIN buffer[c] : buffer[c][j].part = "newline" => first <= j
        /\ b \in Seq(Pieces) /\ Told(b, pieces[c], sent[c], e)
    BY <2>3, <2>4, <2>5, ToldOfExtract
  <2>7. Msg!Min(Msg!NewLines(c)) = first
    <3>1. Msg!NewLines(c) \in SUBSET Nat
      BY <2>3, LenProperties DEF Msg!NewLines
    <3>2. first \in Msg!NewLines(c) /\ \A j \in Msg!NewLines(c) : first <= j
      BY <2>6 DEF Msg!NewLines
    <3> HIDE DEF first
    <3>3. /\ Msg!Min(Msg!NewLines(c)) \in Msg!NewLines(c)
          /\ \A j \in Msg!NewLines(c) : Msg!Min(Msg!NewLines(c)) <= j
      BY <3>1, <3>2, MinIsLeast
    <3> QED
      BY <3>1, <3>2, <3>3
  <2>8. e \in Seq(Messages)
    BY <2>3, <2>5
  <2>9. buffer' = [buffer EXCEPT ![c] = b] /\ executed' = [executed EXCEPT ![c] = e]
    BY <2>1, <2>2, <2>7 DEF Msg!MarkLine, Msg!Execute, m
  <2> HIDE DEF first, b, e
  <2>10. MsgTypes'
    BY <1>1, <1>2, <2>6, <2>8, <2>9 DEF MsgTypes
  <2>11. ASSUME NEW d \in Msg!Conns
         PROVE  Told(buffer'[d], pieces'[d], sent'[d], executed'[d])
    <3>1. CASE d = c
      <4>1. buffer'[d] = b /\ pieces'[d] = pieces[c] /\ sent'[d] = sent[c] /\ executed'[d] = e
        BY <3>1, <1>1, <1>2, <2>9 DEF MsgTypes
      <4> QED
        BY <4>1, <2>6
    <3>2. CASE d # c
      <4>1. buffer'[d] = buffer[d] /\ pieces'[d] = pieces[d] /\ sent'[d] = sent[d] /\ executed'[d] = executed[d]
        BY <3>2, <1>1, <1>2, <2>9 DEF MsgTypes
      <4> QED
        BY <4>1, <1>2 DEF AllTold
    <3> QED
      BY <3>1, <3>2
  <2>12. AllTold'
    BY <2>11 DEF AllTold, Msg!Conns
  <2> QED
    BY <1>1, <1>3, <2>10, <2>12 DEF MsgInv
<1> QED
  BY <1>4, <1>5

LEMMA NextMsg ==
  ASSUME BufferRoom \in Nat, MsgInv, [Msg!Next]_(Msg!vars)
  PROVE  MsgInv'
<1>1. CASE Msg!TypeLine
  BY <1>1, TypeLineMsg
<1>2. CASE Msg!ClientMain
  BY <1>2, ClientMsg, ConnectsMsg, FindConnectionMsg, WriteLineMsg, EndClientMsg DEF Msg!ClientMain
<1>3. CASE Msg!EventThread
  BY <1>3, ClientMsg, EventWaitMsg DEF Msg!EventThread
<1>4. CASE Msg!ListenThread
  BY <1>4, ServerMsg, ReadDataMsg, ExtractMessageMsg DEF Msg!ListenThread
<1>5. CASE Msg!ServerMain
  BY <1>5, ServerMsg
<1>6. CASE UNCHANGED Msg!vars
  BY <1>6, OtherMsg DEF Msg!vars, Msg!clientVars, Msg!serverVars
<1> QED
  BY <1>1, <1>2, <1>3, <1>4, <1>5, <1>6 DEF Msg!Next

\* Whatever the pieces in which lines arrive, and however many are on their way, the
\* bytes taken from the buffer for a message are the first line the client wrote to
\* that connection, all of it, and there are no more messages than lines were written
\* (connection_extract_message).  What lies behind those bytes may decide what the
\* message is taken for.
THEOREM MessageIsAlwaysFirstLine ==
  ASSUME BufferRoom \in Nat
  PROVE  Msg!Spec => []MessageIsFirstLine
<1>1. MsgInv => MessageIsFirstLine
  <2> SUFFICES ASSUME MsgInv, NEW c \in Msg!Conns
               PROVE  /\ Len(executed[c]) <= Len(sent[c])
                      /\ \A k \in DOMAIN executed[c] : executed[c][k].line = Head(sent[c])
    BY DEF MessageIsFirstLine, Conns, Msg!Conns
  <2> DEFINE e == executed[c]
             s == sent[c]
             b == buffer[c]
             w == pieces[c]
  <2>1. e \in Seq(Messages) /\ s \in Seq(Texts) /\ b \in Seq(Pieces) /\ w \in Seq(Pieces) /\ Told(b, w, s, e)
    BY DEF MsgInv, MsgTypes, AllTold
  <2> HIDE DEF e, s, b, w
  <2>2. /\ Len(e) \in Nat /\ Len(s) \in Nat /\ Len(b) \in Nat /\ Len(w) \in Nat
        /\ DOMAIN e = 1..Len(e)
    BY <2>1, LenProperties
  <2>3. Len(b) + Len(w) = 2 * Len(s) /\ 2 * Len(e) <= Len(b)
    BY <2>1 DEF Told
  <2>4. Len(e) <= Len(s)
    BY <2>2, <2>3
  <2>5. ASSUME NEW k \in DOMAIN e
        PROVE  e[k].line = Head(s)
    <3>1. e[k].line = s[1]
      BY <2>1, <2>2 DEF Told
    <3>2. s # <<>>
      BY <2>2, <2>4
    <3> QED
      BY <3>1, <3>2, <2>1, HeadTailProperties
  <2> QED
    BY <2>4, <2>5 DEF e, s
<1> QED
  BY <1>1, InitMsg, NextMsg, PTL DEF Msg!Spec

\* The client is corrupt after a write only if the server has ended or has freed a
\* connection: without that neither event_thread nor a second write can take the
\* connection that client_execute_callback has just found away from it.
THEOREM CorruptAlwaysNeedsClose ==
  ASSUME BufferRoom \in Nat
  PROVE  Msg!Spec => Msg!CorruptNeedsClose
<1>1. MsgInv /\ [Msg!Next]_(Msg!vars) =>
          [Msg!Corrupt(user) /\ user = "write" =>
               ~Msg!ServerUp \/ \E c \in Msg!Conns : srvConn[c] = "freed"]_(Msg!vars)
  <2> SUFFICES ASSUME MsgInv, Msg!Next, user' = "corrupt", user = "write"
               PROVE  ~Msg!ServerUp \/ \E c \in Msg!Conns : srvConn[c] = "freed"
    BY DEF Msg!Corrupt
  <2>1. Msg!WriteLine
    BY DEF Msg!Next, Msg!TypeLine, Msg!ClientMain, Msg!ClientStart, Msg!SetExit, Msg!Kill, Msg!Ignore,
           Msg!Connect, Msg!FindConnection, Msg!Reconnect, Msg!LeaveLoop, Msg!EndClient, Msg!EventThread,
           Msg!EventTest, Msg!EventEnter, Msg!EventWait, Msg!ListenThread, Msg!ListenStart, Msg!ListenTest,
           Msg!ListenWait, Msg!EndOfBatch, Msg!Accept, Msg!ReadData, Msg!ExtractMessage, Msg!ServerMain,
           Msg!SeeExit, Msg!DeleteConnection, Msg!RaiseExit, Msg!EndServer, Msg!clientVars
  <2>2. cliConn[conn] = "freed" \/ ~Msg!ServerUp \/ srvConn[conn] = "freed"
    BY <2>1 DEF Msg!WriteLine
  <2> QED
    BY <2>2 DEF MsgInv, FreedBehind
<1> QED
  BY <1>1, InitMsg, NextMsg, PTL DEF Msg!Spec, Msg!CorruptNeedsClose
=============================================================================
