-------------------------- MODULE GigeCameraProofs --------------------------
(***************************************************************************)
(* Proofs about a camera, for frames of any number of blocks, any scripts  *)
(* and interfaces and any faults of the network.                           *)
(*                                                                         *)
(* The stream (GigeCamera): the buffer never holds data of two frames, and *)
(* a frame whose packets all came in order is handed over with all of its  *)
(* blocks.  The control channel (GvcpControl) and the search for the       *)
(* camera (Discovery), at the end of the module: an answer that is not     *)
(* late is taken for the command it belongs to, and a camera that answers  *)
(* in time is found.                                                       *)
(***************************************************************************)
EXTENDS GigeCamera, Discovery, SequenceTheorems, TLAPS

-----------------------------------------------------------------------------
(* The inductive invariant.                                                *)

AnyPacket == [frame : Nat, id : Nat, ok : BOOLEAN]

Shape ==
    /\ sent \in Nat /\ queue \in Seq(AnyPacket) /\ packet \in AnyPacket
    /\ lastFrame \in Nat /\ buffer \in Seq(AnyPacket)

\* The data in the buffer are of the frame whose id is kept, at any time.
OwnData == \A j \in 1..Len(buffer) : buffer[j].frame = lastFrame

\* A packet that is about to be stored is of that frame.
Current == stream = "store" => packet.frame = lastFrame

\* A packet that was reported is there.
Reported == stream = "recv" => queue # <<>>

IInv == Shape /\ OwnData /\ Current /\ Reported

LEMMA InitInv ==
  ASSUME Init
  PROVE  IInv
  BY DEF Init, IInv, Shape, OwnData, Current, Reported, AnyPacket

-----------------------------------------------------------------------------
(* The device and the network change the buffer of the socket only.        *)

LEMMA SentIsPacket ==
  ASSUME NEW n \in Nat
  PROVE  Sent(n) \in AnyPacket /\ [Sent(n) EXCEPT !.ok = FALSE] \in AnyPacket
<1>1. n \div (Blocks + 1) \in Nat /\ n % (Blocks + 1) \in Nat
  BY CameraAssumption
<1>2. Sent(n) \in AnyPacket
  BY <1>1 DEF Sent, AnyPacket
<1>3. \A p \in AnyPacket : [p EXCEPT !.ok = FALSE] \in AnyPacket
  BY DEF AnyPacket
<1> QED
  BY <1>2, <1>3

LEMMA TwoMore ==
  ASSUME NEW S, NEW q \in Seq(S), NEW p \in S
  PROVE  q \o <<p, p>> \in Seq(S) /\ q \o <<p, p>> # <<>>
<1> DEFINE t == <<p, p>>
<1>1. t \in Seq(S) /\ Len(t) = 2
  OBVIOUS
<1> HIDE DEF t
<1>2. q \o t \in Seq(S) /\ Len(q \o t) = Len(q) + Len(t)
  BY <1>1, ConcatProperties
<1>3. q \o t # <<>>
  BY <1>1, <1>2
<1> QED
  BY <1>2, <1>3 DEF t

LEMMA NetworkInv ==
  ASSUME IInv, Network
  PROVE  IInv'
<1> USE DEF IInv, Shape
<1>1. UNCHANGED <<packet, lastFrame, buffer, stream>> /\ sent' = sent + 1
  BY DEF Network, SendPacket, DropPacket, LosePacket, ErrorPacket, DuplicatePacket, ReorderPacket,
         Send, frameVars
<1>2. queue' \in Seq(AnyPacket) /\ (queue # <<>> => queue' # <<>>)
  <2> DEFINE p == Sent(sent)
             e == [p EXCEPT !.ok = FALSE]
  <2>1. p \in AnyPacket /\ e \in AnyPacket
    BY SentIsPacket
  <2> HIDE DEF e
  <2>2. \/ queue' = queue \/ queue' = Append(queue, p) \/ queue' = Append(queue, e)
        \/ queue' = queue \o <<p, p>>
        \/ \E k \in 1..Len(queue) : queue' = InsertAt(queue, k, p)
    BY DEF Network, SendPacket, DropPacket, LosePacket, ErrorPacket, DuplicatePacket,
           ReorderPacket, Send, e
  <2> HIDE DEF p
  <2>3. ASSUME NEW k \in 1..Len(queue)
        PROVE  InsertAt(queue, k, p) \in Seq(AnyPacket) /\ InsertAt(queue, k, p) # <<>>
    <3>1. SubSeq(queue, 1, k - 1) \in Seq(AnyPacket) /\ SubSeq(queue, k, Len(queue)) \in Seq(AnyPacket)
      OBVIOUS
    <3>2. <<p>> \in Seq(AnyPacket)
      BY <2>1
    <3> QED
      BY <3>1, <3>2 DEF InsertAt
  <2>4. queue \o <<p, p>> \in Seq(AnyPacket) /\ queue \o <<p, p>> # <<>>
    BY <2>1, TwoMore
  <2>5. \A x \in {p, e} : Append(queue, x) \in Seq(AnyPacket) /\ Append(queue, x) # <<>>
    BY <2>1
  <2> QED
    BY <2>2, <2>3, <2>4, <2>5
<1> QED
  BY <1>1, <1>2 DEF OwnData, Current, Reported

-----------------------------------------------------------------------------
(* The stream thread. *)

LEMMA StreamInv ==
  ASSUME IInv, Stream
  PROVE  IInv'
<1> USE DEF IInv, Shape
<1>1. CASE Receive
  <2>1. Head(queue) \in AnyPacket /\ Tail(queue) \in Seq(AnyPacket)
    BY <1>1 DEF Receive, Reported
  <2>2. /\ packet' = Head(queue) /\ queue' = Tail(queue) /\ UNCHANGED <<lastFrame, buffer, sent>>
        /\ stream' = "store" => packet'.frame = lastFrame
        /\ stream' # "recv"
    BY <1>1 DEF Receive, streamLeaves
  <2> QED
    BY <2>1, <2>2 DEF OwnData, Current, Reported
<1>2. CASE BeginFrame
  BY <1>2 DEF BeginFrame, OwnData, Current, Reported, AnyPacket, streamLeaves
<1>3. CASE StorePacket
  <2>1. buffer' = buffer \/ buffer' = Append(buffer, packet)
    BY <1>3 DEF StorePacket
  <2>2. packet.frame = lastFrame /\ UNCHANGED <<queue, packet, lastFrame, sent>>
        /\ stream' = "test"
    BY <1>3 DEF StorePacket, Current, streamLeaves
  <2>3. buffer' \in Seq(AnyPacket)
    BY <2>1
  <2>4. OwnData'
    <3>1. CASE buffer' = buffer
      BY <2>2, <3>1 DEF OwnData
    <3>2. CASE buffer' = Append(buffer, packet)
      <4>1. /\ Len(buffer) \in Nat /\ Len(buffer') = Len(buffer) + 1
            /\ buffer'[Len(buffer) + 1] = packet
            /\ \A j \in 1..Len(buffer) : buffer'[j] = buffer[j]
        BY <3>2
      <4> QED
        BY <2>2, <4>1 DEF OwnData
    <3> QED
      BY <2>1, <3>1, <3>2
  <2> QED
    BY <2>2, <2>3, <2>4 DEF Current, Reported
<1>4. CASE Poll \/ ReceiveFails \/ HandFrame \/ TestExit \/ WaitNextObject \/ AddFrame \/ EndStream
  BY <1>4 DEF Poll, ReceiveFails, HandFrame, TestExit, WaitNextObject, AddFrame, EndStream,
     frameVars, streamLeaves, OwnData, Current, Reported
<1> QED
  BY <1>1, <1>2, <1>3, <1>4 DEF Stream

-----------------------------------------------------------------------------
(* Everybody else. *)

LEMMA OthersInv ==
  ASSUME IInv, Collector \/ StopSource \/ Control \/ Owner \/ UseFreed \/ UNCHANGED vars
  PROVE  IInv'
<1>1. UNCHANGED <<sent, queue, packet, lastFrame, buffer>> /\ (stream' = stream \/ stream' = "test")
  BY DEF Collector, ShareObject, GatherReport, LastGather, StopSource, Control, WaitFirstObject,
         BeginStream, LeaveLoop, StopStream, CloseControl, JoinStream, Owner, Destroy, WakeThreads,
         CloseSockets, FreeCamera, JoinControl, UseFreed, collectorLeaves, controlLeaves,
         ownerLeaves, deviceVars, frameVars, vars
<1> QED
  BY <1>1 DEF IInv, Shape, OwnData, Current, Reported

LEMMA NextInv ==
  ASSUME IInv, [Next]_vars
  PROVE  IInv'
  BY NetworkInv, StreamInv, OthersInv DEF Next

\* Whatever packets the network loses, damages, doubles or moves, and however many
\* blocks a frame has, the buffer that new_frame_action gets holds data of one frame
\* (gige_camera.c:159-196).
THEOREM FramesNeverMixed == Spec => []FramesNotMixed
<1>1. Init => IInv
  BY InitInv
<1>2. IInv /\ [Next]_vars => IInv'
  BY NextInv
<1>3. IInv => FramesNotMixed
  BY DEF IInv, OwnData, FramesNotMixed
<1> QED
  BY <1>1, <1>2, <1>3, PTL DEF Spec

-----------------------------------------------------------------------------
(* A frame that came as it was sent.  The packet that the thread took last *)
(* and the ones in the buffer of the socket stand in one line, with the    *)
(* one that the device sends next behind them; in that line the packets of *)
(* a frame that was not damaged follow one another without a gap.          *)

Packet(f, i) == [frame |-> f, id |-> i, ok |-> TRUE]

\* The thread has a packet that it has not dealt with.
Pending == {"hand", "posted", "wait", "add", "begin", "store"}

Latest == IF stream \in Pending THEN packet ELSE Packet(lastFrame, Len(buffer))
Line == [j \in 0..Len(queue) |-> IF j = 0 THEN Latest ELSE queue[j]]
Coming == Sent(sent)

\* Of a line L of m packets behind the first, before a packet c, with the frames in D
\* damaged:  the packets of a frame are numbered in order,
Numbered(L, m, D) ==
    \A j, k \in 0..m :
        j < k /\ L[j].frame = L[k].frame /\ L[j].frame \notin D \cup {0} =>
            L[k].id = L[j].id + (k - j)

\* none of them is missing and they stand together,
InOrder(L, m, c, D) ==
    \A j \in 0..m : L[j].frame \notin D \cup {0} =>
        /\ L[j].ok /\ L[j].id <= Blocks
        /\ j > 0 /\ L[j - 1].frame # L[j].frame => L[j].id = 0
        /\ j < m /\ L[j].id < Blocks => L[j + 1].frame = L[j].frame
        /\ j = m /\ L[j].id < Blocks => c = Packet(L[j].frame, L[j].id + 1)

\* c is none of those in the line,
Ahead(L, m, c, D) ==
    \A j \in 0..m :
        /\ L[j].frame <= c.frame
        /\ L[j].frame = c.frame /\ c.frame \notin D \cup {0} => L[j].id < c.id

\* and comes behind the packet before it.
Behind(L, m, c, D) ==
    c.frame \notin D \cup {0} /\ c.id > 0 => L[m] = Packet(c.frame, c.id - 1)

Orderly(L, m, c, D) ==
    Numbered(L, m, D) /\ InOrder(L, m, c, D) /\ Ahead(L, m, c, D) /\ Behind(L, m, c, D)

LineInv == Orderly(Line, Len(queue), Coming, damaged)

\* Frames are counted from 1; the thread hands over a frame that it has begun.
Begun ==
    /\ packet.frame > 0 /\ \A j \in 1..Len(queue) : queue[j].frame > 0
    /\ started \/ InNewFrameAction => lastFrame # 0
    /\ control \in {"start", "begin"} => stream = "none"

\* The buffer has the blocks of an undamaged frame up to the packet taken last.
Content ==
    /\ lastFrame \notin damaged \cup {0} =>
          /\ \A b \in 1..Len(buffer) : buffer[b] = Packet(lastFrame, b)
          /\ stream = "store" => packet.id = Len(buffer) + 1 \/ (packet.id = 0 /\ Len(buffer) = 0)
          /\ InNewFrameAction => Len(buffer) = Blocks
    /\ stream \in Pending \ {"store"} /\ packet.frame \notin damaged => packet.id = 0

WholeInv == IInv /\ LineInv /\ Begun /\ Content

\* A number is the sum of a multiple and a rest in one way.
LEMMA DivMod ==
  ASSUME NEW M \in Nat \ {0}, NEW n \in Nat
  PROVE  /\ n = (n \div M) * M + (n % M)
         /\ n % M \in 0..(M - 1) /\ n \div M \in Nat
  OBVIOUS

LEMMA DivModOf ==
  ASSUME NEW M \in Nat \ {0}, NEW q \in Nat, NEW r \in 0..(M - 1)
  PROVE  (q * M + r) % M = r /\ (q * M + r) \div M = q
  OBVIOUS

\* The packet that is sent behind c.
Following(c) == IF c.id = Blocks THEN Packet(c.frame + 1, 0) ELSE Packet(c.frame, c.id + 1)

\* The packets of a frame are sent in order, and then those of the next.
LEMMA SentNext ==
  ASSUME NEW n \in Nat
  PROVE  /\ Sent(n) = Packet(Sent(n).frame, Sent(n).id)
         /\ Sent(n).frame \in Nat /\ Sent(n).frame > 0 /\ Sent(n).id \in 0..Blocks
         /\ Sent(n + 1) = Following(Sent(n))
<1> DEFINE M == Blocks + 1
           q == n \div M
           r == n % M
<1>1. M \in Nat \ {0} /\ Blocks \in Nat
  BY CameraAssumption
<1>2. n = q * M + r /\ r \in 0..(M - 1) /\ q \in Nat
  BY <1>1, DivMod
<1>3. Sent(n) = Packet(1 + q, r)
  BY DEF Sent, Packet
<1>4. Sent(n + 1) = Packet(1 + ((n + 1) \div M), (n + 1) % M)
  BY DEF Sent, Packet
<1>5. Sent(n).frame = 1 + q /\ Sent(n).id = r
  BY <1>3 DEF Packet
<1> HIDE DEF q, r, M
<1>6. CASE r = Blocks
  <2>1. n + 1 = (q + 1) * M + 0 /\ q + 1 \in Nat /\ 0 \in 0..(M - 1)
    BY <1>1, <1>2, <1>6 DEF M
  <2>2. ((q + 1) * M + 0) % M = 0 /\ ((q + 1) * M + 0) \div M = q + 1
    BY <1>1, <2>1, DivModOf
  <2>3. Sent(n + 1) = Packet((1 + q) + 1, 0)
    BY <1>2, <1>4, <2>1, <2>2
  <2> QED
    BY <1>1, <1>2, <1>3, <1>5, <1>6, <2>3 DEF M, Following
<1>7. CASE r # Blocks
  <2>1. n + 1 = q * M + (r + 1) /\ r + 1 \in 0..(M - 1)
    BY <1>1, <1>2, <1>7 DEF M
  <2>2. (q * M + (r + 1)) % M = r + 1 /\ (q * M + (r + 1)) \div M = q
    BY <1>1, <1>2, <2>1, DivModOf
  <2>3. Sent(n + 1) = Packet(1 + q, r + 1)
    BY <1>4, <2>1, <2>2
  <2> QED
    BY <1>1, <1>2, <1>3, <1>5, <1>7, <2>3 DEF M, Following
<1> QED
  BY <1>6, <1>7

\* The thread moves on, and the line stays.
LEMMA OrderlyStays ==
  ASSUME NEW m \in Nat, NEW L, NEW L2, NEW c, NEW D, Orderly(L, m, c, D),
         \A j \in 1..m : L2[j] = L[j],
         L2[0].frame = L[0].frame, L[0].frame \notin D \cup {0} => L2[0] = L[0]
  PROVE  Orderly(L2, m, c, D)
<1>1. \A j \in 0..m : L2[j].frame = L[j].frame /\ (L[j].frame \notin D \cup {0} => L2[j] = L[j])
  OBVIOUS
<1>2. Numbered(L2, m, D)
  BY <1>1 DEF Orderly, Numbered
<1>3. InOrder(L2, m, c, D)
  BY <1>1 DEF Orderly, InOrder
<1>4. Ahead(L2, m, c, D)
  BY <1>1 DEF Orderly, Ahead
<1>5. Behind(L2, m, c, D)
  <2>1. m \in 0..m
    OBVIOUS
  <2> QED
    BY <1>1, <2>1 DEF Orderly, Behind, Packet
<1> QED
  BY <1>2, <1>3, <1>4, <1>5 DEF Orderly

\* The thread takes the next packet of the line.
LEMMA OrderlyMoves ==
  ASSUME NEW m \in Nat, m > 0, NEW L, NEW L2, NEW c, NEW D, Orderly(L, m, c, D),
         \A j \in 0..(m - 1) : L2[j] = L[j + 1]
  PROVE  Orderly(L2, m - 1, c, D)
<1>1. Numbered(L2, m - 1, D)
  <2> SUFFICES ASSUME NEW j \in 0..(m - 1), NEW k \in 0..(m - 1), j < k,
                      L2[j].frame = L2[k].frame, L2[j].frame \notin D \cup {0}
               PROVE  L2[k].id = L2[j].id + (k - j)
    BY DEF Numbered
  <2>1. j + 1 \in 0..m /\ k + 1 \in 0..m /\ (k + 1) - (j + 1) = k - j /\ j + 1 < k + 1
    OBVIOUS
  <2>2. L[k + 1].id = L[j + 1].id + ((k + 1) - (j + 1))
    BY <2>1 DEF Orderly, Numbered
  <2> QED
    BY <2>1, <2>2
<1>2. InOrder(L2, m - 1, c, D)
  <2> SUFFICES ASSUME NEW j \in 0..(m - 1), L2[j].frame \notin D \cup {0}
               PROVE  /\ L2[j].ok /\ L2[j].id <= Blocks
                      /\ j > 0 /\ L2[j - 1].frame # L2[j].frame => L2[j].id = 0
                      /\ j < m - 1 /\ L2[j].id < Blocks => L2[j + 1].frame = L2[j].frame
                      /\ j = m - 1 /\ L2[j].id < Blocks =>
                            c = Packet(L2[j].frame, L2[j].id + 1)
    BY DEF InOrder
  <2>1. /\ j + 1 \in 0..m /\ L2[j] = L[j + 1] /\ (j + 1) - 1 = j
        /\ j > 0 => L2[j - 1] = L[j]
        /\ j < m - 1 => L2[j + 1] = L[(j + 1) + 1]
    OBVIOUS
  <2>2. /\ L[j + 1].ok /\ L[j + 1].id <= Blocks
        /\ j + 1 > 0 /\ L[(j + 1) - 1].frame # L[j + 1].frame => L[j + 1].id = 0
        /\ j + 1 < m /\ L[j + 1].id < Blocks => L[(j + 1) + 1].frame = L[j + 1].frame
        /\ j + 1 = m /\ L[j + 1].id < Blocks => c = Packet(L[j + 1].frame, L[j + 1].id + 1)
    BY <2>1 DEF Orderly, InOrder
  <2> QED
    BY <2>1, <2>2
<1>3. Ahead(L2, m - 1, c, D)
  BY DEF Orderly, Ahead
<1>4. Behind(L2, m - 1, c, D)
  BY DEF Orderly, Behind
<1> QED
  BY <1>1, <1>2, <1>3, <1>4 DEF Orderly

\* The packet arrives as it was sent.
LEMMA OrderlyGets ==
  ASSUME NEW m \in Nat, NEW L \in [0..m -> AnyPacket], NEW L2, NEW D,
         NEW f \in Nat, NEW i \in 0..Blocks, Orderly(L, m, Packet(f, i), D),
         \A j \in 0..m : L2[j] = L[j], L2[m + 1] = Packet(f, i)
  PROVE  Orderly(L2, m + 1, Following(Packet(f, i)), D)
<1> DEFINE c == Packet(f, i)
           d == Following(c)
<1>1. c.frame = f /\ c.id = i /\ c.ok /\ Blocks \in Nat
  BY CameraAssumption DEF Packet
<1>2. /\ i = Blocks => d.frame = f + 1 /\ d.id = 0
      /\ i # Blocks => d = Packet(f, i + 1) /\ d.frame = f /\ d.id = i + 1
  BY <1>1 DEF Following, Packet
<1>3. \A j \in 0..m : L[j].frame \in Nat /\ L[j].id \in Nat
  BY DEF AnyPacket
<1>4. Numbered(L, m, D) /\ InOrder(L, m, c, D) /\ Ahead(L, m, c, D) /\ Behind(L, m, c, D)
  BY DEF Orderly
<1>5. m \in 0..m /\ L2[m + 1] = c
  OBVIOUS
<1> HIDE DEF c, d
<1>6. ASSUME NEW j \in 0..m, L[j].frame = f, f \notin D \cup {0}
      PROVE  i = L[j].id + ((m + 1) - j)
  <2>1. L[j].id < i
    BY <1>1, <1>4, <1>6 DEF Ahead
  <2>2. L[m] = Packet(f, i - 1)
    BY <1>1, <1>3, <1>4, <1>6, <2>1 DEF Behind
  <2>3. L[m].frame = f /\ L[m].id = i - 1
    BY <2>2 DEF Packet
  <2>4. CASE j = m
    BY <1>3, <2>3, <2>4
  <2>5. CASE j < m
    <3>1. L[m].id = L[j].id + (m - j)
      BY <1>4, <1>5, <1>6, <2>3, <2>5 DEF Numbered
    <3> QED
      BY <1>1, <1>3, <2>3, <3>1
  <2> QED
    BY <2>4, <2>5
<1>7. Numbered(L2, m + 1, D)
  <2> SUFFICES ASSUME NEW j \in 0..(m + 1), NEW k \in 0..(m + 1), j < k,
                      L2[j].frame = L2[k].frame, L2[j].frame \notin D \cup {0}
               PROVE  L2[k].id = L2[j].id + (k - j)
    BY DEF Numbered
  <2>1. j \in 0..m /\ L2[j] = L[j]
    OBVIOUS
  <2>2. CASE k = m + 1
    BY <1>1, <1>5, <1>6, <2>1, <2>2
  <2>3. CASE k # m + 1
    <3>1. k \in 0..m /\ L2[k] = L[k]
      BY <2>3
    <3> QED
      BY <1>4, <2>1, <3>1 DEF Numbered
  <2> QED
    BY <2>2, <2>3
<1>8. InOrder(L2, m + 1, d, D)
  <2> SUFFICES ASSUME NEW j \in 0..(m + 1), L2[j].frame \notin D \cup {0}
               PROVE  /\ L2[j].ok /\ L2[j].id <= Blocks
                      /\ j > 0 /\ L2[j - 1].frame # L2[j].frame => L2[j].id = 0
                      /\ j < m + 1 /\ L2[j].id < Blocks => L2[j + 1].frame = L2[j].frame
                      /\ j = m + 1 /\ L2[j].id < Blocks =>
                            d = Packet(L2[j].frame, L2[j].id + 1)
    BY DEF InOrder
  <2>1. CASE j = m + 1
    <3>1. L2[j] = c /\ L2[j - 1] = L[m] /\ f \notin D \cup {0}
      BY <1>1, <1>5, <2>1
    <3>2. i > 0 => L[m].frame = f
      BY <1>1, <1>4, <3>1 DEF Behind, Packet
    <3> QED
      BY <1>1, <1>2, <2>1, <3>1, <3>2
  <2>2. CASE j # m + 1
    <3>1. j \in 0..m /\ L2[j] = L[j] /\ (j > 0 => L2[j - 1] = L[j - 1])
          /\ (j < m => L2[j + 1] = L[j + 1])
      BY <2>2
    <3>2. /\ L[j].ok /\ L[j].id <= Blocks
          /\ j > 0 /\ L[j - 1].frame # L[j].frame => L[j].id = 0
          /\ j < m /\ L[j].id < Blocks => L[j + 1].frame = L[j].frame
          /\ j = m /\ L[j].id < Blocks => c = Packet(L[j].frame, L[j].id + 1)
      BY <1>4, <3>1 DEF InOrder
    <3>3. j = m /\ L[j].id < Blocks => c.frame = L[j].frame
      BY <3>2 DEF Packet
    <3> QED
      BY <1>5, <2>2, <3>1, <3>2, <3>3
  <2> QED
    BY <2>1, <2>2
<1>9. Ahead(L2, m + 1, d, D)
  <2> SUFFICES ASSUME NEW j \in 0..(m + 1)
               PROVE  /\ L2[j].frame <= d.frame
                      /\ L2[j].frame = d.frame /\ d.frame \notin D \cup {0} =>
                            L2[j].id < d.id
    BY DEF Ahead
  <2>1. CASE j = m + 1
    BY <1>1, <1>2, <1>5, <2>1
  <2>2. CASE j # m + 1
    <3>1. j \in 0..m /\ L2[j] = L[j]
      BY <2>2
    <3>2. L[j].frame <= f /\ (L[j].frame = f /\ f \notin D \cup {0} => L[j].id < i)
      BY <1>1, <1>4, <3>1 DEF Ahead
    <3> QED
      BY <1>2, <1>3, <3>1, <3>2
  <2> QED
    BY <2>1, <2>2
<1>10. Behind(L2, m + 1, d, D)
  <2>1. d.id > 0 => d.frame = f /\ d.id - 1 = i
    BY <1>2
  <2> QED
    BY <1>5, <2>1 DEF Behind, c
<1> QED
  BY <1>7, <1>8, <1>9, <1>10 DEF Orderly, c, d

\* The packet does not arrive as it was sent, and the line is disturbed behind its
\* k-th place.
LEMMA OrderlyHurt ==
  ASSUME NEW m \in Nat, NEW L \in [0..m -> AnyPacket], NEW n \in Nat, NEW L2, NEW D, NEW E,
         NEW f \in Nat, NEW i \in 0..Blocks, Orderly(L, m, Packet(f, i), D),
         NEW k \in 0..m, k <= n, \A j \in 0..k : L2[j] = L[j],
         \A j \in (k + 1)..m : L[j].frame \in E,
         \A j \in (k + 1)..n : L2[j].frame \in E /\ L2[j].frame \in Nat /\ L2[j].frame <= f,
         f \in E, D \subseteq E
  PROVE  Orderly(L2, n, Following(Packet(f, i)), E)
<1> DEFINE c == Packet(f, i)
           d == Following(c)
<1>1. c.frame = f /\ c.id = i /\ c.ok /\ Blocks \in Nat
  BY CameraAssumption DEF Packet
<1>2. d.frame \in {f, f + 1} /\ (d.frame = f + 1 => d.id = 0)
  BY <1>1 DEF Following, Packet
<1>3. \A j \in 0..m : L[j].frame \in Nat /\ L[j].id \in Nat
  BY DEF AnyPacket
<1>4. Numbered(L, m, D) /\ InOrder(L, m, c, D) /\ Ahead(L, m, c, D) /\ Behind(L, m, c, D)
  BY DEF Orderly
<1> HIDE DEF c, d
<1>5. ASSUME NEW j \in 0..n, L2[j].frame \notin E
      PROVE  j \in 0..k /\ j \in 0..m /\ L2[j] = L[j] /\ L[j].frame \notin D /\ L[j].frame # f
  <2>1. j \in 0..k
    BY <1>5
  <2>2. L2[j] = L[j] /\ j \in 0..m
    BY <2>1
  <2> QED
    BY <1>5, <2>1, <2>2
<1>6. Numbered(L2, n, E)
  <2> SUFFICES ASSUME NEW j \in 0..n, NEW h \in 0..n, j < h,
                      L2[j].frame = L2[h].frame, L2[j].frame \notin E \cup {0}
               PROVE  L2[h].id = L2[j].id + (h - j)
    BY DEF Numbered
  <2>1. /\ j \in 0..m /\ L2[j] = L[j] /\ L[j].frame \notin D
        /\ h \in 0..m /\ L2[h] = L[h]
    BY <1>5
  <2> QED
    BY <1>4, <2>1 DEF Numbered
<1>7. ASSUME NEW j \in 0..n, L2[j].frame \notin E \cup {0}
      PROVE  /\ L2[j].ok /\ L2[j].id <= Blocks
             /\ j > 0 /\ L2[j - 1].frame # L2[j].frame => L2[j].id = 0
             /\ L2[j].id < Blocks => j < k /\ L2[j + 1].frame = L2[j].frame
  <2>1. j \in 0..k /\ j \in 0..m /\ L2[j] = L[j] /\ L[j].frame \notin D \cup {0} /\ L[j].frame # f
    BY <1>5, <1>7
  <2>2. /\ L[j].ok /\ L[j].id <= Blocks
        /\ j > 0 /\ L[j - 1].frame # L[j].frame => L[j].id = 0
        /\ j < m /\ L[j].id < Blocks => L[j + 1].frame = L[j].frame
        /\ j = m /\ L[j].id < Blocks => c = Packet(L[j].frame, L[j].id + 1)
    BY <1>4, <2>1 DEF InOrder
  <2>3. j > 0 => L2[j - 1] = L[j - 1]
    BY <2>1
  <2>4. ASSUME L[j].id < Blocks
        PROVE  j < k /\ L2[j + 1].frame = L2[j].frame
    <3>1. j # m
      BY <1>1, <2>1, <2>2, <2>4 DEF Packet
    <3>2. L[j + 1].frame = L[j].frame
      BY <2>1, <2>2, <2>4, <3>1
    <3>3. j # k
      BY <1>7, <2>1, <3>1, <3>2
    <3> QED
      BY <2>1, <3>2, <3>3
  <2> QED
    BY <2>1, <2>2, <2>3, <2>4
<1>8. InOrder(L2, n, d, E)
  BY <1>7 DEF InOrder
<1>9. Ahead(L2, n, d, E)
  <2> SUFFICES ASSUME NEW j \in 0..n
               PROVE  /\ L2[j].frame <= d.frame
                      /\ L2[j].frame = d.frame /\ d.frame \notin E \cup {0} =>
                            L2[j].id < d.id
    BY DEF Ahead
  <2>1. L2[j].frame \in Nat /\ L2[j].frame <= f
    <3>1. CASE j \in 0..k
      <4>1. L2[j] = L[j] /\ j \in 0..m
        BY <3>1
      <4> QED
        BY <1>1, <1>3, <1>4, <4>1 DEF Ahead
    <3>2. CASE j \in (k + 1)..n
      BY <3>2
    <3> QED
      BY <3>1, <3>2
  <2> QED
    BY <1>2, <2>1
<1>10. Behind(L2, n, d, E)
  BY <1>2 DEF Behind
<1> QED
  BY <1>6, <1>8, <1>9, <1>10 DEF Orderly, c, d

\* What the proofs below need of the types.
LEMMA LineTypes ==
  ASSUME Shape
  PROVE  /\ Len(queue) \in Nat /\ Len(buffer) \in Nat /\ Blocks \in Nat
         /\ Line \in [0..Len(queue) -> AnyPacket]
         /\ Line[0] = Latest /\ \A j \in 1..Len(queue) : Line[j] = queue[j]
         /\ Coming.frame \in Nat /\ Coming.id \in 0..Blocks
         /\ Coming = Packet(Coming.frame, Coming.id)
         /\ sent' = sent + 1 => Coming' = Following(Coming)
<1>1. Len(queue) \in Nat /\ Len(buffer) \in Nat /\ Blocks \in Nat
  BY CameraAssumption DEF Shape
<1>2. Latest \in AnyPacket
  BY <1>1 DEF Shape, Latest, Packet, AnyPacket
<1>3. \A j \in 1..Len(queue) : queue[j] \in AnyPacket
  BY ElementOfSeq DEF Shape
<1>4. Line \in [0..Len(queue) -> AnyPacket]
  BY <1>1, <1>2, <1>3 DEF Line
<1>5. Line[0] = Latest /\ \A j \in 1..Len(queue) : Line[j] = queue[j]
  BY <1>1 DEF Line
<1>6. /\ Coming.frame \in Nat /\ Coming.id \in 0..Blocks
      /\ Coming = Packet(Coming.frame, Coming.id)
      /\ sent' = sent + 1 => Coming' = Following(Coming)
  BY SentNext DEF Shape, Coming
<1> QED
  BY <1>1, <1>4, <1>5, <1>6

LEMMA InitWhole ==
  ASSUME Init
  PROVE  WholeInv
<1>1. IInv
  BY InitInv
<1>2. /\ Len(queue) = 0 /\ lastFrame = 0 /\ stream = "none"
      /\ Line[0].frame = 0 /\ sent = 0 /\ packet.frame = 1 /\ ~started
  BY DEF Init, Line, Latest, Pending, Packet
<1>3. Coming.frame = 1 /\ Coming.id = 0
  <2>1. 0 = 0 * (Blocks + 1) + 0 /\ Blocks + 1 \in Nat \ {0} /\ 0 \in 0..((Blocks + 1) - 1)
    BY CameraAssumption
  <2>2. 0 \div (Blocks + 1) = 0 /\ 0 % (Blocks + 1) = 0
    BY <2>1, DivModOf
  <2> QED
    BY <1>2, <2>2 DEF Coming, Sent
<1>4. LineInv
  BY <1>2, <1>3 DEF LineInv, Orderly, Numbered, InOrder, Ahead, Behind
<1>5. Begun /\ Content
  BY <1>2 DEF Begun, Content, InNewFrameAction, Pending
<1> QED
  BY <1>1, <1>4, <1>5 DEF WholeInv

\* What a packet that overtakes others does to the buffer of the socket.
LEMMA Inserted ==
  ASSUME NEW S, NEW q \in Seq(S), NEW k \in 1..Len(q), NEW p \in S
  PROVE  /\ Len(InsertAt(q, k, p)) = Len(q) + 1
         /\ \A j \in 1..(k - 1) : InsertAt(q, k, p)[j] = q[j]
         /\ InsertAt(q, k, p)[k] = p
         /\ \A j \in (k + 1)..(Len(q) + 1) : InsertAt(q, k, p)[j] = q[j - 1]
<1> DEFINE a == SubSeq(q, 1, k - 1)
           b == SubSeq(q, k, Len(q))
           o == <<p>>
<1>1. a \in Seq(S) /\ Len(a) = k - 1 /\ \A j \in 1..(k - 1) : a[j] = q[j]
  OBVIOUS
<1>2. b \in Seq(S) /\ Len(b) = (Len(q) - k) + 1
      /\ \A j \in 1..((Len(q) - k) + 1) : b[j] = q[(k - 1) + j]
  OBVIOUS
<1>3. o \in Seq(S) /\ Len(o) = 1 /\ o[1] = p
  OBVIOUS
<1>4. InsertAt(q, k, p) = (a \o o) \o b
  BY DEF InsertAt
<1> HIDE DEF a, b, o
<1>5. Len(q) \in Nat /\ k \in Nat
  OBVIOUS
<1>6. a \o o \in Seq(S) /\ Len(a \o o) = k /\ (a \o o)[k] = p
      /\ \A j \in 1..(k - 1) : (a \o o)[j] = q[j]
  <2>1. /\ a \o o \in Seq(S) /\ Len(a \o o) = Len(a) + Len(o)
        /\ \A i \in 1..(Len(a) + Len(o)) :
              (a \o o)[i] = IF i <= Len(a) THEN a[i] ELSE o[i - Len(a)]
    BY <1>1, <1>3, ConcatProperties
  <2> QED
    BY <1>1, <1>3, <1>5, <2>1
<1> DEFINE d == a \o o
<1> HIDE DEF d
<1>7. /\ Len(d \o b) = Len(q) + 1
      /\ \A j \in 1..k : (d \o b)[j] = d[j]
      /\ \A j \in (k + 1)..(Len(q) + 1) : (d \o b)[j] = b[j - k]
  <2>1. d \in Seq(S) /\ Len(d) = k
    BY <1>6 DEF d
  <2>2. /\ Len(d \o b) = Len(d) + Len(b)
        /\ \A i \in 1..(Len(d) + Len(b)) :
              (d \o b)[i] = IF i <= Len(d) THEN d[i] ELSE b[i - Len(d)]
    BY <1>2, <2>1, ConcatProperties
  <2> QED
    BY <1>2, <1>5, <2>1, <2>2
<1>8. \A j \in (k + 1)..(Len(q) + 1) : b[j - k] = q[j - 1]
  <2> TAKE j \in (k + 1)..(Len(q) + 1)
  <2>1. j - k \in 1..((Len(q) - k) + 1) /\ (k - 1) + (j - k) = j - 1
    BY <1>5
  <2> QED
    BY <1>2, <2>1
<1>9. InsertAt(q, k, p) = d \o b
  BY <1>4 DEF d
<1>10. /\ \A j \in 1..(k - 1) : j \in 1..k /\ d[j] = q[j]
       /\ k \in 1..k /\ d[k] = p
  BY <1>5, <1>6 DEF d
<1> HIDE DEF a, b, o, d
<1>11. \A j \in 1..k : InsertAt(q, k, p)[j] = d[j]
  BY <1>7, <1>9
<1>12. \A j \in (k + 1)..(Len(q) + 1) : InsertAt(q, k, p)[j] = q[j - 1]
  BY <1>7, <1>8, <1>9
<1> QED
  BY <1>7, <1>9, <1>10, <1>11, <1>12, Zenon

\* The device and the network.
LEMMA NetworkWhole ==
  ASSUME WholeInv, Network
  PROVE  WholeInv'
<1>1. /\ UNCHANGED <<packet, lastFrame, buffer, stream, started, control>>
      /\ sent' = sent + 1 /\ damaged \subseteq damaged'
  BY DEF Network, SendPacket, DropPacket, LosePacket, ErrorPacket, DuplicatePacket, ReorderPacket,
         Send, frameVars
<1>2. IInv /\ IInv' /\ Shape /\ Shape' /\ LineInv /\ Begun /\ Content
  BY NetworkInv DEF WholeInv, IInv
<1> DEFINE m == Len(queue)
           c == Coming
           n == Len(queue')
<1>3. /\ m \in Nat /\ Line \in [0..m -> AnyPacket] /\ \A j \in 1..m : Line[j] = queue[j]
      /\ c.frame \in Nat /\ c.id \in 0..Blocks /\ c = Packet(c.frame, c.id)
      /\ Coming' = Following(c)
      /\ n \in Nat /\ Line'[0] = Line[0] /\ \A j \in 1..n : Line'[j] = queue'[j]
  <2>1. n \in Nat
    BY <1>2 DEF Shape
  <2>2. Latest' = Latest
    BY <1>1 DEF Latest
  <2>3. /\ Line'[0] = Latest' /\ \A j \in 1..n : Line'[j] = queue'[j]
    BY <2>1 DEF Line
  <2> QED
    BY <1>1, <1>2, <2>1, <2>2, <2>3, LineTypes
<1>4. c = Sent(sent) /\ c.frame > 0
  BY <1>2, SentNext DEF Coming, Shape
<1>5. \A j \in 1..m : queue[j].frame \in Nat /\ queue[j].frame > 0 /\ queue[j].frame <= c.frame
  <2>1. \A j \in 0..m : Line[j].frame \in Nat /\ Line[j].frame <= c.frame
    BY <1>2, <1>3 DEF LineInv, Orderly, Ahead, AnyPacket
  <2> QED
    BY <1>2, <1>3, <2>1 DEF Begun
<1>6. SUFFICES Orderly(Line', n, Following(c), damaged') /\ \A j \in 1..n : queue'[j].frame > 0
  <2>1. LineInv'
    BY <1>3, <1>6 DEF LineInv
  <2>2. Begun'
    BY <1>1, <1>2, <1>6 DEF Begun, InNewFrameAction
  <2>3. Content'
    BY <1>1, <1>2 DEF Content, InNewFrameAction, Pending
  <2> QED
    BY <1>2, <2>1, <2>2, <2>3 DEF WholeInv
<1>7. Orderly(Line, m, Packet(c.frame, c.id), damaged)
  BY <1>2, <1>3 DEF LineInv
<1> HIDE DEF m, n, c
<1>8. CASE SendPacket
  <2>1. queue' = Append(queue, c) /\ damaged' = damaged
    BY <1>4, <1>8 DEF SendPacket, Send
  <2>2. n = m + 1 /\ \A j \in 1..m : queue'[j] = queue[j]
    BY <1>2, <2>1 DEF Shape, m, n
  <2>3. queue'[m + 1] = c
    BY <1>2, <2>1 DEF Shape, m
  <2>4. (\A j \in 0..m : Line'[j] = Line[j]) /\ Line'[m + 1] = Packet(c.frame, c.id)
    BY <1>3, <2>2, <2>3
  <2>5. Orderly(Line', m + 1, Following(Packet(c.frame, c.id)), damaged)
    BY <1>3, <1>7, <2>4, OrderlyGets
  <2>6. \A j \in 1..n : queue'[j].frame > 0
    BY <1>3, <1>4, <1>5, <2>2, <2>3
  <2> QED
    BY <1>3, <2>1, <2>2, <2>5, <2>6
\* Otherwise the frame of the packet is damaged, and so are those of the packets
\* behind the k-th.
<1>9. ASSUME NEW k \in 0..m, k <= n, \A j \in 1..k : queue'[j] = queue[j],
             \A j \in (k + 1)..m : queue[j].frame \in damaged',
             \A j \in (k + 1)..n : queue'[j].frame = c.frame \/
                \E h \in (k + 1)..m : queue'[j].frame = queue[h].frame,
             c.frame \in damaged'
      PROVE  Orderly(Line', n, Following(c), damaged') /\ \A j \in 1..n : queue'[j].frame > 0
  <2>1. \A j \in 0..k : Line'[j] = Line[j]
    BY <1>3, <1>9
  <2>2. \A j \in (k + 1)..m : Line[j].frame \in damaged'
    BY <1>3, <1>9
  <2>3. ASSUME NEW j \in (k + 1)..n
        PROVE  /\ Line'[j] = queue'[j] /\ Line'[j].frame \in damaged'
               /\ Line'[j].frame \in Nat /\ Line'[j].frame <= c.frame
               /\ Line'[j].frame > 0
    <3>1. Line'[j] = queue'[j]
      BY <1>3
    <3>2. CASE queue'[j].frame = c.frame
      BY <1>3, <1>4, <1>9, <3>1, <3>2
    <3>3. CASE \E h \in (k + 1)..m : queue'[j].frame = queue[h].frame
      <4>1. PICK h \in (k + 1)..m : queue'[j].frame = queue[h].frame
        BY <3>3
      <4>2. h \in 1..m
        BY <1>3
      <4> QED
        BY <1>5, <1>9, <3>1, <4>1, <4>2
    <3> QED
      BY <1>9, <3>2, <3>3
  <2>4. Orderly(Line', n, Following(Packet(c.frame, c.id)), damaged')
    <3>1. /\ \A j \in (k + 1)..n : /\ Line'[j].frame \in damaged' /\ Line'[j].frame \in Nat
                                    /\ Line'[j].frame <= c.frame
          /\ c.frame \in damaged' /\ damaged \subseteq damaged' /\ k \in 0..m /\ k <= n
      BY <1>1, <1>9, <2>3
    <3> QED
      BY <1>3, <1>7, <2>1, <2>2, <3>1, OrderlyHurt
  <2>5. ASSUME NEW j \in 1..n
        PROVE  queue'[j].frame > 0
    <3>1. CASE j <= k
      <4>1. j \in 1..k /\ j \in 1..m
        BY <1>3, <3>1
      <4> QED
        BY <1>5, <1>9, <4>1
    <3>2. CASE j > k
      <4>1. j \in (k + 1)..n
        BY <3>2
      <4> QED
        BY <2>3, <4>1
    <3> QED
      BY <3>1, <3>2
  <2> QED
    BY <1>3, <2>4, <2>5
<1>10. CASE DropPacket \/ LosePacket
  <2>1. queue' = queue /\ c.frame \in damaged'
    BY <1>4, <1>10 DEF DropPacket, LosePacket, Send
  <2>2. n = m
    BY <2>1 DEF m, n
  <2> QED
    BY <1>3, <1>9, <2>1, <2>2
<1>11. CASE ErrorPacket
  <2> DEFINE e == [c EXCEPT !.ok = FALSE]
  <2>1. queue' = Append(queue, e) /\ c.frame \in damaged' /\ e.frame = c.frame
    BY <1>3, <1>4, <1>11 DEF ErrorPacket, Send, Packet
  <2> HIDE DEF e
  <2>2. n = m + 1 /\ (\A j \in 1..m : queue'[j] = queue[j]) /\ queue'[m + 1] = e
    BY <1>2, <2>1 DEF Shape, m, n
  <2>3. /\ m \in 0..m /\ m <= n
        /\ \A j \in (m + 1)..m : queue[j].frame \in damaged'
        /\ \A j \in (m + 1)..n : queue'[j].frame = c.frame
    <3>1. \A j \in (m + 1)..n : j = m + 1
      BY <1>3, <2>2
    <3>2. \A j \in (m + 1)..n : queue'[j].frame = c.frame
      BY <2>1, <2>2, <3>1
    <3>3. m \in 0..m /\ m <= n /\ \A j \in (m + 1)..m : queue[j].frame \in damaged'
      BY <1>3, <2>2
    <3> QED
      BY <3>2, <3>3
  <2> QED
    BY <1>9, <2>1, <2>2, <2>3
<1>12. CASE DuplicatePacket
  <2>1. queue' = queue \o <<c, c>> /\ c.frame \in damaged'
    BY <1>4, <1>12 DEF DuplicatePacket, Send
  <2>2. /\ n = m + 2 /\ \A j \in 1..m : queue'[j] = queue[j]
        /\ queue'[m + 1] = c /\ queue'[m + 2] = c
    BY <1>2, <2>1 DEF Shape, m, n
  <2>3. /\ m \in 0..m /\ m <= n
        /\ \A j \in (m + 1)..m : queue[j].frame \in damaged'
        /\ \A j \in (m + 1)..n : queue'[j].frame = c.frame
    <3>1. \A j \in (m + 1)..n : j = m + 1 \/ j = m + 2
      BY <1>3, <2>2
    <3> QED
      BY <1>3, <2>2, <3>1
  <2> QED
    BY <1>9, <2>1, <2>2, <2>3
<1>13. CASE ReorderPacket
  <2>1. PICK k \in 1..m : /\ queue' = InsertAt(queue, k, c) /\ c.frame \in damaged'
                          /\ \A j \in k..m : queue[j].frame \in damaged'
    BY <1>4, <1>13 DEF ReorderPacket, Send, m
  <2> DEFINE i == InsertAt(queue, k, c)
  <2>2. /\ Len(i) = m + 1 /\ \A j \in 1..(k - 1) : i[j] = queue[j]
        /\ i[k] = c /\ \A j \in (k + 1)..(m + 1) : i[j] = queue[j - 1]
    <3>1. c \in AnyPacket /\ queue \in Seq(AnyPacket) /\ k \in 1..Len(queue)
      BY <1>2, <1>4, SentIsPacket DEF Shape, m
    <3> HIDE DEF i
    <3> QED
      BY <3>1, Inserted DEF i, m
  <2> HIDE DEF i
  <2> DEFINE g == k - 1
  <2>3. queue' = i /\ n = m + 1
    BY <2>1, <2>2 DEF i, n
  <2>4. /\ g \in 0..m /\ g <= n /\ k = g + 1
        /\ \A j \in 1..g : queue'[j] = queue[j]
        /\ \A j \in (g + 1)..m : queue[j].frame \in damaged'
    BY <1>3, <2>1, <2>2, <2>3
  <2>5. ASSUME NEW j \in (g + 1)..n
        PROVE  queue'[j].frame = c.frame \/
                 \E h \in (g + 1)..m : queue'[j].frame = queue[h].frame
    <3>1. CASE j = k
      BY <2>2, <2>3, <3>1
    <3>2. CASE j # k
      <4>1. j \in (k + 1)..(m + 1) /\ j - 1 \in (g + 1)..m
        BY <1>3, <2>3, <2>4, <3>2
      <4> QED
        BY <2>2, <2>3, <4>1
    <3> QED
      BY <3>1, <3>2
  <2> HIDE DEF g
  <2> QED
    BY <1>9, <2>1, <2>4, <2>5
<1> QED
  BY <1>8, <1>10, <1>11, <1>12, <1>13 DEF Network

\* The thread takes the next packet.
LEMMA ReceiveWhole ==
  ASSUME WholeInv, Receive
  PROVE  WholeInv'
<1>1. IInv /\ Shape /\ Orderly(Line, Len(queue), Coming, damaged) /\ Begun /\ Content
  BY DEF WholeInv, IInv, LineInv
<1>2. IInv'
  BY <1>1, StreamInv DEF Stream
<1> DEFINE m == Len(queue)
<1>3. /\ m \in Nat /\ m > 0 /\ queue' = Tail(queue) /\ packet' = queue[1]
      /\ stream = "recv" /\ UNCHANGED <<sent, damaged, lastFrame, buffer, started, control>>
      /\ stream' = IF packet'.frame = lastFrame THEN "store"
                   ELSE IF started THEN "hand" ELSE "begin"
  BY <1>1 DEF Receive, streamLeaves, IInv, Shape, Reported
<1>4. Len(queue') = m - 1 /\ \A j \in 1..(m - 1) : queue'[j] = queue[j + 1]
  BY <1>1, <1>3 DEF Shape
<1>5. /\ Line[0] = Packet(lastFrame, Len(buffer)) /\ Line[1] = packet'
      /\ \A j \in 1..m : Line[j] = queue[j]
  BY <1>1, <1>3, LineTypes DEF Latest, Pending
<1>6. Line[0].frame = lastFrame /\ Line[0].id = Len(buffer)
  BY <1>5 DEF Packet
<1>7. /\ \A j \in 0..(m - 1) : Line'[j] = IF j = 0 THEN Latest' ELSE queue'[j]
      /\ Latest' = packet'
  BY <1>3, <1>4 DEF Line, Latest, Pending
<1>8. \A j \in 0..(m - 1) : Line'[j] = Line[j + 1]
  BY <1>3, <1>4, <1>5, <1>7
<1>9. LineInv'
  <2>1. Orderly(Line', m - 1, Coming, damaged)
    BY <1>1, <1>3, <1>8, OrderlyMoves
  <2> QED
    BY <1>3, <1>4, <2>1 DEF LineInv, Coming
<1>10. Begun'
  <2>1. packet'.frame > 0 /\ \A j \in 1..Len(queue') : queue'[j].frame > 0
    <3>1. 1 \in 1..m /\ \A j \in 1..(m - 1) : j + 1 \in 1..m
      BY <1>3
    <3> QED
      BY <1>1, <1>3, <1>4, <3>1 DEF Begun
  <2>2. started' \/ InNewFrameAction' => lastFrame' # 0
    BY <1>1, <1>3 DEF Begun, InNewFrameAction
  <2>3. control' \in {"start", "begin"} => stream' = "none"
    BY <1>1, <1>3 DEF Begun
  <2> QED
    BY <2>1, <2>2, <2>3 DEF Begun
<1>11. Len(buffer) \in Nat /\ Blocks \in Nat /\ 0 \in 0..m /\ 1 \in 0..m
  BY <1>1, <1>3, LineTypes
<1>12. ASSUME lastFrame \notin damaged \cup {0}
       PROVE  IF packet'.frame = lastFrame THEN packet'.id = Len(buffer) + 1
              ELSE Len(buffer) = Blocks
  <2>1. Line[0].frame = Line[1].frame => Line[1].id = Line[0].id + (1 - 0)
    BY <1>1, <1>6, <1>11, <1>12 DEF Orderly, Numbered
  <2>2. /\ Line[0].id <= Blocks
        /\ 0 < m /\ Line[0].id < Blocks => Line[0 + 1].frame = Line[0].frame
    BY <1>1, <1>6, <1>11, <1>12 DEF Orderly, InOrder
  <2> QED
    BY <1>3, <1>5, <1>6, <1>11, <2>1, <2>2
<1>13. packet'.frame # lastFrame /\ packet'.frame \notin damaged => packet'.id = 0
  <2>1. packet'.frame # 0
    BY <1>1, <1>3 DEF Begun
  <2>2. Line[1].frame \notin damaged \cup {0} /\ Line[1 - 1].frame # Line[1].frame => Line[1].id = 0
    BY <1>1, <1>11 DEF Orderly, InOrder
  <2> QED
    BY <1>5, <1>6, <2>1, <2>2
<1>14. Content'
  <2>1. ASSUME lastFrame \notin damaged \cup {0}
        PROVE  /\ \A b \in 1..Len(buffer) : buffer[b] = Packet(lastFrame, b)
               /\ stream' = "store" => packet'.id = Len(buffer) + 1
               /\ InNewFrameAction' => Len(buffer) = Blocks
    BY <1>1, <1>3, <1>12, <2>1 DEF Content, InNewFrameAction
  <2>2. stream' \in Pending \ {"store"} /\ packet'.frame \notin damaged => packet'.id = 0
    BY <1>3, <1>13
  <2> QED
    BY <1>3, <2>1, <2>2 DEF Content
<1> QED
  BY <1>2, <1>9, <1>10, <1>14 DEF WholeInv

\* The thread keeps the packet or does with it what it has to, and the line stays.
LEMMA LineStays ==
  ASSUME Shape, LineInv, UNCHANGED <<queue, sent, damaged>>, Latest'.frame = Latest.frame,
         Latest.frame \notin damaged \cup {0} => Latest' = Latest
  PROVE  LineInv'
<1>1. /\ Len(queue) \in Nat /\ Line[0] = Latest
      /\ \A j \in 1..Len(queue) : Line[j] = queue[j]
  BY LineTypes
<1>2. Line'[0] = Latest' /\ \A j \in 1..Len(queue) : Line'[j] = queue[j]
  BY <1>1 DEF Line
<1>3. Orderly(Line', Len(queue), Coming, damaged)
  BY <1>1, <1>2, OrderlyStays DEF LineInv
<1> QED
  BY <1>3 DEF LineInv, Coming

LEMMA BeginFrameWhole ==
  ASSUME WholeInv, BeginFrame
  PROVE  WholeInv'
<1>1. IInv /\ Shape /\ LineInv /\ Begun /\ Content
  BY DEF WholeInv, IInv
<1>2. IInv'
  BY <1>1, StreamInv DEF Stream
<1>3. /\ stream = "begin" /\ stream' = "store" /\ buffer' = <<>> /\ lastFrame' = packet.frame
      /\ UNCHANGED <<queue, packet, sent, damaged, control>>
  BY DEF BeginFrame, streamLeaves
<1>4. LineInv'
  <2>1. Latest = packet /\ Latest' = packet
    BY <1>3 DEF Latest, Pending
  <2> QED
    BY <1>1, <1>3, <2>1, LineStays
<1>5. Begun'
  BY <1>1, <1>3 DEF Begun, InNewFrameAction
<1>6. Content'
  BY <1>1, <1>3 DEF Content, InNewFrameAction, Pending
<1> QED
  BY <1>2, <1>4, <1>5, <1>6 DEF WholeInv

LEMMA StorePacketWhole ==
  ASSUME WholeInv, StorePacket
  PROVE  WholeInv'
<1>1. IInv /\ Shape /\ LineInv /\ Begun /\ Content
  BY DEF WholeInv, IInv
<1>2. IInv'
  BY <1>1, StreamInv DEF Stream
<1>3. /\ stream = "store" /\ stream' = "test" /\ packet.frame = lastFrame
      /\ buffer' = IF IsBlock(packet) THEN Append(buffer, packet) ELSE buffer
      /\ UNCHANGED <<queue, packet, sent, damaged, lastFrame, started, control>>
  BY <1>1 DEF StorePacket, streamLeaves, IInv, Current
<1>4. Latest = packet /\ Latest' = Packet(lastFrame, Len(buffer'))
  BY <1>3 DEF Latest, Pending
<1>5. ASSUME lastFrame \notin damaged \cup {0}
      PROVE  /\ Packet(lastFrame, Len(buffer')) = packet
             /\ \A b \in 1..Len(buffer') : buffer'[b] = Packet(lastFrame, b)
  <2>1. packet.ok /\ packet.id <= Blocks
    <3>1. Line[0] = packet /\ 0 \in 0..Len(queue)
      BY <1>1, <1>4, LineTypes
    <3> QED
      BY <1>1, <1>3, <1>5, <3>1 DEF LineInv, Orderly, InOrder
  <2>2. packet = Packet(lastFrame, packet.id) /\ packet.id \in Nat
    <3>1. packet.ok = TRUE
      BY <1>1, <2>1 DEF Shape, AnyPacket
    <3> QED
      BY <1>1, <1>3, <3>1 DEF Shape, AnyPacket, Packet
  <2>3. Len(buffer) \in Nat /\ Blocks \in Nat
    BY <1>1, LineTypes
  <2>4. CASE packet.id = Len(buffer) + 1
    <3>1. buffer' = Append(buffer, packet)
      BY <1>3, <2>1, <2>2, <2>3, <2>4 DEF IsBlock
    <3>2. /\ Len(buffer') = Len(buffer) + 1 /\ buffer'[Len(buffer) + 1] = packet
          /\ \A b \in 1..Len(buffer) : buffer'[b] = buffer[b]
      BY <1>1, <3>1 DEF Shape
    <3> QED
      BY <1>1, <1>5, <2>2, <2>3, <2>4, <3>2 DEF Content
  <2>5. CASE packet.id = 0 /\ Len(buffer) = 0
    BY <1>3, <2>2, <2>5 DEF IsBlock
  <2> QED
    BY <1>1, <1>3, <1>5, <2>4, <2>5 DEF Content
<1>6. LineInv'
  <2>1. Latest'.frame = Latest.frame
    BY <1>3, <1>4 DEF Packet
  <2> QED
    BY <1>1, <1>3, <1>4, <1>5, <2>1, LineStays
<1>7. Begun'
  BY <1>1, <1>3 DEF Begun, InNewFrameAction
<1>8. Content'
  BY <1>3, <1>5 DEF Content, InNewFrameAction, Pending
<1> QED
  BY <1>2, <1>6, <1>7, <1>8 DEF WholeInv

\* What does not touch the frame, of this thread or of another.
LEMMA StepWhole ==
  ASSUME WholeInv,
         \/ Poll \/ ReceiveFails \/ HandFrame \/ TestExit \/ WaitNextObject \/ AddFrame \/ EndStream
         \/ Collector \/ StopSource \/ Control \/ Owner \/ UseFreed \/ UNCHANGED vars
  PROVE  WholeInv'
<1>1. IInv /\ Shape /\ LineInv /\ Begun /\ Content
  BY DEF WholeInv, IInv
<1>2. IInv'
  BY <1>1, StreamInv, OthersInv DEF Stream
<1>3. /\ UNCHANGED <<queue, sent, damaged, packet, lastFrame, buffer, started>>
      /\ \/ UNCHANGED <<stream, control>>
         \/ /\ stream' = stream
            /\ control' \in {"start", "begin"} => control \in {"start", "begin"}
         \/ control \in {"start", "begin"} /\ stream' \notin Pending /\ control' = "loop"
         \/ /\ control' = control /\ stream # "none"
            /\ \/ stream \notin Pending /\ stream' \notin Pending
               \/ /\ stream \in Pending \ {"store"} /\ stream' \in Pending \ {"store"}
                  /\ InNewFrameAction' => InNewFrameAction
  <2>1. CASE Poll \/ ReceiveFails \/ HandFrame \/ TestExit \/ WaitNextObject \/ AddFrame \/ EndStream
    BY <2>1 DEF Poll, ReceiveFails, HandFrame, TestExit, WaitNextObject, AddFrame, EndStream,
       frameVars, streamLeaves, Pending, InNewFrameAction
  <2>2. CASE Collector \/ StopSource \/ Owner \/ UseFreed \/ UNCHANGED vars
    BY <2>2 DEF Collector, ShareObject, GatherReport, LastGather, StopSource, Owner, Destroy,
       WakeThreads, CloseSockets, FreeCamera, JoinControl, UseFreed, collectorLeaves, ownerLeaves,
       deviceVars, frameVars, vars
  <2>3. CASE Control
    BY <2>3 DEF Control, WaitFirstObject, BeginStream, LeaveLoop, StopStream, CloseControl,
       JoinStream, controlLeaves, frameVars, Pending
  <2> QED
    BY <2>1, <2>2, <2>3
<1>4. LineInv'
  <2>1. Latest' = Latest
    BY <1>1, <1>3 DEF Latest, Begun, Pending
  <2> QED
    BY <1>1, <1>3, <2>1, LineStays
<1>5. Begun'
  BY <1>1, <1>3 DEF Begun, InNewFrameAction, Pending
<1>6. Content'
  BY <1>1, <1>3 DEF Content, InNewFrameAction, Pending
<1> QED
  BY <1>2, <1>4, <1>5, <1>6 DEF WholeInv

LEMMA NextWhole ==
  ASSUME WholeInv, [Next]_vars
  PROVE  WholeInv'
BY NetworkWhole, ReceiveWhole, BeginFrameWhole, StorePacketWhole, StepWhole DEF Next, Stream

LEMMA WholeIsComplete ==
  ASSUME WholeInv
  PROVE  CompleteIfIntact
<1> SUFFICES ASSUME InNewFrameAction, lastFrame \notin damaged
             PROVE  buffer = [b \in 1..Blocks |-> [frame |-> lastFrame, id |-> b, ok |-> TRUE]]
  BY DEF CompleteIfIntact
<1>1. Shape /\ Begun /\ Content
  BY DEF WholeInv, IInv
<1>2. lastFrame \notin damaged \cup {0}
  BY <1>1 DEF Begun
<1>3. Len(buffer) = Blocks /\ \A b \in 1..Len(buffer) : buffer[b] = Packet(lastFrame, b)
  BY <1>1, <1>2 DEF Content
<1>4. buffer = [b \in 1..Len(buffer) |-> buffer[b]]
  BY <1>1 DEF Shape
<1> QED
  BY <1>3, <1>4 DEF Packet

\* Blocks are stored one behind the other, without a look at their numbers; still, of
\* every frame whose packets the network has neither lost, nor damaged, doubled or
\* moved, new_frame_action gets all blocks, in their order, however many blocks and
\* frames there are and whatever happens to the packets of other frames
\* (gige_camera.c:159-196).
THEOREM IntactAlwaysComplete == Spec => []CompleteIfIntact
<1>1. Init => WholeInv
  BY InitWhole
<1>2. WholeInv /\ [Next]_vars => WholeInv'
  BY NextWhole
<1>3. WholeInv => CompleteIfIntact
  BY WholeIsComplete
<1> QED
  BY <1>1, <1>2, <1>3, PTL DEF Spec

-----------------------------------------------------------------------------
(* The control channel.  Its variables have the names they have in         *)
(* GvcpControl, but those that are named above; those of the discovery,    *)
(* which GvcpControl contains, are declared in Discovery.                  *)

CONSTANTS CameraSizes, MaxWatches, MaxMishaps

VARIABLES
    phase, step, awaited, packetId, lastId, value, size, answer, toCamera, toHost, camera,
    mishaps, watches, over, destroyer

Gvcp == INSTANCE GvcpControl
          WITH sent <- awaited, faults <- mishaps, owner <- destroyer, MaxFaults <- MaxMishaps

\* An answer is awaited only within a script.
Scripts == {"init", "ticks", "start", "watch", "stop"}
Awaiting == step \in Nat \ {0} /\ (awaited => Gvcp!AtCommand /\ phase \in Scripts)

\* The camera that the scripts depend on stays the one that was found.
Settled == phase # "find" => finder = "used"

\* As long as no packet is late or doubled, there is no packet on the way but the last
\* command or the answer to it.
Mine(p) == p.id = packetId /\ p.reg = Gvcp!Command.reg
OnlyMine ==
    Gvcp!Punctual =>
        \/ toCamera = <<>> /\ toHost = <<>>
        \/ awaited /\ toHost = <<>> /\ \E c : toCamera = <<c>> /\ Mine(c)
        \/ awaited /\ toCamera = <<>> /\ \E a : toHost = <<a>> /\ Mine(a)

ControlInv == mishaps \in [Gvcp!FaultKinds -> Nat] /\ Awaiting /\ Settled /\ OnlyMine

LEMMA OnePacket ==
  ASSUME NEW p
  PROVE  /\ Append(<<>>, p) = <<p>> /\ Head(<<p>>) = p /\ Tail(<<p>>) = <<>> /\ <<p>> # <<>>
  OBVIOUS

LEMMA Counted ==
  ASSUME mishaps \in [Gvcp!FaultKinds -> Nat],
         mishaps' = mishaps \/ \E k \in Gvcp!FaultKinds : Gvcp!Faulty(k)
  PROVE  mishaps' \in [Gvcp!FaultKinds -> Nat]
  BY DEF Gvcp!Faulty

LEMMA NoScript ==
  ASSUME step \in Nat \ {0}, Gvcp!AtCommand
  PROVE  phase \in Scripts
  BY DEF Gvcp!AtCommand, Gvcp!Script, Scripts

LEMMA InitControl ==
  ASSUME Gvcp!Init
  PROVE  ControlInv
  BY DEF Gvcp!Init, Gvcp!FindInit, Gvcp!FaultKinds, ControlInv, Awaiting, Settled, OnlyMine

\* The source sends a command and takes the next packet for its answer.
LEMMA CommandControl ==
  ASSUME ControlInv, Gvcp!Send \/ Gvcp!Receive \/ Gvcp!RunOutOfTime
  PROVE  ControlInv'
<1>1. CASE Gvcp!Send
  <2>1. /\ ~awaited /\ awaited' = TRUE /\ Gvcp!AtCommand
        /\ UNCHANGED <<phase, step, finder, dev, toHost, mishaps>>
    BY <1>1 DEF Gvcp!Send, Gvcp!findVars
  <2>2. Awaiting' /\ Settled'
    BY <2>1, NoScript DEF ControlInv, Awaiting, Settled, Gvcp!AtCommand, Gvcp!Script, Gvcp!Ops
  <2>3. OnlyMine'
    <3>1. /\ toCamera' = Append(toCamera, [id |-> Gvcp!NewId, op |-> Gvcp!Command.op,
                                           reg |-> Gvcp!Command.reg, val |-> Gvcp!Command.val])
          /\ packetId' = Gvcp!NewId
      BY <1>1 DEF Gvcp!Send
    <3>2. PICK c : toCamera' = Append(toCamera, c) /\ c.id = packetId' /\ c.reg = Gvcp!Command.reg
      BY <3>1
    <3>3. Gvcp!Command' = Gvcp!Command /\ (Gvcp!Punctual' <=> Gvcp!Punctual)
      BY <2>1 DEF Gvcp!Command, Gvcp!Script, Gvcp!Ops, Gvcp!Punctual
    <3>4. Mine(c)'
      BY <3>2, <3>3 DEF Mine
    <3>5. Gvcp!Punctual => toCamera' = <<c>> /\ toHost' = <<>>
      BY <2>1, <3>2, OnePacket DEF ControlInv, OnlyMine
    <3> QED
      BY <2>1, <3>3, <3>4, <3>5 DEF OnlyMine
  <2> QED
    BY <2>1, <2>2, <2>3 DEF ControlInv, Gvcp!FaultKinds
<1>2. CASE Gvcp!Receive
  <2>1. /\ awaited /\ awaited' = FALSE /\ toHost # <<>> /\ toHost' = Tail(toHost) /\ step' = step + 1
        /\ phase' \in {phase, "corrupt"} /\ UNCHANGED <<finder, toCamera, mishaps>>
    BY <1>2 DEF Gvcp!Receive, Gvcp!TakeValue, Gvcp!findVars
  <2>2. Awaiting' /\ Settled'
    BY <2>1 DEF ControlInv, Awaiting, Settled, Scripts
  <2>3. OnlyMine'
    BY <2>1, OnePacket DEF ControlInv, OnlyMine, Gvcp!Punctual
  <2> QED
    BY <2>1, <2>2, <2>3 DEF ControlInv, Gvcp!FaultKinds
<1>3. CASE Gvcp!RunOutOfTime
  <2>1. /\ awaited /\ awaited' = FALSE /\ toHost = <<>> /\ step' = step + 1
        /\ UNCHANGED <<phase, finder, toCamera, toHost>>
        /\ IF toCamera = <<>> THEN mishaps' = mishaps ELSE Gvcp!Faulty("late")
    BY <1>3 DEF Gvcp!RunOutOfTime, Gvcp!findVars
  <2>2. Awaiting' /\ Settled'
    BY <2>1 DEF ControlInv, Awaiting, Settled
  <2>3. OnlyMine'
    BY <2>1 DEF ControlInv, OnlyMine, Gvcp!Punctual, Gvcp!Faulty, Gvcp!FaultKinds
  <2> QED
    BY <2>1, <2>2, <2>3, Counted DEF ControlInv, Gvcp!FaultKinds
<1> QED
  BY <1>1, <1>2, <1>3

\* The network loses and doubles packets, and the camera answers.
LEMMA LinkControl ==
  ASSUME ControlInv, Gvcp!Network
  PROVE  ControlInv'
<1>1. UNCHANGED <<phase, step, awaited, packetId, finder, dev>>
  BY DEF Gvcp!Network, Gvcp!Acknowledge, Gvcp!Lose, Gvcp!Double, Gvcp!Expire, Gvcp!findVars,
         Gvcp!sourceVars
<1>2. Awaiting' /\ Settled' /\ Gvcp!Command' = Gvcp!Command
  BY <1>1 DEF ControlInv, Awaiting, Settled, Gvcp!AtCommand, Gvcp!Command, Gvcp!Script, Gvcp!Ops
<1>3. \A p : Mine(p)' <=> Mine(p)
  BY <1>1, <1>2 DEF Mine
<1>4. CASE Gvcp!Acknowledge
  <2>1. /\ toCamera # <<>> /\ toCamera' = Tail(toCamera) /\ mishaps' = mishaps
        /\ \E a : toHost' = Append(toHost, a) /\ a.id = Head(toCamera).id
                                           /\ a.reg = Head(toCamera).reg
    BY <1>4 DEF Gvcp!Acknowledge
  <2>2. OnlyMine'
    BY <1>1, <1>2, <2>1, OnePacket DEF ControlInv, OnlyMine, Mine, Gvcp!Punctual
  <2> QED
    BY <1>2, <2>1, <2>2 DEF ControlInv
<1>5. CASE Gvcp!Lose
  <2>1. /\ \/ toCamera # <<>> /\ toCamera' = Tail(toCamera) /\ UNCHANGED toHost
           \/ toHost # <<>> /\ toHost' = Tail(toHost) /\ UNCHANGED toCamera
        /\ Gvcp!Faulty("lose")
    BY <1>5 DEF Gvcp!Lose
  <2>2. Gvcp!Punctual' => Gvcp!Punctual
    BY <2>1 DEF ControlInv, Gvcp!Punctual, Gvcp!Faulty, Gvcp!FaultKinds
  <2>3. OnlyMine'
    BY <1>1, <1>2, <2>1, <2>2, OnePacket DEF ControlInv, OnlyMine, Mine
  <2> QED
    BY <1>2, <2>1, <2>3, Counted DEF ControlInv, Gvcp!FaultKinds
<1>6. CASE Gvcp!Double
  <2>1. Gvcp!Faulty("double")
    BY <1>6 DEF Gvcp!Double
  <2>2. ~Gvcp!Punctual'
    BY <2>1 DEF ControlInv, Gvcp!Punctual, Gvcp!Faulty, Gvcp!FaultKinds
  <2> QED
    BY <1>2, <2>1, <2>2, Counted DEF ControlInv, OnlyMine, Gvcp!FaultKinds
<1>7. CASE Gvcp!Expire
  <2>1. UNCHANGED <<toCamera, toHost>> /\ Gvcp!Faulty("expire")
    BY <1>7 DEF Gvcp!Expire
  <2>2. Gvcp!Punctual' => Gvcp!Punctual
    BY <2>1 DEF ControlInv, Gvcp!Punctual, Gvcp!Faulty, Gvcp!FaultKinds
  <2>3. OnlyMine'
    BY <1>1, <1>2, <2>1, <2>2 DEF ControlInv, OnlyMine, Mine
  <2> QED
    BY <1>2, <2>1, <2>3, Counted DEF ControlInv, Gvcp!FaultKinds
<1> QED
  BY <1>4, <1>5, <1>6, <1>7 DEF Gvcp!Network

\* Between two commands, and between two scripts, no answer is awaited.
LEMMA ScriptControl ==
  ASSUME ControlInv,
         \/ Gvcp!CameraInit \/ Gvcp!SizeKnown \/ Gvcp!StartThread \/ Gvcp!FirstObject \/ Gvcp!Started
         \/ Gvcp!Loop \/ Gvcp!Watched \/ Gvcp!Slept \/ Gvcp!Stopped \/ Gvcp!Skip
  PROVE  ControlInv'
<1>1. /\ ~awaited /\ awaited' = awaited /\ UNCHANGED <<toCamera, toHost, mishaps>>
      /\ step' \in {step, 1, step + 1}
      /\ phase' # "find" => finder' = "used"
  BY DEF ControlInv, Awaiting, Settled, Scripts, Gvcp!CameraInit, Gvcp!SizeKnown, Gvcp!StartThread,
         Gvcp!FirstObject, Gvcp!Started, Gvcp!Loop, Gvcp!Watched, Gvcp!Slept, Gvcp!Stopped,
         Gvcp!Skip, Gvcp!Call, Gvcp!Become, Gvcp!linkVars, Gvcp!findVars
<1> QED
  BY <1>1 DEF ControlInv, Awaiting, Settled, OnlyMine, Gvcp!Punctual

LEMMA OtherControl ==
  ASSUME ControlInv,
         \/ Gvcp!FindNext /\ UNCHANGED <<Gvcp!sourceVars, Gvcp!linkVars, Gvcp!ownerVars>>
         \/ Gvcp!StreamEnds \/ Gvcp!SourceDestroy \/ Gvcp!FreeCamera \/ UNCHANGED Gvcp!vars
  PROVE  ControlInv'
<1>1. UNCHANGED <<phase, step, awaited, packetId, toCamera, toHost, mishaps>>
  BY DEF Gvcp!StreamEnds, Gvcp!SourceDestroy, Gvcp!FreeCamera, Gvcp!vars, Gvcp!sourceVars,
         Gvcp!linkVars
<1>2. phase # "find" => UNCHANGED <<finder, dev>>
  <2>1. finder = "used" => ~Gvcp!FindNext
    BY DEF Gvcp!FindNext, Gvcp!Broadcast, Gvcp!Answer, Gvcp!Waited, Gvcp!Listen, Gvcp!Quiet, Gvcp!Select
  <2> QED
    BY <2>1 DEF ControlInv, Settled, Gvcp!StreamEnds, Gvcp!SourceDestroy, Gvcp!FreeCamera,
       Gvcp!vars, Gvcp!findVars
<1>3. awaited => UNCHANGED <<finder, dev>>
  BY <1>2 DEF ControlInv, Awaiting, Scripts
<1>4. awaited => (Gvcp!AtCommand' <=> Gvcp!AtCommand) /\ Gvcp!Command' = Gvcp!Command
  BY <1>1, <1>3 DEF Gvcp!AtCommand, Gvcp!Command, Gvcp!Script, Gvcp!Ops
<1> QED
  BY <1>1, <1>2, <1>4 DEF ControlInv, Awaiting, Settled, OnlyMine, Mine, Gvcp!Punctual

LEMMA NextControl ==
  ASSUME ControlInv, [Gvcp!Next]_(Gvcp!vars)
  PROVE  ControlInv'
  BY CommandControl, LinkControl, ScriptControl, OtherControl DEF Gvcp!Next, Gvcp!Source

\* A step that ends the waiting of a command takes its answer, or none.
LEMMA AnswerMatches ==
  ASSUME ControlInv, [Gvcp!Next]_(Gvcp!vars), ~awaited', awaited, Gvcp!Punctual
  PROVE  \A a \in answer' : a.id = packetId /\ a.reg = Gvcp!Command.reg
<1>1. Gvcp!Receive \/ Gvcp!RunOutOfTime
  BY DEF ControlInv, Gvcp!Next, Gvcp!vars, Gvcp!sourceVars, Gvcp!Source, Gvcp!Network,
     Gvcp!CameraInit, Gvcp!SizeKnown, Gvcp!StartThread, Gvcp!FirstObject, Gvcp!Started, Gvcp!Loop,
     Gvcp!Watched, Gvcp!Slept, Gvcp!Stopped, Gvcp!Skip, Gvcp!Send, Gvcp!StreamEnds,
     Gvcp!SourceDestroy, Gvcp!FreeCamera, Gvcp!Acknowledge, Gvcp!Lose, Gvcp!Double, Gvcp!Expire
<1>2. CASE Gvcp!Receive
  <2>1. toHost # <<>> /\ answer' = {Head(toHost)}
    BY <1>2 DEF Gvcp!Receive
  <2> QED
    BY <2>1, OnePacket DEF ControlInv, OnlyMine, Mine
<1>3. CASE Gvcp!RunOutOfTime
  BY <1>3 DEF Gvcp!RunOutOfTime
<1> QED
  BY <1>1, <1>2, <1>3

\* Answers are told apart by nothing, yet the one that is taken for the answer to a
\* command is its answer, however many packets are lost, as long as none is late or
\* comes twice: whatever the scripts are that the camera needs
\* (gvcp.c, listen_packet_ack_new).
THEOREM PunctualAnswersAlwaysMatch == Gvcp!Spec => Gvcp!PunctualAnswersMatch
<1>1. Gvcp!Init => ControlInv
  BY InitControl
<1>2. ControlInv /\ [Gvcp!Next]_(Gvcp!vars) => ControlInv'
  BY NextControl
<1>3. ControlInv /\ [Gvcp!Next]_(Gvcp!vars) =>
          [~awaited' /\ awaited /\ Gvcp!Punctual =>
             \A a \in answer' : a.id = packetId /\ a.reg = Gvcp!Command.reg]_(Gvcp!vars)
  BY AnswerMatches
<1> QED
  BY <1>1, <1>2, <1>3, PTL DEF Gvcp!Spec, Gvcp!PunctualAnswersMatch

-----------------------------------------------------------------------------
(* How the camera is found.                                                *)

\* An answer that is read, or waits to be read.
Known(a) == \E k \in 1..Len(devices) : devices[k] = a.from
Waiting(a) == \E k \in 1..Len(inbox[a.interface]) : inbox[a.interface][k] = a

Addresses == {a.from : a \in Answers}

FindTypes ==
    /\ at \in Nat \ {0}
    /\ inbox \in [DOMAIN Interfaces -> Seq(Answers)]
    /\ devices \in Seq(Addresses)
    /\ answered \subseteq Answers /\ inTime \subseteq answered

\* What is in a buffer came on that interface.
Sorted ==
    \A i \in DOMAIN Interfaces : \A k \in 1..Len(inbox[i]) :
        inbox[i][k] \in answered /\ inbox[i][k].interface = i

\* Nothing is read, and nothing is taken to be in time, before the waiting is over.
Unread ==
    finder \in {"start", "wait"} =>
        at = 1 /\ inTime = {} /\ (finder = "start" => answered = {}) /\ \A a \in answered : Waiting(a)

\* An answer that was in time is read with its interface.
InTimeKept ==
    finder \in {"listen", "none"} /\ ~broken =>
        \A a \in inTime : Gvcp!Accepted(a) =>
            Known(a) \/ (a.interface >= at /\ Waiting(a))

\* No device comes from nowhere.
DevicesAnswered ==
    \A k \in 1..Len(devices) : \E a \in answered : a.from = devices[k] /\ Gvcp!Accepted(a)

FindInv ==
    FindTypes /\ Sorted /\ Unread /\ InTimeKept /\ DevicesAnswered /\ Gvcp!AnsweredInTimeIsFound

\* The interfaces are a sequence and answers come on one of them (DiscoveryAssumption).
Listed ==
    /\ Len(Interfaces) \in Nat \ {0} /\ DOMAIN Interfaces = 1..Len(Interfaces)
    /\ \A a \in Answers : a.interface \in DOMAIN Interfaces

LEMMA InitFind ==
  ASSUME Listed, Gvcp!Init
  PROVE  FindInv
<1>1. /\ finder = "start" /\ at = 1 /\ answered = {} /\ inTime = {} /\ devices = <<>>
      /\ inbox = [i \in DOMAIN Interfaces |-> <<>>]
  BY DEF Gvcp!Init, Gvcp!FindInit, Gvcp!Ifaces
<1> QED
  BY <1>1 DEF FindInv, FindTypes, Sorted, Unread, InTimeKept, DevicesAnswered,
     Gvcp!AnsweredInTimeIsFound

\* An answer comes.
LEMMA AnswerFind ==
  ASSUME Listed, FindInv, NEW a \in Answers, Gvcp!Answer(a)
  PROVE  FindInv'
<1>1. /\ finder \in {"wait", "listen"} /\ answered' = answered \cup {a}
      /\ inbox' = IF a.interface >= at THEN [inbox EXCEPT ![a.interface] = Append(@, a)] ELSE inbox
      /\ UNCHANGED <<finder, wanted, at, inTime, broken, devices, dev>>
  BY DEF Gvcp!Answer
<1>2. FindTypes /\ Sorted /\ Unread /\ InTimeKept /\ DevicesAnswered /\ a.interface \in DOMAIN Interfaces
  BY DEF FindInv, Listed
<1>3. ASSUME NEW i \in DOMAIN Interfaces
      PROVE  /\ inbox'[i] \in Seq(Answers) /\ Len(inbox[i]) \in Nat
             /\ \A k \in 1..Len(inbox[i]) : inbox'[i][k] = inbox[i][k]
             /\ IF i = a.interface /\ a.interface >= at
                THEN Len(inbox'[i]) = Len(inbox[i]) + 1 /\ inbox'[i][Len(inbox[i]) + 1] = a
                ELSE inbox'[i] = inbox[i]
  <2>1. inbox[i] \in Seq(Answers) /\ Len(inbox[i]) \in Nat
    BY <1>2 DEF FindTypes
  <2>2. inbox'[i] = IF i = a.interface /\ a.interface >= at THEN Append(inbox[i], a) ELSE inbox[i]
    BY <1>1, <1>2 DEF FindTypes
  <2> QED
    BY <2>1, <2>2, AppendProperties
<1>4. FindTypes'
  BY <1>1, <1>2, <1>3 DEF FindTypes
<1>5. \A i \in DOMAIN Interfaces : \A k \in 1..Len(inbox'[i]) :
         \/ k \in 1..Len(inbox[i]) /\ inbox'[i][k] = inbox[i][k]
         \/ i = a.interface /\ inbox'[i][k] = a
  BY <1>3
<1>6. Sorted'
  BY <1>1, <1>2, <1>5 DEF Sorted
<1>7. ASSUME NEW b \in Answers, Waiting(b)
      PROVE  Waiting(b)'
  <2>1. PICK k \in 1..Len(inbox[b.interface]) : inbox[b.interface][k] = b
    BY <1>7 DEF Waiting
  <2>2. b.interface \in DOMAIN Interfaces
    BY DEF Listed
  <2>3. k \in 1..Len(inbox'[b.interface]) /\ inbox'[b.interface][k] = b
    BY <1>3, <2>1, <2>2
  <2> QED
    BY <2>3 DEF Waiting
<1>8. a.interface >= at => Waiting(a)'
  BY <1>2, <1>3 DEF Waiting
<1>9. Unread'
  BY <1>1, <1>2, <1>7, <1>8 DEF Unread, FindTypes, Listed
<1>10. InTimeKept'
  BY <1>1, <1>2, <1>7 DEF InTimeKept, Known, FindTypes
<1>11. DevicesAnswered' /\ Gvcp!AnsweredInTimeIsFound'
  BY <1>1, <1>2 DEF DevicesAnswered, Gvcp!AnsweredInTimeIsFound
<1> QED
  BY <1>4, <1>6, <1>9, <1>10, <1>11 DEF FindInv

\* One answer is read.
LEMMA ListenFind ==
  ASSUME Listed, FindInv, Gvcp!Listen
  PROVE  FindInv'
<1>1. /\ finder = "listen" /\ at \in DOMAIN Interfaces /\ inbox[at] # <<>>
      /\ UNCHANGED <<finder, wanted, answered, inTime, dev>>
  BY DEF Gvcp!Listen, Gvcp!Ifaces
<1>2. FindTypes /\ Sorted /\ Unread /\ InTimeKept /\ DevicesAnswered
  BY DEF FindInv
<1>3. Unread' /\ Gvcp!AnsweredInTimeIsFound'
  BY <1>1 DEF Unread, Gvcp!AnsweredInTimeIsFound
<1> DEFINE a == Head(inbox[at])
<1>4. /\ Len(inbox[at]) \in Nat \ {0} /\ a = inbox[at][1] /\ a \in Answers
      /\ Tail(inbox[at]) \in Seq(Answers) /\ Len(Tail(inbox[at])) = Len(inbox[at]) - 1
      /\ \A k \in 1..(Len(inbox[at]) - 1) : Tail(inbox[at])[k] = inbox[at][k + 1]
  <2>1. inbox[at] \in Seq(Answers)
    BY <1>1, <1>2 DEF FindTypes
  <2> QED
    BY <1>1, <2>1, HeadTailProperties
<1>5. a \in answered /\ a.interface = at /\ a.from \in Addresses
  BY <1>1, <1>2, <1>4 DEF Sorted, Addresses
<1> HIDE DEF a
\* The answer is taken from the buffer, and its device is known if it counts.
<1>6. ASSUME inbox' = [inbox EXCEPT ![at] = Tail(@)], at' = at, broken' = broken,
             \/ devices' = Append(devices, a.from) /\ Gvcp!Accepted(a)
             \/ devices' = devices /\ ~Gvcp!Accepted(a)
      PROVE  FindInv'
  <2>1. /\ devices' \in Seq(Addresses) /\ Len(devices) \in Nat
        /\ \A k \in 1..Len(devices) : k \in 1..Len(devices') /\ devices'[k] = devices[k]
        /\ \A k \in 1..Len(devices') : k \notin 1..Len(devices) =>
               devices'[k] = a.from /\ Gvcp!Accepted(a)
        /\ Gvcp!Accepted(a) => \E k \in 1..Len(devices') : devices'[k] = a.from
    <3>1. devices \in Seq(Addresses) /\ Len(devices) \in Nat
      BY <1>2 DEF FindTypes
    <3>2. CASE devices' = Append(devices, a.from)
      <4>1. /\ devices' \in Seq(Addresses) /\ Len(devices') = Len(devices) + 1
            /\ \A k \in 1..Len(devices) : devices'[k] = devices[k]
            /\ devices'[Len(devices) + 1] = a.from
        BY <1>5, <3>1, <3>2, AppendProperties
      <4>2. Gvcp!Accepted(a)
        BY <1>6, <3>1, <4>1
      <4>3. Len(devices) + 1 \in 1..Len(devices')
        BY <3>1, <4>1
      <4> QED
        BY <3>1, <4>1, <4>2, <4>3
    <3>3. CASE devices' = devices /\ ~Gvcp!Accepted(a)
      BY <3>1, <3>3
    <3> QED
      BY <1>6, <3>2, <3>3
  <2>2. ASSUME NEW i \in DOMAIN Interfaces
        PROVE  /\ inbox'[i] \in Seq(Answers)
               /\ \A k \in 1..Len(inbox'[i]) :
                      \E h \in 1..Len(inbox[i]) : inbox'[i][k] = inbox[i][h]
               /\ \A h \in 1..Len(inbox[i]) :
                      \/ i = at /\ inbox[i][h] = a
                      \/ \E k \in 1..Len(inbox'[i]) : inbox'[i][k] = inbox[i][h]
    <3>1. CASE i = at
      <4>1. inbox'[i] = Tail(inbox[at])
        BY <1>2, <1>6, <3>1 DEF FindTypes
      <4>2. \A k \in 1..Len(inbox'[i]) : k + 1 \in 1..Len(inbox[i]) /\ inbox'[i][k] = inbox[i][k + 1]
        BY <1>4, <3>1, <4>1
      <4>3. \A h \in 1..Len(inbox[i]) : h # 1 =>
               h - 1 \in 1..Len(inbox'[i]) /\ inbox'[i][h - 1] = inbox[i][h]
        BY <1>4, <3>1, <4>1
      <4> QED
        BY <1>4, <3>1, <4>1, <4>2, <4>3
    <3>2. CASE i # at
      <4>1. inbox'[i] = inbox[i] /\ inbox[i] \in Seq(Answers)
        BY <1>2, <1>6, <3>2 DEF FindTypes
      <4> QED
        BY <4>1
    <3> QED
      BY <3>1, <3>2
  <2>3. FindTypes'
    <3>1. /\ inbox \in [DOMAIN Interfaces -> Seq(Answers)] /\ at \in Nat \ {0}
          /\ answered \subseteq Answers /\ inTime \subseteq answered
      BY <1>2 DEF FindTypes
    <3>2. inbox' \in [DOMAIN Interfaces -> Seq(Answers)]
      BY <1>1, <1>4, <1>6, <3>1
    <3>3. devices' \in Seq(Addresses)
      BY <2>1
    <3>4. at' = at /\ answered' = answered /\ inTime' = inTime
      BY <1>1, <1>6
    <3>5. at' \in Nat \ {0} /\ answered' \subseteq Answers /\ inTime' \subseteq answered'
      BY <3>1, <3>4, Zenon
    <3> QED
      BY <3>2, <3>3, <3>5, Zenon DEF FindTypes
  <2>4. Sorted'
    <3> SUFFICES ASSUME NEW i \in DOMAIN Interfaces, NEW k \in 1..Len(inbox'[i])
                 PROVE  inbox'[i][k] \in answered' /\ inbox'[i][k].interface = i
      BY Zenon DEF Sorted
    <3>1. PICK h \in 1..Len(inbox[i]) : inbox'[i][k] = inbox[i][h]
      BY <2>2
    <3>2. inbox[i][h] \in answered /\ inbox[i][h].interface = i
      BY <1>2, Zenon DEF Sorted
    <3>3. answered' = answered
      BY <1>1
    <3> QED
      BY <3>1, <3>2, <3>3, Zenon
  <2>5. InTimeKept'
    <3>0. at' = at /\ broken' = broken /\ inTime' = inTime
      BY <1>1, <1>6
    <3> SUFFICES ASSUME ~broken, NEW b \in inTime, Gvcp!Accepted(b)
                 PROVE  Known(b)' \/ (b.interface >= at /\ Waiting(b)')
      BY <3>0 DEF InTimeKept
    <3>1. CASE Known(b)
      BY <2>1, <3>1 DEF Known
    <3>2. CASE b.interface >= at /\ Waiting(b)
      <4> DEFINE i == b.interface
      <4>1. PICK h \in 1..Len(inbox[i]) : inbox[i][h] = b
        BY <3>2 DEF Waiting
      <4>2. i \in DOMAIN Interfaces
        BY <1>2 DEF FindTypes, Listed
      <4> HIDE DEF i
      <4>3. b = a \/ \E k \in 1..Len(inbox'[i]) : inbox'[i][k] = b
        BY <2>2, <4>1, <4>2
      <4>4. CASE b = a
        BY <2>1, <4>4 DEF Known
      <4>5. CASE \E k \in 1..Len(inbox'[i]) : inbox'[i][k] = b
        BY <3>2, <4>5 DEF Waiting, i
      <4> QED
        BY <4>3, <4>4, <4>5
    <3> QED
      BY <1>1, <1>2, <3>1, <3>2 DEF InTimeKept
  <2>6. DevicesAnswered'
    BY <1>1, <1>2, <1>5, <2>1 DEF DevicesAnswered
  <2> QED
    BY <1>3, <2>3, <2>4, <2>5, <2>6 DEF FindInv
<1>7. CASE broken' = TRUE /\ at' = at + 1 /\ UNCHANGED <<inbox, devices>>
  <2>1. FindTypes'
    BY <1>1, <1>2, <1>7 DEF FindTypes
  <2>2. Sorted' /\ DevicesAnswered'
    BY <1>1, <1>2, <1>7 DEF Sorted, DevicesAnswered
  <2>3. InTimeKept'
    BY <1>7 DEF InTimeKept
  <2> QED
    BY <1>3, <2>1, <2>2, <2>3 DEF FindInv
<1>8. \/ /\ inbox' = [inbox EXCEPT ![at] = Tail(@)] /\ at' = at /\ broken' = broken
         /\ \/ devices' = Append(devices, a.from) /\ Gvcp!Accepted(a)
            \/ devices' = devices /\ ~Gvcp!Accepted(a)
      \/ broken' = TRUE /\ at' = at + 1 /\ UNCHANGED <<inbox, devices>>
  BY DEF Gvcp!Listen, Gvcp!AddDevice, Gvcp!IgnoreAnswer, a
<1> QED
  BY <1>6, <1>7, <1>8

\* The waiting is over; the next interface; the choice of the device.
LEMMA SearchFind ==
  ASSUME Listed, FindInv, Gvcp!Broadcast \/ Gvcp!Waited \/ Gvcp!Quiet \/ Gvcp!Select
  PROVE  FindInv'
<1>1. FindTypes /\ Sorted /\ Unread /\ InTimeKept /\ DevicesAnswered
  BY DEF FindInv
<1>2. UNCHANGED <<wanted, answered, inbox, broken, devices>> /\ Sorted' /\ DevicesAnswered'
  BY <1>1 DEF Gvcp!Broadcast, Gvcp!Waited, Gvcp!Quiet, Gvcp!Select, Sorted, DevicesAnswered
<1>3. \A b : (Known(b)' <=> Known(b)) /\ (Waiting(b)' <=> Waiting(b))
  BY <1>2 DEF Known, Waiting
<1>4. CASE Gvcp!Broadcast
  BY <1>1, <1>2, <1>3, <1>4 DEF Gvcp!Broadcast, FindInv, FindTypes, Unread, InTimeKept,
     Gvcp!AnsweredInTimeIsFound
<1>5. CASE Gvcp!Waited
  <2>1. finder = "wait" /\ finder' = "listen" /\ inTime' = answered /\ at' = at
    BY <1>5 DEF Gvcp!Waited
  <2>2. InTimeKept'
    BY <1>1, <1>2, <1>3, <2>1 DEF InTimeKept, Unread, FindTypes, Listed
  <2> QED
    BY <1>1, <1>2, <2>1, <2>2 DEF FindInv, FindTypes, Unread, Gvcp!AnsweredInTimeIsFound
<1>6. CASE Gvcp!Quiet
  <2>1. /\ finder = "listen" /\ at \in DOMAIN Interfaces /\ inbox[at] = <<>> /\ at' = at + 1
        /\ UNCHANGED <<finder, inTime, dev>>
    BY <1>6 DEF Gvcp!Quiet, Gvcp!Ifaces
  <2>2. FindTypes'
    BY <1>1, <1>2, <2>1 DEF FindTypes
  <2>3. ASSUME ~broken, NEW b \in inTime, Gvcp!Accepted(b)
        PROVE  Known(b) \/ (b.interface >= at + 1 /\ Waiting(b))
    <3>1. Waiting(b) => b.interface # at
      BY <2>1 DEF Waiting
    <3>2. at \in Nat /\ b.interface \in Nat
      BY <1>1 DEF FindTypes, Listed
    <3>3. Known(b) \/ (b.interface >= at /\ Waiting(b))
      BY <1>1, <2>1, <2>3 DEF InTimeKept
    <3> QED
      BY <3>1, <3>2, <3>3
  <2>4. InTimeKept'
    BY <1>2, <1>3, <2>1, <2>3 DEF InTimeKept
  <2> QED
    BY <1>2, <2>1, <2>2, <2>4 DEF FindInv, Unread, Gvcp!AnsweredInTimeIsFound
<1>7. CASE Gvcp!Select
  <2>1. /\ finder = "listen" /\ at \notin DOMAIN Interfaces /\ UNCHANGED <<at, inTime>>
        /\ \/ finder' = "found" /\ \E k \in DOMAIN devices : devices[k] = wanted /\ dev' = devices[k]
           \/ finder' = "none" /\ \A k \in DOMAIN devices : devices[k] # wanted
    BY <1>7 DEF Gvcp!Select, Gvcp!Ifaces
  <2>2. DOMAIN devices = 1..Len(devices)
    BY <1>1 DEF FindTypes
  <2>3. ASSUME ~broken, NEW b \in inTime, Gvcp!Accepted(b)
        PROVE  Known(b)
    <3>1. ~(b.interface >= at)
      BY <1>1, <2>1 DEF FindTypes, Listed
    <3> QED
      BY <1>1, <2>1, <2>3, <3>1 DEF InTimeKept
  <2>4. Gvcp!AnsweredInTimeIsFound'
    <3>1. CASE finder' = "found"
      BY <1>1, <1>2, <2>1, <2>2, <3>1 DEF Gvcp!AnsweredInTimeIsFound, DevicesAnswered
    <3>2. CASE finder' = "none"
      BY <1>2, <2>1, <2>2, <2>3, <3>2 DEF Gvcp!AnsweredInTimeIsFound, Known
    <3> QED
      BY <2>1, <3>1, <3>2
  <2>5. InTimeKept'
    BY <1>2, <1>3, <2>1, <2>3 DEF InTimeKept
  <2> QED
    BY <1>1, <1>2, <2>1, <2>4, <2>5 DEF FindInv, FindTypes, Unread
<1> QED
  BY <1>4, <1>5, <1>6, <1>7

\* gige_camera_init lets go of what was found; nothing else touches it.
LEMMA ControlFind ==
  ASSUME Listed, FindInv,
         Gvcp!Source \/ Gvcp!StreamEnds \/ Gvcp!SourceDestroy \/ Gvcp!FreeCamera \/ Gvcp!Network
           \/ UNCHANGED Gvcp!vars
  PROVE  FindInv'
<1>1. CASE Gvcp!CameraInit
  BY <1>1 DEF Gvcp!CameraInit, Gvcp!Ifaces, FindInv, FindTypes, Sorted, Unread, InTimeKept,
     DevicesAnswered, Gvcp!AnsweredInTimeIsFound
<1>2. CASE UNCHANGED Gvcp!findVars
  BY <1>2 DEF Gvcp!findVars, FindInv, FindTypes, Sorted, Unread, InTimeKept, DevicesAnswered, Known,
     Waiting, Gvcp!AnsweredInTimeIsFound
<1> QED
  BY <1>1, <1>2 DEF Gvcp!Source, Gvcp!SizeKnown, Gvcp!StartThread, Gvcp!FirstObject, Gvcp!Started,
     Gvcp!Loop, Gvcp!Watched, Gvcp!Slept, Gvcp!Stopped, Gvcp!Send, Gvcp!Skip, Gvcp!Receive,
     Gvcp!RunOutOfTime, Gvcp!StreamEnds, Gvcp!SourceDestroy, Gvcp!FreeCamera, Gvcp!Network,
     Gvcp!Acknowledge, Gvcp!Lose, Gvcp!Double, Gvcp!Expire, Gvcp!vars

LEMMA NextFind ==
  ASSUME Listed, FindInv, [Gvcp!Next]_(Gvcp!vars)
  PROVE  FindInv'
  BY AnswerFind, ListenFind, SearchFind, ControlFind DEF Gvcp!Next, Gvcp!FindNext

\* For any interfaces and any answers, in whatever order these come and are read: a
\* camera that has answered when the waiting is over is found, unless a socket fails,
\* and only a camera that has answered (listen_discovery_answer, device_find).
THEOREM AnsweredInTimeIsAlwaysFound == Gvcp!Spec => []AnsweredInTimeIsFound
<1> USE DiscoveryAssumption
<1>1. Listed
  BY DEF Listed, Ifaces
<1>2. Gvcp!Init => FindInv
  BY <1>1, InitFind
<1>3. FindInv /\ [Gvcp!Next]_(Gvcp!vars) => FindInv'
  BY <1>1, NextFind
<1>4. FindInv => AnsweredInTimeIsFound
  BY DEF FindInv, AnsweredInTimeIsFound, Gvcp!AnsweredInTimeIsFound, Accepted, Gvcp!Accepted,
     Loopback, Gvcp!Loopback
<1> QED
  BY <1>2, <1>3, <1>4, PTL DEF Gvcp!Spec
=============================================================================
