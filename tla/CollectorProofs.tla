--------------------------- MODULE CollectorProofs ---------------------------
(***************************************************************************)
(* Proofs about Collector, for any number of sources, objects and frames:  *)
(* sources that store frames fill the object that is not given away yet,   *)
(* and the object that is given away is complete.                          *)
(*                                                                         *)
(* An object makes a round: first_action creates it (empty_ready), the     *)
(* collecting thread shares it, each source fills it and reports, the      *)
(* thread gathers the reports (data_ready), first_action gives it away.    *)
(* The invariant says where the object is: Turn for the round between      *)
(* first_action and the thread, Token for the one of each source.          *)
(***************************************************************************)
EXTENDS Collector, TLAPS

-----------------------------------------------------------------------------
(* The inductive invariant.                                                *)

\* The current object is given away between TakeObject and MakeObject only.
Handing ==
    /\ data = made /\ handed \subseteq 0..data
    /\ action # "idle" => made < MaxObjects
    /\ data \in handed => action = "make"

Stopping == collect \in {"last", "done"} => exitFlag

\* No object will be given away any more.
Over == action = "idle" /\ exitFlag

\* Sources may store frames.
Filling ==
    \/ collect \in {"share", "gather"}
    \/ collect = "last" /\ \E s \in Sources : ~srcExit[s] \/ srcPc[s] = "store"

\* While sources fill the object it is not at first_action, and while a new object
\* waits to be shared, first_action is not at another one.
Turn ==
    /\ Filling => Over \/ (action # "make" /\ dataReady = 0 /\ emptyReady = 0)
    /\ collect \notin {"last", "done"} /\ emptyReady > 0
          => Over \/ (action # "make" /\ dataReady = 0 /\ emptyReady = 1)
    /\ action = "make" => dataReady = 0 \/ exitFlag
    /\ dataReady <= 1 \/ exitFlag

\* The thread has not yet shared the object with source s, or has its report.
Idle(s) ==
    \/ collect \in {"start", "check", "wait", "done"}
    \/ collect = "share" /\ i <= s
    \/ collect \in {"gather", "last"} /\ i > s

Running == {"test", "read", "add", "store", "counted"}

\* A source that has not stopped has its object, waits for it, or has reported it.
Token(s) ==
    \/ srcPc[s] \in {"start", "posted", "wait"} /\ srcReady[s] = 0 /\ srcEmpty[s] = 0 /\ Idle(s)
    \/ srcPc[s] \in {"start", "posted", "wait"} /\ srcReady[s] = 0 /\ srcEmpty[s] = 1 /\ ~Idle(s)
    \/ srcPc[s] \in Running /\ srcReady[s] = 0 /\ srcEmpty[s] = 0 /\ ~Idle(s)
    \/ srcPc[s] \in {"posted", "wait"} /\ srcReady[s] = 1 /\ srcEmpty[s] = 0 /\ ~Idle(s)

Tokens == \A s \in Sources : ~srcExit[s] => Token(s)

\* It has the name of the current object.
Shared == \A s \in Sources : ~srcExit[s] /\ ~Idle(s) => srcData[s] = data

\* A source that stores a frame, even one that was told to stop meanwhile, has not
\* reported the object.
Storing ==
    \A s \in Sources : srcPc[s] = "store" =>
        /\ ~Idle(s) /\ srcReady[s] = 0
        /\ srcData[s] = data

IInv == TypeOK /\ Handing /\ Stopping /\ Turn /\ Tokens /\ Shared /\ Storing

LEMMA InitInv ==
  ASSUME Init
  PROVE  IInv
<1> USE CollectorAssumption DEF Init, Objects
<1>1. TypeOK
  <2>1. frames \in [Objects -> [Sources -> Nat]]
    <3>1. [s \in Sources |-> 0] \in [Sources -> Nat]
      OBVIOUS
    <3> QED
      BY <3>1
  <2>2. 0 \in Objects /\ 1 \in 1..(SourcesCnt + 1)
    OBVIOUS
  <2> HIDE DEF Objects
  <2> QED
    BY <2>1, <2>2 DEF TypeOK, CollectPlaces, SourcePlaces
<1>2. Handing /\ Stopping /\ Turn
  BY DEF Handing, Stopping, Turn, Filling
<1>3. Tokens /\ Shared /\ Storing
  BY DEF Tokens, Token, Shared, Storing, Idle, Sources
<1> QED
  BY <1>1, <1>2, <1>3 DEF IInv

-----------------------------------------------------------------------------
(* first_action.                                                           *)

\* A step of first_action does not touch the sources.
LEMMA ActionLeavesSources ==
  ASSUME IInv, UNCHANGED <<collectVars, sourceVars, exitFlag, owner>>,
         data' = data \/ (action = "make" /\ ~Over)
  PROVE  Stopping' /\ Tokens' /\ Shared' /\ Storing' /\ (Filling' <=> Filling)
<1> USE DEF collectVars, sourceVars
<1>1. Stopping' /\ Tokens' /\ (Filling' <=> Filling)
  BY DEF IInv, Stopping, Tokens, Token, Idle, Filling
<1>2. ASSUME NEW s \in Sources, ~Idle(s), ~srcExit[s] \/ srcPc[s] = "store"
      PROVE  data' = data
  BY <1>2 DEF IInv, TypeOK, CollectPlaces, Idle, Turn, Filling
<1>3. Shared' /\ Storing'
  BY <1>2 DEF IInv, Shared, Storing, Idle
<1> QED
  BY <1>1, <1>3

LEMMA FirstActionInv ==
  ASSUME IInv, FirstAction
  PROVE  IInv'
<1> USE CollectorAssumption DEF IInv, collectVars, sourceVars, actionVars, Objects
<1>1. CASE CallAction
  <2>1. TypeOK' /\ Handing' /\ data' = data
    BY <1>1 DEF CallAction, TypeOK, Handing
  <2>2. Stopping' /\ Tokens' /\ Shared' /\ Storing' /\ (Filling' <=> Filling)
    BY <1>1, <2>1, ActionLeavesSources DEF CallAction
  <2>3. Turn'
    BY <1>1, <2>2 DEF CallAction, Turn, Over
  <2> QED
    BY <2>1, <2>2, <2>3
<1>2. CASE CallStopped
  <2>1. TypeOK' /\ Handing' /\ data' = data
    BY <1>2 DEF CallStopped, TypeOK, Handing
  <2>2. Stopping' /\ Tokens' /\ Shared' /\ Storing' /\ (Filling' <=> Filling)
    BY <1>2, <2>1, ActionLeavesSources DEF CallStopped
  <2>3. Turn'
    BY <1>2, <2>2 DEF CallStopped, Turn, Over
  <2> QED
    BY <2>1, <2>2, <2>3
<1>3. CASE TakeObject
  <2>1. TypeOK' /\ Handing' /\ data' = data
    BY <1>3 DEF TakeObject, TypeOK, Handing
  <2>2. Stopping' /\ Tokens' /\ Shared' /\ Storing' /\ (Filling' <=> Filling)
    BY <1>3, <2>1, ActionLeavesSources DEF TakeObject
  <2>3. Turn'
    BY <1>3, <2>2 DEF TakeObject, Turn, Over, TypeOK
  <2> QED
    BY <2>1, <2>2, <2>3
<1>4. CASE MakeObject
  <2>1. TypeOK' /\ Handing'
    BY <1>4 DEF MakeObject, TypeOK, Handing
  <2>2. Stopping' /\ Tokens' /\ Shared' /\ Storing' /\ (Filling' <=> Filling)
    BY <1>4, ActionLeavesSources DEF MakeObject, Over
  <2>3. Turn'
    BY <1>4, <2>2 DEF MakeObject, Turn, Over, TypeOK
  <2> QED
    BY <2>1, <2>2, <2>3
<1> QED
  BY <1>1, <1>2, <1>3, <1>4 DEF FirstAction

-----------------------------------------------------------------------------
(* collect_data_thread.                                                    *)

LEMMA WaitEmptyInv ==
  ASSUME IInv, WaitEmpty
  PROVE  IInv'
<1> USE CollectorAssumption DEF IInv, WaitEmpty, actionVars, collectVars, sourceVars
<1>0. i \in 1..SourcesCnt => i \in Sources
  BY DEF Sources
<1>1. TypeOK'
  BY <1>0 DEF TypeOK, CollectPlaces
<1>2. Handing' /\ Stopping'
  BY DEF TypeOK, Handing, Stopping
<1>3. Turn'
  BY DEF TypeOK, Turn, Over, Filling, Stopping, Storing, Idle
<1>4. Tokens'
  <2> SUFFICES ASSUME NEW s \in Sources, ~srcExit'[s] PROVE Token(s)'
    BY DEF Tokens
  <2>1. ~srcExit[s] /\ Token(s) /\ s \in 1..SourcesCnt
    BY DEF TypeOK, Tokens, Sources
  <2> QED
    BY <1>0, <2>1 DEF TypeOK, Token, Idle, Running
<1>5. Shared'
  BY <1>0 DEF TypeOK, Shared, Idle, Sources
<1>6. Storing'
  <2> SUFFICES ASSUME NEW s \in Sources, srcPc'[s] = "store"
               PROVE  ~Idle(s)' /\ srcReady'[s] = 0 /\ srcData'[s] = data'
    BY DEF Storing
  <2>1. /\ srcPc[s] = "store" /\ ~Idle(s) /\ srcReady[s] = 0 /\ srcData[s] = data
        /\ s \in 1..SourcesCnt
    BY DEF TypeOK, Storing, Sources
  <2> QED
    BY <1>0, <2>1 DEF TypeOK, Idle
<1> QED
  BY <1>1, <1>2, <1>3, <1>4, <1>5, <1>6

LEMMA ShareInv ==
  ASSUME IInv, Share
  PROVE  IInv'
<1> USE CollectorAssumption DEF IInv, Share, actionVars, collectVars, sourceVars
<1>0. i \in 1..SourcesCnt => i \in Sources
  BY DEF Sources
<1>1. TypeOK'
  BY <1>0 DEF TypeOK, CollectPlaces
<1>2. Handing' /\ Stopping'
  BY DEF TypeOK, Handing, Stopping
<1>3. Turn'
  BY DEF TypeOK, Turn, Over, Filling, Stopping, Storing, Idle
<1>4. Tokens'
  <2> SUFFICES ASSUME NEW s \in Sources, ~srcExit'[s] PROVE Token(s)'
    BY DEF Tokens
  <2>1. ~srcExit[s] /\ Token(s) /\ s \in 1..SourcesCnt
    BY DEF TypeOK, Tokens, Sources
  <2> QED
    BY <1>0, <2>1 DEF TypeOK, Token, Idle, Running
<1>5. Shared'
  BY <1>0 DEF TypeOK, Shared, Idle, Sources
<1>6. Storing'
  <2> SUFFICES ASSUME NEW s \in Sources, srcPc'[s] = "store"
               PROVE  ~Idle(s)' /\ srcReady'[s] = 0 /\ srcData'[s] = data'
    BY DEF Storing
  <2>1. /\ srcPc[s] = "store" /\ ~Idle(s) /\ srcReady[s] = 0 /\ srcData[s] = data
        /\ s \in 1..SourcesCnt
    BY DEF TypeOK, Storing, Sources
  <2> QED
    BY <1>0, <2>1 DEF TypeOK, Idle
<1> QED
  BY <1>1, <1>2, <1>3, <1>4, <1>5, <1>6

LEMMA TestLoopInv ==
  ASSUME IInv, TestLoop
  PROVE  IInv'
<1> USE CollectorAssumption DEF IInv, TestLoop, actionVars, collectVars, sourceVars
<1>0. i \in 1..SourcesCnt => i \in Sources
  BY DEF Sources
<1>1. TypeOK'
  BY <1>0 DEF TypeOK, CollectPlaces
<1>2. Handing' /\ Stopping'
  BY DEF TypeOK, Handing, Stopping
<1>3. Turn'
  BY DEF TypeOK, Turn, Over, Filling, Stopping, Storing, Idle
<1>4. Tokens'
  <2> SUFFICES ASSUME NEW s \in Sources, ~srcExit'[s] PROVE Token(s)'
    BY DEF Tokens
  <2>1. ~srcExit[s] /\ Token(s) /\ s \in 1..SourcesCnt
    BY DEF TypeOK, Tokens, Sources
  <2> QED
    BY <1>0, <2>1 DEF TypeOK, Token, Idle, Running
<1>5. Shared'
  BY <1>0 DEF TypeOK, Shared, Idle, Sources
<1>6. Storing'
  <2> SUFFICES ASSUME NEW s \in Sources, srcPc'[s] = "store"
               PROVE  ~Idle(s)' /\ srcReady'[s] = 0 /\ srcData'[s] = data'
    BY DEF Storing
  <2>1. /\ srcPc[s] = "store" /\ ~Idle(s) /\ srcReady[s] = 0 /\ srcData[s] = data
        /\ s \in 1..SourcesCnt
    BY DEF TypeOK, Storing, Sources
  <2> QED
    BY <1>0, <2>1 DEF TypeOK, Idle
<1> QED
  BY <1>1, <1>2, <1>3, <1>4, <1>5, <1>6

LEMMA GatherInv ==
  ASSUME IInv, Gather
  PROVE  IInv'
<1> USE CollectorAssumption DEF IInv, Gather, actionVars, collectVars, sourceVars
<1>0. i \in 1..SourcesCnt => i \in Sources
  BY DEF Sources
<1>1. TypeOK'
  BY <1>0 DEF TypeOK, CollectPlaces
<1>2. Handing' /\ Stopping'
  BY DEF TypeOK, Handing, Stopping
<1>3. Turn'
  BY DEF TypeOK, Turn, Over, Filling, Stopping, Storing, Idle
<1>4. Tokens'
  <2> SUFFICES ASSUME NEW s \in Sources, ~srcExit'[s] PROVE Token(s)'
    BY DEF Tokens
  <2>1. ~srcExit[s] /\ Token(s) /\ s \in 1..SourcesCnt
    BY DEF TypeOK, Tokens, Sources
  <2> QED
    BY <1>0, <2>1 DEF TypeOK, Token, Idle, Running
<1>5. Shared'
  BY <1>0 DEF TypeOK, Shared, Idle, Sources
<1>6. Storing'
  <2> SUFFICES ASSUME NEW s \in Sources, srcPc'[s] = "store"
               PROVE  ~Idle(s)' /\ srcReady'[s] = 0 /\ srcData'[s] = data'
    BY DEF Storing
  <2>1. /\ srcPc[s] = "store" /\ ~Idle(s) /\ srcReady[s] = 0 /\ srcData[s] = data
        /\ s \in 1..SourcesCnt
    BY DEF TypeOK, Storing, Sources
  <2> QED
    BY <1>0, <2>1 DEF TypeOK, Idle
<1> QED
  BY <1>1, <1>2, <1>3, <1>4, <1>5, <1>6

LEMMA PostDataInv ==
  ASSUME IInv, PostData
  PROVE  IInv'
<1> USE CollectorAssumption DEF IInv, PostData, actionVars, collectVars, sourceVars
<1>0. i \in 1..SourcesCnt => i \in Sources
  BY DEF Sources
<1>1. TypeOK'
  BY <1>0 DEF TypeOK, CollectPlaces
<1>2. Handing' /\ Stopping'
  BY DEF TypeOK, Handing, Stopping
<1>3. Turn'
  BY DEF TypeOK, Turn, Over, Filling, Stopping, Storing, Idle
<1>4. Tokens'
  <2> SUFFICES ASSUME NEW s \in Sources, ~srcExit'[s] PROVE Token(s)'
    BY DEF Tokens
  <2>1. ~srcExit[s] /\ Token(s) /\ s \in 1..SourcesCnt
    BY DEF TypeOK, Tokens, Sources
  <2> QED
    BY <1>0, <2>1 DEF TypeOK, Token, Idle, Running
<1>5. Shared'
  BY <1>0 DEF TypeOK, Shared, Idle, Sources
<1>6. Storing'
  <2> SUFFICES ASSUME NEW s \in Sources, srcPc'[s] = "store"
               PROVE  ~Idle(s)' /\ srcReady'[s] = 0 /\ srcData'[s] = data'
    BY DEF Storing
  <2>1. /\ srcPc[s] = "store" /\ ~Idle(s) /\ srcReady[s] = 0 /\ srcData[s] = data
        /\ s \in 1..SourcesCnt
    BY DEF TypeOK, Storing, Sources
  <2> QED
    BY <1>0, <2>1 DEF TypeOK, Idle
<1> QED
  BY <1>1, <1>2, <1>3, <1>4, <1>5, <1>6

LEMMA CheckSourcesInv ==
  ASSUME IInv, CheckSources
  PROVE  IInv'
<1> USE CollectorAssumption DEF IInv, CheckSources, actionVars, collectVars, sourceVars
<1>0. i \in 1..SourcesCnt => i \in Sources
  BY DEF Sources
<1>1. TypeOK'
  <2>1. exitFlag' \in BOOLEAN
    OBVIOUS
  <2>2. srcExit' \in [Sources -> BOOLEAN]
    <3>1. srcExit' = srcExit \/ srcExit' = [s \in Sources |-> TRUE]
      OBVIOUS
    <3> QED
      BY <3>1 DEF TypeOK
  <2>3. collect' \in CollectPlaces /\ i' \in 1..(SourcesCnt + 1)
    BY DEF TypeOK, CollectPlaces
  <2> QED
    BY <2>1, <2>2, <2>3 DEF TypeOK
<1>2. Handing' /\ Stopping'
  BY DEF TypeOK, Handing, Stopping
<1>3. Turn'
  BY DEF TypeOK, Turn, Over, Filling, Stopping, Storing, Idle
<1>4. Tokens'
  <2> SUFFICES ASSUME NEW s \in Sources, ~srcExit'[s] PROVE Token(s)'
    BY DEF Tokens
  <2>1. ~srcExit[s] /\ Token(s) /\ s \in 1..SourcesCnt
    BY DEF TypeOK, Tokens, Sources
  <2> QED
    BY <1>0, <2>1 DEF TypeOK, Token, Idle, Running
<1>5. Shared'
  BY <1>0 DEF TypeOK, Shared, Idle, Sources
<1>6. Storing'
  <2> SUFFICES ASSUME NEW s \in Sources, srcPc'[s] = "store"
               PROVE  ~Idle(s)' /\ srcReady'[s] = 0 /\ srcData'[s] = data'
    BY DEF Storing
  <2>1. /\ srcPc[s] = "store" /\ ~Idle(s) /\ srcReady[s] = 0 /\ srcData[s] = data
        /\ s \in 1..SourcesCnt
    BY DEF TypeOK, Storing, Sources
  <2> QED
    BY <1>0, <2>1 DEF TypeOK, Idle
<1> QED
  BY <1>1, <1>2, <1>3, <1>4, <1>5, <1>6

LEMMA StopSourceInv ==
  ASSUME IInv, StopSource
  PROVE  IInv'
<1> USE CollectorAssumption DEF IInv, StopSource, actionVars, collectVars, sourceVars
<1>0. i \in 1..SourcesCnt => i \in Sources
  BY DEF Sources
<1>1. TypeOK'
  BY <1>0 DEF TypeOK, CollectPlaces
<1>2. Handing' /\ Stopping'
  BY DEF TypeOK, Handing, Stopping
<1>3. Turn'
  BY DEF TypeOK, Turn, Over, Filling, Stopping, Storing, Idle
<1>4. Tokens'
  <2> SUFFICES ASSUME NEW s \in Sources, ~srcExit'[s] PROVE Token(s)'
    BY DEF Tokens
  <2>1. ~srcExit[s] /\ Token(s) /\ s \in 1..SourcesCnt
    BY DEF TypeOK, Tokens, Sources
  <2> QED
    BY <1>0, <2>1 DEF TypeOK, Token, Idle, Running
<1>5. Shared'
  BY <1>0 DEF TypeOK, Shared, Idle, Sources
<1>6. Storing'
  <2> SUFFICES ASSUME NEW s \in Sources, srcPc'[s] = "store"
               PROVE  ~Idle(s)' /\ srcReady'[s] = 0 /\ srcData'[s] = data'
    BY DEF Storing
  <2>1. /\ srcPc[s] = "store" /\ ~Idle(s) /\ srcReady[s] = 0 /\ srcData[s] = data
        /\ s \in 1..SourcesCnt
    BY DEF TypeOK, Storing, Sources
  <2> QED
    BY <1>0, <2>1 DEF TypeOK, Idle
<1> QED
  BY <1>1, <1>2, <1>3, <1>4, <1>5, <1>6

LEMMA LastGatherInv ==
  ASSUME IInv, LastGather
  PROVE  IInv'
<1> USE CollectorAssumption DEF IInv, LastGather, actionVars, collectVars, sourceVars
<1>0. i \in 1..SourcesCnt => i \in Sources
  BY DEF Sources
<1>1. TypeOK'
  BY <1>0 DEF TypeOK, CollectPlaces
<1>2. Handing' /\ Stopping'
  BY DEF TypeOK, Handing, Stopping
<1>3. Turn'
  BY DEF TypeOK, Turn, Over, Filling, Stopping, Storing, Idle
<1>4. Tokens'
  <2> SUFFICES ASSUME NEW s \in Sources, ~srcExit'[s] PROVE Token(s)'
    BY DEF Tokens
  <2>1. ~srcExit[s] /\ Token(s) /\ s \in 1..SourcesCnt
    BY DEF TypeOK, Tokens, Sources
  <2> QED
    BY <1>0, <2>1 DEF TypeOK, Token, Idle, Running
<1>5. Shared'
  BY <1>0 DEF TypeOK, Shared, Idle, Sources
<1>6. Storing'
  <2> SUFFICES ASSUME NEW s \in Sources, srcPc'[s] = "store"
               PROVE  ~Idle(s)' /\ srcReady'[s] = 0 /\ srcData'[s] = data'
    BY DEF Storing
  <2>1. /\ srcPc[s] = "store" /\ ~Idle(s) /\ srcReady[s] = 0 /\ srcData[s] = data
        /\ s \in 1..SourcesCnt
    BY DEF TypeOK, Storing, Sources
  <2> QED
    BY <1>0, <2>1 DEF TypeOK, Idle
<1> QED
  BY <1>1, <1>2, <1>3, <1>4, <1>5, <1>6

LEMMA LastPostInv ==
  ASSUME IInv, LastPost
  PROVE  IInv'
<1> USE CollectorAssumption DEF IInv, LastPost, actionVars, collectVars, sourceVars
<1>0. i \in 1..SourcesCnt => i \in Sources
  BY DEF Sources
<1>1. TypeOK'
  BY <1>0 DEF TypeOK, CollectPlaces
<1>2. Handing' /\ Stopping'
  BY DEF TypeOK, Handing, Stopping
<1>3. Turn'
  BY DEF TypeOK, Turn, Over, Filling, Stopping, Storing, Idle
<1>4. Tokens'
  <2> SUFFICES ASSUME NEW s \in Sources, ~srcExit'[s] PROVE Token(s)'
    BY DEF Tokens
  <2>1. ~srcExit[s] /\ Token(s) /\ s \in 1..SourcesCnt
    BY DEF TypeOK, Tokens, Sources
  <2> QED
    BY <1>0, <2>1 DEF TypeOK, Token, Idle, Running
<1>5. Shared'
  BY <1>0 DEF TypeOK, Shared, Idle, Sources
<1>6. Storing'
  <2> SUFFICES ASSUME NEW s \in Sources, srcPc'[s] = "store"
               PROVE  ~Idle(s)' /\ srcReady'[s] = 0 /\ srcData'[s] = data'
    BY DEF Storing
  <2>1. /\ srcPc[s] = "store" /\ ~Idle(s) /\ srcReady[s] = 0 /\ srcData[s] = data
        /\ s \in 1..SourcesCnt
    BY DEF TypeOK, Storing, Sources
  <2> QED
    BY <1>0, <2>1 DEF TypeOK, Idle
<1> QED
  BY <1>1, <1>2, <1>3, <1>4, <1>5, <1>6

LEMMA CollectInv ==
  ASSUME IInv, Collect
  PROVE  IInv'
  BY WaitEmptyInv, ShareInv, TestLoopInv, GatherInv, PostDataInv, CheckSourcesInv,
     StopSourceInv, LastGatherInv, LastPostInv DEF Collect

-----------------------------------------------------------------------------
(* The threads of the sources, and the destruction of the collector.       *)

\* What holds of the source that moves, when the others and the thread stay.
LEMMA SourceMoves ==
  ASSUME IInv, NEW s \in Sources,
         UNCHANGED <<actionVars, emptyReady, dataReady, exitFlag, collectVars, srcData>>,
         TypeOK',
         \A t \in Sources : t # s => /\ srcPc'[t] = srcPc[t] /\ srcExit'[t] = srcExit[t]
                                     /\ srcEmpty'[t] = srcEmpty[t] /\ srcReady'[t] = srcReady[t],
         srcExit[s] => srcExit'[s],
         ~srcExit'[s] => Token(s)',
         srcPc'[s] = "store" => /\ srcPc[s] = "store" \/ ~srcExit[s]
                                /\ ~Idle(s) /\ srcReady'[s] = 0
  PROVE  IInv'
<1> USE DEF IInv, actionVars, collectVars
<1>1. \A t \in Sources : Idle(t)' <=> Idle(t)
  BY DEF Idle
<1>2. Handing' /\ Stopping'
  BY DEF Handing, Stopping
<1>3. Filling' => Filling
  BY DEF Filling
<1>4. Turn'
  BY <1>3 DEF Turn, Over
<1>5. Tokens'
  BY <1>1 DEF Tokens, Token
<1>6. Shared' /\ Storing'
  BY <1>1 DEF Shared, Storing
<1> QED
  BY <1>2, <1>4, <1>5, <1>6

LEMMA SourceInv ==
  ASSUME IInv, NEW s \in Sources, SourceGoesOn(s) \/ FrameComes(s) \/ ReadFails(s)
  PROVE  IInv'
<1>1. UNCHANGED <<actionVars, emptyReady, dataReady, exitFlag, collectVars, srcData, owner>>
  BY DEF SourceGoesOn, FrameComes, ReadFails, WaitFirstObject, TestSourceLoop, ReadPart, TestExit,
         WaitNextObject, TestAdd, StoreFrame, CountFrame, EndSource, FrameOfNextObject,
         FrameOfSameObject, sourceLeaves
<1>2. TypeOK'
  <2>1. srcPc' \in [Sources -> SourcePlaces]
    BY DEF IInv, TypeOK, SourceGoesOn, FrameComes, ReadFails, WaitFirstObject, TestSourceLoop,
           ReadPart, TestExit, WaitNextObject, TestAdd, StoreFrame, CountFrame, EndSource,
           FrameOfNextObject, FrameOfSameObject, Report, SrcGoto, SourcePlaces
  <2>2. srcEmpty' \in [Sources -> Nat] /\ srcReady' \in [Sources -> Nat]
    <3>1. /\ \/ srcEmpty' = srcEmpty
             \/ srcEmpty[s] > 0 /\ srcEmpty' = [srcEmpty EXCEPT ![s] = @ - 1]
          /\ srcReady' = srcReady \/ srcReady' = [srcReady EXCEPT ![s] = @ + 1]
      BY DEF SourceGoesOn, FrameComes, ReadFails, WaitFirstObject, TestSourceLoop, ReadPart,
             TestExit, WaitNextObject, TestAdd, StoreFrame, CountFrame, EndSource,
             FrameOfNextObject, FrameOfSameObject, Report
    <3> QED
      BY <3>1 DEF IInv, TypeOK
  <2>3. srcExit' \in [Sources -> BOOLEAN]
    <3>1. srcExit' = srcExit \/ srcExit' = [srcExit EXCEPT ![s] = TRUE]
      BY DEF SourceGoesOn, FrameComes, ReadFails, WaitFirstObject, TestSourceLoop,
             ReadPart, TestExit, WaitNextObject, TestAdd, StoreFrame, CountFrame, EndSource,
             FrameOfNextObject, FrameOfSameObject
    <3> QED
      BY <3>1 DEF IInv, TypeOK
  <2>4. inObject' \in [Sources -> Nat]
    <3>1. \E n \in Nat : inObject' = inObject \/ inObject' = [inObject EXCEPT ![s] = n]
      <4>1. inObject[s] + 1 \in Nat
        BY DEF IInv, TypeOK
      <4> QED
        BY <4>1 DEF SourceGoesOn, FrameComes, ReadFails, WaitFirstObject, TestSourceLoop,
               ReadPart, TestExit, WaitNextObject, TestAdd, StoreFrame, CountFrame, EndSource,
               FrameOfNextObject, FrameOfSameObject, Report
    <3> QED
      BY <3>1 DEF IInv, TypeOK
  <2>5. frames' = frames \/ frames' = [frames EXCEPT ![srcData[s]][s] = @ + 1]
    BY DEF SourceGoesOn, FrameComes, ReadFails, WaitFirstObject, TestSourceLoop,
           ReadPart, TestExit, WaitNextObject, TestAdd, StoreFrame, CountFrame, EndSource,
           FrameOfNextObject, FrameOfSameObject
  <2>6. frames' \in [Objects -> [Sources -> Nat]]
    <3>1. frames \in [Objects -> [Sources -> Nat]] /\ srcData[s] \in Objects
      BY DEF IInv, TypeOK
    <3>2. [frames[srcData[s]] EXCEPT ![s] = @ + 1] \in [Sources -> Nat]
      BY <3>1
    <3> QED
      BY <2>5, <3>1, <3>2
  <2> QED
    BY <1>1, <2>1, <2>2, <2>4, <2>6, <2>3 DEF IInv, TypeOK, actionVars, collectVars
<1>3. Idle(s)' <=> Idle(s)
  BY <1>1 DEF Idle, collectVars
<1>4. ~srcExit[s] => Token(s)
  BY DEF IInv, Tokens
<1> USE DEF IInv, TypeOK, SrcGoto
<1>5. CASE WaitFirstObject(s)
  <2>1. /\ \A t \in Sources : t # s => /\ srcPc'[t] = srcPc[t] /\ srcExit'[t] = srcExit[t]
                                       /\ srcEmpty'[t] = srcEmpty[t] /\ srcReady'[t] = srcReady[t]
        /\ srcExit[s] => srcExit'[s]
    BY <1>5 DEF WaitFirstObject
  <2>2. /\ ~srcExit'[s] => Token(s)'
        /\ srcPc'[s] = "store" => /\ srcPc[s] = "store" \/ ~srcExit[s]
                                  /\ ~Idle(s) /\ srcReady'[s] = 0
    BY <1>5, <1>3, <1>4 DEF WaitFirstObject, Token, Running
  <2> QED
    BY <1>1, <1>2, <2>1, <2>2, SourceMoves
<1>6. CASE TestSourceLoop(s)
  <2>1. /\ \A t \in Sources : t # s => /\ srcPc'[t] = srcPc[t] /\ srcExit'[t] = srcExit[t]
                                       /\ srcEmpty'[t] = srcEmpty[t] /\ srcReady'[t] = srcReady[t]
        /\ srcExit[s] => srcExit'[s]
    BY <1>6 DEF TestSourceLoop
  <2>2. /\ ~srcExit'[s] => Token(s)'
        /\ srcPc'[s] = "store" => /\ srcPc[s] = "store" \/ ~srcExit[s]
                                  /\ ~Idle(s) /\ srcReady'[s] = 0
    BY <1>6, <1>3, <1>4 DEF TestSourceLoop, Token, Running
  <2> QED
    BY <1>1, <1>2, <2>1, <2>2, SourceMoves
<1>7. CASE ReadPart(s)
  <2>1. /\ \A t \in Sources : t # s => /\ srcPc'[t] = srcPc[t] /\ srcExit'[t] = srcExit[t]
                                       /\ srcEmpty'[t] = srcEmpty[t] /\ srcReady'[t] = srcReady[t]
        /\ srcExit[s] => srcExit'[s]
    BY <1>7 DEF ReadPart
  <2>2. /\ ~srcExit'[s] => Token(s)'
        /\ srcPc'[s] = "store" => /\ srcPc[s] = "store" \/ ~srcExit[s]
                                  /\ ~Idle(s) /\ srcReady'[s] = 0
    BY <1>7, <1>3, <1>4 DEF ReadPart, Token, Running
  <2> QED
    BY <1>1, <1>2, <2>1, <2>2, SourceMoves
<1>8. CASE TestExit(s)
  <2>1. /\ \A t \in Sources : t # s => /\ srcPc'[t] = srcPc[t] /\ srcExit'[t] = srcExit[t]
                                       /\ srcEmpty'[t] = srcEmpty[t] /\ srcReady'[t] = srcReady[t]
        /\ srcExit[s] => srcExit'[s]
    BY <1>8 DEF TestExit
  <2>2. /\ ~srcExit'[s] => Token(s)'
        /\ srcPc'[s] = "store" => /\ srcPc[s] = "store" \/ ~srcExit[s]
                                  /\ ~Idle(s) /\ srcReady'[s] = 0
    BY <1>8, <1>3, <1>4 DEF TestExit, Token, Running
  <2> QED
    BY <1>1, <1>2, <2>1, <2>2, SourceMoves
<1>9. CASE WaitNextObject(s)
  <2>1. /\ \A t \in Sources : t # s => /\ srcPc'[t] = srcPc[t] /\ srcExit'[t] = srcExit[t]
                                       /\ srcEmpty'[t] = srcEmpty[t] /\ srcReady'[t] = srcReady[t]
        /\ srcExit[s] => srcExit'[s]
    BY <1>9 DEF WaitNextObject
  <2>2. /\ ~srcExit'[s] => Token(s)'
        /\ srcPc'[s] = "store" => /\ srcPc[s] = "store" \/ ~srcExit[s]
                                  /\ ~Idle(s) /\ srcReady'[s] = 0
    BY <1>9, <1>3, <1>4 DEF WaitNextObject, Token, Running
  <2> QED
    BY <1>1, <1>2, <2>1, <2>2, SourceMoves
<1>10. CASE TestAdd(s)
  <2>1. /\ \A t \in Sources : t # s => /\ srcPc'[t] = srcPc[t] /\ srcExit'[t] = srcExit[t]
                                       /\ srcEmpty'[t] = srcEmpty[t] /\ srcReady'[t] = srcReady[t]
        /\ srcExit[s] => srcExit'[s]
    BY <1>10 DEF TestAdd
  <2>2. /\ ~srcExit'[s] => Token(s)'
        /\ srcPc'[s] = "store" => /\ srcPc[s] = "store" \/ ~srcExit[s]
                                  /\ ~Idle(s) /\ srcReady'[s] = 0
    BY <1>10, <1>3, <1>4 DEF TestAdd, Token, Running
  <2> QED
    BY <1>1, <1>2, <2>1, <2>2, SourceMoves
<1>11. CASE StoreFrame(s)
  <2>1. /\ \A t \in Sources : t # s => /\ srcPc'[t] = srcPc[t] /\ srcExit'[t] = srcExit[t]
                                       /\ srcEmpty'[t] = srcEmpty[t] /\ srcReady'[t] = srcReady[t]
        /\ srcExit[s] => srcExit'[s]
    BY <1>11 DEF StoreFrame
  <2>2. /\ ~srcExit'[s] => Token(s)'
        /\ srcPc'[s] = "store" => /\ srcPc[s] = "store" \/ ~srcExit[s]
                                  /\ ~Idle(s) /\ srcReady'[s] = 0
    BY <1>11, <1>3, <1>4 DEF StoreFrame, Token, Running
  <2> QED
    BY <1>1, <1>2, <2>1, <2>2, SourceMoves
<1>12. CASE CountFrame(s)
  <2>1. /\ \A t \in Sources : t # s => /\ srcPc'[t] = srcPc[t] /\ srcExit'[t] = srcExit[t]
                                       /\ srcEmpty'[t] = srcEmpty[t] /\ srcReady'[t] = srcReady[t]
        /\ srcExit[s] => srcExit'[s]
    BY <1>12 DEF CountFrame
  <2>2. /\ ~srcExit'[s] => Token(s)'
        /\ srcPc'[s] = "store" => /\ srcPc[s] = "store" \/ ~srcExit[s]
                                  /\ ~Idle(s) /\ srcReady'[s] = 0
    BY <1>12, <1>3, <1>4 DEF CountFrame, Token, Running
  <2> QED
    BY <1>1, <1>2, <2>1, <2>2, SourceMoves
<1>13. CASE EndSource(s)
  <2>1. /\ \A t \in Sources : t # s => /\ srcPc'[t] = srcPc[t] /\ srcExit'[t] = srcExit[t]
                                       /\ srcEmpty'[t] = srcEmpty[t] /\ srcReady'[t] = srcReady[t]
        /\ srcExit[s] => srcExit'[s]
    BY <1>13 DEF EndSource
  <2>2. /\ ~srcExit'[s] => Token(s)'
        /\ srcPc'[s] = "store" => /\ srcPc[s] = "store" \/ ~srcExit[s]
                                  /\ ~Idle(s) /\ srcReady'[s] = 0
    BY <1>13, <1>3, <1>4 DEF EndSource, Token, Running
  <2> QED
    BY <1>1, <1>2, <2>1, <2>2, SourceMoves
<1>14. CASE FrameOfNextObject(s)
  <2>1. /\ \A t \in Sources : t # s => /\ srcPc'[t] = srcPc[t] /\ srcExit'[t] = srcExit[t]
                                       /\ srcEmpty'[t] = srcEmpty[t] /\ srcReady'[t] = srcReady[t]
        /\ srcExit[s] => srcExit'[s]
    BY <1>14 DEF FrameOfNextObject, Report
  <2>2. /\ ~srcExit'[s] => Token(s)'
        /\ srcPc'[s] = "store" => /\ srcPc[s] = "store" \/ ~srcExit[s]
                                  /\ ~Idle(s) /\ srcReady'[s] = 0
    BY <1>14, <1>3, <1>4 DEF FrameOfNextObject, Report, Token, Running
  <2> QED
    BY <1>1, <1>2, <2>1, <2>2, SourceMoves
<1>15. CASE FrameOfSameObject(s)
  <2>1. /\ \A t \in Sources : t # s => /\ srcPc'[t] = srcPc[t] /\ srcExit'[t] = srcExit[t]
                                       /\ srcEmpty'[t] = srcEmpty[t] /\ srcReady'[t] = srcReady[t]
        /\ srcExit[s] => srcExit'[s]
    BY <1>15 DEF FrameOfSameObject
  <2>2. /\ ~srcExit'[s] => Token(s)'
        /\ srcPc'[s] = "store" => /\ srcPc[s] = "store" \/ ~srcExit[s]
                                  /\ ~Idle(s) /\ srcReady'[s] = 0
    BY <1>15, <1>3, <1>4 DEF FrameOfSameObject, Token, Running
  <2> QED
    BY <1>1, <1>2, <2>1, <2>2, SourceMoves
<1>16. CASE ReadFails(s)
  <2>1. /\ \A t \in Sources : t # s => /\ srcPc'[t] = srcPc[t] /\ srcExit'[t] = srcExit[t]
                                       /\ srcEmpty'[t] = srcEmpty[t] /\ srcReady'[t] = srcReady[t]
        /\ srcExit[s] => srcExit'[s]
    BY <1>16 DEF ReadFails
  <2>2. /\ ~srcExit'[s] => Token(s)'
        /\ srcPc'[s] = "store" => /\ srcPc[s] = "store" \/ ~srcExit[s]
                                  /\ ~Idle(s) /\ srcReady'[s] = 0
    BY <1>16, <1>3, <1>4 DEF ReadFails, Token, Running
  <2> QED
    BY <1>1, <1>2, <2>1, <2>2, SourceMoves
<1> QED
  BY <1>5, <1>6, <1>7, <1>8, <1>9, <1>10, <1>11, <1>12, <1>13, <1>14, <1>15, <1>16
     DEF SourceGoesOn, FrameComes

LEMMA DestroyInv ==
  ASSUME IInv, Destroy \/ DestroySources \/ Destroyed
  PROVE  IInv'
<1> USE DEF IInv, Destroy, DestroySources, Destroyed, actionVars, collectVars, sourceVars
<1>1. TypeOK'
  BY DEF TypeOK
<1>2. Handing' /\ Stopping'
  BY DEF Handing, Stopping
<1>3. Turn'
  BY DEF TypeOK, Turn, Over, Filling
<1>4. Tokens' /\ Shared' /\ Storing'
  BY DEF TypeOK, Tokens, Token, Shared, Storing, Idle
<1> QED
  BY <1>1, <1>2, <1>3, <1>4

LEMMA NextInv ==
  ASSUME IInv, [Next]_vars
  PROVE  IInv'
<1>1. CASE Next
  BY <1>1, FirstActionInv, CollectInv, SourceInv, DestroyInv DEF Next
<1>2. CASE UNCHANGED vars
  BY <1>2 DEF IInv, TypeOK, Handing, Stopping, Turn, Over, Filling, Tokens, Token, Shared, Storing,
     Idle, vars, actionVars, collectVars, sourceVars
<1> QED
  BY <1>1, <1>2

-----------------------------------------------------------------------------
(* The theorems about every behaviour.                                     *)

LEMMA Invariance == Spec => []IInv
<1>1. Init => IInv
  BY InitInv
<1>2. IInv /\ [Next]_vars => IInv'
  BY NextInv
<1> QED
  BY <1>1, <1>2, PTL DEF Spec

\* All sources that store frames fill the same object, whichever of them failed or
\* was stopped (collector.c:76-83, source.c:45-83).
THEOREM SourcesAlwaysAligned == Spec => []SourcesAligned
<1>1. IInv => SourcesAligned
  BY DEF IInv, Storing, SourcesAligned
<1> QED
  BY <1>1, Invariance, PTL

\* A source that stores a frame stores it in an object that is not given away.
LEMMA SealedStep ==
  ASSUME IInv, [Next]_vars, NEW o \in handed
  PROVE  frames'[o] = frames[o]
<1>1. CASE \E s \in Sources : StoreFrame(s)
  <2> PICK s \in Sources : StoreFrame(s)
    BY <1>1
  <2>1. srcData[s] = data /\ Filling
    BY DEF StoreFrame, IInv, TypeOK, CollectPlaces, Storing, Idle, Filling
  <2>2. data \notin handed
    BY <2>1 DEF IInv, Turn, Over, Handing
  <2> QED
    BY <2>1, <2>2 DEF StoreFrame, IInv, TypeOK
<1>2. CASE ~\E s \in Sources : StoreFrame(s)
  <2>1. UNCHANGED frames
    BY <1>2 DEF Next, vars, sourceVars, FirstAction, CallAction, CallStopped, TakeObject,
       MakeObject, Collect, WaitEmpty, Share, TestLoop, Gather, PostData, CheckSources, StopSource,
       LastGather, LastPost, SourceGoesOn, FrameComes, ReadFails, WaitFirstObject, TestSourceLoop,
       ReadPart, TestExit, WaitNextObject, TestAdd, CountFrame, EndSource, FrameOfNextObject,
       FrameOfSameObject, Destroy, DestroySources, Destroyed
  <2> QED
    BY <2>1
<1> QED
  BY <1>1, <1>2

\* Once first_action has given an object to the pipeline, no source writes into it,
\* for any number of sources that fail, stop or are late (dclprocessor.c:36,
\* source.c:45-83, collector.c:18-109).
THEOREM HandedStaysSealed == Spec => HandedIsSealed
<1>1. IInv /\ [Next]_vars => [\A o \in handed : frames'[o] = frames[o]]_vars
  BY SealedStep
<1> QED
  BY <1>1, Invariance, PTL DEF Spec, HandedIsSealed

-----------------------------------------------------------------------------
(* How far each source has filled the current object, while none stops and *)
(* an object is still asked for.                                           *)

NoneStops == \A s \in Sources : ~srcExit[s]

Steady == NoneStops /\ ~Over

\* The current object has not reached source s yet.
Awaited(s) == srcEmpty[s] = 1 \/ (Idle(s) /\ (collect = "share" \/ emptyReady = 1))

\* The frames of source s in the current object are those it counted.  Object 1 gets
\* none: a source reports it when its first frame comes.
Stock(s) ==
    /\ srcPc[s] = "start" =>
          /\ inObject[s] = 0 /\ frames[data][s] = 0
          /\ data = IF Awaited(s) THEN 1 ELSE 0
    /\ srcPc[s] \in {"posted", "wait"} =>
          /\ inObject[s] = 0
          /\ Awaited(s) => data > 1 /\ frames[data][s] = 0
          /\ ~Awaited(s) => data > 0 /\ (data > 1 => frames[data][s] \in 1..FrameLimit)
    /\ srcPc[s] \in {"test", "read"} =>
          /\ frames[data][s] = inObject[s] /\ data > 0
          /\ inObject[s] \in IF data = 1 THEN {0} ELSE 1..FrameLimit
    /\ srcPc[s] \in {"add", "store"} =>
          /\ frames[data][s] = inObject[s] /\ data > 1
          /\ inObject[s] < FrameLimit
    /\ srcPc[s] = "counted" =>
          /\ frames[data][s] = inObject[s] + 1 /\ data > 1
          /\ inObject[s] < FrameLimit

Stocks == Steady => \A s \in Sources : Stock(s)

\* Objects that are not made yet hold nothing.
Unborn == Steady => \A o \in Objects, s \in Sources : o > data => frames[o][s] = 0

\* The stop loop leaves stopped sources behind.
StoppedBehind ==
    /\ collect = "last" => \A s \in Sources : s < i => srcExit[s]
    /\ collect = "done" => \A s \in Sources : srcExit[s]

FillInv == IInv /\ StoppedBehind /\ Stocks /\ Unborn /\ HandedIsFilled

LEMMA InitFill ==
  ASSUME Init
  PROVE  FillInv
<1> USE CollectorAssumption DEF Init, Objects
<1>1. StoppedBehind /\ Unborn /\ HandedIsFilled
  BY DEF StoppedBehind, Unborn, HandedIsFilled
<1>2. Stocks
  BY DEF Stocks, Stock, Awaited
<1> QED
  BY <1>1, <1>2, InitInv DEF FillInv

LEMMA StoppedBehindStep ==
  ASSUME IInv, StoppedBehind, Next
  PROVE  StoppedBehind'
<1> USE CollectorAssumption
       DEF StoppedBehind, IInv, TypeOK, actionVars, collectVars, sourceVars, sourceLeaves, Sources
<1>1. CASE FirstAction
  BY <1>1 DEF FirstAction, CallAction, CallStopped, TakeObject, MakeObject
<1>2. CASE Collect
  <2>1. CASE WaitEmpty \/ Share
    BY <2>1 DEF WaitEmpty, Share
  <2>2. CASE Gather \/ PostData
    BY <2>2 DEF Gather, PostData
  <2>3. CASE TestLoop
    BY <2>3 DEF TestLoop
  <2>4. CASE CheckSources
    <3>1. (collect' = "last" /\ i' = 1) \/ collect' = "wait"
      BY <2>4 DEF CheckSources
    <3> QED
      BY <3>1
  <2>5. CASE StopSource
    BY <2>5 DEF StopSource
  <2>6. CASE LastGather
    BY <2>6 DEF LastGather
  <2>7. CASE LastPost
    <3>1. \A s \in Sources : s < i
      BY <2>7 DEF LastPost
    <3> QED
      BY <2>7, <3>1 DEF LastPost
  <2> QED
    BY <1>2, <2>1, <2>2, <2>3, <2>4, <2>5, <2>6, <2>7 DEF Collect
<1>3. ASSUME NEW s \in Sources, SourceGoesOn(s) \/ FrameComes(s) \/ ReadFails(s)
      PROVE  StoppedBehind'
  <2>1. srcExit' = srcExit \/ srcExit' = [srcExit EXCEPT ![s] = TRUE]
    BY <1>3 DEF SourceGoesOn, FrameComes, ReadFails, WaitFirstObject, TestSourceLoop,
       ReadPart, TestExit, WaitNextObject, TestAdd, StoreFrame, CountFrame, EndSource,
       FrameOfNextObject, FrameOfSameObject
  <2>2. UNCHANGED collectVars
    BY <1>3 DEF SourceGoesOn, FrameComes, ReadFails, WaitFirstObject, TestSourceLoop,
       ReadPart, TestExit, WaitNextObject, TestAdd, StoreFrame, CountFrame, EndSource,
       FrameOfNextObject, FrameOfSameObject
  <2> QED
    BY <2>1, <2>2
<1>4. CASE Destroy \/ DestroySources \/ Destroyed
  BY <1>4 DEF Destroy, DestroySources, Destroyed
<1> QED
  BY <1>1, <1>2, <1>3, <1>4 DEF Next

\* A collector that stops or loses a source does not come back.
LEMMA SteadyBefore ==
  ASSUME IInv, Next, Steady'
  PROVE  Steady
<1> USE DEF Steady, NoneStops, Over, IInv, TypeOK, actionVars, collectVars, sourceVars,
            sourceLeaves
<1>1. CASE FirstAction
  BY <1>1 DEF FirstAction, CallAction, CallStopped, TakeObject, MakeObject
<1>2. CASE Collect
  BY <1>2 DEF Collect, WaitEmpty, Share, TestLoop, Gather, PostData, CheckSources, StopSource,
     LastGather, LastPost
<1>3. ASSUME NEW s \in Sources, SourceGoesOn(s) \/ FrameComes(s) \/ ReadFails(s)
      PROVE  Steady
  BY <1>3 DEF SourceGoesOn, FrameComes, ReadFails, WaitFirstObject, TestSourceLoop,
     ReadPart, TestExit, WaitNextObject, TestAdd, StoreFrame, CountFrame, EndSource,
     FrameOfNextObject, FrameOfSameObject
<1>4. CASE Destroy \/ DestroySources \/ Destroyed
  BY <1>4 DEF Destroy, DestroySources, Destroyed
<1> QED
  BY <1>1, <1>2, <1>3, <1>4 DEF Next

\* Where the thread is while no source stops and first_action has, or awaits, an object.
LEMMA ThreadPlace ==
  ASSUME IInv, StoppedBehind, Steady
  PROVE  /\ collect # "done"
         /\ collect = "last" => i = 1
         /\ action = "make" \/ dataReady > 0
               => collect \in {"start", "check", "wait"} /\ emptyReady = 0
<1> USE CollectorAssumption DEF IInv, TypeOK
<1>1. 1 \in Sources /\ ~srcExit[1]
  BY DEF Steady, NoneStops, Sources
<1>2. collect # "done" /\ (collect = "last" => i = 1)
  BY <1>1 DEF StoppedBehind
<1>3. collect \in {"share", "gather", "last"} => Filling
  BY <1>1 DEF Filling, Steady, NoneStops
<1> QED
  BY <1>2, <1>3 DEF Turn, Steady, CollectPlaces

\* A source whose object has been gathered is at rest.
LEMMA RestingStock ==
  ASSUME IInv, Steady, Stocks, NEW s \in Sources, Idle(s), ~Awaited(s)
  PROVE  \/ srcPc[s] = "start" /\ inObject[s] = 0 /\ data = 0
         \/ /\ srcPc[s] \in {"posted", "wait"} /\ inObject[s] = 0 /\ data > 0
            /\ data > 1 => frames[data][s] \in 1..FrameLimit
<1>1. srcPc[s] \in {"start", "posted", "wait"} /\ Stock(s)
  BY DEF Steady, NoneStops, IInv, Tokens, Token, Stocks
<1> QED
  BY <1>1 DEF Stock

LEMMA FirstActionStock ==
  ASSUME FillInv, FirstAction, Steady, NEW s \in Sources
  PROVE  Stock(s)'
<1> USE DEF FillInv, actionVars, collectVars, sourceVars
<1>1. Stock(s)
  BY DEF Stocks
<1>2. CASE CallAction
  BY <1>1, <1>2 DEF CallAction, Stock, Awaited, Idle
<1>3. CASE CallStopped
  BY <1>3 DEF CallStopped, Steady, Over
<1>4. CASE TakeObject
  BY <1>1, <1>4 DEF TakeObject, Stock, Awaited, Idle
<1>5. CASE MakeObject
  <2>1. collect \in {"start", "check", "wait"} /\ emptyReady = 0
    BY <1>5, ThreadPlace DEF MakeObject
  <2>2. Idle(s) /\ ~Awaited(s)
    BY <2>1 DEF Idle, Awaited, Steady, NoneStops, IInv, Tokens, Token
  <2>3. Awaited(s)'
    BY <1>5, <2>1, <2>2 DEF MakeObject, Idle, Awaited
  <2>4. data' = data + 1 /\ data \in Nat /\ data' \in Objects
    BY <1>5, CollectorAssumption DEF MakeObject, IInv, Handing, TypeOK, Objects
  <2>5. frames'[data'][s] = 0
    BY <1>5, <2>4 DEF MakeObject, Unborn
  <2>6. srcPc' = srcPc /\ inObject' = inObject
    BY <1>5 DEF MakeObject
  <2> QED
    BY <2>2, <2>3, <2>4, <2>5, <2>6, RestingStock DEF Stock
<1> QED
  BY <1>2, <1>3, <1>4, <1>5 DEF FirstAction

LEMMA CollectStock ==
  ASSUME FillInv, Collect, Steady, Steady', NEW s \in Sources
  PROVE  Stock(s)'
<1> USE DEF FillInv, actionVars, collectVars, sourceVars, IInv, TypeOK
<1>1. Stock(s) /\ Token(s) /\ ~srcExit[s] /\ ~srcExit'[s] /\ s \in 1..SourcesCnt
  BY DEF Stocks, Steady, NoneStops, Tokens, Sources
<1>2. SUFFICES /\ UNCHANGED <<srcPc, inObject, frames, data>>
               /\ srcPc[s] \in {"start", "posted", "wait"} => (Awaited(s)' <=> Awaited(s))
  BY <1>1 DEF Stock
<1>3. CASE WaitEmpty
  BY <1>1, <1>3 DEF WaitEmpty, Awaited, Idle, Token, Turn, Steady
<1>4. CASE Share
  BY <1>1, <1>4 DEF Share, Awaited, Idle, Token, Turn, Steady, Filling
<1>5. CASE TestLoop
  <2>1. collect = "share" /\ i > s /\ collect' \in {"gather", "last"} /\ i' = 1
    BY <1>1, <1>5, CollectorAssumption DEF TestLoop
  <2>2. ~Idle(s) /\ ~Idle(s)'
    BY <1>1, <2>1 DEF Idle
  <2> QED
    BY <1>5, <2>2 DEF TestLoop, Awaited
<1>6. CASE Gather
  BY <1>1, <1>6 DEF Gather, Awaited, Idle, Token, Turn, Steady, Filling
<1>7. CASE PostData
  BY <1>1, <1>7 DEF PostData, Awaited, Idle, Token, Turn, Steady, Filling
<1>8. CASE CheckSources
  BY <1>1, <1>8 DEF CheckSources, Awaited, Idle, Token
<1>9. CASE StopSource
  BY <1>9 DEF StopSource, Steady, NoneStops, Sources
<1>10. CASE LastGather
  BY <1>10 DEF LastGather, Steady, NoneStops, Sources
<1>11. CASE LastPost
  BY <1>1, <1>11, ThreadPlace, CollectorAssumption DEF LastPost
<1> QED
  BY <1>3, <1>4, <1>5, <1>6, <1>7, <1>8, <1>9, <1>10, <1>11 DEF Collect

\* The arithmetic of a share: it begins with the first frame and is full at the limit.
LEMMA ShareNumbers ==
  ASSUME NEW n \in 0..FrameLimit, n % FrameLimit # 0
  PROVE  n # 0 /\ n < FrameLimit
<1> USE CollectorAssumption
<1>1. 0 % FrameLimit = 0
  OBVIOUS
<1>2. FrameLimit % FrameLimit = 0
  OBVIOUS
<1> QED
  BY <1>1, <1>2

\* What a source that moves leaves to the others, and its own awaiting.
LEMMA SourceStock ==
  ASSUME FillInv, Steady, Steady', NEW s \in Sources,
         SourceGoesOn(s) \/ FrameComes(s) \/ ReadFails(s)
  PROVE  Stock(s)'
<1> USE DEF FillInv, actionVars, collectVars, sourceLeaves, IInv, TypeOK, SrcGoto
<1>1. Stock(s) /\ Token(s) /\ ~srcExit[s] /\ ~srcExit'[s]
  BY DEF Stocks, Steady, NoneStops, Tokens
<1>2. data \in Objects /\ data \in Nat /\ inObject[s] \in Nat /\ frames[data][s] \in Nat
  <2>1. data \in Nat
    BY DEF Objects
  <2>2. frames[data] \in [Sources -> Nat]
    OBVIOUS
  <2> QED
    BY <2>1, <2>2
<1>3. UNCHANGED <<data, emptyReady, collect, i>>
  BY DEF SourceGoesOn, FrameComes, ReadFails, WaitFirstObject, TestSourceLoop, ReadPart, TestExit,
         WaitNextObject, TestAdd, StoreFrame, CountFrame, EndSource, FrameOfNextObject,
         FrameOfSameObject
<1>4. Idle(s)' <=> Idle(s)
  BY <1>3 DEF Idle
<1>5. CASE WaitFirstObject(s)
  <2>1. Awaited(s)
    BY <1>1, <1>5 DEF WaitFirstObject, Awaited, Token
  <2> QED
    BY <1>1, <1>2, <1>3, <1>5, <2>1 DEF WaitFirstObject, Stock
<1>6. CASE TestSourceLoop(s) \/ ReadPart(s)
  BY <1>1, <1>3, <1>6 DEF TestSourceLoop, ReadPart, Stock
<1>7. CASE TestExit(s)
  BY <1>1, <1>3, <1>4, <1>7 DEF TestExit, Stock, Awaited
<1>8. CASE WaitNextObject(s)
  <2>1. Awaited(s)
    BY <1>1, <1>8 DEF WaitNextObject, Awaited, Token
  <2> QED
    BY <1>1, <1>2, <1>3, <1>8, <2>1, CollectorAssumption DEF WaitNextObject, Stock
<1>9. CASE TestAdd(s)
  BY <1>1, <1>3, <1>9 DEF TestAdd, Stock
<1>10. CASE StoreFrame(s)
  <2>1. srcData[s] = data
    BY <1>10 DEF StoreFrame, Storing
  <2>2. frames'[data][s] = frames[data][s] + 1
    BY <1>2, <1>10, <2>1 DEF StoreFrame
  <2> QED
    BY <1>1, <1>2, <1>3, <1>10, <2>2 DEF StoreFrame, Stock
<1>11. CASE CountFrame(s)
  BY <1>1, <1>2, <1>3, <1>11, CollectorAssumption DEF CountFrame, Stock
<1>12. CASE EndSource(s) \/ ReadFails(s)
  BY <1>1, <1>12 DEF EndSource, ReadFails, Token, Running
<1>13. CASE FrameOfNextObject(s)
  <2>1. srcPc[s] = "read" /\ srcPc'[s] = "posted" /\ inObject'[s] = 0 /\ frames' = frames
        /\ srcEmpty' = srcEmpty
    BY <1>13 DEF FrameOfNextObject, Report
  <2>2. ~Awaited(s)'
    BY <1>1, <1>4, <2>1 DEF Token, Running, Awaited
  <2> QED
    BY <1>1, <1>2, <1>3, <2>1, <2>2, CollectorAssumption DEF Stock
<1>14. CASE FrameOfSameObject(s)
  <2>1. inObject[s] \in 0..FrameLimit /\ inObject[s] % FrameLimit # 0
    BY <1>1, <1>2, <1>14, CollectorAssumption DEF FrameOfSameObject, Stock
  <2>2. inObject[s] # 0 /\ inObject[s] < FrameLimit
    BY <2>1, ShareNumbers
  <2> QED
    BY <1>1, <1>2, <1>3, <1>14, <2>2 DEF FrameOfSameObject, Stock
<1> QED
  BY <1>5, <1>6, <1>7, <1>8, <1>9, <1>10, <1>11, <1>12, <1>13, <1>14
     DEF SourceGoesOn, FrameComes

\* The others keep what they have.
LEMMA OtherStock ==
  ASSUME FillInv, Steady, Steady', NEW s \in Sources, NEW t \in Sources, t # s,
         SourceGoesOn(s) \/ FrameComes(s) \/ ReadFails(s)
  PROVE  Stock(t)'
<1> USE DEF FillInv, actionVars, collectVars, sourceLeaves, IInv, TypeOK, SrcGoto
<1>1. Stock(t)
  BY DEF Stocks
<1>2. UNCHANGED <<data, emptyReady, collect, i>>
  BY DEF SourceGoesOn, FrameComes, ReadFails, WaitFirstObject, TestSourceLoop, ReadPart, TestExit,
         WaitNextObject, TestAdd, StoreFrame, CountFrame, EndSource, FrameOfNextObject,
         FrameOfSameObject
<1>3. srcPc'[t] = srcPc[t] /\ srcEmpty'[t] = srcEmpty[t] /\ inObject'[t] = inObject[t]
  BY DEF SourceGoesOn, FrameComes, ReadFails, WaitFirstObject, TestSourceLoop, ReadPart, TestExit,
         WaitNextObject, TestAdd, StoreFrame, CountFrame, EndSource, FrameOfNextObject,
         FrameOfSameObject, Report
<1>4. frames' = frames \/ frames' = [frames EXCEPT ![srcData[s]][s] = @ + 1]
  BY DEF SourceGoesOn, FrameComes, ReadFails, WaitFirstObject, TestSourceLoop, ReadPart, TestExit,
         WaitNextObject, TestAdd, StoreFrame, CountFrame, EndSource, FrameOfNextObject,
         FrameOfSameObject
<1>5. frames'[data][t] = frames[data][t]
  BY <1>4
<1> QED
  BY <1>1, <1>2, <1>3, <1>5 DEF Stock, Awaited, Idle

\* Only a source that stores changes a count, in the current object.
LEMMA StoringStep ==
  ASSUME IInv, Next, NEW o \in Objects, o # data
  PROVE  frames'[o] = frames[o]
<1>1. CASE \E s \in Sources : StoreFrame(s)
  <2> PICK s \in Sources : StoreFrame(s)
    BY <1>1
  <2> QED
    BY DEF StoreFrame, IInv, TypeOK, Storing
<1>2. CASE ~\E s \in Sources : StoreFrame(s)
  <2>1. UNCHANGED frames
    BY <1>2 DEF Next, vars, sourceVars, FirstAction, CallAction, CallStopped, TakeObject,
       MakeObject, Collect, WaitEmpty, Share, TestLoop, Gather, PostData, CheckSources, StopSource,
       LastGather, LastPost, SourceGoesOn, FrameComes, ReadFails, WaitFirstObject, TestSourceLoop,
       ReadPart, TestExit, WaitNextObject, TestAdd, CountFrame, EndSource, FrameOfNextObject,
       FrameOfSameObject, Destroy, DestroySources, Destroyed
  <2> QED
    BY <2>1
<1> QED
  BY <1>1, <1>2

LEMMA StocksStep ==
  ASSUME FillInv, Next
  PROVE  Stocks'
<1> SUFFICES ASSUME Steady', NEW s \in Sources PROVE Stock(s)'
  BY DEF Stocks
<1>1. Steady
  BY SteadyBefore DEF FillInv
<1>2. CASE FirstAction
  BY <1>1, <1>2, FirstActionStock
<1>3. CASE Collect
  BY <1>1, <1>3, CollectStock
<1>4. ASSUME NEW t \in Sources, SourceGoesOn(t) \/ FrameComes(t) \/ ReadFails(t)
      PROVE  Stock(s)'
  <2>1. CASE s = t
    BY <1>1, <1>4, <2>1, SourceStock
  <2>2. CASE s # t
    BY <1>1, <1>4, <2>2, OtherStock
  <2> QED
    BY <2>1, <2>2
<1>5. CASE Destroy \/ DestroySources \/ Destroyed
  <2>1. Stock(s)
    BY <1>1 DEF FillInv, Stocks
  <2> QED
    BY <1>5, <2>1 DEF Destroy, DestroySources, Destroyed, Stock, Awaited, Idle,
       actionVars, collectVars, sourceVars
<1> QED
  BY <1>2, <1>3, <1>4, <1>5 DEF Next

LEMMA UnbornStep ==
  ASSUME FillInv, Next
  PROVE  Unborn'
<1> SUFFICES ASSUME Steady', NEW o \in Objects, NEW s \in Sources, o > data'
             PROVE  frames'[o][s] = 0
  BY DEF Unborn
<1>1. Steady
  BY SteadyBefore DEF FillInv
<1>2. data' = data \/ data' = made + 1
  BY DEF Next, FirstAction, CallAction, CallStopped, TakeObject,
     MakeObject, Collect, WaitEmpty, Share, TestLoop, Gather, PostData, CheckSources, StopSource,
     LastGather, LastPost, SourceGoesOn, FrameComes, ReadFails, WaitFirstObject, TestSourceLoop,
     ReadPart, TestExit, WaitNextObject, TestAdd, StoreFrame, CountFrame, EndSource,
     FrameOfNextObject, FrameOfSameObject, Destroy, DestroySources, Destroyed, actionVars,
     sourceLeaves
<1>3. o > data
  BY <1>2 DEF FillInv, IInv, TypeOK, Handing, Objects
<1>4. frames[o][s] = 0
  BY <1>1, <1>3 DEF FillInv, Unborn
<1>5. o # data
  BY <1>3 DEF FillInv, IInv, TypeOK, Objects
<1>6. frames'[o] = frames[o]
  BY <1>5, StoringStep DEF FillInv
<1> QED
  BY <1>4, <1>6

LEMMA HandedStep ==
  ASSUME FillInv, Next
  PROVE  HandedIsFilled'
<1> SUFFICES ASSUME NEW o \in handed', o > 1, NoneStops', NEW s \in Sources
             PROVE  frames'[o][s] \in 1..FrameLimit
  BY DEF HandedIsFilled, NoneStops
<1>1. NoneStops
  BY DEF NoneStops, Next, FirstAction, CallAction, CallStopped, TakeObject,
     MakeObject, Collect, WaitEmpty, Share, TestLoop, Gather, PostData, CheckSources, StopSource,
     LastGather, LastPost, SourceGoesOn, FrameComes, ReadFails, WaitFirstObject, TestSourceLoop,
     ReadPart, TestExit, WaitNextObject, TestAdd, StoreFrame, CountFrame, EndSource,
     FrameOfNextObject, FrameOfSameObject, Destroy, DestroySources, Destroyed, sourceVars,
     sourceLeaves, FillInv, IInv, TypeOK
<1>2. CASE o \in handed
  <2>1. frames'[o] = frames[o]
    BY <1>2, SealedStep DEF FillInv
  <2> QED
    BY <1>1, <1>2, <2>1 DEF FillInv, HandedIsFilled, NoneStops
<1>3. CASE o \notin handed
  <2>1. TakeObject /\ o = data
    <3>1. TakeObject \/ handed' = handed
      BY DEF Next, FirstAction, CallAction, CallStopped, MakeObject, Collect, WaitEmpty, Share,
             TestLoop, Gather, PostData, CheckSources, StopSource,
         LastGather, LastPost, SourceGoesOn, FrameComes, ReadFails, WaitFirstObject, TestSourceLoop,
         ReadPart, TestExit, WaitNextObject, TestAdd, StoreFrame, CountFrame, EndSource,
         FrameOfNextObject, FrameOfSameObject, Destroy, DestroySources, Destroyed, actionVars,
         sourceLeaves
    <3> QED
      BY <1>3, <3>1 DEF TakeObject
  <2>2. Steady /\ dataReady > 0
    BY <1>1, <2>1 DEF TakeObject, Steady, Over
  <2>3. collect \in {"start", "check", "wait"} /\ emptyReady = 0
    BY <2>2, ThreadPlace DEF FillInv
  <2>4. Idle(s) /\ ~Awaited(s)
    BY <1>1, <2>3 DEF Idle, Awaited, NoneStops, FillInv, IInv, Tokens, Token
  <2>5. frames[data][s] \in 1..FrameLimit
    BY <2>1, <2>2, <2>4, RestingStock DEF FillInv
  <2> QED
    BY <2>1, <2>5 DEF TakeObject, sourceVars
<1> QED
  BY <1>2, <1>3

\* While no source stops, an object behind the first one is given to the pipeline with
\* at least one frame of every source and no more than OBJECT_DETECTION_FRAME_LIMIT, for
\* any number of sources and any limit (source.c:45-83 and :165, collector.c:18-83).
THEOREM HandedAlwaysFilled == Spec => []HandedIsFilled
<1>1. Init => FillInv
  BY InitFill
<1>2. FillInv /\ [Next]_vars => FillInv'
  <2>1. ASSUME FillInv, Next PROVE FillInv'
    BY <2>1, NextInv, StoppedBehindStep, StocksStep, UnbornStep, HandedStep DEF FillInv
  <2>2. ASSUME FillInv, UNCHANGED vars PROVE FillInv'
    <3>1. IInv'
      BY <2>2, NextInv DEF FillInv
    <3> QED
      BY <2>2, <3>1 DEF FillInv, StoppedBehind, Stocks, Stock, Awaited, Idle, Unborn,
         HandedIsFilled, Steady, NoneStops, Over, vars, actionVars, collectVars, sourceVars
  <2> QED
    BY <2>1, <2>2
<1>3. FillInv => HandedIsFilled
  BY DEF FillInv
<1> QED
  BY <1>1, <1>2, <1>3, PTL DEF Spec
=============================================================================
