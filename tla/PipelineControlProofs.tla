----------------------- MODULE PipelineControlProofs -----------------------
(***************************************************************************)
(* Proofs about PipelineControl, for any number of modules and pipelines,  *)
(* any size of the table of processes and any order of the owner's calls:  *)
(* type correctness, that nothing outlives its pipeline, that every module *)
(* has an entry of the table of processes to itself; and, for an owner who *)
(* waits for pipeline_start, that threads find the semaphores they use and *)
(* that the state of a pipeline is the one commanded last.                 *)
(***************************************************************************)
EXTENDS PipelineControl, TLAPS

-----------------------------------------------------------------------------
(* The inductive invariant.  NothingOutlivesPipeline is not inductive: the *)
(* join loop joins by idx, so the proof must know that a module with idx   *)
(* -1 has no thread that runs (QuietWithoutId), except the module that is  *)
(* just being started; that needs the order of the start loop, where one   *)
(* created thread and one post of start_control exist at a time            *)
(* (CreatedByMain).                                                        *)

Quiet(m) == thread[m] \in {"none", "joined"}

InRange ==
    /\ main = "enter" => cur = 0
    /\ main \in {"create", "wait", "test", "joinfailed"} => cur <= Last
    /\ main \in {"enter", "create", "wait", "test", "joinfailed"} => realStarted <= cur
    /\ owner = "write" => at <= Last

CreatedByMain ==
    /\ main # "wait" => startControl = 0
    /\ \A m \in Modules :
          thread[m] = "created" => main = "wait" /\ cur = m /\ startControl = 0

IdsGivenOut == \A m \in Modules : idx[m] >= 0 =>
    /\ idx[m] < processCnt
    /\ \A n \in Modules : n # m => idx[n] # idx[m]

BeingStarted(m) == main \in {"wait", "test", "joinfailed"} /\ m = cur

QuietWithoutId ==
    \A m \in Modules : idx[m] = NotStarted => Quiet(m) \/ BeingStarted(m)

QuietBehind ==
    \A m \in Modules :
        \/ main = "join" /\ m < cur
        \/ main \in {"exited", "none"}
        => Quiet(m)

IInv ==
    /\ TypeOK
    /\ InRange
    /\ CreatedByMain
    /\ IdsGivenOut
    /\ QuietWithoutId
    /\ QuietBehind

\* A thread that takes the next id gets one that no module has; one that gets none
\* takes nobody's.
LEMMA NewId ==
  ASSUME TypeOK, IdsGivenOut, NEW m \in Modules,
         idx' = [idx EXCEPT ![m] = processCnt], processCnt' = processCnt + 1
  PROVE  IdsGivenOut'
<1>1. idx \in [Modules -> Int] /\ processCnt \in Int
  BY DEF TypeOK, NotStarted, Initialized, Destroyed
<1>2. idx'[m] = processCnt /\ \A n \in Modules : n # m => idx'[n] = idx[n]
  BY <1>1
<1>3. \A n \in Modules : idx[n] < processCnt
  BY <1>1 DEF IdsGivenOut, TypeOK
<1>4. ASSUME NEW k \in Modules, idx'[k] >= 0
      PROVE  idx'[k] < processCnt' /\ \A n \in Modules : n # k => idx'[n] # idx'[k]
  <2>1. CASE k = m
    BY <1>1, <1>2, <1>3, <2>1
  <2>2. CASE k # m
    BY <1>1, <1>2, <1>3, <1>4, <2>2 DEF IdsGivenOut
  <2> QED
    BY <2>1, <2>2
<1> QED
  BY <1>4 DEF IdsGivenOut

LEMMA NoNewId ==
  ASSUME TypeOK, IdsGivenOut, NEW m \in Modules,
         idx' = [idx EXCEPT ![m] = -1], processCnt' \in {processCnt, processCnt + 1}
  PROVE  IdsGivenOut'
<1>1. idx \in [Modules -> Int] /\ processCnt \in Int /\ processCnt' \in Int /\ processCnt <= processCnt'
  BY DEF TypeOK, NotStarted, Initialized, Destroyed
<1>2. idx'[m] = -1 /\ \A n \in Modules : n # m => idx'[n] = idx[n]
  BY <1>1
<1> QED
  BY <1>1, <1>2 DEF IdsGivenOut

LEMMA ThreadStartsInv ==
  ASSUME ControlAssumption, IInv, NEW m \in Modules, ThreadStarts(m)
  PROVE  IInv'
<1> USE DEF Modules, ownerVars, mainVars, ownerLeaves, Quiet, NotStarted, Initialized,
            Destroyed, BeingStarted
<1>1. TypeOK'
  BY DEF ControlAssumption, IInv, ThreadStarts, TakeId, TableFull, TypeOK, PlStates,
         ThreadPlaces, OwnerPlaces, MainPlaces, InRange, CreatedByMain
<1>2. InRange'
  BY DEF ControlAssumption, IInv, ThreadStarts, TakeId, TableFull, TypeOK, InRange
<1>3. CreatedByMain'
  BY DEF ControlAssumption, IInv, ThreadStarts, TakeId, TableFull, TypeOK, CreatedByMain
<1>4. IdsGivenOut'
  <2>1. idx' = [idx EXCEPT ![m] = processCnt] /\ processCnt' = processCnt + 1
    BY DEF ThreadStarts, TakeId
  <2> QED
    BY <2>1, NewId DEF IInv
<1>5. QuietWithoutId'
  BY DEF ControlAssumption, IInv, ThreadStarts, TakeId, TableFull, TypeOK, CreatedByMain,
         QuietWithoutId
<1>6. QuietBehind'
  BY DEF ControlAssumption, IInv, ThreadStarts, TakeId, TableFull, TypeOK, QuietWithoutId,
         QuietBehind
<1> QED
  BY <1>1, <1>2, <1>3, <1>4, <1>5, <1>6 DEF IInv

LEMMA InternalStartsWithoutIdInv ==
  ASSUME ControlAssumption, IInv, NEW m \in Modules, InternalStartsWithoutId(m)
  PROVE  IInv'
<1> USE DEF Modules, ownerVars, mainVars, ownerLeaves, Quiet, NotStarted, Initialized,
            Destroyed, BeingStarted
<1>1. TypeOK'
  BY DEF ControlAssumption, IInv, InternalStartsWithoutId, NoId, TableFull, TypeOK,
         PlStates, ThreadPlaces, OwnerPlaces, MainPlaces, InRange, CreatedByMain
<1>2. InRange'
  BY DEF ControlAssumption, IInv, InternalStartsWithoutId, NoId, TableFull, TypeOK,
         InRange
<1>3. CreatedByMain'
  BY DEF ControlAssumption, IInv, InternalStartsWithoutId, NoId, TableFull, TypeOK,
         CreatedByMain
<1>4. IdsGivenOut'
  <2>1. idx' = [idx EXCEPT ![m] = -1] /\ processCnt' \in {processCnt, processCnt + 1}
    BY DEF InternalStartsWithoutId, NoId
  <2> QED
    BY <2>1, NoNewId DEF IInv
<1>5. QuietWithoutId'
  BY DEF ControlAssumption, IInv, InternalStartsWithoutId, NoId, TableFull, TypeOK,
         CreatedByMain, QuietWithoutId
<1>6. QuietBehind'
  BY DEF ControlAssumption, IInv, InternalStartsWithoutId, NoId, TableFull, TypeOK,
         QuietWithoutId, QuietBehind
<1> QED
  BY <1>1, <1>2, <1>3, <1>4, <1>5, <1>6 DEF IInv

LEMMA ThreadFailsInv ==
  ASSUME ControlAssumption, IInv, NEW m \in Modules, ThreadFails(m)
  PROVE  IInv'
<1> USE DEF Modules, ownerVars, mainVars, ownerLeaves, Quiet, NotStarted, Initialized,
            Destroyed, BeingStarted
<1>1. TypeOK'
  BY DEF ControlAssumption, IInv, ThreadFails, NoId, StartFailed, TableFull, TypeOK,
         PlStates, ThreadPlaces, OwnerPlaces, MainPlaces, InRange, CreatedByMain
<1>2. InRange'
  BY DEF ControlAssumption, IInv, ThreadFails, NoId, StartFailed, TableFull, TypeOK,
         InRange
<1>3. CreatedByMain'
  BY DEF ControlAssumption, IInv, ThreadFails, NoId, StartFailed, TableFull, TypeOK,
         CreatedByMain
<1>4. IdsGivenOut'
  <2>1. idx' = [idx EXCEPT ![m] = -1] /\ processCnt' \in {processCnt, processCnt + 1}
    BY DEF ThreadFails, NoId
  <2> QED
    BY <2>1, NoNewId DEF IInv
<1>5. QuietWithoutId'
  BY DEF ControlAssumption, IInv, ThreadFails, NoId, StartFailed, TableFull, TypeOK,
         CreatedByMain, QuietWithoutId
<1>6. QuietBehind'
  BY DEF ControlAssumption, IInv, ThreadFails, NoId, StartFailed, TableFull, TypeOK,
         QuietWithoutId, QuietBehind
<1> QED
  BY <1>1, <1>2, <1>3, <1>4, <1>5, <1>6 DEF IInv

LEMMA ThreadGivesUpInv ==
  ASSUME ControlAssumption, IInv, NEW m \in Modules, ThreadGivesUp(m)
  PROVE  IInv'
<1> USE DEF Modules, ownerVars, mainVars, ownerLeaves, Quiet, NotStarted, Initialized,
            Destroyed, BeingStarted
<1>1. TypeOK'
  BY DEF ControlAssumption, IInv, ThreadGivesUp, TypeOK, PlStates, ThreadPlaces,
         OwnerPlaces, MainPlaces, InRange, CreatedByMain
<1>2. InRange'
  BY DEF ControlAssumption, IInv, ThreadGivesUp, TypeOK, InRange
<1>3. CreatedByMain'
  BY DEF ControlAssumption, IInv, ThreadGivesUp, TypeOK, CreatedByMain
<1>4. IdsGivenOut'
  BY DEF ControlAssumption, IInv, ThreadGivesUp, TypeOK, IdsGivenOut
<1>5. QuietWithoutId'
  BY DEF ControlAssumption, IInv, ThreadGivesUp, TypeOK, CreatedByMain, QuietWithoutId
<1>6. QuietBehind'
  BY DEF ControlAssumption, IInv, ThreadGivesUp, TypeOK, QuietWithoutId, QuietBehind
<1> QED
  BY <1>1, <1>2, <1>3, <1>4, <1>5, <1>6 DEF IInv

LEMMA LeaveLoopInv ==
  ASSUME ControlAssumption, IInv, NEW m \in Modules, LeaveLoop(m)
  PROVE  IInv'
<1> USE DEF Modules, ownerVars, mainVars, ownerLeaves, Quiet, NotStarted, Initialized,
            Destroyed, BeingStarted
<1>1. TypeOK'
  BY DEF ControlAssumption, IInv, LeaveLoop, MayLeave, FirstMayLeave, TypeOK, PlStates,
         ThreadPlaces, OwnerPlaces, MainPlaces, InRange, CreatedByMain
<1>2. InRange'
  BY DEF ControlAssumption, IInv, LeaveLoop, MayLeave, FirstMayLeave, TypeOK, InRange
<1>3. CreatedByMain'
  BY DEF ControlAssumption, IInv, LeaveLoop, MayLeave, FirstMayLeave, TypeOK,
         CreatedByMain
<1>4. IdsGivenOut'
  BY DEF ControlAssumption, IInv, LeaveLoop, MayLeave, FirstMayLeave, TypeOK, IdsGivenOut
<1>5. QuietWithoutId'
  BY DEF ControlAssumption, IInv, LeaveLoop, MayLeave, FirstMayLeave, TypeOK,
         CreatedByMain, QuietWithoutId
<1>6. QuietBehind'
  BY DEF ControlAssumption, IInv, LeaveLoop, MayLeave, FirstMayLeave, TypeOK,
         QuietWithoutId, QuietBehind
<1> QED
  BY <1>1, <1>2, <1>3, <1>4, <1>5, <1>6 DEF IInv

LEMMA EndThreadInv ==
  ASSUME ControlAssumption, IInv, NEW m \in Modules, EndThread(m)
  PROVE  IInv'
<1> USE DEF Modules, ownerVars, mainVars, ownerLeaves, Quiet, NotStarted, Initialized,
            Destroyed, BeingStarted
<1>1. TypeOK'
  BY DEF ControlAssumption, IInv, EndThread, EndState, TypeOK, PlStates, ThreadPlaces,
         OwnerPlaces, MainPlaces, InRange, CreatedByMain
<1>2. InRange'
  BY DEF ControlAssumption, IInv, EndThread, EndState, TypeOK, InRange
<1>3. CreatedByMain'
  BY DEF ControlAssumption, IInv, EndThread, EndState, TypeOK, CreatedByMain
<1>4. IdsGivenOut'
  BY DEF ControlAssumption, IInv, EndThread, EndState, TypeOK, IdsGivenOut
<1>5. QuietWithoutId'
  BY DEF ControlAssumption, IInv, EndThread, EndState, TypeOK, CreatedByMain,
         QuietWithoutId
<1>6. QuietBehind'
  BY DEF ControlAssumption, IInv, EndThread, EndState, TypeOK, QuietWithoutId, QuietBehind
<1> QED
  BY <1>1, <1>2, <1>3, <1>4, <1>5, <1>6 DEF IInv

LEMMA ChunkForNobodyInv ==
  ASSUME ControlAssumption, IInv, NEW m \in Modules, ChunkForNobody(m)
  PROVE  IInv'
<1> USE DEF Modules, ownerVars, mainVars, Quiet, NotStarted, BeingStarted
<1>1. /\ m - 1 \in Modules /\ thread[m - 1] = "running"
      /\ thread' = [thread EXCEPT ![m - 1] = "stuck"]
  BY DEF ChunkForNobody
<1>2. TypeOK'
  BY <1>1 DEF IInv, ChunkForNobody, TypeOK, ThreadPlaces
<1>3. InRange' /\ IdsGivenOut'
  BY DEF IInv, ChunkForNobody, InRange, IdsGivenOut
<1>4. CreatedByMain'
  BY <1>1 DEF IInv, ChunkForNobody, TypeOK, CreatedByMain
<1>5. QuietWithoutId' /\ QuietBehind'
  BY <1>1 DEF IInv, ChunkForNobody, TypeOK, QuietWithoutId, QuietBehind
<1> QED
  BY <1>2, <1>3, <1>4, <1>5 DEF IInv

LEMMA EndFinalizationInv ==
  ASSUME ControlAssumption, IInv, EndFinalization
  PROVE  IInv'
<1> USE DEF Modules, ownerVars, mainVars, ownerLeaves, Quiet, NotStarted, Initialized,
            Destroyed, BeingStarted
<1>1. TypeOK'
  BY DEF ControlAssumption, IInv, EndFinalization, MayLeave, EndState, TypeOK, PlStates,
         ThreadPlaces, OwnerPlaces, MainPlaces, InRange, CreatedByMain
<1>2. InRange'
  BY DEF ControlAssumption, IInv, EndFinalization, MayLeave, EndState, TypeOK, InRange
<1>3. CreatedByMain'
  BY DEF ControlAssumption, IInv, EndFinalization, MayLeave, EndState, TypeOK,
         CreatedByMain
<1>4. IdsGivenOut'
  BY DEF ControlAssumption, IInv, EndFinalization, MayLeave, EndState, TypeOK, IdsGivenOut
<1>5. QuietWithoutId'
  BY DEF ControlAssumption, IInv, EndFinalization, MayLeave, EndState, TypeOK,
         CreatedByMain, QuietWithoutId
<1>6. QuietBehind'
  BY DEF ControlAssumption, IInv, EndFinalization, MayLeave, EndState, TypeOK,
         QuietWithoutId, QuietBehind
<1> QED
  BY <1>1, <1>2, <1>3, <1>4, <1>5, <1>6 DEF IInv

LEMMA EnterInv ==
  ASSUME ControlAssumption, IInv, Enter
  PROVE  IInv'
<1> USE DEF Modules, ownerVars, mainVars, ownerLeaves, Quiet, NotStarted, Initialized,
            Destroyed, BeingStarted
<1>1. TypeOK'
  BY DEF ControlAssumption, IInv, Enter, TypeOK, PlStates, ThreadPlaces, OwnerPlaces,
         MainPlaces, InRange, CreatedByMain
<1>2. InRange'
  BY DEF ControlAssumption, IInv, Enter, TypeOK, InRange
<1>3. CreatedByMain'
  BY DEF ControlAssumption, IInv, Enter, TypeOK, CreatedByMain
<1>4. IdsGivenOut'
  BY DEF ControlAssumption, IInv, Enter, TypeOK, IdsGivenOut
<1>5. QuietWithoutId'
  BY DEF ControlAssumption, IInv, Enter, TypeOK, CreatedByMain, QuietWithoutId
<1>6. QuietBehind'
  BY DEF ControlAssumption, IInv, Enter, TypeOK, QuietWithoutId, QuietBehind
<1> QED
  BY <1>1, <1>2, <1>3, <1>4, <1>5, <1>6 DEF IInv

LEMMA CreateModuleInv ==
  ASSUME ControlAssumption, IInv, CreateModule
  PROVE  IInv'
<1> USE DEF Modules, ownerVars, mainVars, ownerLeaves, Quiet, NotStarted, Initialized,
            Destroyed, BeingStarted
<1>1. TypeOK'
  BY DEF ControlAssumption, IInv, CreateModule, TypeOK, PlStates, ThreadPlaces,
         OwnerPlaces, MainPlaces, InRange, CreatedByMain
<1>2. InRange'
  BY DEF ControlAssumption, IInv, CreateModule, TypeOK, InRange
<1>3. CreatedByMain'
  BY DEF ControlAssumption, IInv, CreateModule, TypeOK, CreatedByMain
<1>4. IdsGivenOut'
  BY DEF ControlAssumption, IInv, CreateModule, TypeOK, IdsGivenOut
<1>5. QuietWithoutId'
  BY DEF ControlAssumption, IInv, CreateModule, TypeOK, CreatedByMain, QuietWithoutId
<1>6. QuietBehind'
  BY DEF ControlAssumption, IInv, CreateModule, TypeOK, QuietWithoutId, QuietBehind
<1> QED
  BY <1>1, <1>2, <1>3, <1>4, <1>5, <1>6 DEF IInv

LEMMA WaitStartInv ==
  ASSUME ControlAssumption, IInv, WaitStart
  PROVE  IInv'
<1> USE DEF Modules, ownerVars, mainVars, ownerLeaves, Quiet, NotStarted, Initialized,
            Destroyed, BeingStarted
<1>1. TypeOK'
  BY DEF ControlAssumption, IInv, WaitStart, TypeOK, PlStates, ThreadPlaces, OwnerPlaces,
         MainPlaces, InRange, CreatedByMain
<1>2. InRange'
  BY DEF ControlAssumption, IInv, WaitStart, TypeOK, InRange
<1>3. CreatedByMain'
  BY DEF ControlAssumption, IInv, WaitStart, TypeOK, CreatedByMain
<1>4. IdsGivenOut'
  BY DEF ControlAssumption, IInv, WaitStart, TypeOK, IdsGivenOut
<1>5. QuietWithoutId'
  BY DEF ControlAssumption, IInv, WaitStart, TypeOK, CreatedByMain, QuietWithoutId
<1>6. QuietBehind'
  BY DEF ControlAssumption, IInv, WaitStart, TypeOK, QuietWithoutId, QuietBehind
<1> QED
  BY <1>1, <1>2, <1>3, <1>4, <1>5, <1>6 DEF IInv

LEMMA ModuleStartedInv ==
  ASSUME ControlAssumption, IInv, ModuleStarted
  PROVE  IInv'
<1> USE DEF Modules, ownerVars, mainVars, ownerLeaves, Quiet, NotStarted, Initialized,
            Destroyed, BeingStarted
<1>1. TypeOK'
  BY DEF ControlAssumption, IInv, ModuleStarted, TypeOK, PlStates, ThreadPlaces,
         OwnerPlaces, MainPlaces, InRange, CreatedByMain
<1>2. InRange'
  BY DEF ControlAssumption, IInv, ModuleStarted, TypeOK, InRange
<1>3. CreatedByMain'
  BY DEF ControlAssumption, IInv, ModuleStarted, TypeOK, CreatedByMain
<1>4. IdsGivenOut'
  BY DEF ControlAssumption, IInv, ModuleStarted, TypeOK, IdsGivenOut
<1>5. QuietWithoutId'
  BY DEF ControlAssumption, IInv, ModuleStarted, TypeOK, CreatedByMain, QuietWithoutId
<1>6. QuietBehind'
  BY DEF ControlAssumption, IInv, ModuleStarted, TypeOK, QuietWithoutId, QuietBehind
<1> QED
  BY <1>1, <1>2, <1>3, <1>4, <1>5, <1>6 DEF IInv

LEMMA ModuleFailedInv ==
  ASSUME ControlAssumption, IInv, ModuleFailed
  PROVE  IInv'
<1> USE DEF Modules, ownerVars, mainVars, ownerLeaves, Quiet, NotStarted, Initialized,
            Destroyed, BeingStarted
<1>1. TypeOK'
  BY DEF ControlAssumption, IInv, ModuleFailed, TypeOK, PlStates, ThreadPlaces,
         OwnerPlaces, MainPlaces, InRange, CreatedByMain
<1>2. InRange'
  BY DEF ControlAssumption, IInv, ModuleFailed, TypeOK, InRange
<1>3. CreatedByMain'
  BY DEF ControlAssumption, IInv, ModuleFailed, TypeOK, CreatedByMain
<1>4. IdsGivenOut'
  BY DEF ControlAssumption, IInv, ModuleFailed, TypeOK, IdsGivenOut
<1>5. QuietWithoutId'
  BY DEF ControlAssumption, IInv, ModuleFailed, TypeOK, CreatedByMain, QuietWithoutId
<1>6. QuietBehind'
  BY DEF ControlAssumption, IInv, ModuleFailed, TypeOK, QuietWithoutId, QuietBehind
<1> QED
  BY <1>1, <1>2, <1>3, <1>4, <1>5, <1>6 DEF IInv

LEMMA JoinFailedInv ==
  ASSUME ControlAssumption, IInv, JoinFailed
  PROVE  IInv'
<1> USE DEF Modules, ownerVars, mainVars, ownerLeaves, Quiet, NotStarted, Initialized,
            Destroyed, BeingStarted
<1>1. TypeOK'
  BY DEF ControlAssumption, IInv, JoinFailed, TypeOK, PlStates, ThreadPlaces, OwnerPlaces,
         MainPlaces, InRange, CreatedByMain
<1>2. InRange'
  BY DEF ControlAssumption, IInv, JoinFailed, TypeOK, InRange
<1>3. CreatedByMain'
  BY DEF ControlAssumption, IInv, JoinFailed, TypeOK, CreatedByMain
<1>4. IdsGivenOut'
  BY DEF ControlAssumption, IInv, JoinFailed, TypeOK, IdsGivenOut
<1>5. QuietWithoutId'
  BY DEF ControlAssumption, IInv, JoinFailed, TypeOK, CreatedByMain, QuietWithoutId
<1>6. QuietBehind'
  BY DEF ControlAssumption, IInv, JoinFailed, TypeOK, QuietWithoutId, QuietBehind
<1> QED
  BY <1>1, <1>2, <1>3, <1>4, <1>5, <1>6 DEF IInv

LEMMA DecideInv ==
  ASSUME ControlAssumption, IInv, Decide
  PROVE  IInv'
<1> USE DEF Modules, ownerVars, mainVars, ownerLeaves, Quiet, NotStarted, Initialized,
            Destroyed, BeingStarted
<1>1. TypeOK'
  BY DEF ControlAssumption, IInv, Decide, TypeOK, PlStates, ThreadPlaces, OwnerPlaces,
         MainPlaces, InRange, CreatedByMain
<1>2. InRange'
  BY DEF ControlAssumption, IInv, Decide, TypeOK, InRange
<1>3. CreatedByMain'
  BY DEF ControlAssumption, IInv, Decide, TypeOK, CreatedByMain
<1>4. IdsGivenOut'
  BY DEF ControlAssumption, IInv, Decide, TypeOK, IdsGivenOut
<1>5. QuietWithoutId'
  BY DEF ControlAssumption, IInv, Decide, TypeOK, CreatedByMain, QuietWithoutId
<1>6. QuietBehind'
  BY DEF ControlAssumption, IInv, Decide, TypeOK, QuietWithoutId, QuietBehind
<1> QED
  BY <1>1, <1>2, <1>3, <1>4, <1>5, <1>6 DEF IInv

LEMMA JoinNextInv ==
  ASSUME ControlAssumption, IInv, JoinNext
  PROVE  IInv'
<1> USE DEF Modules, ownerVars, mainVars, ownerLeaves, Quiet, NotStarted, Initialized,
            Destroyed, BeingStarted
<1>1. TypeOK'
  BY DEF ControlAssumption, IInv, JoinNext, ReadyToJoin, TypeOK, PlStates, ThreadPlaces,
         OwnerPlaces, MainPlaces, InRange, CreatedByMain
<1>2. InRange'
  BY DEF ControlAssumption, IInv, JoinNext, ReadyToJoin, TypeOK, InRange
<1>3. CreatedByMain'
  BY DEF ControlAssumption, IInv, JoinNext, ReadyToJoin, TypeOK, CreatedByMain
<1>4. IdsGivenOut'
  BY DEF ControlAssumption, IInv, JoinNext, ReadyToJoin, TypeOK, IdsGivenOut
<1>5. QuietWithoutId'
  BY DEF ControlAssumption, IInv, JoinNext, ReadyToJoin, TypeOK, CreatedByMain,
         QuietWithoutId
<1>6. QuietBehind'
  BY DEF ControlAssumption, IInv, JoinNext, ReadyToJoin, TypeOK, QuietWithoutId,
         QuietBehind
<1> QED
  BY <1>1, <1>2, <1>3, <1>4, <1>5, <1>6 DEF IInv

LEMMA FreeAllInv ==
  ASSUME ControlAssumption, IInv, FreeAll
  PROVE  IInv'
<1> USE DEF Modules, ownerVars, mainVars, ownerLeaves, Quiet, NotStarted, Initialized,
            Destroyed, BeingStarted
<1>1. TypeOK'
  BY DEF ControlAssumption, IInv, FreeAll, TypeOK, PlStates, ThreadPlaces, OwnerPlaces,
         MainPlaces, InRange, CreatedByMain
<1>2. InRange'
  BY DEF ControlAssumption, IInv, FreeAll, TypeOK, InRange
<1>3. CreatedByMain'
  BY DEF ControlAssumption, IInv, FreeAll, TypeOK, CreatedByMain
<1>4. IdsGivenOut'
  BY DEF ControlAssumption, IInv, FreeAll, TypeOK, IdsGivenOut
<1>5. QuietWithoutId'
  BY DEF ControlAssumption, IInv, FreeAll, TypeOK, CreatedByMain, QuietWithoutId
<1>6. QuietBehind'
  BY DEF ControlAssumption, IInv, FreeAll, TypeOK, QuietWithoutId, QuietBehind
<1> QED
  BY <1>1, <1>2, <1>3, <1>4, <1>5, <1>6 DEF IInv

LEMMA InitPipelineInv ==
  ASSUME ControlAssumption, IInv, InitPipeline
  PROVE  IInv'
<1> USE DEF Modules, ownerVars, mainVars, ownerLeaves, Quiet, NotStarted, Initialized,
            Destroyed, BeingStarted
<1>1. TypeOK'
  <2>1. /\ made' \in 0..MaxPipelines
        /\ processCnt' \in 0..ProcMax
    BY DEF ControlAssumption, IInv, TypeOK, InitPipeline
  <2>2. /\ thread' \in [Modules -> ThreadPlaces]
        /\ state' \in [Modules -> PlStates]
        /\ mailbox' \in [Modules -> {"raw", "ready", "gone"}]
    BY DEF InitPipeline, NewPipeline, ThreadPlaces, PlStates
  <2>3. idx' \in [Modules -> {NotStarted, Initialized, Destroyed} \cup 0..(ProcMax - 1)]
    BY DEF InitPipeline, NewPipeline
  <2>4. /\ owner' \in OwnerPlaces
        /\ main' \in MainPlaces
        /\ plState' \in PlStates
    BY DEF InitPipeline, NewPipeline, OwnerPlaces, MainPlaces, PlStates
  <2>5. /\ target' \in {"UNKNOWN", "PAUSE", "LIVE", "STOP"}
        /\ at' \in 0..(Last + 1)
        /\ exitFlag' \in {0, 1}
        /\ cur' \in 0..(Last + 1)
        /\ realStarted' \in 0..(Last + 1)
        /\ startControl' \in {0, 1}
    BY DEF ControlAssumption, IInv, TypeOK, InitPipeline, NewPipeline
  <2>6. asked' \in BOOLEAN
    BY Zenon DEF InitPipeline
  <2> HIDE DEF Modules, NotStarted, Initialized, Destroyed
  <2> QED
    BY <2>1, <2>2, <2>3, <2>4, <2>5, <2>6 DEF TypeOK
<1>2. InRange'
  BY DEF ControlAssumption, IInv, InitPipeline, NewPipeline, TypeOK, InRange
<1>3. CreatedByMain'
  BY DEF ControlAssumption, IInv, InitPipeline, NewPipeline, TypeOK, CreatedByMain
<1>4. IdsGivenOut'
  BY DEF ControlAssumption, IInv, InitPipeline, NewPipeline, TypeOK, IdsGivenOut
<1>5. QuietWithoutId'
  BY DEF ControlAssumption, IInv, InitPipeline, NewPipeline, TypeOK, CreatedByMain,
         QuietWithoutId
<1>6. QuietBehind'
  BY DEF ControlAssumption, IInv, InitPipeline, NewPipeline, TypeOK, QuietWithoutId,
         QuietBehind
<1> QED
  BY <1>1, <1>2, <1>3, <1>4, <1>5, <1>6 DEF IInv

LEMMA CallStartInv ==
  ASSUME ControlAssumption, IInv, CallStart
  PROVE  IInv'
<1> USE DEF Modules, ownerVars, mainVars, ownerLeaves, Quiet, NotStarted, Initialized,
            Destroyed, BeingStarted
<1>1. TypeOK'
  BY DEF ControlAssumption, IInv, CallStart, TypeOK, PlStates, ThreadPlaces, OwnerPlaces,
         MainPlaces, InRange, CreatedByMain
<1>2. InRange'
  BY DEF ControlAssumption, IInv, CallStart, TypeOK, InRange
<1>3. CreatedByMain'
  BY DEF ControlAssumption, IInv, CallStart, TypeOK, CreatedByMain
<1>4. IdsGivenOut'
  BY DEF ControlAssumption, IInv, CallStart, TypeOK, IdsGivenOut
<1>5. QuietWithoutId'
  BY DEF ControlAssumption, IInv, CallStart, TypeOK, CreatedByMain, QuietWithoutId
<1>6. QuietBehind'
  BY DEF ControlAssumption, IInv, CallStart, TypeOK, QuietWithoutId, QuietBehind
<1> QED
  BY <1>1, <1>2, <1>3, <1>4, <1>5, <1>6 DEF IInv

LEMMA StartSeesInitInv ==
  ASSUME ControlAssumption, IInv, StartSeesInit
  PROVE  IInv'
<1> USE DEF Modules, ownerVars, mainVars, ownerLeaves, Quiet, NotStarted, Initialized,
            Destroyed, BeingStarted
<1>1. TypeOK'
  BY DEF ControlAssumption, IInv, StartSeesInit, BeginSet, TypeOK, PlStates, ThreadPlaces,
         OwnerPlaces, MainPlaces, InRange, CreatedByMain
<1>2. InRange'
  BY DEF ControlAssumption, IInv, StartSeesInit, BeginSet, TypeOK, InRange
<1>3. CreatedByMain'
  BY DEF ControlAssumption, IInv, StartSeesInit, BeginSet, TypeOK, CreatedByMain
<1>4. IdsGivenOut'
  BY DEF ControlAssumption, IInv, StartSeesInit, BeginSet, TypeOK, IdsGivenOut
<1>5. QuietWithoutId'
  BY DEF ControlAssumption, IInv, StartSeesInit, BeginSet, TypeOK, CreatedByMain,
         QuietWithoutId
<1>6. QuietBehind'
  BY DEF ControlAssumption, IInv, StartSeesInit, BeginSet, TypeOK, QuietWithoutId,
         QuietBehind
<1> QED
  BY <1>1, <1>2, <1>3, <1>4, <1>5, <1>6 DEF IInv

LEMMA CallLiveInv ==
  ASSUME ControlAssumption, IInv, CallLive
  PROVE  IInv'
<1> USE DEF Modules, ownerVars, mainVars, ownerLeaves, Quiet, NotStarted, Initialized,
            Destroyed, BeingStarted
<1>1. TypeOK'
  BY DEF ControlAssumption, IInv, CallLive, MayCommand, BeginSet, TypeOK, PlStates,
         ThreadPlaces, OwnerPlaces, MainPlaces, InRange, CreatedByMain
<1>2. InRange'
  BY DEF ControlAssumption, IInv, CallLive, MayCommand, BeginSet, TypeOK, InRange
<1>3. CreatedByMain'
  BY DEF ControlAssumption, IInv, CallLive, MayCommand, BeginSet, TypeOK, CreatedByMain
<1>4. IdsGivenOut'
  BY DEF ControlAssumption, IInv, CallLive, MayCommand, BeginSet, TypeOK, IdsGivenOut
<1>5. QuietWithoutId'
  BY DEF ControlAssumption, IInv, CallLive, MayCommand, BeginSet, TypeOK, CreatedByMain,
         QuietWithoutId
<1>6. QuietBehind'
  BY DEF ControlAssumption, IInv, CallLive, MayCommand, BeginSet, TypeOK, QuietWithoutId,
         QuietBehind
<1> QED
  BY <1>1, <1>2, <1>3, <1>4, <1>5, <1>6 DEF IInv

LEMMA CallPauseInv ==
  ASSUME ControlAssumption, IInv, CallPause
  PROVE  IInv'
<1> USE DEF Modules, ownerVars, mainVars, ownerLeaves, Quiet, NotStarted, Initialized,
            Destroyed, BeingStarted
<1>1. TypeOK'
  BY DEF ControlAssumption, IInv, CallPause, MayCommand, BeginSet, TypeOK, PlStates,
         ThreadPlaces, OwnerPlaces, MainPlaces, InRange, CreatedByMain
<1>2. InRange'
  BY DEF ControlAssumption, IInv, CallPause, MayCommand, BeginSet, TypeOK, InRange
<1>3. CreatedByMain'
  BY DEF ControlAssumption, IInv, CallPause, MayCommand, BeginSet, TypeOK, CreatedByMain
<1>4. IdsGivenOut'
  BY DEF ControlAssumption, IInv, CallPause, MayCommand, BeginSet, TypeOK, IdsGivenOut
<1>5. QuietWithoutId'
  BY DEF ControlAssumption, IInv, CallPause, MayCommand, BeginSet, TypeOK, CreatedByMain,
         QuietWithoutId
<1>6. QuietBehind'
  BY DEF ControlAssumption, IInv, CallPause, MayCommand, BeginSet, TypeOK, QuietWithoutId,
         QuietBehind
<1> QED
  BY <1>1, <1>2, <1>3, <1>4, <1>5, <1>6 DEF IInv

LEMMA CallStopInv ==
  ASSUME ControlAssumption, IInv, CallStop
  PROVE  IInv'
<1> USE DEF Modules, ownerVars, mainVars, ownerLeaves, Quiet, NotStarted, Initialized,
            Destroyed, BeingStarted
<1>1. TypeOK'
  BY DEF ControlAssumption, IInv, CallStop, MayCommand, BeginSet, TypeOK, PlStates,
         ThreadPlaces, OwnerPlaces, MainPlaces, InRange, CreatedByMain
<1>2. InRange'
  BY DEF ControlAssumption, IInv, CallStop, MayCommand, BeginSet, TypeOK, InRange
<1>3. CreatedByMain'
  BY DEF ControlAssumption, IInv, CallStop, MayCommand, BeginSet, TypeOK, CreatedByMain
<1>4. IdsGivenOut'
  BY DEF ControlAssumption, IInv, CallStop, MayCommand, BeginSet, TypeOK, IdsGivenOut
<1>5. QuietWithoutId'
  BY DEF ControlAssumption, IInv, CallStop, MayCommand, BeginSet, TypeOK, CreatedByMain,
         QuietWithoutId
<1>6. QuietBehind'
  BY DEF ControlAssumption, IInv, CallStop, MayCommand, BeginSet, TypeOK, QuietWithoutId,
         QuietBehind
<1> QED
  BY <1>1, <1>2, <1>3, <1>4, <1>5, <1>6 DEF IInv

LEMMA CheckStateInv ==
  ASSUME ControlAssumption, IInv, CheckState
  PROVE  IInv'
<1> USE DEF Modules, ownerVars, mainVars, ownerLeaves, Quiet, NotStarted, Initialized,
            Destroyed, BeingStarted
<1>1. TypeOK'
  BY DEF ControlAssumption, IInv, CheckState, TypeOK, PlStates, ThreadPlaces, OwnerPlaces,
         MainPlaces, InRange, CreatedByMain
<1>2. InRange'
  BY DEF ControlAssumption, IInv, CheckState, TypeOK, InRange
<1>3. CreatedByMain'
  BY DEF ControlAssumption, IInv, CheckState, TypeOK, CreatedByMain
<1>4. IdsGivenOut'
  BY DEF ControlAssumption, IInv, CheckState, TypeOK, IdsGivenOut
<1>5. QuietWithoutId'
  BY DEF ControlAssumption, IInv, CheckState, TypeOK, CreatedByMain, QuietWithoutId
<1>6. QuietBehind'
  BY DEF ControlAssumption, IInv, CheckState, TypeOK, QuietWithoutId, QuietBehind
<1> QED
  BY <1>1, <1>2, <1>3, <1>4, <1>5, <1>6 DEF IInv

LEMMA WriteStateInv ==
  ASSUME ControlAssumption, IInv, WriteState
  PROVE  IInv'
<1> USE DEF Modules, ownerVars, mainVars, ownerLeaves, Quiet, NotStarted, Initialized,
            Destroyed, BeingStarted
<1>1. TypeOK'
  BY DEF ControlAssumption, IInv, WriteState, TypeOK, PlStates, ThreadPlaces, OwnerPlaces,
         MainPlaces, InRange, CreatedByMain
<1>2. InRange'
  BY DEF ControlAssumption, IInv, WriteState, TypeOK, InRange
<1>3. CreatedByMain'
  BY DEF ControlAssumption, IInv, WriteState, TypeOK, CreatedByMain
<1>4. IdsGivenOut'
  BY DEF ControlAssumption, IInv, WriteState, TypeOK, IdsGivenOut
<1>5. QuietWithoutId'
  BY DEF ControlAssumption, IInv, WriteState, TypeOK, CreatedByMain, QuietWithoutId
<1>6. QuietBehind'
  BY DEF ControlAssumption, IInv, WriteState, TypeOK, QuietWithoutId, QuietBehind
<1> QED
  BY <1>1, <1>2, <1>3, <1>4, <1>5, <1>6 DEF IInv

LEMMA PublishInv ==
  ASSUME ControlAssumption, IInv, Publish
  PROVE  IInv'
<1> USE DEF Modules, ownerVars, mainVars, ownerLeaves, Quiet, NotStarted, Initialized,
            Destroyed, BeingStarted
<1>1. TypeOK'
  BY DEF ControlAssumption, IInv, Publish, TypeOK, PlStates, ThreadPlaces, OwnerPlaces,
         MainPlaces, InRange, CreatedByMain
<1>2. InRange'
  BY DEF ControlAssumption, IInv, Publish, TypeOK, InRange
<1>3. CreatedByMain'
  BY DEF ControlAssumption, IInv, Publish, TypeOK, CreatedByMain
<1>4. IdsGivenOut'
  BY DEF ControlAssumption, IInv, Publish, TypeOK, IdsGivenOut
<1>5. QuietWithoutId'
  BY DEF ControlAssumption, IInv, Publish, TypeOK, CreatedByMain, QuietWithoutId
<1>6. QuietBehind'
  BY DEF ControlAssumption, IInv, Publish, TypeOK, QuietWithoutId, QuietBehind
<1> QED
  BY <1>1, <1>2, <1>3, <1>4, <1>5, <1>6 DEF IInv

LEMMA CallDestroyInv ==
  ASSUME ControlAssumption, IInv, CallDestroy
  PROVE  IInv'
<1> USE DEF Modules, ownerVars, mainVars, ownerLeaves, Quiet, NotStarted, Initialized,
            Destroyed, BeingStarted
<1>1. TypeOK'
  BY DEF ControlAssumption, IInv, CallDestroy, MayCommand, TypeOK, PlStates, ThreadPlaces,
         OwnerPlaces, MainPlaces, InRange, CreatedByMain
<1>2. InRange'
  BY DEF ControlAssumption, IInv, CallDestroy, MayCommand, TypeOK, InRange
<1>3. CreatedByMain'
  BY DEF ControlAssumption, IInv, CallDestroy, MayCommand, TypeOK, CreatedByMain
<1>4. IdsGivenOut'
  BY DEF ControlAssumption, IInv, CallDestroy, MayCommand, TypeOK, IdsGivenOut
<1>5. QuietWithoutId'
  BY DEF ControlAssumption, IInv, CallDestroy, MayCommand, TypeOK, CreatedByMain,
         QuietWithoutId
<1>6. QuietBehind'
  BY DEF ControlAssumption, IInv, CallDestroy, MayCommand, TypeOK, QuietWithoutId,
         QuietBehind
<1> QED
  BY <1>1, <1>2, <1>3, <1>4, <1>5, <1>6 DEF IInv

LEMMA DestroyPipelineInv ==
  ASSUME ControlAssumption, IInv, DestroyPipeline
  PROVE  IInv'
<1> USE DEF Modules, ownerVars, mainVars, ownerLeaves, Quiet, NotStarted, Initialized,
            Destroyed, BeingStarted
<1>1. TypeOK'
  BY DEF ControlAssumption, IInv, DestroyPipeline, TypeOK, PlStates, ThreadPlaces,
         OwnerPlaces, MainPlaces, InRange, CreatedByMain
<1>2. InRange'
  BY DEF ControlAssumption, IInv, DestroyPipeline, TypeOK, InRange
<1>3. CreatedByMain'
  BY DEF ControlAssumption, IInv, DestroyPipeline, TypeOK, CreatedByMain
<1>4. IdsGivenOut'
  BY DEF ControlAssumption, IInv, DestroyPipeline, TypeOK, IdsGivenOut
<1>5. QuietWithoutId'
  BY DEF ControlAssumption, IInv, DestroyPipeline, TypeOK, CreatedByMain, QuietWithoutId
<1>6. QuietBehind'
  BY DEF ControlAssumption, IInv, DestroyPipeline, TypeOK, QuietWithoutId, QuietBehind
<1> QED
  BY <1>1, <1>2, <1>3, <1>4, <1>5, <1>6 DEF IInv

LEMMA ThreadInv ==
  ASSUME ControlAssumption, IInv, NEW m \in Modules, Thread(m)
  PROVE  IInv'
BY ThreadStartsInv, InternalStartsWithoutIdInv, ThreadFailsInv, ThreadGivesUpInv,
   LeaveLoopInv, EndThreadInv
DEF Thread

LEMMA MainInv ==
  ASSUME ControlAssumption, IInv, Main
  PROVE  IInv'
BY EnterInv, CreateModuleInv, WaitStartInv, ModuleStartedInv, ModuleFailedInv,
   JoinFailedInv, DecideInv, JoinNextInv, FreeAllInv
DEF Main

LEMMA OwnerInv ==
  ASSUME ControlAssumption, IInv, OwnerGoesOn \/ OwnerCalls
  PROVE  IInv'
BY InitPipelineInv, CallStartInv, StartSeesInitInv, CallLiveInv, CallPauseInv, CallStopInv,
   CheckStateInv, WriteStateInv, PublishInv, CallDestroyInv, DestroyPipelineInv
DEF OwnerGoesOn, OwnerCalls

LEMMA StutterInv ==
  ASSUME IInv, UNCHANGED vars
  PROVE  IInv'
BY DEF vars, ownerVars, mainVars, IInv, TypeOK, InRange, CreatedByMain, IdsGivenOut,
       QuietWithoutId, QuietBehind, Quiet, BeingStarted

LEMMA InitInv ==
  ASSUME ControlAssumption, Init
  PROVE  IInv
<1>1. TypeOK
  <2>1. /\ idx \in [Modules -> {NotStarted, Initialized, Destroyed} \cup 0..(ProcMax - 1)]
        /\ thread \in [Modules -> ThreadPlaces]
        /\ state \in [Modules -> PlStates]
        /\ mailbox \in [Modules -> {"raw", "ready", "gone"}]
    BY DEF Init, ThreadPlaces, PlStates
  <2>2. /\ owner \in OwnerPlaces
        /\ main \in MainPlaces
        /\ plState \in PlStates
    BY DEF Init, OwnerPlaces, MainPlaces, PlStates
  <2>3. asked \in BOOLEAN
    BY Zenon DEF Init
  <2>4. /\ made \in 0..MaxPipelines
        /\ target \in {"UNKNOWN", "PAUSE", "LIVE", "STOP"}
        /\ at \in 0..(Last + 1)
        /\ exitFlag \in {0, 1}
        /\ cur \in 0..(Last + 1)
        /\ realStarted \in 0..(Last + 1)
        /\ startControl \in {0, 1}
        /\ processCnt \in 0..ProcMax
    BY DEF ControlAssumption, Init
  <2> QED
    BY <2>1, <2>2, <2>3, <2>4 DEF TypeOK
<1>2. InRange /\ CreatedByMain /\ IdsGivenOut
  BY DEF ControlAssumption, Init, InRange, CreatedByMain, IdsGivenOut, Modules, NotStarted
<1>3. QuietWithoutId /\ QuietBehind
  BY DEF ControlAssumption, Init, QuietWithoutId, QuietBehind, Quiet
<1> QED
  BY <1>1, <1>2, <1>3 DEF IInv

-----------------------------------------------------------------------------
(* The theorems.                                                           *)

\* Whatever the owner calls, and whichever modules fail to start, the invariant
\* holds in every reachable state.
THEOREM Invariant == Spec => []IInv
<1>1. Init => IInv
  BY ControlAssumption, InitInv
<1>2. IInv /\ [Next]_vars => IInv'
  <2> SUFFICES ASSUME IInv, [Next]_vars PROVE IInv'
    OBVIOUS
  <2>1. CASE \E m \in Modules : Thread(m)
    BY <2>1, ControlAssumption, ThreadInv
  <2>2. CASE EndFinalization
    BY <2>2, ControlAssumption, EndFinalizationInv
  <2>3. CASE Main
    BY <2>3, ControlAssumption, MainInv
  <2>4. CASE OwnerGoesOn \/ OwnerCalls
    BY <2>4, ControlAssumption, OwnerInv
  <2>5. CASE \E m \in Modules : ChunkForNobody(m)
    BY <2>5, ControlAssumption, ChunkForNobodyInv
  <2>6. CASE UNCHANGED vars
    BY <2>6, StutterInv
  <2> QED
    BY <2>1, <2>2, <2>3, <2>4, <2>5, <2>6 DEF Next
<1> QED
  BY <1>1, <1>2, PTL DEF Spec

\* Every variable keeps its range: no index of the list, no counter and no id of a
\* process leaves it.
THEOREM TypeCorrect == Spec => []TypeOK
<1>1. IInv => TypeOK
  BY DEF IInv
<1> QED
  BY <1>1, Invariant, PTL

\* No thread of a module is left when the main thread has freed what they use
\* (pipeline_thread, the join loop and the two calls behind it).
THEOREM FreedAlone == Spec => []NothingOutlivesPipeline
<1>1. IInv => NothingOutlivesPipeline
  BY DEF IInv, QuietBehind, Quiet, NothingOutlivesPipeline
<1> QED
  BY <1>1, Invariant, PTL

\* The entries of the table of processes are never shared and never behind its
\* end, over all pipelines of the program (process_start).
THEOREM EntriesDistinct == Spec => []OwnTableEntry
<1>1. IInv => OwnTableEntry
  BY ControlAssumption
  DEF ControlAssumption, IInv, TypeOK, IdsGivenOut, OwnTableEntry, NotStarted, Initialized,
      Destroyed
<1> QED
  BY <1>1, Invariant, PTL

-----------------------------------------------------------------------------
(* A patient owner: semaphores are set up before they are waited on and    *)
(* destroyed after, and nobody overwrites the owner's last word.           *)

Settled == main \in {"join", "exited"}

\* The owner commands only after the main thread has decided.
Commanded ==
    /\ plState \in {"INIT", "PAUSE", "LIVE", "STOP"} => Settled
    /\ owner # "none" /\ (asked \/ owner \in {"check", "write", "join"}) => Settled

Raw(m) == mailbox[m] = "raw"

\* The start loop sets up the modules in the order of the list, and leaves some
\* behind only after a failed start.
SetUpInOrder ==
    /\ \A m \in Modules : Raw(m) => thread[m] = "none"
    /\ main \in {"enter", "create"} => \A m \in Modules : Raw(m) <=> m >= cur
    /\ main \in {"wait", "test", "joinfailed"} => \A m \in Modules : Raw(m) <=> m > cur
    /\ main \in {"decide", "join", "exited"} /\ (\E m \in Modules : Raw(m)) => exitFlag = 1

\* The join loop destroys them in the same order.
DestroyedInOrder ==
    \A m \in Modules : mailbox[m] = "gone" =>
        \/ main \in {"exited", "none"}
        \/ main = "join" /\ m < cur

\* exit_flag is raised by the module that fails to start, the last that is set up.
FailureStopsTheLoop == exitFlag = 1 =>
    /\ main \notin {"enter", "create"}
    /\ main \in {"wait", "test"} => idx[cur] = NotStarted /\ thread[cur] # "created"
    /\ \A m \in Modules : m < Last /\ thread[m] = "running" => ~Raw(m + 1)

\* While modules are left to set up and none failed, no thread ends, except one
\* that gives up and is waited for in vain.
NobodyEndsEarly ==
    exitFlag = 0 /\ (\E m \in Modules : Raw(m)) =>
        /\ state[0] # "STOP"
        /\ \A m \in Modules :
              /\ thread[m] \notin {"ending", "stuck", "joined"}
              /\ thread[m] = "done" => main = "wait" /\ cur = m /\ startControl = 0

MailboxInv ==
    /\ IInv
    /\ SetUpInOrder
    /\ DestroyedInOrder
    /\ FailureStopsTheLoop
    /\ NobodyEndsEarly
    /\ MailboxesUsable

PatientInv == MailboxInv /\ Commanded

\* A thread that may leave its loop finds the semaphores of its successor.
LEMMA SuccessorReady ==
  ASSUME ControlAssumption, MailboxInv, NEW m \in Modules, m < Last, MayLeave(m)
  PROVE  mailbox[m + 1] = "ready"
<1> USE DEF MailboxInv, IInv, TypeOK
<1>1. m + 1 \in Modules /\ thread[m] = "running"
  BY DEF Modules, MayLeave, ControlAssumption
<1>2. mailbox[m + 1] # "gone"
  <2> SUFFICES ASSUME mailbox[m + 1] = "gone" PROVE FALSE
    OBVIOUS
  <2>1. main \in {"exited", "none"} \/ (main = "join" /\ m + 1 < cur)
    BY <1>1 DEF DestroyedInOrder
  <2>2. m \in Int /\ cur \in Int
    BY DEF Modules
  <2>3. Quiet(m)
    BY <2>1, <2>2 DEF QuietBehind
  <2> QED
    BY <1>1, <2>3 DEF Quiet
<1>3. ~Raw(m + 1)
  <2>1. CASE exitFlag = 1
    BY <1>1, <2>1 DEF FailureStopsTheLoop
  <2>2. CASE exitFlag = 0 /\ m = 0
    BY <1>1, <2>2 DEF MayLeave, FirstMayLeave, NobodyEndsEarly
  <2>3. CASE exitFlag = 0 /\ m # 0
    <3> SUFFICES ASSUME Raw(m + 1) PROVE FALSE
      OBVIOUS
    <3>1. m - 1 \in Modules /\ thread[m - 1] \in AfterStop
      BY <2>3 DEF MayLeave, Modules
    <3>2. main = "wait" /\ cur = m - 1
      BY <1>1, <2>3, <3>1 DEF AfterStop, NobodyEndsEarly
    <3>3. Raw(m)
      BY <3>2 DEF SetUpInOrder, Modules
    <3> QED
      BY <1>1, <3>3 DEF SetUpInOrder
  <2> QED
    BY <2>1, <2>2, <2>3
<1> QED
  BY <1>1, <1>2, <1>3 DEF Raw

-----------------------------------------------------------------------------
(* The steps of the owner.                                                 *)

\* The owner changes states only, and only when the main thread has decided.
LEMMA OwnerMailboxes ==
  ASSUME ControlAssumption, MailboxInv, IInv', UNCHANGED ownerLeaves,
         state' = state \/ Settled
  PROVE  MailboxInv'
<1> USE DEF MailboxInv, ownerLeaves, mainVars
<1>1. SetUpInOrder' /\ DestroyedInOrder' /\ FailureStopsTheLoop' /\ MailboxesUsable'
  BY DEF SetUpInOrder, DestroyedInOrder, FailureStopsTheLoop, MailboxesUsable, Raw
<1>2. NobodyEndsEarly'
  BY DEF NobodyEndsEarly, Settled, SetUpInOrder, Raw
<1> QED
  BY <1>1, <1>2

LEMMA OwnerGoesOnPatient ==
  ASSUME ControlAssumption, PatientInv, IInv', OwnerGoesOn
  PROVE  PatientInv'
<1> USE DEF PatientInv, Commanded, Settled
<1>1. CASE StartSeesInit \/ CheckState \/ WriteState \/ Publish
  <2>1. UNCHANGED ownerLeaves /\ (state' = state \/ Settled)
    BY <1>1 DEF StartSeesInit, BeginSet, CheckState, WriteState, Publish
  <2>2. MailboxInv'
    BY <2>1, OwnerMailboxes
  <2>3. Commanded'
    BY <1>1 DEF StartSeesInit, BeginSet, CheckState, WriteState, Publish, ownerLeaves, mainVars
  <2> QED
    BY <2>2, <2>3
<1>2. CASE DestroyPipeline
  <2> USE <1>2 DEF DestroyPipeline, MailboxInv
  <2>1. main = "exited" /\ main' = "none" /\ exitFlag' = 1
        /\ UNCHANGED <<thread, mailbox, cur, idx, startControl>>
    OBVIOUS
  <2>2. \A m \in Modules : Quiet(m)
    BY <2>1 DEF IInv, QuietBehind
  <2>3. SetUpInOrder' /\ DestroyedInOrder'
    BY <2>1 DEF SetUpInOrder, DestroyedInOrder, Raw
  <2>4. FailureStopsTheLoop' /\ NobodyEndsEarly' /\ MailboxesUsable'
    BY <2>1, <2>2 DEF FailureStopsTheLoop, NobodyEndsEarly, MailboxesUsable, Raw, Quiet
  <2>5. Commanded'
    OBVIOUS
  <2> QED
    BY <2>3, <2>4, <2>5
<1> QED
  BY <1>1, <1>2 DEF OwnerGoesOn

LEMMA OwnerCallsPatient ==
  ASSUME ControlAssumption, Patient, PatientInv, IInv', OwnerCalls
  PROVE  PatientInv'
<1> USE DEF PatientInv, Commanded, Settled
<1>1. CASE CallStart \/ CallLive \/ CallPause \/ CallStop \/ CallDestroy
  <2>1. UNCHANGED <<ownerLeaves, state, plState, asked>>
    BY <1>1 DEF CallStart, CallLive, CallPause, CallStop, CallDestroy, BeginSet
  <2>2. MailboxInv'
    BY <2>1, OwnerMailboxes
  <2>3. owner = "idle" /\ (owner' = "poll" \/ asked)
    BY <1>1 DEF CallStart, CallLive, CallPause, CallStop, CallDestroy, MayCommand
  <2>4. Commanded'
    BY <2>1, <2>3 DEF ownerLeaves, mainVars
  <2> QED
    BY <2>2, <2>4
<1>2. CASE InitPipeline
  <2> USE <1>2 DEF InitPipeline, NewPipeline, Modules
  <2>1. /\ \A m \in Modules : /\ thread'[m] = "none" /\ mailbox'[m] = "raw"
                              /\ state'[m] = "UNKNOWN"
        /\ main' = "enter" /\ cur' = 0 /\ exitFlag' = 0 /\ plState' = "UNKNOWN"
        /\ owner' = "idle" /\ asked' = FALSE
    OBVIOUS
  <2>2. SetUpInOrder' /\ DestroyedInOrder'
    BY <2>1 DEF SetUpInOrder, DestroyedInOrder, Raw
  <2>3. FailureStopsTheLoop' /\ MailboxesUsable'
    BY <2>1 DEF FailureStopsTheLoop, MailboxesUsable
  <2>4. NobodyEndsEarly'
    BY <2>1 DEF NobodyEndsEarly, ControlAssumption
  <2>5. Commanded'
    BY <2>1
  <2> QED
    BY <2>2, <2>3, <2>4, <2>5 DEF MailboxInv
<1> QED
  BY <1>1, <1>2 DEF OwnerCalls

-----------------------------------------------------------------------------
(* The steps of the threads of the modules.                                *)

LEMMA ThreadMailboxes ==
  ASSUME ControlAssumption, MailboxInv, IInv', NEW m \in Modules, Thread(m)
  PROVE  MailboxInv'
<1> USE DEF MailboxInv, IInv, TypeOK, ownerVars, mainVars
<1>1. UNCHANGED <<mainVars, mailbox>> /\ thread[m] # "none" /\ m \in Int /\ cur \in Int
  BY DEF Thread, ThreadStarts, InternalStartsWithoutId, ThreadFails, ThreadGivesUp, LeaveLoop,
         EndThread, MayLeave, Modules
<1>2. \A n \in Modules : n # m => thread'[n] = thread[n]
  BY DEF Thread, ThreadStarts, InternalStartsWithoutId, ThreadFails, ThreadGivesUp, LeaveLoop,
         EndThread, StartFailed
<1>3. exitFlag = 1 => exitFlag' = 1
  BY DEF Thread, ThreadStarts, InternalStartsWithoutId, ThreadFails, ThreadGivesUp, LeaveLoop,
         EndThread, StartFailed
<1>4. ~Raw(m) /\ \A n \in Modules : Raw(n)' <=> Raw(n)
  BY <1>1 DEF SetUpInOrder, Raw
<1>5. SetUpInOrder'
  BY <1>1, <1>2, <1>3, <1>4 DEF SetUpInOrder
<1>6. DestroyedInOrder'
  BY <1>1 DEF DestroyedInOrder
<1>7. thread[m] = "created" => main = "wait" /\ cur = m /\ startControl = 0 /\ exitFlag = 0
  BY DEF CreatedByMain, FailureStopsTheLoop
<1>8. CASE ThreadStarts(m) \/ InternalStartsWithoutId(m)
  <2>1. /\ thread[m] = "created" /\ thread' = [thread EXCEPT ![m] = "running"]
        /\ UNCHANGED <<exitFlag, state>>
    BY <1>8 DEF ThreadStarts, InternalStartsWithoutId
  <2>2. FailureStopsTheLoop'
    BY <1>7, <2>1 DEF FailureStopsTheLoop
  <2>3. NobodyEndsEarly'
    BY <1>1, <1>2, <1>4, <1>7, <2>1 DEF NobodyEndsEarly
  <2>4. MailboxesUsable'
    BY <1>1, <2>1 DEF MailboxesUsable
  <2> QED
    BY <1>5, <1>6, <2>2, <2>3, <2>4
<1>9. CASE ThreadFails(m)
  <2>1. /\ thread[m] = "created" /\ thread' = [thread EXCEPT ![m] = "done"]
        /\ exitFlag' = 1 /\ idx'[m] = NotStarted
    BY <1>9 DEF ThreadFails, StartFailed, NoId
  <2>2. FailureStopsTheLoop'
    <3> SUFFICES ASSUME NEW n \in Modules, n < Last, thread'[n] = "running" PROVE ~Raw(n + 1)'
      BY <1>1, <1>7, <2>1 DEF FailureStopsTheLoop
    <3>1. thread[n] = "running" /\ n # m
      BY <2>1
    <3>2. ~Raw(n) /\ main = "wait" /\ cur = m
      BY <1>7, <2>1, <3>1 DEF SetUpInOrder
    <3>3. n \in Int /\ n + 1 \in Modules /\ n < m
      BY <3>1, <3>2 DEF SetUpInOrder, Modules, ControlAssumption
    <3>4. ~Raw(n + 1)
      BY <1>1, <3>2, <3>3 DEF SetUpInOrder
    <3> QED
      BY <1>4, <3>3, <3>4
  <2>3. NobodyEndsEarly'
    BY <2>1 DEF NobodyEndsEarly
  <2>4. MailboxesUsable'
    BY <1>1, <2>1 DEF MailboxesUsable
  <2> QED
    BY <1>5, <1>6, <2>2, <2>3, <2>4
<1>10. CASE ThreadGivesUp(m)
  <2>1. /\ thread[m] = "created" /\ thread' = [thread EXCEPT ![m] = "done"]
        /\ UNCHANGED <<exitFlag, state, startControl>>
    BY <1>10 DEF ThreadGivesUp
  <2>2. FailureStopsTheLoop'
    BY <1>7, <2>1 DEF FailureStopsTheLoop
  <2>3. NobodyEndsEarly'
    BY <1>1, <1>2, <1>4, <1>7, <2>1 DEF NobodyEndsEarly
  <2>4. MailboxesUsable'
    BY <1>1, <2>1 DEF MailboxesUsable
  <2> QED
    BY <1>5, <1>6, <2>2, <2>3, <2>4
<1>11. CASE LeaveLoop(m)
  <2>1. mailbox[m + 1] = "ready" /\ m < Last /\ thread[m] = "running"
    BY <1>11, SuccessorReady DEF LeaveLoop, MayLeave
  <2>2. /\ thread' = [thread EXCEPT ![m] = "ending"]
        /\ UNCHANGED <<exitFlag, state, startControl, idx>>
    BY <1>11, <2>1 DEF LeaveLoop
  <2>3. FailureStopsTheLoop'
    BY <1>1, <1>2, <1>4, <2>1, <2>2 DEF FailureStopsTheLoop, Raw
  <2>4. NobodyEndsEarly'
    <3>1. exitFlag = 1 \/ ~\E n \in Modules : Raw(n)
      <4>1. CASE m = 0
        BY <1>11, <4>1 DEF LeaveLoop, MayLeave, FirstMayLeave, NobodyEndsEarly
      <4>2. CASE m # 0
        <5> SUFFICES ASSUME exitFlag = 0, \E n \in Modules : Raw(n) PROVE FALSE
          OBVIOUS
        <5>1. m - 1 \in Modules /\ thread[m - 1] \in AfterStop
          <6>1. thread[m - 1] \in AfterStop
            BY <1>11, <4>2 DEF LeaveLoop, MayLeave
          <6> QED
            BY <4>2, <6>1 DEF Modules
        <5>2. main = "wait" /\ cur = m - 1
          BY <5>1 DEF AfterStop, NobodyEndsEarly
        <5> QED
          BY <1>1, <1>4, <5>2 DEF SetUpInOrder
      <4> QED
        BY <4>1, <4>2
    <3> QED
      BY <1>4, <2>2, <3>1 DEF NobodyEndsEarly
  <2>5. MailboxesUsable'
    BY <1>1, <2>1, <2>2 DEF MailboxesUsable
  <2> QED
    BY <1>5, <1>6, <2>3, <2>4, <2>5
<1>12. CASE EndThread(m)
  <2>1. /\ thread[m] = "ending" /\ m < Last
        /\ UNCHANGED <<exitFlag, startControl, idx>>
    BY <1>12 DEF EndThread
  <2>2. thread'[m] \in {"done", "stuck"}
    <3>1. CASE m = 0 /\ WaitsForNobody
      BY <1>12, <3>1 DEF EndThread
    <3>2. CASE ~(m = 0 /\ WaitsForNobody)
      BY <1>12, <3>2 DEF EndThread
    <3> QED
      BY <3>1, <3>2
  <2>3. FailureStopsTheLoop'
    <3>1. \A n \in Modules : thread'[n] = "running" => thread[n] = "running"
      BY <1>2, <2>2
    <3>2. main \in {"wait", "test"} /\ exitFlag = 1 => thread'[cur] # "created"
      BY <1>1, <1>2, <2>1, <2>2 DEF FailureStopsTheLoop, InRange, Modules
    <3> QED
      BY <1>1, <2>1, <3>1, <3>2 DEF FailureStopsTheLoop, Raw
  <2>4. NobodyEndsEarly'
    BY <1>4, <2>1 DEF NobodyEndsEarly
  <2>5. MailboxesUsable'
    BY <1>1, <1>2, <2>1, <2>2 DEF MailboxesUsable
  <2> QED
    BY <1>5, <1>6, <2>3, <2>4, <2>5
<1> QED
  BY <1>8, <1>9, <1>10, <1>11, <1>12 DEF Thread

LEMMA ChunkForNobodyMailboxes ==
  ASSUME ControlAssumption, MailboxInv, IInv', NEW m \in Modules, ChunkForNobody(m)
  PROVE  MailboxInv'
<1> USE DEF MailboxInv, IInv, TypeOK, ownerVars, mainVars
<1>1. /\ m - 1 \in Modules /\ thread[m - 1] = "running" /\ thread[m] = "joined"
      /\ m \in Int /\ cur \in Int
      /\ thread' = [thread EXCEPT ![m - 1] = "stuck"]
      /\ UNCHANGED <<mainVars, mailbox, exitFlag, startControl, idx, state>>
  BY DEF ChunkForNobody, Modules
<1>2. ~Raw(m - 1) /\ ~Raw(m)
  BY <1>1 DEF SetUpInOrder
<1>3. mailbox[m] # "gone"
  <2> SUFFICES ASSUME mailbox[m] = "gone" PROVE FALSE
    OBVIOUS
  <2>1. main \in {"exited", "none"} \/ (main = "join" /\ m < cur)
    BY DEF DestroyedInOrder
  <2>2. Quiet(m - 1)
    BY <1>1, <2>1 DEF QuietBehind
  <2> QED
    BY <1>1, <2>2 DEF Quiet
<1>4. SetUpInOrder' /\ DestroyedInOrder'
  BY <1>1, <1>2 DEF SetUpInOrder, DestroyedInOrder, Raw
<1>5. FailureStopsTheLoop' /\ NobodyEndsEarly'
  BY <1>1 DEF FailureStopsTheLoop, NobodyEndsEarly, Raw
<1>6. MailboxesUsable'
  BY <1>1, <1>2, <1>3 DEF MailboxesUsable, Raw
<1> QED
  BY <1>4, <1>5, <1>6

LEMMA FinalizationMailboxes ==
  ASSUME ControlAssumption, MailboxInv, IInv', EndFinalization
  PROVE  MailboxInv'
<1> USE DEF MailboxInv, IInv, TypeOK, ownerVars, mainVars, EndFinalization
<1>1. /\ thread[Last] = "running" /\ thread' = [thread EXCEPT ![Last] = "done"]
      /\ UNCHANGED <<mainVars, mailbox, exitFlag, startControl, idx>>
  BY DEF MayLeave
<1>2. Last \in Modules /\ ~Raw(Last)
  BY <1>1 DEF SetUpInOrder, Modules, ControlAssumption
<1>3. SetUpInOrder' /\ DestroyedInOrder'
  BY <1>1, <1>2 DEF SetUpInOrder, DestroyedInOrder, Raw
<1>4. FailureStopsTheLoop' /\ MailboxesUsable'
  BY <1>1 DEF FailureStopsTheLoop, MailboxesUsable, Raw
<1>5. NobodyEndsEarly'
  <2> SUFFICES ASSUME exitFlag = 0, NEW n \in Modules, Raw(n) PROVE FALSE
    BY <1>1 DEF NobodyEndsEarly, Raw
  <2>1. Last - 1 \in Modules /\ thread[Last - 1] \in AfterStop
    BY DEF MayLeave, Modules, ControlAssumption
  <2>2. main = "wait" /\ cur = Last - 1
    BY <2>1 DEF AfterStop, NobodyEndsEarly
  <2> QED
    BY <1>2, <2>2 DEF SetUpInOrder, Modules, ControlAssumption
<1> QED
  BY <1>3, <1>4, <1>5

-----------------------------------------------------------------------------
(* The steps of the main thread.                                           *)

LEMMA MainMailboxes ==
  ASSUME ControlAssumption, MailboxInv, IInv', Main
  PROVE  MailboxInv'
<1> USE DEF MailboxInv, IInv, TypeOK, ownerVars, mainVars
<1>1. CASE Enter
  <2>1. SetUpInOrder' /\ DestroyedInOrder'
    BY <1>1 DEF Enter, SetUpInOrder, DestroyedInOrder, Raw
  <2>2. FailureStopsTheLoop' /\ NobodyEndsEarly' /\ MailboxesUsable'
    BY <1>1 DEF Enter, FailureStopsTheLoop, NobodyEndsEarly, MailboxesUsable, Raw
  <2> QED
    BY <2>1, <2>2
<1>2. CASE CreateModule
  <2>1. /\ cur \in Modules /\ main = "create" /\ main' = "wait" /\ exitFlag = 0
        /\ mailbox' = [mailbox EXCEPT ![cur] = "ready"]
        /\ thread' = [thread EXCEPT ![cur] = "created"]
        /\ state' = [state EXCEPT ![cur] = "UNKNOWN"]
        /\ UNCHANGED <<exitFlag, cur, startControl>>
    BY <1>2 DEF CreateModule, Modules, FailureStopsTheLoop, ControlAssumption
  <2>2. \A n \in Modules : Raw(n)' <=> n > cur
    BY <2>1 DEF SetUpInOrder, Raw, Modules
  <2>3. SetUpInOrder'
    BY <2>1, <2>2 DEF SetUpInOrder, Raw
  <2>4. DestroyedInOrder'
    BY <2>1 DEF DestroyedInOrder
  <2>5. FailureStopsTheLoop'
    BY <2>1 DEF FailureStopsTheLoop
  <2>6. Raw(cur)
    BY <2>1 DEF SetUpInOrder, Modules
  <2>7. NobodyEndsEarly'
    BY <2>1, <2>6 DEF NobodyEndsEarly
  <2>8. MailboxesUsable'
    BY <2>1 DEF MailboxesUsable
  <2> QED
    BY <2>3, <2>4, <2>5, <2>7, <2>8
<1>3. CASE WaitStart
  <2>1. /\ main = "wait" /\ main' = "test" /\ startControl > 0
        /\ UNCHANGED <<exitFlag, cur, thread, idx, state, mailbox>>
    BY <1>3 DEF WaitStart
  <2>2. SetUpInOrder' /\ DestroyedInOrder'
    BY <2>1 DEF SetUpInOrder, DestroyedInOrder, Raw
  <2>3. FailureStopsTheLoop' /\ MailboxesUsable'
    BY <2>1 DEF FailureStopsTheLoop, MailboxesUsable, Raw
  <2>4. NobodyEndsEarly'
    BY <2>1 DEF NobodyEndsEarly, Raw
  <2> QED
    BY <2>2, <2>3, <2>4
<1>4. CASE ModuleStarted
  <2>1. /\ main = "test" /\ cur \in Modules /\ exitFlag = 0
        /\ cur' = cur + 1 /\ main' = IF cur = Last THEN "decide" ELSE "create"
        /\ state' = [state EXCEPT ![cur] = "INIT"]
        /\ UNCHANGED <<exitFlag, startControl, thread, mailbox>>
    BY <1>4 DEF ModuleStarted, InRange, FailureStopsTheLoop, Modules
  <2>2. \A n \in Modules : Raw(n)' <=> n >= cur'
    BY <2>1 DEF SetUpInOrder, Raw, Modules
  <2>3. SetUpInOrder'
    BY <2>1, <2>2 DEF SetUpInOrder, Raw, Modules
  <2>4. DestroyedInOrder' /\ FailureStopsTheLoop' /\ MailboxesUsable'
    BY <2>1 DEF DestroyedInOrder, FailureStopsTheLoop, MailboxesUsable
  <2>5. NobodyEndsEarly'
    BY <2>1 DEF NobodyEndsEarly, Raw
  <2> QED
    BY <2>3, <2>4, <2>5
<1>5. CASE ModuleFailed
  <2>1. /\ main = "test" /\ main' = "joinfailed"
        /\ UNCHANGED <<exitFlag, cur, startControl, thread, idx, state, mailbox>>
    BY <1>5 DEF ModuleFailed
  <2>2. SetUpInOrder' /\ DestroyedInOrder'
    BY <2>1 DEF SetUpInOrder, DestroyedInOrder, Raw
  <2>3. FailureStopsTheLoop' /\ NobodyEndsEarly' /\ MailboxesUsable'
    BY <2>1 DEF FailureStopsTheLoop, NobodyEndsEarly, MailboxesUsable, Raw
  <2> QED
    BY <2>2, <2>3
<1>6. CASE JoinFailed
  <2>1. /\ main = "joinfailed" /\ main' = "decide" /\ cur \in Modules /\ thread[cur] = "done"
        /\ thread' = [thread EXCEPT ![cur] = "joined"]
        /\ UNCHANGED <<exitFlag, startControl, mailbox>>
    BY <1>6 DEF JoinFailed, InRange, Modules
  <2>2. exitFlag = 1 \/ ~\E n \in Modules : Raw(n)
    BY <2>1 DEF NobodyEndsEarly
  <2>3. SetUpInOrder' /\ DestroyedInOrder'
    BY <2>1, <2>2 DEF SetUpInOrder, DestroyedInOrder, Raw
  <2>4. FailureStopsTheLoop' /\ NobodyEndsEarly' /\ MailboxesUsable'
    BY <2>1, <2>2 DEF FailureStopsTheLoop, NobodyEndsEarly, MailboxesUsable, Raw
  <2> QED
    BY <2>3, <2>4
<1>7. CASE Decide
  <2>1. /\ main = "decide" /\ main' = "join"
        /\ UNCHANGED <<exitFlag, startControl, thread, idx, state, mailbox>>
    BY <1>7 DEF Decide
  <2>2. SetUpInOrder' /\ DestroyedInOrder'
    BY <2>1 DEF SetUpInOrder, DestroyedInOrder, Raw
  <2>3. FailureStopsTheLoop' /\ NobodyEndsEarly' /\ MailboxesUsable'
    BY <2>1 DEF FailureStopsTheLoop, NobodyEndsEarly, MailboxesUsable, Raw
  <2> QED
    BY <2>2, <2>3
<1>8. CASE JoinNext
  <2>1. /\ main = "join" /\ main' = main /\ cur \in Modules /\ cur' = cur + 1
        /\ mailbox' = [mailbox EXCEPT ![cur] = "gone"]
        /\ thread' = thread \/ thread' = [thread EXCEPT ![cur] = "joined"]
        /\ state' = [state EXCEPT ![cur] = "UNKNOWN"]
        /\ UNCHANGED <<exitFlag, startControl>>
    BY <1>8 DEF JoinNext, Modules
  <2>2. thread'[cur] \in {"none", "joined"}
    BY <1>8, <2>1 DEF JoinNext, ReadyToJoin, QuietWithoutId, BeingStarted, Quiet
  <2>3. cur - 1 \in Modules => Quiet(cur - 1)
    BY <2>1 DEF QuietBehind, Modules
  <2>4. \A n \in Modules : Raw(n)' => Raw(n)
    BY <2>1 DEF Raw
  <2>5. exitFlag = 1 \/ ~\E n \in Modules : Raw(n)
    BY <2>1 DEF SetUpInOrder
  <2>6. SetUpInOrder' /\ DestroyedInOrder'
    BY <2>1, <2>4, <2>5 DEF SetUpInOrder, DestroyedInOrder, Raw, Modules
  <2>7. FailureStopsTheLoop' /\ NobodyEndsEarly'
    BY <2>1, <2>4, <2>5 DEF FailureStopsTheLoop, NobodyEndsEarly, Raw, Modules
  <2>8. MailboxesUsable'
    BY <2>1, <2>2, <2>3 DEF MailboxesUsable, Quiet, Modules
  <2> QED
    BY <2>6, <2>7, <2>8
<1>9. CASE FreeAll
  <2>1. /\ main = "join" /\ main' = "exited"
        /\ UNCHANGED <<exitFlag, cur, startControl, thread, idx, state, mailbox>>
    BY <1>9 DEF FreeAll
  <2>2. SetUpInOrder' /\ DestroyedInOrder'
    BY <2>1 DEF SetUpInOrder, DestroyedInOrder, Raw
  <2>3. FailureStopsTheLoop' /\ NobodyEndsEarly' /\ MailboxesUsable'
    BY <2>1 DEF FailureStopsTheLoop, NobodyEndsEarly, MailboxesUsable, Raw
  <2> QED
    BY <2>2, <2>3
<1> QED
  BY <1>1, <1>2, <1>3, <1>4, <1>5, <1>6, <1>7, <1>8, <1>9 DEF Main

LEMMA InitPatient ==
  ASSUME ControlAssumption, Init
  PROVE  PatientInv
<1>1. /\ \A m \in Modules : thread[m] = "none" /\ mailbox[m] = "raw" /\ state[m] = "UNKNOWN"
      /\ main = "none" /\ exitFlag = 0 /\ plState = "UNKNOWN" /\ owner = "none"
      /\ 0 \in Modules
  BY DEF Init, Modules, ControlAssumption
<1>2. SetUpInOrder /\ DestroyedInOrder /\ FailureStopsTheLoop
  BY <1>1 DEF SetUpInOrder, DestroyedInOrder, FailureStopsTheLoop
<1>3. NobodyEndsEarly /\ MailboxesUsable /\ Commanded
  BY <1>1 DEF NobodyEndsEarly, MailboxesUsable, Commanded
<1> QED
  BY <1>2, <1>3, InitInv DEF PatientInv, MailboxInv

LEMMA NextInv ==
  ASSUME ControlAssumption, IInv, Next
  PROVE  IInv'
BY ThreadInv, ChunkForNobodyInv, EndFinalizationInv, MainInv, OwnerInv DEF Next

\* The steps of anybody but the owner.
OthersGoOn ==
    \/ \E m \in Modules : Thread(m)
    \/ \E m \in Modules : ChunkForNobody(m)
    \/ EndFinalization
    \/ Main

\* The owner's variables are not touched, and pl->state gets its value where the
\* main thread decides.
LEMMA OthersKeepCommanded ==
  ASSUME IInv, Commanded, OthersGoOn
  PROVE  Commanded'
<1> USE DEF Commanded, Settled, ownerVars, mainVars
<1>1. CASE Main
  BY <1>1 DEF Main, Enter, CreateModule, WaitStart, ModuleStarted, ModuleFailed, JoinFailed,
     Decide, JoinNext, FreeAll
<1>2. CASE EndFinalization
  BY <1>2 DEF EndFinalization
<1>3. ASSUME NEW m \in Modules, Thread(m)
      PROVE  Commanded'
  BY <1>3 DEF Thread, ThreadStarts, InternalStartsWithoutId, ThreadFails, ThreadGivesUp,
     LeaveLoop, EndThread
<1>4. ASSUME NEW m \in Modules, ChunkForNobody(m)
      PROVE  Commanded'
  BY <1>4 DEF ChunkForNobody
<1> QED
  BY <1>1, <1>2, <1>3, <1>4 DEF OthersGoOn

LEMMA PatientInvariant ==
  ASSUME Patient
  PROVE  Spec => []PatientInv
<1>1. Init => PatientInv
  BY ControlAssumption, InitPatient
<1>2. PatientInv /\ [Next]_vars => PatientInv'
  <2>1. ASSUME PatientInv, Next PROVE PatientInv'
    <3>1. IInv'
      BY <2>1, ControlAssumption, NextInv DEF PatientInv, MailboxInv
    <3>2. CASE OwnerGoesOn \/ OwnerCalls
      BY <2>1, <3>1, <3>2, ControlAssumption, OwnerGoesOnPatient, OwnerCallsPatient
    <3>3. CASE OthersGoOn
      <4>1. MailboxInv'
        BY <2>1, <3>1, <3>3, ControlAssumption, MainMailboxes, FinalizationMailboxes,
           ThreadMailboxes, ChunkForNobodyMailboxes DEF PatientInv, OthersGoOn
      <4>2. Commanded'
        BY <2>1, <3>3, OthersKeepCommanded DEF PatientInv, MailboxInv
      <4> QED
        BY <4>1, <4>2 DEF PatientInv
    <3> QED
      BY <2>1, <3>2, <3>3 DEF Next, OthersGoOn
  <2>2. ASSUME PatientInv, UNCHANGED vars PROVE PatientInv'
    <3>1. IInv'
      BY <2>2, StutterInv DEF PatientInv, MailboxInv
    <3> QED
      BY <2>2, <3>1 DEF PatientInv, MailboxInv, SetUpInOrder, DestroyedInOrder,
         FailureStopsTheLoop, NobodyEndsEarly, MailboxesUsable, Commanded, Settled, Raw,
         vars, ownerVars, mainVars
  <2> QED
    BY <2>1, <2>2
<1> QED
  BY <1>1, <1>2, PTL DEF Spec

\* Provided the owner waits for pipeline_start, no thread waits on semaphores that are
\* not set up yet or already destroyed, whatever the number of modules and whichever of
\* them fail (pipeline_thread sets up and destroys them beside the running threads).
THEOREM MailboxesStayUsable ==
  ASSUME Patient
  PROVE  Spec => []MailboxesUsable
<1>1. PatientInv => MailboxesUsable
  BY DEF PatientInv, MailboxInv
<1> QED
  BY <1>1, PatientInvariant, PTL

\* Such an owner's PAUSE, LIVE or STOP in pl->state is not overwritten by the main
\* thread's own decision (pipeline_start waits for it, pipeline_thread writes it).
THEOREM OwnerKeepsTheLastWord ==
  ASSUME Patient
  PROVE  Spec => OwnerHasTheLastWord
<1>1. ASSUME Commanded, plState \in {"PAUSE", "LIVE", "STOP"}, Next
      PROVE  plState' = plState \/ owner' # owner
  <2>1. main \in {"join", "exited"}
    BY <1>1 DEF Commanded, Settled
  <2>2. CASE Main
    BY <2>1, <2>2 DEF Main, Enter, CreateModule, WaitStart, ModuleStarted, ModuleFailed,
       JoinFailed, Decide, JoinNext, FreeAll
  <2>3. CASE EndFinalization \/ \E m \in Modules : Thread(m) \/ ChunkForNobody(m)
    BY <2>3 DEF EndFinalization, Thread, ThreadStarts, InternalStartsWithoutId, ThreadFails,
       ThreadGivesUp, LeaveLoop, EndThread, ChunkForNobody
  <2>4. CASE OwnerGoesOn \/ OwnerCalls
    BY <2>4 DEF OwnerGoesOn, OwnerCalls, StartSeesInit, BeginSet, CheckState, WriteState, Publish,
       DestroyPipeline, InitPipeline, CallStart, CallLive, CallPause, CallStop, CallDestroy
  <2> QED
    BY <1>1, <2>2, <2>3, <2>4 DEF Next
<1>2. PatientInv /\ [Next]_vars
         => [(plState \in {"PAUSE", "LIVE", "STOP"}) => (plState' = plState \/ owner' # owner)]_vars
  BY <1>1 DEF PatientInv
<1> QED
  BY <1>2, PatientInvariant, PTL DEF Spec, OwnerHasTheLastWord

-----------------------------------------------------------------------------
(* What the owner commands reaches every module that still runs.           *)

Alive(m) == thread[m] \in {"running", "ending", "stuck"}
Obeys(m, s) == Alive(m) => state[m] \in {s, "ERROR"}

\* While the owner goes through the list, the modules behind it have the new state.
Reached ==
    /\ owner \in {"check", "write"} => \A m \in Modules : m < at => Obeys(m, target)
    /\ owner = "idle" /\ asked => \A m \in Modules : Obeys(m, plState)

\* A module that is alive after a step of somebody else was alive before, with the
\* same state: a thread writes its own state as it ends, the main thread that of a
\* module whose thread has ended.
LEMMA OthersLeaveTheAlive ==
  ASSUME ControlAssumption, IInv, Settled, OthersGoOn, NEW n \in Modules, Alive(n)'
  PROVE  Alive(n) /\ state'[n] = state[n]
<1> USE DEF IInv, TypeOK, Alive, ownerVars, mainVars
<1>1. ASSUME NEW m \in Modules, Thread(m)
      PROVE  Alive(n) /\ state'[n] = state[n]
  <2>1. thread[m] # "created"
    BY DEF CreatedByMain, Settled
  <2>2. LeaveLoop(m) \/ EndThread(m)
    BY <1>1, <2>1 DEF Thread, ThreadStarts, InternalStartsWithoutId, ThreadFails, ThreadGivesUp
  <2>3. CASE LeaveLoop(m)
    BY <2>3 DEF LeaveLoop, MayLeave
  <2>4. CASE EndThread(m)
    BY <2>4 DEF EndThread, EndState
  <2> QED
    BY <2>2, <2>3, <2>4
<1>2. ASSUME NEW m \in Modules, ChunkForNobody(m)
      PROVE  Alive(n) /\ state'[n] = state[n]
  <2>1. m - 1 \in 0..(m - 1)
    BY <1>2 DEF ChunkForNobody, Modules
  <2> QED
    BY <1>2, <2>1 DEF ChunkForNobody
<1>3. CASE EndFinalization
  BY <1>3 DEF EndFinalization, MayLeave, EndState
<1>4. CASE Main
  <2>1. JoinNext \/ FreeAll
    BY <1>4 DEF Main, Settled, Enter, CreateModule, WaitStart, ModuleStarted, ModuleFailed,
       JoinFailed, Decide
  <2>2. CASE JoinNext
    <3>1. cur \in Modules
      BY <2>2 DEF JoinNext, Modules
    <3>2. thread'[cur] \in {"none", "joined"}
      BY <2>2, <3>1 DEF JoinNext, ReadyToJoin, QuietWithoutId, BeingStarted, Quiet
    <3>3. n # cur
      BY <3>2
    <3> QED
      BY <2>2, <3>3 DEF JoinNext
  <2>3. CASE FreeAll
    BY <2>3 DEF FreeAll
  <2> QED
    BY <2>1, <2>2, <2>3
<1> QED
  BY <1>1, <1>2, <1>3, <1>4 DEF OthersGoOn

LEMMA OthersKeepReached ==
  ASSUME ControlAssumption, PatientInv, Reached, OthersGoOn
  PROVE  Reached'
<1>1. UNCHANGED <<owner, at, target, asked>>
  BY DEF OthersGoOn, Thread, ThreadStarts, InternalStartsWithoutId, ThreadFails, ThreadGivesUp,
     LeaveLoop, EndThread, ChunkForNobody, EndFinalization, Main, Enter, CreateModule, WaitStart,
     ModuleStarted, ModuleFailed, JoinFailed, Decide, JoinNext, FreeAll, ownerVars
<1>2. CASE owner \in {"check", "write"} \/ (owner = "idle" /\ asked)
  <2>1. Settled
    BY <1>2 DEF PatientInv, Commanded
  <2>2. plState' = plState
    BY <2>1 DEF Settled, OthersGoOn, Thread, ThreadStarts, InternalStartsWithoutId, ThreadFails,
       ThreadGivesUp, LeaveLoop, EndThread, ChunkForNobody, EndFinalization, Main, Enter,
       CreateModule, WaitStart, ModuleStarted, ModuleFailed, JoinFailed, Decide, JoinNext, FreeAll
  <2>3. \A n \in Modules : Alive(n)' => Alive(n) /\ state'[n] = state[n]
    BY <2>1, OthersLeaveTheAlive DEF PatientInv, MailboxInv
  <2> QED
    BY <1>1, <2>2, <2>3 DEF Reached, Obeys
<1>3. CASE ~(owner \in {"check", "write"} \/ (owner = "idle" /\ asked))
  BY <1>1, <1>3 DEF Reached
<1> QED
  BY <1>2, <1>3

LEMMA OwnerKeepsReached ==
  ASSUME Patient, PatientInv, Reached, OwnerGoesOn \/ OwnerCalls
  PROVE  Reached'
<1> USE DEF Reached, Obeys, Alive, ownerLeaves
<1>1. at \in Int /\ Modules \subseteq Int /\ state \in [Modules -> PlStates]
  BY DEF PatientInv, MailboxInv, IInv, TypeOK, Modules
<1>2. CASE StartSeesInit \/ CallLive \/ CallPause \/ CallStop
  <2>1. at' = 0 /\ owner' = "check"
    BY <1>2 DEF StartSeesInit, CallLive, CallPause, CallStop, BeginSet
  <2>2. \A m \in Modules : ~(m < 0)
    BY DEF Modules
  <2> QED
    BY <2>1, <2>2
<1>3. CASE CheckState
  <2>1. owner = "check" /\ UNCHANGED <<target, thread, state>> /\ owner' \in {"check", "write"}
    BY <1>3 DEF CheckState
  <2>2. at' = at \/ (at' = at + 1 /\ state[at] = "ERROR")
    BY <1>3 DEF CheckState
  <2> QED
    BY <1>1, <2>1, <2>2
<1>4. CASE WriteState
  <2>1. owner = "write" /\ owner' = "check" /\ at' = at + 1 /\ UNCHANGED <<target, thread>>
    BY <1>4 DEF WriteState
  <2>2. \A m \in Modules : state'[m] = IF m = at THEN target ELSE state[m]
    BY <1>1, <1>4 DEF WriteState
  <2> QED
    BY <1>1, <2>1, <2>2
<1>5. CASE Publish
  <2>1. \A m \in Modules : m < at
    BY <1>1, <1>5, ControlAssumption DEF Publish, Modules, ControlAssumption
  <2> QED
    BY <1>5, <2>1 DEF Publish
<1>6. CASE InitPipeline \/ CallStart \/ CallDestroy \/ DestroyPipeline
  BY <1>6 DEF InitPipeline, CallStart, CallDestroy, DestroyPipeline
<1> QED
  BY <1>2, <1>3, <1>4, <1>5, <1>6 DEF OwnerGoesOn, OwnerCalls

\* Once a call of a patient owner has returned, every module whose thread still runs
\* has the state commanded or has failed, whatever the threads and the main thread
\* wrote meanwhile (pipeline_module_set_state, without a lock).
THEOREM CommandsAlwaysReach ==
  ASSUME Patient
  PROVE  Spec => []CommandReaches
<1>1. Init => Reached
  BY DEF Init, Reached
<1>2. PatientInv /\ Reached /\ [Next]_vars => Reached'
  <2>1. ASSUME PatientInv, Reached, Next PROVE Reached'
    BY <2>1, ControlAssumption, OthersKeepReached, OwnerKeepsReached DEF Next, OthersGoOn
  <2>2. ASSUME Reached, UNCHANGED vars PROVE Reached'
    BY <2>2 DEF Reached, Obeys, Alive, vars, ownerVars
  <2> QED
    BY <2>1, <2>2
<1>3. Reached => CommandReaches
  BY DEF Reached, Obeys, Alive, CommandReaches
<1> QED
  BY <1>1, <1>2, <1>3, PatientInvariant, PTL DEF Spec
=============================================================================
