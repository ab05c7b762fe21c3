-------------------------- MODULE ObjectFlowProofs --------------------------
(***************************************************************************)
(* Proofs about ObjectFlow, for any number of blocks, chunks and objects:  *)
(* an object whose name a block reads is alive and carried by one chunk    *)
(* only, and no object is left behind.                                     *)
(*                                                                         *)
(* That no chunk is in two places comes from ConveyorProofs.               *)
(***************************************************************************)
EXTENDS ObjectFlow, TLAPS

BeltProofs == INSTANCE ConveyorProofs

-----------------------------------------------------------------------------
(* The inductive invariant.                                                *)

BeltOK == BeltProofs!IInv

TypeOK ==
    /\ name \in [Chunks -> Nat]
    /\ answer \in [Blocks -> {"none", "ok", "skip"}]
    /\ status \in [Blocks -> Int]
    /\ block \in [Blocks -> {"serves", "lacks", "gone"}]
    /\ first \in {"idle", "wait", "make"}
    /\ made \in Nat /\ alive \subseteq 1..made

\* A block answers for the chunk that it holds; only middle_action rejects one.
Answers ==
    \A m \in Blocks :
        /\ answer[m] # "none" => held[m] # NoChunk
        /\ block[m] = "lacks" => status[m] = -1
        /\ m > 0 /\ answer[m] = "skip" => Named(m) = Empty

\* first_action works on a chunk.
AtFirst == first # "idle" => held[0] # NoChunk /\ answer[0] = "none" /\ block[0] = "serves"

\* A chunk in the ring, or taken from it and not written yet, has no name.
Cleared ==
    /\ \A k \in DOMAIN free : name[free[k]] = Empty
    /\ held[0] # NoChunk /\ answer[0] = "none" /\ first # "make" => Named(0) = Empty

\* The newest object is the one that is filled or just given away.
Newest ==
    /\ data = made
    /\ data # Empty => data \in alive
    /\ first = "make" => Named(0) = data

IInv ==
    /\ BeltOK /\ TypeOK /\ Answers /\ AtFirst /\ Cleared /\ Newest
    /\ UsedIsAlive /\ NothingLeaks

LEMMA InitInv ==
  ASSUME Init
  PROVE  IInv
<1> USE ObjectAssumption DEF Init
<1>1. BeltOK
  BY BeltProofs!InitConserves DEF BeltOK, Belt!Init, BeltProofs!Init, Belt!NoChunk,
     BeltProofs!NoChunk, Belt!Chunks, BeltProofs!Chunks
<1>2. TypeOK
  BY DEF TypeOK, Empty
<1>3. Answers /\ AtFirst
  BY DEF Answers, AtFirst
<1>4. Cleared /\ Newest
  BY DEF Cleared, Newest, Chunks, Empty, NoChunk, Belt!Init, Belt!NoChunk, Belt!Chunks
<1>5. UsedIsAlive /\ NothingLeaks
  BY DEF UsedIsAlive, NothingLeaks, OnTheWay, Blocks, Chunks, Empty, Belt!Init, Belt!NoChunk
<1> QED
  BY <1>1, <1>2, <1>3, <1>4, <1>5 DEF IInv

-----------------------------------------------------------------------------
(* The belt.                                                               *)

\* Where chunks are, and that each is in one place.
LEMMA BeltFacts ==
  ASSUME BeltOK
  PROVE  /\ held \in [0..Last -> Chunks \cup {NoChunk}]
         /\ mail \in [1..Last -> Chunks \cup {NoChunk}]
         /\ free \in Seq(Chunks)
         /\ \A m, n \in 0..Last : held[m] # NoChunk /\ held[m] = held[n] => m = n
         /\ \A m \in 0..Last, n \in 1..Last : held[m] # NoChunk => held[m] # mail[n]
         /\ \A m \in 0..Last, k \in DOMAIN free : held[m] # free[k]
         /\ \A m \in 1..Last, k \in DOMAIN free : mail[m] # free[k]
         /\ NoChunk \notin Chunks
  BY DEF BeltOK, BeltProofs!IInv, BeltProofs!TypeOK, BeltProofs!NoneTwice, BeltProofs!Chunks,
         BeltProofs!NoChunk, Chunks, NoChunk

\* The belt stays in order, whether a step moves a chunk or not.
LEMMA BeltStep ==
  ASSUME BeltOK,
         \/ Belt!Take \/ UNCHANGED belt
         \/ \E m \in 0..(Last - 1) : Belt!Pass(m)
         \/ \E m \in 1..Last : Belt!Receive(m) \/ Belt!GiveBack(m)
  PROVE  BeltOK'
<1>1. BeltProofs!Next \/ UNCHANGED <<held, mail, free>>
  BY DEF belt, BeltProofs!Next, Belt!Take, BeltProofs!Take, Belt!Pass, BeltProofs!Pass,
         Belt!Receive, BeltProofs!Receive, Belt!GiveBack, BeltProofs!GiveBack,
         Belt!NoChunk, BeltProofs!NoChunk
<1> QED
  BY <1>1, ObjectAssumption, BeltProofs!NextConserves DEF BeltOK, BeltProofs!vars

\* Objects stay in order when chunks with a name neither join nor leave those on
\* their way.
LEMMA SameWay ==
  ASSUME IInv, UNCHANGED <<name, alive, data, made, first>>,
         block'[Last - 1] = "serves" => block[Last - 1] = "serves",
         \A c \in Chunks : name[c] # Empty => (c \in OnTheWay' <=> c \in OnTheWay)
  PROVE  UsedIsAlive' /\ NothingLeaks'
<1>1. UsedIsAlive'
  BY DEF IInv, UsedIsAlive, OnTheWay
<1>2. NothingLeaks'
  <2> SUFFICES ASSUME block'[Last - 1] = "serves", NEW o \in alive, o # data
               PROVE  o \in {name[c] : c \in OnTheWay'}
    BY DEF NothingLeaks
  <2>1. PICK c \in OnTheWay : o = name[c]
    BY DEF IInv, NothingLeaks
  <2>2. o # Empty /\ c \in Chunks
    BY DEF IInv, TypeOK, Empty, OnTheWay
  <2> QED
    BY <2>1, <2>2
<1> QED
  BY <1>1, <1>2

LEMMA TakeInv ==
  ASSUME IInv, TakeChunk
  PROVE  IInv'
<1> USE ObjectAssumption DEF TakeChunk, Belt!Take, Belt!NoChunk, blockVars, IInv
<1>1. BeltOK'
  BY BeltStep
<1> DEFINE c == Head(free)
<1>2. /\ c \in Chunks /\ name[c] = Empty /\ 0 \in 0..Last
      /\ \A k \in DOMAIN free' : free'[k] = free[k + 1] /\ k + 1 \in DOMAIN free
  <2>1. free \in Seq(Chunks) /\ free # <<>>
    BY BeltFacts
  <2>2. c = free[1] /\ 1 \in DOMAIN free /\ c \in Chunks
    BY <2>1
  <2>3. \A k \in DOMAIN Tail(free) : Tail(free)[k] = free[k + 1] /\ k + 1 \in DOMAIN free
    BY <2>1
  <2> QED
    BY <2>2, <2>3 DEF Cleared
<1> HIDE DEF c
<1>3. /\ held' = [held EXCEPT ![0] = c] /\ held[0] = NoChunk /\ mail' = mail
      /\ held \in [0..Last -> Chunks \cup {NoChunk}]
  BY BeltFacts DEF c, NoChunk
<1>4. answer[0] = "none" /\ first = "idle"
  BY <1>3 DEF Answers, AtFirst, Blocks
<1>5. TypeOK' /\ Answers' /\ AtFirst'
  BY <1>3, <1>4 DEF TypeOK, Answers, AtFirst, Named, Blocks
<1>6. Cleared' /\ Newest'
  BY <1>2, <1>3, <1>4 DEF Cleared, Newest, Named
<1>7. \A d \in Chunks : name[d] # Empty => (d \in OnTheWay' <=> d \in OnTheWay)
  BY <1>2, <1>3 DEF OnTheWay, Blocks, Chunks, NoChunk
<1>8. UsedIsAlive' /\ NothingLeaks'
  BY <1>7, SameWay
<1> QED
  BY <1>1, <1>5, <1>6, <1>8

LEMMA ReceiveInv ==
  ASSUME IInv, NEW m \in 1..Last, ReceiveChunk(m)
  PROVE  IInv'
<1> USE ObjectAssumption DEF ReceiveChunk, Belt!Receive, Belt!NoChunk, blockVars, IInv
<1>1. BeltOK'
  BY BeltStep
<1>2. /\ held' = [held EXCEPT ![m] = mail[m]] /\ mail' = [mail EXCEPT ![m] = NoChunk]
      /\ held \in [0..Last -> Chunks \cup {NoChunk}]
      /\ mail \in [1..Last -> Chunks \cup {NoChunk}]
      /\ held[m] = NoChunk /\ mail[m] # NoChunk
  BY BeltFacts DEF NoChunk
<1>3. m \in Blocks => answer[m] = "none"
  BY <1>2 DEF Answers
<1>4. TypeOK' /\ Answers' /\ AtFirst'
  BY <1>2, <1>3 DEF TypeOK, Answers, AtFirst, Named, Blocks
<1>5. Cleared' /\ Newest'
  BY <1>2 DEF Cleared, Newest, Named
<1>6. \A d \in Chunks : d \in OnTheWay' <=> d \in OnTheWay
  <2> TAKE d \in Chunks
  <2>1. d # NoChunk
    BY DEF Chunks, NoChunk
  <2>2. CASE d = mail[m]
    BY <1>2, <1>3, <2>1, <2>2, BeltFacts DEF OnTheWay, Blocks
  <2>3. CASE d # mail[m]
    BY <1>2, <2>1, <2>3 DEF OnTheWay, Blocks
  <2> QED
    BY <2>2, <2>3
<1>7. UsedIsAlive' /\ NothingLeaks'
  BY <1>6, SameWay
<1> QED
  BY <1>1, <1>4, <1>5, <1>7

LEMMA PassInv ==
  ASSUME IInv, NEW m \in Blocks, PassChunk(m)
  PROVE  IInv'
<1> USE ObjectAssumption DEF PassChunk, Belt!Pass, Belt!NoChunk, blockVars, IInv
<1>1. BeltOK'
  BY BeltStep DEF Blocks
<1>2. /\ held' = [held EXCEPT ![m] = NoChunk] /\ mail' = [mail EXCEPT ![m + 1] = held[m]]
      /\ held \in [0..Last -> Chunks \cup {NoChunk}]
      /\ mail \in [1..Last -> Chunks \cup {NoChunk}]
      /\ held[m] # NoChunk /\ mail[m + 1] = NoChunk /\ answer[m] # "none"
      /\ m \in 0..Last /\ m + 1 \in 1..Last
  BY BeltFacts DEF NoChunk, Blocks
<1>3. m = 0 => first = "idle"
  BY <1>2 DEF AtFirst
<1>4. TypeOK'
  BY DEF TypeOK
<1>5. Answers' /\ AtFirst'
  BY <1>2, <1>3 DEF TypeOK, Answers, AtFirst, Named, Blocks
<1>6. Cleared' /\ Newest'
  BY <1>2, <1>3 DEF TypeOK, Cleared, Newest, Named, Blocks
<1>7. \A d \in Chunks : d \in OnTheWay' <=> d \in OnTheWay
  <2> TAKE d \in Chunks
  <2>1. d # NoChunk
    BY DEF Chunks, NoChunk
  <2>2. CASE d = held[m]
    <3>1. m \in Blocks /\ (m = Last - 1 => m + 1 = Last)
      BY <1>2 DEF Blocks
    <3>2. CASE m = Last - 1
      <4>1. d \notin OnTheWay
        BY <1>2, <2>1, <2>2, <3>2, BeltFacts DEF OnTheWay, Blocks
      <4>2. d \notin OnTheWay'
        BY <1>2, <2>1, <2>2, <3>2, BeltFacts DEF OnTheWay, Blocks
      <4> QED
        BY <4>1, <4>2
    <3>3. CASE m # Last - 1
      <4>1. d \in OnTheWay
        BY <2>2, <3>1, <3>3 DEF OnTheWay
      <4>2. m + 1 \in 1..(Last - 1) /\ mail'[m + 1] = d
        BY <1>2, <2>2, <3>3
      <4>3. d \in OnTheWay'
        BY <4>2 DEF OnTheWay
      <4> QED
        BY <4>1, <4>3
    <3> QED
      BY <3>2, <3>3
  <2>3. CASE d # held[m]
    BY <1>2, <2>1, <2>3 DEF OnTheWay, Blocks, TypeOK
  <2> QED
    BY <2>2, <2>3
<1>8. UsedIsAlive' /\ NothingLeaks'
  BY <1>7, SameWay
<1> QED
  BY <1>1, <1>4, <1>5, <1>6, <1>8

\* The ring gets a chunk without a name.
LEMMA RingStaysCleared ==
  ASSUME IInv, NEW m \in 1..Last, Belt!GiveBack(m), name \in [Chunks -> Nat],
         \/ name' = name /\ name[held[m]] = Empty
         \/ name' = [name EXCEPT ![held[m]] = Empty]
  PROVE  \A k \in DOMAIN free' : name'[free'[k]] = Empty
<1>1. free \in Seq(Chunks) /\ held[m] \in Chunks
  BY BeltFacts DEF IInv, Belt!GiveBack, Belt!NoChunk, NoChunk
<1>2. name'[held[m]] = Empty
  BY <1>1
<1>3. \A k \in DOMAIN free : free[k] \in Chunks /\ name'[free[k]] = Empty
  BY <1>1 DEF IInv, Cleared
<1>4. free' = Append(free, held[m])
  BY DEF Belt!GiveBack
<1>5. \A k \in DOMAIN free' : free'[k] = held[m] \/ (k \in DOMAIN free /\ free'[k] = free[k])
  BY <1>1, <1>4
<1> QED
  BY <1>2, <1>3, <1>5

LEMMA SkipInv ==
  ASSUME IInv, NEW m \in Blocks, SkipChunk(m)
  PROVE  IInv'
<1>1. BeltOK'
  <2>1. m \in 1..Last /\ Belt!GiveBack(m)
    BY ObjectAssumption DEF SkipChunk, Blocks
  <2> QED
    BY <2>1, BeltStep DEF IInv
<1> USE ObjectAssumption DEF SkipChunk, Belt!GiveBack, Belt!NoChunk, blockVars, IInv
<1>2. /\ held' = [held EXCEPT ![m] = NoChunk] /\ mail' = mail
      /\ held \in [0..Last -> Chunks \cup {NoChunk}]
      /\ held[m] # NoChunk /\ m \in 1..Last /\ m # 0 /\ answer[m] # "none"
      /\ name[held[m]] = Empty
  BY BeltFacts DEF NoChunk, Blocks, Answers, Named
<1>3. TypeOK'
  BY DEF TypeOK
<1>4. Answers' /\ AtFirst' /\ Newest'
  BY <1>2 DEF TypeOK, Answers, AtFirst, Newest, Named, Blocks
<1>5. Cleared'
  <2>1. \A k \in DOMAIN free' : name'[free'[k]] = Empty
    BY <1>2, RingStaysCleared DEF TypeOK
  <2> QED
    BY <1>2, <2>1 DEF TypeOK, Cleared, Named, Blocks
<1>6. \A d \in Chunks : name[d] # Empty => (d \in OnTheWay' <=> d \in OnTheWay)
  <2> SUFFICES ASSUME NEW d \in Chunks, name[d] # Empty
               PROVE  d \in OnTheWay' <=> d \in OnTheWay
    OBVIOUS
  <2>1. d # held[m] /\ d # NoChunk
    BY <1>2 DEF Chunks, NoChunk
  <2>2. \A k \in Blocks : held'[k] = d <=> held[k] = d
    BY <1>2, <2>1 DEF Blocks
  <2> QED
    BY <1>2, <2>2 DEF OnTheWay
<1>7. UsedIsAlive' /\ NothingLeaks'
  BY <1>6, SameWay
<1> QED
  BY <1>1, <1>3, <1>4, <1>5, <1>7

LEMMA FinalizeInv ==
  ASSUME IInv, Finalize
  PROVE  IInv'
<1>1. BeltOK' /\ Last \in 1..Last /\ Last \notin Blocks
  <2>1. Last \in 1..Last /\ Last \notin Blocks /\ Belt!GiveBack(Last)
    BY ObjectAssumption DEF Finalize, Blocks
  <2> QED
    BY <2>1, BeltStep DEF IInv
<1> USE ObjectAssumption DEF Finalize, Belt!GiveBack, Belt!NoChunk, blockVars, IInv
<1> DEFINE c == held[Last]
<1>2. /\ held' = [held EXCEPT ![Last] = NoChunk] /\ mail' = mail
      /\ held \in [0..Last -> Chunks \cup {NoChunk}]
      /\ c \in Chunks /\ name' = [name EXCEPT ![c] = Empty]
  BY BeltFacts DEF NoChunk
<1>3. \A m \in Blocks : held[m] # c /\ held'[m] = held[m]
  BY <1>1, <1>2, BeltFacts DEF Blocks
<1>4. \A m \in 1..(Last - 1) : mail[m] # c
  BY <1>1, <1>2, BeltFacts
<1>5. \A k \in DOMAIN free' : name'[free'[k]] = Empty
  BY <1>1, RingStaysCleared DEF TypeOK
<1> HIDE DEF c
<1>6. \A d \in Chunks : d # c => name'[d] = name[d]
  BY <1>2 DEF TypeOK
<1>7. \A m \in Blocks : held[m] # NoChunk => Named(m)' = Named(m)
  BY <1>2, <1>3, <1>6 DEF Named, Blocks
<1>8. TypeOK' /\ Answers' /\ AtFirst'
  <2>1. TypeOK'
    BY <1>2 DEF TypeOK, Empty
  <2>2. Answers'
    BY <1>3, <1>7 DEF Answers
  <2>3. AtFirst'
    BY <1>3 DEF AtFirst, Blocks
  <2> QED
    BY <2>1, <2>2, <2>3
<1>9. Cleared' /\ Newest'
  BY <1>3, <1>5, <1>7 DEF Cleared, Newest, AtFirst, Blocks
<1>10. OnTheWay' = OnTheWay /\ c \notin OnTheWay /\ OnTheWay \subseteq Chunks
  BY <1>2, <1>3, <1>4 DEF OnTheWay
<1>11. UsedIsAlive'
  BY <1>6, <1>10 DEF UsedIsAlive
<1>12. NothingLeaks'
  BY <1>6, <1>10 DEF NothingLeaks
<1> QED
  BY <1>1, <1>8, <1>9, <1>11, <1>12

-----------------------------------------------------------------------------
(* The actions of the blocks.                                              *)

\* An answer changes what belongs to its block only.
LEMMA AnswerEffect ==
  ASSUME TypeOK, NEW m \in Blocks, NEW s \in {-1, 0, 1}, Answer(m, s)
  PROVE  /\ answer' \in [Blocks -> {"none", "ok", "skip"}]
         /\ status' \in [Blocks -> Int]
         /\ block' \in [Blocks -> {"serves", "lacks", "gone"}]
         /\ answer'[m] = IF s = 1 THEN "skip" ELSE "ok"
         /\ block'[m] = IF s = -1 THEN "gone" ELSE block[m]
         /\ \A k \in Blocks : k # m => /\ answer'[k] = answer[k] /\ status'[k] = status[k]
                                      /\ block'[k] = block[k]
  BY DEF TypeOK, Answer

LEMMA ActsWithoutInv ==
  ASSUME IInv, NEW m \in Blocks, ActsWithout(m)
  PROVE  IInv'
<1> USE ObjectAssumption DEF ActsWithout, IInv
<1>1. status[m] = -1 /\ m # 0 /\ Answer(m, -1) /\ block[m] = "lacks"
  BY DEF Answers, Blocks
<1>2. /\ answer' \in [Blocks -> {"none", "ok", "skip"}] /\ status' \in [Blocks -> Int]
      /\ block' \in [Blocks -> {"serves", "lacks", "gone"}]
      /\ answer'[m] = "ok" /\ block'[m] = "gone"
      /\ \A k \in Blocks : k # m => /\ answer'[k] = answer[k] /\ status'[k] = status[k]
                                   /\ block'[k] = block[k]
  BY <1>1, AnswerEffect
<1>3. BeltOK' /\ TypeOK'
  BY <1>2, BeltStep DEF TypeOK
<1>4. Answers'
  BY <1>2 DEF Answers, Asked, Named, belt
<1>5. AtFirst' /\ Cleared' /\ Newest'
  BY <1>1, <1>2 DEF AtFirst, Cleared, Newest, Named, Blocks, belt
<1>6. UsedIsAlive'
  <2>1. OnTheWay' \subseteq OnTheWay
    <3>1. UNCHANGED <<held, mail>>
      BY DEF belt
    <3>2. \A k \in Blocks : answer'[k] = "none" => answer[k] = "none"
      BY <1>2
    <3> QED
      BY <3>1, <3>2 DEF OnTheWay
  <2> QED
    BY <2>1 DEF UsedIsAlive
<1>7. NothingLeaks'
  <2>1. ASSUME m # Last - 1
        PROVE  OnTheWay' = OnTheWay
    <3>1. UNCHANGED <<held, mail>>
      BY DEF belt
    <3>2. \A k \in Blocks : k = Last - 1 => answer'[k] = answer[k]
      BY <1>2, <2>1
    <3> QED
      BY <3>1, <3>2 DEF OnTheWay
  <2> QED
    BY <1>1, <1>2, <2>1 DEF NothingLeaks, Blocks
<1> QED
  BY <1>3, <1>4, <1>5, <1>6, <1>7

LEMMA MiddleInv ==
  ASSUME IInv, NEW m \in Blocks, MiddleAction(m)
  PROVE  IInv'
<1> USE ObjectAssumption DEF MiddleAction, IInv
<1>1. Looks(m) \in {0, 1} /\ (Looks(m) = 1 => Named(m) = Empty) /\ m # 0 /\ m # Last - 1
  BY DEF Looks, Blocks
<1>2. /\ answer' \in [Blocks -> {"none", "ok", "skip"}] /\ status' \in [Blocks -> Int]
      /\ block' \in [Blocks -> {"serves", "lacks", "gone"}]
      /\ answer'[m] = "skip" => Looks(m) = 1
      /\ block'[m] = "serves"
      /\ \A k \in Blocks : k # m => /\ answer'[k] = answer[k] /\ status'[k] = status[k]
                                   /\ block'[k] = block[k]
  BY <1>1, AnswerEffect
<1>3. BeltOK' /\ TypeOK'
  BY <1>2, BeltStep DEF TypeOK
<1>4. Answers'
  BY <1>1, <1>2 DEF Answers, Asked, Named, belt
<1>5. AtFirst' /\ Cleared' /\ Newest'
  BY <1>1, <1>2 DEF AtFirst, Cleared, Newest, Named, Blocks, belt
<1>6. OnTheWay' = OnTheWay
  <2>1. UNCHANGED <<held, mail>>
    BY DEF belt
  <2>2. \A k \in Blocks : k = Last - 1 => (answer'[k] = "none" <=> answer[k] = "none")
    BY <1>1, <1>2
  <2> QED
    BY <2>1, <2>2 DEF OnTheWay
<1>7. UsedIsAlive' /\ NothingLeaks'
  BY <1>1, <1>2, <1>6, SameWay DEF Blocks
<1> QED
  BY <1>3, <1>4, <1>5, <1>7

\* The object that is freed is on the chunk of the last block, and nowhere else.
LEMMA LastInv ==
  ASSUME IInv, NEW m \in Blocks, LastAction(m)
  PROVE  IInv'
<1> USE ObjectAssumption DEF LastAction, Frees, IInv
<1> DEFINE c == held[m]
<1>1. /\ answer' \in [Blocks -> {"none", "ok", "skip"}] /\ status' \in [Blocks -> Int]
      /\ block' \in [Blocks -> {"serves", "lacks", "gone"}]
      /\ answer'[m] = "ok" /\ block'[m] = "serves"
      /\ \A k \in Blocks : k # m => /\ answer'[k] = answer[k] /\ status'[k] = status[k]
                                   /\ block'[k] = block[k]
  BY AnswerEffect
<1>2. m # 0 /\ m = Last - 1 /\ m \in 0..Last /\ 0 \in 0..Last /\ 0 \in Blocks
  BY DEF Blocks
<1>3. c \in Chunks /\ c \in OnTheWay /\ c # NoChunk
  BY <1>2, BeltFacts DEF Asked, OnTheWay
<1>4. OnTheWay' = OnTheWay \ {c}
  <2>1. \A k \in Blocks : k # m => held[k] # c
    BY <1>2, <1>3, BeltFacts DEF Blocks
  <2>2. \A k \in 1..(Last - 1) : mail[k] # c
    BY <1>2, <1>3, BeltFacts
  <2> QED
    BY <1>1, <1>2, <2>1, <2>2 DEF OnTheWay, belt, Asked
<1>5. BeltOK' /\ TypeOK'
  BY <1>1, BeltStep DEF TypeOK
<1>6. Answers'
  BY <1>1 DEF Answers, Asked, Named, belt
<1>7. AtFirst' /\ Cleared'
  BY <1>1, <1>2 DEF AtFirst, Cleared, Named, Blocks, belt
<1>8. Newest'
  <2>1. ASSUME data # Empty, name[c] = data
        PROVE  FALSE
    <3>1. first = "make" /\ held[0] # NoChunk
      BY <1>3, <2>1 DEF UsedIsAlive, AtFirst
    <3>2. held[0] \in OnTheWay /\ name[held[0]] = name[c]
      BY <1>2, <2>1, <3>1, BeltFacts DEF OnTheWay, Newest, Named, Blocks
    <3>3. held[0] = c
      BY <1>3, <2>1, <3>2 DEF UsedIsAlive
    <3> QED
      BY <1>2, <1>3, <3>3, BeltFacts
  <2> QED
    BY <2>1 DEF Newest, Named, belt
<1> HIDE DEF c
<1>9. UsedIsAlive'
  <2> SUFFICES ASSUME NEW a \in OnTheWay', NEW b \in OnTheWay', name[a] # Empty
               PROVE  /\ name[a] \in alive /\ name[a] # name[c]
                      /\ name[a] = data => first = "make"
                      /\ name[a] = name[b] => a = b
    BY DEF UsedIsAlive, Named, c
  <2>1. a \in OnTheWay /\ b \in OnTheWay /\ a # c
    BY <1>4
  <2> QED
    BY <1>3, <2>1 DEF UsedIsAlive
<1>10. NothingLeaks'
  <2> SUFFICES ASSUME NEW o \in alive, o # name[c], o # data
               PROVE  o \in {name[d] : d \in OnTheWay'}
    BY DEF NothingLeaks, Named, c
  <2>1. PICK d \in OnTheWay : o = name[d]
    BY <1>2 DEF NothingLeaks
  <2> QED
    BY <1>4, <2>1
<1> QED
  BY <1>5, <1>6, <1>7, <1>8, <1>9, <1>10

LEMMA FirstStoppedInv ==
  ASSUME IInv, FirstStopped
  PROVE  IInv'
<1> USE ObjectAssumption DEF FirstStopped, IInv
<1>1. 0 \in Blocks /\ 0 # Last - 1
  BY DEF Blocks
<1>2. /\ answer' \in [Blocks -> {"none", "ok", "skip"}] /\ status' \in [Blocks -> Int]
      /\ block' \in [Blocks -> {"serves", "lacks", "gone"}]
      /\ answer'[0] = "ok" /\ block'[0] = "serves"
      /\ \A k \in Blocks : k # 0 => /\ answer'[k] = answer[k] /\ status'[k] = status[k]
                                   /\ block'[k] = block[k]
  BY <1>1, AnswerEffect
<1>3. BeltOK' /\ TypeOK'
  BY <1>2, BeltStep DEF TypeOK
<1>4. Answers' /\ AtFirst'
  BY <1>2 DEF Answers, AtFirst, Asked, Named, belt
<1>5. Cleared' /\ Newest'
  BY <1>2 DEF Cleared, Newest, Named, belt
<1>6. OnTheWay' = OnTheWay
  <2>1. UNCHANGED <<held, mail>>
    BY DEF belt
  <2>2. \A k \in Blocks : k = Last - 1 => (answer'[k] = "none" <=> answer[k] = "none")
    BY <1>1, <1>2
  <2> QED
    BY <2>1, <2>2 DEF OnTheWay
<1>7. UsedIsAlive' /\ NothingLeaks'
  BY <1>1, <1>2, <1>6, SameWay DEF Blocks
<1> QED
  BY <1>3, <1>4, <1>5, <1>7

LEMMA FirstCalledInv ==
  ASSUME IInv, FirstCalled
  PROVE  IInv'
<1> USE ObjectAssumption DEF FirstCalled, IInv, belt, blockVars
<1>1. BeltOK' /\ TypeOK'
  BY BeltStep DEF TypeOK
<1>2. Answers' /\ AtFirst' /\ Cleared' /\ Newest'
  BY DEF Answers, AtFirst, Asked, Cleared, Newest, Named
<1>3. UsedIsAlive' /\ NothingLeaks'
  BY DEF UsedIsAlive, NothingLeaks, OnTheWay
<1> QED
  BY <1>1, <1>2, <1>3

\* The name that is written into the chunk is carried by no other one.
LEMMA FirstTakesInv ==
  ASSUME IInv, FirstTakes
  PROVE  IInv'
<1> USE ObjectAssumption DEF FirstTakes, IInv, belt, blockVars
<1> DEFINE c == held[0]
<1>1. 0 \in Blocks /\ 0 \in 0..Last /\ 0 # Last - 1
  BY DEF Blocks
<1>2. c \in Chunks /\ c \in OnTheWay /\ c # NoChunk /\ name[c] = Empty /\ answer[0] = "none"
  BY <1>1, BeltFacts DEF AtFirst, Cleared, Named, OnTheWay
<1>3. BeltOK' /\ TypeOK'
  BY BeltStep DEF TypeOK, Newest
<1>4. /\ name'[c] = data
      /\ \A d \in Chunks : d # c => name'[d] = name[d]
      /\ OnTheWay' = OnTheWay /\ OnTheWay \subseteq Chunks
  BY <1>2 DEF TypeOK, OnTheWay
<1>5. Answers'
  <2>1. \A m \in Blocks : m # 0 /\ held[m] # NoChunk => held[m] \in Chunks /\ held[m] # c
    BY <1>1, <1>2, BeltFacts DEF Blocks
  <2> QED
    BY <1>4, <2>1 DEF Answers, Named
<1>6. Cleared'
  BY <1>1, <1>2, <1>4, BeltFacts DEF Cleared
<1>7. AtFirst' /\ Newest'
  BY <1>4 DEF AtFirst, Newest, Named
<1> HIDE DEF c
<1>8. UsedIsAlive'
  <2> SUFFICES ASSUME NEW a \in OnTheWay, NEW b \in OnTheWay, name'[a] # Empty
               PROVE  name'[a] \in alive /\ (name'[a] = name'[b] => a = b)
    BY <1>4 DEF UsedIsAlive
  <2>1. \A d \in OnTheWay : d # c /\ name[d] # Empty => name[d] \in alive /\ name[d] # data
    BY DEF UsedIsAlive
  <2>2. name'[a] \in alive
    BY <1>4, <2>1 DEF Newest
  <2>3. name'[a] = name'[b] => a = b
    BY <1>4, <2>1 DEF UsedIsAlive
  <2> QED
    BY <2>2, <2>3
<1>9. NothingLeaks'
  <2> SUFFICES ASSUME block[Last - 1] = "serves", NEW o \in alive, o # data
               PROVE  o \in {name'[d] : d \in OnTheWay'}
    BY DEF NothingLeaks
  <2>1. PICK d \in OnTheWay : o = name[d]
    BY DEF NothingLeaks
  <2>2. o # Empty
    BY DEF TypeOK, Empty
  <2> QED
    BY <1>2, <1>4, <2>1, <2>2
<1> QED
  BY <1>3, <1>5, <1>6, <1>7, <1>8, <1>9

\* The new object is carried by no chunk.
LEMMA FirstMakesInv ==
  ASSUME IInv, FirstMakes
  PROVE  IInv'
<1> USE ObjectAssumption DEF FirstMakes, IInv
<1>1. 0 \in Blocks /\ 0 \in 0..Last /\ 0 # Last - 1
  BY DEF Blocks
<1>2. /\ answer' \in [Blocks -> {"none", "ok", "skip"}] /\ status' \in [Blocks -> Int]
      /\ block' \in [Blocks -> {"serves", "lacks", "gone"}]
      /\ answer'[0] = "ok" /\ block'[0] = "serves"
      /\ \A k \in Blocks : k # 0 => /\ answer'[k] = answer[k] /\ status'[k] = status[k]
                                   /\ block'[k] = block[k]
  BY <1>1, AnswerEffect DEF AtFirst
<1>3. BeltOK' /\ TypeOK'
  BY <1>2, BeltStep DEF TypeOK
<1>4. Answers' /\ AtFirst' /\ Cleared'
  BY <1>2 DEF Answers, AtFirst, Cleared, Named, belt
<1>5. Newest'
  BY DEF Newest, TypeOK
<1>6. OnTheWay' = OnTheWay
  BY <1>1, <1>2 DEF OnTheWay, Blocks, belt
<1>7. UsedIsAlive'
  BY <1>6 DEF UsedIsAlive, TypeOK
<1>8. NothingLeaks'
  <2>1. held[0] \in OnTheWay /\ name[held[0]] = data
    BY <1>1, BeltFacts DEF OnTheWay, AtFirst, Newest, Named
  <2>2. block'[Last - 1] = block[Last - 1]
    BY <1>1, <1>2 DEF Blocks
  <2> QED
    BY <1>6, <2>1, <2>2 DEF NothingLeaks
<1> QED
  BY <1>3, <1>4, <1>5, <1>7, <1>8

-----------------------------------------------------------------------------
(* The theorems about every behaviour.                                     *)

LEMMA NextInv ==
  ASSUME IInv, [Next]_vars
  PROVE  IInv'
<1> USE ObjectAssumption
<1>1. CASE \E m \in 0..Last : Module(m)
  <2> PICK m \in 0..Last : Module(m)
    BY <1>1
  <2>1. m < Last => m \in Blocks
    BY DEF Blocks
  <2>2. CASE m = 0
    BY <2>1, <2>2, TakeInv, FirstStoppedInv, FirstCalledInv, FirstTakesInv, FirstMakesInv,
       ActsWithoutInv, MiddleInv, LastInv, PassInv, SkipInv DEF Module, FirstAction
  <2>3. CASE m > 0 /\ m < Last
    BY <2>1, <2>3, ReceiveInv, ActsWithoutInv, MiddleInv, LastInv, PassInv, SkipInv DEF Module
  <2>4. CASE m = Last
    BY <2>4, ReceiveInv, FinalizeInv DEF Module
  <2> QED
    BY <2>2, <2>3, <2>4
<1>2. CASE Collect \/ UNCHANGED vars
  <2>1. UNCHANGED <<belt, name, blockVars, first, made, data, alive>>
    BY <1>2 DEF Collect, vars
  <2>2. BeltOK'
    BY <2>1, BeltStep DEF IInv
  <2> QED
    BY <2>1, <2>2 DEF belt, blockVars, IInv, TypeOK, Answers, AtFirst, Cleared, Newest, Named,
       UsedIsAlive, NothingLeaks, OnTheWay
<1> QED
  BY <1>1, <1>2 DEF Next

LEMMA Invariance == Spec => []IInv
<1>1. Init => IInv
  BY InitInv
<1>2. IInv /\ [Next]_vars => IInv'
  BY NextInv
<1> QED
  BY <1>1, <1>2, PTL DEF Spec

\* The object whose name a chunk carries to a block is alive and carried by no other
\* chunk: no block works on a freed object and none is freed twice, for any number of
\* blocks and chunks (dclprocessor.c:29-33, :50 and :141, pipeline_server.c:54).
THEOREM UsedIsAlwaysAlive == Spec => []UsedIsAlive
<1>1. IInv => UsedIsAlive
  BY DEF IInv
<1> QED
  BY <1>1, Invariance, PTL

\* No object is left in the storage when its chunk is gone, unless the last block has
\* no collector (dclprocessor.c:93-111, pipeline_server.c:299-305).
THEOREM NothingEverLeaks == Spec => []NothingLeaks
<1>1. IInv => NothingLeaks
  BY DEF IInv
<1> QED
  BY <1>1, Invariance, PTL
=============================================================================
