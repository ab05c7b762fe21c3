--------------------------- MODULE ConveyorProofs ---------------------------
(***************************************************************************)
(* The belt never duplicates or loses a chunk, for every number of modules *)
(* and of chunks.                                                          *)
(***************************************************************************)
EXTENDS Conveyor, TLAPS

IInv == TypeOK /\ NoneTwice /\ NoneLost

\* The ring loses exactly its oldest chunk when one is taken.
LEMMA TailOfRing ==
    ASSUME NEW S, NEW s \in Seq(S), s # <<>>
    PROVE  /\ Head(s) \in S
           /\ Head(s) = s[1]
           /\ Tail(s) \in Seq(S)
           /\ Len(s) \in Nat \ {0}
           /\ DOMAIN s = 1..Len(s)
           /\ DOMAIN Tail(s) = 1..(Len(s) - 1)
           /\ \A i \in 1..(Len(s) - 1) : Tail(s)[i] = s[i + 1]
  OBVIOUS

\* The ring gets exactly the chunk that is given back, at its end.
LEMMA AppendToRing ==
    ASSUME NEW S, NEW s \in Seq(S), NEW c \in S
    PROVE  /\ Append(s, c) \in Seq(S)
           /\ Len(s) \in Nat
           /\ DOMAIN s = 1..Len(s)
           /\ DOMAIN Append(s, c) = 1..(Len(s) + 1)
           /\ \A i \in 1..Len(s) : Append(s, c)[i] = s[i]
           /\ Append(s, c)[Len(s) + 1] = c
  OBVIOUS

\* At the start every chunk is in the ring, once.
LEMMA InitConserves ==
    ASSUME Last \in Nat, DataCnt \in Nat, Init
    PROVE  IInv
  BY DEF Init, IInv, TypeOK, NoneTwice, NoneLost, Chunks, NoChunk

\* A chunk that is taken leaves the ring for the first module.
LEMMA TakeConserves ==
    ASSUME Last \in Nat, DataCnt \in Nat, IInv, Take
    PROVE  IInv'
<1> USE DEF Chunks, NoChunk
<1>1. /\ Head(free) \in Chunks
      /\ Head(free) = free[1]
      /\ free' \in Seq(Chunks)
      /\ Len(free) \in Nat \ {0}
      /\ DOMAIN free = 1..Len(free)
      /\ DOMAIN free' = 1..(Len(free) - 1)
      /\ \A i \in 1..(Len(free) - 1) : free'[i] = free[i + 1]
  BY TailOfRing DEF IInv, TypeOK, Take
<1>2. TypeOK'
  BY <1>1 DEF IInv, TypeOK, Take
<1>3. NoneTwice'
  <2>1. /\ mail' = mail
        /\ held'[0] = free[1]
        /\ \A m \in 1..Last : held'[m] = held[m]
        /\ held[0] = NoChunk
    BY <1>1 DEF IInv, TypeOK, Take
  <2>2. \A i \in DOMAIN free' : i + 1 \in DOMAIN free /\ free'[i] = free[i + 1]
    BY <1>1
  <2>0. \A i, j \in DOMAIN free : free[i] = free[j] => i = j
    BY DEF IInv, NoneTwice
  <2>3. \A i, j \in DOMAIN free' : free'[i] = free'[j] => i = j
    <3> TAKE i, j \in DOMAIN free'
    <3> HAVE free'[i] = free'[j]
    <3>1. i + 1 = j + 1
      BY <2>0, <2>2
    <3> QED BY <1>1, <3>1
  <2>4. \A i \in DOMAIN free' : free'[i] # free[1]
    <3> SUFFICES ASSUME NEW i \in DOMAIN free', free'[i] = free[1] PROVE FALSE
      OBVIOUS
    <3>1. 1 \in DOMAIN free
      BY <1>1
    <3>2. i + 1 = 1
      BY <2>0, <2>2, <3>1
    <3> QED BY <1>1, <3>2
  <2>5. /\ 1 \in DOMAIN free
        /\ free[1] # NoChunk
        /\ \A m \in 1..Last : held[m] # free[1]
        /\ \A m \in 1..Last : mail[m] # free[1]
    <3>1. 1 \in DOMAIN free /\ free[1] # NoChunk
      BY <1>1
    <3>2. /\ \A m \in 0..Last, i \in DOMAIN free : held[m] # free[i]
          /\ \A m \in 1..Last, i \in DOMAIN free : mail[m] # free[i]
      BY DEF IInv, NoneTwice
    <3> QED BY <3>1, <3>2
  <2>6. \A m, n \in 0..Last : held'[m] # NoChunk /\ held'[m] = held'[n] => m = n
    BY <2>1, <2>5 DEF IInv, NoneTwice
  <2>7. \A m \in 0..Last, n \in 1..Last : held'[m] # NoChunk => held'[m] # mail'[n]
    BY <2>1, <2>5 DEF IInv, NoneTwice
  <2>8. \A m \in 0..Last, i \in DOMAIN free' : held'[m] # free'[i]
    BY <2>1, <2>2, <2>4 DEF IInv, NoneTwice
  <2>9. \A m \in 1..Last, i \in DOMAIN free' : mail'[m] # free'[i]
    BY <2>1, <2>2 DEF IInv, NoneTwice
  <2> QED BY <2>1, <2>3, <2>6, <2>7, <2>8, <2>9 DEF IInv, NoneTwice
<1>4. NoneLost'
  <2> SUFFICES ASSUME NEW c \in Chunks
               PROVE  \/ \E m \in 0..Last : held'[m] = c
                      \/ \E m \in 1..Last : mail'[m] = c
                      \/ \E i \in DOMAIN free' : free'[i] = c
    BY DEF NoneLost
  <2>1. CASE \E m \in 0..Last : held[m] = c
    BY <2>1 DEF IInv, TypeOK, Take
  <2>2. CASE \E m \in 1..Last : mail[m] = c
    BY <2>2 DEF Take
  <2>3. CASE \E i \in DOMAIN free : free[i] = c
    <3>1. PICK i \in 1..Len(free) : free[i] = c
      BY <1>1, <2>3
    <3>2. CASE i = 1
      BY <1>1, <3>1, <3>2 DEF IInv, TypeOK, Take
    <3>3. CASE i # 1
      <4>1. i - 1 \in 1..(Len(free) - 1) /\ free'[i - 1] = c
        BY <1>1, <3>1, <3>3
      <4> QED BY <1>1, <4>1
    <3> QED BY <3>2, <3>3
  <2> QED BY <2>1, <2>2, <2>3 DEF IInv, NoneLost
<1> QED BY <1>2, <1>3, <1>4 DEF IInv

\* A chunk that is passed leaves its module for the next mailbox.
LEMMA PassConserves ==
    ASSUME Last \in Nat, DataCnt \in Nat, IInv, NEW m \in 0..(Last - 1), Pass(m)
    PROVE  IInv'
<1> USE DEF Chunks, NoChunk
<1>1. TypeOK'
  BY DEF IInv, TypeOK, Pass
<1>2. NoneTwice'
  <2>1. /\ m \in 0..Last /\ m + 1 \in 1..Last /\ held[m] # NoChunk
        /\ held'[m] = NoChunk /\ \A n \in 0..Last : n # m => held'[n] = held[n]
        /\ mail'[m + 1] = held[m] /\ \A n \in 1..Last : n # m + 1 => mail'[n] = mail[n]
        /\ free' = free
    BY DEF IInv, TypeOK, Pass
  <2>2. \A i, j \in DOMAIN free' : free'[i] = free'[j] => i = j
    BY <2>1 DEF IInv, NoneTwice
  <2>3. \A k, n \in 0..Last : held'[k] # NoChunk /\ held'[k] = held'[n] => k = n
    BY <2>1 DEF IInv, NoneTwice
  <2>4. \A k, n \in 1..Last : mail'[k] # NoChunk /\ mail'[k] = mail'[n] => k = n
    BY <2>1 DEF IInv, NoneTwice
  <2>5. \A k \in 0..Last, n \in 1..Last : held'[k] # NoChunk => held'[k] # mail'[n]
    <3> SUFFICES ASSUME NEW k \in 0..Last, NEW n \in 1..Last, held'[k] # NoChunk
                 PROVE  held'[k] # mail'[n]
      OBVIOUS
    <3>1. k # m /\ held'[k] = held[k]
      BY <2>1
    <3>2. CASE n = m + 1
      BY <2>1, <3>1, <3>2 DEF IInv, NoneTwice
    <3>3. CASE n # m + 1
      BY <2>1, <3>1, <3>3 DEF IInv, NoneTwice
    <3> QED
      BY <3>2, <3>3
  <2>6. /\ \A k \in 0..Last, i \in DOMAIN free : held[k] # free[i]
        /\ \A k \in 1..Last, i \in DOMAIN free : mail[k] # free[i]
        /\ \A i \in DOMAIN free : free[i] # NoChunk
    BY DEF IInv, TypeOK, NoneTwice
  <2>7. \A k \in 0..Last, i \in DOMAIN free' : held'[k] # free'[i]
    BY <2>1, <2>6
  <2>8. \A k \in 1..Last, i \in DOMAIN free' : mail'[k] # free'[i]
    BY <2>1, <2>6
  <2> QED
    BY <2>2, <2>3, <2>4, <2>5, <2>7, <2>8 DEF NoneTwice
<1>3. NoneLost'
  <2>1. /\ m + 1 \in 1..Last /\ mail'[m + 1] = held[m]
        /\ mail[m + 1] = NoChunk
        /\ \A n \in 0..Last : n # m => held'[n] = held[n]
        /\ \A n \in 1..Last : n # m + 1 => mail'[n] = mail[n]
        /\ free' = free
    BY DEF IInv, TypeOK, Pass
  <2>2. ASSUME NEW c \in Chunks, \E n \in 0..Last : held[n] = c
        PROVE  (\E n \in 0..Last : held'[n] = c) \/ (\E n \in 1..Last : mail'[n] = c)
    BY <2>1, <2>2 DEF Pass
  <2>3. ASSUME NEW c \in Chunks, \E n \in 1..Last : mail[n] = c
        PROVE  (\E n \in 0..Last : held'[n] = c) \/ (\E n \in 1..Last : mail'[n] = c)
    BY <2>1, <2>3 DEF Pass
  <2> QED BY <2>1, <2>2, <2>3 DEF IInv, NoneLost
<1> QED BY <1>1, <1>2, <1>3 DEF IInv

\* A chunk that is received leaves the mailbox for its module.
LEMMA ReceiveConserves ==
    ASSUME Last \in Nat, DataCnt \in Nat, IInv, NEW m \in 1..Last, Receive(m)
    PROVE  IInv'
<1> USE DEF Chunks, NoChunk
<1>1. TypeOK'
  BY DEF IInv, TypeOK, Receive
<1>2. NoneTwice'
  BY DEF IInv, TypeOK, NoneTwice, Receive
<1>3. NoneLost'
  <2>1. /\ m \in 0..Last /\ held'[m] = mail[m]
        /\ held[m] = NoChunk
        /\ \A n \in 0..Last : n # m => held'[n] = held[n]
        /\ \A n \in 1..Last : n # m => mail'[n] = mail[n]
        /\ free' = free
    BY DEF IInv, TypeOK, Receive
  <2>2. ASSUME NEW c \in Chunks, \E n \in 0..Last : held[n] = c
        PROVE  (\E n \in 0..Last : held'[n] = c) \/ (\E n \in 1..Last : mail'[n] = c)
    BY <2>1, <2>2 DEF Receive
  <2>3. ASSUME NEW c \in Chunks, \E n \in 1..Last : mail[n] = c
        PROVE  (\E n \in 0..Last : held'[n] = c) \/ (\E n \in 1..Last : mail'[n] = c)
    BY <2>1, <2>3 DEF Receive
  <2> QED BY <2>1, <2>2, <2>3 DEF IInv, NoneLost
<1> QED BY <1>1, <1>2, <1>3 DEF IInv

\* A chunk that is given back leaves its module for the end of the ring.
LEMMA GiveBackConserves ==
    ASSUME Last \in Nat, DataCnt \in Nat, IInv, NEW m \in 1..Last, GiveBack(m)
    PROVE  IInv'
<1> USE DEF Chunks, NoChunk
<1>1. /\ held[m] \in Chunks
      /\ free' \in Seq(Chunks)
      /\ Len(free) \in Nat
      /\ DOMAIN free = 1..Len(free)
      /\ DOMAIN free' = 1..(Len(free) + 1)
      /\ \A i \in 1..Len(free) : free'[i] = free[i]
      /\ free'[Len(free) + 1] = held[m]
  <2>1. held[m] \in Chunks
    BY DEF IInv, TypeOK, GiveBack
  <2> QED BY <2>1, AppendToRing DEF IInv, TypeOK, GiveBack
<1>2. TypeOK'
  BY <1>1 DEF IInv, TypeOK, GiveBack
<1>3. NoneTwice'
  <2>1. /\ m \in 0..Last /\ held[m] # NoChunk
        /\ held'[m] = NoChunk /\ \A n \in 0..Last : n # m => held'[n] = held[n]
        /\ mail' = mail
    BY DEF IInv, TypeOK, GiveBack
  <2>2. \A i \in 1..Len(free) : free[i] \in Chunks
    BY DEF IInv, TypeOK
  <2>3. \A i, j \in DOMAIN free' : free'[i] = free'[j] => i = j
    BY <1>1, <2>1 DEF IInv, NoneTwice
  <2>4. \A k, n \in 0..Last : held'[k] # NoChunk /\ held'[k] = held'[n] => k = n
    BY <2>1 DEF IInv, NoneTwice
  <2>5. /\ \A k, n \in 1..Last : mail'[k] # NoChunk /\ mail'[k] = mail'[n] => k = n
        /\ \A k \in 0..Last, n \in 1..Last : held'[k] # NoChunk => held'[k] # mail'[n]
    BY <2>1 DEF IInv, NoneTwice
  <2>6. \A k \in 0..Last, i \in DOMAIN free' : held'[k] # free'[i]
    <3> SUFFICES ASSUME NEW k \in 0..Last, NEW i \in DOMAIN free'
                 PROVE  held'[k] # free'[i]
      OBVIOUS
    <3>1. free'[i] \in Chunks
      BY <1>1, <2>2
    <3>2. CASE k = m
      BY <2>1, <3>1, <3>2
    <3>3. CASE k # m /\ i = Len(free) + 1
      <4>1. held[k] # held[m]
        BY <2>1, <3>3 DEF IInv, NoneTwice
      <4> QED
        BY <1>1, <2>1, <3>3, <4>1
    <3>4. CASE k # m /\ i # Len(free) + 1
      <4>1. i \in DOMAIN free /\ free'[i] = free[i]
        BY <1>1, <3>4
      <4> QED
        BY <2>1, <3>4, <4>1 DEF IInv, NoneTwice
    <3> QED
      BY <3>2, <3>3, <3>4
  <2>7. \A k \in 1..Last, i \in DOMAIN free' : mail'[k] # free'[i]
    <3>1. /\ \A k \in 1..Last : mail[k] # held[m]
          /\ \A k \in 1..Last, i \in DOMAIN free : mail[k] # free[i]
      BY <2>1 DEF IInv, NoneTwice
    <3> QED
      BY <1>1, <2>1, <3>1
  <2> QED
    BY <2>3, <2>4, <2>5, <2>6, <2>7 DEF NoneTwice
<1>4. NoneLost'
  <2>1. /\ \A n \in 0..Last : n # m => held'[n] = held[n]
        /\ mail' = mail
        /\ Len(free) + 1 \in DOMAIN free'
        /\ \A i \in DOMAIN free : i \in DOMAIN free' /\ free'[i] = free[i]
    BY <1>1 DEF IInv, TypeOK, GiveBack
  <2>2. ASSUME NEW c \in Chunks, \E n \in 0..Last : held[n] = c
        PROVE  (\E n \in 0..Last : held'[n] = c) \/ (\E i \in DOMAIN free' : free'[i] = c)
    BY <1>1, <2>1, <2>2
  <2>3. ASSUME NEW c \in Chunks, \E i \in DOMAIN free : free[i] = c
        PROVE  \E i \in DOMAIN free' : free'[i] = c
    BY <2>1, <2>3
  <2> QED BY <2>1, <2>2, <2>3 DEF IInv, NoneLost
<1> QED BY <1>2, <1>3, <1>4 DEF IInv

\* No step of the belt duplicates or loses a chunk.
LEMMA NextConserves ==
    ASSUME Last \in Nat, DataCnt \in Nat, IInv, [Next]_vars
    PROVE  IInv'
<1>1. CASE Take
  BY <1>1, TakeConserves
<1>2. CASE \E m \in 0..(Last - 1) : Pass(m)
  BY <1>2, PassConserves
<1>3. CASE \E m \in 1..Last : Receive(m) \/ GiveBack(m)
  BY <1>3, ReceiveConserves, GiveBackConserves
<1>4. CASE UNCHANGED vars
  BY <1>4 DEF vars, IInv, TypeOK, NoneTwice, NoneLost
<1> QED BY <1>1, <1>2, <1>3, <1>4 DEF Next

\* Every chunk is always in exactly one place of the belt or the ring.
THEOREM BeltConserves ==
    ASSUME Last \in Nat, DataCnt \in Nat
    PROVE  Spec => []Conserved
<1>1. Init => IInv
  BY InitConserves
<1>2. IInv /\ [Next]_vars => IInv'
  BY NextConserves
<1>3. IInv => Conserved
  BY DEF IInv, Conserved
<1> QED BY <1>1, <1>2, <1>3, PTL DEF Spec

=============================================================================
