------------------------------ MODULE Conveyor ------------------------------
(***************************************************************************)
(* What the pipeline of modules promises about the chunks of its shared    *)
(* memory, with threads, semaphores and child processes left out.          *)
(*                                                                         *)
(* The pipeline is a belt: module m holds at most one chunk, and so does   *)
(* the mailbox before it.  Module 0 takes a chunk from the ring; a chunk   *)
(* moves from a module to the next mailbox and from a mailbox to its       *)
(* module, always into an empty place; it goes back to the ring from the   *)
(* last module, or from a middle module that rejects it.  So chunks are    *)
(* never duplicated, lost or overwritten, and never overtake each other.   *)
(***************************************************************************)
EXTENDS Naturals, Sequences

CONSTANTS
    Last,     \* index of the finalization module
    DataCnt   \* number of chunks in the ring

Chunks == 1..DataCnt
NoChunk == 0

VARIABLES
    held,     \* [0..Last -> the chunk the module works on, or NoChunk]
    mail,     \* [1..Last -> the chunk that waits for the module, or NoChunk]
    free      \* the ring of free chunks, oldest first

vars == <<held, mail, free>>

Init ==
    /\ held = [m \in 0..Last |-> NoChunk]
    /\ mail = [m \in 1..Last |-> NoChunk]
    /\ free = [i \in Chunks |-> i]

\* The first module takes the oldest free chunk.
Take ==
    /\ held[0] = NoChunk
    /\ free # <<>>
    /\ held' = [held EXCEPT ![0] = Head(free)]
    /\ free' = Tail(free)
    /\ UNCHANGED mail

\* Module m is done with its chunk and puts it before the next module.
Pass(m) ==
    /\ held[m] # NoChunk
    /\ mail[m + 1] = NoChunk
    /\ held' = [held EXCEPT ![m] = NoChunk]
    /\ mail' = [mail EXCEPT ![m + 1] = held[m]]
    /\ UNCHANGED free

\* Module m takes the chunk that waits for it.
Receive(m) ==
    /\ mail[m] # NoChunk
    /\ held[m] = NoChunk
    /\ held' = [held EXCEPT ![m] = mail[m]]
    /\ mail' = [mail EXCEPT ![m] = NoChunk]
    /\ UNCHANGED free

\* The last module, or a middle module that rejects the chunk, frees it.
GiveBack(m) ==
    /\ held[m] # NoChunk
    /\ held' = [held EXCEPT ![m] = NoChunk]
    /\ free' = Append(free, held[m])
    /\ UNCHANGED mail

Next ==
    \/ Take
    \/ \E m \in 0..(Last - 1) : Pass(m)
    \/ \E m \in 1..Last : Receive(m) \/ GiveBack(m)

Spec == Init /\ [][Next]_vars

-----------------------------------------------------------------------------
TypeOK ==
    /\ held \in [0..Last -> Chunks \cup {NoChunk}]
    /\ mail \in [1..Last -> Chunks \cup {NoChunk}]
    /\ free \in Seq(Chunks)

\* No chunk is in two places.
NoneTwice ==
    /\ \A i, j \in DOMAIN free : free[i] = free[j] => i = j
    /\ \A m, n \in 0..Last : held[m] # NoChunk /\ held[m] = held[n] => m = n
    /\ \A m, n \in 1..Last : mail[m] # NoChunk /\ mail[m] = mail[n] => m = n
    /\ \A m \in 0..Last, n \in 1..Last : held[m] # NoChunk => held[m] # mail[n]
    /\ \A m \in 0..Last, i \in DOMAIN free : held[m] # free[i]
    /\ \A m \in 1..Last, i \in DOMAIN free : mail[m] # free[i]

\* No chunk is lost.
NoneLost ==
    \A c \in Chunks :
        \/ \E m \in 0..Last : held[m] = c
        \/ \E m \in 1..Last : mail[m] = c
        \/ \E i \in DOMAIN free : free[i] = c

Conserved == NoneTwice /\ NoneLost

=============================================================================
