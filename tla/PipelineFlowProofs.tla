------------------------- MODULE PipelineFlowProofs -------------------------
(***************************************************************************)
(* Proofs about PipelineFlow for every number of modules and of chunks:    *)
(* type correctness, the two handshakes, STOP behind the last chunk and    *)
(* last in every mailbox, the refinement of Conveyor and with it the       *)
(* conservation of the chunks.                                             *)
(***************************************************************************)
EXTENDS PipelineFlow, WellFoundedInduction, TLAPS

BeltProofs == INSTANCE ConveyorProofs WITH held <- local, mail <- Mail, free <- ring

-----------------------------------------------------------------------------
(* The inductive invariant. *)

\* Where a thread holds a chunk, where it has passed STOP on, where it is ending.
Holding == {"job", "busy", "acquire", "write", "free"}
Passed == {"stopchild", "stopwait", "done"}
Ending == {"stopacquire", "stopwrite"} \cup Passed

\* The places in the function that the thread of module m runs.
PlacesOf(m) ==
    IF m = 0 THEN Places \ {"none", "wait", "read", "free"}
    ELSE IF m = Last THEN {"none", "wait", "read", "free", "done"}
    ELSE Places \ (FirstOnly \cup {"free"})

PlacesOK ==
    \A m \in Modules :
        /\ pc[m] \in PlacesOf(m)
        /\ pc[m] \in {"job", "busy"} => m \in WithChild

\* A thread has a chunk exactly between taking it and handing it over.
LocalOK == \A m \in Modules : local[m] # NoChunk <=> pc[m] \in Holding

\* A job that waits in a mailbox names a chunk.
MailOK ==
    \A m \in Receivers :
        cmd[m] = "JOB" /\ (newCmd[m] > 0 \/ pc[m] = "read") => dataoffset[m] # NoChunk

\* STOP is in a mailbox only when all threads before have passed it on, and a
\* thread that is ending was told so by the last command of its mailbox.
StopOK ==
    \A m \in Receivers :
        /\ cmd[m] = "STOP" => \A k \in 0..(m - 1) : pc[k] \in Passed
        /\ pc[m] \in Ending => cmd[m] = "STOP" /\ newCmd[m] = 0

IInv ==
    /\ TypeOK
    /\ PlacesOK
    /\ LocalOK
    /\ MailOK
    /\ MailboxHandshake
    /\ ChildHandshake
    /\ StopOK

-----------------------------------------------------------------------------
(* What a step leaves alone it keeps in order: one lemma per conjunct. *)

\* A thread moves inside its own function.
LEMMA GotoEffect ==
    ASSUME TypeOK, PlacesOK, NEW m \in Modules, NEW place \in Places, Goto(m, place),
           place \in PlacesOf(m),
           place \in {"job", "busy"} => m \in WithChild
    PROVE  /\ pc' \in [Modules -> Places]
           /\ pc'[m] = place
           /\ \A n \in Modules : n # m => pc'[n] = pc[n]
           /\ PlacesOK'
<1>1. /\ pc' \in [Modules -> Places]
      /\ pc'[m] = place
      /\ \A n \in Modules : n # m => pc'[n] = pc[n]
  BY DEF TypeOK, Goto
<1>2. PlacesOK'
  BY <1>1 DEF PlacesOK
<1> QED BY <1>1, <1>2

LEMMA LocalFrame ==
    ASSUME LocalOK, UNCHANGED local,
           \A n \in Modules : pc'[n] \in Holding <=> pc[n] \in Holding
    PROVE  LocalOK'
  BY DEF LocalOK

LEMMA MailFrame ==
    ASSUME MailOK, UNCHANGED <<cmd, newCmd, dataoffset>>,
           \A n \in Modules : pc'[n] = "read" => pc[n] = "read"
    PROVE  MailOK'
  BY DEF MailOK, Modules, Receivers

LEMMA MailboxFrame ==
    ASSUME MailboxHandshake, UNCHANGED <<newCmd, result>>,
           \A n \in Modules : /\ pc'[n] = "read" <=> pc[n] = "read"
                              /\ pc'[n] \in Writing <=> pc[n] \in Writing
                              /\ pc'[n] = "none" <=> pc[n] = "none"
    PROVE  MailboxHandshake'
<1> SUFFICES ASSUME NEW n \in Receivers
             PROVE  (result[n] + newCmd[n] + One(pc[n] = "read") + One(pc[n - 1] \in Writing)
                       = One(pc[n - 1] # "none"))'
  BY DEF MailboxHandshake
<1>1. n \in Modules /\ n - 1 \in Modules
  BY FlowAssumption DEF Modules, Receivers
<1> QED BY <1>1 DEF MailboxHandshake, One

LEMMA ChildFrame ==
    ASSUME ChildHandshake, UNCHANGED <<semJob, semResult, procCmd, procOffs, child>>,
           \A n \in WithChild : /\ pc'[n] = "busy" <=> pc[n] = "busy"
                                /\ pc'[n] = "stopwait" <=> pc[n] = "stopwait"
                                /\ pc[n] = "busy" => local'[n] = local[n]
    PROVE  ChildHandshake'
<1> SUFFICES ASSUME NEW n \in WithChild
             PROVE  (/\ semJob[n] + semResult[n] + One(child[n] = "work")
                          = One(pc[n] \in {"busy", "stopwait"})
                     /\ pc[n] = "busy" => procCmd[n] = "JOB" /\ procOffs[n] = local[n]
                     /\ pc[n] = "stopwait" => procCmd[n] = "STOP")'
  BY DEF ChildHandshake
<1> QED BY DEF ChildHandshake, One

LEMMA StopFrame ==
    ASSUME StopOK, UNCHANGED cmd,
           \A n \in Modules : pc[n] \in Passed => pc'[n] \in Passed,
           \A n \in Receivers : pc'[n] \in Ending =>
               \/ pc[n] \in Ending /\ newCmd'[n] = newCmd[n]
               \/ cmd[n] = "STOP" /\ newCmd'[n] = 0
    PROVE  StopOK'
  BY FlowAssumption DEF StopOK, Modules, Receivers

\* What the invariant says of one mailbox, and of one child.
LEMMA MailboxAt ==
    ASSUME TypeOK, MailboxHandshake, NEW n \in Receivers
    PROVE  /\ result[n] \in Nat /\ newCmd[n] \in Nat
           /\ n \in Modules /\ n - 1 \in Modules
           /\ result[n] + newCmd[n] + One(pc[n] = "read") + One(pc[n - 1] \in Writing)
                = One(pc[n - 1] # "none")
<1>1. n \in Modules /\ n - 1 \in Modules
  BY FlowAssumption DEF Modules, Receivers
<1>2. result[n] \in Nat /\ newCmd[n] \in Nat
  BY DEF TypeOK
<1> QED BY <1>1, <1>2 DEF MailboxHandshake

LEMMA ChildAt ==
    ASSUME TypeOK, ChildHandshake, NEW n \in WithChild
    PROVE  /\ semJob[n] \in Nat /\ semResult[n] \in Nat
           /\ semJob[n] + semResult[n] + One(child[n] = "work")
                = One(pc[n] \in {"busy", "stopwait"})
           /\ pc[n] = "busy" => procCmd[n] = "JOB" /\ procOffs[n] = local[n]
           /\ pc[n] = "stopwait" => procCmd[n] = "STOP"
<1>1. n \in Modules
  BY FlowAssumption DEF Modules, WithChild
<1>2. semJob[n] \in Nat /\ semResult[n] \in Nat
  BY <1>1 DEF TypeOK
<1> QED BY <1>2 DEF ChildHandshake

\* A step that concerns one mailbox only, or one child only.
LEMMA MailboxMove ==
    ASSUME MailboxHandshake, NEW j \in Receivers,
           \A n \in Receivers : n # j =>
               /\ result'[n] = result[n] /\ newCmd'[n] = newCmd[n]
               /\ pc'[n] = "read" <=> pc[n] = "read"
               /\ pc'[n - 1] \in Writing <=> pc[n - 1] \in Writing
               /\ pc'[n - 1] = "none" <=> pc[n - 1] = "none",
           result'[j] + newCmd'[j] + One(pc'[j] = "read") + One(pc'[j - 1] \in Writing)
               = One(pc'[j - 1] # "none")
    PROVE  MailboxHandshake'
<1> SUFFICES ASSUME NEW n \in Receivers
             PROVE  (result[n] + newCmd[n] + One(pc[n] = "read") + One(pc[n - 1] \in Writing)
                       = One(pc[n - 1] # "none"))'
  BY DEF MailboxHandshake
<1>1. CASE n = j
  BY <1>1
<1>2. CASE n # j
  BY <1>2 DEF MailboxHandshake, One
<1> QED BY <1>1, <1>2

LEMMA ChildMove ==
    ASSUME ChildHandshake, NEW j \in Modules,
           \A n \in WithChild : n # j =>
               /\ semJob'[n] = semJob[n] /\ semResult'[n] = semResult[n]
               /\ procCmd'[n] = procCmd[n] /\ procOffs'[n] = procOffs[n]
               /\ child'[n] = child[n] /\ pc'[n] = pc[n] /\ local'[n] = local[n],
           j \in WithChild =>
               /\ semJob'[j] + semResult'[j] + One(child'[j] = "work")
                    = One(pc'[j] \in {"busy", "stopwait"})
               /\ pc'[j] = "busy" => procCmd'[j] = "JOB" /\ procOffs'[j] = local'[j]
               /\ pc'[j] = "stopwait" => procCmd'[j] = "STOP"
    PROVE  ChildHandshake'
<1> SUFFICES ASSUME NEW n \in WithChild
             PROVE  (/\ semJob[n] + semResult[n] + One(child[n] = "work")
                          = One(pc[n] \in {"busy", "stopwait"})
                     /\ pc[n] = "busy" => procCmd[n] = "JOB" /\ procOffs[n] = local[n]
                     /\ pc[n] = "stopwait" => procCmd[n] = "STOP")'
  BY DEF ChildHandshake
<1>1. CASE n = j
  BY <1>1
<1>2. CASE n # j
  BY <1>2 DEF ChildHandshake, One
<1> QED BY <1>1, <1>2

-----------------------------------------------------------------------------
(* Each action preserves the invariant. *)

\* The tests of exit_flag and of the state change nothing but the place.
LEMMA PollStep ==
    ASSUME IInv, CheckExit \/ CheckState
    PROVE  IInv'
<1> USE FlowAssumption DEF Modules, Receivers
<1>1. PICK place \in {"stopacquire", "state", "pop", "loop"} : Goto(0, place)
  BY DEF CheckExit, CheckState, SourceSees, InitialSees
<1>2. /\ pc[0] \in {"loop", "state"}
      /\ UNCHANGED <<local, newCmd, result, cmd, dataoffset, semJob, semResult, procCmd,
                     procOffs, procResult, child, ring, state, plState>>
  BY DEF CheckExit, CheckState, mailbox, process, control
<1>3. /\ pc' \in [Modules -> Places]
      /\ pc'[0] \in {"stopacquire", "state", "pop", "loop"}
      /\ \A n \in Modules : n # 0 => pc'[n] = pc[n]
      /\ PlacesOK'
  BY <1>1, GotoEffect DEF IInv, PlacesOf, Places, FirstOnly
<1>4. TypeOK'
  BY <1>2, <1>3 DEF IInv, TypeOK
<1>5. LocalOK'
  BY <1>2, <1>3, LocalFrame DEF IInv, Holding
<1>6. MailOK'
  BY <1>2, <1>3, MailFrame DEF IInv
<1>7. MailboxHandshake'
  BY <1>2, <1>3, MailboxFrame DEF IInv, Writing
<1>8. ChildHandshake'
  BY <1>2, <1>3, ChildFrame DEF IInv, WithChild
<1>9. StopOK'
  BY <1>2, <1>3, StopFrame DEF IInv, Passed, Ending
<1> QED BY <1>3, <1>4, <1>5, <1>6, <1>7, <1>8, <1>9 DEF IInv

\* The first thread takes the oldest chunk of the ring.
LEMMA CaptureStep ==
    ASSUME IInv, SourceCapture \/ InitialCapture
    PROVE  IInv'
<1> USE FlowAssumption DEF Modules, Receivers
<1>1. /\ pc[0] = "pop"
      /\ ring \in Seq(Chunks) /\ ring # <<>>
      /\ local' = [local EXCEPT ![0] = Head(ring)]
      /\ ring' = Tail(ring)
      /\ UNCHANGED <<newCmd, result, cmd, dataoffset, semJob, semResult, procResult, child, state, plState>>
  BY DEF IInv, TypeOK, SourceCapture, InitialCapture, PopChunk, mailbox, process, control
<1>2. /\ Head(ring) \in Chunks
      /\ ring' \in Seq(Chunks)
  BY <1>1
<1>3. /\ local' \in [Modules -> Chunks \cup {NoChunk}]
      /\ local'[0] # NoChunk
      /\ \A n \in Modules : n # 0 => local'[n] = local[n]
  <2>1. local \in [Modules -> Chunks \cup {NoChunk}]
    BY DEF IInv, TypeOK
  <2>2. NoChunk \notin Chunks
    BY DEF Chunks, NoChunk
  <2> QED BY <1>1, <1>2, <2>1, <2>2
<1>4. PICK place \in {"job", "acquire"} : Goto(0, place) /\ (place = "job" => FirstMode = "EXTERNAL")
  BY DEF SourceCapture, InitialCapture
<1>5. /\ pc' \in [Modules -> Places]
      /\ pc'[0] \in {"job", "acquire"}
      /\ \A n \in Modules : n # 0 => pc'[n] = pc[n]
      /\ PlacesOK'
  BY <1>4, GotoEffect DEF IInv, PlacesOf, Places, WithChild
<1>6. \/ UNCHANGED <<procCmd, procOffs>>
      \/ /\ 0 \notin WithChild
         /\ procCmd' = [procCmd EXCEPT ![0] = "JOB"]
         /\ procOffs' = [procOffs EXCEPT ![0] = Head(ring)]
  BY DEF SourceCapture, InitialCapture, process, WithChild
<1>7. /\ procCmd' \in [Modules -> Cmds]
      /\ procOffs' \in [Modules -> Chunks \cup {NoChunk}]
      /\ \A n \in WithChild : procCmd'[n] = procCmd[n] /\ procOffs'[n] = procOffs[n]
  <2>1. /\ procCmd \in [Modules -> Cmds] /\ procOffs \in [Modules -> Chunks \cup {NoChunk}]
        /\ "JOB" \in Cmds /\ WithChild \subseteq Modules
    BY DEF IInv, TypeOK, Cmds, WithChild
  <2> QED BY <1>2, <1>6, <2>1
<1>8. TypeOK'
  BY <1>1, <1>2, <1>3, <1>5, <1>7 DEF IInv, TypeOK
<1>9. LocalOK'
  BY <1>1, <1>3, <1>5 DEF IInv, LocalOK, Holding
<1>10. MailOK'
  BY <1>1, <1>5, MailFrame DEF IInv
<1>11. MailboxHandshake'
  BY <1>1, <1>5, MailboxFrame DEF IInv, Writing
<1>12. ChildHandshake'
  <2> SUFFICES ASSUME NEW n \in WithChild
               PROVE  (/\ semJob[n] + semResult[n] + One(child[n] = "work")
                            = One(pc[n] \in {"busy", "stopwait"})
                       /\ pc[n] = "busy" => procCmd[n] = "JOB" /\ procOffs[n] = local[n]
                       /\ pc[n] = "stopwait" => procCmd[n] = "STOP")'
    BY DEF ChildHandshake
  <2>1. /\ pc'[n] = "busy" <=> pc[n] = "busy"
        /\ pc'[n] = "stopwait" <=> pc[n] = "stopwait"
        /\ pc[n] = "busy" => local'[n] = local[n]
    BY <1>1, <1>3, <1>5 DEF WithChild
  <2> QED BY <1>1, <1>7, <2>1 DEF IInv, ChildHandshake, One
<1>13. StopOK'
  BY <1>1, <1>5, StopFrame DEF IInv, Passed, Ending
<1> QED BY <1>5, <1>8, <1>9, <1>10, <1>11, <1>12, <1>13 DEF IInv

\* A thread takes the command out of the semaphore.
LEMMA WaitCmdStep ==
    ASSUME IInv, NEW m \in Receivers, WaitCmd(m)
    PROVE  IInv'
<1> USE FlowAssumption DEF Modules, Receivers
<1>1. /\ m \in Modules
      /\ pc[m] = "wait"
      /\ pc'[m] = "read"
      /\ pc' \in [Modules -> Places]
      /\ \A n \in Modules : n # m => pc'[n] = pc[n]
      /\ PlacesOK'
  BY GotoEffect DEF IInv, WaitCmd, PlacesOf, Places, FirstOnly
<1>2. /\ newCmd \in [Receivers -> Nat]
      /\ newCmd[m] > 0
      /\ newCmd' = [newCmd EXCEPT ![m] = @ - 1]
      /\ UNCHANGED <<local, result, cmd, dataoffset, semJob, semResult, procCmd, procOffs,
                     procResult, child, ring, state, plState>>
  BY DEF IInv, TypeOK, WaitCmd, process, control
<1>3. /\ newCmd' \in [Receivers -> Nat]
      /\ newCmd'[m] = newCmd[m] - 1
      /\ \A n \in Receivers : n # m => newCmd'[n] = newCmd[n]
  BY <1>2
<1>4. TypeOK'
  BY <1>1, <1>2, <1>3 DEF IInv, TypeOK
<1>5. LocalOK'
  BY <1>1, <1>2, LocalFrame DEF IInv, Holding
<1>6. MailOK'
  BY <1>1, <1>2, <1>3 DEF IInv, MailOK
<1>7. MailboxHandshake'
  <2>1. /\ result[m] \in Nat /\ newCmd[m] \in Nat /\ m - 1 \in Modules /\ m - 1 # m
        /\ result[m] + newCmd[m] + One(pc[m] = "read") + One(pc[m - 1] \in Writing)
             = One(pc[m - 1] # "none")
    BY MailboxAt DEF IInv
  <2>2. pc'[m - 1] = pc[m - 1] /\ result'[m] = result[m]
    BY <1>1, <1>2, <2>1
  <2>3. result'[m] + newCmd'[m] + One(pc'[m] = "read") + One(pc'[m - 1] \in Writing)
            = One(pc'[m - 1] # "none")
    BY <1>1, <1>3, <2>1, <2>2 DEF One
  <2>4. ASSUME NEW n \in Receivers, n # m
        PROVE  /\ result'[n] = result[n] /\ newCmd'[n] = newCmd[n]
               /\ pc'[n] = "read" <=> pc[n] = "read"
               /\ pc'[n - 1] \in Writing <=> pc[n - 1] \in Writing
               /\ pc'[n - 1] = "none" <=> pc[n - 1] = "none"
    <3>1. n \in Modules /\ n - 1 \in Modules
      OBVIOUS
    <3>2. pc'[n] = pc[n] /\ result'[n] = result[n] /\ newCmd'[n] = newCmd[n]
      BY <1>1, <1>2, <1>3, <2>4, <3>1
    <3> QED BY <1>1, <3>1, <3>2 DEF Writing
  <2> QED BY <2>3, <2>4, MailboxMove DEF IInv
<1>8. ChildHandshake'
  BY <1>1, <1>2, ChildFrame DEF IInv, WithChild
<1>9. StopOK'
  <2>1. \A k \in Modules : pc[k] \in Passed => pc'[k] \in Passed
    BY <1>1 DEF Passed
  <2>2. \A n \in Receivers : pc'[n] \in Ending => pc[n] \in Ending /\ newCmd'[n] = newCmd[n]
    BY <1>1, <1>3 DEF Ending, Passed
  <2> QED BY <1>2, <2>1, <2>2, StopFrame DEF IInv
<1> QED BY <1>1, <1>4, <1>5, <1>6, <1>7, <1>8, <1>9 DEF IInv

\* A thread reads its mailbox and gives it back to the thread before it.
LEMMA ReadCmdStep ==
    ASSUME IInv, NEW m \in Receivers, ReadCmd(m)
    PROVE  IInv'
<1> USE FlowAssumption DEF Modules, Receivers
<1>1. /\ m \in Modules /\ m # 0
      /\ pc[m] = "read"
      /\ result \in [Receivers -> Nat]
      /\ result' = [result EXCEPT ![m] = @ + 1]
      /\ UNCHANGED <<newCmd, cmd, dataoffset, semJob, semResult, procCmd, procOffs,
                     procResult, child, ring, state, plState>>
  <2>1. result \in [Receivers -> Nat]
    BY DEF IInv, TypeOK
  <2> QED BY <2>1 DEF ReadCmd, process, control
<1>2. \/ /\ cmd[m] = "STOP"
         /\ Goto(m, IF m = Last THEN "done" ELSE "stopacquire")
         /\ local' = local
      \/ /\ cmd[m] = "JOB"
         /\ Goto(m, IF m = Last THEN "free" ELSE "job")
         /\ local' = [local EXCEPT ![m] = dataoffset[m]]
  BY DEF ReadCmd
<1>3. /\ pc' \in [Modules -> Places]
      /\ cmd[m] = "STOP" => pc'[m] \in {"done", "stopacquire"}
      /\ cmd[m] = "JOB" => pc'[m] \in {"free", "job"}
      /\ cmd[m] \in {"STOP", "JOB"}
      /\ \A n \in Modules : n # m => pc'[n] = pc[n]
      /\ PlacesOK'
  <2>1. CASE cmd[m] = "STOP"
    BY <1>1, <1>2, <2>1, GotoEffect DEF IInv, PlacesOf, Places, FirstOnly
  <2>2. CASE cmd[m] = "JOB"
    BY <1>1, <1>2, <2>2, GotoEffect DEF IInv, PlacesOf, Places, FirstOnly, WithChild
  <2> QED BY <1>2, <2>1, <2>2
<1>4. /\ local' \in [Modules -> Chunks \cup {NoChunk}]
      /\ \A n \in Modules : n # m => local'[n] = local[n]
      /\ cmd[m] = "STOP" => local'[m] = local[m]
      /\ cmd[m] = "JOB" => local'[m] # NoChunk
  BY <1>1, <1>2 DEF IInv, TypeOK, MailOK
<1>5. /\ result' \in [Receivers -> Nat]
      /\ result'[m] = result[m] + 1
      /\ \A n \in Receivers : n # m => result'[n] = result[n]
  BY <1>1
<1>6. TypeOK'
  BY <1>1, <1>3, <1>4, <1>5 DEF IInv, TypeOK
<1>7. LocalOK'
  BY <1>1, <1>3, <1>4 DEF IInv, LocalOK, Holding
<1>8. MailOK'
  BY <1>1, <1>3, MailFrame DEF IInv
<1>9. /\ newCmd[m] = 0 /\ result[m] = 0
      /\ pc[m - 1] # "none" /\ pc[m - 1] \notin Writing
  <2>1. /\ result[m] \in Nat /\ newCmd[m] \in Nat
        /\ result[m] + newCmd[m] + One(pc[m] = "read") + One(pc[m - 1] \in Writing)
             = One(pc[m - 1] # "none")
    BY MailboxAt DEF IInv
  <2>2. One(pc[m] = "read") = 1
    BY <1>1 DEF One
  <2>3. /\ One(pc[m - 1] \in Writing) \in {0, 1} /\ One(pc[m - 1] # "none") \in {0, 1}
        /\ pc[m - 1] \in Writing => One(pc[m - 1] \in Writing) = 1
        /\ pc[m - 1] = "none" => One(pc[m - 1] # "none") = 0
    BY DEF One
  <2> QED BY <2>1, <2>2, <2>3
<1>10. MailboxHandshake'
  <2>1. ASSUME NEW n \in Receivers, n # m
        PROVE  /\ result'[n] = result[n] /\ newCmd'[n] = newCmd[n]
               /\ pc'[n] = "read" <=> pc[n] = "read"
               /\ pc'[n - 1] \in Writing <=> pc[n - 1] \in Writing
               /\ pc'[n - 1] = "none" <=> pc[n - 1] = "none"
    <3>1. n \in Modules /\ n - 1 \in Modules
      OBVIOUS
    <3>2. pc'[n] = pc[n] /\ result'[n] = result[n] /\ newCmd'[n] = newCmd[n]
      BY <1>1, <1>3, <1>5, <2>1, <3>1
    <3> QED BY <1>1, <1>3, <3>1, <3>2 DEF Writing
  <2>2. pc'[m - 1] = pc[m - 1] /\ pc'[m] # "read"
    BY <1>1, <1>3
  <2>3. result'[m] + newCmd'[m] + One(pc'[m] = "read") + One(pc'[m - 1] \in Writing)
            = One(pc'[m - 1] # "none")
    BY <1>1, <1>5, <1>9, <2>2 DEF One
  <2> QED BY <2>1, <2>3, MailboxMove DEF IInv
<1>11. ChildHandshake'
  BY <1>1, <1>3, <1>4, ChildFrame DEF IInv, WithChild
<1>12. StopOK'
  <2>1. \A k \in Modules : pc[k] \in Passed => pc'[k] \in Passed
    BY <1>1, <1>3 DEF Passed
  <2>2. \A n \in Receivers : n # m => (pc'[n] \in Ending => pc[n] \in Ending)
    BY <1>3
  <2>3. pc'[m] \in Ending => cmd[m] = "STOP"
    BY <1>3 DEF Ending, Passed
  <2> QED BY <1>1, <1>9, <2>1, <2>2, <2>3 DEF IInv, StopOK
<1> QED BY <1>3, <1>6, <1>7, <1>8, <1>10, <1>11, <1>12 DEF IInv

\* A thread gets the mailbox of the next one for writing.
LEMMA WaitNextStep ==
    ASSUME IInv, NEW m \in 0..(Last - 1), WaitNext(m)
    PROVE  IInv'
<1> USE FlowAssumption DEF Modules, Receivers
<1>1. /\ m \in Modules /\ m + 1 \in Receivers /\ (m + 1) - 1 = m /\ m # Last
      /\ pc[m] \in {"acquire", "stopacquire"}
      /\ UNCHANGED <<local, newCmd, cmd, dataoffset, semJob, semResult, procCmd, procOffs,
                     procResult, child, ring, state, plState>>
  BY DEF WaitNext, process, control
<1>2. /\ pc' \in [Modules -> Places]
      /\ pc'[m] = IF pc[m] = "acquire" THEN "write" ELSE "stopwrite"
      /\ \A n \in Modules : n # m => pc'[n] = pc[n]
      /\ PlacesOK'
  BY <1>1, GotoEffect DEF IInv, WaitNext, PlacesOf, Places, FirstOnly, Writing
<1>3. /\ result' \in [Receivers -> Nat]
      /\ result[m + 1] > 0
      /\ result'[m + 1] = result[m + 1] - 1
      /\ \A n \in Receivers : n # m + 1 => result'[n] = result[n]
  <2>1. /\ result \in [Receivers -> Nat]
        /\ result[m + 1] > 0
        /\ result' = [result EXCEPT ![m + 1] = @ - 1]
    BY DEF IInv, TypeOK, WaitNext
  <2> QED BY <1>1, <2>1
<1>4. TypeOK'
  BY <1>1, <1>2, <1>3 DEF IInv, TypeOK
<1>5. LocalOK'
  BY <1>1, <1>2, LocalFrame DEF IInv, Holding
<1>6. MailOK'
  BY <1>1, <1>2, MailFrame DEF IInv
<1>7. MailboxHandshake'
  <2>1. /\ result[m + 1] \in Nat /\ newCmd[m + 1] \in Nat /\ m + 1 \in Modules
        /\ result[m + 1] + newCmd[m + 1] + One(pc[m + 1] = "read") + One(pc[m] \in Writing)
             = One(pc[m] # "none")
    BY <1>1, MailboxAt DEF IInv
  <2>2. pc'[m + 1] = pc[m + 1] /\ newCmd'[m + 1] = newCmd[m + 1]
    BY <1>1, <1>2, <2>1
  <2>3. pc[m] \notin Writing /\ pc'[m] \in Writing /\ pc[m] # "none" /\ pc'[m] # "none"
    BY <1>1, <1>2 DEF Writing
  <2>4. result'[m + 1] + newCmd'[m + 1] + One(pc'[m + 1] = "read") + One(pc'[(m + 1) - 1] \in Writing)
            = One(pc'[(m + 1) - 1] # "none")
    BY <1>1, <1>3, <2>1, <2>2, <2>3 DEF One
  <2>5. ASSUME NEW n \in Receivers, n # m + 1
        PROVE  /\ result'[n] = result[n] /\ newCmd'[n] = newCmd[n]
               /\ pc'[n] = "read" <=> pc[n] = "read"
               /\ pc'[n - 1] \in Writing <=> pc[n - 1] \in Writing
               /\ pc'[n - 1] = "none" <=> pc[n - 1] = "none"
    <3>1. n \in Modules /\ n - 1 \in Modules /\ n - 1 # m
      BY <2>5
    <3>2. /\ pc'[n - 1] = pc[n - 1] /\ result'[n] = result[n] /\ newCmd'[n] = newCmd[n]
          /\ pc'[n] = "read" <=> pc[n] = "read"
      BY <1>1, <1>2, <1>3, <2>5, <3>1
    <3> QED BY <3>2
  <2> QED BY <1>1, <2>4, <2>5, MailboxMove DEF IInv
<1>8. ChildHandshake'
  BY <1>1, <1>2, ChildFrame DEF IInv, WithChild
<1>9. StopOK'
  <2>1. \A k \in Modules : pc[k] \in Passed => pc'[k] \in Passed
    BY <1>1, <1>2 DEF Passed
  <2>2. \A n \in Receivers : pc'[n] \in Ending => pc[n] \in Ending /\ newCmd'[n] = newCmd[n]
    BY <1>1, <1>2 DEF Ending, Passed
  <2> QED BY <1>1, <2>1, <2>2, StopFrame DEF IInv
<1> QED BY <1>2, <1>4, <1>5, <1>6, <1>7, <1>8, <1>9 DEF IInv

\* The finalization thread returns a chunk to the ring.
LEMMA FreeChunkStep ==
    ASSUME IInv, FreeChunk
    PROVE  IInv'
<1> USE FlowAssumption DEF Modules, Receivers
<1>1. /\ Last \in Modules /\ Last # 0
      /\ pc[Last] = "free"
      /\ UNCHANGED <<newCmd, result, cmd, dataoffset, semJob, semResult, procCmd, procOffs,
                     procResult, child, state, plState>>
  BY DEF FreeChunk, mailbox, process, control
<1>2. /\ pc' \in [Modules -> Places]
      /\ pc'[Last] = "wait"
      /\ \A n \in Modules : n # Last => pc'[n] = pc[n]
      /\ PlacesOK'
  BY <1>1, GotoEffect DEF IInv, FreeChunk, PlacesOf, Places
<1>3. /\ local' \in [Modules -> Chunks \cup {NoChunk}]
      /\ local'[Last] = NoChunk
      /\ \A n \in Modules : n # Last => local'[n] = local[n]
  BY <1>1 DEF IInv, TypeOK, FreeChunk
<1>4. ring' \in Seq(Chunks)
  <2>1. local[Last] \in Chunks
    BY <1>1 DEF IInv, TypeOK, LocalOK, Holding
  <2> QED BY <2>1 DEF IInv, TypeOK, FreeChunk
<1>5. TypeOK'
  BY <1>1, <1>2, <1>3, <1>4 DEF IInv, TypeOK
<1>6. LocalOK'
  BY <1>1, <1>2, <1>3 DEF IInv, LocalOK, Holding
<1>7. MailOK'
  BY <1>1, <1>2, MailFrame DEF IInv
<1>8. MailboxHandshake'
  BY <1>1, <1>2, MailboxFrame DEF IInv, Writing
<1>9. ChildHandshake'
  BY <1>1, <1>2, <1>3, ChildFrame DEF IInv, WithChild
<1>10. StopOK'
  BY <1>1, <1>2, StopFrame DEF IInv, Passed, Ending
<1> QED BY <1>2, <1>5, <1>6, <1>7, <1>8, <1>9, <1>10 DEF IInv

\* A thread gives the chunk to its child.
LEMMA GiveJobStep ==
    ASSUME IInv, NEW m \in 0..(Last - 1), GiveJob(m)
    PROVE  IInv'
<1> USE FlowAssumption DEF Modules, Receivers
<1>1. /\ m \in Modules /\ m # Last
      /\ pc[m] = "job"
      /\ UNCHANGED <<local, newCmd, result, cmd, dataoffset, semResult, procResult, child,
                     ring, state, plState>>
  BY DEF GiveJob, mailbox, control
<1>2. m \in WithChild
  BY <1>1 DEF IInv, PlacesOK
<1>3. /\ pc' \in [Modules -> Places]
      /\ pc'[m] = "busy"
      /\ \A n \in Modules : n # m => pc'[n] = pc[n]
      /\ PlacesOK'
  BY <1>1, <1>2, GotoEffect DEF IInv, GiveJob, PlacesOf, Places, FirstOnly
<1>4. /\ semJob' \in [Modules -> Nat]
      /\ semJob'[m] = semJob[m] + 1
      /\ procCmd' \in [Modules -> Cmds]
      /\ procCmd'[m] = "JOB"
      /\ procOffs' \in [Modules -> Chunks \cup {NoChunk}]
      /\ procOffs'[m] = local[m]
      /\ \A n \in Modules : n # m => /\ semJob'[n] = semJob[n]
                                    /\ procCmd'[n] = procCmd[n]
                                    /\ procOffs'[n] = procOffs[n]
  <2>1. /\ semJob \in [Modules -> Nat] /\ procCmd \in [Modules -> Cmds]
        /\ procOffs \in [Modules -> Chunks \cup {NoChunk}]
        /\ local[m] \in Chunks \cup {NoChunk}
    BY <1>1 DEF IInv, TypeOK
  <2>2. /\ semJob' = [semJob EXCEPT ![m] = @ + 1] /\ procCmd' = [procCmd EXCEPT ![m] = "JOB"]
        /\ procOffs' = [procOffs EXCEPT ![m] = local[m]]
    BY DEF GiveJob
  <2> QED BY <1>1, <2>1, <2>2 DEF Cmds
<1>5. TypeOK'
  BY <1>1, <1>3, <1>4 DEF IInv, TypeOK
<1>6. LocalOK'
  BY <1>1, <1>3, LocalFrame DEF IInv, Holding
<1>7. MailOK'
  BY <1>1, <1>3, MailFrame DEF IInv
<1>8. MailboxHandshake'
  BY <1>1, <1>3, MailboxFrame DEF IInv, Writing
<1>9. ChildHandshake'
  <2>1. /\ semJob[m] \in Nat /\ semResult[m] \in Nat
        /\ semJob[m] + semResult[m] + One(child[m] = "work") = One(pc[m] \in {"busy", "stopwait"})
    BY <1>2, ChildAt DEF IInv
  <2>2. semJob'[m] + semResult'[m] + One(child'[m] = "work") = One(pc'[m] \in {"busy", "stopwait"})
    <3>1. One(pc[m] \in {"busy", "stopwait"}) = 0 /\ One(pc'[m] \in {"busy", "stopwait"}) = 1
      BY <1>1, <1>3 DEF One
    <3>2. One(child[m] = "work") \in {0, 1} /\ One(child'[m] = "work") = One(child[m] = "work")
      BY <1>1 DEF One
    <3>3. semJob'[m] = semJob[m] + 1 /\ semResult'[m] = semResult[m]
      BY <1>1, <1>4
    <3> QED BY <2>1, <3>1, <3>2, <3>3
  <2>3. ASSUME NEW n \in WithChild, n # m
        PROVE  /\ semJob'[n] = semJob[n] /\ semResult'[n] = semResult[n]
               /\ procCmd'[n] = procCmd[n] /\ procOffs'[n] = procOffs[n]
               /\ child'[n] = child[n] /\ pc'[n] = pc[n] /\ local'[n] = local[n]
    <3>1. n \in Modules
      BY DEF WithChild
    <3>2. semResult' = semResult /\ child' = child /\ local' = local
      BY <1>1
    <3> QED BY <1>3, <1>4, <2>3, <3>1, <3>2
  <2> QED BY <1>1, <1>3, <1>4, <2>2, <2>3, ChildMove DEF IInv
<1>10. StopOK'
  BY <1>1, <1>3, StopFrame DEF IInv, Passed, Ending
<1> QED BY <1>3, <1>5, <1>6, <1>7, <1>8, <1>9, <1>10 DEF IInv

\* A thread takes its chunk back from its child.
LEMMA TakeBackStep ==
    ASSUME IInv, NEW m \in 0..(Last - 1), TakeBack(m)
    PROVE  IInv'
<1> USE FlowAssumption DEF Modules, Receivers
<1>1. /\ m \in Modules /\ m # Last
      /\ pc[m] = "busy"
      /\ UNCHANGED <<newCmd, result, cmd, dataoffset, semJob, procCmd, procOffs, procResult,
                     child, state, plState>>
  BY DEF TakeBack, mailbox, control
<1>2. /\ semResult' \in [Modules -> Nat]
      /\ semResult[m] > 0
      /\ semResult'[m] = semResult[m] - 1
      /\ \A n \in Modules : n # m => semResult'[n] = semResult[n]
  <2>1. /\ semResult \in [Modules -> Nat]
        /\ semResult[m] > 0
        /\ semResult' = [semResult EXCEPT ![m] = @ - 1]
    BY DEF IInv, TypeOK, TakeBack
  <2> QED BY <1>1, <2>1
<1>3. \/ /\ m > 0 /\ Goto(m, "wait")
         /\ ring' = Append(ring, local[m])
         /\ local' = [local EXCEPT ![m] = NoChunk]
      \/ Goto(m, "acquire") /\ UNCHANGED <<ring, local>>
  BY DEF TakeBack
<1>4. /\ pc' \in [Modules -> Places]
      /\ pc'[m] \in {"wait", "acquire"}
      /\ \A n \in Modules : n # m => pc'[n] = pc[n]
      /\ PlacesOK'
  BY <1>1, <1>3, GotoEffect DEF IInv, PlacesOf, Places, FirstOnly
<1>5. /\ local' \in [Modules -> Chunks \cup {NoChunk}]
      /\ local'[m] # NoChunk <=> pc'[m] = "acquire"
      /\ \A n \in Modules : n # m => local'[n] = local[n]
      /\ ring' \in Seq(Chunks)
  <2>1. /\ local \in [Modules -> Chunks \cup {NoChunk}]
        /\ local[m] \in Chunks /\ local[m] # NoChunk
        /\ ring \in Seq(Chunks) /\ pc \in [Modules -> Places]
    BY <1>1 DEF IInv, TypeOK, LocalOK, Holding
  <2>2. CASE Goto(m, "acquire") /\ UNCHANGED <<ring, local>>
    BY <1>1, <2>1, <2>2 DEF Goto
  <2>3. CASE /\ Goto(m, "wait")
             /\ ring' = Append(ring, local[m])
             /\ local' = [local EXCEPT ![m] = NoChunk]
    BY <1>1, <2>1, <2>3 DEF Goto
  <2> QED BY <1>3, <2>2, <2>3
<1>6. TypeOK'
  BY <1>1, <1>2, <1>4, <1>5 DEF IInv, TypeOK
<1>7. LocalOK'
  BY <1>1, <1>4, <1>5 DEF IInv, LocalOK, Holding
<1>8. MailOK'
  BY <1>1, <1>4, MailFrame DEF IInv
<1>9. MailboxHandshake'
  BY <1>1, <1>4, MailboxFrame DEF IInv, Writing
<1>10. ChildHandshake'
  <2>1. m \in WithChild
    BY <1>1 DEF IInv, PlacesOK
  <2>2. /\ semJob[m] \in Nat /\ semResult[m] \in Nat
        /\ semJob[m] + semResult[m] + One(child[m] = "work") = One(pc[m] \in {"busy", "stopwait"})
    BY <2>1, ChildAt DEF IInv
  <2>3. semJob'[m] + semResult'[m] + One(child'[m] = "work") = One(pc'[m] \in {"busy", "stopwait"})
    <3>1. /\ pc'[m] \notin {"busy", "stopwait"} /\ pc[m] = "busy"
          /\ semJob'[m] = semJob[m] /\ child'[m] = child[m]
          /\ semResult'[m] = semResult[m] - 1 /\ semResult[m] > 0
      BY <1>1, <1>2, <1>4
    <3> QED BY <2>2, <3>1 DEF One
  <2>4. \A n \in WithChild : n # m =>
            /\ semJob'[n] = semJob[n] /\ semResult'[n] = semResult[n]
            /\ procCmd'[n] = procCmd[n] /\ procOffs'[n] = procOffs[n]
            /\ child'[n] = child[n] /\ pc'[n] = pc[n] /\ local'[n] = local[n]
    BY <1>1, <1>2, <1>4, <1>5 DEF WithChild
  <2> QED BY <1>1, <1>4, <2>3, <2>4, ChildMove DEF IInv
<1>11. StopOK'
  BY <1>1, <1>4, StopFrame DEF IInv, Passed, Ending
<1> QED BY <1>4, <1>6, <1>7, <1>8, <1>9, <1>10, <1>11 DEF IInv

\* A thread writes its chunk to the mailbox of the next one.
LEMMA PassChunkStep ==
    ASSUME IInv, NEW m \in 0..(Last - 1), PassChunk(m)
    PROVE  IInv'
<1> USE FlowAssumption DEF Modules, Receivers
<1>1. /\ m \in Modules /\ m + 1 \in Receivers /\ (m + 1) - 1 = m /\ m # Last
      /\ pc[m] = "write"
      /\ UNCHANGED <<result, semJob, semResult, procCmd, procOffs, procResult, child,
                     ring, state, plState>>
  BY DEF PassChunk, process, control
<1>2. /\ pc' \in [Modules -> Places]
      /\ pc'[m] \in {"loop", "wait"}
      /\ \A n \in Modules : n # m => pc'[n] = pc[n]
      /\ PlacesOK'
  BY <1>1, GotoEffect DEF IInv, PassChunk, FirstPc, PlacesOf, Places, FirstOnly
<1>3. /\ local' \in [Modules -> Chunks \cup {NoChunk}]
      /\ local[m] \in Chunks \cup {NoChunk} /\ local[m] # NoChunk
      /\ local'[m] = NoChunk
      /\ \A n \in Modules : n # m => local'[n] = local[n]
  BY <1>1 DEF IInv, TypeOK, LocalOK, Holding, PassChunk
<1>4. /\ cmd' \in [Receivers -> Cmds]
      /\ cmd'[m + 1] = "JOB"
      /\ dataoffset' \in [Receivers -> Chunks \cup {NoChunk}]
      /\ dataoffset'[m + 1] = local[m]
      /\ newCmd' \in [Receivers -> Nat]
      /\ newCmd'[m + 1] = newCmd[m + 1] + 1
      /\ \A n \in Receivers : n # m + 1 => /\ cmd'[n] = cmd[n]
                                         /\ dataoffset'[n] = dataoffset[n]
                                         /\ newCmd'[n] = newCmd[n]
  <2>1. /\ cmd \in [Receivers -> Cmds] /\ cmd' = [cmd EXCEPT ![m + 1] = "JOB"]
        /\ dataoffset \in [Receivers -> Chunks \cup {NoChunk}]
        /\ dataoffset' = [dataoffset EXCEPT ![m + 1] = local[m]]
        /\ newCmd \in [Receivers -> Nat] /\ newCmd' = [newCmd EXCEPT ![m + 1] = @ + 1]
    BY DEF IInv, TypeOK, PassChunk
  <2> QED BY <1>1, <1>3, <2>1 DEF Cmds
<1>5. TypeOK'
  BY <1>1, <1>2, <1>3, <1>4 DEF IInv, TypeOK
<1>6. LocalOK'
  BY <1>1, <1>2, <1>3 DEF IInv, LocalOK, Holding
<1>7. MailOK'
  <2> SUFFICES ASSUME NEW n \in Receivers,
                      cmd'[n] = "JOB" /\ (newCmd'[n] > 0 \/ pc'[n] = "read")
               PROVE  dataoffset'[n] # NoChunk
    BY DEF MailOK
  <2>1. CASE n = m + 1
    BY <1>3, <1>4, <2>1
  <2>2. CASE n # m + 1
    <3>1. pc'[n] = "read" => pc[n] = "read"
      BY <1>1, <1>2
    <3> QED BY <1>4, <2>2, <3>1 DEF IInv, MailOK
  <2> QED BY <2>1, <2>2
<1>8. MailboxHandshake'
  <2>1. /\ result[m + 1] \in Nat /\ newCmd[m + 1] \in Nat /\ m + 1 \in Modules
        /\ result[m + 1] + newCmd[m + 1] + One(pc[m + 1] = "read") + One(pc[m] \in Writing)
             = One(pc[m] # "none")
    BY <1>1, MailboxAt DEF IInv
  <2>2. pc'[m + 1] = pc[m + 1] /\ result'[m + 1] = result[m + 1]
    BY <1>1, <1>2, <2>1
  <2>3. pc[m] \in Writing /\ pc'[m] \notin Writing /\ pc[m] # "none" /\ pc'[m] # "none"
    BY <1>1, <1>2 DEF Writing
  <2>4. result'[m + 1] + newCmd'[m + 1] + One(pc'[m + 1] = "read") + One(pc'[(m + 1) - 1] \in Writing)
            = One(pc'[(m + 1) - 1] # "none")
    BY <1>1, <1>4, <2>1, <2>2, <2>3 DEF One
  <2>5. ASSUME NEW n \in Receivers, n # m + 1
        PROVE  /\ result'[n] = result[n] /\ newCmd'[n] = newCmd[n]
               /\ pc'[n] = "read" <=> pc[n] = "read"
               /\ pc'[n - 1] \in Writing <=> pc[n - 1] \in Writing
               /\ pc'[n - 1] = "none" <=> pc[n - 1] = "none"
    <3>1. n \in Modules /\ n - 1 \in Modules /\ n - 1 # m
      BY <2>5
    <3>2. /\ pc'[n - 1] = pc[n - 1] /\ result'[n] = result[n] /\ newCmd'[n] = newCmd[n]
          /\ pc'[n] = "read" <=> pc[n] = "read"
      BY <1>1, <1>2, <1>4, <2>5, <3>1
    <3> QED BY <3>2
  <2> QED BY <1>1, <2>4, <2>5, MailboxMove DEF IInv
<1>9. ChildHandshake'
  BY <1>1, <1>2, <1>3, ChildFrame DEF IInv, WithChild
<1>10. StopOK'
  <2>1. pc[m + 1] \notin Ending
    BY <1>1 DEF IInv, StopOK, Passed
  <2>2. \A k \in Modules : pc[k] \in Passed => pc'[k] \in Passed
    BY <1>1, <1>2 DEF Passed
  <2> SUFFICES ASSUME NEW n \in Receivers
               PROVE  /\ cmd'[n] = "STOP" => \A k \in 0..(n - 1) : pc'[k] \in Passed
                      /\ pc'[n] \in Ending => cmd'[n] = "STOP" /\ newCmd'[n] = 0
    BY DEF StopOK
  <2>3. CASE n = m + 1
    BY <1>1, <1>2, <1>4, <2>1, <2>3
  <2>4. CASE n # m + 1
    <3>1. pc'[n] \in Ending => pc[n] \in Ending
      BY <1>1, <1>2 DEF Ending, Passed
    <3>2. cmd'[n] = cmd[n] /\ newCmd'[n] = newCmd[n]
      BY <1>4, <2>4
    <3>3. ASSUME cmd[n] = "STOP", NEW k \in 0..(n - 1)
          PROVE  pc'[k] \in Passed
      <4>1. k \in Modules /\ pc[k] \in Passed
        BY <3>3 DEF IInv, StopOK
      <4> QED BY <2>2, <4>1
    <3> QED BY <3>1, <3>2, <3>3 DEF IInv, StopOK
  <2> QED BY <2>3, <2>4
<1> QED BY <1>2, <1>5, <1>6, <1>7, <1>8, <1>9, <1>10 DEF IInv

\* A thread passes STOP on.
LEMMA PassStopStep ==
    ASSUME IInv, NEW m \in 0..(Last - 1), PassStop(m)
    PROVE  IInv'
<1> USE FlowAssumption DEF Modules, Receivers
<1>1. /\ m \in Modules /\ m + 1 \in Receivers /\ (m + 1) - 1 = m /\ m # Last
      /\ pc[m] = "stopwrite"
      /\ UNCHANGED <<local, result, dataoffset, semJob, semResult, procCmd, procOffs,
                     procResult, child, ring, plState>>
  BY DEF PassStop, process
<1>2. /\ pc' \in [Modules -> Places]
      /\ pc'[m] \in {"stopchild", "done"}
      /\ \A n \in Modules : n # m => pc'[n] = pc[n]
      /\ PlacesOK'
  BY <1>1, GotoEffect DEF IInv, PassStop, EndThread, PlacesOf, Places, FirstOnly
<1>3. state' \in {"INIT", "PAUSE", "LIVE", "STOP"}
  BY DEF IInv, TypeOK, PassStop, EndThread
<1>4. /\ cmd' \in [Receivers -> Cmds]
      /\ cmd'[m + 1] = "STOP"
      /\ newCmd' \in [Receivers -> Nat]
      /\ newCmd'[m + 1] = newCmd[m + 1] + 1
      /\ \A n \in Receivers : n # m + 1 => cmd'[n] = cmd[n] /\ newCmd'[n] = newCmd[n]
  <2>1. /\ cmd \in [Receivers -> Cmds] /\ cmd' = [cmd EXCEPT ![m + 1] = "STOP"]
        /\ newCmd \in [Receivers -> Nat] /\ newCmd' = [newCmd EXCEPT ![m + 1] = @ + 1]
    BY DEF IInv, TypeOK, PassStop
  <2> QED BY <1>1, <2>1 DEF Cmds
<1>5. TypeOK'
  BY <1>1, <1>2, <1>3, <1>4 DEF IInv, TypeOK
<1>6. LocalOK'
  BY <1>1, <1>2, LocalFrame DEF IInv, Holding
<1>7. MailOK'
  <2> SUFFICES ASSUME NEW n \in Receivers,
                      cmd'[n] = "JOB" /\ (newCmd'[n] > 0 \/ pc'[n] = "read")
               PROVE  dataoffset'[n] # NoChunk
    BY DEF MailOK
  <2>1. n # m + 1
    BY <1>4
  <2>2. pc'[n] = "read" => pc[n] = "read"
    BY <1>1, <1>2
  <2> QED BY <1>1, <1>4, <2>1, <2>2 DEF IInv, MailOK
<1>8. MailboxHandshake'
  <2>1. /\ result[m + 1] \in Nat /\ newCmd[m + 1] \in Nat /\ m + 1 \in Modules
        /\ result[m + 1] + newCmd[m + 1] + One(pc[m + 1] = "read") + One(pc[m] \in Writing)
             = One(pc[m] # "none")
    BY <1>1, MailboxAt DEF IInv
  <2>2. pc'[m + 1] = pc[m + 1] /\ result'[m + 1] = result[m + 1]
    BY <1>1, <1>2, <2>1
  <2>3. pc[m] \in Writing /\ pc'[m] \notin Writing /\ pc[m] # "none" /\ pc'[m] # "none"
    BY <1>1, <1>2 DEF Writing
  <2>4. result'[m + 1] + newCmd'[m + 1] + One(pc'[m + 1] = "read") + One(pc'[(m + 1) - 1] \in Writing)
            = One(pc'[(m + 1) - 1] # "none")
    BY <1>1, <1>4, <2>1, <2>2, <2>3 DEF One
  <2>5. ASSUME NEW n \in Receivers, n # m + 1
        PROVE  /\ result'[n] = result[n] /\ newCmd'[n] = newCmd[n]
               /\ pc'[n] = "read" <=> pc[n] = "read"
               /\ pc'[n - 1] \in Writing <=> pc[n - 1] \in Writing
               /\ pc'[n - 1] = "none" <=> pc[n - 1] = "none"
    <3>1. n \in Modules /\ n - 1 \in Modules /\ n - 1 # m
      BY <2>5
    <3>2. /\ pc'[n - 1] = pc[n - 1] /\ result'[n] = result[n] /\ newCmd'[n] = newCmd[n]
          /\ pc'[n] = "read" <=> pc[n] = "read"
      BY <1>1, <1>2, <1>4, <2>5, <3>1
    <3> QED BY <3>2
  <2> QED BY <1>1, <2>4, <2>5, MailboxMove DEF IInv
<1>9. ChildHandshake'
  BY <1>1, <1>2, ChildFrame DEF IInv, WithChild
<1>10. StopOK'
  <2>1. pc[m + 1] \notin Ending
    BY <1>1 DEF IInv, StopOK, Passed
  <2>2. \A k \in Modules : pc[k] \in Passed => pc'[k] \in Passed
    BY <1>2 DEF Passed
  <2>3. \A k \in 0..m : pc'[k] \in Passed
    <3>1. pc'[m] \in Passed
      BY <1>2 DEF Passed
    <3>2. m > 0 => cmd[m] = "STOP"
      BY <1>1 DEF IInv, StopOK, Ending
    <3>3. ASSUME NEW k \in 0..(m - 1)
          PROVE  pc'[k] \in Passed
      BY <2>2, <3>2 DEF IInv, StopOK
    <3> QED BY <3>1, <3>3
  <2> SUFFICES ASSUME NEW n \in Receivers
               PROVE  /\ cmd'[n] = "STOP" => \A k \in 0..(n - 1) : pc'[k] \in Passed
                      /\ pc'[n] \in Ending => cmd'[n] = "STOP" /\ newCmd'[n] = 0
    BY DEF StopOK
  <2>4. CASE n = m + 1
    BY <1>1, <1>2, <1>4, <2>1, <2>3, <2>4
  <2>5. CASE n # m + 1
    <3>1. pc'[n] \in Ending => pc[n] \in Ending
      BY <1>1, <1>2 DEF Ending
    <3> QED BY <1>4, <2>2, <2>5, <3>1 DEF IInv, StopOK
  <2> QED BY <2>4, <2>5
<1> QED BY <1>2, <1>5, <1>6, <1>7, <1>8, <1>9, <1>10 DEF IInv

\* A thread tells its child to stop.
LEMMA StopChildStep ==
    ASSUME IInv, NEW m \in 0..(Last - 1), StopChild(m)
    PROVE  IInv'
<1> USE FlowAssumption DEF Modules, Receivers
<1>1. /\ m \in Modules /\ m # Last
      /\ pc[m] = "stopchild"
      /\ UNCHANGED <<local, newCmd, result, cmd, dataoffset, semResult, procOffs, procResult,
                     child, ring, state, plState>>
  BY DEF StopChild, mailbox, control
<1>2. /\ pc' \in [Modules -> Places]
      /\ pc'[m] = "stopwait"
      /\ \A n \in Modules : n # m => pc'[n] = pc[n]
      /\ PlacesOK'
  BY <1>1, GotoEffect DEF IInv, StopChild, PlacesOf, Places, FirstOnly
<1>3. /\ semJob' \in [Modules -> Nat]
      /\ semJob'[m] = semJob[m] + 1
      /\ procCmd' \in [Modules -> Cmds]
      /\ procCmd'[m] = "STOP"
      /\ \A n \in Modules : n # m => semJob'[n] = semJob[n] /\ procCmd'[n] = procCmd[n]
  <2>1. /\ semJob \in [Modules -> Nat] /\ semJob' = [semJob EXCEPT ![m] = @ + 1]
        /\ procCmd \in [Modules -> Cmds] /\ procCmd' = [procCmd EXCEPT ![m] = "STOP"]
    BY DEF IInv, TypeOK, StopChild
  <2> QED BY <1>1, <2>1 DEF Cmds
<1>4. TypeOK'
  BY <1>1, <1>2, <1>3 DEF IInv, TypeOK
<1>5. LocalOK'
  BY <1>1, <1>2, LocalFrame DEF IInv, Holding
<1>6. MailOK'
  BY <1>1, <1>2, MailFrame DEF IInv
<1>7. MailboxHandshake'
  BY <1>1, <1>2, MailboxFrame DEF IInv, Writing
<1>8. ChildHandshake'
  <2>1. m \in WithChild =>
            /\ semJob'[m] + semResult'[m] + One(child'[m] = "work")
                 = One(pc'[m] \in {"busy", "stopwait"})
            /\ pc'[m] = "busy" => procCmd'[m] = "JOB" /\ procOffs'[m] = local'[m]
            /\ pc'[m] = "stopwait" => procCmd'[m] = "STOP"
    <3> SUFFICES ASSUME m \in WithChild
                 PROVE  semJob'[m] + semResult'[m] + One(child'[m] = "work")
                          = One(pc'[m] \in {"busy", "stopwait"})
      BY <1>2, <1>3
    <3>1. /\ semJob[m] \in Nat /\ semResult[m] \in Nat
          /\ semJob[m] + semResult[m] + One(child[m] = "work") = One(pc[m] \in {"busy", "stopwait"})
      BY ChildAt DEF IInv
    <3> QED BY <1>1, <1>2, <1>3, <3>1 DEF One
  <2>2. \A n \in WithChild : n # m =>
            /\ semJob'[n] = semJob[n] /\ semResult'[n] = semResult[n]
            /\ procCmd'[n] = procCmd[n] /\ procOffs'[n] = procOffs[n]
            /\ child'[n] = child[n] /\ pc'[n] = pc[n] /\ local'[n] = local[n]
    BY <1>1, <1>2, <1>3 DEF WithChild
  <2> QED BY <1>1, <2>1, <2>2, ChildMove DEF IInv
<1>9. StopOK'
  <2>1. \A k \in Modules : pc[k] \in Passed => pc'[k] \in Passed
    BY <1>2 DEF Passed
  <2>2. \A n \in Receivers : pc'[n] \in Ending => pc[n] \in Ending
    BY <1>1, <1>2 DEF Ending, Passed
  <2> QED BY <1>1, <2>1, <2>2, StopFrame DEF IInv
<1> QED BY <1>2, <1>4, <1>5, <1>6, <1>7, <1>8, <1>9 DEF IInv

\* The child has answered the STOP: the thread ends.
LEMMA ChildStoppedStep ==
    ASSUME IInv, NEW m \in 0..(Last - 1), ChildStopped(m)
    PROVE  IInv'
<1> USE FlowAssumption DEF Modules, Receivers
<1>1. /\ m \in Modules /\ m # Last
      /\ pc[m] = "stopwait"
      /\ UNCHANGED <<local, newCmd, result, cmd, dataoffset, semJob, procCmd, procOffs,
                     procResult, child, ring, plState>>
  BY DEF ChildStopped, mailbox
<1>2. /\ pc' \in [Modules -> Places]
      /\ pc'[m] = "done"
      /\ \A n \in Modules : n # m => pc'[n] = pc[n]
      /\ PlacesOK'
  BY <1>1, GotoEffect DEF IInv, ChildStopped, EndThread, PlacesOf, Places, FirstOnly
<1>3. /\ semResult' \in [Modules -> Nat]
      /\ semResult[m] > 0
      /\ semResult'[m] = semResult[m] - 1
      /\ \A n \in Modules : n # m => semResult'[n] = semResult[n]
  <2>1. /\ semResult \in [Modules -> Nat]
        /\ semResult[m] > 0
        /\ semResult' = [semResult EXCEPT ![m] = @ - 1]
    BY DEF IInv, TypeOK, ChildStopped
  <2> QED BY <1>1, <2>1
<1>4. state' \in {"INIT", "PAUSE", "LIVE", "STOP"}
  BY DEF IInv, TypeOK, ChildStopped, EndThread
<1>5. TypeOK'
  BY <1>1, <1>2, <1>3, <1>4 DEF IInv, TypeOK
<1>6. LocalOK'
  BY <1>1, <1>2, LocalFrame DEF IInv, Holding
<1>7. MailOK'
  BY <1>1, <1>2, MailFrame DEF IInv
<1>8. MailboxHandshake'
  BY <1>1, <1>2, MailboxFrame DEF IInv, Writing
<1>9. ChildHandshake'
  <2>1. m \in WithChild =>
            /\ semJob'[m] + semResult'[m] + One(child'[m] = "work")
                 = One(pc'[m] \in {"busy", "stopwait"})
            /\ pc'[m] = "busy" => procCmd'[m] = "JOB" /\ procOffs'[m] = local'[m]
            /\ pc'[m] = "stopwait" => procCmd'[m] = "STOP"
    <3> SUFFICES ASSUME m \in WithChild
                 PROVE  semJob'[m] + semResult'[m] + One(child'[m] = "work")
                          = One(pc'[m] \in {"busy", "stopwait"})
      BY <1>2
    <3>1. /\ semJob[m] \in Nat /\ semResult[m] \in Nat
          /\ semJob[m] + semResult[m] + One(child[m] = "work") = One(pc[m] \in {"busy", "stopwait"})
      BY ChildAt DEF IInv
    <3>2. /\ pc'[m] \notin {"busy", "stopwait"} /\ pc[m] = "stopwait"
          /\ semJob'[m] = semJob[m] /\ child'[m] = child[m]
          /\ semResult'[m] = semResult[m] - 1 /\ semResult[m] > 0
      BY <1>1, <1>2, <1>3
    <3> QED BY <3>1, <3>2 DEF One
  <2>2. \A n \in WithChild : n # m =>
            /\ semJob'[n] = semJob[n] /\ semResult'[n] = semResult[n]
            /\ procCmd'[n] = procCmd[n] /\ procOffs'[n] = procOffs[n]
            /\ child'[n] = child[n] /\ pc'[n] = pc[n] /\ local'[n] = local[n]
    BY <1>1, <1>2, <1>3 DEF WithChild
  <2> QED BY <1>1, <2>1, <2>2, ChildMove DEF IInv
<1>10. StopOK'
  <2>1. \A k \in Modules : pc[k] \in Passed => pc'[k] \in Passed
    BY <1>2 DEF Passed
  <2>2. \A n \in Receivers : pc'[n] \in Ending => pc[n] \in Ending
    BY <1>1, <1>2 DEF Ending, Passed
  <2> QED BY <1>1, <2>1, <2>2, StopFrame DEF IInv
<1> QED BY <1>2, <1>5, <1>6, <1>7, <1>8, <1>9, <1>10 DEF IInv

\* The child takes its job out of the semaphore.
LEMMA ChildTakeStep ==
    ASSUME IInv, NEW m \in WithChild, ChildTake(m)
    PROVE  IInv'
<1> USE FlowAssumption DEF Modules, Receivers
<1>1. /\ m \in Modules
      /\ UNCHANGED <<pc, local, newCmd, result, cmd, dataoffset, semResult, procCmd, procOffs,
                     procResult, ring, state, plState>>
  BY DEF ChildTake, WithChild, mailbox, control
<1>2. /\ semJob' \in [Modules -> Nat]
      /\ semJob[m] > 0
      /\ semJob'[m] = semJob[m] - 1
      /\ child[m] = "idle"
      /\ child'[m] = "work"
      /\ child' \in [Modules -> {"none", "idle", "work", "exited"}]
      /\ \A n \in Modules : n # m => semJob'[n] = semJob[n] /\ child'[n] = child[n]
  <2>1. /\ semJob \in [Modules -> Nat]
        /\ child \in [Modules -> {"none", "idle", "work", "exited"}]
    BY DEF IInv, TypeOK
  <2> QED BY <1>1, <2>1 DEF ChildTake
<1>3. TypeOK'
  BY <1>1, <1>2 DEF IInv, TypeOK
<1>4. PlacesOK' /\ LocalOK' /\ MailOK' /\ MailboxHandshake' /\ StopOK'
  BY <1>1 DEF IInv, PlacesOK, LocalOK, MailOK, MailboxHandshake, StopOK, One
<1>5. ChildHandshake'
  <2>1. /\ semJob[m] \in Nat /\ semResult[m] \in Nat
        /\ semJob[m] + semResult[m] + One(child[m] = "work") = One(pc[m] \in {"busy", "stopwait"})
        /\ pc[m] = "busy" => procCmd[m] = "JOB" /\ procOffs[m] = local[m]
        /\ pc[m] = "stopwait" => procCmd[m] = "STOP"
    BY ChildAt DEF IInv
  <2>2. semJob'[m] + semResult'[m] + One(child'[m] = "work") = One(pc'[m] \in {"busy", "stopwait"})
    BY <1>1, <1>2, <2>1 DEF One
  <2>3. \A n \in WithChild : n # m =>
            /\ semJob'[n] = semJob[n] /\ semResult'[n] = semResult[n]
            /\ procCmd'[n] = procCmd[n] /\ procOffs'[n] = procOffs[n]
            /\ child'[n] = child[n] /\ pc'[n] = pc[n] /\ local'[n] = local[n]
    BY <1>1, <1>2 DEF WithChild
  <2> QED BY <1>1, <2>1, <2>2, <2>3, ChildMove DEF IInv
<1> QED BY <1>3, <1>4, <1>5 DEF IInv

\* The child answers.
LEMMA ChildAnswerStep ==
    ASSUME IInv, NEW m \in WithChild, ChildAnswer(m)
    PROVE  IInv'
<1> USE FlowAssumption DEF Modules, Receivers
<1>1. /\ m \in Modules
      /\ UNCHANGED <<pc, local, newCmd, result, cmd, dataoffset, semJob, procCmd, procOffs,
                     ring, state, plState>>
  BY DEF ChildAnswer, WithChild, mailbox, control
<1>2. PICK answer \in {"ok", "skip"} : procResult' = [procResult EXCEPT ![m] = answer]
  BY DEF ChildAnswer
<1>3. PICK next \in {"idle", "exited"} : child' = [child EXCEPT ![m] = next]
  BY DEF ChildAnswer
<1>4. /\ semResult' \in [Modules -> Nat]
      /\ semResult'[m] = semResult[m] + 1
      /\ child[m] = "work"
      /\ child'[m] # "work"
      /\ child' \in [Modules -> {"none", "idle", "work", "exited"}]
      /\ procResult' \in [Modules -> {"ok", "skip"}]
      /\ \A n \in Modules : n # m => semResult'[n] = semResult[n] /\ child'[n] = child[n]
  <2>1. /\ semResult \in [Modules -> Nat]
        /\ child \in [Modules -> {"none", "idle", "work", "exited"}]
        /\ procResult \in [Modules -> {"ok", "skip"}]
        /\ semResult' = [semResult EXCEPT ![m] = @ + 1]
        /\ child[m] = "work"
    BY DEF IInv, TypeOK, ChildAnswer
  <2> QED BY <1>1, <1>2, <1>3, <2>1
<1>5. TypeOK'
  BY <1>1, <1>4 DEF IInv, TypeOK
<1>6. PlacesOK' /\ LocalOK' /\ MailOK' /\ MailboxHandshake' /\ StopOK'
  BY <1>1 DEF IInv, PlacesOK, LocalOK, MailOK, MailboxHandshake, StopOK, One
<1>7. ChildHandshake'
  <2>1. /\ semJob[m] \in Nat /\ semResult[m] \in Nat
        /\ semJob[m] + semResult[m] + One(child[m] = "work") = One(pc[m] \in {"busy", "stopwait"})
        /\ pc[m] = "busy" => procCmd[m] = "JOB" /\ procOffs[m] = local[m]
        /\ pc[m] = "stopwait" => procCmd[m] = "STOP"
    BY ChildAt DEF IInv
  <2>2. semJob'[m] + semResult'[m] + One(child'[m] = "work") = One(pc'[m] \in {"busy", "stopwait"})
    BY <1>1, <1>4, <2>1 DEF One
  <2>3. \A n \in WithChild : n # m =>
            /\ semJob'[n] = semJob[n] /\ semResult'[n] = semResult[n]
            /\ procCmd'[n] = procCmd[n] /\ procOffs'[n] = procOffs[n]
            /\ child'[n] = child[n] /\ pc'[n] = pc[n] /\ local'[n] = local[n]
    BY <1>1, <1>4 DEF WithChild
  <2> QED BY <1>1, <2>1, <2>2, <2>3, ChildMove DEF IInv
<1> QED BY <1>5, <1>6, <1>7 DEF IInv

\* The owner's calls change the states only.
LEMMA OwnerStep ==
    ASSUME IInv, Owner
    PROVE  IInv'
<1>1. UNCHANGED <<pc, local, newCmd, result, cmd, dataoffset, semJob, semResult, procCmd,
                  procOffs, procResult, child, ring>>
  BY DEF Owner, mailbox, process
<1>2. /\ state' \in {"INIT", "PAUSE", "LIVE", "STOP"}
      /\ plState' \in {"ERROR", "INIT", "PAUSE", "LIVE", "STOP"}
  BY DEF Owner, Start, Live, Pause, Stop, SetStates
<1>3. TypeOK'
  BY <1>1, <1>2 DEF IInv, TypeOK
<1>4. PlacesOK' /\ LocalOK' /\ MailOK' /\ MailboxHandshake' /\ ChildHandshake' /\ StopOK'
  BY <1>1 DEF IInv, PlacesOK, LocalOK, MailOK, MailboxHandshake, ChildHandshake, StopOK, One
<1> QED BY <1>3, <1>4 DEF IInv

-----------------------------------------------------------------------------
(* The invariant holds in every state. *)

LEMMA InitInv ==
    ASSUME Init
    PROVE  IInv
<1> USE FlowAssumption DEF Modules, Receivers
<1>1. PICK started \in 1..(Last + 1) \ {Last} : InitStarted(started)
  BY DEF Init
<1>2. PICK first \in {"loop", "state"} :
          pc = [m \in Modules |-> IF m >= started THEN "none"
                                  ELSE IF m = 0 THEN first ELSE "wait"]
  BY <1>1 DEF InitStarted
<1>3. /\ result = [m \in Receivers |-> IF m <= started THEN 1 ELSE 0]
      /\ child = [m \in Modules |-> IF m \in WithChild /\ m < started THEN "idle" ELSE "none"]
      /\ plState \in {"INIT", "ERROR"}
  BY <1>1 DEF InitStarted
<1>4. TypeOK
  <2>1. pc \in [Modules -> Places]
    BY <1>2 DEF Places, FirstOnly
  <2>2. ring \in Seq(Chunks)
    BY DEF Init, Chunks
  <2>3. result \in [Receivers -> Nat] /\ child \in [Modules -> {"none", "idle", "work", "exited"}]
    BY <1>3
  <2> QED BY <1>3, <2>1, <2>2, <2>3 DEF Init, TypeOK, Cmds
<1>5. PlacesOK
  BY <1>2 DEF PlacesOK, PlacesOf, Places, FirstOnly
<1>6. LocalOK
  BY <1>2 DEF Init, LocalOK, Holding
<1>7. MailOK
  BY <1>2 DEF Init, MailOK
<1>8. MailboxHandshake
  <2> SUFFICES ASSUME NEW n \in Receivers
               PROVE  result[n] + newCmd[n] + One(pc[n] = "read") + One(pc[n - 1] \in Writing)
                        = One(pc[n - 1] # "none")
    BY DEF MailboxHandshake
  <2>1. newCmd[n] = 0 /\ pc[n] # "read" /\ pc[n - 1] \notin Writing
    BY <1>2 DEF Init, Writing
  <2>2. pc[n - 1] = "none" <=> n > started
    BY <1>2
  <2>3. result[n] = IF n > started THEN 0 ELSE 1
    BY <1>3
  <2> QED BY <2>1, <2>2, <2>3 DEF One
<1>9. ChildHandshake
  <2> SUFFICES ASSUME NEW n \in WithChild
               PROVE  /\ semJob[n] + semResult[n] + One(child[n] = "work")
                            = One(pc[n] \in {"busy", "stopwait"})
                      /\ pc[n] \notin {"busy", "stopwait"}
    BY DEF ChildHandshake
  <2>1. n \in Modules
    BY DEF WithChild
  <2>2. semJob[n] = 0 /\ semResult[n] = 0 /\ child[n] # "work" /\ pc[n] \notin {"busy", "stopwait"}
    BY <1>2, <1>3, <2>1 DEF Init
  <2> QED BY <2>2 DEF One
<1>10. StopOK
  BY <1>2 DEF Init, StopOK, Ending, Passed
<1> QED BY <1>4, <1>5, <1>6, <1>7, <1>8, <1>9, <1>10 DEF IInv

LEMMA NextInv ==
    ASSUME IInv, [Next]_vars
    PROVE  IInv'
<1>1. CASE UNCHANGED vars
  BY <1>1 DEF vars, mailbox, process, control, IInv, TypeOK, PlacesOK, LocalOK, MailOK,
     MailboxHandshake, ChildHandshake, StopOK, One
<1>2. ASSUME NEW m \in Modules, Thread(m)
      PROVE  IInv'
  <2>1. CASE m = 0 /\ First
    BY <2>1, PollStep, CaptureStep DEF First
  <2>2. CASE m \in Receivers /\ (WaitCmd(m) \/ ReadCmd(m))
    BY <2>2, WaitCmdStep, ReadCmdStep
  <2>3. CASE m = Last /\ FreeChunk
    BY <2>3, FreeChunkStep
  <2>4. CASE m < Last /\ \/ GiveJob(m) \/ TakeBack(m)
                         \/ WaitNext(m) \/ PassChunk(m) \/ PassStop(m)
                         \/ StopChild(m) \/ ChildStopped(m)
    <3>1. m \in 0..(Last - 1)
      <4>1. m < Last
        BY <2>4
      <4> QED BY <4>1, FlowAssumption DEF Modules
    <3>2. CASE GiveJob(m) \/ TakeBack(m)
      BY <3>1, <3>2, GiveJobStep, TakeBackStep
    <3>3. CASE WaitNext(m) \/ PassChunk(m) \/ PassStop(m)
      BY <3>1, <3>3, WaitNextStep, PassChunkStep, PassStopStep
    <3>4. CASE StopChild(m) \/ ChildStopped(m)
      BY <3>1, <3>4, StopChildStep, ChildStoppedStep
    <3> QED BY <2>4, <3>2, <3>3, <3>4
  <2> QED BY <1>2, <2>1, <2>2, <2>3, <2>4 DEF Thread
<1>3. ASSUME NEW m \in WithChild, Child(m)
      PROVE  IInv'
  BY <1>3, ChildTakeStep, ChildAnswerStep DEF Child
<1> QED BY <1>1, <1>2, <1>3, OwnerStep DEF Next

\* The inductive invariant is an invariant.
THEOREM Invariant == Spec => []IInv
<1>1. Init => IInv
  BY InitInv
<1>2. IInv /\ [Next]_vars => IInv'
  BY NextInv
<1> QED BY <1>1, <1>2, PTL DEF Spec

\* Every variable keeps its range (the semaphores stay natural numbers).
THEOREM TypeCorrect == Spec => []TypeOK
<1>1. IInv => TypeOK
  BY DEF IInv
<1> QED BY <1>1, Invariant, PTL

\* A mailbox is unread, read, being read or being written, and only one of these.
THEOREM MailboxesHandshake == Spec => []MailboxHandshake
<1>1. IInv => MailboxHandshake
  BY DEF IInv
<1> QED BY <1>1, Invariant, PTL

\* A child has a job only while its thread waits, and the job its thread means.
THEOREM ChildrenHandshake == Spec => []ChildHandshake
<1>1. IInv => ChildHandshake
  BY DEF IInv
<1> QED BY <1>1, Invariant, PTL

\* A thread that ended leaves no chunk behind it.
THEOREM StopDrains == Spec => []StopDrainsBehind
<1>1. IInv => StopDrainsBehind
  <2> SUFFICES ASSUME IInv, NEW m \in Modules, pc[m] = "done"
               PROVE  /\ \A k \in 0..m : local[k] = NoChunk
                      /\ \A k \in 1..m : Mail[k] = NoChunk
    BY DEF StopDrainsBehind
  <2> USE FlowAssumption DEF Modules, Receivers
  <2>1. m > 0 => cmd[m] = "STOP" /\ \A k \in 0..(m - 1) : pc[k] \in Passed
    BY DEF IInv, StopOK, Ending, Passed
  <2>2. ASSUME NEW k \in 0..m
        PROVE  pc[k] \in Passed /\ k \in Modules
    BY <2>1 DEF Passed
  <2>3. ASSUME NEW k \in 0..m
        PROVE  local[k] = NoChunk
    BY <2>2 DEF IInv, LocalOK, Passed, Holding
  <2>4. ASSUME NEW k \in 1..m
        PROVE  Mail[k] = NoChunk
    <3>1. k \in Receivers /\ k \in 0..m
      OBVIOUS
    <3>2. pc[k] \in Ending
      BY <2>2, <3>1 DEF Ending
    <3>3. cmd[k] = "STOP"
      BY <3>1, <3>2 DEF IInv, StopOK
    <3> QED BY <3>1, <3>3 DEF Mail
  <2> QED BY <2>3, <2>4
<1> QED BY <1>1, Invariant, PTL

\* Only the thread before a module writes its mailbox, and not after STOP.
LEMMA StopKept ==
    ASSUME IInv, [Next]_vars, NEW m \in Receivers, cmd[m] = "STOP"
    PROVE  cmd'[m] = "STOP" /\ newCmd'[m] <= newCmd[m]
<1> USE FlowAssumption DEF Modules, Receivers
<1>1. /\ newCmd \in [Receivers -> Nat] /\ newCmd[m] \in Nat
      /\ cmd \in [Receivers -> Cmds]
  BY DEF IInv, TypeOK
<1>2. \A k \in 0..(m - 1) : pc[k] \in Passed
  BY DEF IInv, StopOK
<1>3. CASE UNCHANGED <<cmd, newCmd>>
  BY <1>1, <1>3
<1>4. ASSUME NEW n \in Modules, Thread(n)
      PROVE  cmd'[m] = "STOP" /\ newCmd'[m] <= newCmd[m]
  <2>1. CASE n = 0 /\ First
    BY <1>3, <2>1 DEF First, CheckExit, CheckState, SourceCapture, InitialCapture, mailbox
  <2>2. CASE n \in Receivers /\ WaitCmd(n)
    BY <1>1, <2>2 DEF WaitCmd
  <2>3. CASE n \in Receivers /\ ReadCmd(n)
    BY <1>3, <2>3 DEF ReadCmd
  <2>4. CASE n = Last /\ FreeChunk
    BY <1>3, <2>4 DEF FreeChunk, mailbox
  <2>5. CASE GiveJob(n) \/ TakeBack(n) \/ WaitNext(n) \/ StopChild(n) \/ ChildStopped(n)
    BY <1>3, <2>5 DEF GiveJob, TakeBack, WaitNext, StopChild, ChildStopped, mailbox
  <2>6. CASE PassChunk(n) \/ PassStop(n)
    <3>1. pc[n] \in Writing
      BY <2>6 DEF PassChunk, PassStop, Writing
    <3>2. n + 1 # m
      BY <1>2, <3>1 DEF Writing, Passed
    <3>3. cmd'[m] = cmd[m] /\ newCmd'[m] = newCmd[m]
      BY <1>1, <2>6, <3>2 DEF PassChunk, PassStop
    <3> QED BY <1>1, <3>3
  <2> QED BY <1>4, <2>1, <2>2, <2>3, <2>4, <2>5, <2>6 DEF Thread
<1>5. ASSUME NEW n \in WithChild, Child(n)
      PROVE  UNCHANGED <<cmd, newCmd>>
  BY <1>5 DEF Child, ChildTake, ChildAnswer, mailbox
<1>6. Owner => UNCHANGED <<cmd, newCmd>>
  BY DEF Owner, mailbox
<1>7. UNCHANGED vars => UNCHANGED <<cmd, newCmd>>
  BY DEF vars, mailbox
<1> QED BY <1>3, <1>4, <1>5, <1>6, <1>7 DEF Next

\* STOP is the last command of every mailbox.
THEOREM StopLast == Spec => StopIsLast
<1>1. IInv /\ [Next]_vars =>
          [\A m \in Receivers : cmd[m] = "STOP" => cmd'[m] = "STOP" /\ newCmd'[m] <= newCmd[m]]_vars
  BY StopKept
<1> QED BY <1>1, Invariant, PTL DEF Spec, StopIsLast

-----------------------------------------------------------------------------
(* The pipeline implements the belt. *)

\* A step that neither fills nor empties a mailbox.
LEMMA MailSame ==
    ASSUME UNCHANGED <<cmd, dataoffset>>,
           \A n \in Receivers : (newCmd'[n] > 0 \/ pc'[n] = "read") <=> (newCmd[n] > 0 \/ pc[n] = "read")
    PROVE  Mail' = Mail
  BY DEF Mail

\* Steps of the first thread.
LEMMA FirstRefines ==
    ASSUME IInv, First
    PROVE  [Abstract!Next]_Abstract!vars
<1> USE FlowAssumption DEF Modules, Receivers
<1>1. CASE CheckExit \/ CheckState
  <2>1. UNCHANGED <<local, newCmd, cmd, dataoffset, ring>>
    BY <1>1 DEF CheckExit, CheckState, mailbox
  <2>2. \A n \in Receivers : pc'[n] = pc[n]
    <3>1. \E place : Goto(0, place)
      BY <1>1 DEF CheckExit, CheckState
    <3>2. \A n \in Receivers : n \in Modules /\ n # 0
      OBVIOUS
    <3> QED BY <3>1, <3>2 DEF Goto, IInv, TypeOK
  <2>3. Mail' = Mail
    BY <2>1, <2>2, MailSame
  <2> QED BY <2>1, <2>3 DEF Abstract!vars
<1>2. CASE SourceCapture \/ InitialCapture
  <2>1. /\ UNCHANGED <<newCmd, cmd, dataoffset>>
        /\ pc[0] = "pop" /\ ring # <<>>
        /\ local' = [local EXCEPT ![0] = Head(ring)]
        /\ ring' = Tail(ring)
    BY <1>2 DEF SourceCapture, InitialCapture, PopChunk, mailbox
  <2>2. \A n \in Receivers : pc'[n] = pc[n]
    <3>1. \E place : Goto(0, place)
      BY <1>2 DEF SourceCapture, InitialCapture
    <3>2. \A n \in Receivers : n \in Modules /\ n # 0
      OBVIOUS
    <3> QED BY <3>1, <3>2 DEF Goto, IInv, TypeOK
  <2>3. Mail' = Mail
    BY <2>1, <2>2, MailSame
  <2>4. local[0] = NoChunk
    BY <2>1 DEF IInv, LocalOK, Holding
  <2>5. Abstract!Take
    BY <2>1, <2>3, <2>4 DEF Abstract!Take, Abstract!NoChunk, NoChunk
  <2> QED BY <2>5 DEF Abstract!Next
<1> QED BY <1>1, <1>2 DEF First

\* Steps that receive a command or free a chunk.
LEMMA ReceiverRefines ==
    ASSUME IInv, NEW m \in Receivers, WaitCmd(m) \/ ReadCmd(m) \/ (m = Last /\ FreeChunk)
    PROVE  [Abstract!Next]_Abstract!vars
<1> USE FlowAssumption DEF Modules, Receivers
<1>1. CASE WaitCmd(m)
  <2>1. /\ UNCHANGED <<local, cmd, dataoffset, ring>>
        /\ newCmd[m] > 0
    BY <1>1 DEF WaitCmd
  <2>2. /\ pc'[m] = "read"
        /\ \A n \in Receivers : n # m => pc'[n] = pc[n] /\ newCmd'[n] = newCmd[n]
    BY <1>1 DEF WaitCmd, Goto, IInv, TypeOK
  <2>3. Mail' = Mail
    BY <2>1, <2>2, MailSame
  <2> QED BY <2>1, <2>3 DEF Abstract!vars
<1>2. CASE ReadCmd(m)
  <2>1. /\ pc[m] = "read" /\ m \in Modules
        /\ UNCHANGED <<newCmd, cmd, dataoffset, ring>>
    BY <1>2 DEF ReadCmd
  <2>2. /\ pc'[m] # "read"
        /\ \A n \in Receivers : n # m => pc'[n] = pc[n]
    <3>1. PICK place \in {"done", "stopacquire", "free", "job"} : pc' = [pc EXCEPT ![m] = place]
      BY <1>2 DEF ReadCmd, Goto
    <3> QED BY <2>1, <3>1 DEF IInv, TypeOK
  <2>3. newCmd[m] = 0
    BY <2>1, MailboxAt DEF IInv, One
  <2>4. CASE cmd[m] = "STOP"
    <3>1. local' = local
      BY <1>2, <2>4 DEF ReadCmd
    <3>2. Mail' = Mail
      BY <2>1, <2>2, <2>4 DEF Mail
    <3> QED BY <2>1, <3>1, <3>2 DEF Abstract!vars
  <2>5. CASE cmd[m] = "JOB"
    <3>1. local' = [local EXCEPT ![m] = dataoffset[m]]
      BY <1>2, <2>5 DEF ReadCmd
    <3>2. Mail[m] = dataoffset[m] /\ Mail[m] # NoChunk
      BY <2>1, <2>5 DEF Mail, IInv, MailOK
    <3>3. local[m] = NoChunk
      BY <2>1 DEF IInv, LocalOK, Holding
    <3>4. Mail' = [Mail EXCEPT ![m] = NoChunk]
      <4>1. Mail'[m] = NoChunk
        BY <2>1, <2>2, <2>3 DEF Mail
      <4>2. \A n \in Receivers : n # m => Mail'[n] = Mail[n]
        BY <2>1, <2>2 DEF Mail
      <4> QED BY <4>1, <4>2 DEF Mail
    <3>5. Abstract!Receive(m)
      BY <2>1, <3>1, <3>2, <3>3, <3>4 DEF Abstract!Receive, Abstract!NoChunk, NoChunk
    <3> QED BY <3>5 DEF Abstract!Next
  <2> QED BY <1>2, <2>4, <2>5 DEF ReadCmd
<1>3. CASE m = Last /\ FreeChunk
  <2>1. /\ pc[m] = "free" /\ m \in Modules
        /\ UNCHANGED <<newCmd, cmd, dataoffset>>
        /\ ring' = Append(ring, local[m])
        /\ local' = [local EXCEPT ![m] = NoChunk]
    BY <1>3 DEF FreeChunk, mailbox
  <2>2. /\ pc'[m] = "wait"
        /\ \A n \in Receivers : n # m => pc'[n] = pc[n]
    BY <1>3 DEF FreeChunk, Goto, IInv, TypeOK
  <2>3. Mail' = Mail
    BY <2>1, <2>2, MailSame
  <2>4. local[m] # NoChunk
    BY <2>1 DEF IInv, LocalOK, Holding
  <2>5. Abstract!GiveBack(m)
    BY <2>1, <2>3, <2>4 DEF Abstract!GiveBack, Abstract!NoChunk, NoChunk
  <2> QED BY <2>5 DEF Abstract!Next
<1> QED BY <1>1, <1>2, <1>3

\* Steps that hand a chunk to the child or the next module.
LEMMA SenderRefines ==
    ASSUME IInv, NEW m \in 0..(Last - 1),
           \/ GiveJob(m) \/ TakeBack(m)
           \/ WaitNext(m) \/ PassChunk(m) \/ PassStop(m)
           \/ StopChild(m) \/ ChildStopped(m)
    PROVE  [Abstract!Next]_Abstract!vars
<1> USE FlowAssumption DEF Modules, Receivers
<1>1. /\ m \in Modules /\ m + 1 \in Receivers /\ m + 1 # m /\ (m + 1) - 1 = m
      /\ pc \in [Modules -> Places]
      /\ pc[m] # "read"
  <2>1. pc[m] # "read"
    BY DEF GiveJob, TakeBack, WaitNext, PassChunk, PassStop, StopChild, ChildStopped
  <2> QED BY <2>1 DEF IInv, TypeOK
<1>2. PICK place \in Places \ {"read"} : pc' = [pc EXCEPT ![m] = place]
  BY DEF GiveJob, TakeBack, WaitNext, PassChunk, PassStop, StopChild, ChildStopped, EndThread,
     Goto, FirstPc, Places, FirstOnly, Writing
<1>3. \A n \in Receivers : pc'[n] = "read" <=> pc[n] = "read"
  BY <1>1, <1>2
<1>4. CASE GiveJob(m) \/ WaitNext(m) \/ StopChild(m) \/ ChildStopped(m)
  <2>1. UNCHANGED <<local, newCmd, cmd, dataoffset, ring>>
    BY <1>4 DEF GiveJob, WaitNext, StopChild, ChildStopped, mailbox
  <2>2. Mail' = Mail
    BY <1>3, <2>1, MailSame
  <2> QED BY <2>1, <2>2 DEF Abstract!vars
<1>5. CASE TakeBack(m)
  <2>1. UNCHANGED <<newCmd, cmd, dataoffset>> /\ pc[m] = "busy"
    BY <1>5 DEF TakeBack, mailbox
  <2>2. Mail' = Mail
    BY <1>3, <2>1, MailSame
  <2>3. local[m] # NoChunk
    BY <1>1, <2>1 DEF IInv, LocalOK, Holding
  <2>4. CASE UNCHANGED <<ring, local>>
    BY <2>2, <2>4 DEF Abstract!vars
  <2>5. CASE m > 0 /\ ring' = Append(ring, local[m]) /\ local' = [local EXCEPT ![m] = NoChunk]
    <3>1. Abstract!GiveBack(m)
      BY <2>2, <2>3, <2>5 DEF Abstract!GiveBack, Abstract!NoChunk, NoChunk
    <3>2. m \in 1..Last
      BY <2>5
    <3> QED BY <3>1, <3>2 DEF Abstract!Next
  <2> QED BY <1>5, <2>4, <2>5 DEF TakeBack
<1>6. CASE PassChunk(m)
  <2>1. /\ pc[m] = "write"
        /\ cmd' = [cmd EXCEPT ![m + 1] = "JOB"]
        /\ dataoffset' = [dataoffset EXCEPT ![m + 1] = local[m]]
        /\ newCmd' = [newCmd EXCEPT ![m + 1] = @ + 1]
        /\ local' = [local EXCEPT ![m] = NoChunk]
        /\ UNCHANGED ring
        /\ cmd \in [Receivers -> Cmds]
        /\ dataoffset \in [Receivers -> Chunks \cup {NoChunk}]
        /\ newCmd \in [Receivers -> Nat]
    BY <1>6 DEF PassChunk, IInv, TypeOK
  <2>2. newCmd[m + 1] = 0 /\ pc[m + 1] # "read"
    <3>1. /\ result[m + 1] \in Nat /\ newCmd[m + 1] \in Nat
          /\ result[m + 1] + newCmd[m + 1] + One(pc[m + 1] = "read") + One(pc[m] \in Writing)
               = One(pc[m] # "none")
      BY <1>1, MailboxAt DEF IInv
    <3>2. One(pc[m] \in Writing) = 1 /\ One(pc[m] # "none") = 1
      BY <2>1 DEF One, Writing
    <3>3. newCmd[m + 1] = 0 /\ One(pc[m + 1] = "read") = 0
      BY <3>1, <3>2 DEF One
    <3> QED BY <3>3 DEF One
  <2>3. Mail[m + 1] = NoChunk /\ Mail'[m + 1] = local[m]
    BY <1>1, <2>1, <2>2 DEF Mail
  <2>4. \A n \in Receivers : n # m + 1 => Mail'[n] = Mail[n]
    BY <1>3, <2>1 DEF Mail
  <2>5. Mail' = [Mail EXCEPT ![m + 1] = local[m]]
    BY <2>3, <2>4 DEF Mail
  <2>6. local[m] # NoChunk
    BY <1>1, <2>1 DEF IInv, LocalOK, Holding
  <2>7. Abstract!Pass(m)
    BY <2>1, <2>3, <2>5, <2>6 DEF Abstract!Pass, Abstract!NoChunk, NoChunk
  <2> QED BY <2>7 DEF Abstract!Next
<1>7. CASE PassStop(m)
  <2>1. /\ pc[m] = "stopwrite"
        /\ cmd' = [cmd EXCEPT ![m + 1] = "STOP"]
        /\ newCmd' = [newCmd EXCEPT ![m + 1] = @ + 1]
        /\ UNCHANGED <<local, dataoffset, ring>>
        /\ cmd \in [Receivers -> Cmds]
        /\ newCmd \in [Receivers -> Nat]
    BY <1>7 DEF PassStop, IInv, TypeOK
  <2>2. newCmd[m + 1] = 0 /\ pc[m + 1] # "read"
    <3>1. /\ result[m + 1] \in Nat /\ newCmd[m + 1] \in Nat
          /\ result[m + 1] + newCmd[m + 1] + One(pc[m + 1] = "read") + One(pc[m] \in Writing)
               = One(pc[m] # "none")
      BY <1>1, MailboxAt DEF IInv
    <3>2. One(pc[m] \in Writing) = 1 /\ One(pc[m] # "none") = 1
      BY <2>1 DEF One, Writing
    <3>3. newCmd[m + 1] = 0 /\ One(pc[m + 1] = "read") = 0
      BY <3>1, <3>2 DEF One
    <3> QED BY <3>3 DEF One
  <2>3. Mail[m + 1] = NoChunk /\ Mail'[m + 1] = NoChunk
    BY <1>1, <2>1, <2>2 DEF Mail
  <2>4. \A n \in Receivers : n # m + 1 => Mail'[n] = Mail[n]
    BY <1>3, <2>1 DEF Mail
  <2>5. Mail' = Mail
    BY <2>3, <2>4 DEF Mail
  <2> QED BY <2>1, <2>5 DEF Abstract!vars
<1> QED BY <1>4, <1>5, <1>6, <1>7

\* Initially every chunk is free.
LEMMA InitRefines ==
    ASSUME Init
    PROVE  Abstract!Init
<1>1. \A m \in Receivers : Mail[m] = NoChunk
  BY DEF Init, Mail
<1>2. Mail = [m \in Receivers |-> NoChunk]
  BY <1>1 DEF Mail
<1> QED BY <1>2 DEF Init, Abstract!Init, Abstract!NoChunk, Abstract!Chunks, NoChunk, Chunks,
           Modules, Receivers

LEMMA NextRefines ==
    ASSUME IInv, [Next]_vars
    PROVE  [Abstract!Next]_Abstract!vars
<1>1. CASE UNCHANGED <<pc, local, mailbox, ring>>
  BY <1>1 DEF Abstract!vars, Mail, mailbox
<1>2. ASSUME NEW m \in Modules, Thread(m)
      PROVE  [Abstract!Next]_Abstract!vars
  <2>1. CASE m = 0 /\ First
    BY <2>1, FirstRefines
  <2>2. CASE m \in Receivers /\ (WaitCmd(m) \/ ReadCmd(m))
    BY <2>2, ReceiverRefines
  <2>3. CASE m = Last /\ FreeChunk
    <3>1. m \in Receivers
      BY <2>3, FlowAssumption DEF Receivers
    <3> QED BY <2>3, <3>1, ReceiverRefines
  <2>4. CASE m < Last /\ \/ GiveJob(m) \/ TakeBack(m)
                         \/ WaitNext(m) \/ PassChunk(m) \/ PassStop(m)
                         \/ StopChild(m) \/ ChildStopped(m)
    <3>1. m < Last
      BY <2>4
    <3>2. m \in 0..(Last - 1)
      BY <3>1, FlowAssumption DEF Modules
    <3> QED BY <2>4, <3>2, SenderRefines
  <2> QED BY <1>2, <2>1, <2>2, <2>3, <2>4 DEF Thread
<1>3. ASSUME NEW m \in WithChild, Child(m)
      PROVE  UNCHANGED <<pc, local, mailbox, ring>>
  BY <1>3 DEF Child, ChildTake, ChildAnswer
<1>4. Owner => UNCHANGED <<pc, local, mailbox, ring>>
  BY DEF Owner
<1>5. UNCHANGED vars => UNCHANGED <<pc, local, mailbox, ring>>
  BY DEF vars
<1> QED BY <1>1, <1>2, <1>3, <1>4, <1>5 DEF Next

\* The pipeline implements the belt: chunks move from module to module in order.
THEOREM Refinement == Spec => ImplementsConveyor
<1>1. Init => Abstract!Init
  BY InitRefines
<1>2. IInv /\ [Next]_vars => [Abstract!Next]_Abstract!vars
  BY NextRefines
<1> QED BY <1>1, <1>2, Invariant, PTL DEF Spec, ImplementsConveyor, Abstract!Spec

\* No chunk is lost and none is in two places, with any number of modules and chunks.
THEOREM Conservation == Spec => []ChunksConserved
<1>1. Abstract!Init => BeltProofs!Init
  BY DEF Abstract!Init, BeltProofs!Init, Abstract!NoChunk, BeltProofs!NoChunk,
     Abstract!Chunks, BeltProofs!Chunks
<1>2. [Abstract!Next]_Abstract!vars => [BeltProofs!Next]_BeltProofs!vars
  BY DEF Abstract!Next, BeltProofs!Next, Abstract!vars, BeltProofs!vars,
     Abstract!Take, BeltProofs!Take, Abstract!Pass, BeltProofs!Pass,
     Abstract!Receive, BeltProofs!Receive, Abstract!GiveBack, BeltProofs!GiveBack,
     Abstract!NoChunk, BeltProofs!NoChunk
<1>3. BeltProofs!Conserved => ChunksConserved
  BY DEF ChunksConserved, Abstract!Conserved, Abstract!NoneTwice, Abstract!NoneLost,
     BeltProofs!Conserved, BeltProofs!NoneTwice, BeltProofs!NoneLost,
     Abstract!NoChunk, BeltProofs!NoChunk, Abstract!Chunks, BeltProofs!Chunks
<1>4. BeltProofs!Spec => []BeltProofs!Conserved
  BY BeltProofs!BeltConserves, FlowAssumption
<1> QED BY <1>1, <1>2, <1>3, <1>4, Refinement, PTL
        DEF ImplementsConveyor, Abstract!Spec, BeltProofs!Spec

-----------------------------------------------------------------------------
(* Nobody is stuck.  Of the threads that wait for the next module the last *)
(* one cannot be blocked, and so with the threads that wait for a child;   *)
(* what is left rests, and STOP, once passed, is on its way to the first   *)
(* of those that have not ended.                                           *)

\* Once the last module runs all do, and a module that runs has its child.
StartedOK ==
    /\ AllStarted => \A m \in Modules : pc[m] # "none"
    /\ \A m \in WithChild : pc[m] # "none" => child[m] # "none"

\* STOP that was passed is in the mailbox, being read, or has been obeyed.
StopArrives ==
    \A m \in Receivers : pc[m - 1] \in Passed =>
        cmd[m] = "STOP" /\ (newCmd[m] > 0 \/ pc[m] = "read" \/ pc[m] \in Ending)

\* What a step of a thread does to the places and the mailboxes.
LEMMA ThreadMoves ==
    ASSUME IInv, NEW n \in Modules, Thread(n)
    PROVE  /\ UNCHANGED child
           /\ pc[n] # "none" /\ pc'[n] # "none"
           /\ \A k \in Modules : k # n => pc'[k] = pc[k]
           /\ \A k \in Receivers : newCmd[k] > 0 /\ pc'[k] # "read" => newCmd'[k] > 0
           /\ pc[n] \in Ending => pc'[n] \in Ending
           /\ pc[n] = "read" => ReadCmd(n) /\ n \in Receivers
           /\ pc'[n] \in Passed => pc[n] \in Passed \/ PassStop(n) \/ n = Last
<1> USE FlowAssumption DEF Modules, Receivers
<1>1. pc \in [Modules -> Places] /\ newCmd \in [Receivers -> Nat]
  BY DEF IInv, TypeOK
<1>2. CASE n = 0 /\ First
  <2>1. PICK place \in {"stopacquire", "state", "pop", "loop", "job", "acquire"} : Goto(n, place)
    BY <1>2 DEF First, CheckExit, CheckState, SourceCapture, InitialCapture, SourceSees, InitialSees
  <2>2. UNCHANGED <<newCmd, child>> /\ pc[n] \in {"loop", "state", "pop"}
    BY <1>2 DEF First, CheckExit, CheckState, SourceCapture, InitialCapture, PopChunk, mailbox, process
  <2> QED BY <1>1, <2>1, <2>2 DEF Goto, Ending, Passed
<1>3. CASE n \in Receivers /\ WaitCmd(n)
  <2>1. /\ Goto(n, "read") /\ pc[n] = "wait" /\ UNCHANGED child
        /\ newCmd' = [newCmd EXCEPT ![n] = @ - 1]
    BY <1>3 DEF WaitCmd, process
  <2>2. pc' = [pc EXCEPT ![n] = "read"]
    BY <2>1 DEF Goto
  <2>3. \A k \in Receivers : k # n => newCmd'[k] = newCmd[k]
    BY <1>1, <2>1
  <2> QED BY <1>1, <2>1, <2>2, <2>3 DEF Ending, Passed
<1>4. CASE n \in Receivers /\ ReadCmd(n)
  <2>1. PICK place \in {"done", "stopacquire", "free", "job"} :
            Goto(n, place) /\ (place = "done" => n = Last)
    BY <1>4 DEF ReadCmd
  <2>2. UNCHANGED <<newCmd, child>> /\ pc[n] = "read"
    BY <1>4 DEF ReadCmd, process
  <2> QED BY <1>1, <1>4, <2>1, <2>2 DEF Goto, Ending, Passed
<1>5. CASE n = Last /\ FreeChunk
  <2>1. Goto(n, "wait") /\ UNCHANGED <<newCmd, child>> /\ pc[n] = "free"
    BY <1>5 DEF FreeChunk, mailbox, process
  <2> QED BY <1>1, <2>1 DEF Goto, Ending, Passed
<1>6. CASE GiveJob(n) \/ TakeBack(n)
  <2>1. PICK place \in {"busy", "wait", "acquire"} : Goto(n, place)
    BY <1>6 DEF GiveJob, TakeBack
  <2>2. UNCHANGED <<newCmd, child>> /\ pc[n] \in {"job", "busy"}
    BY <1>6 DEF GiveJob, TakeBack, mailbox, process
  <2> QED BY <1>1, <2>1, <2>2 DEF Goto, Ending, Passed
<1>7. CASE WaitNext(n)
  <2>1. /\ pc[n] \in {"acquire", "stopacquire"} /\ UNCHANGED <<newCmd, child>>
        /\ Goto(n, IF pc[n] = "acquire" THEN "write" ELSE "stopwrite")
    BY <1>7 DEF WaitNext, process
  <2> QED BY <1>1, <2>1 DEF Goto, Ending, Passed
<1>8. CASE PassChunk(n) \/ PassStop(n)
  <2>1. /\ pc[n] \in {"write", "stopwrite"} /\ UNCHANGED child
        /\ newCmd' = [newCmd EXCEPT ![n + 1] = @ + 1]
    BY <1>8 DEF PassChunk, PassStop, process
  <2>2. PICK place \in {"loop", "wait", "stopchild", "done"} :
            /\ Goto(n, place) /\ (PassChunk(n) => place \in {"loop", "wait"})
            /\ PassStop(n) => pc[n] = "stopwrite" /\ place \in {"stopchild", "done"}
            /\ PassChunk(n) => pc[n] = "write"
    BY <1>8 DEF PassChunk, PassStop, EndThread, FirstPc
  <2>3. \A k \in Receivers : newCmd[k] > 0 => newCmd'[k] > 0
    BY <1>1, <2>1
  <2>4. pc' = [pc EXCEPT ![n] = place]
    BY <2>2 DEF Goto
  <2> QED BY <1>1, <1>8, <2>1, <2>2, <2>3, <2>4 DEF Ending, Passed
<1>9. CASE StopChild(n) \/ ChildStopped(n)
  <2>1. PICK place \in {"stopwait", "done"} : Goto(n, place)
    BY <1>9 DEF StopChild, ChildStopped, EndThread
  <2>2. UNCHANGED <<newCmd, child>> /\ pc[n] \in {"stopchild", "stopwait"}
    BY <1>9 DEF StopChild, ChildStopped, mailbox
  <2> QED BY <1>1, <2>1, <2>2 DEF Goto, Ending, Passed
<1> QED
  BY <1>2, <1>3, <1>4, <1>5, <1>6, <1>7, <1>8, <1>9 DEF Thread

LEMMA StartedKept ==
    ASSUME IInv, StartedOK, [Next]_vars
    PROVE  StartedOK'
<1> USE FlowAssumption DEF Modules, WithChild
<1>1. CASE UNCHANGED <<pc, child>>
  BY <1>1 DEF StartedOK, AllStarted
<1>2. ASSUME NEW n \in Modules, Thread(n)
      PROVE  StartedOK'
  <2>1. \A k \in Modules : pc'[k] = "none" <=> pc[k] = "none"
    BY <1>2, ThreadMoves
  <2>2. UNCHANGED child
    BY <1>2, ThreadMoves
  <2>3. Last \in Modules
    OBVIOUS
  <2> QED BY <2>1, <2>2, <2>3 DEF StartedOK, AllStarted
<1>3. ASSUME NEW n \in WithChild, Child(n)
      PROVE  StartedOK'
  <2>1. child \in [Modules -> {"none", "idle", "work", "exited"}] /\ n \in Modules
    BY DEF IInv, TypeOK
  <2>2. UNCHANGED pc /\ \E c \in {"idle", "work", "exited"} : child' = [child EXCEPT ![n] = c]
    BY <1>3 DEF Child, ChildTake, ChildAnswer
  <2>3. \A k \in Modules : child[k] # "none" => child'[k] # "none"
    BY <2>1, <2>2
  <2> QED BY <2>2, <2>3 DEF StartedOK, AllStarted
<1>4. Owner \/ UNCHANGED vars => UNCHANGED <<pc, child>>
  BY DEF Owner, vars, process
<1> QED BY <1>1, <1>2, <1>3, <1>4 DEF Next

LEMMA StopOnItsWay ==
    ASSUME IInv, StopArrives, [Next]_vars
    PROVE  StopArrives'
<1> USE FlowAssumption DEF Modules, Receivers
<1>1. CASE UNCHANGED <<pc, cmd, newCmd>>
  BY <1>1 DEF StopArrives
<1>2. ASSUME NEW n \in Modules, Thread(n)
      PROVE  StopArrives'
  <2> SUFFICES ASSUME NEW m \in Receivers, pc'[m - 1] \in Passed
               PROVE  cmd'[m] = "STOP" /\ (newCmd'[m] > 0 \/ pc'[m] = "read" \/ pc'[m] \in Ending)
    BY Zenon DEF StopArrives
  <2>0. newCmd \in [Receivers -> Nat]
    BY DEF IInv, TypeOK
  <2>1. m - 1 \in Modules /\ m \in Modules /\ m - 1 # Last /\ newCmd[m] \in Nat
    BY <2>0
  <2>2. CASE pc[m - 1] \in Passed
    <3>1. cmd[m] = "STOP" /\ (newCmd[m] > 0 \/ pc[m] = "read" \/ pc[m] \in Ending)
      BY <2>2 DEF StopArrives
    <3>2. cmd'[m] = "STOP"
      <4>1. [Next]_vars
        BY <1>2 DEF Next
      <4> QED BY <3>1, <4>1, StopKept
    <3>3. CASE newCmd[m] > 0
      BY <1>2, <3>2, <3>3, ThreadMoves
    <3>4. CASE pc[m] = "read"
      <4>1. CASE n = m
        <5>1. ReadCmd(m)
          BY <1>2, <3>4, <4>1, ThreadMoves
        <5>2. pc' = [pc EXCEPT ![m] = IF m = Last THEN "done" ELSE "stopacquire"]
          BY <3>1, <5>1 DEF ReadCmd, Goto
        <5>3. pc'[m] \in Ending
          BY <2>1, <5>2 DEF IInv, TypeOK, Ending, Passed
        <5> QED BY <3>2, <5>3
      <4>2. CASE n # m
        BY <1>2, <2>1, <3>2, <3>4, <4>2, ThreadMoves
      <4> QED BY <4>1, <4>2
    <3>5. CASE pc[m] \in Ending
      <4>1. pc'[m] \in Ending
        BY <1>2, <2>1, <3>5, ThreadMoves
      <4> QED BY <3>2, <4>1
    <3> QED BY <3>1, <3>3, <3>4, <3>5
  <2>3. CASE pc[m - 1] \notin Passed
    <3>1. n = m - 1
      BY <1>2, <2>1, <2>3, ThreadMoves
    <3>2. PassStop(m - 1)
      BY <1>2, <2>1, <2>3, <3>1, ThreadMoves
    <3>3. /\ cmd' = [cmd EXCEPT ![(m - 1) + 1] = "STOP"]
          /\ newCmd' = [newCmd EXCEPT ![(m - 1) + 1] = @ + 1]
          /\ (m - 1) + 1 = m
      BY <2>1, <3>2 DEF PassStop
    <3>4. cmd'[m] = "STOP" /\ newCmd'[m] = newCmd[m] + 1
      BY <3>3 DEF IInv, TypeOK
    <3> QED BY <2>1, <3>4
  <2> QED BY <2>2, <2>3
<1>3. ASSUME NEW n \in WithChild, Child(n)
      PROVE  UNCHANGED <<pc, cmd, newCmd>>
  BY <1>3 DEF Child, ChildTake, ChildAnswer, mailbox
<1>4. Owner \/ UNCHANGED vars => UNCHANGED <<pc, cmd, newCmd>>
  BY DEF Owner, vars, mailbox
<1> QED BY <1>1, <1>2, <1>3, <1>4 DEF Next

LEMMA InitRuns ==
    ASSUME Init
    PROVE  StartedOK /\ StopArrives
<1> USE FlowAssumption DEF Modules, Receivers
<1>1. PICK started \in 1..(Last + 1) \ {Last} : InitStarted(started)
  BY DEF Init
<1>2. PICK first \in {"loop", "state"} :
          pc = [m \in Modules |-> IF m >= started THEN "none"
                                  ELSE IF m = 0 THEN first ELSE "wait"]
  BY <1>1 DEF InitStarted
<1>3. child = [m \in Modules |-> IF m \in WithChild /\ m < started THEN "idle" ELSE "none"]
  BY <1>1 DEF InitStarted
<1>4. StartedOK
  <2>1. ASSUME AllStarted, NEW m \in Modules
        PROVE  pc[m] # "none"
    BY <1>2, <2>1 DEF AllStarted
  <2>2. ASSUME NEW m \in WithChild, pc[m] # "none"
        PROVE  child[m] # "none"
    <3>1. m \in Modules /\ m < started
      BY <1>2, <2>2 DEF WithChild
    <3> QED BY <1>3, <3>1
  <2> QED BY <2>1, <2>2 DEF StartedOK
<1>5. StopArrives
  BY <1>2 DEF StopArrives, Passed
<1> QED BY <1>4, <1>5

\* Of some modules one is the first and one is the last.
LEMMA FirstAndLast ==
    ASSUME NEW S \in SUBSET Modules, S # {}
    PROVE  /\ \E n \in S : \A k \in S : n <= k
           /\ \E n \in S : \A k \in S : k <= n
<1> USE FlowAssumption DEF Modules
<1>1. ASSUME NEW T \in SUBSET Nat, T # {}
      PROVE  \E n \in T : \A k \in T : n <= k
  <2>1. PICK n \in T : \A k \in T : <<k, n>> \notin OpToRel(<, Nat)
    BY <1>1, NatLessThanWellFounded, WFMin
  <2>2. ASSUME NEW k \in T, k < n
        PROVE  FALSE
    <3>1. k \in Nat /\ n \in Nat
      OBVIOUS
    <3>2. <<k, n>> \in OpToRel(<, Nat)
      <4> SUFFICES <<k, n>> \in {pair \in Nat \X Nat : pair[1] < pair[2]}
        BY Zenon DEF OpToRel
      <4> QED BY <2>2, <3>1
    <3> QED BY <2>1, <3>2, Zenon
  <2>3. ASSUME NEW k \in T
        PROVE  n <= k
    <3>1. k \in Nat /\ n \in Nat
      OBVIOUS
    <3>2. ~(k < n)
      BY <2>2
    <3> QED BY <3>1, <3>2
  <2> QED BY <2>3
<1>2. \E n \in S : \A k \in S : n <= k
  BY <1>1
<1>3. \E n \in S : \A k \in S : k <= n
  <2> DEFINE T == {Last - k : k \in S}
  <2>1. T \in SUBSET Nat /\ T # {}
    <3>1. ASSUME NEW k \in S
          PROVE  Last - k \in Nat
      OBVIOUS
    <3>2. T \subseteq Nat
      BY <3>1
    <3>3. PICK k \in S : TRUE
      OBVIOUS
    <3>4. Last - k \in T
      BY <3>3
    <3> QED BY <3>2, <3>4
  <2>2. PICK d \in T : \A e \in T : d <= e
    <3> HIDE DEF T
    <3> QED BY <1>1, <2>1
  <2>3. PICK n \in S : d = Last - n
    OBVIOUS
  <2>4. ASSUME NEW k \in S
        PROVE  k <= n
    <3>1. d <= Last - k
      BY <2>2
    <3> QED BY <2>3, <3>1
  <2> QED BY <2>4
<1> QED BY <1>2, <1>3

\* What keeps a thread from resting when nothing can go on: first the waits for a
\* child, then, from the last module to the first, those for the next module.
LEMMA StuckRests ==
    ASSUME IInv, StartedOK, AllStarted,
           \A m \in Modules : Rests(m) \/ Blocked(m),
           \A m \in WithChild : ~ChildCanGo(m),
           \A m \in Modules : ~Forsaken(m)
    PROVE  \A m \in Modules : Rests(m) \/ (m = 0 /\ pc[m] = "pop" /\ ring = <<>>)
<1> USE FlowAssumption DEF Modules, Receivers
<1>1. \A m \in Modules : pc[m] # "none" /\ pc[m] \in PlacesOf(m)
  BY DEF StartedOK, IInv, PlacesOK
<1>2. ASSUME NEW m \in Modules, pc[m] \in {"busy", "stopwait"}
      PROVE  FALSE
  <2>1. semResult[m] = 0
    BY <1>2 DEF Rests, Blocked
  <2>2. m \in WithChild /\ child[m] # "exited"
    BY <1>2, <2>1 DEF Forsaken
  <2>3. child[m] \in {"none", "idle", "work", "exited"} /\ semJob[m] \in Nat
    BY <2>2 DEF IInv, TypeOK
  <2>4. child[m] = "idle"
    BY <1>1, <2>2, <2>3 DEF StartedOK, ChildCanGo
  <2>5. semJob[m] + semResult[m] + One(child[m] = "work") = One(pc[m] \in {"busy", "stopwait"})
    BY <2>2, ChildAt DEF IInv
  <2>6. semJob[m] = 1
    BY <1>2, <2>1, <2>3, <2>4, <2>5 DEF One
  <2> QED BY <2>2, <2>4, <2>6 DEF ChildCanGo
<1>3. ASSUME NEW m \in Modules, pc[m] \in {"acquire", "stopacquire"}
      PROVE  FALSE
  <2> DEFINE B == {n \in Modules : pc[n] \in {"acquire", "stopacquire"}}
  <2>1. PICK b \in B : \A n \in B : n <= b
    <3>1. B \in SUBSET Modules /\ B # {}
      BY <1>3
    <3> HIDE DEF B
    <3> QED BY <3>1, FirstAndLast
  <2>2. b + 1 \in Receivers /\ b + 1 \in Modules /\ pc[b] \in {"acquire", "stopacquire"}
    <3>1. b # Last
      BY <1>1 DEF PlacesOf
    <3> QED BY <3>1
  <2>3. result[b + 1] = 0
    BY <2>2 DEF Rests, Blocked
  <2>4. pc[b + 1] # "read"
    BY <2>2 DEF Rests, Blocked
  <2>5. newCmd[b + 1] = 1
    <3>1. /\ newCmd[b + 1] \in Nat
          /\ result[b + 1] + newCmd[b + 1] + One(pc[b + 1] = "read") + One(pc[(b + 1) - 1] \in Writing)
               = One(pc[(b + 1) - 1] # "none")
      BY <2>2, MailboxAt DEF IInv
    <3>2. pc[(b + 1) - 1] = pc[b]
      BY <2>2
    <3>3. /\ One(pc[b + 1] = "read") = 0 /\ One(pc[(b + 1) - 1] \in Writing) = 0
          /\ One(pc[(b + 1) - 1] # "none") = 1
      BY <2>2, <2>4, <3>2 DEF One, Writing
    <3> QED BY <2>3, <3>1, <3>3
  <2>6. pc[b + 1] \notin Ending
    BY <2>2, <2>5 DEF IInv, StopOK
  <2>7. ~Rests(b + 1)
    <3>1. pc[b + 1] \notin {"loop", "state"}
      BY <1>1, <2>2 DEF PlacesOf, FirstOnly
    <3> QED BY <1>1, <2>2, <2>5, <2>6, <3>1 DEF Rests, Ending, Passed
  <2>8. pc[b + 1] \notin {"acquire", "stopacquire"}
    <3>1. b + 1 \notin B
      BY <2>1, <2>2
    <3> QED BY <2>2, <3>1
  <2>9. pc[b + 1] # "pop"
    BY <1>1, <2>2 DEF PlacesOf, FirstOnly
  <2> QED BY <1>2, <2>2, <2>7, <2>8, <2>9 DEF Blocked
<1>4. ASSUME NEW m \in Modules, pc[m] = "pop"
      PROVE  m = 0
  BY <1>1, <1>4 DEF PlacesOf, FirstOnly
<1> QED BY <1>2, <1>3, <1>4 DEF Blocked

\* The first thread does not wait for a free chunk while all others rest: a chunk
\* that is not in the ring is with a thread or in a mailbox.
LEMMA RingFills ==
    ASSUME IInv, ChunksConserved, DataCnt # 0,
           \A m \in Modules : pc[m] # "none",
           \A m \in Modules : Rests(m) \/ (m = 0 /\ pc[m] = "pop")
    PROVE  ring # <<>>
<1> USE FlowAssumption DEF Modules, Receivers
<1> SUFFICES ASSUME ring = <<>>
             PROVE  FALSE
  OBVIOUS
<1>1. PICK c \in Chunks : c # NoChunk
  BY DEF Chunks, NoChunk
<1>2. \/ \E m \in Modules : local[m] = c
      \/ \E m \in Receivers : Mail[m] = c
  BY DEF ChunksConserved, Abstract!Conserved, Abstract!NoneLost, Abstract!Chunks, Chunks
<1>3. ASSUME NEW m \in Modules, local[m] = c
      PROVE  FALSE
  <2>1. pc[m] \in Holding
    BY <1>1, <1>3 DEF IInv, LocalOK
  <2> QED BY <2>1 DEF Rests, Holding
<1>4. ASSUME NEW m \in Receivers, Mail[m] = c
      PROVE  FALSE
  <2>1. newCmd[m] > 0 \/ pc[m] = "read"
    BY <1>1, <1>4 DEF Mail
  <2>2. /\ pc[m] \in PlacesOf(m) /\ newCmd[m] \in Nat
        /\ pc[m] \in Ending => newCmd[m] = 0
    BY DEF IInv, TypeOK, PlacesOK, StopOK
  <2>3. pc[m] \notin {"loop", "state"}
    BY <2>2 DEF PlacesOf, FirstOnly
  <2>4. pc[m] # "none"
    OBVIOUS
  <2> QED BY <2>1, <2>2, <2>3, <2>4 DEF Rests, Ending, Passed
<1> QED BY <1>2, <1>3, <1>4

\* When all rest and the first thread has ended so have the others: STOP would lie
\* before the first that has not.
LEMMA AllOrNone ==
    ASSUME IInv, StopArrives,
           \A m \in Modules : pc[m] # "none",
           \A m \in Modules : Rests(m)
    PROVE  AllEnded \/ AllIdle
<1> USE FlowAssumption DEF Modules, Receivers
<1>1. ASSUME NEW m \in Receivers
      PROVE  pc[m] = "done" \/ (pc[m] = "wait" /\ newCmd[m] = 0)
  <2>1. pc[m] \in PlacesOf(m) /\ m \in Modules
    BY DEF IInv, PlacesOK
  <2>2. pc[m] \notin {"loop", "state"}
    BY <2>1 DEF PlacesOf, FirstOnly
  <2> QED BY <2>1, <2>2 DEF Rests
<1>2. pc[0] \in {"done", "loop", "state"}
  <2>1. pc[0] \in PlacesOf(0)
    BY DEF IInv, PlacesOK
  <2>2. pc[0] # "wait"
    BY <2>1 DEF PlacesOf
  <2> QED BY <2>2 DEF Rests
<1>3. CASE pc[0] # "done"
  <2>1. ASSUME NEW m \in Receivers, pc[m] = "done"
        PROVE  FALSE
    <3>1. cmd[m] = "STOP"
      BY <2>1 DEF IInv, StopOK, Ending, Passed
    <3>2. pc[0] \in Passed
      BY <3>1 DEF IInv, StopOK
    <3> QED BY <1>2, <1>3, <3>2 DEF Passed
  <2> QED BY <1>1, <1>2, <1>3, <2>1 DEF AllIdle
<1>4. CASE pc[0] = "done"
  <2> DEFINE W == {m \in Modules : pc[m] # "done"}
  <2>1. CASE W = {}
    BY <2>1 DEF AllEnded
  <2>2. CASE W # {}
    <3>1. PICK w \in W : \A m \in W : w <= m
      <4>1. W \in SUBSET Modules
        OBVIOUS
      <4> HIDE DEF W
      <4> QED BY <2>2, <4>1, FirstAndLast
    <3>2. w \in Receivers /\ w - 1 \in Modules /\ pc[w] = "wait" /\ newCmd[w] = 0
      <4>1. w # 0 /\ pc[w] # "done"
        BY <1>4
      <4> QED BY <1>1, <4>1
    <3>3. pc[w - 1] = "done"
      <4>1. w - 1 \notin W
        BY <3>1, <3>2
      <4> QED BY <3>2, <4>1
    <3>4. newCmd[w] > 0 \/ pc[w] = "read" \/ pc[w] \in Ending
      BY <3>2, <3>3 DEF StopArrives, Passed
    <3> QED BY <3>2, <3>4 DEF Ending, Passed
  <2> QED BY <2>1, <2>2
<1> QED BY <1>3, <1>4

\* No circle of waits: with a free chunk to begin with, of a pipeline all of whose
\* modules were started somebody can always go on, unless it is at rest or a module
\* waits for a child that is not there, with any number of modules and chunks.
THEOREM SomebodyGoes ==
    ASSUME DataCnt # 0
    PROVE  Spec => []NobodyStuck
<1> DEFINE Inv == StartedOK /\ StopArrives
<1>1. Init => Inv
  BY InitRuns
<1>2. IInv /\ Inv /\ [Next]_vars => Inv'
  BY StartedKept, StopOnItsWay
<1>3. IInv /\ Inv /\ ChunksConserved => NobodyStuck
  <2> SUFFICES ASSUME IInv, StartedOK, StopArrives, ChunksConserved, AllStarted,
                      \A m \in Modules : Rests(m) \/ Blocked(m),
                      \A m \in WithChild : ~ChildCanGo(m),
                      \A m \in Modules : ~Forsaken(m)
               PROVE  AllEnded \/ AllIdle
    BY DEF NobodyStuck
  <2>1. \A m \in Modules : Rests(m) \/ (m = 0 /\ pc[m] = "pop" /\ ring = <<>>)
    BY StuckRests
  <2>2. \A m \in Modules : pc[m] # "none"
    BY DEF StartedOK
  <2>3. ring # <<>>
    BY <2>1, <2>2, RingFills
  <2>4. \A m \in Modules : Rests(m)
    BY <2>1, <2>3
  <2> QED BY <2>2, <2>4, AllOrNone
<1> HIDE DEF Inv
<1> QED BY <1>1, <1>2, <1>3, Invariant, Conservation, PTL DEF Spec

=============================================================================
