--------------------------- MODULE AsyncLockProofs ---------------------------
(***************************************************************************)
(* Proofs about AsyncLock for every set of calls: the inductive invariant, *)
(* the safety properties that follow from it, and the refinement of the    *)
(* safety part of FifoMutex.                                               *)
(***************************************************************************)
EXTENDS AsyncLock, SequenceTheorems, TLAPS

\* The initial state satisfies the inductive invariant.
LEMMA InitIInv == Init => IInv
  BY DEF Init, IInv, TypeOK, OneHolder, PermitFree, PermitHeld, QueuedIffWaiting,
         QueuedOnce, Holders, Points

\* A call that is made keeps the inductive invariant: it takes the free permit,
\* or it is queued for the first time.
LEMMA LockIInv == ASSUME IInv, NEW c \in Calls, Lock(c) PROVE IInv'
<1> USE DEF IInv, TypeOK, Points, Holders
<1>1. CASE permits > 0
  <2>1. permits = 1 /\ permits' = 0 /\ promiseResolverQueue = <<>> /\ Holders = {}
    BY <1>1 DEF Lock, PermitFree, PermitHeld
  <2> QED
    BY <1>1, <2>1 DEF Lock, OneHolder, PermitFree, PermitHeld, QueuedIffWaiting, QueuedOnce
<1>2. CASE permits <= 0
  <2>1. /\ permits = 0 /\ UNCHANGED <<permits, thrown>>
        /\ promiseResolverQueue' = Append(promiseResolverQueue, c)
        /\ pc' = [pc EXCEPT ![c] = "waiting"]
        /\ pc[c] = "idle"
    BY <1>2 DEF Lock
  <2>2. TypeOK' /\ OneHolder' /\ PermitFree' /\ PermitHeld'
    BY <2>1 DEF OneHolder, PermitFree, PermitHeld
  <2>3. QueuedIffWaiting'
    BY <2>1 DEF QueuedIffWaiting
  <2>4. QueuedOnce'
    BY <2>1 DEF QueuedIffWaiting, QueuedOnce
  <2> QED BY <2>1, <2>2, <2>3, <2>4
<1> QED BY <1>1, <1>2

\* A timer that fires and a call that resumes only move the holder on.
LEMMA TimerFiresIInv == ASSUME IInv, NEW c \in Calls, TimerFires(c) PROVE IInv'
  BY DEF IInv, TypeOK, Points, Holders, OneHolder, PermitFree, PermitHeld,
         QueuedIffWaiting, QueuedOnce, TimerFires

LEMMA ResumeIInv == ASSUME IInv, NEW c \in Calls, Resume(c) PROVE IInv'
  BY DEF IInv, TypeOK, Points, Holders, OneHolder, PermitFree, PermitHeld,
         QueuedIffWaiting, QueuedOnce, Resume

\* unlock() keeps the inductive invariant: the released permit goes to the head
\* of the queue, or is free when nobody waits; the branch that throws is dead.
LEMMA UnlockIInv == ASSUME IInv, NEW c \in Calls, Unlock(c) PROVE IInv'
<1> USE DEF IInv, TypeOK, Points, Holders
<1>1. permits = 0 /\ pc[c] = "running"
  BY DEF Unlock, PermitFree, PermitHeld
<1>2. \A d \in Holders : d = c
  BY <1>1 DEF OneHolder
<1>3. thrown' = {}
  BY <1>1 DEF Unlock
<1>4. CASE promiseResolverQueue = <<>>
  BY <1>1, <1>2, <1>3, <1>4
     DEF Unlock, OneHolder, PermitFree, PermitHeld, QueuedIffWaiting, QueuedOnce
<1>5. CASE promiseResolverQueue # <<>>
  <2> DEFINE h == Head(promiseResolverQueue)
  <2>1. /\ UNCHANGED permits
        /\ promiseResolverQueue' = Tail(promiseResolverQueue)
        /\ pc' = [pc EXCEPT ![c] = "idle", ![h] = "timer"]
    BY <1>1, <1>5 DEF Unlock, HandOver
  <2>2. h \in Calls /\ pc[h] = "waiting" /\ h = promiseResolverQueue[1]
    BY <1>5 DEF QueuedIffWaiting
  <2>3. /\ Len(promiseResolverQueue') = Len(promiseResolverQueue) - 1
        /\ \A i \in 1..Len(promiseResolverQueue') :
              promiseResolverQueue'[i] = promiseResolverQueue[i + 1]
        /\ promiseResolverQueue' \in Seq(Calls)
    BY <2>1, <1>5, HeadTailProperties
  <2>4. TypeOK' /\ OneHolder' /\ PermitFree' /\ PermitHeld'
    BY <1>1, <1>2, <1>3, <2>1, <2>2, <2>3 DEF OneHolder, PermitFree, PermitHeld
  <2>5. QueuedOnce'
    BY <2>3 DEF QueuedOnce
  <2>6. ASSUME NEW d \in Calls
        PROVE  (pc[d] = "waiting" <=> \E i \in 1..Len(promiseResolverQueue) :
                                          promiseResolverQueue[i] = d)'
    <3>1. CASE d = h
      <4>1. pc'[d] = "timer"
        BY <3>1, <2>1, <2>2
      <4>2. \A i \in 1..Len(promiseResolverQueue') : promiseResolverQueue'[i] # d
        BY <3>1, <2>2, <2>3 DEF QueuedOnce
      <4> QED BY <4>1, <4>2
    <3>2. CASE d # h
      <4>1. pc'[d] = "waiting" <=> pc[d] = "waiting"
        BY <3>2, <1>1, <2>1
      <4>2. ASSUME NEW i \in 1..Len(promiseResolverQueue), promiseResolverQueue[i] = d
            PROVE  \E j \in 1..Len(promiseResolverQueue') : promiseResolverQueue'[j] = d
        <5>1. i - 1 \in 1..Len(promiseResolverQueue')
          BY <3>2, <4>2, <2>2, <2>3
        <5>2. promiseResolverQueue'[i - 1] = promiseResolverQueue[(i - 1) + 1]
          BY <5>1, <2>3
        <5>3. (i - 1) + 1 = i
          OBVIOUS
        <5> QED BY <5>1, <5>2, <5>3, <4>2
      <4>3. ASSUME NEW j \in 1..Len(promiseResolverQueue'), promiseResolverQueue'[j] = d
            PROVE  \E i \in 1..Len(promiseResolverQueue) : promiseResolverQueue[i] = d
        <5>1. j + 1 \in 1..Len(promiseResolverQueue)
          BY <2>3
        <5> QED BY <5>1, <4>3, <2>3
      <4> QED BY <4>1, <4>2, <4>3 DEF QueuedIffWaiting
    <3> QED BY <3>1, <3>2
  <2> QED BY <1>3, <2>4, <2>5, <2>6 DEF QueuedIffWaiting
<1> QED BY <1>4, <1>5

\* Every step of the lock keeps the inductive invariant.
LEMMA NextIInv == IInv /\ [Next]_vars => IInv'
<1> SUFFICES ASSUME IInv, [Next]_vars PROVE IInv'
  OBVIOUS
<1>1. CASE UNCHANGED vars
  BY <1>1 DEF vars, IInv, TypeOK, OneHolder, PermitFree, PermitHeld, QueuedIffWaiting,
              QueuedOnce, Holders
<1>2. ASSUME NEW c \in Calls, Lock(c) PROVE IInv'
  BY <1>2, LockIInv
<1>3. ASSUME NEW c \in Calls, TimerFires(c) PROVE IInv'
  BY <1>3, TimerFiresIInv
<1>4. ASSUME NEW c \in Calls, Resume(c) PROVE IInv'
  BY <1>4, ResumeIInv
<1>5. ASSUME NEW c \in Calls, Unlock(c) PROVE IInv'
  BY <1>5, UnlockIInv
<1> QED BY <1>1, <1>2, <1>3, <1>4, <1>5 DEF Next

\* The inductive invariant holds in every state of the lock.
THEOREM Invariance == Spec => []IInv
<1> QED BY InitIInv, NextIInv, PTL DEF Spec, SafeSpec

\* The functions passed to inLock never overlap.
THEOREM MutualExclusion == Spec => []Mutex
<1>1. IInv => Mutex
  BY DEF IInv, OneHolder, Holders, Mutex
<1> QED BY <1>1, Invariance, PTL

\* The error thrown by unlock() is unreachable.
THEOREM NoThrow == Spec => []NeverThrows
<1>1. IInv => NeverThrows
  BY DEF IInv, NeverThrows
<1> QED BY <1>1, Invariance, PTL

\* While a call waits, another holds the permit and will wake one.
THEOREM NoLostWakeup == Spec => []NobodyStranded
<1>1. IInv => NobodyStranded
  BY DEF IInv, TypeOK, PermitFree, PermitHeld, NobodyStranded
<1> QED BY <1>1, Invariance, PTL
-----------------------------------------------------------------------------
(* The refinement.  The line is empty when nobody holds the permit;        *)
(* otherwise it is the one holder and then the queue.                      *)

\* Who the holder is in a state where the permit is held.
LEMMA LineHeld ==
  ASSUME IInv, NEW c \in Holders
  PROVE  line = <<c>> \o promiseResolverQueue
<1>1. \A d \in Calls : d \in Holders <=> d = c
  BY DEF IInv, OneHolder, Holders
<1>2. (CHOOSE d \in Calls : d \in Holders) = c
  BY <1>1 DEF Holders
<1> QED BY <1>2 DEF line

LEMMA LineHeldNext ==
  ASSUME IInv', NEW c \in Holders'
  PROVE  line' = <<c>> \o promiseResolverQueue'
<1>1. \A d \in Calls : d \in Holders' <=> d = c
  BY DEF IInv, OneHolder, Holders
<1>2. (CHOOSE d \in Calls : d \in Holders') = c
  BY <1>1 DEF Holders
<1> QED BY <1>2 DEF line

\* Nobody in line while the permit is free.
LEMMA LineFree == IInv /\ Holders = {} => line = <<>> /\ promiseResolverQueue = <<>>
  BY DEF IInv, TypeOK, PermitFree, PermitHeld, line

\* A call that is made joins the end of the line.
LEMMA LockArrives ==
  ASSUME IInv, IInv', NEW c \in Calls, Lock(c)
  PROVE  Fifo!Arrive(c)
<1> USE DEF IInv, TypeOK, Points
<1>1. UNCHANGED {d \in Calls : pc[d] = "running"}
  BY DEF Lock
<1>2. pc[c] = "idle"
  BY DEF Lock
<1>3. CASE permits > 0
  <2>1. /\ Holders = {} /\ promiseResolverQueue = <<>>
        /\ UNCHANGED promiseResolverQueue /\ c \in Holders'
    BY <1>3 DEF Lock, PermitFree, PermitHeld, Holders
  <2>2. line = <<>> /\ line' = <<c>> \o <<>>
    BY <2>1, LineFree, LineHeldNext
  <2> QED BY <1>1, <2>2 DEF Fifo!Arrive, Fifo!InLine
<1>4. CASE permits <= 0
  <2>1. /\ promiseResolverQueue' = Append(promiseResolverQueue, c)
        /\ pc' = [pc EXCEPT ![c] = "waiting"]
    BY <1>4 DEF Lock
  <2>2. PICK h \in Holders : TRUE
    BY <1>4 DEF PermitHeld
  <2>3. h \in Calls /\ h # c /\ h \in Holders'
    BY <1>2, <2>1, <2>2 DEF Holders
  <2>4. /\ line = <<h>> \o promiseResolverQueue
        /\ line' = <<h>> \o Append(promiseResolverQueue, c)
    BY <2>1, <2>2, <2>3, LineHeld, LineHeldNext
  <2>5. line' = Append(line, c)
    BY <2>3, <2>4
  <2>6. \A i \in DOMAIN line : line[i] # c
    <3>1. \A i \in 1..Len(promiseResolverQueue) : promiseResolverQueue[i] # c
      BY <1>2 DEF QueuedIffWaiting
    <3> QED BY <2>3, <2>4, <3>1
  <2> QED BY <1>1, <2>5, <2>6 DEF Fifo!Arrive, Fifo!InLine
<1> QED BY <1>3, <1>4

\* A timer that fires does not move the line.
LEMMA TimerStutters ==
  ASSUME IInv, IInv', NEW c \in Calls, TimerFires(c)
  PROVE  UNCHANGED Fifo!vars
<1> USE DEF IInv, TypeOK, Points
<1>1. c \in Holders /\ c \in Holders' /\ UNCHANGED promiseResolverQueue
  BY DEF TimerFires, Holders
<1>2. UNCHANGED line
  BY <1>1, LineHeld, LineHeldNext
<1>3. UNCHANGED {d \in Calls : pc[d] = "running"}
  BY DEF TimerFires
<1> QED BY <1>2, <1>3 DEF Fifo!vars

\* A call that resumes is first in line and enters.
LEMMA ResumeEnters ==
  ASSUME IInv, IInv', NEW c \in Calls, Resume(c)
  PROVE  Fifo!Enter(c)
<1> USE DEF IInv, TypeOK, Points
<1>1. c \in Holders /\ c \in Holders' /\ UNCHANGED promiseResolverQueue
  BY DEF Resume, Holders
<1>2. line = <<c>> \o promiseResolverQueue /\ UNCHANGED line
  BY <1>1, LineHeld, LineHeldNext
<1>3. line # <<>> /\ Head(line) = c
  BY <1>2
<1>4. {d \in Calls : pc[d] = "running"} = {}
  BY <1>1 DEF Resume, OneHolder, Holders
<1>5. {d \in Calls : pc'[d] = "running"} = {c}
  BY <1>4 DEF Resume
<1> QED BY <1>2, <1>3, <1>4, <1>5 DEF Fifo!Enter

\* unlock() takes the first call out of the line.
LEMMA UnlockLeaves ==
  ASSUME IInv, IInv', NEW c \in Calls, Unlock(c)
  PROVE  Fifo!Leave(c)
<1> USE DEF IInv, TypeOK, Points
<1>1. c \in Holders /\ pc[c] = "running" /\ permits = 0
  BY DEF Unlock, Holders, PermitFree, PermitHeld
<1>2. line = <<c>> \o promiseResolverQueue
  BY <1>1, LineHeld
<1>3. line # <<>> /\ Head(line) = c /\ Tail(line) = promiseResolverQueue
  BY <1>2
<1>4. {d \in Calls : pc[d] = "running"} = {c}
  BY <1>1 DEF OneHolder, Holders
<1>5. CASE promiseResolverQueue = <<>>
  <2>1. Holders' = {} /\ {d \in Calls : pc'[d] = "running"} = {}
    BY <1>1, <1>5 DEF Unlock, OneHolder, Holders
  <2>2. line' = <<>>
    BY <2>1 DEF line
  <2> QED BY <1>3, <1>4, <1>5, <2>1, <2>2 DEF Fifo!Leave
<1>6. CASE promiseResolverQueue # <<>>
  <2> DEFINE h == Head(promiseResolverQueue)
  <2>1. /\ promiseResolverQueue' = Tail(promiseResolverQueue)
        /\ pc' = [pc EXCEPT ![c] = "idle", ![h] = "timer"]
    BY <1>1, <1>6 DEF Unlock, HandOver
  <2>2. h \in Calls
    BY <1>6
  <2>3. h \in Holders'
    BY <2>1, <2>2 DEF Holders
  <2>4. line' = <<h>> \o Tail(promiseResolverQueue)
    BY <2>1, <2>3, LineHeldNext
  <2>5. line' = promiseResolverQueue
    BY <1>6, <2>4
  <2>6. {d \in Calls : pc'[d] = "running"} = {}
    BY <1>4, <2>1
  <2> QED BY <1>3, <1>4, <2>5, <2>6 DEF Fifo!Leave
<1> QED BY <1>5, <1>6

\* Every behaviour of the lock is one of the FIFO mutex: the functions passed to
\* inLock run one at a time, in the order of the calls.
THEOREM Refinement == Spec => Fifo!SafeSpec
<1>1. Init => Fifo!Init
  BY DEF Init, Fifo!Init, line, Holders
<1>2. IInv /\ IInv' /\ [Next]_vars => [Fifo!Next]_(Fifo!vars)
  <2> SUFFICES ASSUME IInv, IInv', [Next]_vars PROVE [Fifo!Next]_(Fifo!vars)
    OBVIOUS
  <2>1. CASE UNCHANGED vars
    BY <2>1 DEF vars, Fifo!vars, line, Holders
  <2>2. ASSUME NEW c \in Calls, Lock(c) PROVE Fifo!Next
    BY <2>2, LockArrives DEF Fifo!Next
  <2>3. ASSUME NEW c \in Calls, TimerFires(c) PROVE UNCHANGED Fifo!vars
    BY <2>3, TimerStutters
  <2>4. ASSUME NEW c \in Calls, Resume(c) PROVE Fifo!Next
    BY <2>4, ResumeEnters DEF Fifo!Next
  <2>5. ASSUME NEW c \in Calls, Unlock(c) PROVE Fifo!Next
    BY <2>5, UnlockLeaves DEF Fifo!Next
  <2> QED BY <2>1, <2>2, <2>3, <2>4, <2>5 DEF Next
<1> QED BY <1>1, <1>2, Invariance, PTL DEF Spec, SafeSpec, Fifo!SafeSpec
=============================================================================
