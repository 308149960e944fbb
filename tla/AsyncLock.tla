------------------------------ MODULE AsyncLock ------------------------------
(***************************************************************************)
(* AsyncLock (sources/utils/lock.ts), the only mutual exclusion inside the *)
(* server process: one lock per socket serialises the `message` handler,   *)
(* another one the `usage-report` handler.  JavaScript runs one callback   *)
(* at a time, so an action is the code between two returns to the event    *)
(* loop.  A call goes through these points:                                *)
(*                                                                         *)
(*   idle     inLock has not been called                                   *)
(*   waiting  its resolver is in promiseResolverQueue                      *)
(*   timer    unlock() took its resolver out; the setTimeout(..., 0) that  *)
(*            will resolve it has not fired                                *)
(*   granted  the promise it awaits is resolved, it has not resumed        *)
(*   running  func() was called and has not settled                        *)
(***************************************************************************)
EXTENDS Integers, Sequences

CONSTANT Calls                  \* identities of concurrent inLock calls

VARIABLES permits,              \* AsyncLock.permits
          promiseResolverQueue, \* AsyncLock.promiseResolverQueue, by call
          pc,                   \* where each call is
          thrown                \* the calls whose unlock() threw

vars == <<permits, promiseResolverQueue, pc, thrown>>

Points == {"idle", "waiting", "timer", "granted", "running"}

\* The calls that hold the permit, whether or not they have resumed.
Holders == {c \in Calls : pc[c] \in {"timer", "granted", "running"}}

TypeOK == /\ permits \in Nat
          /\ promiseResolverQueue \in Seq(Calls)
          /\ pc \in [Calls -> Points]
          /\ thrown \in SUBSET Calls

Init == /\ permits = 1
        /\ promiseResolverQueue = <<>>
        /\ pc = [c \in Calls |-> "idle"]
        /\ thrown = {}

\* inLock() up to its first await: lock() consumes the permit, or leaves a
\* resolver in the queue.
Lock(c) ==
    /\ pc[c] = "idle"
    /\ \/ /\ permits > 0
          /\ permits' = permits - 1
          /\ pc' = [pc EXCEPT ![c] = "granted"]
          /\ UNCHANGED promiseResolverQueue
       \/ /\ permits <= 0
          /\ promiseResolverQueue' = Append(promiseResolverQueue, c)
          /\ pc' = [pc EXCEPT ![c] = "waiting"]
          /\ UNCHANGED permits
    /\ UNCHANGED thrown

\* The timer set by unlock() fires and resolves the promise of its call.
TimerFires(c) ==
    /\ pc[c] = "timer"
    /\ pc' = [pc EXCEPT ![c] = "granted"]
    /\ UNCHANGED <<permits, promiseResolverQueue, thrown>>

\* inLock() resumes after `await this.lock()` and calls func.
Resume(c) ==
    /\ pc[c] = "granted"
    /\ pc' = [pc EXCEPT ![c] = "running"]
    /\ UNCHANGED <<permits, promiseResolverQueue, thrown>>

\* Mutant: the waiting call is resumed without consuming the released permit.
HandOverLeavesPermit(c) ==
    /\ permits' = permits + 1
    /\ promiseResolverQueue' = Tail(promiseResolverQueue)
    /\ pc' = [pc EXCEPT ![c] = "idle", ![Head(promiseResolverQueue)] = "timer"]

\* Mutant: the permit is released and no waiting call is woken.
HandOverWakesNobody(c) ==
    /\ permits' = permits + 1
    /\ pc' = [pc EXCEPT ![c] = "idle"]
    /\ UNCHANGED promiseResolverQueue

\* The branch of unlock() that consumes the released permit again for the first
\* call in the queue and sets the timer that will resolve it.
HandOver(c) ==
    /\ promiseResolverQueue' = Tail(promiseResolverQueue)
    /\ pc' = [pc EXCEPT ![c] = "idle", ![Head(promiseResolverQueue)] = "timer"]
    /\ UNCHANGED permits

\* func settles, resolved or rejected, and the finally block calls unlock().
\* Releasing a second permit while a call waits throws and wakes nobody.
Unlock(c) ==
    LET released == permits + 1
        someoneWaits == promiseResolverQueue # <<>>
    IN
    /\ pc[c] = "running"
    /\ thrown' = IF released > 1 /\ someoneWaits THEN thrown \cup {c} ELSE thrown
    /\ IF released = 1 /\ someoneWaits
       THEN HandOver(c)
       ELSE /\ permits' = released
            /\ pc' = [pc EXCEPT ![c] = "idle"]
            /\ UNCHANGED promiseResolverQueue

Next == \E c \in Calls : Lock(c) \/ TimerFires(c) \/ Resume(c) \/ Unlock(c)

\* The event loop runs every timer and every resumption; a handler's function
\* settles because each of its database calls does.  Nobody has to call inLock.
Fairness == \A c \in Calls : WF_vars(TimerFires(c) \/ Resume(c) \/ Unlock(c))

SafeSpec == Init /\ [][Next]_vars

Spec == SafeSpec /\ Fairness
-----------------------------------------------------------------------------
(* Properties                                                              *)

\* The functions passed to inLock never overlap (lock.ts:5-12).
Mutex == \A c, d \in Calls : pc[c] = "running" /\ pc[d] = "running" => c = d

\* The error of lock.ts:24-25, "this.permits should never be > 0 when there is
\* someone waiting", is never raised: it would leave a permit too many and a
\* waiting call that nobody wakes.
NeverThrows == thrown = {}

\* No lost wakeup: while a call waits in the queue, some call holds the permit
\* and will wake it (lock.ts:30-38).
NobodyStranded ==
    promiseResolverQueue # <<>> => Holders # {} /\ permits = 0

\* The line FifoMutex speaks of: the holder, then the queue.
line == IF Holders = {} THEN <<>>
        ELSE <<CHOOSE c \in Calls : c \in Holders>> \o promiseResolverQueue

Fifo == INSTANCE FifoMutex WITH inside <- {c \in Calls : pc[c] = "running"}

\* AsyncLock implements FifoMutex: one function at a time, in call order, and under
\* fairness the function that is first in line starts, so that every one in line gets
\* its turn (lock.ts:14-38).
ImplementsFifoMutex == Fifo!Spec
-----------------------------------------------------------------------------
(* The inductive invariant: the permit is either free with nobody waiting,  *)
(* or held by exactly one call; a call waits iff its resolver is queued,    *)
(* and it is queued once.                                                   *)

OneHolder == \A c, d \in Holders : c = d

PermitFree == permits = 1 => Holders = {} /\ promiseResolverQueue = <<>>

PermitHeld == permits # 1 => permits = 0 /\ Holders # {}

QueuedIffWaiting ==
    \A c \in Calls : pc[c] = "waiting" <=>
        \E i \in 1..Len(promiseResolverQueue) : promiseResolverQueue[i] = c

QueuedOnce ==
    \A i, j \in 1..Len(promiseResolverQueue) :
        promiseResolverQueue[i] = promiseResolverQueue[j] => i = j

IInv == /\ TypeOK
        /\ OneHolder
        /\ PermitFree
        /\ PermitHeld
        /\ QueuedIffWaiting
        /\ QueuedOnce
        /\ thrown = {}
=============================================================================
