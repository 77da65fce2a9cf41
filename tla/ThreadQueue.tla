------------------------------ MODULE ThreadQueue ------------------------------
(***************************************************************************)
(* ThreadQueue: worker threads that sleep on a semaphore, run the calls    *)
(* the main thread posts and post their responses back to it.              *)
(*                                                                         *)
(* mLock is held during a whole step of a worker and of postCall, and by   *)
(* the main thread all through dispatchResponseCalls; only that is split,  *)
(* in a step per response.  What is done without the lock are steps of     *)
(* their own: Semaphore::wait, and the increment that postCall leaves for  *)
(* after the unlock.  mLock is recursive: a response may post calls.       *)
(***************************************************************************)
EXTENDS Integers, Sequences, FiniteSets

CONSTANTS
  Thread,         \* the worker threads
  MaximumCount,   \* Semaphore's maximumCount, where the platform has one
  MaxCalls,       \* bound: calls posted
  MaxResponses    \* bound: responses posted

ASSUME ThreadAssumption == IsFiniteSet(Thread)
ASSUME BoundsAssumption == MaxCalls \in Nat /\ MaxResponses \in Nat
ASSUME MaximumCountAssumption == MaximumCount \in Nat /\ MaxCalls <= MaximumCount

VARIABLES
  mThreadCalls,     \* calls posted to the workers, by number
  mResponseCalls,   \* responses posted to the main thread, by number
  mSemaphore,       \* the count of the semaphore
  pc,               \* where each worker is: waiting, awake, or running a call
  call,             \* the call each worker runs
  main,             \* where the main thread is: in dispatchResponseCalls, with
                    \* the lock, it is in the loop or before the clear()
  i,                \* responses it has dispatched there
  owes,             \* postCall has unlocked and not yet incremented
  posted,           \* calls posted so far
  responded         \* responses posted so far

counts == <<posted, responded>>
vars == <<mThreadCalls, mResponseCalls, mSemaphore, pc, call, main, i, owes, counts>>

Count(b) == IF b THEN 1 ELSE 0

Init ==
  /\ mThreadCalls = <<>> /\ mResponseCalls = <<>>
  /\ mSemaphore = 0
  /\ pc = [t \in Thread |-> "waiting"] /\ call = [t \in Thread |-> 0]
  /\ main = "idle" /\ i = 0
  /\ owes = FALSE
  /\ posted = 0 /\ responded = 0

-----------------------------------------------------------------------------
\* Faulty variant: a semaphore that counts to one.
Incremented_Binary(count) == 1

\* Semaphore::increment; past the maximum ReleaseSemaphore fails, unseen.
Incremented(count) == IF count < MaximumCount THEN count + 1 ELSE count

\* Faulty variant: responses are dispatched with the lock released.
WorkerMayLock_Always == TRUE

\* mLock is free for a worker.
WorkerMayLock == main = "idle"

\* postCall on the main thread, which may be in a response that is
\* dispatched.  The worker that wakes up may find the lock taken.
PostCall ==
  /\ ~owes /\ posted < MaxCalls
  /\ main = "idle" \/ (main = "loop" /\ i > 0)
  /\ posted' = posted + 1
  /\ mThreadCalls' = Append(mThreadCalls, posted')
  /\ owes' = TRUE
  /\ UNCHANGED <<mResponseCalls, mSemaphore, pc, call, main, i, responded>>

Increment ==
  /\ owes
  /\ mSemaphore' = Incremented(mSemaphore)
  /\ owes' = FALSE
  /\ UNCHANGED <<mThreadCalls, mResponseCalls, pc, call, main, i, counts>>

-----------------------------------------------------------------------------
\* dispatchNextCall, in its three parts: Semaphore::wait ...
Wait(t) ==
  /\ pc[t] = "waiting" /\ mSemaphore > 0
  /\ mSemaphore' = mSemaphore - 1
  /\ pc' = [pc EXCEPT ![t] = "awake"]
  /\ UNCHANGED <<mThreadCalls, mResponseCalls, call, main, i, owes, counts>>

\* ... which a signal interrupts, and nobody looks at what sem_wait returns ...
Interrupted(t) ==
  /\ pc[t] = "waiting"
  /\ pc' = [pc EXCEPT ![t] = "awake"]
  /\ UNCHANGED <<mThreadCalls, mResponseCalls, mSemaphore, call, main, i, owes, counts>>

\* ... the part under the lock ...
TakeCall(t) ==
  /\ pc[t] = "awake" /\ WorkerMayLock
  /\ \/ /\ mThreadCalls = <<>>
        /\ pc' = [pc EXCEPT ![t] = "waiting"]
        /\ UNCHANGED <<mThreadCalls, call>>
     \/ /\ mThreadCalls # <<>>
        /\ pc' = [pc EXCEPT ![t] = "running"]
        /\ call' = [call EXCEPT ![t] = Head(mThreadCalls)]
        /\ mThreadCalls' = Tail(mThreadCalls)
  /\ UNCHANGED <<mResponseCalls, mSemaphore, main, i, owes, counts>>

\* ... and the call itself, which may call postCall any number of times.
Respond(t) ==
  /\ pc[t] = "running" /\ WorkerMayLock /\ responded < MaxResponses
  /\ responded' = responded + 1
  /\ mResponseCalls' = Append(mResponseCalls, responded')
  /\ UNCHANGED <<mThreadCalls, mSemaphore, pc, call, main, i, owes, posted>>

Finish(t) ==
  /\ pc[t] = "running"
  /\ pc' = [pc EXCEPT ![t] = "waiting"]
  /\ call' = [call EXCEPT ![t] = 0]
  /\ UNCHANGED <<mThreadCalls, mResponseCalls, mSemaphore, main, i, owes, counts>>

-----------------------------------------------------------------------------
\* dispatchResponseCalls: the lock, a step of the loop, its end, the clear().
StartResponses ==
  /\ main = "idle" /\ ~owes
  /\ main' = "loop" /\ i' = 0
  /\ UNCHANGED <<mThreadCalls, mResponseCalls, mSemaphore, pc, call, owes, counts>>

DispatchResponse ==
  /\ main = "loop" /\ ~owes /\ i < Len(mResponseCalls)
  /\ i' = i + 1
  /\ UNCHANGED <<mThreadCalls, mResponseCalls, mSemaphore, pc, call, main, owes, counts>>

EndLoop ==
  /\ main = "loop" /\ ~owes /\ i >= Len(mResponseCalls)
  /\ main' = "clear"
  /\ UNCHANGED <<mThreadCalls, mResponseCalls, mSemaphore, pc, call, i, owes, counts>>

ClearResponses ==
  /\ main = "clear"
  /\ mResponseCalls' = <<>>
  /\ main' = "idle" /\ i' = 0
  /\ UNCHANGED <<mThreadCalls, mSemaphore, pc, call, owes, counts>>

Next ==
  \/ PostCall \/ Increment
  \/ \E t \in Thread : Wait(t) \/ Interrupted(t) \/ TakeCall(t) \/ Respond(t) \/ Finish(t)
  \/ StartResponses \/ DispatchResponse \/ EndLoop \/ ClearResponses

Spec == Init /\ [][Next]_vars

(***************************************************************************)
(* Every thread that can run does, a thread that waits for the lock is not *)
(* passed over for ever, a call returns, and the main loop comes back to   *)
(* dispatchResponseCalls ("should be called periodically").  Which of the  *)
(* threads that wait is woken is not said.                                 *)
(***************************************************************************)
FairSpec ==
  /\ Spec
  /\ WF_vars(Increment) /\ WF_vars(\E t \in Thread : Wait(t))
  /\ \A t \in Thread : SF_vars(TakeCall(t)) /\ WF_vars(Finish(t))
  /\ WF_vars(StartResponses \/ DispatchResponse \/ EndLoop \/ ClearResponses)

-----------------------------------------------------------------------------
TypeOK ==
  /\ mThreadCalls \in Seq(Nat) /\ mResponseCalls \in Seq(Nat)
  /\ mSemaphore \in Nat
  /\ pc \in [Thread -> {"waiting", "awake", "running"}] /\ call \in [Thread -> Nat]
  /\ main \in {"idle", "loop", "clear"} /\ i \in 0 .. Len(mResponseCalls)
  /\ owes \in BOOLEAN
  /\ posted \in 0 .. MaxCalls /\ responded \in 0 .. MaxResponses

Awake == {t \in Thread : pc[t] = "awake"}
Running == {t \in Thread : pc[t] = "running"}

\* No call is left in mThreadCalls with nobody to take it: for each there is
\* a count of the semaphore, a worker on its way to the lock, or the increment
\* that postCall is about to make.  Workers that a signal woke take calls for
\* which others come too late, and find the list empty (dispatchNextCall).
NoLostWakeup ==
  Len(mThreadCalls) <= mSemaphore + Cardinality(Awake) + Count(owes)

\* The counts never exceed the calls posted, so increment does not reach the
\* maximum: what NoLostWakeup needs to be inductive.
CountsArePosts == mSemaphore + Count(owes) <= posted

\* The calls in the list are the last ones posted, and of the others each
\* is run by at most one worker.
CallsInOrder ==
  LET taken == posted - Len(mThreadCalls)
  IN  /\ taken >= 0
      /\ \A k \in 1 .. Len(mThreadCalls) : mThreadCalls[k] = taken + k
      /\ \A t \in Running : call[t] <= taken
      /\ \A t, u \in Running : call[t] = call[u] => t = u

\* Nothing arrives between the loop of dispatchResponseCalls and the clear().
ClearedAreDispatched ==
  /\ main = "idle" => i = 0
  /\ main = "clear" => i = Len(mResponseCalls)

IInv == TypeOK /\ NoLostWakeup /\ CountsArePosts /\ CallsInOrder /\ ClearedAreDispatched

\* The responses that the running dispatchResponseCalls has still to run
\* and those no one has come to yet.
Responses == SubSeq(mResponseCalls, i + 1, Len(mResponseCalls))

Queues == INSTANCE CallQueues
  WITH calls <- mThreadCalls, responses <- Responses,
       running <- {call[t] : t \in Running}

\* Workers and main thread together are two queues that lose nothing, run
\* nothing twice or out of order, and get to everything: postCall wakes
\* somebody for each call, and no response falls between the loop of
\* dispatchResponseCalls and the clear() after it.
ImplementsQueues == Queues!FairSpec
=============================================================================
