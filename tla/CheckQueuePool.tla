---------------------------- MODULE CheckQueuePool ----------------------------
(***************************************************************************)
(* CCheckQueuePool (checkqueuepool.h): block validations borrow one of a   *)
(* fixed number of check queues.  A request that finds none idle may       *)
(* demand the premature termination of the running checker with the least  *)
(* value (the chain work of the tip it validates towards), and then waits. *)
(*                                                                         *)
(* Each critical section of mQueuesLock is one action.  What happens on a  *)
(* borrowed queue is module CheckQueue; here a session is open, then over. *)
(* mRunningCheckers is in the order of push_back, which is the order of    *)
(* mValidationStartTime, so an index is the tie breaker.                   *)
(***************************************************************************)
EXTENDS Integers, Sequences, FiniteSets

CONSTANTS
  Queues,       \* the queues the constructor makes: a finite set, not empty
  Requesters,   \* validation threads
  Values,       \* ValueT: the chain work, a natural number
  MaxRequests   \* bound: calls of GetChecker by one thread

\* What the constructor and the callers make of these.
PoolConstants ==
  /\ IsFiniteSet(Queues) /\ Queues # {} /\ IsFiniteSet(Requesters)
  /\ Values \subseteq Nat /\ Values # {} /\ MaxRequests \in Nat

ASSUME PoolConstantsHold == PoolConstants

VARIABLES
  mIdleQueues,       \* the idle queues; they are all alike, so their order is left out
  mRunningCheckers,  \* <<[owner, value, checker, terminated]>>
  stage,             \* per requester: idle, wait, check, over
  value,             \* per requester: the value of its last request
  sleeping,          \* requesters blocked on mIdleQueuesCV
  busy,              \* queues with a session that is not over: ~IsIdle
  requests,          \* per requester: calls of GetChecker so far
  closing            \* the pool's destructor has run its first part

poolVars == <<mIdleQueues, mRunningCheckers, stage, value, sleeping, busy, requests, closing>>

PoolInit ==
  /\ mIdleQueues = Queues
  /\ mRunningCheckers = <<>>
  /\ stage = [r \in Requesters |-> "idle"]
  /\ value = [r \in Requesters |-> CHOOSE v \in Values : TRUE]
  /\ sleeping = {}
  /\ busy = {}
  /\ requests = [r \in Requesters |-> 0]
  /\ closing = FALSE

Indices == DOMAIN mRunningCheckers

\* The checker of a requester: where its guard's queue is in mRunningCheckers.
IndexOf(r) == CHOOSE i \in Indices : mRunningCheckers[i].owner = r

-----------------------------------------------------------------------------
\* The scan for itWorst: least value, the longest running one among equals.
Worse(i, j) ==
  \/ mRunningCheckers[i].value < mRunningCheckers[j].value
  \/ mRunningCheckers[i].value = mRunningCheckers[j].value /\ i < j

ItWorst == CHOOSE i \in Indices : \A j \in Indices \ {i} : Worse(i, j)

TerminatesEqual(i, v) == mRunningCheckers[i].value <= v
Terminates(i, v) == mRunningCheckers[i].value < v

\* wait returns: take an idle queue, register the checker, start the session.
StartChecker(r, v, q) ==
  /\ mRunningCheckers' = Append(mRunningCheckers,
       [owner |-> r, value |-> v, checker |-> q, terminated |-> FALSE])
  /\ mIdleQueues' = mIdleQueues \ {q}
  /\ busy' = busy \union {q}
  /\ stage' = [stage EXCEPT ![r] = "check"]

\* GetChecker up to the wait; with an idle queue it does not block.
GetChecker(r, v) ==
  /\ stage[r] = "idle" /\ ~closing /\ requests[r] < MaxRequests
  /\ requests' = [requests EXCEPT ![r] = @ + 1]
  /\ value' = [value EXCEPT ![r] = v]
  /\ \/ /\ \E q \in mIdleQueues : StartChecker(r, v, q)
        /\ UNCHANGED sleeping
     \/ /\ mIdleQueues = {}
        /\ mRunningCheckers' =
             IF Terminates(ItWorst, v)
               THEN [mRunningCheckers EXCEPT ![ItWorst].terminated = TRUE]
               ELSE mRunningCheckers
        /\ stage' = [stage EXCEPT ![r] = "wait"]
        /\ sleeping' = sleeping \union {r}
        /\ UNCHANGED <<mIdleQueues, busy>>
  /\ UNCHANGED closing

\* Awake in the wait: take a queue if there still is one, else sleep again.
Resume(r) ==
  /\ stage[r] = "wait" /\ r \notin sleeping
  /\ \/ /\ \E q \in mIdleQueues : StartChecker(r, value[r], q)
        /\ UNCHANGED sleeping
     \/ /\ mIdleQueues = {}
        /\ sleeping' = sleeping \union {r}
        /\ UNCHANGED <<mIdleQueues, mRunningCheckers, stage, busy>>
  /\ UNCHANGED <<value, requests, closing>>

\* The session ends in mQueue->Wait(), whether it ran to its verdict or was terminated.
SessionOver(r) ==
  /\ stage[r] = "check"
  /\ busy' = busy \ {mRunningCheckers[IndexOf(r)].checker}
  /\ stage' = [stage EXCEPT ![r] = "over"]
  /\ UNCHANGED <<mIdleQueues, mRunningCheckers, value, sleeping, requests, closing>>

\* notify_one.
NotifiesNobody(remaining) == remaining = sleeping
NotifiesOne(remaining) ==
  IF sleeping = {} THEN remaining = {} ELSE \E r \in sleeping : remaining = sleeping \ {r}

\* vector::erase of the entry whose mChecker is the queue.
ErasedFirst(i) == Tail(mRunningCheckers)
Erased(i) == SubSeq(mRunningCheckers, 1, i - 1) \o
             SubSeq(mRunningCheckers, i + 1, Len(mRunningCheckers))

ReturnQueueToPool(r) ==
  /\ stage[r] = "over"
  /\ LET i == IndexOf(r)
     IN /\ mIdleQueues' = mIdleQueues \union {mRunningCheckers[i].checker}
        /\ mRunningCheckers' = Erased(i)
  /\ stage' = [stage EXCEPT ![r] = "idle"]
  /\ \E remaining \in SUBSET sleeping : NotifiesOne(remaining) /\ sleeping' = remaining
  /\ UNCHANGED <<value, busy, requests, closing>>

\* The destructor, run after the threads that make requests have been stopped: terminate what
\* still runs and (closing) wait for mRunningCheckers to become empty.
Destroy ==
  /\ ~closing /\ \A r \in Requesters : stage[r] # "wait"
  /\ closing' = TRUE
  /\ mRunningCheckers' = [i \in Indices |-> [mRunningCheckers[i] EXCEPT !.terminated = TRUE]]
  /\ UNCHANGED <<mIdleQueues, stage, value, sleeping, busy, requests>>

WakesUp(r) ==
  /\ r \in sleeping
  /\ sleeping' = sleeping \ {r}
  /\ UNCHANGED <<mIdleQueues, mRunningCheckers, stage, value, busy, requests, closing>>

PoolNext ==
  \/ \E r \in Requesters :
       \/ \E v \in Values : GetChecker(r, v)
       \/ Resume(r) \/ SessionOver(r) \/ ReturnQueueToPool(r) \/ WakesUp(r)
  \/ Destroy

PoolSpec == PoolInit /\ [][PoolNext]_poolVars

\* Validations end (a session always does: CheckQueue!WaitReturns) and woken threads run.
PoolFairSpec ==
  PoolSpec /\ \A r \in Requesters : WF_poolVars(Resume(r) \/ SessionOver(r) \/ ReturnQueueToPool(r))

-----------------------------------------------------------------------------
PoolTypeOK ==
  /\ mIdleQueues \subseteq Queues /\ busy \subseteq Queues
  /\ mRunningCheckers \in Seq([owner : Requesters, value : Values, checker : Queues,
                               terminated : BOOLEAN])
  /\ Len(mRunningCheckers) <= Cardinality(Queues)
  /\ stage \in [Requesters -> {"idle", "wait", "check", "over"}]
  /\ value \in [Requesters -> Values]
  /\ sleeping \subseteq {r \in Requesters : stage[r] = "wait"}
  /\ requests \in [Requesters -> 0..MaxRequests]
  /\ closing \in BOOLEAN

\* Every queue is idle or lent to exactly one requester that has not returned it: the asserts
\* on mRunningCheckers (in GetChecker), on IsIdle and on found (in ReturnQueueToPool) hold.
QueuesAccountedFor ==
  /\ mIdleQueues = Queues \ {mRunningCheckers[i].checker : i \in Indices}
  /\ \A i, j \in Indices :
       i # j => /\ mRunningCheckers[i].checker # mRunningCheckers[j].checker
                /\ mRunningCheckers[i].owner # mRunningCheckers[j].owner
  /\ \A r \in Requesters :
       stage[r] \in {"check", "over"} <=> \E i \in Indices : mRunningCheckers[i].owner = r
  /\ busy = {mRunningCheckers[i].checker :
               i \in {k \in Indices : stage[mRunningCheckers[k].owner] = "check"}}

\* Nobody sleeps while a queue is free for it: for every idle queue a woken requester is on
\* its way, or nobody is asleep.
NoRequestForgotten ==
  sleeping # {} => Cardinality(mIdleQueues) <= Cardinality({r \in Requesters : stage[r] = "wait"} \ sleeping)

\* The books of the pool are right in every critical section of mQueuesLock, and no
\* notification of mIdleQueuesCV is missing.
PoolAccounting == PoolTypeOK /\ QueuesAccountedFor /\ NoRequestForgotten

\* A checker is terminated for the sake of a request of greater value only, and never while
\* a checker of less value keeps running untouched.
PreemptedForBetter ==
  [][~closing' =>
       \A i \in Indices \intersect DOMAIN mRunningCheckers' :
         mRunningCheckers'[i].terminated /\ ~mRunningCheckers[i].terminated
           /\ mRunningCheckers'[i].owner = mRunningCheckers[i].owner =>
           /\ \E r \in Requesters : stage'[r] = "wait" /\ value'[r] > mRunningCheckers[i].value
           /\ \A j \in Indices : mRunningCheckers[j].value >= mRunningCheckers[i].value]_poolVars

\* A request whose termination demand was heeded does not wait for nothing: every request is
\* served.
CheckersGranted == \A r \in Requesters : stage[r] = "wait" ~> stage[r] = "check"

\* The destructor comes to an end.
DestructorEnds == closing ~> mRunningCheckers = <<>>

\* Nobody waits for ever in the pool: no request, and no destructor.
PoolProgress == CheckersGranted /\ DestructorEnds
=============================================================================
