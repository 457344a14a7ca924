-------------------------- MODULE ThreadSafeQueue --------------------------
(***************************************************************************)
(* CThreadSafeQueue (thread_safe_queue.h): a bounded first-in first-out    *)
(* queue guarded by one mutex with two condition variables.  onPop is      *)
(* where producers sleep until there is room, onPush where consumers sleep *)
(* until there is data.  A critical section of the mutex is one action; a  *)
(* thread that sleeps is a member of the set of waiters of its condition   *)
(* variable until a notification takes it out, and then evaluates its      *)
(* predicate again.  The module holds the operations its users call.       *)
(*                                                                         *)
(* Every value has size 1, as every value of TaskQueue has size            *)
(* sizeof(Task); currentSize is kept apart from the length of the queue,   *)
(* as in the code, because the producers' predicate reads currentSize.     *)
(***************************************************************************)
EXTENDS Naturals, Sequences

CONSTANT MaximalSize

ASSUME MaximalSizeAssumption == MaximalSize \in Nat \ {0}

VARIABLES
  theQueue,       \* the values
  currentSize,    \* their size, as the code counts it
  isClosed,
  onPopWaiters,   \* producers asleep in WaitForSpaceInQueue
  onPushWaiters   \* consumers asleep in WaitForDataInQueue

queueVars == <<theQueue, currentSize, isClosed, onPopWaiters, onPushWaiters>>

EmptyQueue ==
  /\ theQueue = <<>>
  /\ currentSize = 0
  /\ isClosed = FALSE
  /\ onPopWaiters = {}
  /\ onPushWaiters = {}

\* What is left of a set of sleepers after notify_one: the system chooses.
NotifyOne(waiters) == IF waiters = {} THEN {{}} ELSE {waiters \ {t} : t \in waiters}

HasSpace(n) == currentSize + n <= MaximalSize

\* PushWait and PushManyWait by thread t, the sequence s: append ...
Push(t, s) ==
  /\ t \notin onPopWaiters
  /\ ~isClosed /\ HasSpace(Len(s))
  /\ theQueue' = theQueue \o s
  /\ currentSize' = currentSize + Len(s)
  /\ IF Len(s) = 1 THEN onPushWaiters' \in NotifyOne(onPushWaiters) ELSE onPushWaiters' = {}
  /\ UNCHANGED <<isClosed, onPopWaiters>>

\* ... or sleep until something is popped ...
PushSleeps(t, s) ==
  /\ t \notin onPopWaiters
  /\ Len(s) <= MaximalSize
  /\ ~isClosed /\ ~HasSpace(Len(s))
  /\ onPopWaiters' = onPopWaiters \cup {t}
  /\ UNCHANGED <<theQueue, currentSize, isClosed, onPushWaiters>>

\* ... or return false.
PushFails(t, s) == t \notin onPopWaiters /\ (isClosed \/ Len(s) > MaximalSize)

\* A mutant: only the queue is emptied, the size is not reset.
PopAllKeepsSize(t) ==
  /\ t \notin onPushWaiters
  /\ theQueue # <<>>
  /\ theQueue' = <<>>
  /\ onPopWaiters' = {}
  /\ UNCHANGED <<currentSize, isClosed, onPushWaiters>>

\* PopAllWait by thread t: takes the whole queue and tells every producer ...
PopAll(t) ==
  /\ t \notin onPushWaiters
  /\ theQueue # <<>>
  /\ theQueue' = <<>>
  /\ currentSize' = 0
  /\ onPopWaiters' = {}
  /\ UNCHANGED <<isClosed, onPushWaiters>>

\* ... or sleeps until something is pushed ...
PopSleeps(t) ==
  /\ t \notin onPushWaiters
  /\ theQueue = <<>> /\ ~isClosed
  /\ onPushWaiters' = onPushWaiters \cup {t}
  /\ UNCHANGED <<theQueue, currentSize, isClosed, onPopWaiters>>

\* ... or returns nothing.
PopEnds(t) == t \notin onPushWaiters /\ theQueue = <<>> /\ isClosed

\* ReplaceContent: what was queued is dropped, sleepers of both kinds are told.
ReplaceContent(s) ==
  /\ ~isClosed /\ Len(s) <= MaximalSize
  /\ theQueue' = s
  /\ currentSize' = Len(s)
  /\ onPopWaiters' = {}
  /\ onPushWaiters' = {}
  /\ UNCHANGED isClosed

Close(dropValues) ==
  /\ isClosed' = TRUE
  /\ theQueue' = IF dropValues THEN <<>> ELSE theQueue
  /\ currentSize' = IF dropValues THEN 0 ELSE currentSize
  /\ onPopWaiters' = {}
  /\ onPushWaiters' = {}
============================================================================
