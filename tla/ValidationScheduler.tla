------------------------ MODULE ValidationScheduler ------------------------
(***************************************************************************)
(* ValidationScheduler (net/validation_scheduler.cpp): it hands the        *)
(* transactions of one batch to a pool of threads, a transaction after the *)
(* ones of the batch that it spends from, and a chain of transactions as   *)
(* one task.  A position is an index into the batch.                       *)
(*                                                                         *)
(* Only the thread that calls Schedule() writes this state, the queue of   *)
(* completed tasks apart, so one turn of its loop is one action.  The map  *)
(* of spenders is built by a thread of its own: `k' is the first position  *)
(* whose scan finds it ready, 0 when the turn begins with it ready.        *)
(***************************************************************************)
EXTENDS Integers, Sequences, FiniteSets, SequencesExt

CONSTANTS
  Transactions,
  Spends,           \* of a transaction: set of outputs <<transaction or coin, index>>
  MaxToSchedule     \* MAX_TO_SCHEDULE

VARIABLES
  txs,                  \* the batch
  txStatuses,           \* by position
  tasks,                \* of the pool: [chain, at, step], the positions of the task
  taskCompletionQueue,  \* set of chains
  numTasksScheduled,
  posUnhandled, scanPos,
  spendersReady

schedulerVars == <<txs, txStatuses, tasks, taskCompletionQueue, numTasksScheduled,
                   posUnhandled, scanPos, spendersReady>>

Parents(t) == {o[1] : o \in Spends[t]} \cap Transactions
Positions == DOMAIN txs
BatchHas(t) == \E i \in Positions : txs[i] = t
\* txIdToPos: of a transaction that is in the batch twice, the last position
PosOf(t) == CHOOSE i \in Positions : txs[i] = t /\ \A j \in Positions : txs[j] = t => j <= i
\* What BuildSpendersMap puts into the map for a position
SpendersOf(i) == {j \in Positions : txs[i] \in Parents(txs[j]) /\ PosOf(txs[i]) = i}

NoBatch ==
  /\ txs = <<>> /\ txStatuses = <<>> /\ tasks = {} /\ taskCompletionQueue = {}
  /\ numTasksScheduled = 0 /\ posUnhandled = 1 /\ scanPos = 1 /\ spendersReady = FALSE

NewBatch(batch) ==
  /\ txs' = batch
  /\ txStatuses' = [i \in DOMAIN batch |-> "NOT_STARTED"]
  /\ tasks' = {} /\ taskCompletionQueue' = {}
  /\ numTasksScheduled' = 0 /\ posUnhandled' = 1 /\ scanPos' = 1 /\ spendersReady' = FALSE

\* A mutant: a parent that is being validated is taken for a validated one.
IgnoresRunning(st, i, prev) ==
  /\ st[i] = "NOT_STARTED"
  /\ \A p \in Parents(txs[i]) : BatchHas(p) => st[PosOf(p)] # "NOT_STARTED" \/ p \in prev

\* `prev' is the transaction before it in the same task, as a set
CanStartValidation(st, i, prev) ==
  /\ st[i] = "NOT_STARTED"
  /\ \A p \in Parents(txs[i]) : BatchHas(p) =>
       CASE st[PosOf(p)] = "IN_PROGRESS" -> FALSE
         [] st[PosOf(p)] = "DONE" -> TRUE
         [] st[PosOf(p)] = "NOT_STARTED" -> p \in prev

\* The chain of only spenders that ScheduleChain submits with a position
RECURSIVE ChainFrom(_, _)
ChainFrom(st, i) ==
  LET next == CHOOSE j \in SpendersOf(i) : TRUE
  IN  IF Cardinality(SpendersOf(i)) = 1 /\ CanStartValidation(st, next, {txs[i]})
      THEN <<i>> \o ChainFrom(st, next)
      ELSE <<i>>

\* The first position from which a transaction is not started
FirstUnhandled(st, from) ==
  CHOOSE i \in from .. Len(txs) + 1 :
    /\ i <= Len(txs) => st[i] = "NOT_STARTED"
    /\ \A j \in from .. i - 1 : st[j] # "NOT_STARTED"

\* A mutant: the scan is not started again.
NeverRescans(pos) == FALSE

\* The scan has been through the batch and starts a new cycle.
NewCycle(pos) == pos > Len(txs)

\* One turn of the loop of Schedule().  Neither ScheduleGraph nor ScanTransactions
\* makes another transaction ready: one that spends from a transaction just
\* submitted waits for it, or is in its chain.  So each submits a set.
ScheduleTurn(k) ==
  /\ posUnhandled <= Len(txs)
  /\ k \in (IF spendersReady THEN {0} ELSE 0 .. Len(txs) + 1)
  /\ LET finished == UNION {ToSet(c) : c \in taskCompletionQueue}
         st == [i \in Positions |-> IF i \in finished THEN "DONE" ELSE txStatuses[i]]
         ready == {i \in Positions : CanStartValidation(st, i, {})}
         graph == IF k = 0 THEN ready \cap UNION {SpendersOf(Last(c)) : c \in taskCompletionQueue}
                  ELSE {}
         inGraph == UNION {ToSet(ChainFrom(st, i)) : i \in graph}
         unhandled == IF NewCycle(scanPos)
                      THEN FirstUnhandled([i \in Positions |-> IF i \in inGraph THEN "IN_PROGRESS"
                                                               ELSE st[i]], posUnhandled)
                      ELSE posUnhandled
         from == IF NewCycle(scanPos) THEN unhandled ELSE scanPos
         room == MaxToSchedule
                   - (numTasksScheduled - Cardinality(taskCompletionQueue) + Cardinality(graph))
         free == {i \in ready \ graph : i >= from}
         scan == {i \in free : Cardinality({j \in free : j < i}) < room}
         chains == {ChainFrom(st, i) : i \in graph}
                     \cup {IF k <= i THEN ChainFrom(st, i) ELSE <<i>> : i \in scan}
         started == UNION {ToSet(c) : c \in chains}
     IN  /\ txStatuses' = [i \in Positions |-> IF i \in started THEN "IN_PROGRESS" ELSE st[i]]
         /\ numTasksScheduled' =
              numTasksScheduled - Cardinality(taskCompletionQueue) + Cardinality(chains)
         /\ tasks' = tasks \cup {[chain |-> c, at |-> 1, step |-> "validate"] : c \in chains}
         /\ scanPos' = IF room <= 0 THEN from
                       ELSE IF Cardinality(free) < room THEN Len(txs) + 1
                       ELSE 1 + CHOOSE i \in scan : \A j \in scan : j <= i
         /\ posUnhandled' = unhandled
         /\ spendersReady' = (k <= Len(txs))
         /\ taskCompletionQueue' = {}
         /\ UNCHANGED txs

\* MarkResult: a task that ends tells the scheduler, if it is still there.
MarkResult(chain) ==
  taskCompletionQueue' = IF posUnhandled <= Len(txs)
                         THEN taskCompletionQueue \cup {chain} ELSE taskCompletionQueue
============================================================================
