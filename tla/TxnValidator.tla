---------------------------- MODULE TxnValidator ----------------------------
(***************************************************************************)
(* CTxnValidator (txn_validator.cpp) and the validation tasks it runs      *)
(* (TxnValidation, ProcessValidatedTxn and their helpers of                *)
(* validation.cpp), with the double spend detector                         *)
(* (txn_double_spend_detector.cpp), the orphan pool and the scheduler.     *)
(*                                                                         *)
(* mMainMtx is held through an asynchronous cycle and through a            *)
(* synchronous call, so one batch is validated at a time: `mode' says      *)
(* whose.  A cycle fills its queues again after it has released cs_main    *)
(* and before it releases mMainMtx: imdResult.due.  The tasks of a batch   *)
(* run in parallel, each action of theirs one critical section of the      *)
(* mempool, the detector or the orphan pool; a transaction that fails is   *)
(* dealt with in the step that finds it.  A CTxInputData from a peer is    *)
(* identified with its transaction: the TxIdTracker lets one exist at a    *)
(* time.  Blocks are left out: cs_main is held while a batch is validated. *)
(* Tasks are scheduled by TOPO_SORT, the default strategy.                 *)
(***************************************************************************)
EXTENDS OrphanTxns

CONSTANTS
  Bad,              \* transactions with an invalid script
  MayTimeOut,       \* transactions whose validation may take too long
  Submitted,        \* sequences of transactions that synchronous calls submit
  MaxQueue,         \* mMaxQueueMemSize, in transactions
  MaxStd, MaxNonStd,   \* transactions scheduled in one cycle from each queue
  MaxArrivals,      \* bound on the times a transaction arrives
  MaxMishaps        \* bound on the times the mempool is trimmed, an exception is
                    \* thrown, a peer leaves or the rejects are forgotten

VARIABLES
  mStdTxns, mNonStdTxns, mProcessingQueue,
  imdResult,        \* what the cycle has still to put into its queues
  lowPriority,      \* transactions whose TxValidationPriority is low, the others high
  gone,             \* peers that disconnected
  mode,             \* idle, async, batch, or answered: the batch call is about to return
  result,           \* by position of the batch
  mempool,
  mKnownSpends,     \* transactions whose inputs are in the double spend detector
  rejects,          \* CTxnRecentRejects
  timeUp,           \* the cycle's tasks are out of time
  sync,             \* the synchronous call: [asked, invalid, removed], and what expired in it
  untold,           \* accepted without telling the p2p orphan pool, or lost to an exception
  twice,            \* history: transactions that were in one batch twice
  arrivals, mishaps

validatorVars ==
  <<schedulerVars, orphanVars, mStdTxns, mNonStdTxns, mProcessingQueue, imdResult, lowPriority,
    gone, mode, result, mempool, mKnownSpends, rejects, timeUp, sync, untold, twice, arrivals, mishaps>>

Mishap == mishaps < MaxMishaps /\ mishaps' = mishaps + 1

queueVars == <<mStdTxns, mNonStdTxns, mProcessingQueue, imdResult>>
countVars == <<arrivals, mishaps>>

NoResult == [due |-> FALSE, low |-> {}, cancelled |-> <<>>]
NoCall == [asked |-> {}, invalid |-> {}, removed |-> {}, expired |-> {}]

ValidatorInit ==
  /\ NoBatch /\ NoOrphans
  /\ mStdTxns = <<>> /\ mNonStdTxns = <<>> /\ mProcessingQueue = <<>> /\ imdResult = NoResult
  /\ lowPriority = {} /\ gone = {}
  /\ mode = "idle" /\ result = <<>> /\ timeUp = FALSE /\ sync = NoCall
  /\ mempool = {} /\ mKnownSpends = {} /\ rejects = {} /\ untold = {} /\ twice = {}
  /\ arrivals = [t \in Transactions |-> 0] /\ mishaps = 0

Conflicts(t, u) == Spends[t] \cap Spends[u] # {}
Available(t) == Parents(t) \subseteq mempool
\* The orphan pool of the batch's handlers
Handler == IF mode = "batch" THEN "batch" ELSE "p2p"
Queued == ToSet(mStdTxns) \cup ToSet(mNonStdTxns) \cup ToSet(mProcessingQueue)
\* The TxIdTracker holds the transactions with a CTxInputData.
Tracked == Queued \cup mOrphanTxns["p2p"] \cup sync.asked
----------------------------------------------------------------------------
(* Arrivals.                                                               *)

\* ProcessTxMessage for a transaction that IsTxnKnown does not know.  A full
\* queue drops it.
newTransaction(t) ==
  /\ t \notin rejects \cup mempool \cup Tracked
  /\ From[t] \notin gone
  /\ arrivals[t] < MaxArrivals
  /\ arrivals' = [arrivals EXCEPT ![t] = @ + 1]
  /\ lowPriority' = lowPriority \ {t} /\ mfOrphan' = mfOrphan \ {t}
  /\ mStdTxns' = IF Len(mStdTxns) < MaxQueue THEN Append(mStdTxns, t) ELSE mStdTxns
  /\ UNCHANGED <<schedulerVars, mOrphanTxns, mCollectedTxData, mNonStdTxns, mProcessingQueue,
                 imdResult, gone, mode, result, mempool, mKnownSpends, rejects, timeUp, sync, untold, twice, mishaps>>

\* FinalizeNode: EraseOrphanTxnsFromPeer.
PeerLeaves(n) ==
  /\ n \notin gone /\ Mishap
  /\ gone' = gone \cup {n}
  /\ mOrphanTxns' = [mOrphanTxns EXCEPT !["p2p"] = eraseTxnsFromPeer(n)]
  /\ UNCHANGED <<schedulerVars, mCollectedTxData, mfOrphan, queueVars, lowPriority, mode, result,
                 mempool, mKnownSpends, rejects, timeUp, sync, untold, twice, arrivals>>

\* The rejects are forgotten when the tip has changed.
ResetRecentRejects ==
  /\ rejects # {} /\ rejects' = {} /\ Mishap
  /\ UNCHANGED <<schedulerVars, orphanVars, queueVars, lowPriority, gone, mode, result, mempool,
                 mKnownSpends, timeUp, sync, untold, twice, arrivals>>
----------------------------------------------------------------------------
(* A cycle of threadNewTxnHandler, and the synchronous calls.              *)

\* collectTxns: a queue gives its first transactions if there is room.
Taken(queue, size, max) == IF size < MaxStd + MaxNonStd
                           THEN SubSeq(queue, 1, IF Len(queue) < max THEN Len(queue) ELSE max)
                           ELSE <<>>

StartCycle ==
  LET std == Taken(mStdTxns, Len(mProcessingQueue), MaxStd)
      nonStd == Taken(mNonStdTxns, Len(mProcessingQueue) + Len(std), MaxNonStd)
      queue == mProcessingQueue \o std \o nonStd
  IN  /\ mode = "idle" /\ ~imdResult.due
      /\ queue # <<>> \/ mCollectedTxData["p2p"] # {}
      /\ mode' = "async" /\ timeUp' = FALSE
      /\ mStdTxns' = SubSeq(mStdTxns, Len(std) + 1, Len(mStdTxns))
      /\ mNonStdTxns' = SubSeq(mNonStdTxns, Len(nonStd) + 1, Len(mNonStdTxns))
      /\ mProcessingQueue' = queue
      /\ NewBatch(queue)
      /\ result' = [i \in DOMAIN queue |-> "none"]
      /\ twice' = twice \cup {queue[i] : i \in {j \in DOMAIN queue : \E k \in 1 .. j - 1 : queue[k] = queue[j]}}
      /\ UNCHANGED <<orphanVars, imdResult, lowPriority, gone, mempool, mKnownSpends, rejects,
                     sync, untold, countVars>>

\* processValidation of a set of transactions: the first turn of its loop.
StartBatch(batch) ==
  /\ mode = "idle" /\ ~imdResult.due /\ mode' = "batch"
  /\ ToSet(batch) \cap mempool = {}
  /\ sync' = [NoCall EXCEPT !.asked = ToSet(batch)]
  /\ mOrphanTxns' = [mOrphanTxns EXCEPT !["batch"] = {}]
  /\ NewBatch(batch)
  /\ result' = [i \in DOMAIN batch |-> "none"]
  /\ UNCHANGED <<mCollectedTxData, mfOrphan, queueVars, lowPriority, gone, mempool, mKnownSpends,
                 rejects, timeUp, untold, twice, countVars>>

Schedule == 
  /\ mode # "idle"
  /\ \E k \in 0 .. Len(txs) + 1 : ScheduleTurn(k)
  /\ UNCHANGED <<orphanVars, queueVars, lowPriority, gone, mode, result, mempool, mKnownSpends,
                 rejects, timeUp, sync, untold, twice, countVars>>
----------------------------------------------------------------------------
(* A task: TxnValidationProcessingTask.                                    *)

Pos(task) == task.chain[task.at]
Tx(task) == txs[Pos(task)]

Advance(task, step) == tasks' = (tasks \ {task}) \cup {[task EXCEPT !.step = step]}

\* The transaction has its result: on to the next one of the chain.
Ends(task, r) ==
  /\ result' = [result EXCEPT ![Pos(task)] = r]
  /\ IF task.at = Len(task.chain)
     THEN tasks' = tasks \ {task} /\ MarkResult(task.chain)
     ELSE /\ tasks' = (tasks \ {task})
                        \cup {[task EXCEPT !.at = @ + 1, !.step = "validate"]}
          /\ UNCHANGED taskCompletionQueue
  /\ UNCHANGED <<txs, txStatuses, numTasksScheduled, posUnhandled, scanPos, spendersReady>>

\* Whether the validation of t is over: a high priority that ran out of time
\* is tried again with low priority.
Completed(t, r) == r # "timeout" \/ t \in lowPriority

\* HandleInvalidP2POrphanTxn
HandleInvalidP2POrphanTxn(t, r) ==
  LET out == IF r = "missing" THEN mOrphanTxns["p2p"]
             ELSE IF r = "bad" THEN eraseTxnsFromPeer(From[t])
             ELSE IF Completed(t, r) THEN eraseTxn("p2p", t)
             ELSE mOrphanTxns["p2p"]
  IN  /\ mOrphanTxns' = [mOrphanTxns EXCEPT !["p2p"] = out]
      /\ rejects' = IF r # "missing" /\ Completed(t, r) THEN rejects \cup {t} ELSE rejects
      /\ UNCHANGED mfOrphan

\* HandleOrphanAndRejectedP2PTxns
HandleOrphanAndRejectedP2PTxns(t) ==
  IF Parents(t) \cap rejects # {}
  THEN rejects' = rejects \cup {t} /\ UNCHANGED <<mOrphanTxns, mfOrphan>>
  ELSE /\ \E kept \in limitTxnsSize(addTxn("p2p", t)) :
            mOrphanTxns' = [mOrphanTxns EXCEPT !["p2p"] = kept]
       /\ mfOrphan' = mfOrphan \cup {t}
       /\ UNCHANGED rejects

\* HandleInvalidP2PNonOrphanTxn and HandleInvalidStateForP2PNonOrphanTxn
HandleInvalidP2PNonOrphanTxn(t, r) ==
  IF r = "missing"
  THEN HandleOrphanAndRejectedP2PTxns(t)
  ELSE /\ rejects' = IF Completed(t, r) THEN rejects \cup {t} ELSE rejects
       /\ UNCHANGED <<mOrphanTxns, mfOrphan>>

\* ProcessValidatedTxn for a transaction that failed.  The node of a peer that
\* left may or may not still be there.
Fails(task, r) ==
  LET t == Tx(task) IN
  /\ \/ /\ mode = "batch"
        /\ mOrphanTxns' = [mOrphanTxns EXCEPT !["batch"] =
                             IF r = "missing" THEN addTxn("batch", t) ELSE @]
        /\ UNCHANGED <<mfOrphan, rejects>>
     \/ mode = "async" /\ From[t] \in gone /\ UNCHANGED <<mOrphanTxns, mfOrphan, rejects>>
     \/ mode = "async" /\ t \in mfOrphan /\ HandleInvalidP2POrphanTxn(t, r)
     \/ mode = "async" /\ t \notin mfOrphan /\ HandleInvalidP2PNonOrphanTxn(t, r)
  /\ mKnownSpends' = mKnownSpends \ {t}
  /\ Ends(task, r)
  /\ UNCHANGED <<mCollectedTxData, mempool, untold, mishaps>>

ValidState(r) == r \in {"valid", "cancelled"}

\* The chain has gone well so far: it may be cancelled.
MayCancel(task) == task.at > 1 => ValidState(result[task.chain[task.at - 1]])

taskUnchanged == <<queueVars, lowPriority, gone, mode, sync, twice, arrivals>>

Cancel(task) ==
  /\ task.step = "validate" /\ mode = "async" /\ MayCancel(task)
  /\ timeUp' = TRUE
  /\ Ends(task, "cancelled")
  /\ UNCHANGED <<taskUnchanged, orphanVars, mempool, mKnownSpends, rejects, untold, mishaps>>

\* TxnValidation up to the double spend detector.
TxnValidation(task) ==
  LET t == Tx(task)
      passes == /\ t \notin mempool
                /\ \A u \in mempool : ~Conflicts(t, u)
                /\ Available(t)
      r == CASE t \in mempool -> "invalid"
             [] \E u \in mempool : Conflicts(t, u) -> "invalid"
             [] ~Available(t) -> "missing"
             [] OTHER -> "bad"
  IN  /\ task.step = "validate"
      /\ timeUp => ~MayCancel(task)
      /\ \/ /\ passes /\ t \notin Bad
            /\ Advance(task, "insert")
            /\ UNCHANGED <<txs, txStatuses, taskCompletionQueue, numTasksScheduled, posUnhandled,
                           scanPos, spendersReady, orphanVars, result, mempool, mKnownSpends,
                           rejects, untold, mishaps>>
         \/ (passes => t \in Bad) /\ Fails(task, r)
         \/ passes /\ mode = "async" /\ t \in MayTimeOut /\ Fails(task, "timeout")
      /\ UNCHANGED <<taskUnchanged, timeUp>>

\* A mutant: the transactions that other tasks are about to commit are not looked at.
MempoolOnly(t) == \A u \in mempool : ~Conflicts(t, u)

\* insertTxnInputs of the double spend detector succeeds.
InsertTxnInputs(t) == \A u \in mempool \cup mKnownSpends : ~Conflicts(t, u)

CheckDoubleSpend(task) ==
  LET t == Tx(task) IN
  /\ task.step = "insert"
  /\ IF InsertTxnInputs(t)
     THEN /\ mKnownSpends' = mKnownSpends \cup {t}
          /\ Advance(task, "commit")
          /\ UNCHANGED <<txs, txStatuses, taskCompletionQueue, numTasksScheduled, posUnhandled,
                         scanPos, spendersReady, orphanVars, result, mempool, rejects, untold, mishaps>>
     ELSE Fails(task, "invalid")
  /\ UNCHANGED <<taskUnchanged, timeUp>>

CommitTxToMempool(task) ==
  /\ task.step = "commit"
  /\ mempool' = mempool \cup {Tx(task)}
  /\ untold' = untold \ {Tx(task)}
  /\ Advance(task, "finish")
  /\ UNCHANGED <<txs, txStatuses, taskCompletionQueue, numTasksScheduled, posUnhandled, scanPos,
                 spendersReady, orphanVars, result, mKnownSpends, rejects, mishaps, taskUnchanged,
                 timeUp>>

\* The rest of ProcessValidatedTxn: collectTxData, eraseTxn, removeTxnInputs.
Accepted(task) ==
  LET t == Tx(task) IN
  /\ task.step = "finish"
  /\ mCollectedTxData' = [mCollectedTxData EXCEPT ![Handler] = @ \cup {t}]
  /\ mOrphanTxns' = [mOrphanTxns EXCEPT ![Handler] = eraseTxn(Handler, t)]
  /\ mKnownSpends' = mKnownSpends \ {t}
  /\ untold' = IF mode = "batch" THEN untold \cup {t} ELSE untold
  /\ Ends(task, "valid")
  /\ UNCHANGED <<mfOrphan, mempool, rejects, mishaps, taskUnchanged, timeUp>>

\* HandleTxnProcessingException
Throws(task) ==
  LET t == Tx(task) IN
  /\ Mishap
  /\ timeUp => ~MayCancel(task)
  /\ mKnownSpends' = mKnownSpends \ {t}
  /\ untold' = untold \cup {t}
  /\ Ends(task, "faulted")
  /\ UNCHANGED <<orphanVars, mempool, rejects, taskUnchanged, timeUp>>
----------------------------------------------------------------------------
(* The end of a batch.                                                     *)

Of(r) == {txs[i] : i \in {j \in Positions : result[j] = r}}
Cancelled == LET is == SelectSeq([i \in Positions |-> i], LAMBDA i : result[i] = "cancelled")
             IN  [k \in DOMAIN is |-> txs[is[k]]]

BatchDone == posUnhandled > Len(txs) /\ \A i \in Positions : result[i] # "none"

\* Sets of transactions of a pool with the ones that spend from them
WithSpenders(pool) == {s \in SUBSET pool : \A u \in pool : Parents(u) \cap s # {} => u \in s}

\* What LimitMempoolSize may do to a pool: old transactions expire, and then
\* others are removed until the pool is small enough.  It reports the latter.
LimitMempoolSize(pool) ==
  {[expired |-> {}, removed |-> {}]} \cup
  UNION {{[expired |-> e, removed |-> r] : r \in WithSpenders(pool \ e)} :
           e \in IF mishaps < MaxMishaps THEN WithSpenders(pool) ELSE {}}
Limited(cut) == cut.expired \cup cut.removed
CountLimit(cut) == mishaps' = IF Limited(cut) = {} THEN mishaps ELSE mishaps + 1

\* postValidationStepsNL makes these low.
DetectedLow == Of("timeout") \ lowPriority

\* enqueueNonStdTxnNL for each of a sequence
EnqueueNonStd(seq) ==
  mNonStdTxns' = mNonStdTxns \o SubSeq(seq, 1, IF Len(mNonStdTxns) + Len(seq) <= MaxQueue THEN Len(seq)
                                            ELSE MaxQueue - Len(mNonStdTxns))

\* scheduleOrphanP2PTxnsForReprocessing leaves out the cancelled ones.
NotCancelled(orphans) == SelectSeq(orphans, LAMBDA t : t \notin ToSet(imdResult.cancelled))

\* A mutant: what was collected is dropped once the mempool has been trimmed.
DropsCollected(removed) == IF removed = {} THEN mCollectedTxData["p2p"] ELSE {}

\* eraseCollectedTxDataFromTxns
KeptCollected(removed) == mCollectedTxData["p2p"] \ removed

\* The rest of what the cycle does with cs_main: postValidationStepsNL,
\* LimitMempoolSize, postProcessingStepsNL ...
EndBatch ==
  /\ mode = "async" /\ BatchDone /\ mode' = "idle"
  /\ \E cut \in LimitMempoolSize(IF txs = <<>> THEN {} ELSE mempool) :
       /\ CountLimit(cut)
       /\ mempool' = mempool \ Limited(cut)
       /\ mCollectedTxData' = [mCollectedTxData EXCEPT !["p2p"] = KeptCollected(cut.removed)]
  /\ lowPriority' = lowPriority \cup DetectedLow
  /\ imdResult' = [due |-> TRUE, low |-> DetectedLow, cancelled |-> Cancelled]
  /\ NewBatch(<<>>) /\ result' = <<>> /\ timeUp' = FALSE
  /\ UNCHANGED <<mOrphanTxns, mfOrphan, mStdTxns, mNonStdTxns, mProcessingQueue, gone,
                 mKnownSpends, rejects, sync, untold, twice, arrivals>>

\* ... and without cs_main: the low priority goes to its queue, and the orphans that
\* may have their parents now and the cancelled are the next processing queue.
\* The CTxInputData of the others go.
EndCycle ==
  /\ imdResult.due /\ imdResult' = NoResult
  /\ EnqueueNonStd(SetToSeq(imdResult.low))
  /\ \E orphans \in collectDependentTxnsForRetry("p2p", mCollectedTxData["p2p"]) :
       mProcessingQueue' = NotCancelled(orphans) \o imdResult.cancelled
  /\ mCollectedTxData' = [mCollectedTxData EXCEPT !["p2p"] = {}]
  /\ UNCHANGED <<schedulerVars, mOrphanTxns, mStdTxns, gone, mode, result, mempool,
                 mKnownSpends, rejects, timeUp, sync, untold, twice, countVars>>
  /\ lowPriority' = lowPriority \cap Tracked' /\ mfOrphan' = mfOrphan \cap Tracked'

\* An exception after the tasks, before or after LimitMempoolSize and the steps
\* that follow it, is caught by the loop: the swap is skipped.
CycleThrows ==
  /\ mode = "async" /\ BatchDone /\ txs # <<>> /\ mode' = "idle"
  /\ Mishap
  /\ \E cut \in LimitMempoolSize(mempool) :
       /\ mempool' = mempool \ Limited(cut)
       /\ mCollectedTxData' \in {mCollectedTxData,
                                [mCollectedTxData EXCEPT !["p2p"] = KeptCollected(cut.removed)]}
  /\ lowPriority' = lowPriority \cup DetectedLow
  /\ NewBatch(<<>>) /\ result' = <<>> /\ timeUp' = FALSE
  /\ UNCHANGED <<mOrphanTxns, mfOrphan, queueVars, gone, mKnownSpends, rejects, sync, untold, twice,
                 arrivals>>

\* A mutant: the orphans that are left are not reported.
NoTxIds == {}

\* getTxIds of the temporary pool: reported as missing inputs
getTxIds == mOrphanTxns["batch"]

\* One turn of the loop of a synchronous batch: the orphans of its temporary
\* pool are tried again while a transaction they spend from was accepted.
EndTurn ==
  LET invalid == sync.invalid \cup Of("invalid") \cup Of("bad") \cup Of("faulted") IN
  /\ mode = "batch" /\ BatchDone
  /\ \E orphans \in collectDependentTxnsForRetry("batch", mCollectedTxData["batch"]) :
       /\ NewBatch(orphans)
       /\ result' = [i \in DOMAIN orphans |-> "none"]
       /\ \/ /\ orphans # <<>>
             /\ sync' = [sync EXCEPT !.invalid = invalid]
             /\ UNCHANGED <<mode, mempool, mishaps>>
          \/ /\ orphans = <<>> /\ mode' = "answered"
             /\ \E cut \in LimitMempoolSize(mempool) :
                  /\ CountLimit(cut)
                  /\ mempool' = mempool \ Limited(cut)
                  /\ sync' = [sync EXCEPT !.invalid = invalid \cup getTxIds,
                                          !.removed = cut.removed, !.expired = cut.expired]
  /\ mCollectedTxData' = [mCollectedTxData EXCEPT !["batch"] = {}]
  /\ UNCHANGED <<mOrphanTxns, mfOrphan, queueVars, lowPriority, gone, mKnownSpends, rejects,
                 timeUp, untold, twice, arrivals>>

Return ==
  /\ mode = "answered" /\ mode' = "idle"
  /\ sync' = NoCall
  /\ mOrphanTxns' = [mOrphanTxns EXCEPT !["batch"] = {}]
  /\ UNCHANGED <<schedulerVars, mCollectedTxData, mfOrphan, queueVars, lowPriority, gone, result,
                 mempool, mKnownSpends, rejects, timeUp, untold, twice, countVars>>

\* processValidation of one transaction, under cs_main and mMainMtx: no orphan
\* pool, and CommitTxToMempool trims.
processValidation(t) ==
  /\ mode = "idle" /\ ~imdResult.due /\ t \notin mempool \cup Bad
  /\ Available(t) /\ InsertTxnInputs(t)
  /\ \E cut \in LimitMempoolSize(mempool \cup {t}) :
       /\ CountLimit(cut)
       /\ mempool' = (mempool \cup {t}) \ Limited(cut)
  /\ untold' = untold \cup {t}
  /\ UNCHANGED <<schedulerVars, orphanVars, queueVars, lowPriority, gone, mode, result,
                 mKnownSpends, rejects, timeUp, sync, twice, arrivals>>
----------------------------------------------------------------------------
TaskStep(task) == \/ Accepted(task) \/ CommitTxToMempool(task) \/ CheckDoubleSpend(task)
                  \/ TxnValidation(task) \/ Cancel(task) \/ Throws(task)

\* What the validator's threads do with the batch they have
BatchStep == (\E task \in tasks : TaskStep(task)) \/ Return \/ CycleThrows \/ EndBatch
             \/ EndCycle \/ EndTurn \/ Schedule

ValidatorNext ==
  \/ \E t \in Transactions : newTransaction(t)
  \/ \E n \in Range(From) : PeerLeaves(n)
  \/ ResetRecentRejects
  \/ StartCycle
  \/ \E batch \in Submitted : \/ Len(batch) = 1 /\ processValidation(batch[1])
                              \/ Len(batch) > 1 /\ StartBatch(batch)
  \/ BatchStep

ValidatorSpec == ValidatorInit /\ [][ValidatorNext]_validatorVars

\* The threads of the pool and the caller of the scheduler keep running.
ValidatorFairSpec == ValidatorSpec /\ WF_validatorVars(BatchStep)
----------------------------------------------------------------------------
(* Properties.                                                             *)

\* However the tasks of a batch interleave, the mempool never holds two
\* transactions that spend the same output, nor one without its parents: the
\* double spend detector knows a transaction from before its last check until
\* after its commit.  Two that conflict may both be there only if one of them
\* was in a batch twice: the copy that fails makes the detector forget the inputs
\* of the other.
MempoolConsistent ==
  \A t \in mempool : /\ Parents(t) \subseteq mempool
                     /\ \A u \in mempool : t # u /\ Conflicts(t, u) => {t, u} \cap twice # {}

\* Between cycles an orphan all of whose parents are in the mempool is queued, or
\* will be found by the next cycle: cancellations, exceptions, a full pool,
\* trimming, arrivals in any order do not strand it.  Left out are orphans of
\* peers that left, the low priority, and `untold': a parent that came through a
\* synchronous call, of which this pool is not told, and a transaction or a parent
\* whose task ended in an exception, which skips telling the pool.
NoOrphanLeftBehind ==
  mode = "idle" =>
    \A o \in mOrphanTxns["p2p"] :
      \/ ~Available(o) \/ o \in mempool \cup untold \cup lowPriority \/ From[o] \in gone
      \/ Parents(o) \cap untold # {}
      \/ o \in Queued
      \/ Parents(o) \cap mCollectedTxData["p2p"] # {}

\* A transaction is validated after the transactions of its batch it spends from
\* have their results, whatever tasks ran in between.
ParentsFirst ==
  \A task \in tasks : \A p \in Parents(Tx(task)) : BatchHas(p) => result[PosOf(p)] # "none"

\* A synchronous batch answers for every transaction it was given: it is in the
\* mempool, or reported as evicted or as invalid.  Left out is one that expired,
\* or spends from one that did, when the pool was limited at the end: Expire
\* returns a number, and LimitMempoolSize does not report what it removed.
BatchAccounted ==
  mode = "answered" => sync.asked \ sync.expired \subseteq mempool \cup sync.invalid \cup sync.removed

\* A batch ends: the scheduler starts all its transactions though a scan may
\* stop short, and the synchronous loop runs out of orphans to try again.
BatchEnds == (mode # "idle") ~> (mode = "idle")

\* A transaction waits in one queue at a time: an orphan is scheduled again only
\* if it was not scheduled as a non-standard transaction.
ScheduledOnce ==
  \A t \in ToSet(mProcessingQueue) : t \notin ToSet(mNonStdTxns)
============================================================================
