---------------------------- MODULE MempoolTxDB ----------------------------
(***************************************************************************)
(* The mempool's transaction database and the mempool's use of it:         *)
(* CAsyncMempoolTxDB with its worker thread (mempooltxdb.cpp), the         *)
(* transaction wrappers (tx_mempool_info.cpp) and the operations of        *)
(* CTxMemPool that move transactions to disk, remove them, rebuild the     *)
(* mempool in a reorganisation, clear it, dump it and load it              *)
(* (txmempool.cpp).                                                        *)
(*                                                                         *)
(* An entry of mapTx refers to a wrapper.  A wrapper owns its transaction  *)
(* (it is in memory) until the worker, having written the transaction,     *)
(* resets it.  Tasks travel to the worker through ThreadSafeQueue; the     *)
(* worker folds adds and removes into a batch and commits the batch at a   *)
(* synchronisation and when it has run all the tasks it took.              *)
(*                                                                         *)
(* smtx is held shared by the jobs save and check, exclusively by remove   *)
(* and clear, across the pushes they make.  cs_main serialises the jobs of *)
(* Callers except remove, which some callers enter without it.  Main is    *)
(* the thread that loads the mempool at start-up and dumps it at shutdown. *)
(* The database and mempool.dat survive a crash; a batch is written        *)
(* atomically and synchronously.  Fees, times and sizes are left out: any  *)
(* entry may be written out, expire or be removed at any time.             *)
(***************************************************************************)
EXTENDS ThreadSafeQueue, FiniteSets, Functions

CONSTANTS
  Txs,
  Wrappers,   \* identities of wrappers; one is reused when nothing refers to it
  Callers,    \* threads that use the mempool
  Main,       \* the thread that loads and dumps it
  Worker,
  None

ASSUME ThreadsDistinct == Main \notin Callers /\ Worker \notin Callers \cup {Main}
ASSUME NoneDistinct == None \notin Wrappers \cup {1, 2}

VARIABLES
  \* on disk
  db,          \* transactions in the database
  xref,        \* DB_MEMPOOL_XREF, or None
  file,        \* mempool.dat: [id, onDisk, inMem], or None
  \* the mempool
  entry,       \* mapTx: the wrapper of a transaction's entry, or None
  oldMapTx,    \* the entries set aside by a reorganisation
  owned,       \* wrappers that own their transaction: IsInMemory()
  \* threads of the node
  phase,       \* down, up
  job,         \* per thread: idle, save, remove, check, clear, reorg;
               \* Main: load, verify, giveup, dump, exit, join
  todo,        \* per thread: transactions its loop has still to visit
  push,        \* per thread: the tasks it is about to push
  waiting,     \* threads waiting for the promise of a SyncTask
  \* the worker
  wpc,         \* pop, run, gone
  tasks, adds, removes, resetting,
  \* history
  raced        \* transactions that met one of two races since the last start

\* What outlives the process, and the history with it
diskVars == <<db, xref, file, raced>>
poolVars == <<entry, oldMapTx, owned>>
threadVars == <<phase, job, todo, push, waiting>>
workVars == <<wpc, tasks, adds, removes, resetting>>
txdbVars == <<queueVars, diskVars, poolVars, threadVars, workVars>>

Threads == Callers \cup {Main}
NoEntries == [t \in Txs |-> None]
Stored(m) == {t \in Txs : m[t] # None}

Add(t, w) == [op |-> "add", tx |-> t, wrapper |-> w]
Remove(t) == [op |-> "remove", tx |-> t]
Sync(c) == [op |-> "sync", who |-> c]
SetXref(id) == [op |-> "setxref", id |-> id]
Clear == [op |-> "clear"]

\* What a stopped process leaves: nothing but the disk.
Stopped ==
  /\ phase' = "down"
  /\ entry' = NoEntries /\ oldMapTx' = NoEntries /\ owned' = {}
  /\ job' = [c \in Threads |-> "idle"] /\ todo' = [c \in Threads |-> {}]
  /\ push' = [c \in Threads |-> <<>>] /\ waiting' = {}
  /\ wpc' = "pop" /\ tasks' = <<>> /\ adds' = {} /\ removes' = {} /\ resetting' = {}
  /\ theQueue' = <<>> /\ currentSize' = 0 /\ isClosed' = FALSE
  /\ onPopWaiters' = {} /\ onPushWaiters' = {}

TxDBInit ==
  /\ db = {} /\ xref = None /\ file = None /\ raced = {}
  /\ phase = "down"
  /\ entry = NoEntries /\ oldMapTx = NoEntries /\ owned = {}
  /\ job = [c \in Threads |-> "idle"] /\ todo = [c \in Threads |-> {}]
  /\ push = [c \in Threads |-> <<>>] /\ waiting = {}
  /\ wpc = "pop" /\ tasks = <<>> /\ adds = {} /\ removes = {} /\ resetting = {}
  /\ EmptyQueue

\* Locks.  Callers work until the shutdown sequence has stopped them.
Running == phase = "up" /\ job[Main] \notin {"dump", "exit", "join"}
SharedHolders == {c \in Threads : job[c] \in {"save", "check", "verify"}}
UniqueHolders == {c \in Threads : job[c] \in {"remove", "clear"}}
CanLockShared == UniqueHolders = {}
CanLock == UniqueHolders = {} /\ SharedHolders = {}
CsMainFree == \A c \in Callers : job[c] \in {"idle", "remove"}

Become(c, j, txs, s) ==
  /\ job' = [job EXCEPT ![c] = j]
  /\ todo' = [todo EXCEPT ![c] = txs]
  /\ push' = [push EXCEPT ![c] = s]

\* Wrappers that tasks, in the queue or under way, refer to.
TaskWrappers ==
  LET named(s) == {s[i].wrapper : i \in {j \in DOMAIN s : s[j].op = "add"}}
  IN  named(theQueue) \cup named(tasks) \cup (UNION {named(push[c]) : c \in Threads})
      \cup {a.wrapper : a \in adds} \cup resetting

FreeWrappers == Wrappers \ (TaskWrappers \cup Range(entry) \cup Range(oldMapTx))
----------------------------------------------------------------------------
(* Threads and the queue: TaskQueue::PushWait, PushManyWait, Synchronize.  *)

\* The tasks go into the queue; who pushed a SyncTask waits for its promise.
PushTasks(c) ==
  /\ phase = "up" /\ push[c] # <<>>
  /\ Push(c, push[c])
  /\ push' = [push EXCEPT ![c] = <<>>]
  /\ waiting' = IF push[c][Len(push[c])] = Sync(c) THEN waiting \cup {c} ELSE waiting
  /\ UNCHANGED <<diskVars, poolVars, phase, job, todo, workVars>>

PushWaits(c) ==
  /\ phase = "up" /\ push[c] # <<>>
  /\ PushSleeps(c, push[c])
  /\ UNCHANGED <<diskVars, poolVars, threadVars, workVars>>

\* assert(success && "Push to task queue failed"): the process is aborted.
PushAborts(c) ==
  /\ phase = "up" /\ push[c] # <<>>
  /\ PushFails(c, push[c])
  /\ Stopped
  /\ UNCHANGED diskVars

\* Nothing left to push or to wait for.
Ready(c) == phase = "up" /\ push[c] = <<>> /\ c \notin waiting
----------------------------------------------------------------------------
(* Operations of the mempool.                                              *)

\* A transaction of which mempool.dat says that it is in the database, and
\* which LoadMempool has not dealt with yet.
BeingLoaded(t) ==
  /\ job[Main] = "load"
  /\ \/ t \in todo[Main] /\ t \in file.onDisk
     \/ push[Main] = <<Remove(t)>>

\* AddUnchecked of a transaction in memory, by a validation task.  It races with
\* LoadMempool if that has still to deal with the same transaction.
AddUnchecked(t) ==
  /\ Running /\ CanLock
  /\ entry[t] = None /\ oldMapTx[t] = None
  /\ \E w \in FreeWrappers :
       /\ entry' = [entry EXCEPT ![t] = w]
       /\ owned' = owned \cup {w}
  /\ raced' = IF BeingLoaded(t) THEN raced \cup {t} ELSE raced
  /\ UNCHANGED <<queueVars, db, xref, file, oldMapTx, threadVars, workVars>>

\* SaveTxsToDisk, called with cs_main by LimitMempoolSize.
SaveTxsToDisk(c) ==
  /\ Running /\ job[c] = "idle" /\ CsMainFree /\ CanLockShared
  /\ Become(c, "save", Stored(entry), <<>>)
  /\ UNCHANGED <<queueVars, diskVars, poolVars, phase, waiting, workVars>>

\* One round of its loop: what is in memory is handed to the worker.
SaveNext(c) ==
  /\ Ready(c) /\ job[c] = "save"
  /\ \E t \in todo[c] :
       Become(c, "save", todo[c] \ {t}, IF entry[t] \in owned THEN <<Add(t, entry[t])>> ELSE <<>>)
  /\ UNCHANGED <<queueVars, diskVars, poolVars, phase, waiting, workVars>>

\* removeStagedNL of a set of entries: removeForBlock, Expire, TrimToSize ...
RemoveStaged(c) ==
  /\ Running /\ job[c] = "idle" /\ CanLock
  /\ \E staged \in SUBSET Stored(entry) \ {{}} : Become(c, "remove", staged, <<>>)
  /\ UNCHANGED <<queueVars, diskVars, poolVars, phase, waiting, workVars>>

\* removeFromDisk in removeUncheckedNL
RemoveFromDisk(t) == entry[t] \notin owned

\* One entry of removeUncheckedNL: the entry goes, and if its transaction was
\* on disk the worker is told to erase it.
RemoveUnchecked(c) ==
  /\ Ready(c) /\ job[c] = "remove"
  /\ \E t \in todo[c] :
       /\ Become(c, "remove", todo[c] \ {t}, IF RemoveFromDisk(t) THEN <<Remove(t)>> ELSE <<>>)
       /\ entry' = [entry EXCEPT ![t] = None]
       /\ owned' = IF entry[t] \in TaskWrappers THEN owned ELSE owned \ {entry[t]}
  /\ UNCHANGED <<queueVars, diskVars, oldMapTx, phase, waiting, workVars>>

\* The loops end; SaveTxsToDisk does when enough was moved.
JobEnds(c) ==
  /\ Ready(c)
  /\ \/ job[c] = "save"
     \/ job[c] = "remove" /\ todo[c] = {}
     \/ job[c] \in {"check", "clear"}
  /\ Become(c, "idle", {}, <<>>)
  /\ UNCHANGED <<queueVars, diskVars, poolVars, phase, waiting, workVars>>

\* CheckMempoolTxDBNL: waits for the worker, then compares.
CheckMempoolTxDB(c) ==
  /\ Running /\ job[c] = "idle" /\ CsMainFree /\ CanLockShared
  /\ Become(c, "check", {}, <<Sync(c)>>)
  /\ UNCHANGED <<queueVars, diskVars, poolVars, phase, waiting, workVars>>

\* A mutant: without the exclusive lock.
CanClearUnlocked == TRUE

\* Clear takes smtx before the queue is replaced.
CanClear == CanLock

\* FinalizeGenesisCrossing, with cs_main, and LoadMempool when it gives up,
\* without it.
CallsClear(c) ==
  \/ Running /\ c \in Callers /\ job[c] = "idle" /\ CsMainFree
  \/ c = Main /\ Ready(c) /\ job[c] = "giveup"

\* Clear: the entries go, and the tasks in the queue with them.  It races with a
\* reorganisation that has set entries aside.
ClearMempool(c) ==
  /\ CallsClear(c) /\ CanClear
  /\ ReplaceContent(<<Clear, Sync(c)>>)
  /\ waiting' = waiting \cup {c}
  /\ Become(c, "clear", {}, <<>>)
  /\ entry' = NoEntries /\ owned' = owned \cap (TaskWrappers \cup Range(oldMapTx))
  /\ raced' = raced \cup Stored(oldMapTx)
  /\ UNCHANGED <<db, xref, file, oldMapTx, phase, workVars>>

\* assert(success && "Push to task queue failed")
ClearAborts(c) ==
  /\ CallsClear(c) /\ CanClear /\ isClosed
  /\ Stopped
  /\ UNCHANGED diskVars

\* AddToMempoolForReorg, first part: the entries are set aside, the database
\* is not touched ...
PrepareResubmit(c) ==
  /\ Running /\ job[c] = "idle" /\ CsMainFree /\ CanLock
  /\ Stored(entry) # {}
  /\ oldMapTx' = entry /\ entry' = NoEntries
  /\ Become(c, "reorg", {}, <<>>)
  /\ UNCHANGED <<queueVars, diskVars, owned, phase, waiting, workVars>>

\* ... and second part: each gets a new entry whose wrapper holds the
\* transaction if the old one still does, and then what the reorganisation
\* made invalid is removed.
ResubmitEntries(c) ==
  /\ Ready(c) /\ job[c] = "reorg" /\ CanLock
  /\ \E new \in [Stored(oldMapTx) -> Wrappers \ (TaskWrappers \cup Range(entry))] :
       /\ IsInjective(new)
       /\ entry' = [t \in Txs |-> IF t \in DOMAIN new THEN new[t] ELSE entry[t]]
       /\ owned' = (owned \ (Range(new) \cup (Range(oldMapTx) \ TaskWrappers)))
                     \cup {new[t] : t \in {u \in DOMAIN new : oldMapTx[u] \in owned}}
  /\ oldMapTx' = NoEntries
  /\ \E invalid \in SUBSET Stored(entry') : Become(c, "remove", invalid, <<>>)
  /\ UNCHANGED <<queueVars, diskVars, phase, waiting, workVars>>
----------------------------------------------------------------------------
(* The worker: CAsyncMempoolTxDB::Work and CMempoolTxDB::Commit.           *)

WorkPop ==
  /\ phase = "up" /\ wpc = "pop"
  /\ PopAll(Worker)
  /\ tasks' = theQueue /\ wpc' = "run"
  /\ UNCHANGED <<diskVars, poolVars, threadVars, adds, removes, resetting>>

WorkSleeps ==
  /\ phase = "up" /\ wpc = "pop"
  /\ PopSleeps(Worker)
  /\ UNCHANGED <<diskVars, poolVars, threadVars, workVars>>

WorkEnds ==
  /\ phase = "up" /\ wpc = "pop"
  /\ PopEnds(Worker)
  /\ wpc' = "gone"
  /\ UNCHANGED <<queueVars, diskVars, poolVars, threadVars, tasks, adds, removes, resetting>>

BatchEmpty == adds = {} /\ removes = {}
InBatch(t) == {a \in adds : a.tx = t}

\* The batch is committed before a synchronisation and after the last task.
MustCommit ==
  /\ phase = "up" /\ wpc = "run" /\ resetting = {} /\ ~BatchEmpty
  /\ tasks # <<>> => Head(tasks).op \in {"sync", "setxref"}

\* The batch is on disk, and the cross reference gone; then the wrappers of
\* what was added are reset one by one.
Commit ==
  /\ MustCommit
  /\ db' = (db \cup {a.tx : a \in adds}) \ removes
  /\ xref' = None
  /\ resetting' = {a.wrapper : a \in adds}
  /\ adds' = {} /\ removes' = {}
  /\ UNCHANGED <<queueVars, file, raced, poolVars, threadVars, wpc, tasks>>

ResetTransaction ==
  /\ phase = "up"
  /\ \E w \in resetting : resetting' = resetting \ {w} /\ owned' = owned \ {w}
  /\ UNCHANGED <<queueVars, diskVars, entry, oldMapTx, threadVars, wpc, tasks, adds, removes>>

\* Writing threw: the worker closes the queue and leaves.
CommitThrows ==
  /\ MustCommit
  /\ Close(FALSE)
  /\ wpc' = "gone" /\ tasks' = <<>> /\ adds' = {} /\ removes' = {}
  /\ UNCHANGED <<diskVars, poolVars, threadVars, resetting>>

\* A mutant: a pending erase stays in the batch next to the add.
BatchAddKeepsRemove(a) ==
  /\ adds' = IF InBatch(a.tx) = {} THEN adds \cup {a} ELSE adds
  /\ UNCHANGED removes

\* Batch::Add: an erase that is still in the batch is dropped instead; a
\* transaction that is in the batch already stays as it is.
BatchAdd(a) ==
  IF a.tx \in removes
  THEN removes' = removes \ {a.tx} /\ UNCHANGED adds
  ELSE adds' = (IF InBatch(a.tx) = {} THEN adds \cup {a} ELSE adds) /\ UNCHANGED removes

\* Batch::Remove, the other way round
BatchRemove(t) ==
  IF InBatch(t) # {}
  THEN adds' = adds \ InBatch(t) /\ UNCHANGED removes
  ELSE removes' = removes \cup {t} /\ UNCHANGED adds

RunAdd(a) ==
  /\ a.op = "add"
  /\ IF a.wrapper \in owned THEN BatchAdd([tx |-> a.tx, wrapper |-> a.wrapper]) ELSE UNCHANGED <<adds, removes>>
  /\ UNCHANGED <<db, xref, waiting>>

RunRemove(a) ==
  /\ a.op = "remove"
  /\ BatchRemove(a.tx)
  /\ UNCHANGED <<db, xref, waiting>>

RunSync(a) ==
  /\ a.op = "sync" /\ BatchEmpty
  /\ waiting' = waiting \ {a.who}
  /\ UNCHANGED <<adds, removes, db, xref>>

RunSetXref(a) ==
  /\ a.op = "setxref" /\ BatchEmpty
  /\ xref' = a.id
  /\ UNCHANGED <<adds, removes, db, waiting>>

\* ClearTask: the batch goes, the database is created anew.
RunClear(a) ==
  /\ a.op = "clear"
  /\ adds' = {} /\ removes' = {} /\ db' = {} /\ xref' = None
  /\ UNCHANGED waiting

WorkTask ==
  /\ phase = "up" /\ wpc = "run" /\ resetting = {} /\ tasks # <<>>
  /\ LET a == Head(tasks) IN RunAdd(a) \/ RunRemove(a) \/ RunSync(a) \/ RunSetXref(a) \/ RunClear(a)
  /\ tasks' = Tail(tasks)
  /\ UNCHANGED <<queueVars, file, raced, poolVars, phase, job, todo, push, wpc, resetting>>

WorkNext ==
  /\ phase = "up" /\ wpc = "run" /\ resetting = {} /\ tasks = <<>> /\ BatchEmpty
  /\ wpc' = "pop"
  /\ UNCHANGED <<queueVars, diskVars, poolVars, threadVars, tasks, adds, removes, resetting>>
----------------------------------------------------------------------------
(* Start, load, dump and crash.                                            *)

\* The key in the database and the one in mempool.dat agree.
FileMatches == file # None /\ xref = file.id

\* InitMempoolTxDB, alone in the process: a database that does not belong to
\* mempool.dat is cleared, the key of one that does is removed.
InitMempoolTxDB ==
  /\ phase = "down"
  /\ phase' = "up"
  /\ db' = IF FileMatches THEN db ELSE {}
  /\ xref' = None /\ raced' = {}
  /\ Become(Main, "load", IF file = None THEN {} ELSE file.onDisk \cup file.inMem, <<>>)
  /\ UNCHANGED <<queueVars, file, poolVars, waiting, workVars>>

\* LoadMempool, one transaction of the file: it cannot be read, and loading
\* is given up; or it is accepted, on disk if it was there; or it is rejected,
\* expired or not final and leaves the database.
LoadFails ==
  /\ Ready(Main) /\ job[Main] = "load"
  /\ file = None \/ \E t \in todo[Main] : t \in file.onDisk /\ t \notin db
  /\ Become(Main, "giveup", {}, <<>>)
  /\ UNCHANGED <<queueVars, diskVars, poolVars, phase, waiting, workVars>>

LoadAccepted(t) ==
  /\ entry[t] = None /\ oldMapTx[t] = None /\ CanLock
  /\ \E w \in FreeWrappers :
       /\ entry' = [entry EXCEPT ![t] = w]
       /\ owned' = IF t \in file.inMem THEN owned \cup {w} ELSE owned \ {w}
  /\ Become(Main, "load", todo[Main] \ {t}, <<>>)
  /\ UNCHANGED oldMapTx

LoadRejected(t) ==
  /\ Become(Main, "load", todo[Main] \ {t}, IF t \in file.onDisk THEN <<Remove(t)>> ELSE <<>>)
  /\ UNCHANGED poolVars

LoadNext ==
  /\ Ready(Main) /\ job[Main] = "load"
  /\ \E t \in todo[Main] :
       /\ t \in file.onDisk => t \in db
       /\ LoadAccepted(t) \/ LoadRejected(t)
  /\ UNCHANGED <<queueVars, diskVars, phase, waiting, workVars>>

\* shutdownToken: LoadMempool returns, and nothing is dumped afterwards.
LoadCancelled ==
  /\ Ready(Main) /\ job[Main] = "load" /\ todo[Main] # {}
  /\ \A c \in Callers : job[c] = "idle"
  /\ Become(Main, "exit", {}, <<>>)
  /\ UNCHANGED <<queueVars, diskVars, poolVars, phase, waiting, workVars>>

\* The end of LoadMempool: CheckMempoolTxDBNL(false), under the shared lock.
LoadVerifies ==
  /\ Ready(Main) /\ job[Main] = "load" /\ file # None /\ todo[Main] = {} /\ CanLockShared
  /\ Become(Main, "verify", {}, <<Sync(Main)>>)
  /\ UNCHANGED <<queueVars, diskVars, poolVars, phase, waiting, workVars>>

\* What CheckMempoolTxDBNL compares.
SameContents ==
  /\ \A t \in Stored(entry) : entry[t] \in owned <=> t \notin db
  /\ db \subseteq Stored(entry)

LoadEnds ==
  /\ Ready(Main) /\ job[Main] = "verify"
  /\ Become(Main, IF SameContents THEN "idle" ELSE "giveup", {}, <<>>)
  /\ UNCHANGED <<queueVars, diskVars, poolVars, phase, waiting, workVars>>

\* A mutant: the identity of a dump is not fresh.
FixedInstanceId == 1

\* The uuid of a dump: not the one of the dump before.
InstanceId == IF file = None THEN 1 ELSE 3 - file.id

\* DumpMempool, when the other threads have been stopped: the key goes into
\* the database, and then the file, which names the transactions that are on
\* disk by now, takes the place of the old one.
DumpMempool ==
  /\ Ready(Main) /\ job[Main] = "idle"
  /\ \A c \in Callers : job[c] = "idle"
  /\ Become(Main, "dump", {}, <<SetXref(InstanceId), Sync(Main)>>)
  /\ UNCHANGED <<queueVars, diskVars, poolVars, phase, waiting, workVars>>

WriteDump ==
  /\ Ready(Main) /\ job[Main] = "dump"
  /\ file' = [id |-> InstanceId,
              onDisk |-> {t \in Stored(entry) : entry[t] \notin owned},
              inMem |-> {t \in Stored(entry) : entry[t] \in owned}]
  /\ Become(Main, "exit", {}, <<>>)
  /\ UNCHANGED <<queueVars, db, xref, raced, poolVars, phase, waiting, workVars>>

\* The file cannot be opened; or an exception, before or after the key was set,
\* is caught, and the key removed.
DumpFails ==
  /\ Ready(Main) /\ job[Main] \in {"idle", "dump"}
  /\ \A c \in Callers : job[c] = "idle"
  /\ \/ job[Main] = "idle" /\ Become(Main, "exit", {}, <<>>)
     \/ Become(Main, "exit", {}, <<SetXref(None), Sync(Main)>>)
  /\ UNCHANGED <<queueVars, diskVars, poolVars, phase, waiting, workVars>>

\* ~CAsyncMempoolTxDB: the queue is closed, the worker joined.
Destroy ==
  /\ Ready(Main) /\ job[Main] = "exit"
  /\ Close(TRUE)
  /\ Become(Main, "join", {}, <<>>)
  /\ UNCHANGED <<diskVars, poolVars, phase, waiting, workVars>>

Join ==
  /\ phase = "up" /\ job[Main] = "join" /\ wpc = "gone"
  /\ Stopped
  /\ UNCHANGED diskVars

Crash ==
  /\ phase = "up"
  /\ Stopped
  /\ UNCHANGED diskVars
----------------------------------------------------------------------------
WorkerStep ==
  WorkPop \/ WorkSleeps \/ WorkEnds \/ Commit \/ ResetTransaction \/ WorkTask \/ WorkNext

ThreadStep(c) ==
  PushTasks(c) \/ PushWaits(c) \/ PushAborts(c) \/ SaveNext(c) \/ RemoveUnchecked(c) \/ JobEnds(c)

CallerStart(c) ==
  SaveTxsToDisk(c) \/ RemoveStaged(c) \/ CheckMempoolTxDB(c) \/ PrepareResubmit(c) \/ ResubmitEntries(c)

MainStep ==
  \/ InitMempoolTxDB \/ LoadFails \/ LoadNext \/ LoadCancelled \/ LoadVerifies \/ LoadEnds
  \/ DumpMempool \/ WriteDump \/ DumpFails \/ Destroy \/ Join

TxDBNext ==
  \/ WorkerStep \/ CommitThrows
  \/ \E c \in Threads : ThreadStep(c) \/ ClearMempool(c) \/ ClearAborts(c)
  \/ \E c \in Callers : CallerStart(c)
  \/ \E t \in Txs : AddUnchecked(t)
  \/ MainStep \/ Crash

TxDBSpec == TxDBInit /\ [][TxDBNext]_txdbVars

TxDBFairSpec ==
  /\ TxDBSpec
  /\ WF_txdbVars(WorkerStep)
  /\ \A c \in Threads : WF_txdbVars(ThreadStep(c))
----------------------------------------------------------------------------
\* A transaction of the mempool can be read at any time: its wrapper owns it
\* or it is in the database, also while a reorganisation has set it aside.
\* GetTx (tx_mempool_info.cpp) returns a null pointer otherwise.  Exempt are
\* transactions that met a race since the start: one that was accepted while
\* LoadMempool had still to deal with it, whose removal from the database may
\* follow, and one set aside by a reorganisation when LoadMempool gave up and
\* cleared the database, which it does without cs_main.
NothingLost ==
  \A m \in {entry, oldMapTx} : \A t \in Stored(m) \ raced : m[t] \in owned \/ t \in db

\* A thread that waits for the worker's promise has its task in the queue or
\* among the tasks the worker runs, unless the worker is gone: Clear, which
\* replaces the queue, drops no one else's.
PromiseKept ==
  wpc # "gone" =>
    \A c \in waiting : \E i \in DOMAIN (theQueue \o tasks) : (theQueue \o tasks)[i] = Sync(c)

\* When the key in the database is the one in mempool.dat, the database has
\* every transaction of which the file says so, after a crash at any point of
\* a later session or dump too: DoInitMempoolTxDB may keep the database then.
\* Exempt are the transactions that NothingLost exempts, in the session that
\* wrote the file: what was lost is still dumped as being on disk.
KeyVouchesForFile == FileMatches => file.onDisk \ raced \subseteq db

\* A call that has started comes to its end, whatever the queue holds, unless
\* the worker died or the process stopped.
CallsReturn ==
  \A c \in Callers : job[c] \in {"save", "remove", "check", "clear"} ~> (job[c] = "idle" \/ wpc = "gone")

\* CheckMempoolTxDBNL, at the assertions it makes after it waited.
MempoolMatchesTxDB == \A c \in Callers : Ready(c) /\ job[c] = "check" => SameContents
============================================================================
