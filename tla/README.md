# Verification of the node's validation core

TLA+ models of the part of the node that decides which chain is active, what the unspent outputs
are and which transactions wait to be mined: the lock, the caches and the database under the
coins, the parallel script checks, the parallel validation of one block's transactions, the choice
and activation of the best chain, the recovery after a crash, the download of blocks from peers,
the validation of transactions with orphans and double spends, and the database of mempool
transactions. TLC checks each model on a small instance. TLAPS proves, for every value of the
constants, the safety of the lock, the coins layers, the check queue and its pool, the mempool
database, the activation of the best chain and the recovery after a crash, and that the lock and the
coins layers implement their abstract specifications.

Paths are relative to the repository root; the node is in `src/src/`. `PROJECT.json` maps every
definition to the lines it models and lists components, runs, hazards, findings and theorems.

## The system and its parts

A block that arrives is stored and linked (`AcceptBlock`), and the receiving thread runs
`ActivateBestChain`. It picks the candidate with the most work, and connects the blocks between
the active tip and it. To connect a block, `ConnectBlock` makes a `CoinsDBSpan`, a private write
cache over the shared cache of `CoinsDB`. It splits the transactions into independent groups
(`TxnGrouper`), validates each group in a thread with a shard of the span, and hands script
checks to a `CCheckQueue` borrowed from the `CCheckQueuePool`. While scripts run, `cs_main` and
the coins lock are released, so that other threads may validate and connect competing blocks.
When it is done, the thread takes both again, makes sure the tip is still the one it started
from, and flushes the span into the shared cache. `FlushStateToDisk` writes that cache to LevelDB
in batches; a crash between them is repaired by `ReplayBlocks` at the next start.

Blocks are requested from several peers; `BlockDownloadTracker` knows what is in flight from whom,
and who sent a block that is being validated. Transactions from peers are queued in
`CTxnValidator`, which validates them in batches, a parent before the transactions that spend from
it, in parallel threads that share the mempool and a double spend detector; what lacks a parent
waits in the orphan pool. The mempool moves transactions to a database of its own through a queue
that a worker thread (`CAsyncMempoolTxDB`) empties, and keeps what it needs to reload them in
`mempool.dat`.

| Part | State | Operations | What is hard about it | Module |
|---|---|---|---|---|
| Upgradable mutex | lock count, pending writers, sleepers | read, write and try-write lock, downgrade, release | two readers that escalate, lost wakeups, reads that are stale after escalation | `WPUSMutex`, `UpgradableLock` |
| Check queue | queue, counters, per-thread batches | session, add, wait, loop, quit, interrupt | late workers, cancellation in the middle, verdicts of the wrong session | `CheckQueue` |
| Pool of check queues | idle queues, running checkers | get checker, preempt, return, destroy | starvation, preempting the wrong one | `CheckQueuePool` |
| Coins layers | database, cache, spans with DIRTY and FRESH | get, add, spend, flush, detach, reattach, uncache | stale spans, wrong flags, dangling script references | `CoinsViews`, `UtxoSet` |
| Coin fetching | cache, fetch guards | `GetCoin`, `DBCacheAllInputs`, flush | two loads of one coin, memory limit | `CoinsFetch` |
| Chainstate on disk | coins, best block, heads, block index, undo | connect, disconnect, flush, crash, start-up | a crash between any two batches, also in recovery | `ChainstateRecovery` |
| Transactions of a block | groups, shards, counters | group, combine, validate, fold | dependent transactions in different threads | `TxnGrouper`, `ShardedConnect` |
| Best chain | index flags, candidates, validations under way | receive, activate, validate, connect, invalidate, reconsider, prefer | decisions made before `cs_main` was released and used after | `ChainActivation` |
| Block download | blocks in flight per peer, senders, announcing peers | request, receive, compact block, fill, stall, disconnect, block checked | a peer that leaves while others validate its block, several sources of one block | `BlockDownload` |
| Bounded queue | values, size, sleepers | push with waiting, pop all, replace, close | a notification for nobody, closing while others wait | `ThreadSafeQueue` |
| Mempool transaction database | database, wrappers, tasks, `mempool.dat` | save, remove, reorganise, check, clear, dump, load, worker | removal that overtakes an add, crash between file and database | `MempoolTxDB` |
| Transaction scheduler | statuses by position, running tasks | scan, graph, chains, completion | a dependent started too early or never | `ValidationScheduler` |
| Orphan pool | orphans, collected parents | add, erase, limit, collect for retry | an orphan forgotten between two cycles | `OrphanTxns` |
| Transaction validator | three queues, batch, mempool, detector, rejects | arrive, cycle, synchronous calls, task steps, trim | time-outs, cancellation and exceptions in the middle of a batch | `TxnValidator` |

The parts that are not modelled, each with the reason, are in `PROJECT.json`; see also the end of
this file.

## How the models correspond to the code

One action is a stretch of code that no other thread can observe half done: a critical section of
the mutex in question, an unprotected read, or the evaluation of one check. Variables carry the
names of the members they stand for. Data is reduced to what the properties tell apart: a coin, a
block or a check is a model value or a number, a script is a size or a place where it is kept.
Small predicates and updates of the code are operators of their own.

Operators whose names say how they differ from the one that follows them (`CaughtAndReturned`
before `Caught`) are slips of the code that could be made there; no specification uses them. They
show that a property notices: with the slip in place TLC finds the property violated.

**`WPUSMutex`** (`write_preferring_upgradable_mutex.{h,cpp}`). `mLock` and `mWritePending` are the
members; `pc` gives the type of each thread's handle. The first test of `TryWriteLock` reads the
atomic without the mutex and is its own step. A notified thread leaves `asleep` and has yet to
evaluate its predicate; wakeups may be spurious. `outdated` is history: whose data was overwritten
after it was locked. `UpgradableLock` is what the mutex promises: readers, at most one writer, and
an upgrade that happens atomically.

**`CheckQueue`** (`checkqueue.h`). The master and the workers run `Loop`; `batch`, `vChecks`, `fOk`
and `vTempFailedChecks` are the local variables of each. The session's token may be cancelled, and
`mQuit` set, between any two steps. `added`, `passed` and `failed` are history of the session.

**`CheckQueuePool`** (`checkqueuepool.h`). A session on a borrowed queue is abstracted to open and
over, which is what `CheckQueue` shows of it. Idle queues are alike, so their order is left out.

**`CoinsViews`** (`coins.{h,cpp}`, `txdb.{h,cpp}`). Three layers: `disk`, `cache`, and `sCache` of
each span. The rules for DIRTY and FRESH, for erasing an entry and for merging a layer into the one
below are operators taken from the corresponding methods. The lock is the abstract one of
`UpgradableLock`: writing needs that nobody else is attached. History variables say what each
connected block makes of the outputs. `UtxoSet` is the promise: one map of unspent outputs per
block, spans that start from one, change their own copy and commit it atomically if nobody was
faster.

**`CoinsFetch`** (`txdb.cpp`, `txdb.h`) looks into what `CoinsViews` takes as one step, the loading
of a coin by several readers that share the read lock, with `FetchingCoins` and the limit on memory
for scripts. Arithmetic on sizes wraps as `size_t` does. An entry that is there stays as it is when there
is no room for its script.

**`ChainstateRecovery`** (`validation.cpp`, `txdb.cpp`, `processing_block_index.cpp`, `init.cpp`).
Coins in memory and on disk, the block index and undo data in memory and on disk, and the two
markers `DB_BEST_BLOCK` and `DB_HEAD_BLOCKS`. Each LevelDB batch is atomic and durable; its content
is any part of the remaining dirty entries, since the code cuts by size. A crash may happen after
any step, recovery included.

**`TxnGrouper`, `ShardedConnect`** (`txn_grouper.cpp`, `validation.cpp`, `coins.{h,cpp}`).
`ShardedConnect` extends `TxnGrouper` and goes on where it ends: one thread per group, each with an
overlay, a shared counter of signature operations, and the folding of the overlays. The limit on
signature operations depends on the size of the block and is one of `SigOpsLimits`.

**`ChainActivation`** (`validation.cpp`, `block_index.h`, `blockvalidation.h`). The sets of
candidates, unlinked blocks and blocks under validation, the flags and sort keys of the index, and
for each thread the local variables of `ActivateBestChain`. A thread holds `cs_main` from `Lock`
on, and releases it while scripts run. Scripts succeed, fail (blocks in `Bad`), or are terminated
for a better block. Some of the bad blocks are `malformed`: `AcceptBlock` itself rejects them and marks
them failed (`AcceptFails`). An unrequested block is stored only if it has more work than the tip and is
at most `MinBlocksToKeep` above it. `invalidateblock`, `reconsiderblock` and `preciousblock` come in between.

**`BlockDownload`** (`net/block_download_tracker.cpp`, `net/net_processing.cpp`). The tracker's maps,
the lists and counters in each peer's `CNodeState`, and the compact block announcers. A message
handler is one action, since one thread runs them all; a peer is removed by the socket thread, and
`BlockChecked` runs in threads that validate: it copies the senders of the block and then takes the
tracker's mutex for each of them. A download may be found slow at any time. A block is requested
within the window above the last common block and below the threshold above the active tip
(`LowerWindow`); the active chain follows the stored blocks at once. Whether the initial download is
over, which decides if the sender of a block may become an announcer, is left open at each check.

**`ThreadSafeQueue`, `MempoolTxDB`** (`thread_safe_queue.h`, `mempooltxdb.cpp`, `tx_mempool_info.cpp`,
`txmempool.cpp`). The queue has both condition variables with the threads asleep on each.
`MempoolTxDB` extends it. An entry of the mempool refers to a wrapper that owns its transaction until
the worker has written it. The worker takes all tasks, folds adds and removes into a batch, commits
it, and resets wrappers one by one. Callers save, remove, reorganise, check and clear, under the
mempool's mutex as in the code; the main thread loads at start-up and dumps at the end, or fails to
(`DumpFails`). A crash may happen at any time and leaves the database and the file. `raced` is history:
the transactions that met one of the two races with `LoadMempool` described under Findings.

**`ValidationScheduler`, `OrphanTxns`, `TxnValidator`** (`net/validation_scheduler.cpp`, `orphan_txns.cpp`,
`txn_validator.cpp`, `validation.cpp`, `txn_double_spend_detector.cpp`). Each extends the one before. The
scheduler's loop is one action per turn; the map of spenders is ready from some position of a scan on,
which is chosen freely because another thread builds it. A batch is that of an asynchronous cycle or
of a synchronous call, which exclude each other by `mMainMtx`. A task goes through its transactions:
validation (with time-out, missing inputs, cancellation), the double spend check, the commit to the
mempool, and telling the orphan pool. `EndBatch` is the end of the part under `cs_main`: the mempool is
limited, by expiry and then by size (`LimitMempoolSize`). `EndCycle` refills the queues. The code
holds `mMainMtx` throughout; that arrivals may come between the two in the model adds behaviours. A
batch may end in an exception, before or after the mempool was limited, whose handler is `CycleThrows`.
`twice` is history: the transactions that were in one batch twice.

**Composition.** `MCPrimitives`, `MCCoins` and `MCBlocks` put two components into one specification:
an initial choice (`active`) says whose steps the behaviour is made of, as the two share no state.
Their properties are those of the components.

## What the runs check

Invariants that are conjunctions of named parts are checked as one property; the parts are stated
separately in the modules, each with the code behaviour it is about.

| Run | Configuration | Properties and what they show |
|---|---|---|
| `primitives` | 3 threads at the mutex; 2 queues, 3 requesters with 2 requests each, 3 values | `CountersExact`: the counters describe the handles and requests, so a writer is alone; `HoldersSeeCurrentData`: whoever escalates has seen the current data; `NoLostWakeup`; `RequestsServed`: no request is forgotten; `ImplementsUpgradableLock`. `PoolAccounting`; `PreemptedForBetter`: only the least valuable checker is stopped, for a more valuable request; `PoolProgress`: requests are served, the destructor ends |
| `checkqueue` | 2 workers and the master, 3 checks | `Accounting`: the counters are exact through cancellation, quit and interruption; `ResultsSound`: the verdict is that of the session's own checks, and no failed check is left out; `SessionsDoNotOverlap`; `QueueProgress`: `Wait` returns, workers leave |
| `coins` | 2 spans, 1 outpoint, 1 coin, 1 block on top of the first tip; 2 readers, 1 preloading block, 2 outpoints, room for one script | `LayersConsistent`: the flags mean what they say, reads through the cache are right and no exception of `CoinsStore` is reachable; `SpansReadTheirWrites`; `SpansUndisturbed`; `ImplementsUtxoSet`. `ReadsRight`: one fetch per coin, and it returns the truth; `LoadsWithinThreshold`: no thread loads beyond the limit even if the subtraction wrapped; `GetCoinReturns` |
| `blocks` | 6 blocks in two branches that share a transaction, 2 crashes; every block of a coinbase and up to 3 transactions over 3 ids and 2 confirmed coins of different transactions, up to 3 groups, two limits of signature operations | `MemoryConsistent`; `CrashesSurvived`: between any two batches the disk can be brought to the new head, and start-up never gives up; `RecoveryCompletes`. `GroupsSound`: a partition that separates nothing that depends on something; `VerdictSequential`: same verdict, coins and undo data as validation in block order |
| `chain` | 4 blocks, one invalid, 2 threads, 1 call, 1 cancellation, 2 parallel validations, unrequested blocks at most 1 ahead | `IndexConsistent`; `BestChainActive`: when all threads are done no eligible block has more work than the tip; `ConnectsToParent`; `ActivationsEnd`: no block keeps the loop going for ever |
| `download` | 2 peers, one reliable, 3 blocks of which the last is invalid, 2 in transit per peer, window and parallel fetch of 2 | `TrackerConsistent`: the tracker, the peers' lists and all counters agree, and a peer that left is nowhere; `LimitsKept`; `DownloadCompletes`: the valid blocks arrive whatever the other peer does |
| `mempooldb` | 1 transaction, 2 wrappers, 1 caller, queue of 2, crashes at any point | `NothingLost`: every entry can produce its transaction unless it met a race with `LoadMempool`; `PromiseKept`: who waits for the worker has its task ahead; `KeyVouchesForFile`: a dump that matches the database is complete but for such transactions, after a crash too; `CallsReturn` |
| `txnval` | a parent and two conflicting children, one peer, synchronous calls with an orphan alone and with its parent after it, one arrival, queues and orphan pool of one, cycles that take up to two non-standard transactions, one mishap (exception, expiry or trim, peer leaving) | `MempoolConsistent`: no two entries conflict, unless one was in a batch twice, and none lacks a parent; `NoOrphanLeftBehind`; `ParentsFirst`; `BatchAccounted`: a synchronous call answers for every transaction but those that expired; `BatchEnds` |

Four more runs show a disagreement between the code and what the repository says of it; see
Findings.

### Bounds

* Three threads are the fewest with which a waiting reader, an escalating reader and a writer meet.
  The proof removes this bound.
* Three checks let a worker hold a batch while another one and the master are elsewhere, in several
  sessions. With so few checks the code's division of the work makes every batch a single check;
  larger batches are left to the proof, which is for any size. `MaxAdd`, `MaxChecks` and `MaxRequests` end behaviours.
* Three requesters for two queues, so that one waits and may preempt; three values, so that a value
  in between exists.
* Every rule of `CoinsViews` treats each outpoint by itself. One outpoint with one coin therefore
  shows every combination of entries of the layers; the second span is overtaken when the first one
  connects the block. The proof removes these bounds.
* Two outpoints of which one fits are needed to reach the memory limit with another coin cached.
* Two branches of two blocks with a common transaction, so that rolling back and forward does not
  commute with what is already on disk. A second crash interrupts the recovery of the first one.
* Three transactions are the fewest with which a group can be joined through a third member. With two
  confirmed coins and the larger limit of signature operations a block of a coinbase and two
  independent groups, one of them with two transactions, is accepted with three shards at work; the smaller limit lets the count overrun in one shard while another is valid.
* Two branches, one of which has an invalid block at its end, give ties of work, reorganisation and
  fall-back; two threads are enough for one to move the tip while the other validates. Two threads do
  not reach the limit of parallel validations among siblings, and with one call no block is
  `overlooked`; the proofs are for any limit and any number of calls.
* Two peers and three blocks with limits of two: a peer reaches its number in transit, a block is
  outside the window, a block has two sources. A third source, which `MaxParallelFetch` forbids, would
  take a third peer; the proof is for any limit and any number of peers. The windows are equal, as they
  are by default without pruning. Three peers with two
  blocks (4.7 million states) showed no violation of the safety properties either.
* One transaction with two wrappers lets an entry be removed and come back while tasks of the old one
  are queued. Two transactions and three wrappers were explored in part (11 million states) without a
  violation.
* A parent with two children that conflict shows orphans, double spends and chains, and with two
  non-standard transactions in a cycle a batch with the same transaction twice. A batch has at most three
  transactions, which `MaxToSchedule` admits together: scans that pass a transaction because its parent
  runs occur, scans that stop at the limit of tasks do not. `MaxArrivals` and `MaxMishaps` end
  behaviours.

No symmetry is used. Deadlock is checked in `blocks`; in the other runs a bound ends behaviours, or
the system may rest: all workers gone, no request left, all blocks connected or invalid.

### Fairness and assumptions

Weak fairness of single steps only, and only of steps that a thread takes once it is in a call:
the operating system runs runnable threads, and checks and scripts end. In `WPUSMutex` a holder
releases the lock at some time (handles are scoped). A caller that makes new calls for ever is not
excluded; where it could starve others, the property says that such calls stop (`RequestsServed`,
`GetCoinReturns`, `ActivationsEnd`). In `ChainstateRecovery` the last batch of a flush and the steps
of start-up are fair; crashes are bounded. Nothing is assumed about arrivals, cancellation,
operators' calls or spurious wakeups.

In `BlockDownload` a slow download is found out and its peer disconnected; a peer in `Reliable` stays,
the message handler turns to it, it sends what it is asked for, and it announces only valid blocks; `MaxFailures` bounds the downloads that other peers let fail without being disconnected. In
`MempoolTxDB` the worker and every started call proceed. An exception in the worker ends it and leaves
those who wait for it waiting; `PromiseKept` and `CallsReturn` speak of a worker that lives. In
`TxnValidator` the steps of a batch that has started are taken.

## What is proved

Each theorem holds for every value of the constants that meets the named assumptions of its module,
which TLC evaluates on the instances of the runs. For each module there is an inductive invariant:
it holds initially, every step preserves it (the proof has a step for each action, and under it one
for each conjunct the action can disturb), and the properties follow from it.

**`PrimitivesProofs`**, about `WPUSMutex`, for every finite set of threads (`ThreadsFinite`).

* `TypeCorrect`, `CountersCorrect` (with `MutualExclusion` and `PendingCounted`),
  `OptimisticWritesSound`, `WakeupsNotLost`: the invariants of the run `primitives`.
* `WritersPreferred`, `RefusalsJustified`: no new reader is admitted while a write request waits,
  and an escalation is refused only on account of another request.
* `ImplementsLock`: the mutex implements `UpgradableLock`.

`IInv` adds two strengthenings to the properties. `OneEscalation`: at most one reader waits in
`TryWriteLock`; without it the escalation of one reader could make the data of another one stale while
both count as readers. `SleepersBlocked` says why each sleeper's predicate fails; it is stronger than
`NoLostWakeup`, which speaks only of those whose predicate holds. Counting rests on the lemma
`Counting`, how a finite set's cardinality moves with one element.

**`PrimitivesProofs`**, about `CheckQueuePool`, for all finite sets of queues and requesters and any
values (`PoolConstantsHold`): `PoolBooksRight` and `PreemptionJustified`. `PoolAccounting` is inductive as
it stands; the work is in what inserting into and erasing from the list of running checkers keeps
apart.

**`CheckQueueProofs`**, for any finite number of workers, any batch size and any number of checks
(`WorkersFinite`, `MasterIsNoWorker`, `BatchSizePositive`, `BoundsAreNat`): `CountersRight`,
`SessionsApart`, `ResultsRight`. `Books` is `Accounting` with what makes counting possible: batches
and the queue are disjoint, and a thread has a batch exactly while it executes one. `Session` says
what an open session has found out so far: a failure is on record exactly when a check failed, and
without one every check has passed or is still to be executed by someone.

**`CoinsProofs`**, about `CoinsViews`, for all sets of outpoints, coins and spans and any number of blocks
(`CoinsDistinct`, `BlocksBounded`): `LayersAgree`, `SpansReadRight`, `SpansNotDisturbed`, and
`Implements`, the refinement of `UtxoSet`. The invariant speaks of one outpoint at a time: how an entry
of the shared cache relates to the database and to the coins of the tip, and how an entry of a span
relates to the coins of the block it is based on and, if its script is a reference, to the entry of
the shared cache that owns it. For the refinement the state of the abstract specification is first
shown to be the history variables (`AbstractState`), and then each step to be a step on those.

**`CoinsProofs`**, about `CoinsFetch`, for every finite set of outpoints with scripts of any size, any
threshold and any number of readers and preloading blocks (`FetchConstants`): `LoadsReadRight` and
`ThresholdRespected`. `FetchInv` adds to `GuardsSound` what each reader has found out by the place it
has reached (`ReaderOK`) and that an entry that differs from the database is `DIRTY` (`EntriesReal`).
Both are needed: what a reader has from the database is the truth only as long as the entry is not
`DIRTY`, and it does not become so because writers wait for the reader.
`Fills` is what every load does to the cache, one coin or a whole block of them: it fills in coins of
the database and stays within the threshold. The proofs say nothing of the failing assert (finding 1)
but that the reads before it are right. The usage is the number of bytes of the scripts, as a
cardinality, which makes the sum of the sizes a fact about finite sets.

**`MempoolTxDBControl`, `MempoolTxDBProofs`**, for any number of transactions, wrappers and callers and
any size of the queue (`ThreadsDistinct`, `NoneDistinct`, `MaximalSizeAssumption`). `Control` is about
threads and tasks: what a thread may be about to push in the job it is in, that whose `SyncTask` is
pending waits for it, and that a task that replaces the database is followed by the `SyncTask` of the
thread that ordered it. `PromisesKept` follows. `Data` is about transactions, and its proof takes
`Control` for granted: `Kept` says that once a wrapper has let go of its transaction, or is about to,
the transaction is in the database and no removal of it is batched, queued or about to be pushed.
`NoTransactionLost` and `KeyVouches` follow; nothing is assumed of the start-up, and what is exempt is in
the properties (`raced`).

**`ChainActivationProofs`**, for every finite tree of blocks with any of them invalid and any number of
threads and calls (`TreeRooted`, `TreeGrounded`, `BadInTree`, `AddressesDistinct`, `BoundsNat`):
`IndexStaysConsistent`, `BestChainIsActive`, `OnlyToParent`. `BestChainActive` speaks of the moment
when all threads are done; the invariant has to say what keeps it within reach while they are not. A
chain is `Sound` if it is neither marked invalid nor will be found so. `Covered`: every eligible block
is a candidate, or has no more work than the tip or than a sound candidate. `Anchored`: a sound
candidate lies on or above the tip, so that pruning the candidates never leaves none.
`UnlinkedInvalid`: what is above an invalid block that is not linked yet is marked too, so that
linking does not bring back what was excluded. `Control` says that a thread that released `cs_main`
validates a block of its own; `Resting`, that the last thread leaves nothing better behind.

**`ChainstateRecoveryProofs`**, for every tree of blocks, every content of the blocks that
`ConnectBlock` would accept, and any number of crashes (`GenesisInTree`, `ParentInTree`,
`TreeGrounded`, `GenesisEmpty`, `TxsTyped`, `ChainsValid`, `MaxCrashesNat`): `MemoryStaysConsistent` and
`EveryCrashSurvived`. The difficulty is that `ReplayBlocks` starts from coins that are those of no
block. Applying or undoing a transaction overwrites the outpoints it touches with values that do not
depend on what was there. A sequence of such steps is again an overwriting (`Over`), so what a replay
makes of any coins is, at the outpoints of the blocks between the two heads, what it makes of the
coins of the old head, and elsewhere what was on disk (`ReplayShape`, `ReplayRight`). Each batch of a
flush changes only outpoints where memory and disk differ, and so keeps `DiskCoins`. That start-up has
the blocks and undo data it needs follows from `DiskTree`: the block index and the undo data on disk
are closed under parents and contain both heads. `IInv` joins these with `MemoryTree` and
`HeadsFollowed`, their counterparts in memory, and the parts of the two properties.

**`BlockDownloadProofs`**, for any finite set of peers, any number of blocks and of threads that
validate, and any limits (`DownloadConstants`): `DownloadInvariant`, `TrackerAgrees` and `LimitsHold`,
through connecting, requesting, filling, stalling and leaving in any order. `TrackerConsistent` compares
counters with sets, while the code keeps lists: `PeerOK` says that a peer's list holds each block
tracked for it exactly once, so that its length, both counters and the number of records in the map
move together. The tracker's count of downloading peers is the number of peers whose list is not
empty; it changes only with the first block of a list and the last. `SendersPresent` says that who
sent a block still has a state when `BlockChecked` gets to it, and `AnnouncersListed` that no peer
announces twice, so that moving one to the end of the full list does not make it longer.

The provers have no induction over operators. Where a definition is recursive (`Ancestors`, `Chain`,
`Utxo`, `Without`, `CachedAll`, the folds of `Applied` and `Undone`), its solution is shown to exist, and facts about it are
proved by the least counterexample, from the well-foundedness of the tree or of the numbers. The modules
with proofs take nothing from `SequencesExt`: it brings `Bags` with it, whose definitions every
obligation would carry along. They define the few operators on lists they need (`Without`,
`RemovedAt`, `Reverse`, `FoldLeft`).

Model-checked only:

* every liveness property, as fairness is beyond the prover: `RequestsServed`, `PoolProgress`,
  `QueueProgress`, `GetCoinReturns`, `RecoveryCompletes`, `ActivationsEnd`, `DownloadCompletes`,
  `CallsReturn`, `BatchEnds`;
* `ValidationScheduler`, `OrphanTxns` and `TxnValidator`, and `TxnGrouper` and `ShardedConnect`, whose
  recursive operators the prover does not accept and which compute over the data of whole batches.

## Findings

1. **Two loads of one coin** (`fetch_assert`, `src/src/txdb.cpp:537`). `DBCacheAllInputs` inserts
   coins without the fetch guard. A reader between its database read and its insertion then fails
   an assert, although `src/src/txdb.cpp:616` promises that the coin is not in the cache.
2. **A block invalidated during its validation is connected** (`chain_invalid`,
   `src/src/validation.cpp:3153`). After `cs_main` is taken again only the tip is compared, not the
   status of the block.
3. **A removed transaction stays in the database** (`mempooldb_check`, `src/src/txmempool.cpp:839`). The
   worker is told of a removal only when the wrapper no longer owns its transaction; an add that is
   queued or being committed is not undone, and `CheckMempoolTxDBNL` asserts that this does not happen.
4. **An orphan is queued twice** (`txnval_twice`, `src/src/txn_validator.cpp:690`). An orphan that timed
   out and waits in the non-standard queue is scheduled again for its second parent, which the comment
   at `678` excludes.

Further observations have no run of their own.

* `reconsiderblock` clears the ancestors of a block without making them candidates
  (`src/src/validation.cpp:5404`); `BestChainActive` exempts such blocks by the history variable
  `overlooked`.
* A block connected as in finding 2 may leave no successor of the tip among the candidates;
  `TipOrSuccessorLeft` is stated for behaviours without it (`crossed`).
* A worker's vector of failed checks (`src/src/checkqueue.h:186`) lives as long as its `Loop` and is not
  cleared after it was appended (`201`), so later batches and sessions receive it again, although
  comments at `138` and in `checkqueuepool.h:94` speak of the failed checks of the session. `CheckQueue`
  models it; no property excludes it.
* An orphan whose parent is accepted through the synchronous interface or in a block is not retried
  until it is evicted or arrives again (`src/src/txn_validator.cpp:153`, `234`), nor is one that an
  exception hit; `NoOrphanLeftBehind` exempts them (`untold`), and an orphan of low priority that found
  the non-standard queue full.
* While `LoadMempool` handles an item of the file, the same transaction may come from a peer and be
  written out; the removal that the loader then pushes (`src/src/txmempool.cpp:3174`, `3180`) erases it
  from the database. And a load that gives up clears the mempool without `cs_main` (`3210`), which may be
  between the two critical sections of a reorganisation (`2307-2343`, `2349-2398`). In both an entry is
  left whose transaction is neither in memory nor in the database, and a dump lists it as on disk.
  `NothingLost` and `KeyVouchesForFile` exempt exactly the transactions that met one of these races in
  the session (`raced`).
* When a transaction is in a batch twice, as after finding 4, the copy that fails makes the detector
  forget the inputs of the other (`src/src/validation.cpp:1867`), and one that conflicts with it may be
  committed as well. `MempoolConsistent` exempts pairs with such a transaction (`twice`).
* `LimitMempoolSize` reports what it trims, not what it expires (`src/src/validation.cpp:879`): a
  transaction that a synchronous call has just accepted may go with an expired parent without an answer.
  `BatchAccounted` exempts it (`sync.expired`).
* An exception after a batch was accepted (`src/src/txn_validator.cpp:508`) makes it processed again,
  which puts accepted transactions into the recent rejects.

## What is left out

Within the modelled parts: soft rejection and consensus freeze of blocks, pruning of block files,
fatal disk errors, shutdown in the middle of an activation, headers that arrive late, blocks of
different work. `ReceivedBlockTransactions` rejects a block a hundred or more below the tip
if its transactions are out of order (`src/src/validation.cpp:5522-5533`); the trees are never so deep. A block read back from disk is the one
that was written, so a failure never has `CorruptionPossible` and always marks the block (`2446`, `4600`).
LevelDB is taken to write batches atomically and in order. Script validity is a
constant. In block download: time, headers, the choice among peers by speed,
and the tests of chain work (`src/src/net/net_processing.cpp:360-366`): every peer's best block has at
least the work of the active tip and of `nMinimumChainWork`. In the mempool: fees,
groups and the choice of what is evicted. In transaction validation: the
strategy `CHAIN_DETECTOR` (the default, `TOPO_SORT`, is modelled), finalisation and resubmission of
time-locked transactions, and blocks, which `cs_main` keeps out of a batch.

Components that are not modelled are in `PROJECT.json` with the reason: most of the network, wallet
and interface code is input and output; the interpreter, parsers and cryptography are sequential
functions of bytes.

## Plan

1. *Time locked mempool* and *mining journal*: the journal against the mempool after a reorganisation.
2. *Thread pools and background scheduler*: does every submitted task run once, and do destructors end?
3. *Connections*: set-up of streams and their move to an association.
4. *Proofs*: `TxnValidator.MempoolConsistent`, with the scheduler's recursion as recursive functions.
5. *Composition*: the check queue as a session of the pool, the coins lock with the layers, and the
   transaction validator with blocks that arrive between its batches.
