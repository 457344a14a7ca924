-------------------------- MODULE ChainstateRecovery --------------------------
(***************************************************************************)
(* How the coins database survives a crash: FlushStateToDisk (validation), *)
(* CoinsDB::DBBatchWrite (txdb.cpp), ReplayBlocks and the start-up order   *)
(* of init.cpp.                                                            *)
(*                                                                         *)
(* A flush is a sequence of LevelDB batches, each atomic.  The first one   *)
(* replaces the best block on disk by the pair HEAD_BLOCKS = (new, old),   *)
(* the last one puts it back.  A process that dies in between leaves any   *)
(* subset of the changes on disk.  The next start rolls back to the fork   *)
(* of the two heads and forward again, over that mixture.                  *)
(*                                                                         *)
(* An outpoint determines its coin, so a coins map is the set of unspent   *)
(* outpoints.  All threads that change this state hold cs_main, so each    *)
(* step of a flush is one action and nothing but a crash comes between.    *)
(***************************************************************************)
EXTENDS Integers, Sequences, FiniteSetsExt

CONSTANTS
  Blocks, Genesis,  \* the block tree
  None,             \* the null hash
  Parent,           \* hashPrevBlock of each block but Genesis
  Txs,              \* vtx of each block: a sequence of [ins, outs]
  MaxCrashes        \* bound: crashes in a behaviour

ASSUME GenesisInTree == Genesis \in Blocks /\ None \notin Blocks
ASSUME ParentInTree == Parent \in [Blocks \ {Genesis} -> Blocks]
\* CBlockIndex::nHeight: a block is one above its parent, so there are no cycles.
ASSUME TreeGrounded ==
  \A S \in (SUBSET Blocks) \ {{}} : \E b \in S : b = Genesis \/ Parent[b] \notin S
\* The genesis block has no spendable output: ConnectBlock skips it.
ASSUME GenesisEmpty == Txs[Genesis] = <<>>
ASSUME MaxCrashesNat == MaxCrashes \in Nat

VARIABLES
  phase,      \* run, flush (in DBBatchWrite), down, start (replayed), failed
  mem,        \* the coins the CoinsDB presents: cache over disk
  dirty,      \* outpoints whose cache entry is DIRTY
  tip,        \* CoinsDB::hashBlock
  index,      \* mapBlockIndex: the blocks whose data was received
  undo,       \* the blocks whose index entry has undo data
  disk,       \* coins on disk
  best,       \* DB_BEST_BLOCK on disk
  heads,      \* DB_HEAD_BLOCKS on disk: <<>> or <<new, old>>
  indexDisk,  \* the block index on disk, with the block files it refers to
  undoDisk,   \* the undo flags of the block index on disk
  crashes

memory == <<mem, dirty, tip, index, undo>>
coinsDisk == <<disk, best, heads>>
treeDisk == <<indexDisk, undoDisk>>
vars == <<phase, memory, coinsDisk, treeDisk, crashes>>

-----------------------------------------------------------------------------
\* A list from its last member to its first, and a walk along a list.
Reverse(s) == [i \in 1 .. Len(s) |-> s[(Len(s) - i) + 1]]
FoldLeft(Step(_, _), start, s) ==
  MapThenFoldSet(LAMBDA x, acc : Step(acc, x), start, LAMBDA i : s[i], LAMBDA left : Max(left), DOMAIN s)

\* UpdateCoins and RollforwardBlock: spend the inputs, add the outputs.
AppliedTx(coins, tx) == (coins \ tx.ins) \union tx.outs
Applied(coins, b) == FoldLeft(AppliedTx, coins, Txs[b])

\* ApplyBlockUndo: the transactions in reverse, outputs first, then inputs.
UndoneTx(coins, tx) == (coins \ tx.outs) \union tx.ins
Undone(coins, b) == FoldLeft(UndoneTx, coins, Reverse(Txs[b]))

\* The outpoints a block writes.
Touched(b) == UNION {tx.ins \union tx.outs : tx \in Range(Txs[b])}
Outpoints == UNION {Touched(b) : b \in Blocks}

ASSUME TxsTyped ==
  \A b \in Blocks : Txs[b] \in Seq([ins : SUBSET Outpoints, outs : SUBSET Outpoints])

\* The chain that ends in a block, Genesis first: index i has height i - 1.
Chain[b \in Blocks] == IF b = Genesis THEN <<b>> ELSE Append(Chain[Parent[b]], b)

\* The blocks of a chain above its first n.
Above(b, n) == SubSeq(Chain[b], n + 1, Len(Chain[b]))

\* LastCommonAncestor, as the length of its chain: the last place where the two
\* chains have the same block.  Without an old tip the roll forward starts
\* above height 0.
ForkLength(new, old) ==
  IF old = None THEN 1
  ELSE Max({i \in DOMAIN Chain[new] \intersect DOMAIN Chain[old] : Chain[new][i] = Chain[old][i]})

RolledBack(new, old) == IF old = None THEN <<>> ELSE Reverse(Above(old, ForkLength(new, old)))
RolledForward(new, old) == Above(new, ForkLength(new, old))

\* ReplayBlocks, on the coins the interrupted flush left behind.
Replayed(coins, new, old) ==
  FoldLeft(Applied, FoldLeft(Undone, coins, RolledBack(new, old)), RolledForward(new, old))

\* ReplayBlocks needs the index entries of both heads, the block data of the
\* path between them and the undo data of the old branch.
Replayable(new, old) ==
  /\ new \in indexDisk
  /\ old # None => old \in indexDisk
  /\ Range(RolledBack(new, old)) \subseteq undoDisk \intersect indexDisk
  /\ Range(RolledForward(new, old)) \subseteq indexDisk

\* What the coins are after a block, by definition.
Utxo[b \in Blocks] == IF b = Genesis THEN {} ELSE Applied(Utxo[Parent[b]], b)
UtxoOf(b) == IF b = None THEN {} ELSE Utxo[b]

\* The blocks are those that ConnectBlock accepts on top of their parent: a
\* transaction spends coins that are there, and makes none that is (BIP30).
ASSUME ChainsValid ==
  \A b \in Blocks \ {Genesis} : \A i \in DOMAIN Txs[b] :
    LET coins == FoldLeft(AppliedTx, Utxo[Parent[b]], SubSeq(Txs[b], 1, i - 1))
    IN Txs[b][i].ins \subseteq coins /\ Txs[b][i].outs \intersect coins = {}

\* An entry that is neither on disk nor unspent was FRESH and is erased.
StillDirtyUnspentOnly(touched, coins) == touched \intersect coins
StillDirty(touched, coins) == {o \in touched : o \in coins \union disk}

-----------------------------------------------------------------------------
Init ==
  /\ phase = "run"
  /\ mem = {} /\ dirty = {} /\ tip = None
  /\ index = {Genesis} /\ undo = {}
  /\ disk = {} /\ best = None /\ heads = <<>>
  /\ indexDisk = {} /\ undoDisk = {}
  /\ crashes = 0

\* AcceptBlock: the data of a block arrives and its index entry is made.
AcceptBlock(b) ==
  /\ phase = "run"
  /\ b \notin index /\ Parent[b] \in index
  /\ index' = index \union {b}
  /\ UNCHANGED <<phase, mem, dirty, tip, undo, coinsDisk, treeDisk, crashes>>

\* ConnectTip: the undo data is written first, then the span is flushed to
\* the CoinsDB.  The genesis block only sets the best block.
ConnectTip(b) ==
  /\ phase = "run"
  /\ b \in index
  /\ tip = IF b = Genesis THEN None ELSE Parent[b]
  /\ undo' = IF b = Genesis THEN undo ELSE undo \union {b}
  /\ mem' = Applied(mem, b)
  /\ dirty' = StillDirty(dirty \union Touched(b), mem')
  /\ tip' = b
  /\ UNCHANGED <<phase, index, coinsDisk, treeDisk, crashes>>

\* DisconnectTip.
DisconnectTip ==
  /\ phase = "run"
  /\ tip \notin {None, Genesis}
  /\ tip \in undo
  /\ mem' = Undone(mem, tip)
  /\ dirty' = StillDirty(dirty \union Touched(tip), mem')
  /\ tip' = Parent[tip]
  /\ UNCHANGED <<phase, index, undo, coinsDisk, treeDisk, crashes>>

\* The two parts of FlushStateToDisk: the block files and the block index are
\* written and synced, then the coins are flushed.
IndexWritten == indexDisk' = index /\ undoDisk' = undo

\* A periodic write of the block index alone.
WriteBlockIndex ==
  /\ phase = "run"
  /\ IndexWritten
  /\ UNCHANGED <<phase, memory, coinsDisk, crashes>>

\* CoinsDB::Flush: before the first block there is nothing to flush.
FlushBegunOnlyWithTip == phase' = IF tip = None THEN phase ELSE "flush"
FlushBegun == phase' = IF tip = None THEN "run" ELSE "flush"

\* A full flush, at any time while running and once at the end of start-up.
FlushStateToDisk ==
  /\ phase \in {"run", "start"}
  /\ IndexWritten
  /\ FlushBegun
  /\ UNCHANGED <<memory, coinsDisk, crashes>>

\* DBBatchWrite's old_tip: the best block, or that of an interrupted flush.
OldTipForgotten == best
OldTip == IF best = None /\ heads # <<>> THEN heads[2] ELSE best

WrittenTo(coins, S) == (coins \ S) \union (mem \intersect S)

\* DBBatchWrite, a batch that is full: some of the remaining entries.
HeadsMarked == heads' = <<tip, OldTip>> /\ best' = None

PartialBatch(S) ==
  /\ phase = "flush"
  /\ S \subseteq dirty
  /\ HeadsMarked
  /\ disk' = WrittenTo(disk, S)
  /\ dirty' = dirty \ S
  /\ UNCHANGED <<phase, mem, tip, index, undo, treeDisk, crashes>>

\* DBBatchWrite, the last batch: the rest, and the database is consistent.
FinalBatch ==
  /\ phase = "flush"
  /\ disk' = WrittenTo(disk, dirty)
  /\ dirty' = {}
  /\ heads' = <<>>
  /\ best' = tip
  /\ phase' = "run"
  /\ UNCHANGED <<mem, tip, index, undo, treeDisk, crashes>>

\* The process dies, in whatever it is doing; -dbcrashratio provokes it
\* between two batches.
Crash ==
  /\ phase \in {"run", "flush", "start"}
  /\ crashes < MaxCrashes
  /\ crashes' = crashes + 1
  /\ phase' = "down"
  /\ mem' = {} /\ dirty' = {} /\ tip' = None
  /\ index' = {} /\ undo' = {}
  /\ UNCHANGED <<coinsDisk, treeDisk>>

\* LoadBlockIndex and InitBlockIndex at start-up.
IndexLoaded == index' = indexDisk \union {Genesis} /\ undo' = undoDisk

\* Start-up goes on to the flush at the end of RewindBlockIndex.
Started == "start"

\* ReplayBlocks finds no heads; LoadChainTip takes the best block.
StartConsistent ==
  /\ phase = "down" /\ heads = <<>>
  /\ IndexLoaded
  /\ mem' = disk /\ dirty' = {} /\ tip' = best
  /\ phase' = IF best \in index' \union {None} THEN Started ELSE "failed"
  /\ UNCHANGED <<coinsDisk, treeDisk, crashes>>

\* ReplayBlocks finishes the interrupted flush in the CoinsDB's cache.
ReplayBlocks ==
  /\ phase = "down" /\ heads # <<>>
  /\ IndexLoaded
  /\ LET new == heads[1]
         old == heads[2]
         path == Range(RolledBack(new, old)) \union Range(RolledForward(new, old))
     IN IF Replayable(new, old)
        THEN /\ mem' = Replayed(disk, new, old)
             /\ dirty' = StillDirty(UNION {Touched(b) : b \in path}, mem')
             /\ tip' = new
             /\ phase' = Started
        ELSE /\ phase' = "failed"
             /\ UNCHANGED <<mem, dirty, tip>>
  /\ UNCHANGED <<coinsDisk, treeDisk, crashes>>

Next ==
  \/ \E b \in Blocks \ {Genesis} : AcceptBlock(b)
  \/ \E b \in Blocks : ConnectTip(b)
  \/ DisconnectTip
  \/ WriteBlockIndex
  \/ FlushStateToDisk
  \/ \E S \in SUBSET dirty : PartialBatch(S)
  \/ FinalBatch
  \/ Crash
  \/ StartConsistent
  \/ ReplayBlocks

Spec == Init /\ [][Next]_vars

\* A start-up runs to its end, and DBBatchWrite has finitely many entries.
FairSpec ==
  /\ Spec
  /\ WF_vars(FinalBatch)
  /\ WF_vars(StartConsistent \/ ReplayBlocks)
  /\ WF_vars(phase = "start" /\ FlushStateToDisk)

-----------------------------------------------------------------------------
\* Every variable has its type; the disk has a best block or heads, not both.
TypeOK ==
  /\ phase \in {"run", "flush", "down", "start", "failed"}
  /\ mem \subseteq Outpoints /\ dirty \subseteq Outpoints /\ disk \subseteq Outpoints
  /\ tip \in Blocks \union {None} /\ best \in Blocks \union {None}
  /\ heads = <<>> \/ heads \in Blocks \X (Blocks \union {None})
  /\ heads # <<>> => best = None
  /\ index \subseteq Blocks /\ undo \subseteq Blocks
  /\ indexDisk \subseteq Blocks /\ undoDisk \subseteq Blocks
  /\ crashes \in 0 .. MaxCrashes

\* While the node runs, flushes or has just replayed, the coins it presents
\* are those of its best block, whatever crashes came before (ReplayBlocks:
\* the result is the UTXO set of the new tip).
CoinsMatchTip == phase \in {"run", "flush", "start"} => mem = UtxoOf(tip)

\* At every instant, between any two batches included, the coins on disk are
\* those of the best block or can be brought to those of the new head by the
\* data that is on disk (the comment on idempotence in ReplayBlocks).
DiskRecoverable ==
  IF heads = <<>>
  THEN disk = UtxoOf(best)
  ELSE Replayable(heads[1], heads[2]) /\ Replayed(disk, heads[1], heads[2]) = Utxo[heads[1]]

\* No start ever ends in "unknown block" or missing undo data: the block index
\* is always written before the coins that refer to it.
NeverFails == phase # "failed"

\* A crash at any instant leaves a disk that the next start can repair, and no
\* start finds that it cannot.
CrashesSurvived == DiskRecoverable /\ NeverFails

\* assert(old_heads[0] == hashBlock) in DBBatchWrite: an interrupted flush is
\* finished towards its own new tip before any other.
FlushFinishesInterruptedOne == phase = "flush" /\ heads # <<>> => heads[1] = tip

\* What is not DIRTY need not be written: cache and disk agree on it.
DirtyCoversChanges ==
  phase \in {"run", "flush", "start"} =>
    \A o \in Outpoints \ dirty : o \in mem <=> o \in disk

\* DisconnectTip stops the node unless DisconnectBlock returns DISCONNECT_OK:
\* every output of the block is there and no input is, in the order of undoing.
CleanDisconnect ==
  phase = "run" /\ tip \notin {None, Genesis} =>
    \A i \in DOMAIN Txs[tip] :
      LET later == FoldLeft(UndoneTx, mem, Reverse(SubSeq(Txs[tip], i + 1, Len(Txs[tip]))))
      IN Txs[tip][i].outs \subseteq later /\ Txs[tip][i].ins \intersect later = {}

\* The coins in memory are right in every phase, and what differs from the disk
\* will be written by FlushStateToDisk, towards the head it began with.
MemoryConsistent ==
  /\ TypeOK
  /\ CoinsMatchTip
  /\ DirtyCoversChanges
  /\ FlushFinishesInterruptedOne
  /\ CleanDisconnect

\* After the last crash the node runs again.
RecoveryCompletes == phase = "down" ~> phase = "run"

=============================================================================
