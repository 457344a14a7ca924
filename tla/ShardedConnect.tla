---------------------------- MODULE ShardedConnect ----------------------------
(***************************************************************************)
(* Parallel validation of the transactions of one block: checkScripts      *)
(* groups them (TxnGrouper), CCoinsViewCache::RunSharded gives each group  *)
(* a thread with a shard of the span's cache, BlockValidateTxns runs in    *)
(* each, and the shards are folded into one cache at the end.              *)
(*                                                                         *)
(* A shard is an overlay on the coins before the block.  The script checks *)
(* of a transaction are module CheckQueue's; here a transaction fails on   *)
(* missing inputs or on the count of signature operations, one for each    *)
(* transaction, which all threads share.                                   *)
(***************************************************************************)
EXTENDS TxnGrouper

CONSTANTS
  SigOpsLimits \* values of nMaxSigOpsCountConsensusBeforeGenesis; after Genesis
               \* nothing is counted, which a limit no block reaches stands for

VARIABLES
  shard,       \* per group: coins added and spent by its thread
  pos,         \* per group: the next member
  pc,          \* per group: begin, sigops, update, valid, invalid
  nMaxSigOps,  \* nMaxSigOpsCountConsensusBeforeGenesis, by the size of the block
  nSigOpsCount,
  vtxundo,     \* what each transaction spent
  folded       \* mShards[0] as the other shards are folded into it

vars == <<grouperVars, shard, pos, pc, nMaxSigOps, nSigOpsCount, vtxundo, folded>>

\* An overlay: coins added and coins spent.
Empty == [added |-> {}, spent |-> {}]
Entries(v) == v.added \union v.spent
Over(base, v) == (base \ v.spent) \union v.added

\* UpdateCoins on an overlay: SpendCoin for each input, AddCoins.
Updated(v, id, in) ==
  [added |-> (v.added \ in) \union {id}, spent |-> (v.spent \ {id}) \union in]

InsOf(id) == IF id = 0 THEN {} ELSE ins[id]
Shards == DOMAIN groups
Txn(k) == vtx[groups[k][pos[k]]]

Init ==
  /\ GrouperInit
  /\ shard = <<>> /\ pos = <<>> /\ pc = <<>>
  /\ nMaxSigOps \in SigOpsLimits
  /\ nSigOpsCount = 0
  /\ vtxundo = [i \in DOMAIN vtx |-> {}]
  /\ folded = Empty

GroupTxns == GrouperNext /\ UNCHANGED <<shard, pos, pc, nMaxSigOps, nSigOpsCount, vtxundo, folded>>

\* The loop of BlockValidateTxns, at position p of its group.
AtLoopHead(k, p) == IF p \in DOMAIN groups[k] THEN "begin" ELSE "valid"

\* RunSharded starts the threads, each on an empty shard of the fresh span.
RunSharded ==
  /\ phase = "validate" /\ pc = <<>>
  /\ shard' = [k \in Shards |-> Empty]
  /\ pos' = [k \in Shards |-> 1]
  /\ pc' = [k \in Shards |-> AtLoopHead(k, 1)]
  /\ UNCHANGED <<grouperVars, nMaxSigOps, nSigOpsCount, vtxundo, folded>>

Goto(k, label) == pc' = [pc EXCEPT ![k] = label]
Running(k, label) == phase = "validate" /\ k \in DOMAIN pc /\ pc[k] = label

\* BlockValidateTxns, the next transaction: HaveInputs, then the count is
\* increased.
HaveInputs(k) == InsOf(Txn(k)) \subseteq Over(External, shard[k])

Begin(k) ==
  /\ Running(k, "begin")
  /\ IF HaveInputs(k)
     THEN Goto(k, "sigops") /\ nSigOpsCount' = nSigOpsCount + 1
     ELSE Goto(k, "invalid") /\ UNCHANGED nSigOpsCount
  /\ UNCHANGED <<grouperVars, shard, pos, nMaxSigOps, vtxundo, folded>>

\* The count is compared with the limit.
TooManySigOps == nSigOpsCount > nMaxSigOps

SigOps(k) ==
  /\ Running(k, "sigops")
  /\ Goto(k, IF TooManySigOps THEN "invalid" ELSE "update")
  /\ UNCHANGED <<grouperVars, shard, pos, nMaxSigOps, nSigOpsCount, vtxundo, folded>>

\* UpdateCoins; the undo data goes to the place of the transaction.
UndoPlace(k) == groups[k][pos[k]]

UpdateCoins(k) ==
  /\ Running(k, "update")
  /\ shard' = [shard EXCEPT ![k] = Updated(@, Txn(k), InsOf(Txn(k)))]
  /\ vtxundo' = [vtxundo EXCEPT ![UndoPlace(k)] = InsOf(Txn(k))]
  /\ pos' = [pos EXCEPT ![k] = @ + 1]
  /\ Goto(k, AtLoopHead(k, pos[k] + 1))
  /\ UNCHANGED <<grouperVars, nMaxSigOps, nSigOpsCount, folded>>

\* All futures are collected; then ~ShardsRAII folds the shards, the last one
\* first, into the first.  BatchWriteUnchecked inserts what is not there.
Inserted(v, w) ==
  [added |-> v.added \union (w.added \ Entries(v)), spent |-> v.spent \union (w.spent \ Entries(v))]

FoldedLastOnly == Inserted(Head(shard), Last(shard))
Folded == FoldLeft(Inserted, Head(shard), Reverse(Tail(shard)))

Joined == \A k \in DOMAIN pc : pc[k] \in {"valid", "invalid"}

FoldShards ==
  /\ phase = "validate" /\ pc # <<>>
  /\ Joined
  /\ folded' = Folded
  /\ phase' = IF \A k \in Shards : pc[k] = "valid" THEN "accepted" ELSE "rejected"
  /\ UNCHANGED <<vtx, ins, numGroups, minSize, member, groups, shard, pos, pc,
                 nMaxSigOps, nSigOpsCount, vtxundo>>

Decided == phase \in {"accepted", "rejected"} /\ UNCHANGED vars

Next ==
  \/ GroupTxns
  \/ RunSharded
  \/ \E k \in DOMAIN pc : Begin(k) \/ SigOps(k) \/ UpdateCoins(k)
  \/ FoldShards
  \/ Decided

Spec == Init /\ [][Next]_vars

-----------------------------------------------------------------------------
\* Validation of the block one transaction after the other, by definition.
Sequential ==
  LET step(st, i) ==
        IF st.ok /\ InsOf(vtx[i]) \subseteq st.coins
        THEN [st EXCEPT !.coins = (@ \ InsOf(vtx[i])) \union {vtx[i]}]
        ELSE [st EXCEPT !.ok = FALSE]
  IN FoldLeft(step, [ok |-> Len(vtx) <= nMaxSigOps, coins |-> External], [i \in DOMAIN vtx |-> i])

\* Every variable has its type.
TypeOK ==
  /\ groups \in Seq(Seq(DOMAIN vtx))
  /\ phase \in {"scan", "combine", "merge", "validate", "accepted", "rejected"}
  /\ pc # <<>> => /\ DOMAIN pc = Shards
                  /\ \A k \in Shards : pos[k] \in 1 .. Len(groups[k]) + 1
  /\ nSigOpsCount \in 0 .. Len(vtx)
  /\ \A k \in DOMAIN shard : shard[k].added \intersect shard[k].spent = {}

\* assert(cacheCoins.find(...) == end) of BatchWriteUnchecked, compiled in debug
\* builds only: no two shards have an entry for the same outpoint.
ShardsDisjoint ==
  \A j, k \in DOMAIN shard : j # k => Entries(shard[j]) \intersect Entries(shard[k]) = {}

\* The parallel validation accepts exactly the blocks that validation in block
\* order accepts, whatever the groups, the heap's ties and the interleaving.
SameVerdict ==
  phase \in {"accepted", "rejected"} => (phase = "accepted" <=> Sequential.ok)

\* The coins and the undo data of an accepted block are those of validation in
\* block order.
ResultSequential ==
  phase = "accepted" =>
    /\ Over(External, folded) = Sequential.coins
    /\ \A i \in DOMAIN vtx : vtxundo[i] = InsOf(vtx[i])

\* The shards are disjoint while the threads of RunSharded run, and folded they
\* are the result of validation in block order.
ShardsSound == TypeOK /\ ShardsDisjoint /\ ResultSequential

\* Validation in parallel shards is validation in block order: the verdict, the
\* coins and the undo data.
VerdictSequential == SameVerdict /\ ShardsSound

=============================================================================
