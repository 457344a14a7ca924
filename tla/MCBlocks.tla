------------------------------- MODULE MCBlocks -------------------------------
(***************************************************************************)
(* What a block does to the coins, in one run: the validation of its       *)
(* transactions in parallel shards (ShardedConnect), and the flushing and  *)
(* recovery of the coins that the blocks leave (ChainstateRecovery).  Both *)
(* happen under cs_main, one after the other, so a behaviour is one of the *)
(* shards or one of the recovery (`active').                               *)
(*                                                                         *)
(* The recovery has a fork of two branches of two blocks.  Transaction t   *)
(* is mined in both branches and its output is spent in each of them by a  *)
(* different transaction; in a1 it is spent in the block that creates it.  *)
(* The shards have outputs of two confirmed transactions, so that a valid  *)
(* block may have two groups beside that of the coinbase.                  *)
(***************************************************************************)
EXTENDS ChainstateRecovery, TLC

CONSTANTS g, p, a1, a2, b1, b2, base, out, u, w
CONSTANTS x, y, c, d
CONSTANTS Ids, External, Confirmed, MaxTxns, MaxGroups, MaxMinSize, SigOpsLimits

MCParent == p :> g @@ a1 :> p @@ a2 :> a1 @@ b1 :> p @@ b2 :> b1

t == [ins |-> {base}, outs |-> {out}]

MCTxs ==
  g  :> <<>> @@
  p  :> << [ins |-> {}, outs |-> {base}] >> @@
  a1 :> << t, [ins |-> {out}, outs |-> {u}] >> @@
  a2 :> << [ins |-> {u}, outs |-> {}] >> @@
  b1 :> << t >> @@
  b2 :> << [ins |-> {out}, outs |-> {w}] >>

MCConfirmed == x :> c @@ y :> d

VARIABLES
  active,                                   \* "shards" or "recovery"
  vtx, ins, numGroups, minSize, member, groups, shardPhase,
  shard, pos, pc, nMaxSigOps, nSigOpsCount, vtxundo, folded

Sharded == INSTANCE ShardedConnect WITH phase <- shardPhase

shardVars == <<vtx, ins, numGroups, minSize, member, groups, shardPhase,
               shard, pos, pc, nMaxSigOps, nSigOpsCount, vtxundo, folded>>
allVars == <<active, vars, shardVars>>

\* In a behaviour of the recovery the block of the shards is the empty one.
MCInit ==
  /\ active \in {"shards", "recovery"}
  /\ Init /\ Sharded!Init
  /\ active = "recovery" =>
       /\ vtx = <<0>> /\ numGroups = 1 /\ minSize = 1
       /\ nMaxSigOps = CHOOSE n \in SigOpsLimits : TRUE

ShardsStep == active = "shards" /\ Sharded!Next /\ UNCHANGED <<active, vars>>
RecoveryStep == active = "recovery" /\ Next /\ UNCHANGED <<active, shardVars>>

MCNext == ShardsStep \/ RecoveryStep

\* The fairness of ChainstateRecovery; the shards need none.
MCSpec ==
  /\ MCInit /\ [][MCNext]_allVars
  /\ WF_vars(active = "recovery" /\ FinalBatch)
  /\ WF_vars(active = "recovery" /\ (StartConsistent \/ ReplayBlocks))
  /\ WF_vars(active = "recovery" /\ phase = "start" /\ FlushStateToDisk)

-----------------------------------------------------------------------------
\* GetNumGroups partitions the block into groups that do not depend on each other.
GroupsSound == Sharded!GroupsSound

\* Validation in parallel shards is validation in block order: verdict, coins, undo data.
VerdictSequential == Sharded!VerdictSequential
=============================================================================
