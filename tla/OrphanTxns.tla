----------------------------- MODULE OrphanTxns -----------------------------
(***************************************************************************)
(* COrphanTxns (orphan_txns.cpp): transactions some of whose inputs are    *)
(* unknown, and the accepted transactions whose outputs they may wait for. *)
(* There is the pool of the transactions from peers ("p2p") and a          *)
(* temporary one for each synchronous batch ("batch"); a pool is a map     *)
(* entry of mOrphanTxns and of mCollectedTxData.  mOrphanTxnsByPrev is the *)
(* inverse of Spends on the pool.  Every operator is one critical section. *)
(***************************************************************************)
EXTENDS ValidationScheduler

CONSTANTS
  From,             \* of a transaction: the peer that sent it
  MaxOrphans,       \* GetMaxOrphanTxSize(), in transactions
  MaxOrphansInBatch \* mMaxTxsPerBatch * mMaxPercentageOfOrphansInBatch / 100, of the p2p pool

VARIABLES
  mOrphanTxns,      \* by pool: set of transactions
  mCollectedTxData, \* by pool: set of transactions
  mfOrphan          \* transactions marked with SetOrphanTxn

orphanVars == <<mOrphanTxns, mCollectedTxData, mfOrphan>>

Pools == {"p2p", "batch"}

NoOrphans ==
  /\ mOrphanTxns = [h \in Pools |-> {}]
  /\ mCollectedTxData = [h \in Pools |-> {}]
  /\ mfOrphan = {}

addTxn(h, t) == mOrphanTxns[h] \cup {t}

eraseTxn(h, t) == mOrphanTxns[h] \ {t}

\* The entries of a peer are found through a weak pointer to it.
eraseTxnsFromPeer(n) == {t \in mOrphanTxns["p2p"] : From[t] # n}

\* What may be left after entries expired and others were evicted at random.
limitTxnsSize(pool) == {kept \in SUBSET pool : Cardinality(kept) <= MaxOrphans}

\* Orphans that spend an output of t
DependOn(h, t) == {o \in mOrphanTxns[h] : t \in Parents(o)}

\* The only orphan for an output of t: the next layer leaves out outputs
\* that several orphans spend.
OnlyDependents(h, t) ==
  {o \in DependOn(h, t) :
     \E out \in Spends[o] : out[1] = t /\ \A u \in mOrphanTxns[h] : out \in Spends[u] => u = o}

\* Breadth first from the transactions `visit', `got' already taken
RECURSIVE NextLayers(_, _)
NextLayers(visit, got) ==
  IF visit = <<>> \/ Len(got) >= MaxOrphansInBatch THEN got
  ELSE LET new == SetToSeq(OnlyDependents("p2p", Head(visit)) \ ToSet(got))
       IN  NextLayers(Tail(visit) \o new, got \o new)

FirstLayer(h, collected) == UNION {DependOn(h, t) : t \in collected}

\* What collectDependentTxnsForRetry may return; it empties the collected data.
\* A batch's pool has no limit set, 0, and never goes past the first layer.
collectDependentTxnsForRetry(h, collected) ==
  LET first == FirstLayer(h, collected)
      orders == {s \in [1 .. Cardinality(first) -> first] : IsInjective(s)}
  IN  {IF h = "batch" \/ Len(s) > MaxOrphansInBatch THEN s ELSE NextLayers(s, s) : s \in orders}
============================================================================
