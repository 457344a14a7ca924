------------------------------ MODULE TxnGrouper ------------------------------
(***************************************************************************)
(* TxnGrouper (txn_grouper.cpp): the transactions of a block are split     *)
(* into groups that can be validated in parallel.                          *)
(*                                                                         *)
(* A transaction is its id, with one output that bears the same name.  The *)
(* other outpoints are outputs of confirmed transactions.  Id 0 is the     *)
(* coinbase, which spends nothing.  A group is the sequence of the block   *)
(* positions of its members.                                               *)
(***************************************************************************)
EXTENDS Integers, Sequences, FiniteSets, FiniteSetsExt, SequencesExt

CONSTANTS
  Ids,         \* ids other than the coinbase's, which is 0: positive integers
  External,    \* outpoints of confirmed transactions
  Confirmed,   \* the id of the confirmed transaction of each
  MaxTxns,     \* bound: transactions in a block after the coinbase
  MaxGroups,   \* bound: numGroups, at least 1
  MaxMinSize   \* bound: minSize, at least 1

VARIABLES
  vtx,         \* the block: a sequence of ids, the coinbase first
  ins,         \* the outpoints each transaction spends
  numGroups, minSize,  \* the arguments of GetNumGroups
  member,      \* allGroups that are not combined yet
  groups,      \* the groups that are built
  phase        \* scan, combine, merge, validate; then as ShardedConnect says

grouperVars == <<vtx, ins, numGroups, minSize, member, groups, phase>>

\* The transaction an outpoint is an output of.
TxIdOf(o) == IF o \in External THEN Confirmed[o] ELSE o

\* A transaction cannot spend from one that is built on it, but the block may
\* have them in any order, leave some out and repeat some.
Inputs(id) == {S \in SUBSET (External \union {o \in Ids : o < id}) : Cardinality(S) \in 1 .. 2}
Spends(present) ==
  {f \in [Ids -> UNION {Inputs(id) : id \in Ids} \union {{}}] :
     \A id \in Ids : f[id] \in IF id \in present THEN Inputs(id) ELSE {{}}}

-----------------------------------------------------------------------------
\* ScanDependencies: every transaction of the block and the transactions it
\* spends from point at each other, in the block or not.
Linked(a, b) ==
  /\ a # b
  /\ \/ a \in ToSet(vtx) /\ a # 0 /\ b \in {TxIdOf(o) : o \in ins[a]}
     \/ b \in ToSet(vtx) /\ b # 0 /\ a \in {TxIdOf(o) : o \in ins[b]}

Nodes == Ids \union {0} \union Range(Confirmed)

\* BuildGroupNonRecursive: the scan list takes a node to all it is linked to,
\* and on.
Related(id) ==
  LET reached[n \in Nat] ==
        IF n = 0 THEN {id}
        ELSE LET before == reached[n - 1]
             IN before \union {b \in Nodes : \E a \in before : Linked(a, b)}
  IN reached[Cardinality(Nodes)]

\* The positions of the related transactions, in the order of the block.
GroupReversed(id) == SetToSortSeq({i \in DOMAIN vtx : vtx[i] \in Related(id)}, >)
Group(id) == SetToSortSeq({i \in DOMAIN vtx : vtx[i] \in Related(id)}, <)

\* GetGroups: a group for each transaction that no earlier group has visited.
AllGroups ==
  LET visit(built, id) ==
        IF \E k \in DOMAIN built : \E i \in ToSet(built[k]) : vtx[i] = id
        THEN built ELSE Append(built, Group(id))
  IN FoldLeft(visit, <<>>, vtx)

-----------------------------------------------------------------------------
GrouperInit ==
  /\ \E n \in 0 .. MaxTxns : \E txns \in [1 .. n -> Ids] : vtx = <<0>> \o txns
  /\ ins \in Spends(ToSet(vtx))
  /\ numGroups \in 1 .. MaxGroups
  /\ minSize \in 1 .. MaxMinSize
  /\ member = <<>>
  /\ groups = <<>>
  /\ phase = "scan"

GetGroups ==
  /\ phase = "scan"
  /\ member' = AllGroups
  /\ groups' = [k \in 1 .. numGroups |-> <<>>]
  /\ phase' = "combine"
  /\ UNCHANGED <<vtx, ins, numGroups, minSize>>

Smallest(k) == \A j \in DOMAIN groups : Len(groups[k]) <= Len(groups[j])

\* GetNumGroups: the next group goes into a smallest one, the top of the heap.
Combine(k) ==
  /\ phase = "combine"
  /\ member # <<>>
  /\ Smallest(k)
  /\ groups' = [groups EXCEPT ![k] = @ \o Head(member)]
  /\ member' = Tail(member)
  /\ UNCHANGED <<vtx, ins, numGroups, minSize, phase>>

CombineEnd ==
  /\ phase = "combine"
  /\ member = <<>>
  /\ phase' = "merge"
  /\ UNCHANGED <<vtx, ins, numGroups, minSize, member, groups>>

\* The last two groups of the order by size are joined if the last is too small.
BigEnough(k) == Len(groups[k]) >= minSize

\* The one before the last in that order.
SecondSmallest(j, k) == j # k /\ \A i \in DOMAIN groups \ {k} : Len(groups[j]) <= Len(groups[i])

Join(j, k) == RemoveAt([groups EXCEPT ![j] = @ \o groups[k]], k)

Merge(j, k) ==
  /\ phase = "merge"
  /\ Smallest(k) /\ SecondSmallest(j, k)
  /\ ~BigEnough(k)
  /\ groups' = Join(j, k)
  /\ UNCHANGED <<vtx, ins, numGroups, minSize, member, phase>>

MergeEnd ==
  /\ phase = "merge"
  /\ Len(groups) = 1 \/ \A k \in DOMAIN groups : Smallest(k) => BigEnough(k)
  /\ phase' = "validate"
  /\ UNCHANGED <<vtx, ins, numGroups, minSize, member, groups>>

GrouperNext ==
  \/ GetGroups
  \/ \E k \in DOMAIN groups : Combine(k)
  \/ CombineEnd
  \/ \E j, k \in DOMAIN groups : Merge(j, k)
  \/ MergeEnd

-----------------------------------------------------------------------------
Grouped == phase \notin {"scan", "combine", "merge"}

\* Every transaction of the block is in one group, once.
EachTxnOnce ==
  Grouped => \A i \in DOMAIN vtx :
    Cardinality({<<k, j>> \in (DOMAIN groups) \X (DOMAIN vtx) :
                   j \in DOMAIN groups[k] /\ groups[k][j] = i}) = 1

\* What a transaction reads or writes.
Touches(i) == {vtx[i]} \union (IF vtx[i] = 0 THEN {} ELSE ins[vtx[i]])

\* Two transactions that touch a common outpoint (parent and child, two that
\* spend the same coin, two copies) are in one group, in the order of the block.
DependentTogether ==
  Grouped => \A i, j \in DOMAIN vtx : i < j /\ Touches(i) \intersect Touches(j) # {} =>
    \E k \in DOMAIN groups : \E a, b \in DOMAIN groups[k] :
      a < b /\ groups[k][a] = i /\ groups[k][b] = j

\* "Build at most the requested number of groups ... while ensuring each group
\* is at least the given minimum size", which one group alone need not be.
SizesAsRequested ==
  Grouped => /\ Len(groups) \in 1 .. numGroups
             /\ Len(groups) > 1 => \A k \in DOMAIN groups : Len(groups[k]) >= minSize

\* What GetNumGroups returns: a partition of the block into groups that do not
\* depend on each other, of the sizes asked for.
GroupsSound == EachTxnOnce /\ DependentTogether /\ SizesAsRequested

=============================================================================
