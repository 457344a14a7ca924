--------------------------- MODULE ChainActivation ---------------------------
(* Choosing and activating the best chain (ActivateBestChain of              *)
(* validation.cpp) by several threads.  A thread holds cs_main except while  *)
(* it runs the scripts of a block that would add work to the active chain:   *)
(* then other threads choose, validate and connect other blocks, blocks      *)
(* arrive, and operators invalidate, reconsider and prefer blocks.  Each     *)
(* action is a part of the code that runs with cs_main held throughout.      *)
(*                                                                           *)
(* Headers are known from the start; blocks all have the same work.  Blocks  *)
(* are neither soft rejected nor frozen, and none is pruned.  The test of    *)
(* the transactions' order for blocks a hundred below the tip is left out,   *)
(* and the disk returns what was written (CorruptionPossible is false).      *)
EXTENDS Integers, FiniteSets, FiniteSetsExt

CONSTANTS
  Blocks,             \* the headers of mapBlockIndex
  Genesis,
  Parent,             \* CBlockIndex::GetPrev
  Bad,                \* invalid blocks
  Address,            \* of the CBlockIndex, the last tie breaker
  Threads,
  None,
  MaxParallelBlocks,
  MinBlocksToKeep,
  MaxRpcs,            \* bound on operators' calls
  MaxCancels          \* bound on validations that are terminated

ASSUME TreeRooted == Genesis \in Blocks \ Bad /\ Parent \in [Blocks \ {Genesis} -> Blocks]
\* CBlockIndex::nHeight: a block is one above its parent, so there are no cycles.
ASSUME TreeGrounded ==
  /\ IsFiniteSet(Blocks)
  /\ \A S \in (SUBSET Blocks) \ {{}} : \E b \in S : b = Genesis \/ Parent[b] \notin S
ASSUME BadInTree == Bad \subseteq Blocks /\ None \notin Blocks \union Threads
ASSUME AddressesDistinct == Address \in [Blocks -> Nat] /\ IsInjective(Address)
ASSUME BoundsNat ==
  MaxParallelBlocks \in Nat \ {0} /\ MinBlocksToKeep \in Nat /\ MaxRpcs \in Nat /\ MaxCancels \in Nat

VARIABLES
  csMain,             \* the thread that holds cs_main
  tip,                \* chainActive.Tip()
  malformed,          \* the bad blocks that AcceptBlock rejects, which never changes
  data,               \* blocks whose transactions were received
  linked,             \* nChainTx: those whose ancestors were received too
  unlinked,           \* mapBlocksUnlinked
  failed,             \* BlockStatus::hasFailed
  failedParent,       \* BlockStatus::hasFailedParent
  seqId,              \* nSequenceId
  time,               \* mValidationCompletionTime
  candidates,         \* setBlockIndexCandidates
  validating,         \* mCurrentlyValidatingBlocks
  pc,
  local,              \* the variables of ActivateBestChain
  precious,           \* nBlockReverseSequenceId, nLastPreciousChainwork
  overlooked,         \* history: blocks cleared of invalidity but not made candidates
  crossed,            \* history: a block marked invalid was connected
  rpcs,
  cancels

received == <<malformed, data, linked, unlinked, seqId>>
flags == <<failed, failedParent, overlooked, crossed>>
bounds == <<rpcs, cancels>>
vars == <<csMain, tip, received, flags, time, candidates, validating, pc, local, precious, bounds>>

-----------------------------------------------------------------------------
\* The block and all blocks it builds on, by GetPrev.
Up[b \in Blocks] == IF b = Genesis THEN {b} ELSE {b} \union Up[Parent[b]]
Ancestors == [b \in Blocks |-> Up[b]]
Descendants(b) == {d \in Blocks \ {b} : b \in Ancestors[d]}
Work(b) == Cardinality(Ancestors[b])

Invalid(b) == b \in failed \union failedParent

\* SteadyClockTimePoint::max and min.
Never == Cardinality(Blocks) + 1
Earliest == 0
\* steady_clock::now, which counts the completed validations.
Now == 1 + Cardinality({b \in Blocks : time[b] < Never})

\* CBlockIndexWorkComparator with the given times and sequence ids: a sorts
\* before b, that is, b is better.
Before(a, b, tm, id) ==
  LET x == <<-Work(a), tm[a], id[a], Address[a]>>
      y == <<-Work(b), tm[b], id[b], Address[b]>>
  IN \E i \in 1 .. 4 : x[i] > y[i] /\ \A j \in 1 .. i - 1 : x[j] = y[j]
Worse(a, b) == Before(a, b, time, seqId)

NoLocal == [pblock |-> None, mostWork |-> None, newTip |-> None, oldTip |-> None,
            target |-> None, outer |-> FALSE]

Init ==
  /\ csMain = None
  /\ tip = Genesis
  /\ malformed \in SUBSET Bad
  /\ data = {Genesis} /\ linked = {Genesis} /\ unlinked = {}
  /\ failed = {} /\ failedParent = {} /\ overlooked = {} /\ crossed = FALSE
  /\ seqId = [b \in Blocks |-> IF b = Genesis THEN 1 ELSE 0]
  /\ time = [b \in Blocks |-> Never]
  /\ candidates = {Genesis}
  /\ validating = {}
  /\ pc = [t \in Threads |-> "idle"]
  /\ local = [t \in Threads |-> NoLocal]
  /\ precious = [seq |-> -1, work |-> 0]
  /\ rpcs = 0 /\ cancels = 0

-----------------------------------------------------------------------------
\* PruneBlockIndexCandidates with a new tip.
Pruned(c, b, tm, id) == {x \in c : ~Before(x, b, tm, id)}

Goto(t, label) == pc' = [pc EXCEPT ![t] = label]
Free(t) == csMain = None \/ csMain = t
\* The end of the scope of LOCK(cs_main), which InvalidateBlock's caller holds
\* once more.
Unlocked(t) == csMain' = IF local[t].outer THEN t ELSE None

\* ActivateBestChain is called.
Activate(t, pblock, outer) ==
  /\ Goto(t, "lock")
  /\ local' = [local EXCEPT ![t] = [NoLocal EXCEPT !.pblock = pblock, !.outer = outer]]

\* ActivateBestChain returns.
Return(t) ==
  /\ Goto(t, "idle")
  /\ local' = [local EXCEPT ![t] = NoLocal]
  /\ csMain' = None

-----------------------------------------------------------------------------
\* The blocks that were received and wait for this one.
WaitingFor(b) == {d \in Descendants(b) : Ancestors[d] \ Ancestors[b] \subseteq unlinked}

\* The queue of ReceivedBlockTransactions goes through the tree by height.
LinkOrders(S) ==
  {q \in Bijection(1 .. Cardinality(S), S) : \A i, j \in DOMAIN q : i < j => Work(q[i]) <= Work(q[j])}

\* A block becomes a candidate unless it is worse than the tip.
BecomesCandidate(b, id) == ~Before(b, tip, time, id)

StillWaiting(q) == unlinked \ Range(q)

\* ReceivedBlockTransactions.
Link(b, q) ==
  /\ data' = data \union {b}
  /\ IF Parent[b] \in linked
     THEN /\ linked' = linked \union Range(q)
          /\ unlinked' = StillWaiting(q)
          /\ seqId' = [d \in Blocks |-> IF d \in Range(q)
                                        THEN Cardinality(linked) + CHOOSE i \in DOMAIN q : q[i] = d
                                        ELSE seqId[d]]
          /\ candidates' = candidates \union {d \in Range(q) : BecomesCandidate(d, seqId')}
     ELSE /\ unlinked' = IF Invalid(Parent[b]) THEN unlinked ELSE unlinked \union {b}
          /\ UNCHANGED <<linked, seqId, candidates>>

\* A block that was asked for is taken, another only if it is better than the
\* tip and not too far ahead of it (fHasMoreWork, fTooFarAhead).
Wanted(b, fRequested) ==
  fRequested \/ Work(b) \in Work(tip) + 1 .. Work(tip) + MinBlocksToKeep

\* AcceptBlock of a block that is new.
AcceptBlock(t, b, fRequested) ==
  /\ pc[t] = "idle" /\ csMain = None
  /\ b \notin data /\ ~Invalid(b)
  /\ Wanted(b, fRequested) /\ b \notin malformed
  /\ \E q \in LinkOrders({b} \union WaitingFor(b)) : Link(b, q)
  /\ Activate(t, b, FALSE)
  /\ UNCHANGED <<csMain, tip, malformed, flags, time, validating, precious, bounds>>

\* CheckBlock or ContextualCheckBlock fails: the block is marked, and nothing
\* else happens.
AcceptFails(t, b, fRequested) ==
  /\ pc[t] = "idle" /\ csMain = None
  /\ b \notin data /\ ~Invalid(b)
  /\ Wanted(b, fRequested) /\ b \in malformed
  /\ failed' = failed \union {b}
  /\ UNCHANGED <<csMain, tip, received, failedParent, overlooked, crossed, time, candidates,
                 validating, pc, local, precious, bounds>>

\* AcceptBlock of a block that changes nothing; its sender's thread goes on.
AcceptIgnored(t, b, fRequested) ==
  /\ pc[t] = "idle" /\ csMain = None
  /\ ~Invalid(b)
  /\ b \in data \/ ~Wanted(b, fRequested)
  /\ Activate(t, b, FALSE)
  /\ UNCHANGED <<csMain, tip, received, flags, time, candidates, validating, precious, bounds>>

-----------------------------------------------------------------------------
\* The start of the loop in ActivateBestChain: the cached choice serves again
\* if nobody has moved the tip.
CacheValid(t) == local[t].mostWork # None /\ local[t].newTip = tip

Lock(t) ==
  /\ pc[t] = "lock" /\ Free(t)
  /\ csMain' = t
  /\ local' = [local EXCEPT ![t].oldTip = tip]
  /\ Goto(t, IF CacheValid(t) THEN "check" ELSE "find")
  /\ UNCHANGED <<tip, received, flags, time, candidates, validating, precious, bounds>>

Best == CHOOSE b \in candidates : \A c \in candidates \ {b} : Worse(c, b)

\* The invalid blocks between the active chain and a candidate.
InvalidBelow(b) == {a \in Ancestors[b] \ Ancestors[tip] : Invalid(a)}

\* FindMostWorkChain meets a candidate with an invalid ancestor: the whole
\* chain above that ancestor is invalidated (InvalidateChain) and dropped.
FindDrops(t) ==
  /\ pc[t] = "find" /\ candidates # {}
  /\ InvalidBelow(Best) # {}
  /\ LET test == CHOOSE a \in InvalidBelow(Best) : InvalidBelow(Best) \subseteq Ancestors[a]
     IN /\ failedParent' = failedParent \union Descendants(test)
        /\ candidates' = candidates \ ({test} \union Descendants(test))
  /\ UNCHANGED <<csMain, tip, received, failed, overlooked, crossed, time, validating, pc, local, precious, bounds>>

\* ConsiderBlockForMostWorkChain.
ConsiderBlock(mostWork, pblock) ==
  IF /\ pblock # None /\ pblock # mostWork /\ pblock # Genesis
     /\ Parent[pblock] = tip
     /\ Work(mostWork) <= Work(pblock)
     /\ pblock \in linked /\ ~Invalid(pblock)
  THEN pblock ELSE mostWork

\* FindMostWorkChain returns; nothing to do if the choice is the tip.
FindChooses(t) ==
  /\ pc[t] = "find"
  /\ IF candidates = {} THEN Return(t)
     ELSE /\ InvalidBelow(Best) = {}
          /\ LET choice == ConsiderBlock(Best, local[t].pblock) IN
             IF choice = tip THEN Return(t)
             ELSE /\ local' = [local EXCEPT ![t].mostWork = choice]
                  /\ Goto(t, "check")
                  /\ UNCHANGED csMain
  /\ UNCHANGED <<tip, received, flags, time, candidates, validating, precious, bounds>>

\* CBlockValidationStatus::isAncestorInValidation, areNSiblingsInValidation.
IsParentInValidation(b) == \E v \in validating : v \in Ancestors[b] \ {b}
IsAncestorInValidation(b) == \E v \in validating : v \in Ancestors[b]
AreNSiblingsInValidation(b) ==
  Cardinality({v \in validating : Work(v) = Work(b)}) >= MaxParallelBlocks

LeavesToOthers(t) ==
  LET b == local[t].mostWork IN IsAncestorInValidation(b) \/ AreNSiblingsInValidation(b)

Leave(t) ==
  /\ pc[t] = "check" /\ LeavesToOthers(t)
  /\ Return(t)
  /\ UNCHANGED <<tip, received, flags, time, candidates, validating, precious, bounds>>

BeginStep(t) ==
  /\ pc[t] = "check" /\ ~LeavesToOthers(t)
  /\ Goto(t, "step")
  /\ UNCHANGED <<csMain, tip, received, flags, time, candidates, validating, local, precious, bounds>>

-----------------------------------------------------------------------------
\* ActivateBestChainStep: the next block to connect, and whether cs_main is
\* released while its scripts run.
OnPath(t) == tip \in Ancestors[local[t].mostWork] \ {local[t].mostWork}
Target(t) == CHOOSE b \in Ancestors[local[t].mostWork] \ {Genesis} : Parent[b] = tip
InParallel(t) == Work(tip) = Work(local[t].oldTip)

\* The step ends: the choice is kept if there is more to do on its path.
EndStep(t, newTip, fInvalidFound) ==
  /\ local' = [local EXCEPT ![t].newTip = newTip, ![t].target = None,
                            ![t].mostWork = IF fInvalidFound \/ @ = newTip THEN None ELSE @]
  /\ Goto(t, "lock")
  /\ Unlocked(t)

\* CBestBlockAttachmentCancellation or CBlockValidationCancellation is caught
\* and the loop goes on.
CaughtAndReturned(t) == Return(t)
Caught(t) ==
  /\ local' = [local EXCEPT ![t].mostWork = None, ![t].target = None]
  /\ Goto(t, "lock")
  /\ Unlocked(t)

\* DisconnectTip, until the fork.
DisconnectTip(t) ==
  /\ pc[t] = "step"
  /\ tip \notin Ancestors[local[t].mostWork]
  /\ tip' = Parent[tip]
  /\ UNCHANGED <<csMain, received, flags, time, candidates, validating, pc, local, precious, bounds>>

\* All blocks are connected.
Arrive(t) ==
  /\ pc[t] = "step"
  /\ tip = local[t].mostWork
  /\ EndStep(t, tip, FALSE)
  /\ UNCHANGED <<tip, received, flags, time, candidates, validating, precious, bounds>>

\* The end of ConnectTip for an invalid block: InvalidBlockFound.
InvalidBlockFoundStays(b) == UNCHANGED <<flags, candidates>>
InvalidBlockFound(b) ==
  /\ failed' = failed \union {b}
  /\ candidates' = candidates \ {b}
  /\ UNCHANGED <<failedParent, overlooked, crossed>>

ConnectFails(t, b) ==
  /\ b \in Bad
  /\ InvalidBlockFound(b)
  /\ EndStep(t, tip, TRUE)
  /\ UNCHANGED <<tip, time>>

\* A block is validated: writeUndoToDisk raises its validity to SCRIPTS, while
\* it is out of the candidates, which are sorted by the time this happened.
Validated(b) ==
  time' = [time EXCEPT ![b] = IF @ = Never /\ ~Invalid(b) THEN Now ELSE @]

\* UpdateTip, and PruneBlockIndexCandidates after it.
Connected(b) ==
  /\ Validated(b)
  /\ tip' = b
  /\ candidates' = Pruned(candidates \union {b}, b, time', seqId)
  /\ crossed' = (crossed \/ Invalid(b))
  /\ UNCHANGED <<failed, failedParent, overlooked>>

\* CCheckQueuePool terminates the validation in favour of a better block.
Cancelled(t) ==
  /\ cancels < MaxCancels
  /\ cancels' = cancels + 1
  /\ Caught(t)
  /\ UNCHANGED <<tip, flags, time, candidates>>

\* ConnectTip of a block on the way up to the work of the old tip.
ConnectTip(t) ==
  /\ pc[t] = "step" /\ OnPath(t) /\ ~InParallel(t)
  /\ IF Target(t) \in validating
     THEN Caught(t) /\ UNCHANGED <<tip, flags, time, candidates, cancels>>
     ELSE \/ ConnectFails(t, Target(t)) /\ UNCHANGED cancels
          \/ /\ Target(t) \notin Bad
             /\ Connected(Target(t))
             /\ UNCHANGED <<csMain, pc, local, cancels>>
          \/ Cancelled(t)
  /\ UNCHANGED <<received, validating, precious, rpcs>>

\* ConnectTip of a block that adds work: cs_main is released for its scripts.
BeginParallel(t) ==
  /\ pc[t] = "step" /\ OnPath(t) /\ InParallel(t)
  /\ IF Target(t) \in validating
     THEN Caught(t) /\ UNCHANGED validating
     ELSE /\ validating' = validating \union {Target(t)}
          /\ local' = [local EXCEPT ![t].target = Target(t)]
          /\ Goto(t, "validate")
          /\ Unlocked(t)
  /\ UNCHANGED <<tip, received, flags, time, candidates, precious, bounds>>

\* CCoinsViewCache::TryReattach: the coins are still those the block was
\* validated with.
ReattachesAlways(b) == TRUE
Reattaches(b) == tip = Parent[b]

\* cs_main is held again after the scripts of the block ran.
FinishParallel(t) ==
  LET b == local[t].target IN
  /\ pc[t] = "validate" /\ Free(t)
  /\ validating' = validating \ {b}
  /\ \/ ConnectFails(t, b) /\ UNCHANGED cancels
     \/ /\ b \notin Bad
        /\ IF Reattaches(b)
           THEN Connected(b) /\ EndStep(t, b, FALSE)
           ELSE /\ Validated(b)
                /\ candidates' = candidates \union {b}
                /\ Caught(t)
                /\ UNCHANGED <<tip, flags>>
        /\ UNCHANGED cancels
     \/ Cancelled(t)
  /\ UNCHANGED <<received, precious, rpcs>>

-----------------------------------------------------------------------------
\* An operator's call begins.
Rpc(t) == pc[t] = "idle" /\ csMain = None /\ rpcs < MaxRpcs /\ rpcs' = rpcs + 1

\* InvalidateBlock: the active chain is cut below the block, or the chain above
\* it is invalidated; whatever is not worse than the tip becomes a candidate.
\* ActivateBestChain follows with cs_main held by the caller all along.
InvalidateBlock(t, b) ==
  /\ Rpc(t)
  /\ failed' = failed \union {b}
  /\ tip' = IF b \in Ancestors[tip] THEN Parent[b] ELSE tip
  /\ LET gone == IF b \in Ancestors[tip] THEN Ancestors[tip] \ Ancestors[Parent[b]] ELSE Descendants(b)
     IN /\ failedParent' = failedParent \union gone
        /\ candidates' = (candidates \ ({b} \union gone))
             \union {x \in linked : x \notin failed' \union failedParent' /\ ~Worse(x, tip')}
  /\ Activate(t, None, TRUE)
  /\ csMain' = t
  /\ UNCHANGED <<received, overlooked, crossed, time, validating, precious, cancels>>

\* PreciousBlock: the block is treated as if it had been the first with its work.
PreciousBlock(t, b) ==
  /\ Rpc(t)
  /\ Work(b) >= Work(tip)
  /\ LET seq == IF Work(tip) > precious.work THEN -1 ELSE precious.seq
         id == [seqId EXCEPT ![b] = seq]
         tm == [time EXCEPT ![b] = Earliest]
     IN /\ precious' = [seq |-> seq - 1, work |-> Work(tip)]
        /\ seqId' = id /\ time' = tm
        /\ candidates' = IF b \in linked /\ ~Invalid(b)
                         THEN Pruned(candidates \union {b}, tip, tm, id)
                         ELSE candidates \ {b}
  /\ Activate(t, None, FALSE)
  /\ UNCHANGED <<csMain, tip, malformed, data, linked, unlinked, flags, validating, cancels>>

\* ResetBlockFailureFlags: the block, its descendants and its ancestors are no
\* longer invalid; of the descendants those better than the tip are candidates.
ResetBlockFailureFlags(t, b) ==
  /\ Rpc(t)
  /\ LET above == {b} \union Descendants(b)
         cleared == above \union Ancestors[b]
     IN /\ failed' = failed \ cleared
        /\ failedParent' = failedParent \ cleared
        /\ overlooked' = overlooked \union {a \in Ancestors[b] \ {b} : Invalid(a)}
        /\ candidates' = candidates \union {x \in above \intersect linked : Invalid(x) /\ Worse(tip, x)}
  /\ Activate(t, None, FALSE)
  /\ UNCHANGED <<csMain, tip, received, crossed, time, validating, precious, cancels>>

-----------------------------------------------------------------------------
Accept(t) ==
  \E b \in Blocks \ {Genesis}, fRequested \in BOOLEAN :
    \/ AcceptBlock(t, b, fRequested)
    \/ AcceptFails(t, b, fRequested)
    \/ AcceptIgnored(t, b, fRequested)

Activation(t) ==
  \/ Lock(t) \/ FindDrops(t) \/ FindChooses(t) \/ Leave(t) \/ BeginStep(t)
  \/ DisconnectTip(t) \/ Arrive(t) \/ ConnectTip(t) \/ BeginParallel(t) \/ FinishParallel(t)

Operator(t) ==
  \E b \in Blocks \ {Genesis} :
    InvalidateBlock(t, b) \/ PreciousBlock(t, b) \/ ResetBlockFailureFlags(t, b)

Next == \E t \in Threads : Accept(t) \/ Activation(t) \/ Operator(t)

Spec == Init /\ [][Next]_vars

\* Every thread that can go on does; the scripts of a block come to an end.
FairSpec == Spec /\ \A t \in Threads : WF_vars(Activation(t))

-----------------------------------------------------------------------------
Labels == {"idle", "lock", "find", "check", "step", "validate"}

\* TYPE: the variables have their types; blocks are validated by the threads
\* that released cs_main, and cs_main is held by whoever chooses or connects.
TypeOK ==
  /\ csMain \in Threads \union {None}
  /\ malformed \subseteq Bad /\ data \intersect malformed = {}
  /\ tip \in linked /\ linked \subseteq data /\ data \subseteq Blocks
  /\ unlinked \subseteq data \ linked
  /\ failed \subseteq Blocks /\ failedParent \subseteq Blocks /\ overlooked \subseteq Blocks
  /\ crossed \in BOOLEAN
  /\ seqId \in [Blocks -> Int] /\ time \in [Blocks -> Earliest .. Never]
  /\ candidates \subseteq linked
  /\ validating = {local[t].target : t \in {u \in Threads : pc[u] = "validate"}}
  /\ pc \in [Threads -> Labels]
  /\ \A t \in Threads : pc[t] \in {"find", "check", "step"} => csMain = t
  /\ rpcs \in 0 .. MaxRpcs /\ cancels \in 0 .. MaxCancels

\* No thread begins to connect a block that another one is validating: the
\* constructor of CBlockValidationStatus::CScopeGuard says of its exception
\* "if this happens we have a bug".
ValidatedOnce ==
  \A t \in Threads : pc[t] = "step" /\ OnPath(t) => Target(t) \notin validating

\* A block that could be the tip: it was received with all its ancestors, and
\* none of them is marked invalid.
Eligible(b) == Ancestors[b] \subseteq data /\ \A a \in Ancestors[b] : ~Invalid(a)

Quiescent == \A t \in Threads : pc[t] = "idle"

\* When all activations are over, whichever of them gave up in favour of
\* others, lost a race or were cancelled, no eligible block has more work than
\* the tip.  (ResetBlockFailureFlags clears the ancestors of a block without
\* making them candidates: those are not promised anything.  A block that was
\* marked invalid and connected nevertheless may be left for a better one that
\* fails; what was not a candidate beside it is then forgotten.)
BestChainActive ==
  Quiescent /\ ~crossed => \A b \in Blocks \ overlooked : Eligible(b) => Work(b) <= Work(tip)

\* What PruneBlockIndexCandidates says of itself holds whenever cs_main is
\* free: the tip or a successor of it is among the candidates.  (As long as no
\* block was connected that was marked invalid meanwhile: see ActiveChainValid.)
TipOrSuccessorLeft ==
  csMain = None /\ ~crossed => \E c \in candidates : tip \in Ancestors[c]

\* The sets of the block index agree with each other and with the threads, and
\* no two threads validate the same block.
IndexConsistent == TypeOK /\ TipOrSuccessorLeft /\ ValidatedOnce

\* A block is connected only to its parent, even if other threads moved the tip
\* while it was validated; otherwise the chain is only cut.
ConnectsToParent ==
  [][tip' \in Ancestors[tip] \/ (tip' # Genesis /\ Parent[tip'] = tip)]_tip

\* Once no more activations begin, every one of them comes to an end: no
\* invalid, cancelled or beaten block keeps the loop of ActivateBestChain going.
ActivationsEnd ==
  (<>[][\A t \in Threads : pc[t] = "idle" => pc'[t] = "idle"]_pc) => <>[]Quiescent

\* FindMostWorkChain: "we know all blocks in [the active chain] are valid
\* already".
ActiveChainValid == csMain = None => \A b \in Ancestors[tip] : ~Invalid(b)
=============================================================================
