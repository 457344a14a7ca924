----------------------------- MODULE MCPrimitives -----------------------------
(***************************************************************************)
(* The two primitives that validation threads block on, in one run: the    *)
(* mutex under the coins database and the pool of check queues.  They do   *)
(* not touch each other's state, so a behaviour is one of the mutex or one *)
(* of the pool (`active'), and the other one stays as it was initially.    *)
(***************************************************************************)
EXTENDS WPUSMutex, CheckQueuePool

VARIABLE active   \* "mutex" or "pool"

allVars == <<active, vars, poolVars>>

MCInit == active \in {"mutex", "pool"} /\ Init /\ PoolInit

MutexStep == active = "mutex" /\ Next /\ UNCHANGED <<active, poolVars>>
PoolStep == active = "pool" /\ PoolNext /\ UNCHANGED <<active, vars>>

MCNext == MutexStep \/ PoolStep

\* The fairness of the two modules, each for the behaviours that are its own.
MCFairness ==
  /\ \A t \in Threads :
       /\ WF_vars(active = "mutex" /\ pc[t] = "waitRead" /\ ReadLock(t))
       /\ WF_vars(active = "mutex" /\ pc[t] = "waitWrite" /\ WriteLock(t))
       /\ WF_vars(active = "mutex" /\ TryWriteLock(t))
       /\ WF_vars(active = "mutex" /\ Release(t))
  /\ \A r \in Requesters :
       WF_poolVars(active = "pool" /\ (Resume(r) \/ SessionOver(r) \/ ReturnQueueToPool(r)))

MCSpec == MCInit /\ [][MCNext]_allVars /\ MCFairness
=============================================================================
