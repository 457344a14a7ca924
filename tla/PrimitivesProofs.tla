-------------------------- MODULE PrimitivesProofs --------------------------
(***************************************************************************)
(* Proofs about WPUSMutex, for every finite set of threads, and about      *)
(* CheckQueuePool, for any number of queues, requesters and values.        *)
(*                                                                         *)
(* The mutex: the inductive invariant adds to the properties the runs      *)
(* check that at most one reader waits to escalate and that every          *)
(* sleeper's predicate is false in the form the notifications maintain.    *)
(*                                                                         *)
(* The pool: its books are right in every critical section of mQueuesLock, *)
(* no notification is missing, and a checker is terminated only if it is   *)
(* the worst one and gives way to a better one.  PoolAccounting is         *)
(* inductive as it stands.                                                 *)
(***************************************************************************)
EXTENDS WPUSMutex, CheckQueuePool, FiniteSetTheorems, TLAPS

-----------------------------------------------------------------------------
(* WPUSMutex. *)

\* At most one reader waits in TryWriteLock: a second one is refused.
OneEscalation ==
  \A t, u \in Threads : pc[t] = "waitTry" /\ pc[u] = "waitTry" => t = u

\* What keeps each sleeper asleep.
SleepersBlocked ==
  \A t \in asleep :
    /\ pc[t] = "waitRead" => mWritePending # 0 \/ mLock = -1
    /\ pc[t] = "waitWrite" => mLock # 0
    /\ pc[t] = "waitTry" => mLock > 1

IInv ==
  /\ TypeOK
  /\ LockCountsHandles
  /\ PendingCountsRequests
  /\ HoldersSeeCurrentData
  /\ OneEscalation
  /\ SleepersBlocked

-----------------------------------------------------------------------------
\* Counting: how a finite set's cardinality moves with one element, and what 0 and 1 mean.
LEMMA Counting ==
  ASSUME NEW S, IsFiniteSet(S), NEW t
  PROVE  /\ Cardinality(S) \in Nat
         /\ t \notin S => Cardinality(S \union {t}) = Cardinality(S) + 1
         /\ t \in S => Cardinality(S \ {t}) = Cardinality(S) - 1
         /\ Cardinality(S) = 0 => S = {}
         /\ t \in S => Cardinality(S) # 0
         /\ t \in S /\ Cardinality(S) = 1 => S = {t}
<1>1. Cardinality(S) \in Nat
  BY FS_CardinalityType
<1>2. t \notin S => Cardinality(S \union {t}) = Cardinality(S) + 1
  BY FS_AddElement
<1>3. t \in S => IsFiniteSet(S \ {t}) /\ Cardinality(S \ {t}) = Cardinality(S) - 1
  BY FS_RemoveElement
<1>4. Cardinality(S) = 0 => S = {}
  BY FS_EmptySet
<1>5. t \in S => Cardinality(S) # 0
  BY FS_EmptySet
<1>6. ASSUME t \in S, Cardinality(S) = 1
      PROVE  S = {t}
  <2>1. Cardinality(S \ {t}) = 0
    BY <1>3, <1>6, <1>1
  <2>2. S \ {t} = {}
    BY <2>1, <1>3, <1>6, FS_EmptySet
  <2>3. QED
    BY <2>2, <1>6
<1>7. QED
  BY <1>1, <1>2, <1>3, <1>4, <1>5, <1>6

\* The sets of handles and of requests are finite.
LEMMA SetsFinite == IsFiniteSet(Readers) /\ IsFiniteSet(Pending)
BY ThreadsFinite, FS_Subset, Readers \subseteq Threads, Pending \subseteq Threads
   DEF Readers, Pending

\* One thread moves, the others stay where they are.
LEMMA GotoPc ==
  ASSUME TypeOK, NEW t \in Threads, NEW label \in PCs, Goto(t, label)
  PROVE  /\ pc' \in [Threads -> PCs]
         /\ pc'[t] = label
         /\ \A u \in Threads : u # t => pc'[u] = pc[u]
BY DEF TypeOK, Goto

-----------------------------------------------------------------------------
\* The readers are as many as mLock says unless a writer holds the lock.
LEMMA HandleFacts ==
  ASSUME IInv
  PROVE  /\ mLock = -1 => Readers = {} /\ \E w \in Threads : Writers = {w}
         /\ mLock # -1 => mLock = Cardinality(Readers) /\ Writers = {}
         /\ mLock >= -1
         /\ \A t \in Threads : pc[t] = "writing" => mLock = -1 /\ Writers = {t}
         /\ \A t \in Readers : mLock > 0
         /\ mLock = 0 => Readers = {}
         /\ \A t \in Readers : mLock = 1 => Readers = {t}
<1>1. Cardinality(Readers) \in Nat /\ IsFiniteSet(Readers)
  BY SetsFinite, FS_CardinalityType
<1>2. mLock \in Int
  BY DEF IInv, TypeOK
<1>3. /\ mLock = -1 => Readers = {} /\ \E w \in Threads : Writers = {w}
      /\ mLock # -1 => mLock = Cardinality(Readers) /\ Writers = {}
      /\ mLock >= -1
  BY <1>1, <1>2 DEF IInv, LockCountsHandles
<1>4. \A t \in Threads : pc[t] = "writing" => mLock = -1 /\ Writers = {t}
  <2>1. SUFFICES ASSUME NEW t \in Threads, pc[t] = "writing"
                 PROVE  mLock = -1 /\ Writers = {t}
    OBVIOUS
  <2>2. t \in Writers
    BY <2>1 DEF Writers
  <2>3. QED
    BY <2>2, <1>3
<1>5. \A t \in Readers : mLock > 0
  <2>1. SUFFICES ASSUME NEW t \in Readers PROVE mLock > 0
    OBVIOUS
  <2>2. mLock = Cardinality(Readers)
    BY <1>3
  <2>3. Cardinality(Readers) # 0
    BY <1>1, Counting, ZenonT(20)
  <2>4. QED
    BY <1>1, <2>2, <2>3
<1>6. mLock = 0 => Readers = {}
  BY <1>1, <1>3, Counting, ZenonT(20)
<1>7. \A t \in Readers : mLock = 1 => Readers = {t}
  BY <1>1, <1>3, Counting, ZenonT(20)
<1>8. QED
  BY <1>3, <1>4, <1>5, <1>6, <1>7

\* ReadLock: a new read hold, or one more sleeper.
LEMMA ReadLockKeeps ==
  ASSUME IInv, NEW t \in Threads, ReadLock(t)
  PROVE  IInv'
<1>1. CASE CanRead /\ mLock' = mLock + 1 /\ Locked(t, "reading") /\ UNCHANGED <<asleep, mWritePending>>
  <2>1. Goto(t, "reading") /\ "reading" \in PCs /\ TypeOK
    BY <1>1 DEF Locked, PCs, IInv
  <2>2. /\ pc[t] \in {"idle", "waitRead"} /\ t \notin asleep
        /\ t \notin Readers /\ t \notin Writers /\ t \notin Pending
    BY DEF ReadLock, Calls, Resumes, IInv, TypeOK, Readers, Writers, Pending
  <2>3. Readers' = Readers \union {t} /\ Writers' = Writers /\ Pending' = Pending
    BY <2>1, <2>2 DEF Goto, TypeOK, Readers, Writers, Pending
  <2>4. mLock' = Cardinality(Readers') /\ Writers' = {}
    BY <1>1, <2>2, <2>3, Counting, SetsFinite, HandleFacts DEF CanRead
  <2>5. TypeOK'
    BY <1>1, <2>1, <2>2, GotoPc DEF TypeOK, Locked
  <2>6. HoldersSeeCurrentData'
    BY <1>1, <2>3 DEF IInv, HoldersSeeCurrentData, Locked
  <2>7. OneEscalation'
    BY <2>1, GotoPc DEF IInv, OneEscalation
  <2>8. SleepersBlocked'
    BY <1>1, <2>1, <2>2, GotoPc DEF IInv, SleepersBlocked, CanRead, TypeOK
  <2>9. QED
    BY <1>1, <2>3, <2>4, <2>5, <2>6, <2>7, <2>8
       DEF IInv, LockCountsHandles, PendingCountsRequests
<1>2. CASE ~CanRead /\ Sleep(t, "waitRead") /\ UNCHANGED mWritePending
  <2>1. Goto(t, "waitRead") /\ "waitRead" \in PCs /\ TypeOK
    BY <1>2 DEF Sleep, PCs, IInv
  <2>2. /\ pc[t] \in {"idle", "waitRead"}
        /\ t \notin Readers /\ t \notin Writers /\ t \notin Pending
    BY DEF ReadLock, Calls, Resumes, IInv, TypeOK, Readers, Writers, Pending
  <2>3. Readers' = Readers /\ Writers' = Writers /\ Pending' = Pending
    BY <2>1, <2>2 DEF Goto, TypeOK, Readers, Writers, Pending
  <2>4. TypeOK'
    BY <1>2, <2>1, GotoPc DEF TypeOK, Sleep
  <2>5. OneEscalation'
    BY <2>1, GotoPc DEF IInv, OneEscalation
  <2>6. SleepersBlocked'
    BY <1>2, <2>1, GotoPc, HandleFacts DEF IInv, SleepersBlocked, CanRead, TypeOK, Sleep
  <2>7. QED
    BY <1>2, <2>3, <2>4, <2>5, <2>6
       DEF IInv, LockCountsHandles, PendingCountsRequests, HoldersSeeCurrentData, Sleep
<1>3. QED
  BY <1>1, <1>2 DEF ReadLock

\* Downgrade: the write hold becomes the only read hold.
LEMMA DowngradeKeeps ==
  ASSUME IInv, NEW t \in Threads, Downgrade(t)
  PROVE  IInv'
<1>1. /\ Goto(t, "reading") /\ "reading" \in PCs /\ TypeOK /\ pc[t] = "writing"
      /\ asleep' = {} /\ UNCHANGED <<mWritePending, outdated>>
  BY DEF Downgrade, PCs, IInv, NotifyAll
<1>2. mLock = -1 /\ Writers = {t} /\ Readers = {}
  BY <1>1, HandleFacts
<1>3. Readers' = {t} /\ Writers' = {} /\ Pending' = Pending
  BY <1>1, <1>2 DEF Goto, TypeOK, Readers, Writers, Pending
<1>4. mLock' = 1
  BY <1>2 DEF Downgrade, ReleaseNL
<1>5. mLock' = Cardinality(Readers')
  BY <1>3, <1>4, FS_Singleton
<1>6. TypeOK' /\ OneEscalation' /\ SleepersBlocked'
  BY <1>1, <1>4, GotoPc DEF IInv, TypeOK, OneEscalation, SleepersBlocked
<1>7. HoldersSeeCurrentData'
  BY <1>1, <1>2, <1>3 DEF IInv, HoldersSeeCurrentData
<1>8. QED
  BY <1>1, <1>3, <1>5, <1>6, <1>7 DEF IInv, LockCountsHandles, PendingCountsRequests

\* Release: one hold fewer, nobody asleep.
LEMMA ReleaseKeeps ==
  ASSUME IInv, NEW t \in Threads, Release(t)
  PROVE  IInv'
<1>1. /\ Goto(t, "idle") /\ "idle" \in PCs /\ TypeOK
      /\ pc[t] \in {"reading", "refused", "writing"}
      /\ mLock' = ReleaseNL /\ asleep' = {} /\ UNCHANGED <<mWritePending, outdated>>
  BY DEF Release, PCs, IInv, NotifyAll
<1>2. Readers' = Readers \ {t} /\ Writers' = Writers \ {t} /\ Pending' = Pending
  BY <1>1 DEF Goto, TypeOK, Readers, Writers, Pending
<1>3. mLock' = Cardinality(Readers') /\ Writers' = {}
  <2>1. CASE pc[t] = "writing"
    <3>1. mLock' = 0 /\ Readers' = {} /\ Writers' = {}
      BY <1>1, <1>2, <2>1, HandleFacts DEF ReleaseNL
    <3>2. QED
      BY <3>1, FS_EmptySet
  <2>2. CASE pc[t] # "writing"
    <3>1. t \in Readers
      BY <1>1, <2>2 DEF Readers
    <3>2. mLock > 0 /\ mLock = Cardinality(Readers) /\ Writers = {}
      BY <3>1, HandleFacts DEF IInv, TypeOK
    <3>3. mLock' = mLock - 1
      BY <1>1, <3>2 DEF ReleaseNL
    <3>4. Cardinality(Readers') = Cardinality(Readers) - 1
      BY <1>2, <3>1, Counting, SetsFinite
    <3>5. QED
      BY <1>2, <3>2, <3>3, <3>4
  <2>3. QED
    BY <2>1, <2>2
<1>4. mLock' \in Int
  BY <1>3, <1>1 DEF ReleaseNL, IInv, TypeOK
<1>5. TypeOK' /\ OneEscalation' /\ SleepersBlocked'
  BY <1>1, <1>4, GotoPc DEF IInv, TypeOK, OneEscalation, SleepersBlocked
<1>6. HoldersSeeCurrentData'
  BY <1>1, <1>2 DEF IInv, HoldersSeeCurrentData
<1>7. QED
  BY <1>1, <1>2, <1>3, <1>5, <1>6 DEF IInv, LockCountsHandles, PendingCountsRequests

\* WriteLock: the write hold on a free lock, or one more pending sleeper.
LEMMA WriteLockKeeps ==
  ASSUME IInv, NEW t \in Threads, WriteLock(t)
  PROVE  IInv'
<1> DEFINE pending == IF pc[t] = "idle" THEN mWritePending + 1 ELSE mWritePending
<1>1. /\ pc[t] \in {"idle", "waitWrite"} /\ t \notin asleep
      /\ t \notin Readers /\ t \notin Writers
      /\ pc[t] = "idle" => t \notin Pending
      /\ pc[t] = "waitWrite" => t \in Pending
  BY DEF WriteLock, Calls, Resumes, IInv, TypeOK, Readers, Writers, Pending
<1>2. /\ mWritePending = Cardinality(Pending) /\ mWritePending \in Nat
      /\ pending = Cardinality(Pending \union {t})
  <2>1. mWritePending = Cardinality(Pending) /\ mWritePending \in Nat
    BY DEF IInv, PendingCountsRequests, TypeOK
  <2>2. CASE pc[t] = "idle"
    BY <1>1, <2>1, <2>2, Counting, SetsFinite
  <2>3. CASE pc[t] = "waitWrite"
    <3>1. Pending \union {t} = Pending
      BY <1>1, <2>3
    <3>2. QED
      BY <2>1, <2>3, <3>1
  <2>4. QED
    BY <1>1, <2>1, <2>2, <2>3
<1>3. CASE CanWrite /\ mLock' = -1 /\ mWritePending' = pending - 1 /\ Locked(t, "writing")
           /\ UNCHANGED asleep
  <2>1. Goto(t, "writing") /\ "writing" \in PCs /\ TypeOK
    BY <1>3 DEF Locked, PCs, IInv
  <2>2. Readers = {} /\ Writers = {}
    BY <1>3, HandleFacts DEF CanWrite
  <2>3. Readers' = {} /\ Writers' = {t} /\ Pending' = Pending \ {t}
    BY <1>1, <2>1, <2>2 DEF Goto, TypeOK, Readers, Writers, Pending
  <2>4. mWritePending' = Cardinality(Pending') /\ mWritePending' \in Nat
    <3>1. CASE pc[t] = "idle"
      <4>1. Pending' = Pending
        BY <1>1, <2>3, <3>1
      <4>2. QED
        BY <1>2, <1>3, <3>1, <4>1
    <3>2. CASE pc[t] = "waitWrite"
      <4>1. Cardinality(Pending') = Cardinality(Pending) - 1 /\ Cardinality(Pending) # 0
        BY <1>1, <2>3, <3>2, Counting, SetsFinite
      <4>2. mWritePending' = mWritePending - 1
        BY <1>3, <3>2
      <4>3. QED
        BY <1>2, <4>1, <4>2
    <3>3. QED
      BY <1>1, <3>1, <3>2
  <2>5. TypeOK'
    BY <1>1, <1>3, <2>1, <2>4, GotoPc DEF TypeOK, Locked
  <2>6. HoldersSeeCurrentData'
    BY <1>3, <2>3 DEF HoldersSeeCurrentData, Locked
  <2>7. OneEscalation'
    BY <2>1, GotoPc DEF IInv, OneEscalation
  <2>8. SleepersBlocked'
    BY <1>1, <1>3, <2>1, GotoPc DEF IInv, SleepersBlocked, TypeOK, CanWrite
  <2>9. QED
    BY <1>3, <2>3, <2>4, <2>5, <2>6, <2>7, <2>8
       DEF IInv, LockCountsHandles, PendingCountsRequests
<1>4. CASE ~CanWrite /\ mWritePending' = pending /\ Sleep(t, "waitWrite")
  <2>1. Goto(t, "waitWrite") /\ "waitWrite" \in PCs /\ TypeOK
    BY <1>4 DEF Sleep, PCs, IInv
  <2>2. Readers' = Readers /\ Writers' = Writers /\ Pending' = Pending \union {t}
    BY <1>1, <2>1 DEF Goto, TypeOK, Readers, Writers, Pending
  <2>3. mWritePending' \in Nat /\ mWritePending' # 0
    <3>1. IsFiniteSet(Pending \union {t})
      BY SetsFinite, FS_AddElement
    <3>2. Cardinality(Pending \union {t}) \in Nat /\ Cardinality(Pending \union {t}) # 0
      BY <3>1, t \in Pending \union {t}, Counting, ZenonT(20)
    <3>3. QED
      BY <1>2, <1>4, <3>2
  <2>4. TypeOK'
    BY <1>4, <2>1, <2>3, GotoPc DEF TypeOK, Sleep
  <2>5. OneEscalation'
    BY <2>1, GotoPc DEF IInv, OneEscalation
  <2>6. SleepersBlocked'
    BY <1>4, <2>1, <2>3, GotoPc DEF IInv, SleepersBlocked, CanWrite, TypeOK, Sleep
  <2>7. QED
    BY <1>2, <1>4, <2>2, <2>4, <2>5, <2>6
       DEF IInv, LockCountsHandles, PendingCountsRequests, HoldersSeeCurrentData, Sleep
<1>5. QED
  BY <1>3, <1>4 DEF WriteLock, PendingGuardUndone

\* The unguarded test only moves the caller among the readers' labels.
LEMMA TryWriteLockUnguardedKeeps ==
  ASSUME IInv, NEW t \in Threads, TryWriteLockUnguarded(t)
  PROVE  IInv'
<1>1. PICK label \in {"refused", "tryWrite"} : Goto(t, label)
  BY DEF TryWriteLockUnguarded
<1>2. /\ label \in PCs /\ TypeOK /\ pc[t] = "reading"
      /\ UNCHANGED <<mLock, mWritePending, asleep, outdated>>
  BY DEF TryWriteLockUnguarded, PCs, IInv
<1>3. Readers' = Readers /\ Writers' = Writers /\ Pending' = Pending
  BY <1>1, <1>2 DEF Goto, TypeOK, Readers, Writers, Pending
<1>4. TypeOK' /\ OneEscalation' /\ SleepersBlocked'
  BY <1>1, <1>2, GotoPc DEF IInv, TypeOK, OneEscalation, SleepersBlocked
<1>5. QED
  BY <1>2, <1>3, <1>4 DEF IInv, LockCountsHandles, PendingCountsRequests, HoldersSeeCurrentData

\* TryWriteLock: refused, escalated as the only reader, or the one sleeping escalation.
LEMMA TryWriteLockKeeps ==
  ASSUME IInv, NEW t \in Threads, TryWriteLock(t)
  PROVE  IInv'
<1> DEFINE pending == IF pc[t] = "tryWrite" THEN mWritePending + 1 ELSE mWritePending
<1>1. /\ pc[t] \in {"tryWrite", "waitTry"} /\ t \notin asleep
      /\ t \in Readers /\ t \notin Writers
      /\ pc[t] = "tryWrite" => t \notin Pending
      /\ pc[t] = "waitTry" => t \in Pending
  BY DEF TryWriteLock, Calls, Resumes, IInv, TypeOK, Readers, Writers, Pending
<1>2. /\ mWritePending = Cardinality(Pending) /\ mWritePending \in Nat
      /\ pending = Cardinality(Pending \union {t})
      /\ pending - 1 = Cardinality(Pending \ {t})
      /\ pending \in Nat /\ pending - 1 \in Nat
  <2>1. mWritePending = Cardinality(Pending) /\ mWritePending \in Nat
    BY DEF IInv, PendingCountsRequests, TypeOK
  <2>2. CASE pc[t] = "tryWrite"
    <3>1. Pending \ {t} = Pending
      BY <1>1, <2>2
    <3>2. Cardinality(Pending \union {t}) = Cardinality(Pending) + 1
      BY <1>1, <2>2, Counting, SetsFinite
    <3>3. pending = mWritePending + 1
      BY <2>2
    <3> HIDE DEF pending
    <3>4. QED
      BY <2>1, <3>1, <3>2, <3>3
  <2>3. CASE pc[t] = "waitTry"
    <3>1. Pending \union {t} = Pending
      BY <1>1, <2>3
    <3>2. Cardinality(Pending \ {t}) = Cardinality(Pending) - 1 /\ Cardinality(Pending) # 0
      BY <1>1, <2>3, Counting, SetsFinite
    <3>3. pending = mWritePending
      BY <2>3
    <3>4. mWritePending # 0 /\ mWritePending - 1 = Cardinality(Pending \ {t})
      BY <2>1, <3>2
    <3>5. Cardinality(Pending \union {t}) = Cardinality(Pending)
      BY <3>1, Zenon
    <3> HIDE DEF pending
    <3>6. QED
      BY <2>1, <3>3, <3>4, <3>5
  <2>4. QED
    BY <1>1, <2>2, <2>3
<1>3. CASE /\ pending # 1 /\ mWritePending' = pending - 1 /\ Goto(t, "refused")
           /\ UNCHANGED <<mLock, asleep, outdated>>
  <2>1. "refused" \in PCs /\ TypeOK
    BY DEF PCs, IInv
  <2>2. Readers' = Readers /\ Writers' = Writers /\ Pending' = Pending \ {t}
    BY <1>1, <1>3, <2>1 DEF Goto, TypeOK, Readers, Writers, Pending
  <2>3. mWritePending' = Cardinality(Pending') /\ mWritePending' \in Nat /\ mWritePending' # 0
    BY <1>2, <1>3, <2>2
  <2>4. TypeOK' /\ OneEscalation' /\ SleepersBlocked'
    BY <1>1, <1>3, <2>1, <2>3, GotoPc DEF IInv, TypeOK, OneEscalation, SleepersBlocked
  <2>5. QED
    BY <1>3, <2>2, <2>3, <2>4
       DEF IInv, LockCountsHandles, PendingCountsRequests, HoldersSeeCurrentData
<1>4. CASE /\ mLock = 1 /\ mLock' = -1 /\ mWritePending' = pending - 1 /\ asleep' = {}
           /\ Goto(t, "writing") /\ UNCHANGED outdated
  <2>1. "writing" \in PCs /\ TypeOK
    BY DEF PCs, IInv
  <2>2. Readers = {t} /\ Writers = {}
    BY <1>1, <1>4, HandleFacts
  <2>3. Readers' = {} /\ Writers' = {t} /\ Pending' = Pending \ {t}
    BY <1>1, <1>4, <2>1, <2>2 DEF Goto, TypeOK, Readers, Writers, Pending
  <2>4. mWritePending' = Cardinality(Pending') /\ mWritePending' \in Nat
    BY <1>2, <1>4, <2>3
  <2>5. TypeOK' /\ OneEscalation' /\ SleepersBlocked'
    BY <1>4, <2>1, <2>4, GotoPc DEF IInv, TypeOK, OneEscalation, SleepersBlocked
  <2>6. HoldersSeeCurrentData'
    BY <1>4, <2>2, <2>3 DEF IInv, HoldersSeeCurrentData
  <2>7. QED
    BY <1>4, <2>3, <2>4, <2>5, <2>6 DEF IInv, LockCountsHandles, PendingCountsRequests
<1>5. CASE pending = 1 /\ mLock # 1 /\ mWritePending' = pending /\ Sleep(t, "waitTry")
  <2>1. Goto(t, "waitTry") /\ "waitTry" \in PCs /\ TypeOK
    BY <1>5 DEF Sleep, PCs, IInv
  <2>2. Readers' = Readers /\ Writers' = Writers /\ Pending' = Pending \union {t}
    BY <1>1, <2>1 DEF Goto, TypeOK, Readers, Writers, Pending
  <2>3. Pending \ {t} = {}
    <3>1. IsFiniteSet(Pending \ {t})
      BY SetsFinite, FS_RemoveElement, FS_Subset
    <3>2. Cardinality(Pending \ {t}) = 0
      BY <1>2, <1>5
    <3>3. QED
      BY <3>1, <3>2, FS_EmptySet
  <2>4. TypeOK'
    BY <1>2, <1>5, <2>1, GotoPc, ZenonT(20) DEF TypeOK, Sleep
  <2>5. OneEscalation'
    BY <2>1, <2>3, GotoPc DEF OneEscalation, Pending
  <2>6. mLock > 1
    BY <1>1, <1>5, HandleFacts DEF IInv, TypeOK
  <2>7. SleepersBlocked'
    BY <1>1, <1>2, <1>5, <2>1, <2>6, GotoPc DEF IInv, SleepersBlocked, TypeOK, Sleep
  <2>8. QED
    BY <1>2, <1>5, <2>2, <2>4, <2>5, <2>7, ZenonT(20)
       DEF IInv, LockCountsHandles, PendingCountsRequests, HoldersSeeCurrentData, Sleep
<1>6. QED
  BY <1>3, <1>4, <1>5 DEF TryWriteLock, PendingGuardUndone, OnlyRequest, OnlyReader, NotifyAll

\* Write: the only holder is the writer, so nobody who holds the lock is outdated.
LEMMA WriteKeeps ==
  ASSUME IInv, NEW t \in Threads, Write(t)
  PROVE  IInv'
<1>1. /\ pc[t] = "writing" /\ UNCHANGED <<mLock, mWritePending, asleep, pc>>
      /\ outdated' = outdated \union (Threads \ {t})
  BY DEF Write
<1>2. Readers' = Readers /\ Writers' = Writers /\ Pending' = Pending
  BY <1>1 DEF Readers, Writers, Pending
<1>3. Readers = {} /\ Writers = {t}
  BY <1>1, HandleFacts
<1>4. HoldersSeeCurrentData'
  BY <1>1, <1>2, <1>3 DEF IInv, HoldersSeeCurrentData
<1>5. TypeOK' /\ OneEscalation' /\ SleepersBlocked'
  BY <1>1 DEF IInv, TypeOK, OneEscalation, SleepersBlocked
<1>6. QED
  BY <1>1, <1>2, <1>4, <1>5 DEF IInv, LockCountsHandles, PendingCountsRequests

\* Steps that leave everything but the sleepers alone, a stuttering step included.
LEMMA WakeupKeeps ==
  ASSUME IInv, UNCHANGED <<mLock, mWritePending, pc, outdated>>, asleep' \subseteq asleep
  PROVE  IInv'
<1>1. Readers' = Readers /\ Writers' = Writers /\ Pending' = Pending
  BY DEF Readers, Writers, Pending
<1>2. TypeOK' /\ OneEscalation' /\ SleepersBlocked'
  BY DEF IInv, TypeOK, OneEscalation, SleepersBlocked
<1>3. QED
  BY <1>1, <1>2 DEF IInv, LockCountsHandles, PendingCountsRequests, HoldersSeeCurrentData

LEMMA InitHolds == Init => IInv
<1>1. SUFFICES ASSUME Init PROVE IInv
  OBVIOUS
<1>2. Readers = {} /\ Writers = {} /\ Pending = {}
  BY <1>1 DEF Init, Readers, Writers, Pending
<1>3. QED
  BY <1>1, <1>2, FS_EmptySet
     DEF Init, IInv, TypeOK, PCs, LockCountsHandles, PendingCountsRequests,
         HoldersSeeCurrentData, OneEscalation, SleepersBlocked

LEMMA NextKeeps == IInv /\ [Next]_vars => IInv'
<1>1. SUFFICES ASSUME IInv, [Next]_vars PROVE IInv'
  OBVIOUS
<1>2. CASE UNCHANGED vars
  BY <1>1, <1>2, WakeupKeeps DEF vars
<1>3. ASSUME NEW t \in Threads, SpuriousWakeup(t) PROVE IInv'
  BY <1>1, <1>3, WakeupKeeps DEF SpuriousWakeup
<1>4. QED
  BY <1>1, <1>2, <1>3, ReadLockKeeps, DowngradeKeeps, ReleaseKeeps, WriteLockKeeps,
     TryWriteLockUnguardedKeeps, TryWriteLockKeeps, WriteKeeps DEF Next

-----------------------------------------------------------------------------
\* The inductive invariant holds in every reachable state of the mutex.
THEOREM InductiveInvariant == Spec => []IInv
<1>1. QED
  BY InitHolds, NextKeeps, PTL DEF Spec

\* The state of the mutex keeps its type.
THEOREM TypeCorrect == Spec => []TypeOK
<1>1. IInv => TypeOK
  BY DEF IInv
<1>2. QED
  BY <1>1, InductiveInvariant, PTL

\* Mutual exclusion: mLock tells the number of read handles or the one write handle, so the
\* asserts on it in Lock::MakeReadLockHandle, MakeWriteLockHandle and ReleaseNL hold.
THEOREM MutualExclusion == Spec => []LockCountsHandles
<1>1. IInv => LockCountsHandles
  BY DEF IInv
<1>2. QED
  BY <1>1, InductiveInvariant, PTL

\* mWritePending counts the write requests that wait: no PendingGuard is lost or undone twice.
THEOREM PendingCounted == Spec => []PendingCountsRequests
<1>1. IInv => PendingCountsRequests
  BY DEF IInv
<1>2. QED
  BY <1>1, InductiveInvariant, PTL

\* Both counters of the mutex are exact in every reachable state.
THEOREM CountersCorrect == Spec => []CountersExact
<1>1. IInv => CountersExact
  BY DEF IInv, CountersExact
<1>2. QED
  BY <1>1, InductiveInvariant, PTL

\* Optimistic processing is sound: nobody writes between a thread's ReadLock and the write it
\* makes after TryWriteLock has returned true.
THEOREM OptimisticWritesSound == Spec => []HoldersSeeCurrentData
<1>1. IInv => HoldersSeeCurrentData
  BY DEF IInv
<1>2. QED
  BY <1>1, InductiveInvariant, PTL

\* No thread sleeps through the notification it needs.
THEOREM WakeupsNotLost == Spec => []NoLostWakeup
<1>1. ASSUME IInv PROVE NoLostWakeup
  <2>1. SUFFICES ASSUME NEW t \in asleep, CanProceed(t)
                 PROVE  pc[t] = "waitTry" /\ \E u \in Readers : u # t /\ pc[u] # "waitTry"
    BY DEF NoLostWakeup
  <2>2. t \in Threads /\ mLock \in Int /\ mWritePending \in Nat
    BY <1>1 DEF IInv, TypeOK
  <2>3. pc[t] = "waitTry" /\ mLock > 1
    BY <1>1, <2>1, <2>2 DEF IInv, SleepersBlocked, CanProceed
  <2>4. t \in Readers
    BY <2>2, <2>3 DEF Readers
  <2>5. mLock = Cardinality(Readers)
    BY <1>1, <2>3, HandleFacts
  <2>6. Readers # {t}
    <3>1. Cardinality({t}) = 1
      BY FS_Singleton
    <3>2. Cardinality(Readers) # Cardinality({t})
      BY <2>2, <2>3, <2>5, <3>1
    <3>3. QED
      BY <3>2, Zenon
  <2>7. PICK u \in Readers : u # t
    BY <2>4, <2>6
  <2>8. pc[u] # "waitTry"
    BY <1>1, <2>2, <2>3, <2>7, Readers \subseteq Threads DEF IInv, OneEscalation, Readers
  <2>9. QED
    BY <2>3, <2>7, <2>8
<1>2. QED
  BY <1>1, InductiveInvariant, PTL

\* A new read lock is granted only while no write request waits.
THEOREM WritersPreferred == Spec => WriterPreferred
<1>1. ASSUME IInv, [Next]_vars, NEW t \in Threads,
             pc[t] \in {"idle", "waitRead"}, pc'[t] = "reading"
      PROVE  Pending = {}
  <2>1. ReadLock(t) /\ CanRead
    BY <1>1 DEF IInv, TypeOK, Next, vars, ReadLock, Downgrade, Release, WriteLock,
       TryWriteLockUnguarded, TryWriteLock, Write, SpuriousWakeup, Sleep, Locked, Goto
  <2>2. Cardinality(Pending) = 0
    BY <1>1, <2>1 DEF CanRead, IInv, PendingCountsRequests
  <2>3. QED
    BY <2>2, SetsFinite, FS_EmptySet, ZenonT(20)
<1>2. IInv /\ [Next]_vars =>
        [\A t \in Threads :
           pc[t] \in {"idle", "waitRead"} /\ pc'[t] = "reading" => Pending = {}]_vars
  BY <1>1
<1>3. QED
  BY <1>2, InductiveInvariant, PTL DEF Spec, WriterPreferred

\* TryWriteLock refuses, once past its first test, only for the sake of another write request.
THEOREM RefusalsJustified == Spec => RefusedForAnotherWriter
<1>1. ASSUME IInv, [Next]_vars, NEW t \in Threads,
             pc[t] \in {"tryWrite", "waitTry"}, pc'[t] = "refused"
      PROVE  Pending \ {t} # {}
  <2>1. /\ TryWriteLock(t)
        /\ mWritePending \in Nat /\ mWritePending = Cardinality(Pending)
        /\ pc[t] = "tryWrite" => mWritePending # 0
        /\ pc[t] = "waitTry" => mWritePending # 1
    BY <1>1 DEF IInv, TypeOK, PendingCountsRequests, Next, vars, ReadLock, Downgrade, Release,
       WriteLock, TryWriteLockUnguarded, TryWriteLock, Write, SpuriousWakeup, Sleep, Locked,
       Goto, OnlyRequest
  <2>2. CASE pc[t] = "tryWrite"
    <3>1. Pending # {}
      BY <2>1, <2>2, FS_EmptySet
    <3>2. t \notin Pending
      BY <2>2 DEF Pending
    <3>3. QED
      BY <3>1, <3>2
  <2>3. CASE pc[t] = "waitTry"
    <3>1. t \in Pending
      BY <2>3 DEF Pending
    <3>2. Cardinality(Pending \ {t}) = Cardinality(Pending) - 1
      BY <3>1, Counting, SetsFinite
    <3>3. Cardinality(Pending \ {t}) # 0
      BY <2>1, <2>3, <3>2
    <3>4. Cardinality({}) = 0
      BY FS_EmptySet
    <3>5. QED
      BY <3>3, <3>4, Zenon
  <2>4. QED
    BY <1>1, <2>2, <2>3, ZenonT(20)
<1>2. IInv /\ [Next]_vars =>
        [\A t \in Threads :
           pc[t] \in {"tryWrite", "waitTry"} /\ pc'[t] = "refused" => Pending \ {t} # {}]_vars
  BY <1>1
<1>3. QED
  BY <1>2, InductiveInvariant, PTL DEF Spec, RefusedForAnotherWriter

\* One thread's step, seen through the refinement mapping.
LEMMA StepRefines ==
  ASSUME IInv, [Next]_vars
  PROVE  Abstract!AbsNext \/ UNCHANGED <<Readers, Writers>>
<1>1. CASE UNCHANGED vars
  BY <1>1 DEF vars, Readers, Writers
<1>2. ASSUME NEW t \in Threads, ReadLock(t)
      PROVE  Abstract!AbsNext \/ UNCHANGED <<Readers, Writers>>
  <2>1. pc[t] \in {"idle", "waitRead"} /\ pc \in [Threads -> PCs]
    BY <1>2 DEF ReadLock, Calls, Resumes, IInv, TypeOK
  <2>2. CASE CanRead /\ Goto(t, "reading")
    <3>1. t \notin Readers /\ Readers' = Readers \union {t} /\ Writers' = Writers
      BY <2>1, <2>2 DEF Goto, Readers, Writers
    <3>2. Writers = {}
      BY <2>2, HandleFacts DEF CanRead
    <3>3. QED
      BY <3>1, <3>2 DEF Abstract!AbsNext, Abstract!AcquireRead
  <2>3. CASE Goto(t, "waitRead")
    BY <2>1, <2>3 DEF Goto, Readers, Writers
  <2>4. QED
    BY <1>2, <2>2, <2>3 DEF ReadLock, Locked, Sleep
<1>3. ASSUME NEW t \in Threads, Downgrade(t)
      PROVE  Abstract!AbsNext
  <2>1. Readers = {} /\ Writers = {t}
    BY <1>3, HandleFacts DEF Downgrade
  <2>2. Readers' = {t} /\ Writers' = {}
    BY <1>3, <2>1 DEF Downgrade, Goto, IInv, TypeOK, Readers, Writers
  <2>3. QED
    BY <2>1, <2>2 DEF Abstract!AbsNext, Abstract!Downgrade
<1>4. ASSUME NEW t \in Threads, Release(t)
      PROVE  Abstract!AbsNext
  <2>1. /\ t \in Readers \union Writers
        /\ Readers' = Readers \ {t} /\ Writers' = Writers \ {t}
    BY <1>4 DEF Release, Goto, IInv, TypeOK, Readers, Writers
  <2>2. QED
    BY <2>1 DEF Abstract!AbsNext, Abstract!Release
<1>5. ASSUME NEW t \in Threads, WriteLock(t)
      PROVE  Abstract!AbsNext \/ UNCHANGED <<Readers, Writers>>
  <2>1. pc[t] \in {"idle", "waitWrite"} /\ pc \in [Threads -> PCs]
    BY <1>5 DEF WriteLock, Calls, Resumes, IInv, TypeOK
  <2>2. CASE CanWrite /\ Goto(t, "writing")
    <3>1. Readers = {} /\ Writers = {}
      BY <2>2, HandleFacts DEF CanWrite
    <3>2. Readers' = Readers /\ Writers' = {t}
      BY <2>1, <2>2, <3>1 DEF Goto, Readers, Writers
    <3>3. QED
      BY <3>1, <3>2 DEF Abstract!AbsNext, Abstract!AcquireWrite
  <2>3. CASE Goto(t, "waitWrite")
    BY <2>1, <2>3 DEF Goto, Readers, Writers
  <2>4. QED
    BY <1>5, <2>2, <2>3 DEF WriteLock, Locked, Sleep
<1>6. ASSUME NEW t \in Threads, TryWriteLock(t)
      PROVE  Abstract!AbsNext \/ UNCHANGED <<Readers, Writers>>
  <2>1. /\ pc[t] \in {"tryWrite", "waitTry"} /\ pc \in [Threads -> PCs]
        /\ t \in Readers
    BY <1>6 DEF TryWriteLock, Calls, Resumes, IInv, TypeOK, Readers
  <2>2. CASE OnlyReader /\ Goto(t, "writing")
    <3>1. Readers = {t} /\ Writers = {}
      BY <2>1, <2>2, HandleFacts DEF OnlyReader
    <3>2. Readers' = {} /\ Writers' = {t}
      BY <2>1, <2>2, <3>1 DEF Goto, Readers, Writers
    <3>3. QED
      BY <3>1, <3>2 DEF Abstract!AbsNext, Abstract!Upgrade
  <2>3. CASE Goto(t, "refused") \/ Goto(t, "waitTry")
    BY <2>1, <2>3 DEF Goto, Readers, Writers
  <2>4. QED
    BY <1>6, <2>2, <2>3 DEF TryWriteLock, Sleep
<1>7. ASSUME NEW t \in Threads, TryWriteLockUnguarded(t) \/ Write(t) \/ SpuriousWakeup(t)
      PROVE  UNCHANGED <<Readers, Writers>>
  BY <1>7 DEF TryWriteLockUnguarded, Write, SpuriousWakeup, Goto, IInv, TypeOK, Readers, Writers
<1>8. QED
  BY <1>1, <1>2, <1>3, <1>4, <1>5, <1>6, <1>7 DEF Next

\* The mutex implements the abstract upgradable lock: waiting and notifying add no behaviour,
\* and escalation is one step from the only reader to the writer.
THEOREM ImplementsLock == Spec => ImplementsUpgradableLock
<1>1. Init => Abstract!AbsInit
  BY DEF Init, Abstract!AbsInit, Readers, Writers
<1>2. IInv /\ [Next]_vars => [Abstract!AbsNext]_(Abstract!absVars)
  BY StepRefines DEF Abstract!absVars
<1>3. QED
  BY <1>1, <1>2, InductiveInvariant, PTL
     DEF Spec, ImplementsUpgradableLock, Abstract!AbsSpec

-----------------------------------------------------------------------------
(* CheckQueuePool. *)

\* An entry of mRunningCheckers.
Checker == [owner : Requesters, value : Values, checker : Queues, terminated : BOOLEAN]

\* The two conditions on mRunningCheckers that keep queues and requesters apart.
Apart(s) == \A i, j \in DOMAIN s : i # j => s[i].checker # s[j].checker /\ s[i].owner # s[j].owner

Waiters == {r \in Requesters : stage[r] = "wait"}

-----------------------------------------------------------------------------
\* What an entry of mRunningCheckers holds.
LEMMA Fields ==
  ASSUME NEW s \in Seq(Checker)
  PROVE  /\ Len(s) \in Nat /\ DOMAIN s = 1 .. Len(s)
         /\ \A i \in DOMAIN s : /\ s[i] \in Checker
                                /\ s[i].owner \in Requesters /\ s[i].value \in Values
                                /\ s[i].checker \in Queues /\ s[i].terminated \in BOOLEAN
<1>1. Len(s) \in Nat /\ DOMAIN s = 1 .. Len(s) /\ \A i \in DOMAIN s : s[i] \in Checker
  OBVIOUS
<1>2. \A x \in Checker : /\ x.owner \in Requesters /\ x.value \in Values
                         /\ x.checker \in Queues /\ x.terminated \in BOOLEAN
  BY Zenon DEF Checker
<1> QED  BY <1>1, <1>2, Zenon

\* No more checkers run than there are queues: the assert on the size of
\* mRunningCheckers in GetChecker.
LEMMA RunningBounded ==
  ASSUME PoolConstants, NEW s \in Seq(Checker), Apart(s)
  PROVE  Len(s) <= Cardinality(Queues)
<1> DEFINE f == [i \in 1 .. Len(s) |-> s[i].checker]
<1>1. Len(s) \in Nat /\ DOMAIN s = 1 .. Len(s) /\ \A i \in 1 .. Len(s) : s[i] \in Checker
  OBVIOUS
<1>2. f \in [1 .. Len(s) -> Queues]
  BY <1>1, Zenon DEF Checker
<1>3. \A a, b \in DOMAIN f : f[a] = f[b] => a = b
  BY <1>1, Zenon DEF Apart
<1>4. f \in Injection(1 .. Len(s), Queues)
  BY <1>2, <1>3, Zenon DEF Injection, IsInjective
<1>5. IsFiniteSet(Queues)
  BY Zenon DEF PoolConstants
<1> HIDE DEF f
<1>6. Cardinality(1 .. Len(s)) <= Cardinality(Queues)
  BY <1>4, <1>5, FS_Injection, Zenon
<1>7. Cardinality(1 .. Len(s)) = IF 1 > Len(s) THEN 0 ELSE Len(s) - 1 + 1
  BY <1>1, FS_Interval, SMTT(30)
<1> QED  BY <1>1, <1>6, <1>7, SMTT(30)

\* A set of naturals has a least element.
LEMMA LeastOf ==
  ASSUME NEW S, S \subseteq Nat, S # {}
  PROVE  \E m \in S : \A y \in S : m <= y
<1>1. IsWellFoundedOn(OpToRel(<, Nat), Nat)
  BY NatLessThanWellFounded, Zenon
<1>2. PICK m \in S : \A y \in S : ~(<<y, m>> \in OpToRel(<, Nat))
  BY <1>1, WFMin, Zenon
<1>3. \A y \in S : ~(y < m)
  BY <1>2, Zenon DEF OpToRel
<1> QED  BY <1>3, SMTT(30)

\* The scan for itWorst finds a checker, and none has a value below its value.
LEMMA WorstIsLeast ==
  ASSUME NEW s \in Seq(Checker), s # <<>>, Values \subseteq Nat
  PROVE  \E i \in DOMAIN s : \A j \in DOMAIN s \ {i} :
            s[i].value < s[j].value \/ (s[i].value = s[j].value /\ i < j)
<1> DEFINE V == {s[i].value : i \in DOMAIN s}
<1>1. DOMAIN s = 1 .. Len(s) /\ Len(s) \in Nat \ {0} /\ \A i \in DOMAIN s : s[i] \in Checker
  OBVIOUS
<1>a. \A i \in DOMAIN s : s[i].value \in Nat
  BY <1>1, Zenon DEF Checker
<1>2. V \subseteq Nat /\ V # {}
  <2>1. 1 \in DOMAIN s
    BY <1>1, SMTT(30)
  <2> QED  BY <1>a, <2>1, Zenon
<1>3. PICK m \in V : \A y \in V : m <= y
  <2> HIDE DEF V
  <2> QED  BY <1>2, LeastOf, Zenon
<1> DEFINE I == {i \in DOMAIN s : s[i].value = m}
<1>5. I \subseteq Nat /\ I # {}
  BY <1>1, <1>3, SMTT(30)
<1>6. PICK k \in I : \A y \in I : k <= y
  <2> HIDE DEF I
  <2> QED  BY <1>5, LeastOf, Zenon
<1>8. ASSUME NEW j \in DOMAIN s \ {k}
      PROVE  s[k].value < s[j].value \/ (s[k].value = s[j].value /\ k < j)
  <2>1. s[k].value = m /\ m <= s[j].value /\ k \in DOMAIN s
    BY <1>3, <1>6, Zenon
  <2>2. CASE s[j].value = m
    <3>1. k <= j
      BY <2>2, <1>6, Zenon
    <3> QED  BY <2>1, <2>2, <3>1, <1>1, SMTT(30)
  <2>3. CASE s[j].value # m
    BY <2>1, <2>3, <1>a, SMTT(30)
  <2> QED  BY <2>2, <2>3, Zenon
<1> QED  BY <1>6, <1>8, Zenon
\* GetChecker with no idle queue finds a checker to compare with, the one of
\* least value: itWorst is not end().
LEMMA WorstFound ==
  ASSUME PoolConstants, PoolAccounting, mIdleQueues = {}
  PROVE  /\ ItWorst \in Indices
         /\ \A j \in Indices : mRunningCheckers[ItWorst].value <= mRunningCheckers[j].value
<1>1. mRunningCheckers \in Seq(Checker) /\ Indices = DOMAIN mRunningCheckers
  BY Zenon DEF PoolAccounting, PoolTypeOK, Checker, Indices
<1>2. mRunningCheckers # <<>>
  <2>1. {} = Queues \ {mRunningCheckers[i].checker : i \in Indices} /\ Queues # {}
    BY Zenon DEF PoolAccounting, QueuesAccountedFor, PoolConstants
  <2>2. PICK i \in Indices : TRUE
    BY <2>1, Zenon
  <2> QED  BY <1>1, <2>2, SMTT(30)
<1>3. \A i \in Indices : mRunningCheckers[i].value \in Nat
  BY <1>1, Fields, Zenon DEF PoolConstants
<1>4. \E i \in Indices : \A j \in Indices \ {i} : Worse(i, j)
  <2>1. Values \subseteq Nat
    BY Zenon DEF PoolConstants
  <2>2. \E i \in DOMAIN mRunningCheckers : \A j \in DOMAIN mRunningCheckers \ {i} :
          \/ mRunningCheckers[i].value < mRunningCheckers[j].value
          \/ mRunningCheckers[i].value = mRunningCheckers[j].value /\ i < j
    BY <1>1, <1>2, <2>1, WorstIsLeast, Zenon
  <2> QED  BY <1>1, <2>2, Zenon DEF Worse
<1>5. ItWorst \in Indices /\ \A j \in Indices \ {ItWorst} : Worse(ItWorst, j)
  BY <1>4, Zenon DEF ItWorst
<1>6. ASSUME NEW j \in Indices
      PROVE  mRunningCheckers[ItWorst].value <= mRunningCheckers[j].value
  BY <1>3, <1>5, SMTT(30) DEF Worse
<1> QED  BY <1>5, <1>6, Zenon

\* Marking checkers as terminated, and requests that go to sleep, leave the
\* books as they are.
LEMMA MarkedKeeps ==
  ASSUME QueuesAccountedFor, mRunningCheckers \in Seq(Checker), mRunningCheckers' \in Seq(Checker),
         Len(mRunningCheckers') = Len(mRunningCheckers),
         \A i \in Indices : /\ mRunningCheckers'[i].owner = mRunningCheckers[i].owner
                            /\ mRunningCheckers'[i].checker = mRunningCheckers[i].checker,
         mIdleQueues' = mIdleQueues, busy' = busy,
         \A r \in Requesters : /\ stage'[r] \in {"check", "over"} <=> stage[r] \in {"check", "over"}
                               /\ stage'[r] = "check" <=> stage[r] = "check"
  PROVE  QueuesAccountedFor'
<1>1. Indices' = Indices /\ DOMAIN mRunningCheckers = Indices /\ Indices = 1 .. Len(mRunningCheckers)
  BY SMTT(30) DEF Indices
<1>2. \A i \in Indices : mRunningCheckers[i].owner \in Requesters
  BY <1>1, Fields, Zenon
<1>3. {mRunningCheckers'[i].checker : i \in Indices'} = {mRunningCheckers[i].checker : i \in Indices}
  BY <1>1, Zenon
<1>4. \A r \in Requesters : stage'[r] \in {"check", "over"} <=> \E i \in Indices' : mRunningCheckers'[i].owner = r
  BY <1>1, SMTT(30) DEF QueuesAccountedFor
<1>5. {k \in Indices' : stage'[mRunningCheckers'[k].owner] = "check"}
        = {k \in Indices : stage[mRunningCheckers[k].owner] = "check"}
  BY <1>1, <1>2, Zenon
<1>6. {mRunningCheckers'[i].checker : i \in {k \in Indices' : stage'[mRunningCheckers'[k].owner] = "check"}}
        = {mRunningCheckers[i].checker : i \in {k \in Indices : stage[mRunningCheckers[k].owner] = "check"}}
  BY <1>1, <1>5, SMTT(30)
<1>7. \A i, j \in Indices' : i # j =>
        /\ mRunningCheckers'[i].checker # mRunningCheckers'[j].checker
        /\ mRunningCheckers'[i].owner # mRunningCheckers'[j].owner
  BY <1>1, SMTT(30) DEF QueuesAccountedFor
<1> QED  BY <1>3, <1>4, <1>6, <1>7, Zenon DEF QueuesAccountedFor

\* A checker that is marked as terminated is otherwise the same.
LEMMA MarkedEntry ==
  ASSUME NEW s \in Seq(Checker), NEW k \in DOMAIN s
  PROVE  LET m == [s EXCEPT ![k].terminated = TRUE]
         IN  /\ m \in Seq(Checker) /\ Len(m) = Len(s)
             /\ \A i \in DOMAIN s : /\ m[i].owner = s[i].owner /\ m[i].checker = s[i].checker
                                    /\ m[i].value = s[i].value
                                    /\ i # k => m[i] = s[i]
<1> DEFINE e == [s[k] EXCEPT !.terminated = TRUE]
           m == [s EXCEPT ![k].terminated = TRUE]
<1>1. s[k] \in Checker
  BY Fields, Zenon
<1>2. e \in Checker /\ e.owner = s[k].owner /\ e.checker = s[k].checker /\ e.value = s[k].value
  BY <1>1, Zenon DEF Checker
<1>3. m = [s EXCEPT ![k] = e]
  OBVIOUS
<1> HIDE DEF e, m
<1>4. m \in Seq(Checker) /\ Len(m) = Len(s)
  BY <1>2, <1>3, SMTT(30)
<1>5. m[k] = e /\ \A i \in DOMAIN s : i # k => m[i] = s[i]
  BY <1>3, Zenon
<1>6. \A i \in DOMAIN s : m[i].owner = s[i].owner /\ m[i].checker = s[i].checker /\ m[i].value = s[i].value
  BY <1>2, <1>5, Zenon
<1> QED  BY <1>4, <1>5, <1>6, Zenon DEF m

\* A checker that starts takes a queue nobody else has.
LEMMA StartKeeps ==
  ASSUME QueuesAccountedFor, mRunningCheckers \in Seq(Checker),
         stage \in [Requesters -> {"idle", "wait", "check", "over"}],
         NEW r \in Requesters, NEW v \in Values, NEW q \in mIdleQueues,
         stage[r] \notin {"check", "over"}, StartChecker(r, v, q)
  PROVE  QueuesAccountedFor' /\ mRunningCheckers' \in Seq(Checker)
<1> DEFINE n == Len(mRunningCheckers)
           new == [owner |-> r, value |-> v, checker |-> q, terminated |-> FALSE]
<1>1. q \in Queues /\ \A i \in Indices : mRunningCheckers[i].checker # q
  BY SMTT(30) DEF QueuesAccountedFor
<1>2. new \in Checker /\ new.owner = r /\ new.checker = q
  BY <1>1, Zenon DEF Checker
<1>3. mRunningCheckers' = Append(mRunningCheckers, new)
  BY Zenon DEF StartChecker
<1> HIDE DEF new
<1>4. mRunningCheckers' \in Seq(Checker) /\ Indices = 1 .. n /\ Indices' = 1 .. n + 1 /\ n \in Nat
  BY <1>2, <1>3, SMTT(30) DEF Indices
<1>5. mRunningCheckers'[n + 1] = new /\ \A i \in Indices : mRunningCheckers'[i] = mRunningCheckers[i]
  BY <1>2, <1>3, <1>4, SMTT(30)
<1>6. \A i \in Indices' : i = n + 1 \/ i \in Indices
  BY <1>4, SMTT(30)
<1>7. \A i \in Indices : mRunningCheckers[i].owner # r /\ mRunningCheckers[i].owner \in Requesters
  BY Fields, Zenon DEF Indices, QueuesAccountedFor
<1>8. stage' = [stage EXCEPT ![r] = "check"] /\ mIdleQueues' = mIdleQueues \ {q} /\ busy' = busy \union {q}
  BY Zenon DEF StartChecker
<1> n + 1 \in Indices' /\ Indices \subseteq Indices' /\ n + 1 \notin Indices
  BY <1>4, SMTT(30)
<1> HIDE DEF n
<1>9. mIdleQueues' = Queues \ {mRunningCheckers'[i].checker : i \in Indices'}
  <2>1. {mRunningCheckers'[i].checker : i \in Indices'} = {mRunningCheckers[i].checker : i \in Indices} \union {q}
    BY <1>2, <1>5, <1>6, SMTT(30)
  <2> QED  BY <2>1, <1>8, Zenon DEF QueuesAccountedFor
<1>10. \A i, j \in Indices' : i # j =>
        /\ mRunningCheckers'[i].checker # mRunningCheckers'[j].checker
        /\ mRunningCheckers'[i].owner # mRunningCheckers'[j].owner
  BY <1>1, <1>2, <1>5, <1>6, <1>7, SMTT(30) DEF QueuesAccountedFor
<1>11. \A x \in Requesters : stage'[x] \in {"check", "over"} <=> \E i \in Indices' : mRunningCheckers'[i].owner = x
  BY <1>2, <1>5, <1>6, <1>7, <1>8, SMTT(30) DEF QueuesAccountedFor
<1>12. {k \in Indices' : stage'[mRunningCheckers'[k].owner] = "check"}
         = {k \in Indices : stage[mRunningCheckers[k].owner] = "check"} \union {n + 1}
  BY <1>2, <1>5, <1>6, <1>7, <1>8, SMTT(30)
<1>13. busy' = {mRunningCheckers'[i].checker : i \in {k \in Indices' : stage'[mRunningCheckers'[k].owner] = "check"}}
  <2> DEFINE K == {k \in Indices : stage[mRunningCheckers[k].owner] = "check"}
  <2>1. busy = {mRunningCheckers[i].checker : i \in K} /\ K \subseteq Indices
    BY Zenon DEF QueuesAccountedFor
  <2>2. {mRunningCheckers'[i].checker : i \in K \union {n + 1}} = {mRunningCheckers[i].checker : i \in K} \union {q}
    <3> HIDE DEF K
    <3> QED  BY <1>2, <1>5, <2>1, SMTT(30)
  <2> QED  BY <1>8, <1>12, <2>1, <2>2, Zenon
<1> QED  BY <1>4, <1>9, <1>10, <1>11, <1>13, Zenon DEF QueuesAccountedFor
\* The session of a checker is over; the queue is not returned yet.
LEMMA SessionOverKeeps ==
  ASSUME QueuesAccountedFor, mRunningCheckers \in Seq(Checker),
         stage \in [Requesters -> {"idle", "wait", "check", "over"}],
         NEW r \in Requesters, SessionOver(r)
  PROVE  QueuesAccountedFor' /\ busy' \subseteq busy
<1> DEFINE i == IndexOf(r)
           K == {k \in Indices : stage[mRunningCheckers[k].owner] = "check"}
<1>1. i \in Indices /\ mRunningCheckers[i].owner = r
  <2>1. \E k \in Indices : mRunningCheckers[k].owner = r
    BY Zenon DEF SessionOver, QueuesAccountedFor
  <2> QED  BY <2>1, Zenon DEF IndexOf
<1>2. /\ stage[r] = "check" /\ stage' = [stage EXCEPT ![r] = "over"]
      /\ busy' = busy \ {mRunningCheckers[i].checker}
      /\ mIdleQueues' = mIdleQueues /\ mRunningCheckers' = mRunningCheckers /\ Indices' = Indices
  BY Zenon DEF SessionOver, Indices
<1> HIDE DEF i
<1>3. \A k \in Indices : mRunningCheckers[k].owner \in Requesters
  BY Fields, Zenon DEF Indices
<1>4. {k \in Indices' : stage'[mRunningCheckers'[k].owner] = "check"} = K \ {i}
  BY <1>1, <1>2, <1>3, SMTT(30) DEF QueuesAccountedFor
<1>5. busy = {mRunningCheckers[k].checker : k \in K}
  BY Zenon DEF QueuesAccountedFor
<1>6. \A k \in K : k # i => mRunningCheckers[k].checker # mRunningCheckers[i].checker
  BY <1>1, Zenon DEF QueuesAccountedFor
<1>7. K \subseteq Indices
  OBVIOUS
<1> HIDE DEF K
<1>8. busy' = {mRunningCheckers[k].checker : k \in K \ {i}}
  BY <1>2, <1>5, <1>6, Zenon
<1>9. busy' = {mRunningCheckers'[k].checker : k \in {j \in Indices' : stage'[mRunningCheckers'[j].owner] = "check"}}
  BY <1>2, <1>4, <1>8, SMTT(30)
<1>10. \A x \in Requesters : stage'[x] \in {"check", "over"} <=> \E k \in Indices' : mRunningCheckers'[k].owner = x
  BY <1>2, Zenon DEF QueuesAccountedFor
<1>11. mIdleQueues' = Queues \ {mRunningCheckers'[k].checker : k \in Indices'}
  BY <1>2, SMTT(30) DEF QueuesAccountedFor
<1>12. \A k, l \in Indices' : k # l =>
         /\ mRunningCheckers'[k].checker # mRunningCheckers'[l].checker
         /\ mRunningCheckers'[k].owner # mRunningCheckers'[l].owner
  BY <1>2, SMTT(30) DEF QueuesAccountedFor
<1>13. busy' \subseteq busy
  BY <1>2, Zenon
<1> QED  BY <1>9, <1>10, <1>11, <1>12, <1>13, Zenon DEF QueuesAccountedFor

\* vector::erase: the entries after the erased one move down by one.
LEMMA ErasedEntries ==
  ASSUME mRunningCheckers \in Seq(Checker), NEW i \in Indices
  PROVE  /\ Erased(i) \in Seq(Checker)
         /\ Len(Erased(i)) = Len(mRunningCheckers) - 1
         /\ \A k \in 1 .. Len(mRunningCheckers) - 1 :
              Erased(i)[k] = IF k < i THEN mRunningCheckers[k] ELSE mRunningCheckers[k + 1]
<1> DEFINE n == Len(mRunningCheckers)
           a == SubSeq(mRunningCheckers, 1, i - 1)
           b == SubSeq(mRunningCheckers, i + 1, n)
<1>1. n \in Nat /\ i \in 1 .. n /\ Erased(i) = a \o b
  BY SMTT(30) DEF Indices, Erased
<1>2. a \in Seq(Checker) /\ Len(a) = i - 1 /\ \A k \in 1 .. i - 1 : a[k] = mRunningCheckers[k]
  BY <1>1, SMTT(30)
<1>3. b \in Seq(Checker) /\ Len(b) = n - i /\ \A k \in 1 .. n - i : b[k] = mRunningCheckers[i + k]
  BY <1>1, SMTT(30)
<1> HIDE DEF a, b
<1>4. a \o b \in Seq(Checker) /\ Len(a \o b) = n - 1
  <2>1. \A x, y \in Seq(Checker) : x \o y \in Seq(Checker) /\ Len(x \o y) = Len(x) + Len(y)
    OBVIOUS
  <2>2. a \o b \in Seq(Checker) /\ Len(a \o b) = Len(a) + Len(b)
    BY <1>2, <1>3, <2>1, Zenon
  <2> QED  BY <1>1, <1>2, <1>3, <2>2, SMTT(30)
<1>5. ASSUME NEW k \in 1 .. n - 1
      PROVE  (a \o b)[k] = IF k < i THEN mRunningCheckers[k] ELSE mRunningCheckers[k + 1]
  <2>1. CASE k < i
    BY <1>1, <1>2, <1>3, <2>1, SMTT(30)
  <2>2. CASE ~(k < i)
    <3>1. (a \o b)[k] = b[k - (i - 1)]
      BY <1>1, <1>2, <1>3, <2>2, SMTT(30)
    <3>2. b[k - (i - 1)] = mRunningCheckers[i + (k - (i - 1))]
      BY <1>1, <1>3, <2>2, SMTT(30)
    <3>3. i + (k - (i - 1)) = k + 1
      BY <1>1, SMTT(30)
    <3> QED  BY <2>2, <3>1, <3>2, <3>3, Zenon
  <2> QED  BY <2>1, <2>2, Zenon
<1> QED  BY <1>1, <1>4, <1>5, Zenon

\* A queue that is returned is idle and lent to nobody.
LEMMA ReturnKeeps ==
  ASSUME QueuesAccountedFor, mRunningCheckers \in Seq(Checker),
         stage \in [Requesters -> {"idle", "wait", "check", "over"}],
         NEW r \in Requesters, ReturnQueueToPool(r)
  PROVE  /\ QueuesAccountedFor' /\ mRunningCheckers' \in Seq(Checker)
         /\ \E q \in Queues \ mIdleQueues : mIdleQueues' = mIdleQueues \union {q}
<1> DEFINE i == IndexOf(r)
           n == Len(mRunningCheckers)
           c == mRunningCheckers[i].checker
<1>1. i \in Indices /\ mRunningCheckers[i].owner = r
  <2>1. \E k \in Indices : mRunningCheckers[k].owner = r
    BY Zenon DEF ReturnQueueToPool, QueuesAccountedFor
  <2> QED  BY <2>1, Zenon DEF IndexOf
<1>2. /\ stage[r] = "over" /\ stage' = [stage EXCEPT ![r] = "idle"] /\ busy' = busy
      /\ mIdleQueues' = mIdleQueues \union {c}
      /\ mRunningCheckers' = Erased(i)
  BY Zenon DEF ReturnQueueToPool
<1> HIDE DEF i
<1>3. /\ mRunningCheckers' \in Seq(Checker) /\ Len(mRunningCheckers') = n - 1
      /\ \A k \in 1 .. n - 1 :
           mRunningCheckers'[k] = IF k < i THEN mRunningCheckers[k] ELSE mRunningCheckers[k + 1]
  BY <1>1, <1>2, ErasedEntries, Zenon
<1>4. n \in Nat /\ Indices = 1 .. n /\ Indices' = 1 .. n - 1
  BY <1>3, SMTT(30) DEF Indices
<1> HIDE DEF n
<1>5. \A k \in Indices' : \E j \in Indices \ {i} : mRunningCheckers'[k] = mRunningCheckers[j]
  <2> TAKE k \in Indices'
  <2> DEFINE j == IF k < i THEN k ELSE k + 1
  <2>1. j \in Indices \ {i} /\ mRunningCheckers'[k] = mRunningCheckers[j]
    BY <1>1, <1>3, <1>4, SMTT(30)
  <2> QED  BY <2>1, Zenon
<1>6. \A j \in Indices \ {i} : \E k \in Indices' : mRunningCheckers'[k] = mRunningCheckers[j]
  <2> TAKE j \in Indices \ {i}
  <2> DEFINE k == IF j < i THEN j ELSE j - 1
  <2>1. k \in Indices' /\ mRunningCheckers'[k] = mRunningCheckers[j]
    BY <1>1, <1>3, <1>4, SMTT(30)
  <2> QED  BY <2>1, Zenon
<1>7. \A j, k \in Indices : j # k =>
        /\ mRunningCheckers[j].checker # mRunningCheckers[k].checker
        /\ mRunningCheckers[j].owner # mRunningCheckers[k].owner
  BY Zenon DEF QueuesAccountedFor
<1>8. ASSUME NEW k \in Indices', NEW l \in Indices', k # l
      PROVE  /\ mRunningCheckers'[k].checker # mRunningCheckers'[l].checker
             /\ mRunningCheckers'[k].owner # mRunningCheckers'[l].owner
  <2> DEFINE j == IF k < i THEN k ELSE k + 1
             m == IF l < i THEN l ELSE l + 1
  <2>1. j \in Indices /\ mRunningCheckers'[k] = mRunningCheckers[j]
    BY <1>1, <1>3, <1>4, SMTT(30)
  <2>3. m \in Indices /\ mRunningCheckers'[l] = mRunningCheckers[m]
    BY <1>1, <1>3, <1>4, SMTT(30)
  <2>2. j # m
    BY <1>1, <1>4, <1>8, SMTT(30)
  <2> HIDE DEF j, m
  <2> QED  BY <1>7, <2>1, <2>2, <2>3, Zenon
<1>9. c \in Queues /\ c \notin mIdleQueues /\ mIdleQueues' = mIdleQueues \union {c}
  BY <1>1, <1>2, Fields, Zenon DEF Indices, QueuesAccountedFor
<1>10. {mRunningCheckers'[k].checker : k \in Indices'} = {mRunningCheckers[j].checker : j \in Indices} \ {c}
  BY <1>1, <1>5, <1>6, <1>7, SMTT(30)
<1>11. mIdleQueues' = Queues \ {mRunningCheckers'[k].checker : k \in Indices'}
  BY <1>9, <1>10, ZenonT(30) DEF QueuesAccountedFor
<1>12. \A j \in Indices : mRunningCheckers[j].owner \in Requesters
  BY Fields, Zenon DEF Indices
<1>13. \A x \in Requesters : stage'[x] \in {"check", "over"} <=> \E k \in Indices' : mRunningCheckers'[k].owner = x
  <2> TAKE x \in Requesters
  <2>1. CASE x = r
    <3>1. \A k \in Indices' : mRunningCheckers'[k].owner # r
      BY <1>1, <1>5, <1>7, SMTT(30)
    <3> QED  BY <1>2, <2>1, <3>1, Zenon
  <2>2. CASE x # r
    <3>1. (\E k \in Indices' : mRunningCheckers'[k].owner = x) <=> (\E j \in Indices : mRunningCheckers[j].owner = x)
      BY <1>1, <1>5, <1>6, <2>2, Zenon
    <3> QED  BY <1>2, <2>2, <3>1, Zenon DEF QueuesAccountedFor
  <2> QED  BY <2>1, <2>2, Zenon
<1>14. busy' = {mRunningCheckers'[k].checker : k \in {l \in Indices' : stage'[mRunningCheckers'[l].owner] = "check"}}
  <2>1. \A j \in Indices \ {i} : mRunningCheckers[j].owner # r
    BY <1>1, <1>7, Zenon
  <2>2. \A j \in Indices \ {i} : stage'[mRunningCheckers[j].owner] = stage[mRunningCheckers[j].owner]
    BY <1>2, <1>12, <2>1, Zenon
  <2>3. busy = {mRunningCheckers[j].checker : j \in {l \in Indices : stage[mRunningCheckers[l].owner] = "check"}}
    BY Zenon DEF QueuesAccountedFor
  <2>4. busy = {mRunningCheckers[j].checker : j \in {l \in Indices \ {i} : stage[mRunningCheckers[l].owner] = "check"}}
    BY <1>1, <1>2, <2>3, Zenon
  <2>5. ASSUME NEW q \in busy
        PROVE  q \in {mRunningCheckers'[k].checker : k \in {l \in Indices' : stage'[mRunningCheckers'[l].owner] = "check"}}
    <3>1. PICK j \in Indices \ {i} : stage[mRunningCheckers[j].owner] = "check" /\ q = mRunningCheckers[j].checker
      BY <2>4, Zenon
    <3>2. PICK k \in Indices' : mRunningCheckers'[k] = mRunningCheckers[j]
      BY <1>6, Zenon
    <3> QED  BY <2>2, <3>1, <3>2, Zenon
  <2>6. ASSUME NEW k \in Indices', stage'[mRunningCheckers'[k].owner] = "check"
        PROVE  mRunningCheckers'[k].checker \in busy
    <3>1. PICK j \in Indices \ {i} : mRunningCheckers'[k] = mRunningCheckers[j]
      BY <1>5, Zenon
    <3> QED  BY <2>2, <2>4, <2>6, <3>1, SMTT(30)
  <2> QED  BY <1>2, <2>5, <2>6, ZenonT(30)
<1> QED  BY <1>3, <1>8, <1>9, <1>11, <1>13, <1>14, Zenon DEF QueuesAccountedFor
\* The idle queues and the waiters can be counted.
LEMMA Countable ==
  ASSUME PoolConstants, PoolTypeOK
  PROVE  /\ IsFiniteSet(mIdleQueues) /\ Cardinality(mIdleQueues) \in Nat
         /\ IsFiniteSet(Waiters \ sleeping) /\ Cardinality(Waiters \ sleeping) \in Nat
<1>1. /\ IsFiniteSet(Queues) /\ IsFiniteSet(Requesters)
      /\ mIdleQueues \in SUBSET Queues /\ Waiters \ sleeping \in SUBSET Requesters
  BY Zenon DEF PoolConstants, PoolTypeOK, Waiters
<1>2. IsFiniteSet(mIdleQueues)
  BY <1>1, FS_Subset, Zenon
<1>3. IsFiniteSet(Waiters \ sleeping)
  BY <1>1, FS_Subset, Zenon
<1> QED  BY <1>2, <1>3, FS_CardinalityType, Zenon

\* Nobody is forgotten by a step that takes an idle queue, together with a
\* waiter that is awake or for a request that does not wait ...
LEMMA TakeForgetsNobody ==
  ASSUME PoolConstants, PoolTypeOK, NoRequestForgotten, NEW q \in mIdleQueues, NEW r,
         mIdleQueues' = mIdleQueues \ {q}, sleeping' = sleeping,
         \/ Waiters' = Waiters
         \/ r \in Waiters \ sleeping /\ Waiters' = Waiters \ {r}
  PROVE  NoRequestForgotten'
<1> SUFFICES ASSUME sleeping' # {}
             PROVE  Cardinality(mIdleQueues') <= Cardinality(Waiters' \ sleeping')
  BY Zenon DEF NoRequestForgotten, Waiters
<1>1. /\ IsFiniteSet(mIdleQueues) /\ Cardinality(mIdleQueues) \in Nat
      /\ IsFiniteSet(Waiters \ sleeping) /\ Cardinality(Waiters \ sleeping) \in Nat
  BY Countable, Zenon
<1>2. Cardinality(mIdleQueues) <= Cardinality(Waiters \ sleeping)
  BY Zenon DEF NoRequestForgotten, Waiters
<1>3. Cardinality(mIdleQueues') = Cardinality(mIdleQueues) - 1
  BY <1>1, FS_RemoveElement, Zenon
<1>4. CASE Waiters' = Waiters
  BY <1>1, <1>2, <1>3, <1>4, SMTT(30)
<1>5. CASE r \in Waiters \ sleeping /\ Waiters' = Waiters \ {r}
  <2>1. Waiters' \ sleeping' = (Waiters \ sleeping) \ {r}
    BY <1>5, Zenon
  <2>2. Cardinality((Waiters \ sleeping) \ {r}) = Cardinality(Waiters \ sleeping) - 1
    BY <1>1, <1>5, FS_RemoveElement, Zenon
  <2>3. Cardinality(Waiters' \ sleeping') = Cardinality(Waiters \ sleeping) - 1
    BY <2>1, <2>2, Zenon
  <2> QED  BY <1>1, <1>2, <1>3, <2>3, SMTT(30)
<1> QED  BY <1>4, <1>5, Zenon

\* ... or that wakes a waiter, whether it returns a queue or not.
LEMMA WakeForgetsNobody ==
  ASSUME PoolConstants, PoolTypeOK, NoRequestForgotten, Waiters' = Waiters,
         \/ mIdleQueues' = mIdleQueues
         \/ \E q : mIdleQueues' = mIdleQueues \union {q},
         \/ sleeping' = {}
         \/ \E r \in sleeping : sleeping' = sleeping \ {r}
  PROVE  NoRequestForgotten'
<1> SUFFICES ASSUME sleeping' # {}
             PROVE  Cardinality(mIdleQueues') <= Cardinality(Waiters' \ sleeping')
  BY Zenon DEF NoRequestForgotten, Waiters
<1>1. PICK r \in sleeping : sleeping' = sleeping \ {r}
  OBVIOUS
<1>2. /\ IsFiniteSet(mIdleQueues) /\ Cardinality(mIdleQueues) \in Nat
      /\ IsFiniteSet(Waiters \ sleeping) /\ Cardinality(Waiters \ sleeping) \in Nat
  BY Countable, Zenon
<1>3. Cardinality(mIdleQueues) <= Cardinality(Waiters \ sleeping)
  BY <1>1, Zenon DEF NoRequestForgotten, Waiters
<1>4. r \in Waiters
  BY Zenon DEF PoolTypeOK, Waiters
<1>5. Waiters' \ sleeping' = (Waiters \ sleeping) \union {r} /\ r \notin Waiters \ sleeping
  BY <1>1, <1>4, Zenon
<1>6. Cardinality((Waiters \ sleeping) \union {r}) = Cardinality(Waiters \ sleeping) + 1
  BY <1>2, <1>5, FS_AddElement, Zenon
<1>7. CASE mIdleQueues' = mIdleQueues
  BY <1>2, <1>3, <1>5, <1>6, <1>7, SMTT(30)
<1>8. CASE \E q : mIdleQueues' = mIdleQueues \union {q}
  <2>1. PICK q : mIdleQueues' = mIdleQueues \union {q}
    BY <1>8, Zenon
  <2>2. Cardinality(mIdleQueues') = IF q \in mIdleQueues THEN Cardinality(mIdleQueues)
                                                         ELSE Cardinality(mIdleQueues) + 1
    BY <1>2, <2>1, FS_AddElement, Zenon
  <2>3. Cardinality(mIdleQueues') <= Cardinality(mIdleQueues) + 1 /\ Cardinality(mIdleQueues') \in Nat
    BY <1>2, <2>2, SMTT(30)
  <2>4. Cardinality(Waiters' \ sleeping') = Cardinality(Waiters \ sleeping) + 1
    BY <1>5, <1>6, Zenon
  <2> QED  BY <1>2, <1>3, <2>3, <2>4, SMTT(30)
<1> QED  BY <1>7, <1>8, Zenon

\* Without an idle queue there is nothing to forget.
LEMMA NoQueueNobodyForgotten ==
  ASSUME PoolConstants, mIdleQueues' = {}, Waiters' \subseteq Requesters
  PROVE  NoRequestForgotten'
<1>1. IsFiniteSet(Requesters) /\ Waiters' \ sleeping' \in SUBSET Requesters
  BY Zenon DEF PoolConstants
<1>2. IsFiniteSet(Waiters' \ sleeping')
  BY <1>1, FS_Subset, Zenon
<1>3. Cardinality(Waiters' \ sleeping') \in Nat /\ Cardinality({}) = 0
  BY <1>2, FS_CardinalityType, FS_EmptySet, Zenon
<1>4. Cardinality(mIdleQueues') <= Cardinality(Waiters' \ sleeping')
  BY <1>3, SMTT(30)
<1> QED  BY <1>4, Zenon DEF NoRequestForgotten, Waiters

-----------------------------------------------------------------------------
\* The types follow from the books where mRunningCheckers changes.
LEMMA TypesKept ==
  ASSUME PoolConstants, QueuesAccountedFor', mRunningCheckers' \in Seq(Checker),
         mIdleQueues' \subseteq Queues, busy' \subseteq Queues,
         stage' \in [Requesters -> {"idle", "wait", "check", "over"}],
         value' \in [Requesters -> Values],
         sleeping' \subseteq {r \in Requesters : stage'[r] = "wait"},
         requests' \in [Requesters -> 0 .. MaxRequests], closing' \in BOOLEAN
  PROVE  PoolTypeOK'
<1>1. Apart(mRunningCheckers')
  BY Zenon DEF QueuesAccountedFor, Apart, Indices
<1>2. Len(mRunningCheckers') <= Cardinality(Queues)
  BY <1>1, RunningBounded, Zenon
<1>3. mRunningCheckers' \in Seq([owner : Requesters, value : Values, checker : Queues, terminated : BOOLEAN])
  BY Zenon DEF Checker
<1> QED  BY <1>2, <1>3, Zenon DEF PoolTypeOK
\* The constructor makes a pool with all queues idle.
LEMMA InitEstablishes ==
  ASSUME PoolConstants, PoolInit
  PROVE  PoolAccounting
<1>1. mRunningCheckers = <<>> /\ Indices = {} /\ mRunningCheckers \in Seq(Checker)
  BY SMTT(30) DEF PoolInit, Indices
<1>2. QueuesAccountedFor
  <2>1. {mRunningCheckers[i].checker : i \in Indices} = {}
    BY <1>1, Zenon
  <2>2. {mRunningCheckers[i].checker : i \in {k \in Indices : stage[mRunningCheckers[k].owner] = "check"}} = {}
    BY <1>1, Zenon
  <2>3. \A r \in Requesters : stage[r] \notin {"check", "over"}
    BY Zenon DEF PoolInit
  <2> QED  BY <1>1, <2>1, <2>2, <2>3, Zenon DEF PoolInit, QueuesAccountedFor
<1>3. NoRequestForgotten
  BY Zenon DEF PoolInit, NoRequestForgotten
<1>4. PoolTypeOK
  <2>1. Apart(mRunningCheckers)
    BY <1>1, SMTT(30) DEF Apart
  <2>2. Len(mRunningCheckers) <= Cardinality(Queues)
    BY <1>1, <2>1, RunningBounded, Zenon
  <2>3. value \in [Requesters -> Values]
    BY Zenon DEF PoolInit, PoolConstants
  <2>4. requests \in [Requesters -> 0 .. MaxRequests]
    BY SMTT(30) DEF PoolInit, PoolConstants
  <2>5. stage \in [Requesters -> {"idle", "wait", "check", "over"}]
    BY Zenon DEF PoolInit
  <2>6. mRunningCheckers \in Seq([owner : Requesters, value : Values, checker : Queues, terminated : BOOLEAN])
    BY <1>1, SMTT(30)
  <2> QED  BY <2>2, <2>3, <2>4, <2>5, <2>6, Zenon DEF PoolInit, PoolTypeOK
<1> QED  BY <1>2, <1>3, <1>4, Zenon DEF PoolAccounting

\* The parts of PoolAccounting that the proofs below use.
LEMMA Parts ==
  ASSUME PoolAccounting
  PROVE  /\ mRunningCheckers \in Seq(Checker)
         /\ stage \in [Requesters -> {"idle", "wait", "check", "over"}]
         /\ QueuesAccountedFor /\ NoRequestForgotten /\ PoolTypeOK
         /\ mIdleQueues \subseteq Queues /\ busy \subseteq Queues
         /\ sleeping \subseteq {x \in Requesters : stage[x] = "wait"}
         /\ value \in [Requesters -> Values] /\ requests \in [Requesters -> 0 .. MaxRequests]
         /\ closing \in BOOLEAN
<1>1. QueuesAccountedFor /\ NoRequestForgotten /\ PoolTypeOK
  BY Zenon DEF PoolAccounting
<1>2. mRunningCheckers \in Seq(Checker)
  BY <1>1, Zenon DEF PoolTypeOK, Checker
<1>3. /\ stage \in [Requesters -> {"idle", "wait", "check", "over"}]
      /\ mIdleQueues \subseteq Queues /\ busy \subseteq Queues
      /\ sleeping \subseteq {x \in Requesters : stage[x] = "wait"}
      /\ value \in [Requesters -> Values] /\ requests \in [Requesters -> 0 .. MaxRequests]
      /\ closing \in BOOLEAN
  BY <1>1, Zenon DEF PoolTypeOK
<1> QED  BY <1>1, <1>2, <1>3, Zenon

\* GetChecker keeps the books, whether it gets a queue at once or waits.
LEMMA GetCheckerKeeps ==
  ASSUME PoolConstants, PoolAccounting, NEW r \in Requesters, NEW v \in Values, GetChecker(r, v)
  PROVE  PoolAccounting'
<1>1. /\ mRunningCheckers \in Seq(Checker)
      /\ stage \in [Requesters -> {"idle", "wait", "check", "over"}]
      /\ QueuesAccountedFor /\ NoRequestForgotten /\ PoolTypeOK
      /\ mIdleQueues \subseteq Queues /\ busy \subseteq Queues
      /\ sleeping \subseteq {x \in Requesters : stage[x] = "wait"}
  BY Parts, Zenon
<1>2. stage[r] = "idle" /\ value' = [value EXCEPT ![r] = v] /\ closing' = closing
  BY Zenon DEF GetChecker
<1>3. /\ value' \in [Requesters -> Values] /\ closing' \in BOOLEAN
      /\ requests' \in [Requesters -> 0 .. MaxRequests]
  <2>1. value \in [Requesters -> Values] /\ requests \in [Requesters -> 0 .. MaxRequests] /\ closing \in BOOLEAN
    BY <1>1, Zenon DEF PoolTypeOK
  <2>2. requests[r] < MaxRequests /\ requests' = [requests EXCEPT ![r] = @ + 1] /\ MaxRequests \in Nat
    BY Zenon DEF GetChecker, PoolConstants
  <2>3. requests[r] + 1 \in 0 .. MaxRequests
    BY <2>1, <2>2, SMTT(30)
  <2> QED  BY <1>2, <2>1, <2>2, <2>3, Zenon
<1>4. CASE (\E q \in mIdleQueues : StartChecker(r, v, q)) /\ sleeping' = sleeping
  <2>1. PICK q \in mIdleQueues : StartChecker(r, v, q)
    BY <1>4, Zenon
  <2>2. QueuesAccountedFor' /\ mRunningCheckers' \in Seq(Checker)
    BY <1>1, <1>2, <2>1, StartKeeps, Zenon
  <2>3. /\ stage' = [stage EXCEPT ![r] = "check"] /\ mIdleQueues' = mIdleQueues \ {q}
        /\ busy' = busy \union {q}
    BY <2>1, Zenon DEF StartChecker
  <2>4. Waiters' = Waiters
    BY <1>1, <1>2, <2>3, Zenon DEF Waiters
  <2>5. NoRequestForgotten'
    BY <1>1, <1>4, <2>3, <2>4, TakeForgetsNobody, Zenon
  <2>6. /\ mIdleQueues' \subseteq Queues /\ busy' \subseteq Queues
        /\ stage' \in [Requesters -> {"idle", "wait", "check", "over"}]
        /\ sleeping' \subseteq {x \in Requesters : stage'[x] = "wait"}
    BY <1>1, <1>2, <1>4, <2>3, Zenon
  <2>7. PoolTypeOK'
    BY <1>3, <2>2, <2>6, TypesKept, Zenon
  <2> QED  BY <2>2, <2>5, <2>7, Zenon DEF PoolAccounting
<1>5. CASE /\ mIdleQueues = {}
           /\ mRunningCheckers' = IF Terminates(ItWorst, v)
                                    THEN [mRunningCheckers EXCEPT ![ItWorst].terminated = TRUE]
                                    ELSE mRunningCheckers
           /\ stage' = [stage EXCEPT ![r] = "wait"] /\ sleeping' = sleeping \union {r}
           /\ mIdleQueues' = mIdleQueues /\ busy' = busy
  <2>1. ItWorst \in DOMAIN mRunningCheckers
    BY <1>5, WorstFound, Zenon DEF Indices
  <2>2. /\ mRunningCheckers' \in Seq(Checker) /\ Len(mRunningCheckers') = Len(mRunningCheckers)
        /\ \A i \in Indices : /\ mRunningCheckers'[i].owner = mRunningCheckers[i].owner
                              /\ mRunningCheckers'[i].checker = mRunningCheckers[i].checker
    <3>1. CASE mRunningCheckers' = mRunningCheckers
      BY <1>1, <3>1, Zenon
    <3>2. CASE mRunningCheckers' = [mRunningCheckers EXCEPT ![ItWorst].terminated = TRUE]
      BY <1>1, <2>1, <3>2, MarkedEntry, SMTT(30)
    <3> QED  BY <1>5, <3>1, <3>2, Zenon
  <2>3. \A x \in Requesters : /\ stage'[x] \in {"check", "over"} <=> stage[x] \in {"check", "over"}
                              /\ stage'[x] = "check" <=> stage[x] = "check"
    BY <1>1, <1>2, <1>5, Zenon
  <2>4. QueuesAccountedFor'
    BY <1>1, <1>5, <2>2, <2>3, MarkedKeeps, Zenon
  <2>5. /\ stage' \in [Requesters -> {"idle", "wait", "check", "over"}]
        /\ sleeping' \subseteq {x \in Requesters : stage'[x] = "wait"}
    BY <1>1, <1>5, Zenon
  <2>6. NoRequestForgotten'
    <3>1. Waiters' \subseteq Requesters /\ mIdleQueues' = {}
      BY <1>5, Zenon DEF Waiters
    <3> QED  BY <3>1, NoQueueNobodyForgotten, Zenon
  <2>7. PoolTypeOK'
    BY <1>1, <1>3, <1>5, <2>2, <2>4, <2>5, TypesKept, Zenon
  <2> QED  BY <2>4, <2>6, <2>7, Zenon DEF PoolAccounting
<1> QED  BY <1>4, <1>5, Zenon DEF GetChecker
\* A request that wakes up in the wait takes a queue or sleeps again.
LEMMA ResumeKeeps ==
  ASSUME PoolConstants, PoolAccounting, NEW r \in Requesters, Resume(r)
  PROVE  PoolAccounting'
<1>1. /\ mRunningCheckers \in Seq(Checker)
      /\ stage \in [Requesters -> {"idle", "wait", "check", "over"}]
      /\ QueuesAccountedFor /\ NoRequestForgotten /\ PoolTypeOK
      /\ mIdleQueues \subseteq Queues /\ busy \subseteq Queues
      /\ sleeping \subseteq {x \in Requesters : stage[x] = "wait"}
      /\ value[r] \in Values
  <2>1. value \in [Requesters -> Values]
    BY Parts, Zenon
  <2> QED  BY <2>1, Parts, Zenon
<1>2. stage[r] = "wait" /\ r \notin sleeping /\ value' = value /\ requests' = requests /\ closing' = closing
  BY Zenon DEF Resume
<1>3. /\ value' \in [Requesters -> Values] /\ closing' \in BOOLEAN
      /\ requests' \in [Requesters -> 0 .. MaxRequests]
  BY <1>1, <1>2, Zenon DEF PoolTypeOK
<1>4. CASE (\E q \in mIdleQueues : StartChecker(r, value[r], q)) /\ sleeping' = sleeping
  <2>1. PICK q \in mIdleQueues : StartChecker(r, value[r], q)
    BY <1>4, Zenon
  <2>2. QueuesAccountedFor' /\ mRunningCheckers' \in Seq(Checker)
    BY <1>1, <1>2, <2>1, StartKeeps, Zenon
  <2>3. /\ stage' = [stage EXCEPT ![r] = "check"] /\ mIdleQueues' = mIdleQueues \ {q}
        /\ busy' = busy \union {q}
    BY <2>1, Zenon DEF StartChecker
  <2>4. Waiters' = Waiters \ {r} /\ r \in Waiters \ sleeping
    BY <1>1, <1>2, <2>3, Zenon DEF Waiters
  <2>5. NoRequestForgotten'
    BY <1>1, <1>4, <2>3, <2>4, TakeForgetsNobody, Zenon
  <2>6. /\ mIdleQueues' \subseteq Queues /\ busy' \subseteq Queues
        /\ stage' \in [Requesters -> {"idle", "wait", "check", "over"}]
        /\ sleeping' \subseteq {x \in Requesters : stage'[x] = "wait"}
    BY <1>1, <1>2, <1>4, <2>3, Zenon
  <2>7. PoolTypeOK'
    BY <1>3, <2>2, <2>6, TypesKept, Zenon
  <2> QED  BY <2>2, <2>5, <2>7, Zenon DEF PoolAccounting
<1>5. CASE /\ mIdleQueues = {} /\ sleeping' = sleeping \union {r}
           /\ UNCHANGED <<mIdleQueues, mRunningCheckers, stage, busy>>
  <2>1. QueuesAccountedFor'
    BY <1>1, <1>5, MarkedKeeps, Zenon
  <2>2. NoRequestForgotten'
    <3>1. Waiters' \subseteq Requesters /\ mIdleQueues' = {}
      BY <1>5, Zenon DEF Waiters
    <3> QED  BY <3>1, NoQueueNobodyForgotten, Zenon
  <2>3. sleeping' \subseteq {x \in Requesters : stage'[x] = "wait"}
    BY <1>1, <1>2, <1>5, Zenon
  <2>4. PoolTypeOK'
    BY <1>1, <1>3, <1>5, <2>1, <2>3, TypesKept, Zenon
  <2> QED  BY <2>1, <2>2, <2>4, Zenon DEF PoolAccounting
<1> QED  BY <1>4, <1>5, Zenon DEF Resume

\* PoolAccounting is inductive.
LEMMA Inductive ==
  ASSUME PoolConstants, PoolAccounting, [PoolNext]_poolVars
  PROVE  PoolAccounting'
<1>1. /\ mRunningCheckers \in Seq(Checker)
      /\ stage \in [Requesters -> {"idle", "wait", "check", "over"}]
      /\ QueuesAccountedFor /\ NoRequestForgotten /\ PoolTypeOK
      /\ mIdleQueues \subseteq Queues /\ busy \subseteq Queues
      /\ sleeping \subseteq {x \in Requesters : stage[x] = "wait"}
      /\ value \in [Requesters -> Values] /\ requests \in [Requesters -> 0 .. MaxRequests]
      /\ closing \in BOOLEAN
  BY Parts, Zenon
<1>2. ASSUME NEW r \in Requesters, SessionOver(r)
      PROVE  PoolAccounting'
  <2>1. QueuesAccountedFor' /\ busy' \subseteq busy
    BY <1>1, <1>2, SessionOverKeeps, Zenon
  <2>2. /\ stage[r] = "check" /\ stage' = [stage EXCEPT ![r] = "over"]
        /\ UNCHANGED <<mIdleQueues, mRunningCheckers, value, sleeping, requests, closing>>
    BY <1>2, Zenon DEF SessionOver
  <2>3. Waiters' = Waiters
    BY <1>1, <2>2, Zenon DEF Waiters
  <2>4. NoRequestForgotten'
    BY <1>1, <2>2, <2>3, Zenon DEF NoRequestForgotten, Waiters
  <2>5. /\ stage' \in [Requesters -> {"idle", "wait", "check", "over"}]
        /\ sleeping' \subseteq {x \in Requesters : stage'[x] = "wait"}
    BY <1>1, <2>2, Zenon
  <2>6. PoolTypeOK'
    BY <1>1, <2>1, <2>2, <2>5, TypesKept, Zenon
  <2> QED  BY <2>1, <2>4, <2>6, Zenon DEF PoolAccounting
<1>3. ASSUME NEW r \in Requesters, ReturnQueueToPool(r)
      PROVE  PoolAccounting'
  <2>1. /\ QueuesAccountedFor' /\ mRunningCheckers' \in Seq(Checker)
        /\ \E q \in Queues \ mIdleQueues : mIdleQueues' = mIdleQueues \union {q}
    BY <1>1, <1>3, ReturnKeeps, Zenon
  <2>2. /\ stage[r] = "over" /\ stage' = [stage EXCEPT ![r] = "idle"]
        /\ UNCHANGED <<value, busy, requests, closing>>
        /\ \E remaining \in SUBSET sleeping : NotifiesOne(remaining) /\ sleeping' = remaining
    BY <1>3, Zenon DEF ReturnQueueToPool
  <2>3. sleeping' = {} \/ \E x \in sleeping : sleeping' = sleeping \ {x}
    BY <2>2, Zenon DEF NotifiesOne
  <2>4. Waiters' = Waiters
    BY <1>1, <2>2, Zenon DEF Waiters
  <2>5. NoRequestForgotten'
    BY <1>1, <2>1, <2>3, <2>4, WakeForgetsNobody, Zenon
  <2>6. /\ mIdleQueues' \subseteq Queues /\ busy' \subseteq Queues
        /\ stage' \in [Requesters -> {"idle", "wait", "check", "over"}]
        /\ sleeping' \subseteq {x \in Requesters : stage'[x] = "wait"}
    BY <1>1, <2>1, <2>2, Zenon
  <2>7. PoolTypeOK'
    BY <1>1, <2>1, <2>2, <2>6, TypesKept, Zenon
  <2> QED  BY <2>1, <2>5, <2>7, Zenon DEF PoolAccounting
<1>4. ASSUME NEW r \in Requesters, WakesUp(r)
      PROVE  PoolAccounting'
  <2>1. /\ r \in sleeping /\ sleeping' = sleeping \ {r}
        /\ UNCHANGED <<mIdleQueues, mRunningCheckers, stage, value, busy, requests, closing>>
    BY <1>4, Zenon DEF WakesUp
  <2>2. QueuesAccountedFor'
    BY <1>1, <2>1, MarkedKeeps, Zenon
  <2>3. Waiters' = Waiters /\ sleeping' \subseteq {x \in Requesters : stage'[x] = "wait"}
    BY <1>1, <2>1, Zenon DEF Waiters
  <2>4. NoRequestForgotten'
    BY <1>1, <2>1, <2>3, WakeForgetsNobody, Zenon
  <2>5. PoolTypeOK'
    BY <1>1, <2>1, <2>2, <2>3, TypesKept, Zenon
  <2> QED  BY <2>2, <2>4, <2>5, Zenon DEF PoolAccounting
<1>5. ASSUME Destroy
      PROVE  PoolAccounting'
  <2>1. /\ closing' = TRUE
        /\ mRunningCheckers' = [i \in Indices |-> [mRunningCheckers[i] EXCEPT !.terminated = TRUE]]
        /\ UNCHANGED <<mIdleQueues, stage, value, sleeping, busy, requests>>
    BY <1>5, Zenon DEF Destroy
  <2>2. \A c \in Checker : LET e == [c EXCEPT !.terminated = TRUE]
                           IN  e \in Checker /\ e.owner = c.owner /\ e.checker = c.checker
    BY Zenon DEF Checker
  <2>3. Indices = 1 .. Len(mRunningCheckers) /\ \A i \in Indices : mRunningCheckers[i] \in Checker
    BY <1>1, Fields, Zenon DEF Indices
  <2>4. \A i \in Indices : /\ mRunningCheckers'[i] \in Checker
                           /\ mRunningCheckers'[i].owner = mRunningCheckers[i].owner
                           /\ mRunningCheckers'[i].checker = mRunningCheckers[i].checker
    BY <2>1, <2>2, <2>3, Zenon
  <2>5. mRunningCheckers' \in Seq(Checker) /\ Len(mRunningCheckers') = Len(mRunningCheckers)
    BY <1>1, <2>1, <2>3, <2>4, SMTT(30)
  <2>6. QueuesAccountedFor'
    BY <1>1, <2>1, <2>4, <2>5, MarkedKeeps, Zenon
  <2>7. NoRequestForgotten' /\ sleeping' \subseteq {x \in Requesters : stage'[x] = "wait"}
    BY <1>1, <2>1, Zenon DEF NoRequestForgotten
  <2>8. PoolTypeOK'
    BY <1>1, <2>1, <2>5, <2>6, <2>7, TypesKept, Zenon
  <2> QED  BY <2>6, <2>7, <2>8, Zenon DEF PoolAccounting
<1>6. CASE UNCHANGED poolVars
  <2>1. UNCHANGED <<mIdleQueues, mRunningCheckers, stage, value, sleeping, busy, requests, closing>>
    BY <1>6, Zenon DEF poolVars
  <2>2. QueuesAccountedFor'
    BY <1>1, <2>1, MarkedKeeps, Zenon
  <2>3. NoRequestForgotten'
    BY <1>1, <2>1, Zenon DEF NoRequestForgotten
  <2>4. PoolTypeOK'
    BY <1>1, <2>1, Zenon DEF PoolTypeOK
  <2> QED  BY <2>2, <2>3, <2>4, Zenon DEF PoolAccounting
<1> QED  BY <1>2, <1>3, <1>4, <1>5, <1>6, GetCheckerKeeps, ResumeKeeps, Zenon DEF PoolNext

\* CCheckQueuePool, whatever its size and the requests made: every queue is
\* idle or lent to exactly one requester, so that the asserts of GetChecker and
\* ReturnQueueToPool hold, and nobody sleeps in GetChecker while a queue is free
\* for it.
THEOREM PoolBooksRight ==
  PoolSpec => []PoolAccounting
<1>1. PoolInit => PoolAccounting
  BY InitEstablishes, PoolConstantsHold, Zenon
<1>2. PoolAccounting /\ [PoolNext]_poolVars => PoolAccounting'
  BY Inductive, PoolConstantsHold, Zenon
<1> QED  BY <1>1, <1>2, PTL DEF PoolSpec

\* The step of GetChecker that terminates a checker: it is the one that the
\* scan for itWorst finds, and its value is below the one of the request.
LEMMA PreemptsWorst ==
  ASSUME PoolConstants, PoolAccounting, [PoolNext]_poolVars, ~closing',
         NEW i \in Indices \intersect DOMAIN mRunningCheckers',
         mRunningCheckers'[i].terminated, ~mRunningCheckers[i].terminated,
         mRunningCheckers'[i].owner = mRunningCheckers[i].owner
  PROVE  /\ \E r \in Requesters : stage'[r] = "wait" /\ value'[r] > mRunningCheckers[i].value
         /\ \A j \in Indices : mRunningCheckers[j].value >= mRunningCheckers[i].value
<1>1. /\ mRunningCheckers \in Seq(Checker) /\ QueuesAccountedFor
      /\ stage \in [Requesters -> {"idle", "wait", "check", "over"}]
      /\ value \in [Requesters -> Values]
  BY Parts, Zenon
<1>2. /\ Indices = 1 .. Len(mRunningCheckers) /\ Len(mRunningCheckers) \in Nat
      /\ \A j \in Indices : mRunningCheckers[j].value \in Nat
  BY <1>1, Fields, Zenon DEF Indices, PoolConstants
<1>3. mRunningCheckers'[i] # mRunningCheckers[i]
  OBVIOUS
<1>4. ASSUME NEW r, NEW v, NEW q, StartChecker(r, v, q)
      PROVE  FALSE
  BY <1>1, <1>2, <1>3, <1>4, SMTT(30) DEF StartChecker
<1>5. ASSUME NEW r \in Requesters, ReturnQueueToPool(r)
      PROVE  FALSE
  <2> DEFINE k == IndexOf(r)
             n == Len(mRunningCheckers)
  <2>1. k \in Indices
    <3>1. \E l \in Indices : mRunningCheckers[l].owner = r
      BY <1>1, <1>5, Zenon DEF ReturnQueueToPool, QueuesAccountedFor
    <3> QED  BY <3>1, Zenon DEF IndexOf
  <2>2. mRunningCheckers' = Erased(k)
    BY <1>5, Zenon DEF ReturnQueueToPool
  <2> HIDE DEF k
  <2>3. /\ mRunningCheckers' \in Seq(Checker) /\ Len(mRunningCheckers') = n - 1
        /\ \A l \in 1 .. n - 1 :
             mRunningCheckers'[l] = IF l < k THEN mRunningCheckers[l] ELSE mRunningCheckers[l + 1]
    BY <1>1, <2>1, <2>2, ErasedEntries, Zenon
  <2>4. i \in 1 .. n - 1 /\ i + 1 \in Indices
    BY <1>2, <2>3, SMTT(30)
  <2>5. mRunningCheckers'[i] = mRunningCheckers[i + 1]
    BY <1>3, <2>3, <2>4, Zenon
  <2>6. mRunningCheckers[i + 1].owner # mRunningCheckers[i].owner
    BY <1>1, <1>2, <2>4, SMTT(30) DEF QueuesAccountedFor
  <2> QED  BY <2>5, <2>6, Zenon
<1>6. PICK r \in Requesters, v \in Values : GetChecker(r, v)
  BY <1>3, <1>4, <1>5, Zenon DEF PoolNext, poolVars, Resume, SessionOver, WakesUp, Destroy
<1>7. /\ mIdleQueues = {} /\ stage' = [stage EXCEPT ![r] = "wait"] /\ value' = [value EXCEPT ![r] = v]
      /\ Terminates(ItWorst, v)
      /\ mRunningCheckers' = [mRunningCheckers EXCEPT ![ItWorst].terminated = TRUE]
  BY <1>3, <1>4, <1>6, Zenon DEF GetChecker
<1>8. /\ ItWorst \in Indices
      /\ \A j \in Indices : mRunningCheckers[ItWorst].value <= mRunningCheckers[j].value
  BY <1>7, WorstFound, Zenon
<1>9. i = ItWorst
  BY <1>1, <1>3, <1>7, <1>8, MarkedEntry, Zenon DEF Indices
<1>10. v \in Nat /\ mRunningCheckers[i].value < v
  BY <1>7, <1>9, Zenon DEF Terminates, PoolConstants
<1>11. stage'[r] = "wait" /\ value'[r] > mRunningCheckers[i].value
  BY <1>1, <1>2, <1>6, <1>7, <1>10, Zenon
<1>12. \A j \in Indices : mRunningCheckers[j].value >= mRunningCheckers[i].value
  BY <1>2, <1>8, <1>9, Zenon
<1> QED  BY <1>6, <1>11, <1>12, Zenon

\* GetChecker demands the termination of a running checker only for a request
\* of greater value, and of none but a checker of least value.
THEOREM PreemptionJustified ==
  PoolSpec => PreemptedForBetter
<1> DEFINE P == ~closing' =>
       \A i \in Indices \intersect DOMAIN mRunningCheckers' :
         mRunningCheckers'[i].terminated /\ ~mRunningCheckers[i].terminated
           /\ mRunningCheckers'[i].owner = mRunningCheckers[i].owner =>
           /\ \E r \in Requesters : stage'[r] = "wait" /\ value'[r] > mRunningCheckers[i].value
           /\ \A j \in Indices : mRunningCheckers[j].value >= mRunningCheckers[i].value
<1>1. PoolAccounting /\ [PoolNext]_poolVars => P
  BY PreemptsWorst, PoolConstantsHold, Zenon
<1>2. PoolAccounting /\ [PoolNext]_poolVars => [P]_poolVars
  BY <1>1, Zenon
<1>3. PoolSpec => []PoolAccounting
  BY PoolBooksRight, Zenon
<1> QED  BY <1>2, <1>3, PTL DEF PoolSpec, PreemptedForBetter
=============================================================================
