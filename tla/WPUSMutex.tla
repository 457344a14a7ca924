------------------------------ MODULE WPUSMutex ------------------------------
(***************************************************************************)
(* The write-preferring upgradable shared mutex of                         *)
(* write_preferring_upgradable_mutex.{h,cpp}: the lock under the coins     *)
(* database.  Each action is one critical section of mMutex, except the    *)
(* first test of TryWriteLock, which the code makes on the atomic          *)
(* mWritePending before it locks mMutex and which is therefore a step of   *)
(* its own.                                                                *)
(*                                                                         *)
(* A thread owns one Lock handle.  Its type is read off pc: see Readers    *)
(* and Writers.  asleep is the set of threads blocked on the condition     *)
(* variable mTryTakeLock; a thread whose pc is a waiting one and that is   *)
(* not asleep has been notified and has yet to evaluate its predicate.     *)
(***************************************************************************)
EXTENDS Integers, FiniteSets

CONSTANT Threads

ASSUME ThreadsFinite == IsFiniteSet(Threads)

VARIABLES
  mLock,          \* -1 a write lock is held, 0 free, n > 0 read locks
  mWritePending,  \* write requests in progress
  asleep,         \* threads blocked on mTryTakeLock
  pc,             \* where each thread is in its use of the lock
  outdated        \* history: threads whose data somebody else overwrote after they locked

vars == <<mLock, mWritePending, asleep, pc, outdated>>

PCs == {"idle", "waitRead", "reading", "tryWrite", "waitTry", "refused",
        "waitWrite", "writing"}

\* Threads whose handle has Type::read: a reader that asks for the write lock keeps its hold.
Readers == {t \in Threads : pc[t] \in {"reading", "tryWrite", "waitTry", "refused"}}

\* Threads whose handle has Type::write.
Writers == {t \in Threads : pc[t] = "writing"}

\* Threads inside WriteLock or TryWriteLock with a live PendingGuard.
Pending == {t \in Threads : pc[t] \in {"waitWrite", "waitTry"}}

Init ==
  /\ mLock = 0
  /\ mWritePending = 0
  /\ asleep = {}
  /\ pc = [t \in Threads |-> "idle"]
  /\ outdated = {}

-----------------------------------------------------------------------------
\* ReleaseNL: the new value of mLock goes by the counter, not by the handle's type.
ReleaseNLToFree == 0
ReleaseNL == IF mLock = -1 THEN 0 ELSE mLock - 1

\* notify_all in ReleaseNL: nobody is left asleep.
NotifyOne == {t \in asleep : t # CHOOSE u \in asleep : TRUE}
NotifyAll == {}

\* The predicate ReadLock waits for.
CanRead == mWritePending = 0 /\ mLock >= 0

\* The predicate WriteLock waits for.
CanWriteOverWriter == mLock <= 0
CanWrite == mLock = 0

\* The tests of canTakeWriteLock; pending counts the caller.
OnlyRequestIgnored(pending) == pending >= 1
OnlyRequest(pending) == pending = 1

OnlyReaderIgnored == mLock >= 1
OnlyReader == mLock = 1

\* The destructor of PendingGuard.
PendingGuardUndone(pending) == pending - 1

Goto(t, label) == pc' = [pc EXCEPT ![t] = label]

\* condition_variable::wait with a predicate that does not hold.
Sleep(t, label) ==
  /\ asleep' = asleep \union {t}
  /\ Goto(t, label)
  /\ UNCHANGED <<mLock, outdated>>

\* A thread that gets a lock sees the current data.
Locked(t, label) ==
  /\ Goto(t, label)
  /\ outdated' = outdated \ {t}

\* The thread calls op, or was notified inside it and evaluates the predicate again.
Calls(t, from) == pc[t] = from
Resumes(t, waiting) == pc[t] = waiting /\ t \notin asleep

ReadLock(t) ==
  /\ Calls(t, "idle") \/ Resumes(t, "waitRead")
  /\ UNCHANGED mWritePending
  /\ \/ /\ CanRead
        /\ mLock' = mLock + 1
        /\ Locked(t, "reading")
        /\ UNCHANGED asleep
     \/ /\ ~CanRead
        /\ Sleep(t, "waitRead")

\* ReadLock on a write handle: the hold becomes a read hold in one critical section.
Downgrade(t) ==
  /\ pc[t] = "writing"
  /\ mLock' = ReleaseNL + 1
  /\ asleep' = NotifyAll
  /\ Goto(t, "reading")
  /\ UNCHANGED <<mWritePending, outdated>>

WriteLock(t) ==
  /\ Calls(t, "idle") \/ Resumes(t, "waitWrite")
  /\ LET pending == IF pc[t] = "idle" THEN mWritePending + 1 ELSE mWritePending
     IN \/ /\ CanWrite
           /\ mLock' = -1
           /\ mWritePending' = PendingGuardUndone(pending)
           /\ Locked(t, "writing")
           /\ UNCHANGED asleep
        \/ /\ ~CanWrite
           /\ mWritePending' = pending
           /\ Sleep(t, "waitWrite")

\* The test of TryWriteLock that is made without mMutex.
TryWriteLockUnguarded(t) ==
  /\ pc[t] = "reading"
  /\ Goto(t, IF mWritePending # 0 THEN "refused" ELSE "tryWrite")
  /\ UNCHANGED <<mLock, mWritePending, asleep, outdated>>

\* TryWriteLock under mMutex: canTakeWriteLock and what follows the wait.
TryWriteLock(t) ==
  /\ Calls(t, "tryWrite") \/ Resumes(t, "waitTry")
  /\ LET pending == IF pc[t] = "tryWrite" THEN mWritePending + 1 ELSE mWritePending
     IN \/ /\ ~OnlyRequest(pending)
           /\ mWritePending' = PendingGuardUndone(pending)
           /\ Goto(t, "refused")
           /\ UNCHANGED <<mLock, asleep, outdated>>
        \/ /\ OnlyRequest(pending)
           /\ OnlyReader
           /\ mLock' = -1
           /\ mWritePending' = PendingGuardUndone(pending)
           /\ asleep' = NotifyAll
           /\ Goto(t, "writing")
           /\ UNCHANGED outdated
        \/ /\ OnlyRequest(pending)
           /\ ~OnlyReader
           /\ mWritePending' = pending
           /\ Sleep(t, "waitTry")

Release(t) ==
  /\ pc[t] \in {"reading", "refused", "writing"}
  /\ mLock' = ReleaseNL
  /\ asleep' = NotifyAll
  /\ Goto(t, "idle")
  /\ UNCHANGED <<mWritePending, outdated>>

\* The protected data changes: everybody else's reads from before are outdated.
Write(t) ==
  /\ pc[t] = "writing"
  /\ outdated' = outdated \union (Threads \ {t})
  /\ UNCHANGED <<mLock, mWritePending, asleep, pc>>

\* A condition variable may wake a thread without a notification.
SpuriousWakeup(t) ==
  /\ t \in asleep
  /\ asleep' = asleep \ {t}
  /\ UNCHANGED <<mLock, mWritePending, pc, outdated>>

Next ==
  \E t \in Threads :
    \/ ReadLock(t) \/ Downgrade(t) \/ Release(t)
    \/ WriteLock(t) \/ TryWriteLockUnguarded(t) \/ TryWriteLock(t)
    \/ Write(t) \/ SpuriousWakeup(t)

Spec == Init /\ [][Next]_vars

\* Fairness.  A call that can go on does (the OS schedules runnable threads), and whoever
\* holds the lock gives it back or asks to escalate.  Nobody has to make a call, and
\* nobody may count on a spurious wakeup.
Fairness ==
  \A t \in Threads :
    /\ WF_vars(pc[t] = "waitRead" /\ ReadLock(t))
    /\ WF_vars(pc[t] = "waitWrite" /\ WriteLock(t))
    /\ WF_vars(TryWriteLock(t))
    /\ WF_vars(Release(t))

FairSpec == Spec /\ Fairness

-----------------------------------------------------------------------------
TypeOK ==
  /\ mLock \in Int
  /\ mWritePending \in Nat
  /\ asleep \subseteq {t \in Threads : pc[t] \in {"waitRead", "waitTry", "waitWrite"}}
  /\ pc \in [Threads -> PCs]
  /\ outdated \subseteq Threads

\* The counter mLock tells the handles apart: -1 exactly when one handle is a write handle
\* and none is a read handle, otherwise the number of read handles.  The asserts of
\* MakeReadLockHandle, MakeWriteLockHandle and ReleaseNL rest on it.
LockCountsHandles ==
  \/ /\ mLock = -1
     /\ Readers = {}
     /\ \E t \in Threads : Writers = {t}
  \/ /\ mLock = Cardinality(Readers)
     /\ Writers = {}

\* mWritePending counts the requests that are waiting: every PendingGuard is undone once.
PendingCountsRequests == mWritePending = Cardinality(Pending)

\* Both counters of the mutex say exactly what the handles and the requests under way are.
CountersExact == TypeOK /\ LockCountsHandles /\ PendingCountsRequests

\* What a holder has read is still what is stored: in particular a read lock that
\* TryWriteLock escalated has seen no foreign write in between, which is what makes
\* optimistic processing under the read lock safe.
HoldersSeeCurrentData == \A t \in Readers \union Writers : t \notin outdated

\* No wakeup is lost: a thread that sleeps although its predicate holds can only be the one
\* escalating reader of a lock somebody else holds for reading too and will release with a
\* notification; two escalating readers never wait for each other.
CanProceed(t) ==
  \/ pc[t] = "waitRead" /\ mWritePending = 0 /\ mLock >= 0
  \/ pc[t] = "waitWrite" /\ mLock = 0
  \/ pc[t] = "waitTry" /\ (mWritePending # 1 \/ mLock = 1)

NoLostWakeup ==
  \A t \in asleep :
    CanProceed(t) =>
      /\ pc[t] = "waitTry"
      /\ \E u \in Readers : u # t /\ pc[u] # "waitTry"

\* A read request gets the lock only when no write request is waiting for it: the counter
\* is tested where it is up to date.
WriterPreferred ==
  [][\A t \in Threads :
       pc[t] \in {"idle", "waitRead"} /\ pc'[t] = "reading" => Pending = {}]_vars

\* A refused escalation means that another write request is waiting and will be served: the
\* caller drops its work for a reason.
RefusedForAnotherWriter ==
  [][\A t \in Threads :
       pc[t] \in {"tryWrite", "waitTry"} /\ pc'[t] = "refused" => Pending \ {t} # {}]_vars

\* Write requests are not starved: whenever one waits, the write lock is taken again.
WriteRequestsServed == Pending # {} ~> mLock = -1

\* TryWriteLock always returns: the write lock or a refusal.
EscalationDecided ==
  \A t \in Threads : pc[t] \in {"tryWrite", "waitTry"} ~> pc[t] \in {"writing", "refused"}

\* Readers get in once the writers are gone for good: none stays asleep.
ReadersServed ==
  \A t \in Threads :
    <>[](Pending = {} /\ mLock >= 0) => (pc[t] = "waitRead" ~> pc[t] = "reading")

\* No call on the mutex waits for ever for what the others will give up: write requests,
\* escalations, and reads when no write request comes between.
RequestsServed == WriteRequestsServed /\ EscalationDecided /\ ReadersServed

\* The mutex implements the abstract upgradable lock.
Abstract == INSTANCE UpgradableLock WITH readers <- Readers, writers <- Writers
ImplementsUpgradableLock == Abstract!AbsSpec
=============================================================================
