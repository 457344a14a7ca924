------------------------------ MODULE CheckQueue ------------------------------
(***************************************************************************)
(* CCheckQueue (checkqueue.h): the worker threads and the master that run  *)
(* the script checks of one block.  A session is StartCheckingSession,     *)
(* any number of Add, and Wait, in which the master joins the workers in   *)
(* Loop until nothing is left to do.                                       *)
(*                                                                         *)
(* One critical section of the queue's mutex is one action, one check is   *)
(* one action, and the session's cancellation token may be cancelled       *)
(* between any two of them.  A check is a number; numbers are given in the *)
(* order of Add, so the front of the queue is its least numbers.  An       *)
(* optional<bool> is "true", "false" or "none".                            *)
(***************************************************************************)
EXTENDS Integers, Sequences, FiniteSets

CONSTANTS
  Workers,     \* the spawned threads
  Master,      \* the thread that owns the session
  BatchSize,   \* nBatchSize
  MaxAdd,      \* bound: checks in one Add
  MaxChecks    \* bound: checks in all sessions together

ASSUME WorkersFinite == IsFiniteSet(Workers)
ASSUME MasterIsNoWorker == Master \notin Workers
ASSUME BatchSizePositive == BatchSize \in Nat \ {0}
ASSUME BoundsAreNat == MaxAdd \in Nat /\ MaxChecks \in Nat

VARIABLES
  queue,              \* checks nobody has taken yet
  failedChecks,       \* failed checks the workers have handed in
  nTodo, nIdle, nTotal, fAllOk, mQuit,
  canceled,           \* mSessionToken->IsCanceled()
  batch,              \* per thread: the nNow checks it took
  vChecks,            \* per thread: those of them not executed yet
  fOk,                \* per thread
  vTempFailedChecks,  \* per thread
  pc, asleep,         \* where a thread is; who is blocked on condWorker or condMaster
  added, passed, failed, lastCheck  \* history of the session, and the last number given

sharedVars == <<queue, failedChecks, nTodo, nIdle, nTotal, fAllOk>>
loopVars == <<batch, vChecks, fOk, vTempFailedChecks>>
historyVars == <<added, passed, failed, lastCheck>>
vars == <<sharedVars, loopVars, historyVars, mQuit, canceled, pc, asleep>>

Threads == Workers \union {Master}
Optional == {"true", "false", "none"}

\* Threads that count in nTotal.
Running == {t \in Threads : pc[t] \in {"exec", "done", "wait"}}

Init ==
  /\ queue = {} /\ failedChecks = <<>>
  /\ nTodo = 0 /\ nIdle = 0 /\ nTotal = 0
  /\ fAllOk = "true" /\ mQuit = FALSE /\ canceled = FALSE
  /\ batch = [t \in Threads |-> {}]
  /\ vChecks = [t \in Threads |-> {}]
  /\ fOk = [t \in Threads |-> "true"]
  /\ vTempFailedChecks = [t \in Threads |-> <<>>]
  /\ pc = [t \in Threads |-> IF t = Master THEN "none" ELSE "enter"]
  /\ asleep = {}
  /\ added = {} /\ passed = {} /\ failed = {} /\ lastCheck = 0

-----------------------------------------------------------------------------
\* Loop, from line 227: look for work under the mutex.  The arguments are the shared state as
\* the first part of the critical section leaves it.
Goto(t, label) == pc' = [pc EXCEPT ![t] = label]

FrontOf(b, q) == \A c \in b, d \in q \ b : c < d

NowSize(q, idle, total) ==
  LET share == Cardinality(q) \div (total + idle + 1)
      capped == IF share < BatchSize THEN share ELSE BatchSize
  IN IF capped < 1 THEN 1 ELSE capped

\* mQuit: the thread leaves Loop.
QuitLoop(t, q, todo, ok, idle, total, sleepers) ==
  /\ q = {} /\ mQuit
  /\ queue' = q /\ nTodo' = todo /\ fAllOk' = ok /\ nIdle' = idle /\ nTotal' = total - 1
  /\ asleep' = sleepers
  /\ batch' = [batch EXCEPT ![t] = {}]
  /\ Goto(t, IF t = Master THEN "returned" ELSE "gone")
  /\ UNCHANGED <<vChecks, fOk>>

\* The master leaves Loop with the verdict once all the work has been done.
CanReturnOnEmptyQueue(t, todo) == t = Master
CanReturn(t, todo) == t = Master /\ todo = 0

ReturnVerdict(t, q, todo, ok, idle, total, sleepers) ==
  /\ q = {} /\ ~mQuit /\ CanReturn(t, todo)
  /\ queue' = q /\ nTodo' = todo /\ nIdle' = idle /\ nTotal' = total - 1
  /\ fAllOk' = IF canceled THEN "none" ELSE ok
  /\ asleep' = sleepers
  /\ batch' = [batch EXCEPT ![t] = {}]
  /\ Goto(t, "returned")
  /\ UNCHANGED <<vChecks, fOk>>

WaitForWork(t, q, todo, ok, idle, total, sleepers) ==
  /\ q = {} /\ ~mQuit /\ ~CanReturn(t, todo)
  /\ queue' = q /\ nTodo' = todo /\ fAllOk' = ok /\ nIdle' = idle + 1 /\ nTotal' = total
  /\ asleep' = sleepers \union {t}
  /\ batch' = [batch EXCEPT ![t] = {}]
  /\ Goto(t, "wait")
  /\ UNCHANGED <<vChecks, fOk>>

TakeBatch(t, q, todo, ok, idle, total, sleepers) ==
  \E b \in SUBSET q :
    /\ q # {}
    /\ Cardinality(b) = NowSize(q, idle, total) /\ FrontOf(b, q)
    /\ queue' = q \ b /\ nTodo' = todo /\ fAllOk' = ok /\ nIdle' = idle /\ nTotal' = total
    /\ asleep' = sleepers
    /\ batch' = [batch EXCEPT ![t] = b]
    /\ vChecks' = [vChecks EXCEPT ![t] = b]
    /\ fOk' = [fOk EXCEPT ![t] = ok]
    /\ Goto(t, "exec")

FindWork(t, q, todo, ok, idle, total, sleepers) ==
  \/ QuitLoop(t, q, todo, ok, idle, total, sleepers)
  \/ ReturnVerdict(t, q, todo, ok, idle, total, sleepers)
  \/ WaitForWork(t, q, todo, ok, idle, total, sleepers)
  \/ TakeBatch(t, q, todo, ok, idle, total, sleepers)

\* First iteration of Loop: the thread begins to count in nTotal.
EnterLoop(t) ==
  /\ pc[t] = "enter"
  /\ FindWork(t, queue, nTodo, fAllOk, nIdle, nTotal + 1, asleep)
  /\ UNCHANGED <<failedChecks, vTempFailedChecks, mQuit, canceled, historyVars>>

\* A later iteration: first the clean-up of the previous one.
BothDecided(t) == fAllOk # "none" /\ fOk[t] # "none"

LastVerdict(t) == IF ~BothDecided(t) THEN "none" ELSE fOk[t]
JoinedVerdict(t) ==
  IF ~BothDecided(t) THEN "none"
  ELSE IF fAllOk = "true" /\ fOk[t] = "true" THEN "true" ELSE "false"

QueueAfterDrain == IF canceled THEN {} ELSE queue

TodoNotDrained(t) == nTodo - Cardinality(batch[t])
TodoAfterBatch(t) ==
  nTodo - Cardinality(batch[t]) - (IF canceled THEN Cardinality(queue) ELSE 0)

MasterLeftAsleep(t) == asleep
MasterWoken(t) == IF TodoAfterBatch(t) = 0 /\ t # Master THEN asleep \ {Master} ELSE asleep

HandInFailed(t) ==
  IF BothDecided(t) THEN failedChecks \o vTempFailedChecks[t] ELSE failedChecks

CleanUp(t) ==
  /\ pc[t] = "done"
  /\ failedChecks' = HandInFailed(t)
  /\ FindWork(t, QueueAfterDrain, TodoAfterBatch(t), JoinedVerdict(t), nIdle, nTotal,
              MasterWoken(t))
  /\ UNCHANGED <<vTempFailedChecks, mQuit, canceled, historyVars>>

\* Awake again after cond.wait: the idle guard is destroyed and the queue looked at again.
IdleGuardReleased == nIdle - 1

Resume(t) ==
  /\ pc[t] = "wait" /\ t \notin asleep
  /\ FindWork(t, queue, nTodo, fAllOk, IdleGuardReleased, nTotal, asleep)
  /\ UNCHANGED <<failedChecks, vTempFailedChecks, mQuit, canceled, historyVars>>

-----------------------------------------------------------------------------
\* Loop, from line 284: execute the batch without the mutex, one check per step.
Next1(t) == CHOOSE c \in vChecks[t] : \A d \in vChecks[t] : c <= d

\* A check gives its verdict; a cancelled one may give none.
RunCheck(t) ==
  /\ pc[t] = "exec" /\ vChecks[t] # {} /\ fOk[t] = "true"
  /\ LET c == Next1(t)
     IN \/ /\ ~canceled
           /\ fOk' = fOk /\ passed' = passed \union {c}
           /\ UNCHANGED <<failed, vTempFailedChecks>>
        \/ /\ ~canceled
           /\ fOk' = [fOk EXCEPT ![t] = "false"] /\ failed' = failed \union {c}
           /\ vTempFailedChecks' = [vTempFailedChecks EXCEPT ![t] = Append(@, c)]
           /\ UNCHANGED passed
        \/ /\ canceled
           /\ fOk' = [fOk EXCEPT ![t] = "none"]
           /\ UNCHANGED <<passed, failed, vTempFailedChecks>>
  /\ vChecks' = [vChecks EXCEPT ![t] = @ \ {Next1(t)}]
  /\ UNCHANGED <<sharedVars, batch, mQuit, canceled, pc, asleep, added, lastCheck>>

\* The loop over the batch ends: all done, a verdict reached, or cancelled.
EndBatch(t) ==
  /\ pc[t] = "exec"
  /\ vChecks[t] = {} \/ fOk[t] # "true" \/ canceled
  /\ vChecks' = [vChecks EXCEPT ![t] = {}]
  /\ Goto(t, "done")
  /\ UNCHANGED <<sharedVars, batch, fOk, vTempFailedChecks, mQuit, canceled, asleep,
                 historyVars>>

-----------------------------------------------------------------------------
\* The session, as CCheckQueueScopeGuard drives it.
IsIdle == nTotal = nIdle /\ nTodo = 0

\* StartCheckingSession; it throws unless the queue is idle (SessionsDoNotOverlap).
StartCheckingSession ==
  /\ pc[Master] = "none" /\ ~mQuit /\ IsIdle
  /\ canceled' = FALSE
  /\ fAllOk' = "true"
  /\ added' = {} /\ passed' = {} /\ failed' = {}
  /\ Goto(Master, "open")
  /\ UNCHANGED <<queue, failedChecks, nTodo, nIdle, nTotal, loopVars, mQuit, asleep,
                 lastCheck>>

\* notify_one for a single check, notify_all for more.
NotifyWorkers(n, remaining) ==
  IF n = 1 /\ asleep \intersect Workers # {}
    THEN \E w \in asleep \intersect Workers : remaining = asleep \ {w}
    ELSE remaining = asleep \ Workers

Add(n) ==
  /\ pc[Master] = "open"
  /\ lastCheck + n <= MaxChecks
  /\ LET new == (lastCheck + 1)..(lastCheck + n)
     IN queue' = queue \union new /\ added' = added \union new
  /\ nTodo' = nTodo + n
  /\ lastCheck' = lastCheck + n
  /\ \E remaining \in SUBSET asleep : NotifyWorkers(n, remaining) /\ asleep' = remaining
  /\ UNCHANGED <<failedChecks, nIdle, nTotal, fAllOk, loopVars, mQuit, canceled, pc,
                 passed, failed>>

\* Wait: the master calls Loop(true), whose local vTempFailedChecks is empty.
Wait ==
  /\ pc[Master] = "open"
  /\ Goto(Master, "enter")
  /\ vTempFailedChecks' = [vTempFailedChecks EXCEPT ![Master] = <<>>]
  /\ UNCHANGED <<sharedVars, batch, vChecks, fOk, mQuit, canceled, asleep, historyVars>>

\* A source of the session's token is cancelled: a better block wants the queue, the node
\* shuts down, or the scope guard is destroyed.
Cancel ==
  /\ pc[Master] \notin {"none", "returned"} /\ ~canceled
  /\ canceled' = TRUE
  /\ UNCHANGED <<sharedVars, loopVars, historyVars, mQuit, pc, asleep>>

\* Wait(&failedChecks): the failed checks go to the caller, the queue back to the pool.
TakeFailedChecks ==
  /\ pc[Master] = "returned"
  /\ failedChecks' = <<>>
  /\ Goto(Master, "none")
  /\ UNCHANGED <<queue, nTodo, nIdle, nTotal, fAllOk, loopVars, historyVars, mQuit, canceled,
                 asleep>>

\* The destructor of the scope guard cancels, waits, and takes nothing.
ReturnWithoutTaking ==
  /\ pc[Master] = "returned" /\ canceled
  /\ Goto(Master, "none")
  /\ UNCHANGED <<sharedVars, loopVars, historyVars, mQuit, canceled, asleep>>

-----------------------------------------------------------------------------
\* The destructor of the queue, which the pool runs when no session is open.
WorkersNotified == asleep \ Workers

Quit ==
  /\ pc[Master] = "none" /\ ~mQuit
  /\ mQuit' = TRUE
  /\ asleep' = WorkersNotified
  /\ UNCHANGED <<sharedVars, loopVars, historyVars, canceled, pc>>

\* Shutdown interrupts a worker in condWorker.wait: the guards give back nIdle and nTotal.
Interrupted(t) ==
  /\ t \in Workers /\ pc[t] = "wait"
  /\ nIdle' = nIdle - 1 /\ nTotal' = nTotal - 1
  /\ asleep' = asleep \ {t}
  /\ Goto(t, "gone")
  /\ UNCHANGED <<queue, failedChecks, nTodo, fAllOk, loopVars, historyVars, mQuit, canceled>>

SpuriousWakeup(t) ==
  /\ t \in asleep
  /\ asleep' = asleep \ {t}
  /\ UNCHANGED <<sharedVars, loopVars, historyVars, mQuit, canceled, pc>>

LoopStep(t) == EnterLoop(t) \/ CleanUp(t) \/ Resume(t) \/ RunCheck(t) \/ EndBatch(t)

SessionStep ==
  \/ StartCheckingSession \/ Wait \/ Cancel \/ TakeFailedChecks \/ ReturnWithoutTaking \/ Quit
  \/ \E n \in 1..MaxAdd : Add(n)

Next ==
  \/ SessionStep
  \/ \E t \in Threads : LoopStep(t) \/ Interrupted(t) \/ SpuriousWakeup(t)

Spec == Init /\ [][Next]_vars

\* Every thread in Loop goes on: the operating system runs it and checks end.
FairSpec == Spec /\ \A t \in Threads : WF_vars(LoopStep(t))

-----------------------------------------------------------------------------
TypeOK ==
  /\ queue \subseteq 1..lastCheck
  /\ nTodo \in Nat /\ nIdle \in Nat /\ nTotal \in Nat /\ lastCheck \in Nat
  /\ fAllOk \in Optional /\ mQuit \in BOOLEAN /\ canceled \in BOOLEAN
  /\ batch \in [Threads -> SUBSET (1..lastCheck)]
  /\ vChecks \in [Threads -> SUBSET (1..lastCheck)]
  /\ fOk \in [Threads -> Optional]
  /\ pc \in [Threads -> {"none", "open", "enter", "exec", "done", "wait", "returned", "gone"}]
  /\ asleep \subseteq {t \in Threads : pc[t] = "wait"}
  /\ added \subseteq 1..lastCheck
  /\ passed \subseteq added /\ failed \subseteq added
  /\ failedChecks \in Seq(Nat)
  /\ vTempFailedChecks \in [Threads -> Seq(Nat)]

\* The verdict Wait returns is the conjunction of the checks: true only after every check of
\* the session ran and passed, false only after one failed, empty exactly when cancelled
\* before the return.
VerdictSound ==
  pc[Master] = "returned" =>
    /\ fAllOk = "true" => passed = added /\ failed = {}
    /\ fAllOk = "false" => failed # {}
    /\ fAllOk = "none" <=> canceled

\* Nobody is at work on a session that is over, so the assert of ReturnQueueToPool holds and
\* StartCheckingSession never throws "Session already in progress!".
SessionsDoNotOverlap ==
  pc[Master] \in {"none", "returned"} =>
    /\ IsIdle /\ queue = {}
    /\ \A t \in Threads : batch[t] = {}

\* nTodo is the number of checks queued or in some thread's batch, whatever was drained.
Outstanding == queue \union UNION {batch[t] : t \in Threads}
TodoCountsOutstanding == nTodo = Cardinality(Outstanding)

\* nTotal and nIdle count the threads in Loop and those of them that wait, through quits and
\* interruptions.
CountersExact ==
  /\ nTotal = Cardinality(Running)
  /\ nIdle = Cardinality({t \in Threads : pc[t] = "wait"})

\* The books of the queue are right at every step of Loop, Add and StartCheckingSession: what
\* is left to do, who is there and who waits.
Accounting == TypeOK /\ TodoCountsOutstanding /\ CountersExact

\* Every failed check is handed to the caller that asks for them when the verdict is false.
FailedChecksComplete ==
  pc[Master] = "returned" /\ fAllOk = "false" =>
    \A c \in failed : \E i \in DOMAIN failedChecks : failedChecks[i] = c

\* What Wait returns: the verdict, and with it the failed checks.
ResultsSound == VerdictSound /\ FailedChecksComplete

\* Once the master waits, it returns: nobody sleeps on work that is left.
WaitReturns == pc[Master] = "enter" ~> pc[Master] = "returned"

\* After the destructor has asked for it every worker leaves Loop, so it need not time out.
WorkersLeave == mQuit ~> \A w \in Workers : pc[w] = "gone"

\* Nobody waits for ever in Loop: neither the master for the checks nor the workers for an end.
QueueProgress == WaitReturns /\ WorkersLeave
=============================================================================
