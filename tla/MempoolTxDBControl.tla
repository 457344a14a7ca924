------------------------- MODULE MempoolTxDBControl -------------------------
(***************************************************************************)
(* The threads, the queue and the worker of MempoolTxDB, for any number of *)
(* transactions, wrappers and callers: an inductive invariant that says    *)
(* what each thread may be about to push in the job it is in, who waits    *)
(* for which task, and in which order the tasks are pending.  That nobody  *)
(* waits for a promise that was dropped follows from it, and the proofs    *)
(* about the data, in MempoolTxDBProofs, build on it.                      *)
(***************************************************************************)
EXTENDS MempoolTxDB, TLAPS

CallerJobs == {"idle", "save", "remove", "check", "clear", "reorg"}
MainJobs == {"idle", "load", "verify", "giveup", "clear", "dump", "exit", "join"}

Task ==
  {Add(t, w) : t \in Txs, w \in Wrappers} \cup {Remove(t) : t \in Txs}
    \cup {Sync(c) : c \in Threads} \cup {SetXref(id) : id \in {1, 2, None}} \cup {Clear}

\* The tasks the worker has still to run, in their order.
Pending == tasks \o theQueue
IsPending(a) == \E i \in DOMAIN Pending : Pending[i] = a

FileRecord == [id : {1, 2}, onDisk : SUBSET Txs, inMem : SUBSET Txs]

TypeOK ==
  /\ tasks \in Seq(Task) /\ theQueue \in Seq(Task) /\ push \in [Threads -> Seq(Task)]
  /\ job \in [Threads -> CallerJobs \cup MainJobs]
  /\ \A c \in Callers : job[c] \in CallerJobs
  /\ job[Main] \in MainJobs
  /\ todo \in [Threads -> SUBSET Txs] /\ waiting \subseteq Threads
  /\ wpc \in {"pop", "run", "gone"} /\ phase \in {"up", "down"}
  /\ entry \in [Txs -> Wrappers \cup {None}] /\ oldMapTx \in [Txs -> Wrappers \cup {None}]
  /\ owned \subseteq Wrappers /\ resetting \subseteq Wrappers
  /\ adds \subseteq [tx : Txs, wrapper : Wrappers] /\ removes \subseteq Txs
  /\ db \subseteq Txs /\ file \in FileRecord \cup {None}

\* What a thread may be about to push in a job.
LegalPush(c, j, s) ==
  \/ s = <<>>
  \/ j = "save" /\ \E t \in Txs, w \in Wrappers : s = <<Add(t, w)>>
  \/ j \in {"remove", "load"} /\ \E t \in Txs : s = <<Remove(t)>>
  \/ j \in {"check", "verify"} /\ s = <<Sync(c)>>
  \/ j = "dump" /\ s = <<SetXref(InstanceId), Sync(c)>>
  \/ j = "exit" /\ s = <<SetXref(None), Sync(c)>>

\* A thread waits in the jobs that synchronise, with nothing left to push.
Waits ==
  \A c \in waiting : job[c] \in {"check", "verify", "clear", "dump", "exit"} /\ push[c] = <<>>

\* Whose SyncTask is pending waits for it, and there is one of it.
SyncsAwaited ==
  \A i \in DOMAIN Pending : Pending[i].op = "sync" =>
    /\ Pending[i].who \in waiting
    /\ \A j \in DOMAIN Pending : Pending[j] = Pending[i] => i = j

\* A task that replaces the database or its key is followed by the SyncTask of
\* the thread that ordered it, so it has run when that thread goes on.
Supervised(i) ==
  /\ i + 1 \in DOMAIN Pending
  /\ Pending[i + 1].op = "sync"
  /\ IF Pending[i].op = "clear" THEN job[Pending[i + 1].who] = "clear"
     ELSE /\ Pending[i + 1].who = Main
          /\ \/ job[Main] = "dump" /\ Pending[i].id = InstanceId
             \/ job[Main] = "exit" /\ Pending[i].id = None

OrdersSupervised ==
  \A i \in DOMAIN Pending : Pending[i].op \in {"clear", "setxref"} => Supervised(i)

\* Main dumps and leaves after the others have been stopped.
MainLast == job[Main] \in {"dump", "exit", "join"} => \A c \in Callers : job[c] = "idle"

\* smtx is held exclusively by one thread.
OneHolder == \A c, d \in UniqueHolders : c = d

Down ==
  phase = "down" =>
    /\ tasks = <<>> /\ theQueue = <<>> /\ waiting = {} /\ wpc = "pop"
    /\ \A c \in Threads : job[c] = "idle" /\ push[c] = <<>>

Promises == wpc # "gone" => \A c \in waiting : IsPending(Sync(c))

Control ==
  /\ TypeOK
  /\ \A c \in Threads : LegalPush(c, job[c], push[c])
  /\ Waits /\ SyncsAwaited /\ OrdersSupervised /\ MainLast /\ OneHolder /\ Down
  /\ wpc = "pop" => tasks = <<>>
  /\ Promises
-----------------------------------------------------------------------------
\* The fields of the tasks, by which they are told apart.
LEMMA TaskFields ==
  /\ \A t, w : Add(t, w).op = "add" /\ Add(t, w).tx = t /\ Add(t, w).wrapper = w
  /\ \A t : Remove(t).op = "remove" /\ Remove(t).tx = t
  /\ \A c : Sync(c).op = "sync" /\ Sync(c).who = c
  /\ \A id : SetXref(id).op = "setxref" /\ SetXref(id).id = id
  /\ Clear.op = "clear"
BY Zenon DEF Add, Remove, Sync, SetXref, Clear

\* The tasks a thread makes are tasks.
LEMMA TasksMade ==
  /\ \A t \in Txs, w \in Wrappers : Add(t, w) \in Task
  /\ \A t \in Txs : Remove(t) \in Task
  /\ \A c \in Threads : Sync(c) \in Task
  /\ \A id \in {1, 2, None} : SetXref(id) \in Task
  /\ Clear \in Task
BY SMTT(30) DEF Task

\* A task is one of five forms.
LEMMA TaskForms ==
  ASSUME NEW a \in Task
  PROVE  /\ a.op = "add" => a.tx \in Txs /\ a.wrapper \in Wrappers /\ a = Add(a.tx, a.wrapper)
         /\ a.op = "remove" => a.tx \in Txs /\ a = Remove(a.tx)
         /\ a.op = "sync" => a.who \in Threads /\ a = Sync(a.who)
         /\ a.op = "setxref" => a.id \in {1, 2, None} /\ a = SetXref(a.id)
         /\ a.op = "clear" => a = Clear
         /\ a.op \in {"add", "remove", "sync", "setxref", "clear"}
<1>1. CASE \E t \in Txs, w \in Wrappers : a = Add(t, w)
  BY <1>1, TaskFields, SMTT(30)
<1>2. CASE \E t \in Txs : a = Remove(t)
  BY <1>2, TaskFields, SMTT(30)
<1>3. CASE \E c \in Threads : a = Sync(c)
  BY <1>3, TaskFields, SMTT(30)
<1>4. CASE \E id \in {1, 2, None} : a = SetXref(id)
  BY <1>4, TaskFields, SMTT(30)
<1>5. CASE a = Clear
  BY <1>5, TaskFields, Zenon
<1> QED  BY <1>1, <1>2, <1>3, <1>4, <1>5, SMTT(30) DEF Task

\* The identity of a dump is one of two.
LEMMA InstanceIdType ==
  ASSUME TypeOK
  PROVE  InstanceId \in {1, 2}
<1>1. CASE file = None
  BY <1>1, Zenon DEF InstanceId
<1>2. CASE file \in FileRecord /\ file # None
  BY <1>2, SMTT(30) DEF InstanceId, FileRecord
<1> QED  BY <1>1, <1>2, Zenon DEF TypeOK

-----------------------------------------------------------------------------
\* TypeOK is inductive.  The worker's steps:
LEMMA WorkerTypes ==
  ASSUME TypeOK, WorkerStep \/ CommitThrows
  PROVE  TypeOK'
<1> USE DEF TypeOK, queueVars, diskVars, poolVars, threadVars, workVars
<1>1. CASE WorkPop
  BY <1>1, SMTT(30) DEF WorkPop, PopAll
<1>2. CASE WorkSleeps
  BY <1>2, Zenon DEF WorkSleeps, PopSleeps
<1>3. CASE WorkEnds
  BY <1>3, Zenon DEF WorkEnds
<1>4. CASE Commit
  BY <1>4, ZenonT(30) DEF Commit
<1>5. CASE ResetTransaction
  BY <1>5, Zenon DEF ResetTransaction
<1>6. CASE WorkTask
  <2> DEFINE a == Head(tasks)
  <2>1. /\ tasks # <<>> /\ tasks' = Tail(tasks)
        /\ RunAdd(a) \/ RunRemove(a) \/ RunSync(a) \/ RunSetXref(a) \/ RunClear(a)
        /\ UNCHANGED <<queueVars, file, poolVars, phase, job, todo, push, wpc, resetting>>
    BY <1>6, Zenon DEF WorkTask
  <2>2. a \in Task /\ tasks' \in Seq(Task)
    BY <2>1, SMTT(30)
  <2>3. /\ a.op = "add" => a.tx \in Txs /\ a.wrapper \in Wrappers
        /\ a.op = "remove" => a.tx \in Txs
    BY <2>2, TaskForms, Zenon
  <2> HIDE DEF a
  <2>4. /\ adds' \subseteq [tx : Txs, wrapper : Wrappers] /\ removes' \subseteq Txs
        /\ db' \subseteq Txs /\ waiting' \subseteq Threads
    <3>1. CASE RunAdd(a)
      BY <2>3, <3>1, SMTT(30) DEF RunAdd, BatchAdd
    <3>2. CASE RunRemove(a)
      BY <2>3, <3>2, Zenon DEF RunRemove, BatchRemove
    <3>3. CASE RunSync(a) \/ RunSetXref(a) \/ RunClear(a)
      BY <3>3, Zenon DEF RunSync, RunSetXref, RunClear
    <3> QED  BY <2>1, <3>1, <3>2, <3>3, Zenon
  <2> QED  BY <2>1, <2>2, <2>4, Zenon
<1>7. CASE WorkNext
  BY <1>7, Zenon DEF WorkNext
<1>8. CASE CommitThrows
  BY <1>8, SMTT(30) DEF CommitThrows, Close
<1> QED  BY <1>1, <1>2, <1>3, <1>4, <1>5, <1>6, <1>7, <1>8, Zenon DEF WorkerStep
\* What Become does to the types.
LEMMA BecomeTypes ==
  ASSUME TypeOK, NEW c \in Threads, NEW j, NEW txs \in SUBSET Txs, NEW s \in Seq(Task),
         c \in Callers => j \in CallerJobs, c = Main => j \in MainJobs,
         Become(c, j, txs, s)
  PROVE  /\ push' \in [Threads -> Seq(Task)] /\ todo' \in [Threads -> SUBSET Txs]
         /\ job' \in [Threads -> CallerJobs \cup MainJobs]
         /\ \A d \in Callers : job'[d] \in CallerJobs
         /\ job'[Main] \in MainJobs
BY ThreadsDistinct, Zenon DEF Become, TypeOK, Threads

\* A process that has stopped has nothing but its disk.
LEMMA StoppedTypes ==
  ASSUME TypeOK, Stopped, UNCHANGED diskVars
  PROVE  TypeOK'
<1>1. /\ job' = [c \in Threads |-> "idle"] /\ "idle" \in CallerJobs /\ "idle" \in MainJobs
      /\ Callers \subseteq Threads /\ Main \in Threads
  BY Zenon DEF Stopped, CallerJobs, MainJobs, Threads
<1>2. /\ job' \in [Threads -> CallerJobs \cup MainJobs]
      /\ \A d \in Callers : job'[d] \in CallerJobs
      /\ job'[Main] \in MainJobs
  BY <1>1, Zenon
<1>3. /\ push' \in [Threads -> Seq(Task)] /\ todo' \in [Threads -> SUBSET Txs]
      /\ tasks' \in Seq(Task) /\ theQueue' \in Seq(Task)
  BY SMTT(30) DEF Stopped
<1>4. entry' \in [Txs -> Wrappers \cup {None}] /\ oldMapTx' \in [Txs -> Wrappers \cup {None}]
  BY Zenon DEF Stopped, NoEntries
<1> QED  BY <1>2, <1>3, <1>4, Zenon DEF Stopped, TypeOK, diskVars

\* The steps of any thread in its job.
LEMMA ThreadTypes ==
  ASSUME TypeOK, NEW c \in Threads, ThreadStep(c) \/ ClearMempool(c) \/ ClearAborts(c)
  PROVE  TypeOK'
<1> USE DEF queueVars, diskVars, poolVars, threadVars, workVars
<1>0. Main \in Threads /\ Callers \subseteq Threads
  BY Zenon DEF Threads
<1>1. CASE PushTasks(c)
  <2>1. theQueue' \in Seq(Task)
    BY <1>1, SMTT(30) DEF PushTasks, Push, TypeOK
  <2>2. push' \in [Threads -> Seq(Task)] /\ waiting' \subseteq Threads
    BY <1>1, SMTT(30) DEF PushTasks, TypeOK
  <2> QED  BY <1>1, <2>1, <2>2, Zenon DEF PushTasks, TypeOK
<1>2. CASE PushWaits(c)
  BY <1>2, Zenon DEF PushWaits, PushSleeps, TypeOK
<1>3. CASE PushAborts(c) \/ ClearAborts(c)
  BY <1>3, StoppedTypes, Zenon DEF PushAborts, ClearAborts
<1>4. CASE SaveNext(c)
  <2>1. PICK t \in todo[c] :
          Become(c, "save", todo[c] \ {t}, IF entry[t] \in owned THEN <<Add(t, entry[t])>> ELSE <<>>)
    BY <1>4, Zenon DEF SaveNext
  <2>2. t \in Txs /\ todo[c] \ {t} \in SUBSET Txs
    BY Zenon DEF TypeOK
  <2>3. entry[t] \in owned => Add(t, entry[t]) \in Task
    BY <2>2, TasksMade, Zenon DEF TypeOK
  <2>4. (IF entry[t] \in owned THEN <<Add(t, entry[t])>> ELSE <<>>) \in Seq(Task)
    BY <2>3, SMTT(30)
  <2>5. (c \in Callers => "save" \in CallerJobs) /\ c \in Callers
    BY <1>4, Zenon DEF SaveNext, TypeOK, Threads, CallerJobs, MainJobs
  <2>6. c # Main
    BY <2>5, ThreadsDistinct, Zenon
  <2>7. /\ push' \in [Threads -> Seq(Task)] /\ todo' \in [Threads -> SUBSET Txs]
        /\ job' \in [Threads -> CallerJobs \cup MainJobs]
        /\ \A d \in Callers : job'[d] \in CallerJobs
        /\ job'[Main] \in MainJobs
    BY <2>1, <2>2, <2>4, <2>5, <2>6, BecomeTypes, Zenon
  <2> QED  BY <1>4, <2>7, Zenon DEF SaveNext, TypeOK
<1>5. CASE RemoveUnchecked(c)
  <2>1. PICK t \in todo[c] :
          /\ Become(c, "remove", todo[c] \ {t}, IF RemoveFromDisk(t) THEN <<Remove(t)>> ELSE <<>>)
          /\ entry' = [entry EXCEPT ![t] = None]
          /\ owned' = IF entry[t] \in TaskWrappers THEN owned ELSE owned \ {entry[t]}
    BY <1>5, Zenon DEF RemoveUnchecked
  <2>2. t \in Txs /\ todo[c] \ {t} \in SUBSET Txs
    BY Zenon DEF TypeOK
  <2>3. Remove(t) \in Task
    BY <2>2, TasksMade, Zenon
  <2>4. (IF RemoveFromDisk(t) THEN <<Remove(t)>> ELSE <<>>) \in Seq(Task)
    BY <2>3, SMTT(30)
  <2>5. (c \in Callers => "remove" \in CallerJobs) /\ c \in Callers
    BY <1>5, Zenon DEF RemoveUnchecked, TypeOK, Threads, CallerJobs, MainJobs
  <2>6. c # Main
    BY <2>5, ThreadsDistinct, Zenon
  <2>7. /\ push' \in [Threads -> Seq(Task)] /\ todo' \in [Threads -> SUBSET Txs]
        /\ job' \in [Threads -> CallerJobs \cup MainJobs]
        /\ \A d \in Callers : job'[d] \in CallerJobs
        /\ job'[Main] \in MainJobs
    BY <2>1, <2>2, <2>4, <2>5, <2>6, BecomeTypes, Zenon
  <2>8. entry' \in [Txs -> Wrappers \cup {None}] /\ owned' \subseteq Wrappers
    BY <2>1, <2>2, Zenon DEF TypeOK
  <2> QED  BY <1>5, <2>7, <2>8, Zenon DEF RemoveUnchecked, TypeOK
<1>6. CASE JobEnds(c)
  <2>1. "idle" \in CallerJobs /\ "idle" \in MainJobs /\ {} \in SUBSET Txs /\ <<>> \in Seq(Task)
    BY SMTT(30) DEF CallerJobs, MainJobs
  <2>2. Become(c, "idle", {}, <<>>)
    BY <1>6, Zenon DEF JobEnds
  <2>3. /\ push' \in [Threads -> Seq(Task)] /\ todo' \in [Threads -> SUBSET Txs]
        /\ job' \in [Threads -> CallerJobs \cup MainJobs]
        /\ \A d \in Callers : job'[d] \in CallerJobs
        /\ job'[Main] \in MainJobs
    BY <2>1, <2>2, BecomeTypes, Zenon
  <2> QED  BY <1>6, <2>3, Zenon DEF JobEnds, TypeOK
<1>7. CASE ClearMempool(c)
  <2>1. "clear" \in CallerJobs /\ "clear" \in MainJobs /\ {} \in SUBSET Txs /\ <<>> \in Seq(Task)
    BY SMTT(30) DEF CallerJobs, MainJobs
  <2>2. /\ Become(c, "clear", {}, <<>>) /\ theQueue' = <<Clear, Sync(c)>>
        /\ waiting' = waiting \cup {c} /\ entry' = NoEntries /\ owned' \subseteq owned
    BY <1>7, Zenon DEF ClearMempool, ReplaceContent
  <2>3. /\ push' \in [Threads -> Seq(Task)] /\ todo' \in [Threads -> SUBSET Txs]
        /\ job' \in [Threads -> CallerJobs \cup MainJobs]
        /\ \A d \in Callers : job'[d] \in CallerJobs
        /\ job'[Main] \in MainJobs
    BY <2>1, <2>2, BecomeTypes, Zenon
  <2>4. Clear \in Task /\ Sync(c) \in Task
    BY TasksMade, Zenon
  <2>5. theQueue' \in Seq(Task)
    BY <2>2, <2>4, SMTT(30)
  <2>6. entry' \in [Txs -> Wrappers \cup {None}]
    BY <2>2, Zenon DEF NoEntries
  <2> QED  BY <1>7, <2>2, <2>3, <2>5, <2>6, Zenon DEF ClearMempool, TypeOK
<1> QED  BY <1>1, <1>2, <1>3, <1>4, <1>5, <1>6, <1>7, Zenon DEF ThreadStep
\* A step that changes nothing but the job of a caller.
LEMMA CallerBecomes ==
  ASSUME TypeOK, NEW c \in Callers, NEW j \in CallerJobs, NEW txs \in SUBSET Txs,
         NEW s \in Seq(Task), Become(c, j, txs, s),
         UNCHANGED <<queueVars, diskVars, phase, waiting, workVars>>,
         entry' \in [Txs -> Wrappers \cup {None}], oldMapTx' \in [Txs -> Wrappers \cup {None}],
         owned' \subseteq Wrappers
  PROVE  TypeOK'
<1>1. c \in Threads /\ c # Main
  BY ThreadsDistinct, Zenon DEF Threads
<1>2. /\ push' \in [Threads -> Seq(Task)] /\ todo' \in [Threads -> SUBSET Txs]
      /\ job' \in [Threads -> CallerJobs \cup MainJobs]
      /\ \A d \in Callers : job'[d] \in CallerJobs
      /\ job'[Main] \in MainJobs
  BY <1>1, BecomeTypes, Zenon
<1> QED  BY <1>2, Zenon DEF TypeOK, queueVars, diskVars, workVars

\* The same for Main, which may also write mempool.dat.
LEMMA MainBecomes ==
  ASSUME TypeOK, NEW j \in MainJobs, NEW txs \in SUBSET Txs,
         NEW s \in Seq(Task), Become(Main, j, txs, s),
         UNCHANGED <<waiting, workVars, oldMapTx>>,
         phase' \in {"up", "down"}, theQueue' \in Seq(Task),
         db' \subseteq Txs, file' \in FileRecord \cup {None},
         entry' \in [Txs -> Wrappers \cup {None}], owned' \subseteq Wrappers
  PROVE  TypeOK'
<1>1. Main \in Threads /\ Main \notin Callers
  BY ThreadsDistinct, Zenon DEF Threads
<1>2. /\ push' \in [Threads -> Seq(Task)] /\ todo' \in [Threads -> SUBSET Txs]
      /\ job' \in [Threads -> CallerJobs \cup MainJobs]
      /\ \A d \in Callers : job'[d] \in CallerJobs
      /\ job'[Main] \in MainJobs
  BY <1>1, BecomeTypes, Zenon
<1> QED  BY <1>2, Zenon DEF TypeOK, workVars

\* The operations a caller starts, and AddUnchecked.
LEMMA CallerTypes ==
  ASSUME TypeOK, NEW c \in Callers, CallerStart(c)
  PROVE  TypeOK'
<1> USE DEF poolVars
<1>0. /\ entry \in [Txs -> Wrappers \cup {None}] /\ oldMapTx \in [Txs -> Wrappers \cup {None}]
      /\ owned \subseteq Wrappers /\ NoEntries \in [Txs -> Wrappers \cup {None}]
      /\ Stored(entry) \in SUBSET Txs /\ {} \in SUBSET Txs /\ <<>> \in Seq(Task)
  BY SMTT(30) DEF TypeOK, NoEntries, Stored
<1>1. CASE SaveTxsToDisk(c)
  BY <1>0, <1>1, CallerBecomes, Zenon DEF SaveTxsToDisk, CallerJobs
<1>2. CASE RemoveStaged(c)
  BY <1>0, <1>2, CallerBecomes, Zenon DEF RemoveStaged, CallerJobs
<1>3. CASE CheckMempoolTxDB(c)
  <2>1. <<Sync(c)>> \in Seq(Task)
    BY TasksMade, SMTT(30) DEF Threads
  <2> QED  BY <1>0, <1>3, <2>1, CallerBecomes, Zenon DEF CheckMempoolTxDB, CallerJobs
<1>4. CASE PrepareResubmit(c)
  BY <1>0, <1>4, CallerBecomes, Zenon DEF PrepareResubmit, CallerJobs
<1>5. CASE ResubmitEntries(c)
  <2>1. PICK new \in [Stored(oldMapTx) -> Wrappers \ (TaskWrappers \cup Range(entry))] :
       /\ entry' = [t \in Txs |-> IF t \in DOMAIN new THEN new[t] ELSE entry[t]]
       /\ owned' = (owned \ (Range(new) \cup (Range(oldMapTx) \ TaskWrappers)))
                     \cup {new[t] : t \in {u \in DOMAIN new : oldMapTx[u] \in owned}}
    BY <1>5, Zenon DEF ResubmitEntries
  <2>2. entry' \in [Txs -> Wrappers \cup {None}]
    BY <1>0, <2>1, Zenon
  <2>3. owned' \subseteq Wrappers
    BY <1>0, <2>1, Zenon
  <2>4. PICK invalid \in SUBSET Stored(entry') : Become(c, "remove", invalid, <<>>)
    BY <1>5, Zenon DEF ResubmitEntries
  <2>5. invalid \in SUBSET Txs
    BY <2>4, Zenon DEF Stored
  <2>6. oldMapTx' \in [Txs -> Wrappers \cup {None}] /\ UNCHANGED <<queueVars, diskVars, phase, waiting, workVars>>
    BY <1>0, <1>5, Zenon DEF ResubmitEntries
  <2> QED  BY <1>0, <2>2, <2>3, <2>4, <2>5, <2>6, CallerBecomes, Zenon DEF CallerJobs
<1> QED  BY <1>1, <1>2, <1>3, <1>4, <1>5, Zenon DEF CallerStart

\* The steps of Main, AddUnchecked and a crash.
LEMMA MainTypes ==
  ASSUME TypeOK, MainStep \/ Crash \/ \E t \in Txs : AddUnchecked(t)
  PROVE  TypeOK'
<1> USE DEF queueVars, diskVars, poolVars
<1>0. /\ entry \in [Txs -> Wrappers \cup {None}] /\ oldMapTx \in [Txs -> Wrappers \cup {None}]
      /\ owned \subseteq Wrappers /\ {} \in SUBSET Txs /\ <<>> \in Seq(Task) /\ todo[Main] \in SUBSET Txs
      /\ phase \in {"up", "down"} /\ theQueue \in Seq(Task) /\ db \subseteq Txs
      /\ file \in FileRecord \cup {None}
  BY SMTT(30) DEF TypeOK, Threads
<1>1. CASE InitMempoolTxDB
  <2>1. (IF file = None THEN {} ELSE file.onDisk \cup file.inMem) \in SUBSET Txs
    BY <1>0, Zenon DEF FileRecord
  <2> QED  BY <1>0, <1>1, <2>1, MainBecomes, Zenon DEF InitMempoolTxDB, MainJobs
<1>2. CASE LoadFails
  BY <1>0, <1>2, MainBecomes, Zenon DEF LoadFails, MainJobs
<1>3. CASE LoadNext
  <2>1. PICK t \in todo[Main] : LoadAccepted(t) \/ LoadRejected(t)
    BY <1>3, Zenon DEF LoadNext
  <2>2. t \in Txs /\ todo[Main] \ {t} \in SUBSET Txs
    BY <1>0, Zenon
  <2>3. UNCHANGED <<queueVars, diskVars, phase, waiting, workVars>>
    BY <1>3, Zenon DEF LoadNext
  <2>4. CASE LoadAccepted(t)
    <3>1. PICK w \in FreeWrappers :
            /\ entry' = [entry EXCEPT ![t] = w]
            /\ owned' = IF t \in file.inMem THEN owned \cup {w} ELSE owned \ {w}
      BY <2>4, Zenon DEF LoadAccepted
    <3>2. w \in Wrappers
      BY Zenon DEF FreeWrappers
    <3>3. entry' \in [Txs -> Wrappers \cup {None}] /\ owned' \subseteq Wrappers
      BY <1>0, <2>2, <3>1, <3>2, Zenon
    <3> QED  BY <1>0, <2>2, <2>3, <2>4, <3>3, MainBecomes, Zenon DEF LoadAccepted, MainJobs
  <2>5. CASE LoadRejected(t)
    <3>1. (IF t \in file.onDisk THEN <<Remove(t)>> ELSE <<>>) \in Seq(Task)
      BY <2>2, TasksMade, SMTT(30)
    <3> QED  BY <1>0, <2>2, <2>3, <2>5, <3>1, MainBecomes, Zenon DEF LoadRejected, MainJobs
  <2> QED  BY <2>1, <2>4, <2>5, Zenon
<1>4. CASE LoadCancelled
  BY <1>0, <1>4, MainBecomes, Zenon DEF LoadCancelled, MainJobs
<1>5. CASE LoadVerifies
  <2>1. <<Sync(Main)>> \in Seq(Task)
    BY TasksMade, SMTT(30) DEF Threads
  <2> QED  BY <1>0, <1>5, <2>1, MainBecomes, Zenon DEF LoadVerifies, MainJobs
<1>6. CASE LoadEnds
  BY <1>0, <1>6, MainBecomes, Zenon DEF LoadEnds, MainJobs
<1>7. CASE DumpMempool
  <2>1. <<SetXref(InstanceId), Sync(Main)>> \in Seq(Task)
    BY TasksMade, InstanceIdType, SMTT(30) DEF Threads
  <2> QED  BY <1>0, <1>7, <2>1, MainBecomes, Zenon DEF DumpMempool, MainJobs
<1>8. CASE WriteDump
  <2>1. file' \in FileRecord
    BY <1>8, InstanceIdType, Zenon DEF WriteDump, FileRecord, Stored
  <2> QED  BY <1>0, <1>8, <2>1, MainBecomes, Zenon DEF WriteDump, MainJobs
<1>9. CASE Destroy
  <2>1. theQueue' \in Seq(Task)
    BY <1>0, <1>9, Zenon DEF Destroy, Close
  <2> QED  BY <1>0, <1>9, <2>1, MainBecomes, Zenon DEF Destroy, MainJobs
<1>10. CASE DumpFails
  <2>1. <<SetXref(None), Sync(Main)>> \in Seq(Task)
    BY TasksMade, SMTT(30) DEF Threads
  <2> QED  BY <1>0, <1>10, <2>1, MainBecomes, Zenon DEF DumpFails, MainJobs
<1>11. CASE Join \/ Crash
  BY <1>11, StoppedTypes, Zenon DEF Join, Crash
<1>12. CASE \E t \in Txs : AddUnchecked(t)
  <2>1. PICK t \in Txs, w \in FreeWrappers : entry' = [entry EXCEPT ![t] = w] /\ owned' = owned \cup {w}
    BY <1>12, Zenon DEF AddUnchecked
  <2>2. w \in Wrappers
    BY Zenon DEF FreeWrappers
  <2>3. entry' \in [Txs -> Wrappers \cup {None}] /\ owned' \subseteq Wrappers
    BY <1>0, <2>1, <2>2, Zenon
  <2> QED  BY <1>12, <2>3, ZenonT(30) DEF AddUnchecked, TypeOK, threadVars, workVars
<1> QED  BY <1>1, <1>2, <1>3, <1>4, <1>5, <1>6, <1>7, <1>8, <1>9, <1>10, <1>11, <1>12, Zenon DEF MainStep
-----------------------------------------------------------------------------
\* The pending tasks are those the worker took, then those in the queue.
LEMMA PendingParts ==
  ASSUME tasks \in Seq(Task), theQueue \in Seq(Task)
  PROVE  /\ Pending \in Seq(Task) /\ Len(Pending) = Len(tasks) + Len(theQueue)
         /\ Len(tasks) \in Nat /\ Len(theQueue) \in Nat
         /\ DOMAIN Pending = 1 .. Len(Pending)
         /\ \A i \in DOMAIN Pending : Pending[i] \in Task
         /\ \A i \in 1 .. Len(tasks) : i \in DOMAIN Pending /\ Pending[i] = tasks[i]
         /\ \A i \in 1 .. Len(theQueue) :
              i + Len(tasks) \in DOMAIN Pending /\ Pending[i + Len(tasks)] = theQueue[i]
         /\ \A i \in DOMAIN Pending : i > Len(tasks) =>
              i - Len(tasks) \in 1 .. Len(theQueue) /\ Pending[i] = theQueue[i - Len(tasks)]
BY SMTT(30) DEF Pending

\* Who is named by a pending SyncTask; what Control says of a task in flight.
LEMMA PendingForms ==
  ASSUME TypeOK
  PROVE  \A i \in DOMAIN Pending :
           /\ Pending[i].op = "sync" => Pending[i].who \in Threads /\ Pending[i] = Sync(Pending[i].who)
           /\ \A c : Pending[i] = Sync(c) => Pending[i].op = "sync" /\ Pending[i].who = c
           /\ Pending[i].op = "remove" => Pending[i] = Remove(Pending[i].tx)
BY PendingParts, TaskForms, TaskFields, SMTT(30) DEF TypeOK

\* A step that leaves the tasks and the threads as they are.
LEMMA QuietKeeps ==
  ASSUME Control, TypeOK', Pending' = Pending, phase = "up",
         UNCHANGED <<job, push, waiting, file, phase>>,
         wpc' = "pop" => tasks' = <<>>, wpc = "gone" => wpc' = "gone"
  PROVE  Control'
<1>1. \A c \in Threads : LegalPush(c, job[c], push[c])'
  BY Zenon DEF Control, LegalPush, InstanceId
<1>2. Waits' /\ MainLast' /\ OneHolder' /\ Down' /\ SyncsAwaited'
  BY Zenon DEF Control, Waits, MainLast, OneHolder, UniqueHolders, Down, SyncsAwaited
<1>3. OrdersSupervised'
  BY Zenon DEF Control, OrdersSupervised, Supervised, InstanceId
<1>4. Promises'
  BY Zenon DEF Control, Promises, IsPending
<1> QED  BY <1>1, <1>2, <1>3, <1>4, Zenon DEF Control

\* A thread that waits for nothing goes on to another job or another round.
LEMMA BecomeKeeps ==
  ASSUME Control, TypeOK', NEW c \in Threads, NEW j, NEW txs, NEW s, Become(c, j, txs, s),
         c \notin waiting, UNCHANGED <<tasks, theQueue, waiting, wpc>>, phase' = "up",
         file' = file \/ (c = Main /\ s = <<>>),
         LegalPush(c, j, s),
         j \notin {"remove", "clear"} \/ c \in UniqueHolders \/ UniqueHolders = {},
         c \in Callers => Running \/ job[c] # "idle",
         c = Main => j \notin {"dump", "exit", "join"} \/ \A d \in Callers : job[d] = "idle"
  PROVE  Control'
<1>0. /\ job' = [job EXCEPT ![c] = j] /\ push' = [push EXCEPT ![c] = s]
      /\ job \in [Threads -> CallerJobs \cup MainJobs] /\ push \in [Threads -> Seq(Task)]
      /\ waiting \subseteq Threads /\ Pending' = Pending
      /\ Main \in Threads /\ Callers \subseteq Threads /\ (c \in Callers \/ c = Main)
      /\ Main \notin Callers
  BY ThreadsDistinct, Zenon DEF Become, Control, TypeOK, Pending, Threads
<1>1. \A d \in waiting : d # c /\ job'[d] = job[d] /\ push'[d] = push[d]
  BY <1>0, Zenon
<1>2. \A d \in Threads : LegalPush(d, job[d], push[d])'
  <2> TAKE d \in Threads
  <2>1. CASE d = c /\ s = <<>>
    BY <1>0, <2>1, Zenon DEF LegalPush
  <2>2. CASE d = c /\ file' = file
    BY <1>0, <2>2, Zenon DEF LegalPush, InstanceId
  <2>3. CASE d # c /\ file' = file
    BY <1>0, <2>3, Zenon DEF LegalPush, InstanceId, Control
  <2>4. CASE d # c /\ c = Main
    <3>1. d \in Callers /\ job[d] # "dump" /\ job'[d] = job[d] /\ push'[d] = push[d]
      BY <1>0, <2>4, Zenon DEF Threads, Control, TypeOK, CallerJobs
    <3> QED  BY <3>1, Zenon DEF LegalPush, Control
  <2> QED  BY <2>1, <2>2, <2>3, <2>4, Zenon
<1>3. Waits'
  BY <1>1, Zenon DEF Control, Waits
<1>4. SyncsAwaited'
  BY <1>0, Zenon DEF Control, SyncsAwaited
<1>5. OrdersSupervised'
  <2> SUFFICES ASSUME NEW i \in DOMAIN Pending, Pending[i].op \in {"clear", "setxref"}
               PROVE  Supervised(i)'
    BY <1>0, Zenon DEF OrdersSupervised
  <2>1. Supervised(i) /\ Pending[i + 1].who \in waiting
    BY Zenon DEF Control, OrdersSupervised, SyncsAwaited, Supervised
  <2>2. Pending[i + 1].who # c /\ job'[Pending[i + 1].who] = job[Pending[i + 1].who]
    BY <2>1, <1>1, Zenon
  <2> QED  BY <1>0, <2>1, <2>2, Zenon DEF Supervised, InstanceId
<1>6. MainLast'
  <2>1. CASE c \in Callers
    BY <1>0, <2>1, Zenon DEF Control, MainLast, Running
  <2>2. CASE c = Main
    BY <1>0, <2>2, Zenon DEF Control, MainLast
  <2> QED  BY <1>0, <2>1, <2>2, Zenon
<1>7. OneHolder'
  <2>1. UniqueHolders' \subseteq UniqueHolders \/ UniqueHolders' \subseteq {c}
    BY <1>0, Zenon DEF UniqueHolders
  <2> QED  BY <2>1, Zenon DEF Control, OneHolder
<1>8. Down' /\ (wpc' = "pop" => tasks' = <<>>) /\ Promises'
  BY <1>0, Zenon DEF Control, Down, Promises, IsPending
<1> QED  BY <1>2, <1>3, <1>4, <1>5, <1>6, <1>7, <1>8, Zenon DEF Control

\* The first k pending tasks go, and the promises of those who waited for them
\* are kept unless the worker ends.
LEMMA DropKeeps ==
  ASSUME Control, TypeOK', phase = "up", UNCHANGED <<job, push, file, phase>>,
         NEW k \in 0 .. Len(Pending), Len(Pending') = Len(Pending) - k,
         \A i \in 1 .. (Len(Pending) - k) : Pending'[i] = Pending[i + k],
         waiting' \subseteq waiting,
         \A c \in waiting : c \notin waiting' => \E i \in 1 .. k : Pending[i] = Sync(c),
         wpc' # "gone" => wpc # "gone" /\ \A c \in waiting', i \in 1 .. k : Pending[i] # Sync(c),
         wpc' = "pop" => tasks' = <<>>
  PROVE  Control'
<1>0. /\ Pending \in Seq(Task) /\ Pending' \in Seq(Task) /\ Len(Pending) \in Nat
      /\ DOMAIN Pending = 1 .. Len(Pending) /\ DOMAIN Pending' = 1 .. (Len(Pending) - k)
  BY PendingParts, SMTT(30) DEF Control, TypeOK, Pending
<1>1. \A i \in DOMAIN Pending' : i + k \in DOMAIN Pending /\ Pending'[i] = Pending[i + k]
  BY <1>0, SMTT(30)
<1>2. \A c \in Threads : LegalPush(c, job[c], push[c])'
  BY Zenon DEF Control, LegalPush, InstanceId
<1>3. Waits' /\ MainLast' /\ OneHolder' /\ Down'
  BY Zenon DEF Control, Waits, MainLast, OneHolder, UniqueHolders, Down
<1>4. SyncsAwaited'
  <2> SUFFICES ASSUME NEW i \in DOMAIN Pending', Pending'[i].op = "sync"
               PROVE  /\ Pending'[i].who \in waiting'
                      /\ \A j \in DOMAIN Pending' : Pending'[j] = Pending'[i] => i = j
    BY Zenon DEF SyncsAwaited
  <2>1. /\ i + k \in DOMAIN Pending /\ Pending[i + k].op = "sync" /\ Pending'[i] = Pending[i + k]
        /\ Pending[i + k].who \in waiting
        /\ \A j \in DOMAIN Pending : Pending[j] = Pending[i + k] => j = i + k
    BY <1>1, Zenon DEF Control, SyncsAwaited
  <2>2. Pending[i + k] = Sync(Pending[i + k].who)
    BY <2>1, PendingForms, Zenon DEF Control
  <2>3. \A n \in 1 .. k : n \in DOMAIN Pending /\ n # i + k
    BY <1>0, SMTT(30)
  <2>4. Pending[i + k].who \in waiting'
    BY <2>1, <2>2, <2>3, Zenon
  <2> QED  BY <1>0, <1>1, <2>1, <2>4, SMTT(30)
<1>5. OrdersSupervised'
  <2> SUFFICES ASSUME NEW i \in DOMAIN Pending', Pending'[i].op \in {"clear", "setxref"}
               PROVE  Supervised(i)'
    BY Zenon DEF OrdersSupervised
  <2>1. i + k \in DOMAIN Pending /\ Pending'[i] = Pending[i + k] /\ Supervised(i + k)
    BY <1>1, Zenon DEF Control, OrdersSupervised
  <2>2. i + 1 \in DOMAIN Pending' /\ Pending'[i + 1] = Pending[(i + k) + 1]
    BY <1>0, <1>1, <2>1, SMTT(30) DEF Supervised
  <2> QED  BY <2>1, <2>2, Zenon DEF Supervised, InstanceId
<1>6. Promises'
  <2> SUFFICES ASSUME wpc' # "gone", NEW c \in waiting'
               PROVE  \E i \in DOMAIN Pending' : Pending'[i] = Sync(c)'
    BY Zenon DEF Promises, IsPending
  <2>1. PICK i \in DOMAIN Pending : Pending[i] = Sync(c)
    BY Zenon DEF Control, Promises, IsPending
  <2>2. i \notin 1 .. k
    BY <2>1, Zenon
  <2>3. i - k \in DOMAIN Pending' /\ Pending'[i - k] = Pending[i]
    BY <1>0, <2>1, <2>2, SMTT(30)
  <2> QED  BY <2>1, <2>3, Zenon DEF Sync
<1> QED  BY <1>2, <1>3, <1>4, <1>5, <1>6, Zenon DEF Control
\* A thread pushes what it was about to push.
LEMMA PushKeeps ==
  ASSUME Control, TypeOK', NEW c \in Threads, PushTasks(c)
  PROVE  Control'
<1> DEFINE s == push[c]
           n == Len(Pending)
<1>0. /\ push \in [Threads -> Seq(Task)] /\ waiting \subseteq Threads /\ s \in Seq(Task) /\ s # <<>>
      /\ tasks \in Seq(Task) /\ theQueue \in Seq(Task) /\ Main \in Threads
      /\ theQueue' = theQueue \o s /\ push' = [push EXCEPT ![c] = <<>>]
      /\ waiting' = IF s[Len(s)] = Sync(c) THEN waiting \cup {c} ELSE waiting
      /\ UNCHANGED <<tasks, job, phase, file, wpc>> /\ phase = "up"
  BY Zenon DEF Control, TypeOK, PushTasks, Push, diskVars, workVars, Threads
<1>1. c \notin waiting /\ LegalPush(c, job[c], s)
  BY <1>0, Zenon DEF Control, Waits
<1>2. Pending' = Pending \o s
  BY <1>0, SMTT(30) DEF Pending
<1>3. /\ Pending \in Seq(Task) /\ n \in Nat /\ DOMAIN Pending = 1 .. n
      /\ \A i \in DOMAIN Pending : i \in DOMAIN Pending' /\ Pending'[i] = Pending[i]
      /\ DOMAIN Pending' = 1 .. (n + Len(s)) /\ Len(s) \in Nat
      /\ \A i \in 1 .. Len(s) : n + i \in DOMAIN Pending' /\ Pending'[n + i] = s[i]
      /\ \A i \in DOMAIN Pending' : i \notin DOMAIN Pending => i - n \in 1 .. Len(s) /\ Pending'[i] = s[i - n]
  <2>1. Pending \in Seq(Task)
    BY <1>0, PendingParts, Zenon
  <2> HIDE DEF s
  <2> QED  BY <1>0, <1>2, <2>1, SMTT(30)
<1>4. \/ Len(s) = 1 /\ s[1].op \in {"add", "remove"} /\ s[Len(s)] # Sync(c)
      \/ Len(s) = 1 /\ s[1] = Sync(c) /\ job[c] \in {"check", "verify"}
      \/ /\ Len(s) = 2 /\ s[1].op = "setxref" /\ s[2] = Sync(c) /\ c = Main
         /\ \/ job[c] = "dump" /\ s[1].id = InstanceId
            \/ job[c] = "exit" /\ s[1].id = None
  <2>1. CASE \E t \in Txs, w \in Wrappers : s = <<Add(t, w)>>
    BY <2>1, TaskFields, SMTT(30)
  <2>2. CASE \E t \in Txs : s = <<Remove(t)>>
    BY <2>2, TaskFields, SMTT(30)
  <2>3. CASE job[c] \in {"check", "verify"} /\ s = <<Sync(c)>>
    BY <2>3, SMTT(30)
  <2>4. CASE job[c] = "dump" /\ s = <<SetXref(InstanceId), Sync(c)>>
    <3>1. c = Main
      BY <2>4, Zenon DEF Control, TypeOK, CallerJobs, Threads
    <3> QED  BY <2>4, <3>1, TaskFields, SMTT(30)
  <2>5. CASE job[c] = "exit" /\ s = <<SetXref(None), Sync(c)>>
    <3>1. c = Main
      BY <2>5, Zenon DEF Control, TypeOK, CallerJobs, Threads
    <3> QED  BY <2>5, <3>1, TaskFields, SMTT(30)
  <2> QED  BY <1>0, <1>1, <2>1, <2>2, <2>3, <2>4, <2>5, Zenon DEF LegalPush
<1>5. waiting \subseteq waiting' /\ (c \in waiting' => s[Len(s)] = Sync(c)) /\ waiting' \subseteq waiting \cup {c}
  BY <1>0, <1>1, Zenon
<1>6. \A i \in DOMAIN Pending : Pending[i] # Sync(c)
  BY <1>1, PendingForms, Zenon DEF Control, SyncsAwaited
<1>7. \A d \in Threads : LegalPush(d, job[d], push[d])'
  BY <1>0, Zenon DEF Control, LegalPush, InstanceId
<1>8. Waits'
  BY <1>0, <1>4, <1>5, TaskFields, SMTT(30) DEF Control, Waits
<1>9. MainLast' /\ OneHolder' /\ Down' /\ (wpc' = "pop" => tasks' = <<>>)
  BY <1>0, Zenon DEF Control, MainLast, OneHolder, UniqueHolders, Down
<1>10. \A i \in DOMAIN Pending' : i \notin DOMAIN Pending /\ Pending'[i].op = "sync" =>
         i = n + Len(s) /\ Pending'[i] = Sync(c) /\ c \in waiting'
  <2> SUFFICES ASSUME NEW i \in DOMAIN Pending', i \notin DOMAIN Pending, Pending'[i].op = "sync"
               PROVE  i = n + Len(s) /\ Pending'[i] = Sync(c) /\ c \in waiting'
    OBVIOUS
  <2>1. i - n \in 1 .. Len(s) /\ Pending'[i] = s[i - n]
    BY <1>3, Zenon
  <2> HIDE DEF s, n
  <2>2. s[i - n].op = "sync"
    BY <2>1, Zenon
  <2>3. i - n = Len(s) /\ s[Len(s)] = Sync(c)
    <3>1. CASE Len(s) = 1
      BY <1>4, <2>1, <2>2, <3>1, SMTT(30)
    <3>2. CASE Len(s) = 2
      BY <1>4, <2>1, <2>2, <3>2, SMTT(30)
    <3> QED  BY <1>4, <3>1, <3>2, Zenon
  <2>4. i \in Int /\ n \in Int /\ Len(s) \in Int
    BY <1>3, SMTT(30)
  <2>5. i = n + Len(s)
    BY <2>3, <2>4, SMTT(30)
  <2> QED  BY <1>0, <2>1, <2>3, <2>5, Zenon DEF s
<1>11. SyncsAwaited'
  <2> SUFFICES ASSUME NEW i \in DOMAIN Pending', Pending'[i].op = "sync"
               PROVE  /\ Pending'[i].who \in waiting'
                      /\ \A j \in DOMAIN Pending' : Pending'[j] = Pending'[i] => i = j
    BY Zenon DEF SyncsAwaited
  <2>1. CASE i \in DOMAIN Pending
    <3>1. /\ Pending'[i] = Pending[i] /\ Pending[i].who \in waiting
          /\ \A j \in DOMAIN Pending : Pending[j] = Pending[i] => i = j
      BY <1>3, <2>1, Zenon DEF Control, SyncsAwaited
    <3>2. \A j \in DOMAIN Pending' : j \notin DOMAIN Pending => Pending'[j] # Pending'[i]
      BY <1>6, <1>10, <2>1, <3>1, Zenon
    <3> QED  BY <1>3, <1>5, <3>1, <3>2, Zenon
  <2>2. CASE i \notin DOMAIN Pending
    BY <1>3, <1>6, <1>10, <2>2, TaskFields, SMTT(30)
  <2> QED  BY <2>1, <2>2, Zenon
<1>12. OrdersSupervised'
  <2> SUFFICES ASSUME NEW i \in DOMAIN Pending', Pending'[i].op \in {"clear", "setxref"}
               PROVE  Supervised(i)'
    BY Zenon DEF OrdersSupervised
  <2>1. CASE i \in DOMAIN Pending
    <3>1. Pending'[i] = Pending[i] /\ Supervised(i)
      BY <1>3, <2>1, Zenon DEF Control, OrdersSupervised
    <3>2. i + 1 \in DOMAIN Pending /\ i + 1 \in DOMAIN Pending' /\ Pending'[i + 1] = Pending[i + 1]
      BY <1>3, <3>1, Zenon DEF Supervised
    <3> QED  BY <1>0, <3>1, <3>2, Zenon DEF Supervised, InstanceId
  <2>2. CASE i \notin DOMAIN Pending
    <3>1. i - n \in 1 .. Len(s) /\ Pending'[i] = s[i - n]
      BY <1>3, <2>2, Zenon
    <3>2. /\ i = n + 1 /\ Len(s) = 2 /\ s[1].op = "setxref" /\ s[2] = Sync(c)
          /\ \/ job[c] = "dump" /\ s[1].id = InstanceId
             \/ job[c] = "exit" /\ s[1].id = None
          /\ c = Main /\ Pending'[i] = s[1]
      BY <1>3, <1>4, <3>1, TaskFields, SMTT(30)
    <3>3. i + 1 \in DOMAIN Pending' /\ Pending'[i + 1] = Sync(c)
      BY <1>3, <3>2, SMTT(30)
    <3> QED  BY <1>0, <3>2, <3>3, TaskFields, SMTT(30) DEF Supervised, InstanceId
  <2> QED  BY <2>1, <2>2, Zenon
<1>13. Promises'
  <2> SUFFICES ASSUME wpc' # "gone", NEW d \in waiting'
               PROVE  \E i \in DOMAIN Pending' : Pending'[i] = Sync(d)
    BY Zenon DEF Promises, IsPending, Sync
  <2>1. CASE d \in waiting
    BY <1>0, <1>3, <2>1, Zenon DEF Control, Promises, IsPending
  <2>2. CASE d \notin waiting
    <3>1. d = c /\ s[Len(s)] = Sync(c)
      BY <1>5, <2>2, Zenon
    <3> QED  BY <1>3, <1>4, <3>1, SMTT(30)
  <2> QED  BY <2>1, <2>2, Zenon
<1> QED  BY <1>7, <1>8, <1>9, <1>11, <1>12, <1>13, Zenon DEF Control

\* Nobody waits when smtx can be taken exclusively and Main has not begun to dump.
LEMMA NoWaiters ==
  ASSUME Control, CanLock, job[Main] \notin {"dump", "exit"}
  PROVE  /\ waiting = {}
         /\ \A i \in DOMAIN Pending : Pending[i].op \notin {"sync", "clear", "setxref"}
<1>1. waiting = {}
  <2> SUFFICES ASSUME NEW c \in waiting PROVE FALSE
    OBVIOUS
  <2>1. c \in Threads /\ job[c] \in {"check", "verify", "clear", "dump", "exit"}
    BY Zenon DEF Control, Waits, TypeOK
  <2>2. job[c] \notin {"check", "verify", "clear"}
    BY <2>1, Zenon DEF CanLock, UniqueHolders, SharedHolders
  <2> QED  BY <2>1, <2>2, Zenon DEF Control, TypeOK, CallerJobs, Threads
<1> QED  BY <1>1, Zenon DEF Control, SyncsAwaited, OrdersSupervised, Supervised
\* Clear, with smtx, replaces the queue: nobody's promise was in it.
LEMMA ClearKeeps ==
  ASSUME Control, TypeOK', NEW c \in Threads, ClearMempool(c)
  PROVE  Control'
<1>0. /\ job \in [Threads -> CallerJobs \cup MainJobs] /\ push \in [Threads -> Seq(Task)]
      /\ tasks \in Seq(Task) /\ theQueue \in Seq(Task) /\ theQueue' \in Seq(Task)
      /\ theQueue' = <<Clear, Sync(c)>> /\ UNCHANGED <<tasks, file, phase, wpc>>
      /\ waiting' = waiting \cup {c}
      /\ job' = [job EXCEPT ![c] = "clear"] /\ push' = [push EXCEPT ![c] = <<>>]
      /\ Main \in Threads /\ Main \notin Callers /\ Callers \subseteq Threads
      /\ UniqueHolders = {} /\ CanLock
  BY ThreadsDistinct, Zenon DEF Control, TypeOK, ClearMempool, ReplaceContent, Become, diskVars, workVars,
     Threads, CanClear, CanLock
<1>1. phase = "up" /\ job[Main] \notin {"dump", "exit", "join"}
  BY Zenon DEF ClearMempool, CallsClear, Running, Ready
<1>2. /\ waiting = {}
      /\ \A i \in DOMAIN Pending : Pending[i].op \notin {"sync", "clear", "setxref"}
  BY <1>0, <1>1, NoWaiters, Zenon
<1>3. \A i \in 1 .. Len(tasks) : tasks[i].op \notin {"sync", "clear", "setxref"}
  BY <1>0, <1>2, PendingParts, Zenon
<1>4. /\ Len(tasks) \in Nat /\ DOMAIN Pending' = 1 .. (Len(tasks) + 2)
      /\ \A i \in 1 .. Len(tasks) : Pending'[i] = tasks[i]
      /\ Pending'[Len(tasks) + 1] = Clear /\ Pending'[Len(tasks) + 2] = Sync(c)
  BY <1>0, SMTT(30) DEF Pending
<1>5. Clear.op = "clear" /\ Sync(c).op = "sync" /\ Sync(c).who = c
  BY TaskFields, Zenon
<1>6. \A d \in Threads : LegalPush(d, job[d], push[d])'
  BY <1>0, Zenon DEF Control, LegalPush, InstanceId
<1>7. Waits' /\ Down' /\ (wpc' = "pop" => tasks' = <<>>)
  BY <1>0, <1>1, <1>2, Zenon DEF Waits, Down, Control
<1>8. SyncsAwaited'
  <2>1. \A i \in DOMAIN Pending' : Pending'[i].op = "sync" => i = Len(tasks) + 2
    BY <1>3, <1>4, <1>5, SMTT(30)
  <2> QED  BY <1>0, <1>4, <1>5, <2>1, Zenon DEF SyncsAwaited
<1>9. OrdersSupervised'
  <2>1. \A i \in DOMAIN Pending' : Pending'[i].op \in {"clear", "setxref"} => i = Len(tasks) + 1
    BY <1>3, <1>4, <1>5, SMTT(30)
  <2>2. Supervised(Len(tasks) + 1)'
    <3>1. (Len(tasks) + 1) + 1 = Len(tasks) + 2 /\ Len(tasks) + 2 \in DOMAIN Pending'
      BY <1>4, SMTT(30)
    <3> QED  BY <1>0, <1>4, <1>5, <3>1, SMTT(30) DEF Supervised
  <2> QED  BY <1>0, <2>1, <2>2, Zenon DEF OrdersSupervised
<1>10. MainLast'
  BY <1>0, <1>1, Zenon DEF MainLast
<1>11. OneHolder'
  <2>1. UniqueHolders' \subseteq {c}
    BY <1>0, Zenon DEF UniqueHolders
  <2> QED  BY <2>1, Zenon DEF OneHolder
<1>12. Promises'
  <2>1. Len(tasks) + 2 \in DOMAIN Pending'
    BY <1>4, SMTT(30)
  <2> QED  BY <1>0, <1>2, <1>4, <2>1, Zenon DEF Promises, IsPending, Sync
<1> QED  BY <1>6, <1>7, <1>8, <1>9, <1>10, <1>11, <1>12, Zenon DEF Control

\* ~CAsyncMempoolTxDB drops the queue when nobody is left who could wait.
LEMMA DestroyKeeps ==
  ASSUME Control, TypeOK', Destroy
  PROVE  Control'
<1>0. /\ job \in [Threads -> CallerJobs \cup MainJobs] /\ push \in [Threads -> Seq(Task)]
      /\ tasks \in Seq(Task) /\ theQueue \in Seq(Task)
      /\ theQueue' = <<>> /\ UNCHANGED <<tasks, file, phase, wpc, waiting>>
      /\ job' = [job EXCEPT ![Main] = "join"] /\ push' = [push EXCEPT ![Main] = <<>>]
      /\ Main \in Threads /\ Main \notin Callers /\ Callers \subseteq Threads
      /\ phase = "up" /\ job[Main] = "exit" /\ waiting \subseteq Threads /\ Main \notin waiting
  BY ThreadsDistinct, Zenon DEF Control, TypeOK, Destroy, Ready, Close, Become, diskVars, workVars, Threads
<1>1. \A c \in Threads : job[c] = "idle" \/ (c = Main /\ job[c] = "exit")
  BY <1>0, Zenon DEF Control, MainLast, Threads
<1>2. waiting = {}
  BY <1>0, <1>1, Zenon DEF Control, Waits
<1>3. \A i \in DOMAIN Pending : Pending[i].op \notin {"sync", "clear", "setxref"}
  BY <1>2, Zenon DEF Control, SyncsAwaited, OrdersSupervised, Supervised
<1>4. Pending' = tasks
  BY <1>0, SMTT(30) DEF Pending
<1>5. \A i \in DOMAIN Pending' : Pending'[i].op \notin {"sync", "clear", "setxref"}
  <2>1. DOMAIN tasks = 1 .. Len(tasks)
    BY <1>0, SMTT(30)
  <2>2. \A i \in 1 .. Len(tasks) : tasks[i].op \notin {"sync", "clear", "setxref"}
    BY <1>0, <1>3, PendingParts, Zenon
  <2> QED  BY <1>4, <2>1, <2>2, Zenon
<1>6. \A d \in Threads : LegalPush(d, job[d], push[d])'
  BY <1>0, Zenon DEF Control, LegalPush, InstanceId
<1>7. OneHolder'
  <2>1. UniqueHolders' = {}
    BY <1>0, <1>1, Zenon DEF UniqueHolders
  <2> QED  BY <2>1, Zenon DEF OneHolder
<1>8. Waits' /\ Down' /\ (wpc' = "pop" => tasks' = <<>>) /\ SyncsAwaited' /\ OrdersSupervised' /\ Promises'
  BY <1>0, <1>2, <1>5, Zenon DEF Waits, Down, Control, SyncsAwaited, OrdersSupervised, Promises
<1>9. MainLast'
  BY <1>0, Zenon DEF MainLast, Control
<1> QED  BY <1>6, <1>7, <1>8, <1>9, Zenon DEF Control

\* Nothing is left of a stopped process that Control could say anything of.
LEMMA StoppedKeeps ==
  ASSUME Control, TypeOK', Stopped
  PROVE  Control'
<1>1. /\ Pending' = <<>> /\ waiting' = {} /\ tasks' = <<>> /\ theQueue' = <<>> /\ wpc' = "pop"
      /\ \A c \in Threads : job'[c] = "idle" /\ push'[c] = <<>>
      /\ Callers \subseteq Threads /\ Main \in Threads
  BY SMTT(30) DEF Stopped, Pending, Threads
<1>2. DOMAIN Pending' = {} /\ UniqueHolders' = {}
  BY <1>1, SMTT(30) DEF UniqueHolders
<1>3. \A d \in Threads : LegalPush(d, job[d], push[d])'
  BY <1>1, Zenon DEF LegalPush
<1> QED  BY <1>1, <1>2, <1>3, Zenon DEF Control, Waits, SyncsAwaited, OrdersSupervised, MainLast, OneHolder, Down, Promises

\* The steps of the worker.
LEMMA WorkerKeeps ==
  ASSUME Control, TypeOK', WorkerStep \/ CommitThrows
  PROVE  Control'
<1> USE DEF queueVars, diskVars, poolVars, threadVars, workVars
<1>0. tasks \in Seq(Task) /\ theQueue \in Seq(Task) /\ (wpc = "pop" => tasks = <<>>) /\ wpc \in {"pop", "run", "gone"}
  BY Zenon DEF Control, TypeOK
<1>1. CASE WorkPop
  <2>1. Pending' = Pending
    BY <1>0, <1>1, SMTT(30) DEF WorkPop, PopAll, Pending
  <2> QED  BY <1>1, <2>1, QuietKeeps, Zenon DEF WorkPop
<1>2. CASE WorkSleeps \/ WorkEnds \/ Commit \/ ResetTransaction \/ WorkNext
  <2>1. /\ UNCHANGED <<tasks, theQueue, job, push, waiting, file, phase>> /\ phase = "up"
        /\ wpc' = "pop" => tasks' = <<>>
        /\ wpc = "gone" => wpc' = "gone"
    BY <1>0, <1>2, Zenon DEF WorkSleeps, PopSleeps, WorkEnds, Commit, MustCommit, ResetTransaction, WorkNext
  <2>2. Pending' = Pending
    BY <2>1, Zenon DEF Pending
  <2> QED  BY <2>1, <2>2, QuietKeeps, Zenon
<1>3. CASE CommitThrows
  <2>1. /\ tasks' = <<>> /\ theQueue' = theQueue /\ wpc' = "gone" /\ phase = "up"
        /\ UNCHANGED <<job, push, file, phase, waiting>>
    BY <1>3, Zenon DEF CommitThrows, MustCommit, Close
  <2>2. /\ Len(tasks) \in 0 .. Len(Pending) /\ Len(Pending') = Len(Pending) - Len(tasks)
        /\ \A i \in 1 .. (Len(Pending) - Len(tasks)) : Pending'[i] = Pending[i + Len(tasks)]
    BY <1>0, <2>1, SMTT(30) DEF Pending
  <2> QED  BY <2>1, <2>2, DropKeeps, ZenonT(20)
<1>4. CASE WorkTask
  <2> DEFINE a == Head(tasks)
  <2>1. /\ tasks # <<>> /\ tasks' = Tail(tasks) /\ theQueue' = theQueue /\ phase = "up" /\ wpc = "run"
        /\ UNCHANGED <<job, push, file, phase, wpc>>
        /\ RunAdd(a) \/ RunRemove(a) \/ RunSync(a) \/ RunSetXref(a) \/ RunClear(a)
    BY <1>4, Zenon DEF WorkTask
  <2>2. /\ 1 \in 0 .. Len(Pending) /\ Len(Pending') = Len(Pending) - 1
        /\ \A i \in 1 .. (Len(Pending) - 1) : Pending'[i] = Pending[i + 1]
        /\ a = Pending[1] /\ a \in Task
    BY <1>0, <2>1, SMTT(30) DEF Pending
  <2>3. waiting' = IF a.op = "sync" THEN waiting \ {a.who} ELSE waiting
    BY <2>1, Zenon DEF RunAdd, RunRemove, RunSync, RunSetXref, RunClear
  <2>4. waiting' \subseteq waiting /\ \A c \in waiting : c \notin waiting' => a = Sync(c)
    BY <2>2, <2>3, TaskForms, Zenon
  <2>5. \A c \in waiting' : a # Sync(c)
    BY <2>3, TaskFields, SMTT(30)
  <2> HIDE DEF a
  <2>6. /\ \A c \in waiting : c \notin waiting' => \E i \in 1 .. 1 : Pending[i] = Sync(c)
        /\ \A c \in waiting', i \in 1 .. 1 : Pending[i] # Sync(c)
    BY <2>2, <2>4, <2>5, SMTT(30)
  <2> QED  BY <2>1, <2>2, <2>4, <2>6, DropKeeps, Zenon
<1> QED  BY <1>1, <1>2, <1>3, <1>4, Zenon DEF WorkerStep
\* A thread that is idle waits for nothing.
LEMMA IdleReady ==
  ASSUME Control, NEW c \in Threads, job[c] \notin {"check", "verify", "clear", "dump", "exit"}
  PROVE  c \notin waiting
BY Zenon DEF Control, Waits

\* The steps of a thread in its job.
LEMMA ThreadKeeps ==
  ASSUME Control, TypeOK', NEW c \in Threads, ThreadStep(c) \/ ClearMempool(c) \/ ClearAborts(c)
  PROVE  Control'
<1> USE DEF queueVars, diskVars, poolVars, threadVars, workVars
<1>0. /\ job \in [Threads -> CallerJobs \cup MainJobs] /\ (c \in Callers \/ c = Main)
      /\ job[Main] \in MainJobs /\ Main \notin Callers
  BY ThreadsDistinct, Zenon DEF Control, TypeOK, Threads
<1>1. CASE PushTasks(c)
  BY <1>1, PushKeeps, Zenon
<1>2. CASE PushWaits(c)
  <2>1. /\ UNCHANGED <<tasks, theQueue, job, push, waiting, file, phase, wpc>> /\ phase = "up"
    BY <1>2, Zenon DEF PushWaits, PushSleeps
  <2>2. Pending' = Pending /\ (wpc' = "pop" => tasks' = <<>>)
    BY <2>1, Zenon DEF Pending, Control
  <2> QED  BY <2>1, <2>2, QuietKeeps, Zenon
<1>3. CASE PushAborts(c) \/ ClearAborts(c)
  BY <1>3, StoppedKeeps, Zenon DEF PushAborts, ClearAborts
<1>4. CASE ClearMempool(c)
  BY <1>4, ClearKeeps, Zenon
<1>5. CASE SaveNext(c)
  <2>1. PICK t \in todo[c] :
          Become(c, "save", todo[c] \ {t}, IF entry[t] \in owned THEN <<Add(t, entry[t])>> ELSE <<>>)
    BY <1>5, Zenon DEF SaveNext
  <2>2. t \in Txs /\ owned \subseteq Wrappers
    BY Zenon DEF Control, TypeOK
  <2>3. LegalPush(c, "save", IF entry[t] \in owned THEN <<Add(t, entry[t])>> ELSE <<>>)
    BY <2>2, Zenon DEF LegalPush
  <2>4. /\ c \notin waiting /\ phase' = "up" /\ job[c] = "save"
        /\ UNCHANGED <<tasks, theQueue, waiting, wpc, file>>
    BY <1>5, Zenon DEF SaveNext, Ready
  <2> QED  BY <2>1, <2>3, <2>4, BecomeKeeps, Zenon
<1>6. CASE RemoveUnchecked(c)
  <2>1. PICK t \in todo[c] :
          Become(c, "remove", todo[c] \ {t}, IF RemoveFromDisk(t) THEN <<Remove(t)>> ELSE <<>>)
    BY <1>6, Zenon DEF RemoveUnchecked
  <2>2. t \in Txs
    BY Zenon DEF Control, TypeOK
  <2>3. LegalPush(c, "remove", IF RemoveFromDisk(t) THEN <<Remove(t)>> ELSE <<>>)
    BY <2>2, Zenon DEF LegalPush
  <2>4. /\ c \notin waiting /\ phase' = "up" /\ job[c] = "remove" /\ c \in UniqueHolders
        /\ UNCHANGED <<tasks, theQueue, waiting, wpc, file>>
    BY <1>6, Zenon DEF RemoveUnchecked, Ready, UniqueHolders
  <2> QED  BY <2>1, <2>3, <2>4, BecomeKeeps, Zenon
<1>7. CASE JobEnds(c)
  <2>1. /\ Become(c, "idle", {}, <<>>) /\ c \notin waiting /\ phase' = "up" /\ job[c] # "idle"
        /\ UNCHANGED <<tasks, theQueue, waiting, wpc, file>>
    BY <1>7, Zenon DEF JobEnds, Ready
  <2>2. LegalPush(c, "idle", <<>>)
    BY Zenon DEF LegalPush
  <2> QED  BY <2>1, <2>2, BecomeKeeps, Zenon
<1> QED  BY <1>1, <1>2, <1>3, <1>4, <1>5, <1>6, <1>7, Zenon DEF ThreadStep

\* The operations a caller starts.
LEMMA CallerKeeps ==
  ASSUME Control, TypeOK', NEW c \in Callers, CallerStart(c)
  PROVE  Control'
<1> USE DEF queueVars, diskVars, poolVars, workVars
<1>0. c \in Threads /\ c # Main
  BY ThreadsDistinct, Zenon DEF Threads
<1>1. /\ phase' = "up" /\ UNCHANGED <<tasks, theQueue, waiting, wpc, file>>
      /\ Running \/ job[c] # "idle"
  BY Zenon DEF CallerStart, SaveTxsToDisk, RemoveStaged, CheckMempoolTxDB, PrepareResubmit, ResubmitEntries,
     Running, Ready
<1>2. c \notin waiting
  BY <1>0, IdleReady, Zenon DEF CallerStart, SaveTxsToDisk, RemoveStaged, CheckMempoolTxDB, PrepareResubmit,
     ResubmitEntries, Ready
<1>3. LegalPush(c, "check", <<Sync(c)>>) /\ \A j : LegalPush(c, j, <<>>)
  BY Zenon DEF LegalPush
<1>4. \E j, txs, s : /\ Become(c, j, txs, s) /\ LegalPush(c, j, s)
                     /\ j \notin {"remove", "clear"} \/ UniqueHolders = {}
  <2>1. CASE SaveTxsToDisk(c)
    BY <1>3, <2>1, SMTT(30) DEF SaveTxsToDisk
  <2>2. CASE RemoveStaged(c)
    BY <1>3, <2>2, Zenon DEF RemoveStaged, CanLock
  <2>3. CASE CheckMempoolTxDB(c)
    BY <1>3, <2>3, SMTT(30) DEF CheckMempoolTxDB
  <2>4. CASE PrepareResubmit(c)
    BY <1>3, <2>4, SMTT(30) DEF PrepareResubmit
  <2>5. CASE ResubmitEntries(c)
    BY <1>3, <2>5, Zenon DEF ResubmitEntries, CanLock
  <2> QED  BY <2>1, <2>2, <2>3, <2>4, <2>5, Zenon DEF CallerStart
<1> QED  BY <1>0, <1>1, <1>2, <1>4, BecomeKeeps, Zenon

\* The steps of Main, AddUnchecked and a crash.
LEMMA MainKeeps ==
  ASSUME Control, TypeOK', MainStep \/ Crash \/ \E t \in Txs : AddUnchecked(t)
  PROVE  Control'
<1> USE DEF queueVars, diskVars, poolVars, threadVars, workVars
<1>0. Main \in Threads /\ Main \notin Callers
  BY ThreadsDistinct, Zenon DEF Threads
<1>1. CASE \E t \in Txs : AddUnchecked(t)
  <2>1. /\ UNCHANGED <<tasks, theQueue, job, push, waiting, file, phase, wpc>> /\ phase = "up"
    BY <1>1, Zenon DEF AddUnchecked, Running
  <2>2. Pending' = Pending /\ (wpc' = "pop" => tasks' = <<>>)
    BY <2>1, Zenon DEF Pending, Control
  <2> QED  BY <2>1, <2>2, QuietKeeps, Zenon
<1>2. CASE Join \/ Crash
  BY <1>2, StoppedKeeps, Zenon DEF Join, Crash
<1>3. CASE Destroy
  BY <1>3, DestroyKeeps, Zenon
<1>4. CASE InitMempoolTxDB \/ LoadFails \/ LoadNext \/ LoadCancelled \/ LoadVerifies \/ LoadEnds
        \/ DumpMempool \/ WriteDump \/ DumpFails
  <2>1. phase' = "up" /\ UNCHANGED <<tasks, theQueue, waiting, wpc>>
    BY <1>4, Zenon DEF InitMempoolTxDB, LoadFails, LoadNext, LoadCancelled, LoadVerifies, LoadEnds,
       DumpMempool, WriteDump, DumpFails, Ready
  <2>2. Main \notin waiting
    BY <1>0, <1>4, Zenon DEF InitMempoolTxDB, LoadFails, LoadNext, LoadCancelled, LoadVerifies, LoadEnds,
       DumpMempool, WriteDump, DumpFails, Ready, Control, Down
  <2>3. /\ LegalPush(Main, "verify", <<Sync(Main)>>)
        /\ LegalPush(Main, "dump", <<SetXref(InstanceId), Sync(Main)>>)
        /\ LegalPush(Main, "exit", <<SetXref(None), Sync(Main)>>)
        /\ \A j : LegalPush(Main, j, <<>>)
        /\ \A t \in Txs : LegalPush(Main, "load", <<Remove(t)>>)
    BY Zenon DEF LegalPush
  <2>4. ASSUME NEW j, NEW txs, NEW s, Become(Main, j, txs, s), LegalPush(Main, j, s),
               file' = file \/ s = <<>>, j \notin {"remove", "clear"},
               j \notin {"dump", "exit", "join"} \/ \A d \in Callers : job[d] = "idle"
        PROVE  Control'
    BY <1>0, <2>1, <2>2, <2>4, BecomeKeeps, Zenon
  <2>5. CASE InitMempoolTxDB
    BY <2>3, <2>4, <2>5, Zenon DEF InitMempoolTxDB
  <2>6. CASE LoadFails
    BY <2>3, <2>4, <2>6, Zenon DEF LoadFails
  <2>7. CASE LoadNext
    <3>1. PICK t \in todo[Main] : LoadAccepted(t) \/ LoadRejected(t)
      BY <2>7, Zenon DEF LoadNext
    <3>2. t \in Txs /\ file' = file
      BY <1>0, <2>7, Zenon DEF Control, TypeOK, LoadNext
    <3>3. CASE LoadAccepted(t)
      BY <2>3, <2>4, <3>2, <3>3, Zenon DEF LoadAccepted
    <3>4. CASE LoadRejected(t)
      BY <2>3, <2>4, <3>2, <3>4, SMTT(30) DEF LoadRejected
    <3> QED  BY <3>1, <3>3, <3>4, Zenon
  <2>8. CASE LoadCancelled
    BY <2>3, <2>4, <2>8, Zenon DEF LoadCancelled
  <2>9. CASE LoadVerifies
    BY <2>3, <2>4, <2>9, Zenon DEF LoadVerifies
  <2>10. CASE LoadEnds
    BY <2>3, <2>4, <2>10, Zenon DEF LoadEnds
  <2>11. CASE DumpMempool
    BY <2>3, <2>4, <2>11, Zenon DEF DumpMempool
  <2>12. CASE WriteDump
    <3>1. \A d \in Callers : job[d] = "idle"
      BY <2>12, Zenon DEF WriteDump, Control, MainLast
    <3> QED  BY <2>3, <2>4, <2>12, <3>1, Zenon DEF WriteDump
  <2>13. CASE DumpFails
    BY <2>3, <2>4, <2>13, Zenon DEF DumpFails
  <2> QED  BY <1>4, <2>5, <2>6, <2>7, <2>8, <2>9, <2>10, <2>11, <2>12, <2>13, Zenon
<1> QED  BY <1>1, <1>2, <1>3, <1>4, Zenon DEF MainStep
-----------------------------------------------------------------------------
\* Control holds at the start and is kept by every step.
LEMMA ControlInit == TxDBInit => Control
<1> SUFFICES ASSUME TxDBInit PROVE Control
  OBVIOUS
<1>1. /\ tasks = <<>> /\ theQueue = <<>> /\ waiting = {} /\ wpc = "pop" /\ phase = "down"
      /\ \A c \in Threads : job[c] = "idle" /\ push[c] = <<>>
      /\ Callers \subseteq Threads /\ Main \in Threads
  BY Zenon DEF TxDBInit, EmptyQueue, Threads
<1>2. Pending = <<>> /\ DOMAIN Pending = {}
  BY <1>1, SMTT(30) DEF Pending
<1>3. TypeOK
  <2>1. /\ job \in [Threads -> CallerJobs \cup MainJobs]
        /\ \A c \in Callers : job[c] \in CallerJobs
        /\ job[Main] \in MainJobs
    BY <1>1, Zenon DEF TxDBInit, CallerJobs, MainJobs
  <2>2. /\ push \in [Threads -> Seq(Task)] /\ todo \in [Threads -> SUBSET Txs]
        /\ tasks \in Seq(Task) /\ theQueue \in Seq(Task)
    BY <1>1, SMTT(30) DEF TxDBInit
  <2>3. entry \in [Txs -> Wrappers \cup {None}] /\ oldMapTx \in [Txs -> Wrappers \cup {None}]
    BY Zenon DEF TxDBInit, NoEntries
  <2> QED  BY <2>1, <2>2, <2>3, Zenon DEF TxDBInit, TypeOK
<1>4. \A c \in Threads : LegalPush(c, job[c], push[c])
  BY <1>1, Zenon DEF LegalPush
<1>5. UniqueHolders = {}
  BY <1>1, Zenon DEF UniqueHolders
<1> QED  BY <1>1, <1>2, <1>3, <1>4, <1>5, Zenon DEF Control, Waits, SyncsAwaited, OrdersSupervised, MainLast,
         OneHolder, Down, Promises

LEMMA ControlNext == Control /\ [TxDBNext]_txdbVars => Control'
<1> SUFFICES ASSUME Control, [TxDBNext]_txdbVars PROVE Control'
  OBVIOUS
<1>0. TypeOK
  BY Zenon DEF Control
<1>1. CASE WorkerStep \/ CommitThrows
  BY <1>0, <1>1, WorkerTypes, WorkerKeeps, Zenon
<1>2. CASE \E c \in Threads : ThreadStep(c) \/ ClearMempool(c) \/ ClearAborts(c)
  BY <1>0, <1>2, ThreadTypes, ThreadKeeps, Zenon
<1>3. CASE \E c \in Callers : CallerStart(c)
  BY <1>0, <1>3, CallerTypes, CallerKeeps, Zenon
<1>4. CASE MainStep \/ Crash \/ \E t \in Txs : AddUnchecked(t)
  BY <1>0, <1>4, MainTypes, MainKeeps, Zenon
<1>5. CASE UNCHANGED txdbVars
  <2>1. /\ UNCHANGED <<tasks, theQueue, job, push, waiting, file, phase, wpc, todo, entry, oldMapTx, owned>>
        /\ UNCHANGED <<db, adds, removes, resetting>>
    BY <1>5, Zenon DEF txdbVars, queueVars, diskVars, poolVars, threadVars, workVars
  <2>2. TypeOK' /\ Pending' = Pending
    BY <1>0, <2>1, Zenon DEF TypeOK, Pending
  <2>3. CASE phase = "up"
    <3>1. wpc' = "pop" => tasks' = <<>>
      BY <2>1, Zenon DEF Control
    <3> QED  BY <2>1, <2>2, <2>3, <3>1, QuietKeeps, Zenon
  <2>4. CASE phase = "down"
    <3>1. /\ \A c \in Threads : LegalPush(c, job[c], push[c])'
          /\ Waits' /\ MainLast' /\ OneHolder' /\ Down' /\ SyncsAwaited'
      BY <2>1, <2>2, SMTT(30) DEF Control, LegalPush, InstanceId, Waits, MainLast, OneHolder, UniqueHolders, Down,
         SyncsAwaited
    <3>2. OrdersSupervised'
      BY <2>1, <2>2, Zenon DEF Control, OrdersSupervised, Supervised, InstanceId
    <3> QED  BY <2>1, <2>2, <3>1, <3>2, Zenon DEF Control, Promises, IsPending
  <2> QED  BY <1>0, <2>3, <2>4, Zenon DEF TypeOK
<1> QED  BY <1>1, <1>2, <1>3, <1>4, <1>5, Zenon DEF TxDBNext

\* Control is an invariant of the database and its users.
THEOREM ControlHolds == TxDBSpec => []Control
BY ControlInit, ControlNext, PTL DEF TxDBSpec

\* A thread that waits for the worker's promise has its task in the queue or in
\* the worker's hands, unless the worker is gone (PromiseKept): for any number
\* of callers and transactions, and for any order of their operations with
\* Clear, which replaces the queue, with a failing commit and with shutdown.
THEOREM PromisesKept == TxDBSpec => []PromiseKept
<1>1. Control => PromiseKept
  <2> SUFFICES ASSUME Control, wpc # "gone", NEW c \in waiting
               PROVE  \E i \in DOMAIN (theQueue \o tasks) : (theQueue \o tasks)[i] = Sync(c)
    BY Zenon DEF PromiseKept
  <2>1. PICK i \in DOMAIN Pending : Pending[i] = Sync(c)
    BY Zenon DEF Control, Promises, IsPending
  <2>2. tasks \in Seq(Task) /\ theQueue \in Seq(Task)
    BY Zenon DEF Control, TypeOK
  <2>3. CASE i \in 1 .. Len(tasks)
    <3>1. tasks[i] = Sync(c)
      BY <2>1, <2>2, <2>3, PendingParts, Zenon
    <3>2. /\ i + Len(theQueue) \in DOMAIN (theQueue \o tasks)
          /\ (theQueue \o tasks)[i + Len(theQueue)] = tasks[i]
      BY <2>2, <2>3, SMTT(30)
    <3> QED  BY <3>1, <3>2, Zenon
  <2>4. CASE i \notin 1 .. Len(tasks)
    <3>1. /\ i - Len(tasks) \in 1 .. Len(theQueue)
          /\ theQueue[i - Len(tasks)] = Sync(c)
      BY <2>1, <2>2, <2>4, PendingParts, SMTT(30)
    <3>2. \A n \in 1 .. Len(theQueue) : /\ n \in DOMAIN (theQueue \o tasks)
                                       /\ (theQueue \o tasks)[n] = theQueue[n]
      BY <2>2, SMTT(30)
    <3> QED  BY <3>1, <3>2, Zenon
  <2> QED  BY <2>3, <2>4, Zenon
<1> QED  BY <1>1, ControlHolds, PTL
=============================================================================
