-------------------------- MODULE MempoolTxDBProofs --------------------------
(***************************************************************************)
(* The data of MempoolTxDB, for any number of transactions, wrappers and   *)
(* callers: no transaction of the mempool is lost between its wrapper, the *)
(* tasks, the worker's batch and the database, and the key in the database *)
(* vouches for mempool.dat.  Exempt are the transactions in raced.  The    *)
(* proofs rest on the invariant Control of the threads.                    *)
(***************************************************************************)
EXTENDS MempoolTxDBControl

\* The wrapper of a transaction's entry, in mapTx or set aside.
Ref(t) == IF entry[t] # None THEN entry[t] ELSE oldMapTx[t]

\* On disk, and nothing the worker has to do would erase it.
Safe(t) == t \in db /\ t \notin removes /\ ~IsPending(Remove(t))

\* What must hold of a transaction t whose wrapper is w.  Once w has let go of
\* t, or is about to, t is safe; an add of w is an add of t that no erase
\* follows; and nobody is about to erase t or to add another one through w.
Kept(t, w) ==
  /\ w \notin owned \/ w \in resetting => Safe(t)
  /\ \A a \in adds : a.wrapper = w => a.tx = t /\ ~IsPending(Remove(t))
  /\ \A i \in DOMAIN Pending : Pending[i].op = "add" /\ Pending[i].wrapper = w =>
       /\ Pending[i].tx = t
       /\ \A j \in DOMAIN Pending : Pending[j] = Remove(t) => j < i
  /\ \A c \in Threads : /\ push[c] # <<Remove(t)>>
                        /\ \A u \in Txs : push[c] = <<Add(u, w)>> => u = t

EntriesKept == \A t \in Txs \ raced, w \in Wrappers : Ref(t) = w => Kept(t, w)

\* An entry is in mapTx or set aside, and no two share a wrapper.
EntriesApart ==
  /\ \A t \in Txs : entry[t] = None \/ oldMapTx[t] = None
  /\ \A t, u \in Txs : Ref(t) # None /\ Ref(t) = Ref(u) => t = u

\* A transaction on disk that LoadMempool has still to deal with.
Loading(t) == job[Main] = "load" /\ t \in todo[Main] /\ t \in file.onDisk

LoadSafe ==
  /\ job[Main] = "load" => IF file = None THEN todo[Main] = {}
                           ELSE todo[Main] \subseteq file.onDisk \cup file.inMem
  /\ \A t \in Txs \ raced : Loading(t) =>
       /\ Ref(t) = None
       /\ t \notin removes /\ ~IsPending(Remove(t))
       /\ \A c \in Threads : push[c] # <<Remove(t)>>

\* Entries are set aside for the time of a reorganisation.
ReorgHolds == \A t \in Txs : oldMapTx[t] # None => \E c \in Callers : job[c] = "reorg"

\* While Clear waits for the worker there is no entry, but of raced.
ClearEmpties == \A c \in Threads : job[c] = "clear" => \A t \in Txs \ raced : Ref(t) = None

StagedThere == \A c \in Threads : job[c] = "remove" => \A t \in todo[c] : entry[t] # None

BatchApart == \A a \in adds : a.tx \notin removes

NothingDown ==
  phase = "down" => /\ \A t \in Txs : Ref(t) = None
                    /\ adds = {} /\ removes = {} /\ resetting = {}

Data ==
  /\ EntriesKept /\ EntriesApart /\ LoadSafe /\ ReorgHolds /\ ClearEmpties /\ StagedThere
  /\ BatchApart /\ NothingDown
  /\ KeyVouchesForFile
-----------------------------------------------------------------------------
\* Every task pending after a step was pending before it, k places further on.
Shift(k) == \A i \in DOMAIN Pending' : i + k \in DOMAIN Pending /\ Pending'[i] = Pending[i + k]

\* What a wrapper no task refers to is free of.
LEMMA NoTask ==
  ASSUME TypeOK, NEW w, w \notin TaskWrappers
  PROVE  /\ w \notin resetting
         /\ \A a \in adds : a.wrapper # w
         /\ \A i \in DOMAIN Pending : Pending[i].op = "add" => Pending[i].wrapper # w
         /\ \A c \in Threads, u \in Txs : push[c] # <<Add(u, w)>>
<1>0. tasks \in Seq(Task) /\ theQueue \in Seq(Task)
  BY Zenon DEF TypeOK
<1>1. w \notin resetting /\ \A a \in adds : a.wrapper # w
  <2>1. w \notin resetting
    BY Zenon DEF TaskWrappers
  <2>2. {a.wrapper : a \in adds} \subseteq TaskWrappers
    BY Zenon DEF TaskWrappers
  <2> QED  BY <2>1, <2>2, Zenon
<1>2. \A i \in DOMAIN theQueue : theQueue[i].op = "add" => theQueue[i].wrapper # w
  BY Zenon DEF TaskWrappers
<1>3. \A i \in DOMAIN tasks : tasks[i].op = "add" => tasks[i].wrapper # w
  BY Zenon DEF TaskWrappers
<1>4. \A c \in Threads : \A i \in DOMAIN push[c] : push[c][i].op = "add" => push[c][i].wrapper # w
  <2> DEFINE named(s) == {s[i].wrapper : i \in {j \in DOMAIN s : s[j].op = "add"}}
  <2>1. w \notin UNION {named(push[c]) : c \in Threads}
    BY Zenon DEF TaskWrappers
  <2>2. \A c \in Threads : w \notin named(push[c])
    <3> HIDE DEF named
    <3> QED  BY <2>1, Zenon
  <2> QED  BY <2>2, Zenon
<1>5. \A c \in Threads, u \in Txs : push[c] # <<Add(u, w)>>
  <2> SUFFICES ASSUME NEW c \in Threads, NEW u \in Txs, push[c] = <<Add(u, w)>> PROVE FALSE
    OBVIOUS
  <2>1. 1 \in DOMAIN push[c] /\ push[c][1] = Add(u, w)
    OBVIOUS
  <2> QED  BY <1>4, <2>1, TaskFields, SMTT(30)
<1>6. \A i \in DOMAIN Pending : Pending[i].op = "add" => Pending[i].wrapper # w
  <2> SUFFICES ASSUME NEW i \in DOMAIN Pending, Pending[i].op = "add" PROVE Pending[i].wrapper # w
    OBVIOUS
  <2>1. CASE i \in 1 .. Len(tasks)
    <3>1. i \in DOMAIN tasks /\ Pending[i] = tasks[i]
      BY <1>0, <2>1, PendingParts, SMTT(30)
    <3> QED  BY <1>3, <3>1, Zenon
  <2>2. CASE i \notin 1 .. Len(tasks)
    <3>1. i - Len(tasks) \in 1 .. Len(theQueue) /\ Pending[i] = theQueue[i - Len(tasks)]
      BY <1>0, <2>2, PendingParts, SMTT(30)
    <3>2. i - Len(tasks) \in DOMAIN theQueue
      BY <1>0, <3>1, SMTT(30)
    <3> QED  BY <1>2, <3>1, <3>2, Zenon
  <2> QED  BY <2>1, <2>2, Zenon
<1> QED  BY <1>1, <1>5, <1>6, Zenon

\* An entry refers to a wrapper.
LEMMA RefType ==
  ASSUME TypeOK
  PROVE  \A t \in Txs : Ref(t) \in Wrappers \cup {None}
BY Zenon DEF TypeOK, Ref

\* What is kept through a step: the erases pending only get fewer, the batch and
\* the database do t no harm, and what threads are about to push neither.
LEMMA KeptOn ==
  ASSUME TypeOK', NEW t \in Txs, NEW w \in Wrappers, Kept(t, w),
         NEW k \in Nat, Shift(k),
         w \notin owned' \/ w \in resetting' => t \in db' /\ t \notin removes' /\ ~IsPending(Remove(t)),
         \A a \in adds' : a.wrapper = w => a.tx = t /\ ~IsPending(Remove(t))',
         \A c \in Threads : /\ push'[c] # <<Remove(t)>>
                            /\ \A u \in Txs : push'[c] = <<Add(u, w)>> => u = t
  PROVE  Kept(t, w)'
<1>1. IsPending(Remove(t))' => IsPending(Remove(t))
  BY Zenon DEF IsPending, Shift, Remove
<1>2. (w \notin owned \/ w \in resetting => Safe(t))'
  BY <1>1, Zenon DEF Safe
<1>3. DOMAIN Pending' \subseteq Int
  BY SMTT(30) DEF TypeOK, Pending
<1>4. \A i \in DOMAIN Pending' : Pending'[i].op = "add" /\ Pending'[i].wrapper = w =>
       /\ Pending'[i].tx = t
       /\ \A j \in DOMAIN Pending' : Pending'[j] = Remove(t) => j < i
  <2> SUFFICES ASSUME NEW i \in DOMAIN Pending', Pending'[i].op = "add", Pending'[i].wrapper = w
               PROVE  /\ Pending'[i].tx = t
                      /\ \A j \in DOMAIN Pending' : Pending'[j] = Remove(t) => j < i
    OBVIOUS
  <2>1. /\ i + k \in DOMAIN Pending /\ Pending'[i] = Pending[i + k] /\ Pending[i + k].tx = t
        /\ \A j \in DOMAIN Pending : Pending[j] = Remove(t) => j < i + k
    BY Zenon DEF Shift, Kept
  <2>2. \A j \in DOMAIN Pending' : Pending'[j] = Remove(t) => j + k < i + k
    BY <2>1, Zenon DEF Shift
  <2> QED  BY <1>3, <2>1, <2>2, SMTT(30)
<1>5. Remove(t)' = Remove(t) /\ \A u \in Txs : Add(u, w)' = Add(u, w)
  BY Zenon DEF Remove, Add
<1> QED  BY <1>2, <1>4, <1>5, Zenon DEF Kept

\* A step of the worker that takes no task leaves the data as it is.
LEMMA QuietData ==
  ASSUME Data, Pending' = Pending,
         UNCHANGED <<diskVars, poolVars, job, todo, push, phase, adds, removes, resetting>>
  PROVE  Data'
<1>1. UNCHANGED <<db, xref, file, raced, entry, oldMapTx, owned>> /\ \A t : Ref(t)' = Ref(t)
  BY Zenon DEF diskVars, poolVars, Ref
<1>2. \A t : IsPending(Remove(t))' <=> IsPending(Remove(t))
  BY Zenon DEF IsPending, Remove
<1>3. EntriesKept'
  <2> SUFFICES ASSUME NEW t \in Txs \ raced', NEW w \in Wrappers, Ref(t)' = w PROVE Kept(t, w)'
    BY Zenon DEF EntriesKept
  <2>1. Kept(t, w)
    BY <1>1, Zenon DEF Data, EntriesKept
  <2>2. Remove(t)' = Remove(t) /\ \A u \in Txs : Add(u, w)' = Add(u, w)
    BY Zenon DEF Remove, Add
  <2> QED  BY <1>1, <1>2, <2>1, <2>2, Zenon DEF Kept, Safe
<1>4. EntriesApart' /\ ReorgHolds' /\ ClearEmpties' /\ StagedThere' /\ BatchApart' /\ NothingDown'
  BY <1>1, Zenon DEF Data, EntriesApart, ReorgHolds, ClearEmpties, StagedThere, BatchApart, NothingDown
<1>5. LoadSafe'
  <2>1. \A t : Loading(t)' <=> Loading(t)
    BY <1>1, Zenon DEF Loading
  <2>2. \A t : Remove(t)' = Remove(t)
    BY Zenon DEF Remove
  <2> QED  BY <1>1, <1>2, <2>1, <2>2, Zenon DEF Data, LoadSafe
<1>6. KeyVouchesForFile'
  BY <1>1, Zenon DEF Data, KeyVouchesForFile, FileMatches
<1> QED  BY <1>3, <1>4, <1>5, <1>6, Zenon DEF Data

\* Nothing was taken and nothing pushed.
LEMMA ShiftSame ==
  ASSUME TypeOK, UNCHANGED <<tasks, theQueue>>
  PROVE  Shift(0)
<1>1. Pending' = Pending
  BY Zenon DEF Pending
<1>2. \A i \in DOMAIN Pending : i + 0 = i
  BY PendingParts, SMTT(30) DEF TypeOK
<1> QED  BY <1>1, <1>2, Zenon DEF Shift

\* A thread goes on to another job or round, and changes nothing else.  What it
\* is about to push must be in order: an erase is of a transaction of raced or
\* without an entry, an add is of the entry's own wrapper.
LEMMA BecomeData ==
  ASSUME Control, TypeOK', Data, NEW c \in Threads, NEW j, NEW txs, NEW s, Become(c, j, txs, s),
         Shift(0), UNCHANGED <<diskVars, poolVars, adds, removes, resetting>>, phase' = "up",
         \A u \in Txs \ raced : s = <<Remove(u)>> => Ref(u) = None /\ ~Loading(u)',
         \A u, t \in Txs, w \in Wrappers : s = <<Add(u, w)>> /\ Ref(t) = w => u = t,
         c = Main /\ j = "load" => job[Main] = "load" /\ txs \subseteq todo[Main],
         j # "clear", j = "remove" => \A t \in txs : entry[t] # None,
         job[c] # "reorg"
  PROVE  Data'
<1>1. /\ UNCHANGED <<db, xref, file, raced, entry, oldMapTx, owned>> /\ \A t : Ref(t)' = Ref(t)
  BY Zenon DEF diskVars, poolVars, Ref
<1>2. /\ job' = [job EXCEPT ![c] = j] /\ todo' = [todo EXCEPT ![c] = txs] /\ push' = [push EXCEPT ![c] = s]
      /\ job \in [Threads -> CallerJobs \cup MainJobs] /\ push \in [Threads -> Seq(Task)]
      /\ todo \in [Threads -> SUBSET Txs] /\ Main \in Threads /\ Callers \subseteq Threads
  BY Zenon DEF Become, Control, TypeOK, Threads
<1>4. \A t : IsPending(Remove(t))' => IsPending(Remove(t))
  BY Zenon DEF IsPending, Remove, Shift
<1>5. EntriesKept'
  <2> SUFFICES ASSUME NEW t \in Txs \ raced', NEW w \in Wrappers, Ref(t)' = w PROVE Kept(t, w)'
    BY Zenon DEF EntriesKept
  <2>1. Kept(t, w) /\ Ref(t) = w /\ w # None
    BY <1>1, NoneDistinct, Zenon DEF Data, EntriesKept
  <2>2. w \notin owned' \/ w \in resetting' => t \in db' /\ t \notin removes' /\ ~IsPending(Remove(t))
    BY <1>1, <2>1, Zenon DEF Kept, Safe
  <2>3. \A a \in adds' : a.wrapper = w => a.tx = t /\ ~IsPending(Remove(t))'
    BY <1>4, <2>1, Zenon DEF Kept
  <2>4. \A d \in Threads : /\ push'[d] # <<Remove(t)>>
                           /\ \A u \in Txs : push'[d] = <<Add(u, w)>> => u = t
    <3> TAKE d \in Threads
    <3>1. CASE d = c
      BY <1>1, <1>2, <2>1, <3>1, Zenon
    <3>2. CASE d # c
      BY <1>2, <2>1, <3>2, Zenon DEF Kept
    <3> QED  BY <3>1, <3>2, Zenon
  <2> QED  BY <2>1, <2>2, <2>3, <2>4, KeptOn, Zenon
<1>6. EntriesApart' /\ BatchApart' /\ NothingDown'
  BY <1>1, Zenon DEF Data, EntriesApart, BatchApart, NothingDown
<1>7. ReorgHolds'
  BY <1>1, <1>2, Zenon DEF Data, ReorgHolds
<1>8. ClearEmpties' /\ StagedThere'
  BY <1>1, <1>2, Zenon DEF Data, ClearEmpties, StagedThere
<1>9. LoadSafe'
  <2>1. job'[Main] = "load" => job[Main] = "load" /\ todo'[Main] \subseteq todo[Main]
    BY <1>2, Zenon
  <2>2. job'[Main] = "load" => IF file' = None THEN todo'[Main] = {}
                              ELSE todo'[Main] \subseteq file'.onDisk \cup file'.inMem
    BY <1>1, <2>1, Zenon DEF Data, LoadSafe
  <2>3. ASSUME NEW t \in Txs \ raced', Loading(t)'
        PROVE  /\ Ref(t)' = None
               /\ t \notin removes' /\ ~IsPending(Remove(t))'
               /\ \A d \in Threads : push'[d] # <<Remove(t)>>
    <3>1. Loading(t)
      BY <1>1, <2>1, <2>3, Zenon DEF Loading
    <3>2. /\ Ref(t) = None /\ t \notin removes /\ ~IsPending(Remove(t))
          /\ \A d \in Threads : push[d] # <<Remove(t)>>
      BY <1>1, <3>1, Zenon DEF Data, LoadSafe
    <3>3. s # <<Remove(t)>>
      BY <1>1, <2>3, Zenon
    <3> QED  BY <1>1, <1>2, <1>4, <3>2, <3>3, Zenon
  <2>4. \A t : Remove(t)' = Remove(t)
    BY Zenon DEF Remove
  <2> QED  BY <2>2, <2>3, <2>4, Zenon DEF LoadSafe
<1>10. KeyVouchesForFile'
  BY <1>1, Zenon DEF Data, KeyVouchesForFile, FileMatches
<1> QED  BY <1>5, <1>6, <1>7, <1>8, <1>9, <1>10, Zenon DEF Data

\* What a thread pushes is one add, one erase, or neither.
LEMMA PushedForms ==
  ASSUME Control, NEW c \in Threads, NEW i \in DOMAIN push[c]
  PROVE  /\ push[c][i].op = "add" => i = 1 /\ push[c] = <<Add(push[c][i].tx, push[c][i].wrapper)>>
                                     /\ push[c][i].tx \in Txs
         /\ push[c][i].op = "remove" => push[c] = <<Remove(push[c][i].tx)>> /\ push[c][i].tx \in Txs
<1> DEFINE s == push[c]
<1>1. LegalPush(c, job[c], s) /\ s \in Seq(Task)
  BY Zenon DEF Control, TypeOK
<1>2. CASE \E t \in Txs, w \in Wrappers : s = <<Add(t, w)>>
  <2>1. PICK t \in Txs, w \in Wrappers : s = <<Add(t, w)>>
    BY <1>2, Zenon
  <2>2. i = 1 /\ s[i] = Add(t, w)
    BY <2>1, SMTT(30)
  <2> QED  BY <2>1, <2>2, TaskFields, SMTT(30)
<1>3. CASE \E t \in Txs : s = <<Remove(t)>>
  <2>1. PICK t \in Txs : s = <<Remove(t)>>
    BY <1>3, Zenon
  <2>2. i = 1 /\ s[i] = Remove(t)
    BY <2>1, SMTT(30)
  <2> QED  BY <2>1, <2>2, TaskFields, SMTT(30)
<1>4. CASE s = <<Sync(c)>>
  BY <1>4, TaskFields, SMTT(30)
<1>5. CASE \E id : s = <<SetXref(id), Sync(c)>>
  <2>1. (\E id : s[i] = SetXref(id)) \/ s[i] = Sync(c)
    BY <1>5, SMTT(30)
  <2> QED  BY <2>1, TaskFields, Zenon
<1>6. CASE s = <<>>
  BY <1>6
<1> QED  BY <1>1, <1>2, <1>3, <1>4, <1>5, <1>6, Zenon DEF LegalPush
\* A thread pushes what it was about to push.
LEMMA PushData ==
  ASSUME Control, TypeOK', Data, NEW c \in Threads, PushTasks(c)
  PROVE  Data'
<1> DEFINE s == push[c]
           n == Len(Pending)
<1>0. /\ push \in [Threads -> Seq(Task)] /\ s \in Seq(Task) /\ s # <<>>
      /\ tasks \in Seq(Task) /\ theQueue \in Seq(Task)
      /\ theQueue' = theQueue \o s /\ push' = [push EXCEPT ![c] = <<>>]
      /\ UNCHANGED <<tasks, job, todo, phase, db, xref, file, raced, entry, oldMapTx, owned, adds, removes, resetting>>
  BY Zenon DEF Control, TypeOK, PushTasks, Push, diskVars, poolVars, workVars
<1>1. Pending' = Pending \o s /\ \A t : Ref(t)' = Ref(t)
  BY <1>0, SMTT(30) DEF Pending, Ref
<1>2. /\ Pending \in Seq(Task) /\ n \in Nat /\ DOMAIN Pending = 1 .. n
      /\ \A i \in DOMAIN Pending : i \in DOMAIN Pending' /\ Pending'[i] = Pending[i]
      /\ DOMAIN Pending' = 1 .. (n + Len(s)) /\ Len(s) \in Nat /\ DOMAIN s = 1 .. Len(s)
      /\ \A i \in DOMAIN Pending' : i \notin DOMAIN Pending => i - n \in DOMAIN s /\ Pending'[i] = s[i - n]
  <2>1. Pending \in Seq(Task)
    BY <1>0, PendingParts, Zenon
  <2> HIDE DEF s
  <2> QED  BY <1>0, <1>1, <2>1, SMTT(30)
<1>3. \A t \in Txs : IsPending(Remove(t))' => IsPending(Remove(t)) \/ s = <<Remove(t)>>
  <2> SUFFICES ASSUME NEW t \in Txs, NEW i \in DOMAIN Pending', Pending'[i] = Remove(t)
               PROVE  IsPending(Remove(t)) \/ s = <<Remove(t)>>
    BY Zenon DEF IsPending, Remove
  <2>1. CASE i \in DOMAIN Pending
    BY <1>2, <2>1, Zenon DEF IsPending
  <2>2. CASE i \notin DOMAIN Pending
    <3>1. i - n \in DOMAIN s /\ s[i - n] = Remove(t)
      BY <1>2, <2>2, Zenon
    <3> QED  BY <3>1, PushedForms, TaskFields, SMTT(30)
  <2> QED  BY <2>1, <2>2, Zenon
<1>4. EntriesKept'
  <2> SUFFICES ASSUME NEW t \in Txs \ raced', NEW w \in Wrappers, Ref(t)' = w PROVE Kept(t, w)'
    BY Zenon DEF EntriesKept
  <2>1. Kept(t, w) /\ s # <<Remove(t)>>
    BY <1>0, <1>1, Zenon DEF Data, EntriesKept, Kept
  <2>2. IsPending(Remove(t))' => IsPending(Remove(t))
    BY <1>3, <2>1, Zenon
  <2>3. (w \notin owned \/ w \in resetting => Safe(t))'
    BY <1>0, <2>1, <2>2, Zenon DEF Kept, Safe
  <2>4. \A a \in adds' : a.wrapper = w => a.tx = t /\ ~IsPending(Remove(t))'
    BY <1>0, <2>1, <2>2, Zenon DEF Kept
  <2>5. \A j \in DOMAIN Pending' : Pending'[j] = Remove(t) => j \in DOMAIN Pending
    <3> SUFFICES ASSUME NEW j \in DOMAIN Pending', Pending'[j] = Remove(t), j \notin DOMAIN Pending
                 PROVE  FALSE
      OBVIOUS
    <3>1. j - n \in DOMAIN s /\ s[j - n] = Remove(t)
      BY <1>2, Zenon
    <3> QED  BY <2>1, <3>1, PushedForms, TaskFields, SMTT(30)
  <2>6. ASSUME NEW i \in DOMAIN Pending', Pending'[i].op = "add", Pending'[i].wrapper = w
        PROVE  /\ Pending'[i].tx = t
               /\ \A j \in DOMAIN Pending' : Pending'[j] = Remove(t) => j < i
    <3>1. CASE i \in DOMAIN Pending
      BY <1>2, <2>1, <2>5, <2>6, <3>1, Zenon DEF Kept
    <3>2. CASE i \notin DOMAIN Pending
      <4>1. i - n \in DOMAIN s /\ Pending'[i] = s[i - n]
        BY <1>2, <3>2, Zenon
      <4>2. s = <<Add(s[i - n].tx, w)>> /\ s[i - n].tx \in Txs
        BY <2>6, <4>1, PushedForms, ZenonT(40)
      <4>3. s[i - n].tx = t
        BY <2>1, <4>2, Zenon DEF Kept
      <4>4. \A j \in DOMAIN Pending : j < i
        BY <1>2, <3>2, SMTT(30)
      <4> QED  BY <2>5, <4>1, <4>3, <4>4, Zenon
    <3> QED  BY <3>1, <3>2, Zenon
  <2>7. \A d \in Threads : /\ push'[d] # <<Remove(t)>>
                           /\ \A u \in Txs : push'[d] = <<Add(u, w)>> => u = t
    <3>1. \A d \in Threads : push'[d] = push[d] \/ push'[d] = <<>>
      BY <1>0, Zenon
    <3> QED  BY <2>1, <3>1, SMTT(30) DEF Kept
  <2>8. Remove(t)' = Remove(t) /\ \A u \in Txs : Add(u, w)' = Add(u, w)
    BY Zenon DEF Remove, Add
  <2> QED  BY <2>3, <2>4, <2>6, <2>7, <2>8, Zenon DEF Kept
<1>5. EntriesApart' /\ ReorgHolds' /\ ClearEmpties' /\ StagedThere' /\ BatchApart' /\ NothingDown'
  BY <1>0, <1>1, Zenon DEF Data, EntriesApart, ReorgHolds, ClearEmpties, StagedThere, BatchApart, NothingDown
<1>6. LoadSafe'
  <2>1. \A t : Loading(t)' <=> Loading(t)
    BY <1>0, Zenon DEF Loading
  <2>2. \A t \in Txs \ raced : Loading(t) => ~IsPending(Remove(t))'
    BY <1>3, Zenon DEF Data, LoadSafe
  <2>3. \A d \in Threads : push'[d] = push[d] \/ push'[d] = <<>>
    BY <1>0, Zenon
  <2>4. \A t : Remove(t)' = Remove(t)
    BY Zenon DEF Remove
  <2> QED  BY <1>0, <1>1, <2>1, <2>2, <2>3, <2>4, Zenon DEF Data, LoadSafe
<1>7. KeyVouchesForFile'
  BY <1>0, Zenon DEF Data, KeyVouchesForFile, FileMatches
<1> QED  BY <1>4, <1>5, <1>6, <1>7, Zenon DEF Data

\* A process that has stopped leaves the disk as it was.
LEMMA StoppedData ==
  ASSUME Control, Data, Stopped, UNCHANGED diskVars
  PROVE  Data'
<1>1. /\ \A t \in Txs : Ref(t)' = None /\ entry'[t] = None /\ oldMapTx'[t] = None
      /\ adds' = {} /\ removes' = {} /\ resetting' = {} /\ UNCHANGED <<db, xref, file, raced>>
      /\ \A c \in Threads : job'[c] = "idle"
      /\ Main \in Threads
  BY Zenon DEF Stopped, NoEntries, Ref, diskVars, Threads
<1>2. EntriesKept' /\ EntriesApart'
  BY <1>1, NoneDistinct, Zenon DEF EntriesKept, EntriesApart
<1>3. LoadSafe' /\ ReorgHolds' /\ ClearEmpties' /\ StagedThere' /\ BatchApart' /\ NothingDown'
  BY <1>1, Zenon DEF LoadSafe, Loading, ReorgHolds, ClearEmpties, StagedThere, BatchApart, NothingDown
<1>4. KeyVouchesForFile'
  BY <1>1, Zenon DEF Data, KeyVouchesForFile, FileMatches
<1> QED  BY <1>2, <1>3, <1>4, Zenon DEF Data

\* The worker's batch reaches the disk.
LEMMA CommitData ==
  ASSUME Control, TypeOK', Data, Commit
  PROVE  Data'
<1>0. /\ db' = (db \cup {a.tx : a \in adds}) \ removes /\ xref' = None
      /\ resetting' = {a.wrapper : a \in adds} /\ adds' = {} /\ removes' = {}
      /\ UNCHANGED <<tasks, theQueue, file, raced, entry, oldMapTx, owned, phase, job, todo, push>> /\ phase = "up"
  BY Zenon DEF Commit, MustCommit, queueVars, poolVars, threadVars
<1>1. Pending' = Pending /\ \A t : Ref(t)' = Ref(t)
  BY <1>0, Zenon DEF Pending, Ref
<1>2. \A t : IsPending(Remove(t))' <=> IsPending(Remove(t))
  BY <1>1, Zenon DEF IsPending, Remove
<1>3. EntriesKept'
  <2> SUFFICES ASSUME NEW t \in Txs \ raced', NEW w \in Wrappers, Ref(t)' = w PROVE Kept(t, w)'
    BY Zenon DEF EntriesKept
  <2>1. Kept(t, w)
    BY <1>0, <1>1, Zenon DEF Data, EntriesKept
  <2>2. w \notin owned => t \in db' /\ ~IsPending(Remove(t))
    BY <1>0, <2>1, Zenon DEF Kept, Safe
  <2>3. w \in resetting' => t \in db' /\ ~IsPending(Remove(t))
    <3> SUFFICES ASSUME NEW a \in adds, a.wrapper = w PROVE t \in db' /\ ~IsPending(Remove(t))
      BY <1>0, Zenon
    <3>1. a.tx = t /\ ~IsPending(Remove(t)) /\ a.tx \notin removes
      BY <2>1, Zenon DEF Kept, Data, BatchApart
    <3> QED  BY <1>0, <3>1, Zenon
  <2>4. Remove(t)' = Remove(t) /\ \A u \in Txs : Add(u, w)' = Add(u, w)
    BY Zenon DEF Remove, Add
  <2> QED  BY <1>0, <1>1, <1>2, <2>1, <2>2, <2>3, <2>4, Zenon DEF Kept, Safe
<1>4. EntriesApart' /\ ReorgHolds' /\ ClearEmpties' /\ StagedThere' /\ BatchApart' /\ NothingDown'
  BY <1>0, <1>1, Zenon DEF Data, EntriesApart, ReorgHolds, ClearEmpties, StagedThere, BatchApart, NothingDown
<1>5. LoadSafe'
  <2>1. \A t : Loading(t)' <=> Loading(t)
    BY <1>0, Zenon DEF Loading
  <2>2. \A t : Remove(t)' = Remove(t)
    BY Zenon DEF Remove
  <2> QED  BY <1>0, <1>1, <1>2, <2>1, <2>2, Zenon DEF Data, LoadSafe
<1>6. KeyVouchesForFile'
  <2>1. file' # None => file'.id # None
    BY NoneDistinct, Zenon DEF TypeOK, FileRecord
  <2> QED  BY <1>0, <2>1, Zenon DEF KeyVouchesForFile, FileMatches
<1> QED  BY <1>3, <1>4, <1>5, <1>6, Zenon DEF Data

\* A wrapper whose transaction is on disk lets go of it.
LEMMA ResetData ==
  ASSUME Control, TypeOK', Data, ResetTransaction
  PROVE  Data'
<1>0. PICK x \in resetting : resetting' = resetting \ {x} /\ owned' = owned \ {x}
  BY Zenon DEF ResetTransaction
<1>1. /\ UNCHANGED <<tasks, theQueue, db, xref, file, raced, entry, oldMapTx, phase, job, todo, push, adds, removes>>
      /\ phase = "up"
  BY Zenon DEF ResetTransaction, queueVars, diskVars, threadVars
<1>2. Pending' = Pending /\ \A t : Ref(t)' = Ref(t)
  BY <1>1, Zenon DEF Pending, Ref
<1>3. \A t : IsPending(Remove(t))' <=> IsPending(Remove(t))
  BY <1>2, Zenon DEF IsPending, Remove
<1>4. EntriesKept'
  <2> SUFFICES ASSUME NEW t \in Txs \ raced', NEW w \in Wrappers, Ref(t)' = w PROVE Kept(t, w)'
    BY Zenon DEF EntriesKept
  <2>1. Kept(t, w)
    BY <1>1, <1>2, Zenon DEF Data, EntriesKept
  <2>2. w \notin owned' \/ w \in resetting' => w \notin owned \/ w \in resetting
    BY <1>0, Zenon
  <2>3. Remove(t)' = Remove(t) /\ \A u \in Txs : Add(u, w)' = Add(u, w)
    BY Zenon DEF Remove, Add
  <2> QED  BY <1>1, <1>2, <1>3, <2>1, <2>2, <2>3, Zenon DEF Kept, Safe
<1>5. EntriesApart' /\ ReorgHolds' /\ ClearEmpties' /\ StagedThere' /\ BatchApart' /\ NothingDown'
  BY <1>1, <1>2, Zenon DEF Data, EntriesApart, ReorgHolds, ClearEmpties, StagedThere, BatchApart, NothingDown
<1>6. LoadSafe'
  <2>1. \A t : Loading(t)' <=> Loading(t)
    BY <1>1, Zenon DEF Loading
  <2>2. \A t : Remove(t)' = Remove(t)
    BY Zenon DEF Remove
  <2> QED  BY <1>1, <1>2, <1>3, <2>1, <2>2, Zenon DEF Data, LoadSafe
<1>7. KeyVouchesForFile'
  BY <1>1, Zenon DEF Data, KeyVouchesForFile, FileMatches
<1> QED  BY <1>4, <1>5, <1>6, <1>7, Zenon DEF Data
\* The worker takes tasks, and changes nothing but its batch and the disk.
LEMMA DropData ==
  ASSUME Control, TypeOK', Data, NEW k \in Nat, Shift(k),
         UNCHANGED <<poolVars, resetting, push, job, todo, phase, file, raced>>, phase = "up",
         \A t \in Txs \ raced : Ref(t) # None /\ Safe(t) => t \in db' /\ t \notin removes',
         \A t \in Txs \ raced, w \in Wrappers, a \in adds' :
           Ref(t) = w /\ a.wrapper = w => a \in adds \/ (a.tx = t /\ ~IsPending(Remove(t))'),
         \A t \in Txs : t \in removes' => t \in removes \/ IsPending(Remove(t)),
         BatchApart', KeyVouchesForFile'
  PROVE  Data'
<1>1. UNCHANGED <<entry, oldMapTx, owned>> /\ \A t : Ref(t)' = Ref(t)
  BY Zenon DEF poolVars, Ref
<1>2. \A t : IsPending(Remove(t))' => IsPending(Remove(t))
  BY SMTT(30) DEF IsPending, Remove, Shift
<1>3. EntriesKept'
  <2> SUFFICES ASSUME NEW t \in Txs \ raced', NEW w \in Wrappers, Ref(t)' = w PROVE Kept(t, w)'
    BY Zenon DEF EntriesKept
  <2>1. Kept(t, w) /\ Ref(t) = w /\ Ref(t) # None
    BY <1>1, NoneDistinct, Zenon DEF Data, EntriesKept
  <2>2. w \notin owned' \/ w \in resetting' => t \in db' /\ t \notin removes' /\ ~IsPending(Remove(t))
    BY <1>1, <2>1, Zenon DEF Kept, Safe
  <2>3. \A a \in adds' : a.wrapper = w => a.tx = t /\ ~IsPending(Remove(t))'
    BY <1>2, <2>1, Zenon DEF Kept
  <2>4. \A d \in Threads : /\ push'[d] # <<Remove(t)>>
                           /\ \A u \in Txs : push'[d] = <<Add(u, w)>> => u = t
    BY <2>1, Zenon DEF Kept
  <2> QED  BY <2>1, <2>2, <2>3, <2>4, KeptOn, Zenon
<1>4. EntriesApart' /\ ReorgHolds' /\ ClearEmpties' /\ StagedThere' /\ NothingDown'
  BY <1>1, Zenon DEF Data, EntriesApart, ReorgHolds, ClearEmpties, StagedThere, NothingDown
<1>5. LoadSafe'
  <2>1. \A t : Loading(t)' <=> Loading(t)
    BY Zenon DEF Loading
  <2>2. \A t \in Txs \ raced : Loading(t) => t \notin removes' /\ ~IsPending(Remove(t))'
    BY <1>2, Zenon DEF Data, LoadSafe
  <2>3. \A t : Remove(t)' = Remove(t)
    BY Zenon DEF Remove
  <2> QED  BY <1>1, <2>1, <2>2, <2>3, Zenon DEF Data, LoadSafe
<1> QED  BY <1>3, <1>4, <1>5, Zenon DEF Data

\* Writing threw: the batch and the worker's tasks are gone.
LEMMA ThrowData ==
  ASSUME Control, TypeOK', Data, CommitThrows
  PROVE  Data'
<1>0. /\ tasks \in Seq(Task) /\ theQueue \in Seq(Task) /\ tasks' = <<>> /\ theQueue' = theQueue
      /\ adds' = {} /\ removes' = {} /\ phase = "up" /\ UNCHANGED <<db, xref, file, raced>>
      /\ UNCHANGED <<poolVars, resetting, push, job, todo, phase>>
  BY Zenon DEF Control, TypeOK, CommitThrows, MustCommit, Close, diskVars, threadVars
<1>1. Shift(Len(tasks)) /\ Len(tasks) \in Nat
  BY <1>0, SMTT(30) DEF Shift, Pending
<1>2. BatchApart' /\ KeyVouchesForFile'
  BY <1>0, Zenon DEF BatchApart, Data, KeyVouchesForFile, FileMatches
<1> QED  BY <1>0, <1>1, <1>2, DropData, Zenon DEF Safe

\* The identity of a dump is not that of the file.
LEMMA FreshId ==
  ASSUME TypeOK, file # None
  PROVE  InstanceId # file.id /\ file.id # None
<1>1. file.id \in {1, 2}
  BY Zenon DEF TypeOK, FileRecord
<1> QED  BY <1>1, NoneDistinct, SMTT(30) DEF InstanceId

\* The worker runs a task.
LEMMA TaskData ==
  ASSUME Control, TypeOK', Data, WorkTask
  PROVE  Data'
<1> DEFINE a == Head(tasks)
<1>0. /\ tasks \in Seq(Task) /\ theQueue \in Seq(Task) /\ tasks # <<>> /\ tasks' = Tail(tasks)
      /\ theQueue' = theQueue /\ phase = "up" /\ file' = file /\ raced' = raced /\ resetting = {}
      /\ UNCHANGED <<poolVars, resetting, push, job, todo, phase>>
      /\ RunAdd(a) \/ RunRemove(a) \/ RunSync(a) \/ RunSetXref(a) \/ RunClear(a)
  BY Zenon DEF Control, TypeOK, WorkTask, queueVars
<1>1. Shift(1) /\ 1 \in DOMAIN Pending /\ Pending[1] = a /\ a \in Task
  BY <1>0, SMTT(30) DEF Shift, Pending
<1>2. \A i \in DOMAIN Pending' : i + 1 \in DOMAIN Pending /\ Pending'[i] = Pending[i + 1] /\ i >= 1 /\ i \in Int
  <2>1. DOMAIN Pending' = 1 .. Len(Pending')
    BY SMTT(30) DEF TypeOK, Pending
  <2> QED  BY <1>1, <2>1, SMTT(30) DEF Shift
<1> HIDE DEF a
<1>3. CASE RunAdd(a)
  <2>1. /\ a.op = "add" /\ UNCHANGED <<db, xref>> /\ removes' \subseteq removes
        /\ adds' = adds \/ (adds' = adds \cup {[tx |-> a.tx, wrapper |-> a.wrapper]} /\ a.tx \notin removes)
    BY <1>3, Zenon DEF RunAdd, BatchAdd
  <2>2. ASSUME NEW t \in Txs \ raced, NEW w \in Wrappers, NEW b \in adds', Ref(t) = w, b.wrapper = w
        PROVE  b \in adds \/ (b.tx = t /\ ~IsPending(Remove(t))')
    <3>1. CASE b \in adds
      BY <3>1, Zenon
    <3>2. CASE b = [tx |-> a.tx, wrapper |-> a.wrapper]
      <4>1. a.wrapper = w /\ b.tx = a.tx
        BY <2>2, <3>2, Zenon
      <4>2. a.tx = t /\ \A j \in DOMAIN Pending : Pending[j] = Remove(t) => j < 1
        BY <1>1, <2>1, <2>2, <4>1, SMTT(30) DEF Data, EntriesKept, Kept
      <4>3. ~IsPending(Remove(t))'
        <5> SUFFICES ASSUME NEW i \in DOMAIN Pending', Pending'[i] = Remove(t) PROVE FALSE
          BY Zenon DEF IsPending, Remove
        <5>1. i + 1 < 1
          BY <1>2, <4>2, Zenon
        <5> QED  BY <1>2, <5>1, SMTT(30)
      <4> QED  BY <4>1, <4>2, <4>3, Zenon
    <3> QED  BY <2>1, <2>2, <3>1, <3>2, Zenon
  <2>3. BatchApart'
    BY <2>1, SMTT(30) DEF Data, BatchApart
  <2>4. KeyVouchesForFile'
    BY <1>0, <2>1, Zenon DEF Data, KeyVouchesForFile, FileMatches
  <2> QED  BY <1>0, <1>1, <2>1, <2>2, <2>3, <2>4, DropData, Zenon DEF Safe
<1>4. CASE RunRemove(a)
  <2>1. /\ a.op = "remove" /\ UNCHANGED <<db, xref>> /\ adds' \subseteq adds
        /\ removes' = removes \/ (removes' = removes \cup {a.tx} /\ \A b \in adds : b.tx # a.tx)
    BY <1>4, Zenon DEF RunRemove, BatchRemove, InBatch
  <2>2. IsPending(Remove(a.tx))
    BY <1>1, <2>1, TaskForms, Zenon DEF IsPending
  <2>3. \A t \in Txs : Ref(t) # None /\ Safe(t) => t \in db' /\ t \notin removes'
    BY <2>1, <2>2, Zenon DEF Safe
  <2>4. \A t \in Txs : t \in removes' => t \in removes \/ IsPending(Remove(t))
    BY <2>1, <2>2, Zenon
  <2>5. BatchApart'
    BY <2>1, SMTT(30) DEF Data, BatchApart
  <2>6. KeyVouchesForFile'
    BY <1>0, <2>1, Zenon DEF Data, KeyVouchesForFile, FileMatches
  <2> QED  BY <1>0, <1>1, <2>1, <2>3, <2>4, <2>5, <2>6, DropData, Zenon
<1>5. CASE RunSync(a)
  <2>1. UNCHANGED <<db, xref, adds, removes>>
    BY <1>5, Zenon DEF RunSync
  <2>2. BatchApart' /\ KeyVouchesForFile'
    BY <1>0, <2>1, Zenon DEF Data, BatchApart, KeyVouchesForFile, FileMatches
  <2> QED  BY <1>0, <1>1, <2>1, <2>2, DropData, Zenon DEF Safe
<1>6. CASE RunSetXref(a)
  <2>1. UNCHANGED <<db, adds, removes>> /\ xref' = a.id /\ a.op = "setxref"
    BY <1>6, Zenon DEF RunSetXref
  <2>2. a.id = InstanceId \/ a.id = None
    BY <1>1, <2>1, Zenon DEF Control, OrdersSupervised, Supervised
  <2>3. TypeOK
    BY Zenon DEF Control
  <2>4. BatchApart' /\ KeyVouchesForFile'
    BY <1>0, <2>1, <2>2, <2>3, FreshId, Zenon DEF Data, BatchApart, KeyVouchesForFile, FileMatches
  <2> QED  BY <1>0, <1>1, <2>1, <2>4, DropData, Zenon DEF Safe
<1>7. CASE RunClear(a)
  <2>1. a.op = "clear" /\ adds' = {} /\ removes' = {} /\ db' = {} /\ xref' = None
    BY <1>7, Zenon DEF RunClear
  <2>2. Supervised(1)
    BY <1>1, <2>1, Zenon DEF Control, OrdersSupervised
  <2>3. Pending[1 + 1].who \in Threads /\ job[Pending[1 + 1].who] = "clear"
    BY <1>1, <2>1, <2>2, PendingForms, Zenon DEF Supervised, Control
  <2>4. \A t \in Txs \ raced : Ref(t) = None
    BY <2>3, Zenon DEF Data, ClearEmpties
  <2>5. TypeOK
    BY Zenon DEF Control
  <2>6. BatchApart' /\ KeyVouchesForFile'
    BY <1>0, <2>1, <2>5, FreshId, Zenon DEF BatchApart, KeyVouchesForFile, FileMatches
  <2> QED  BY <1>0, <1>1, <2>1, <2>4, <2>6, DropData, Zenon
<1> QED  BY <1>0, <1>3, <1>4, <1>5, <1>6, <1>7, Zenon
\* SaveTxsToDisk hands on what an entry's own wrapper holds.
LEMMA SaveData ==
  ASSUME Control, TypeOK', Data, NEW c \in Threads, SaveNext(c)
  PROVE  Data'
<1>1. PICK t \in todo[c] :
        Become(c, "save", todo[c] \ {t}, IF entry[t] \in owned THEN <<Add(t, entry[t])>> ELSE <<>>)
  BY Zenon DEF SaveNext
<1> DEFINE s == IF entry[t] \in owned THEN <<Add(t, entry[t])>> ELSE <<>>
<1>2. /\ job[c] = "save" /\ phase' = "up" /\ t \in Txs /\ owned \subseteq Wrappers
      /\ UNCHANGED <<tasks, theQueue, diskVars, poolVars, adds, removes, resetting>>
  BY Zenon DEF SaveNext, Ready, queueVars, workVars, Control, TypeOK
<1>3. Shift(0)
  BY <1>2, ShiftSame, Zenon DEF Control
<1>4. \A u \in Txs : s # <<Remove(u)>>
  <2> SUFFICES ASSUME NEW u \in Txs, s = <<Remove(u)>> PROVE FALSE
    OBVIOUS
  <2>1. Remove(u) = Add(t, entry[t])
    OBVIOUS
  <2> QED  BY <2>1, TaskFields, SMTT(30)
<1>5. ASSUME NEW u \in Txs, NEW v \in Txs, NEW w \in Wrappers, s = <<Add(u, w)>>, Ref(v) = w
      PROVE  u = v
  <2>1. Add(u, w) = Add(t, entry[t])
    BY <1>5, Zenon
  <2>2. u = t /\ w = entry[t] /\ w # None
    BY <2>1, TaskFields, NoneDistinct, SMTT(30)
  <2>3. Ref(t) = w
    BY <2>2, Zenon DEF Ref
  <2> QED  BY <1>2, <1>5, <2>2, <2>3, Zenon DEF Data, EntriesApart
<1> HIDE DEF s
<1>6. Become(c, "save", todo[c] \ {t}, s)
  BY <1>1, Zenon DEF s
<1> QED  BY <1>2, <1>3, <1>4, <1>5, <1>6, BecomeData, SMTT(30)

\* An entry is removed, and its transaction erased if it was on disk.
LEMMA RemoveData ==
  ASSUME Control, TypeOK', Data, NEW c \in Threads, RemoveUnchecked(c)
  PROVE  Data'
<1>1. PICK t \in todo[c] :
        /\ Become(c, "remove", todo[c] \ {t}, IF RemoveFromDisk(t) THEN <<Remove(t)>> ELSE <<>>)
        /\ entry' = [entry EXCEPT ![t] = None]
        /\ owned' = IF entry[t] \in TaskWrappers THEN owned ELSE owned \ {entry[t]}
  BY Zenon DEF RemoveUnchecked
<1>2. /\ job[c] = "remove" /\ phase = "up" /\ phase' = "up"
      /\ UNCHANGED <<tasks, theQueue, db, xref, file, raced, oldMapTx, adds, removes, resetting>>
  BY Zenon DEF RemoveUnchecked, Ready, queueVars, diskVars, workVars
<1>3. /\ job' = [job EXCEPT ![c] = "remove"] /\ todo' = [todo EXCEPT ![c] = todo[c] \ {t}]
      /\ push' = [push EXCEPT ![c] = IF RemoveFromDisk(t) THEN <<Remove(t)>> ELSE <<>>]
      /\ job \in [Threads -> CallerJobs \cup MainJobs] /\ push \in [Threads -> Seq(Task)]
      /\ todo \in [Threads -> SUBSET Txs] /\ Main \in Threads /\ Callers \subseteq Threads
      /\ t \in Txs /\ entry \in [Txs -> Wrappers \cup {None}]
  BY <1>1, Zenon DEF Become, Control, TypeOK, Threads
<1>4. job' = job /\ job[Main] # "remove"
  BY <1>2, <1>3, Zenon DEF Control, TypeOK, MainJobs
<1>5. entry[t] # None /\ oldMapTx[t] = None /\ Ref(t) = entry[t] /\ Ref(t)' = None
  BY <1>1, <1>2, <1>3, Zenon DEF Data, StagedThere, EntriesApart, Ref
<1>6. \A u \in Txs : u # t => Ref(u)' = Ref(u)
  BY <1>1, <1>2, <1>3, Zenon DEF Ref
<1>7. \A u \in Txs : u # t /\ Ref(u) # None => (Ref(u) \in owned' <=> Ref(u) \in owned)
  BY <1>1, <1>3, <1>5, Zenon DEF Data, EntriesApart
<1>8. Shift(0)
  BY <1>2, ShiftSame, Zenon DEF Control
<1>9. \A u : IsPending(Remove(u))' => IsPending(Remove(u))
  BY <1>8, Zenon DEF IsPending, Remove, Shift
<1>10. /\ \A d \in Threads : push'[d] = push[d] \/ push'[d] = <<Remove(t)>> \/ push'[d] = <<>>
       /\ \A u \in Txs : u # t => <<Remove(t)>> # <<Remove(u)>>
       /\ \A u \in Txs, w \in Wrappers : <<Remove(t)>> # <<Add(u, w)>> /\ <<>> # <<Add(u, w)>>
  <2>1. \A u : u # t => Remove(t) # Remove(u)
    BY TaskFields, SMTT(30)
  <2>2. \A u, w : Remove(t) # Add(u, w)
    BY TaskFields, SMTT(30)
  <2> QED  BY <1>3, <2>1, <2>2, Zenon
<1>11. EntriesKept'
  <2> SUFFICES ASSUME NEW u \in Txs \ raced', NEW w \in Wrappers, Ref(u)' = w PROVE Kept(u, w)'
    BY Zenon DEF EntriesKept
  <2>1. u # t /\ Ref(u) = w /\ w # None /\ Kept(u, w)
    BY <1>2, <1>5, <1>6, NoneDistinct, Zenon DEF Data, EntriesKept
  <2>2. w \notin owned' \/ w \in resetting' => u \in db' /\ u \notin removes' /\ ~IsPending(Remove(u))
    BY <1>2, <1>7, <2>1, Zenon DEF Kept, Safe
  <2>3. \A a \in adds' : a.wrapper = w => a.tx = u /\ ~IsPending(Remove(u))'
    BY <1>2, <1>9, <2>1, Zenon DEF Kept
  <2>4. \A d \in Threads : /\ push'[d] # <<Remove(u)>>
                           /\ \A v \in Txs : push'[d] = <<Add(v, w)>> => v = u
    BY <1>10, <2>1, SMTT(30) DEF Kept
  <2> QED  BY <1>8, <2>1, <2>2, <2>3, <2>4, KeptOn, Zenon
<1>12. EntriesApart'
  BY <1>1, <1>2, <1>3, <1>5, <1>6, ZenonT(60) DEF Data, EntriesApart
<1>13. LoadSafe'
  <2>1. todo'[Main] = todo[Main]
    BY <1>2, <1>3, <1>4, Zenon
  <2>2. \A u : Loading(u)' <=> Loading(u)
    BY <1>2, <1>4, <2>1, Zenon DEF Loading
  <2>3. ASSUME NEW u \in Txs \ raced, Loading(u)
        PROVE  /\ Ref(u)' = None /\ u \notin removes' /\ ~IsPending(Remove(u))'
               /\ \A d \in Threads : push'[d] # <<Remove(u)>>
    <3>1. /\ Ref(u) = None /\ u \notin removes /\ ~IsPending(Remove(u))
          /\ \A d \in Threads : push[d] # <<Remove(u)>>
      BY <2>3, Zenon DEF Data, LoadSafe
    <3>2. u # t
      BY <1>5, <3>1, Zenon
    <3> QED  BY <1>2, <1>6, <1>9, <1>10, <3>1, <3>2, SMTT(30)
  <2>4. \A u : Remove(u)' = Remove(u)
    BY Zenon DEF Remove
  <2> QED  BY <1>2, <1>4, <2>1, <2>2, <2>3, <2>4, Zenon DEF Data, LoadSafe
<1>14. ReorgHolds' /\ BatchApart' /\ NothingDown'
  BY <1>2, <1>4, Zenon DEF Data, ReorgHolds, BatchApart, NothingDown
<1>15. ClearEmpties'
  BY <1>2, <1>4, <1>5, <1>6, Zenon DEF Data, ClearEmpties
<1>16. StagedThere'
  <2> SUFFICES ASSUME NEW d \in Threads, job'[d] = "remove", NEW u \in todo'[d] PROVE entry'[u] # None
    BY Zenon DEF StagedThere
  <2>1. d = c
    BY <1>2, <1>4, Zenon DEF Control, OneHolder, UniqueHolders
  <2>2. u \in todo[c] /\ u # t /\ u \in Txs
    BY <1>3, <2>1, Zenon
  <2> QED  BY <1>1, <1>2, <1>3, <2>2, Zenon DEF Data, StagedThere
<1>17. KeyVouchesForFile'
  BY <1>2, Zenon DEF Data, KeyVouchesForFile, FileMatches
<1> QED  BY <1>11, <1>12, <1>13, <1>14, <1>15, <1>16, <1>17, Zenon DEF Data

\* No entry is set aside unless a reorganisation is under way.
LEMMA NothingAside ==
  ASSUME Control, Data, CsMainFree
  PROVE  \A t \in Txs : oldMapTx[t] = None
BY Zenon DEF Data, ReorgHolds, CsMainFree

\* Clear leaves no entry but those set aside, which join raced.
LEMMA ClearData ==
  ASSUME Control, TypeOK', Data, NEW c \in Threads, ClearMempool(c)
  PROVE  Data'
<1>0. /\ job \in [Threads -> CallerJobs \cup MainJobs] /\ push \in [Threads -> Seq(Task)]
      /\ todo \in [Threads -> SUBSET Txs]
      /\ tasks \in Seq(Task) /\ theQueue \in Seq(Task)
      /\ theQueue' = <<Clear, Sync(c)>> /\ entry' = NoEntries
      /\ UNCHANGED <<tasks, db, xref, file, phase, oldMapTx, adds, removes, resetting>>
      /\ job' = [job EXCEPT ![c] = "clear"] /\ push' = [push EXCEPT ![c] = <<>>]
      /\ todo' = [todo EXCEPT ![c] = {}]
      /\ Main \in Threads /\ raced' = raced \cup Stored(oldMapTx)
  BY Zenon DEF Control, TypeOK, ClearMempool, ReplaceContent, Become, diskVars, workVars, Threads
<1>1. (c = Main \/ CsMainFree) /\ phase = "up" /\ CanLock
  BY Zenon DEF ClearMempool, CallsClear, Running, Ready, CanClear
<1>2. /\ \A t \in Txs : Ref(t)' = oldMapTx[t] /\ entry'[t] = None
      /\ \A t \in Txs \ raced' : Ref(t)' = None /\ t \notin raced
  BY <1>0, Zenon DEF Ref, NoEntries, Stored
<1>3. \A t : IsPending(Remove(t))' => IsPending(Remove(t))
  <2> SUFFICES ASSUME NEW t, NEW i \in DOMAIN Pending', Pending'[i] = Remove(t)
               PROVE  IsPending(Remove(t))
    BY Zenon DEF IsPending, Remove
  <2>1. (i \in 1 .. Len(tasks) /\ Pending'[i] = tasks[i]) \/ Pending'[i] = Clear \/ Pending'[i] = Sync(c)
    BY <1>0, SMTT(30) DEF Pending
  <2>2. i \in 1 .. Len(tasks) /\ Pending'[i] = tasks[i]
    BY <2>1, TaskFields, SMTT(30)
  <2> QED  BY <1>0, <2>2, PendingParts, Zenon DEF IsPending
<1>4. EntriesKept' /\ EntriesApart'
  <2>1. EntriesKept'
    BY <1>2, NoneDistinct, Zenon DEF EntriesKept
  <2>2. \A t \in Txs : oldMapTx[t] # None => Ref(t) = oldMapTx[t]
    BY Zenon DEF Data, EntriesApart, Ref
  <2>3. ASSUME NEW t \in Txs, NEW u \in Txs, Ref(t)' # None, Ref(t)' = Ref(u)' PROVE t = u
    <3>1. Ref(t) # None /\ Ref(t) = Ref(u)
      BY <1>2, <2>2, <2>3, Zenon
    <3> QED  BY <3>1, Zenon DEF Data, EntriesApart
  <2> QED  BY <1>2, <2>1, <2>3, Zenon DEF EntriesApart
<1>5. ClearEmpties' /\ BatchApart' /\ NothingDown'
  BY <1>0, <1>1, <1>2, Zenon DEF Data, ClearEmpties, BatchApart, NothingDown
<1>9. ReorgHolds'
  <2>1. CASE c = Main
    <3>1. \A d \in Callers : job'[d] = job[d]
      BY <1>0, <2>1, ThreadsDistinct, Zenon DEF Threads
    <3> QED  BY <1>0, <3>1, Zenon DEF Data, ReorgHolds
  <2>2. CASE CsMainFree
    BY <1>0, <2>2, NothingAside, Zenon DEF ReorgHolds
  <2> QED  BY <1>1, <2>1, <2>2, Zenon
<1>6. StagedThere'
  BY <1>0, <1>1, Zenon DEF StagedThere, CanLock, UniqueHolders
<1>7. LoadSafe'
  <2>1. job'[Main] = "load" => c # Main /\ job[Main] = "load" /\ todo'[Main] = todo[Main]
    BY <1>0, Zenon
  <2>2. \A t : Loading(t)' => Loading(t)
    BY <1>0, <2>1, Zenon DEF Loading
  <2>3. \A d \in Threads : push'[d] = push[d] \/ push'[d] = <<>>
    BY <1>0, Zenon
  <2>4. \A t : Remove(t)' = Remove(t)
    BY Zenon DEF Remove
  <2> QED  BY <1>0, <1>2, <1>3, <2>1, <2>2, <2>3, <2>4, Zenon DEF Data, LoadSafe
<1>8. KeyVouchesForFile'
  BY <1>0, Zenon DEF Data, KeyVouchesForFile, FileMatches
<1> QED  BY <1>4, <1>5, <1>6, <1>7, <1>8, <1>9, Zenon DEF Data

\* A transaction gets an entry with a wrapper nothing else refers to.
LEMMA EntryData ==
  ASSUME Control, TypeOK', Data, NEW t \in Txs, NEW x \in FreeWrappers, CanLock, phase = "up",
         entry[t] = None, oldMapTx[t] = None,
         entry' = [entry EXCEPT ![t] = x],
         \A w \in Wrappers : w # x => (w \in owned' <=> w \in owned),
         x \notin owned' /\ t \notin raced' => Safe(t), raced \subseteq raced',
         UNCHANGED <<tasks, theQueue, db, xref, file, oldMapTx, phase, job, adds, removes, resetting>>,
         \A c \in Threads : push'[c] = push[c] \/ push'[c] = <<>>,
         todo'[Main] \subseteq todo[Main],
         t \notin raced' => ~Loading(t)' /\ (job[Main] = "load" => push'[Main] # <<Remove(t)>>)
  PROVE  Data'
<1>1. /\ TypeOK /\ x \in Wrappers /\ x # None /\ x \notin TaskWrappers
      /\ \A u \in Txs : entry[u] # x /\ oldMapTx[u] # x
      /\ entry \in [Txs -> Wrappers \cup {None}] /\ oldMapTx \in [Txs -> Wrappers \cup {None}]
      /\ Main \in Threads
  <2>1. TypeOK /\ x \in Wrappers /\ x \notin TaskWrappers /\ x \notin Range(entry) /\ x \notin Range(oldMapTx)
    BY Zenon DEF FreeWrappers, Control
  <2> QED  BY <2>1, NoneDistinct, SMTT(30) DEF TypeOK, Range, Threads
<1>2. Ref(t)' = x /\ Ref(t) = None /\ \A u \in Txs : u # t => Ref(u)' = Ref(u) /\ Ref(u) # x
  BY <1>1, Zenon DEF Ref
<1>3. Shift(0)
  BY <1>1, ShiftSame, Zenon
<1>4. \A u : IsPending(Remove(u))' => IsPending(Remove(u))
  BY <1>3, Zenon DEF IsPending, Remove, Shift
<1>5. t \notin raced' => \A c \in Threads : push'[c] # <<Remove(t)>>
  <2> SUFFICES ASSUME t \notin raced', NEW c \in Threads, push'[c] = <<Remove(t)>> PROVE FALSE
    OBVIOUS
  <2>1. push[c] = <<Remove(t)>> /\ 1 \in DOMAIN push[c] /\ push[c][1] = Remove(t)
    OBVIOUS
  <2>2. job[c] \in {"remove", "load"}
    <3>1. LegalPush(c, job[c], <<Remove(t)>>)
      BY <2>1, Zenon DEF Control
    <3>2. /\ \A u, w : <<Remove(t)>> # <<Add(u, w)>>
          /\ <<Remove(t)>> # <<Sync(c)>> /\ \A id : <<Remove(t)>> # <<SetXref(id), Sync(c)>>
      <4>1. /\ \A u, w : Remove(t) # Add(u, w)
            /\ Remove(t) # Sync(c)
        BY TaskFields, SMTT(30)
      <4> QED  BY <4>1, Zenon
    <3> QED  BY <3>1, <3>2, Zenon DEF LegalPush
  <2>3. job[c] # "remove"
    BY Zenon DEF CanLock, UniqueHolders
  <2>4. c = Main
    BY <2>2, <2>3, <1>1, Zenon DEF TypeOK, CallerJobs, Threads
  <2> QED  BY <2>2, <2>3, <2>4, Zenon
<1>6. EntriesKept'
  <2> SUFFICES ASSUME NEW u \in Txs \ raced', NEW w \in Wrappers, Ref(u)' = w PROVE Kept(u, w)'
    BY Zenon DEF EntriesKept
  <2>1. CASE u = t
    <3>1. /\ w = x /\ w \notin resetting /\ \A a \in adds : a.wrapper # w
          /\ \A i \in DOMAIN Pending : Pending[i].op = "add" => Pending[i].wrapper # w
          /\ \A d \in Threads, v \in Txs : push[d] # <<Add(v, w)>>
      BY <1>1, <1>2, <2>1, NoTask, Zenon
    <3>2. (w \notin owned \/ w \in resetting => Safe(u))'
      BY <1>4, <2>1, <3>1, Zenon DEF Safe
    <3>3. \A i \in DOMAIN Pending' : Pending'[i].op = "add" => Pending'[i].wrapper # w
      BY <1>3, <3>1, Zenon DEF Shift
    <3>4. \A d \in Threads, v \in Txs : push'[d] # <<Add(v, w)>>
      BY <3>1, SMTT(30)
    <3>5. Remove(u)' = Remove(u) /\ \A v \in Txs : Add(v, w)' = Add(v, w)
      BY Zenon DEF Remove, Add
    <3> QED  BY <1>5, <2>1, <3>1, <3>2, <3>3, <3>4, <3>5, Zenon DEF Kept
  <2>2. CASE u # t
    <3>1. Ref(u) = w /\ w # x /\ Kept(u, w)
      BY <1>2, <2>2, Zenon DEF Data, EntriesKept
    <3>2. w \notin owned' \/ w \in resetting' => u \in db' /\ u \notin removes' /\ ~IsPending(Remove(u))
      BY <3>1, Zenon DEF Kept, Safe
    <3>3. \A a \in adds' : a.wrapper = w => a.tx = u /\ ~IsPending(Remove(u))'
      BY <1>4, <3>1, Zenon DEF Kept
    <3>4. \A d \in Threads : /\ push'[d] # <<Remove(u)>>
                             /\ \A v \in Txs : push'[d] = <<Add(v, w)>> => v = u
      <4>1. \A v \in Txs : <<>> # <<Add(v, w)>>
        OBVIOUS
      <4> QED  BY <3>1, <4>1, SMTT(30) DEF Kept
    <3> QED  BY <1>3, <3>1, <3>2, <3>3, <3>4, KeptOn, Zenon
  <2> QED  BY <2>1, <2>2, Zenon
<1>7. EntriesApart'
  BY <1>1, <1>2, SMTT(30) DEF Data, EntriesApart
<1>8. LoadSafe'
  <2>1. \A u \in Txs \ raced' : Loading(u)' => Loading(u) /\ u # t /\ u \notin raced
    BY Zenon DEF Loading
  <2>2. job'[Main] = "load" => IF file' = None THEN todo'[Main] = {}
                              ELSE todo'[Main] \subseteq file'.onDisk \cup file'.inMem
    BY Zenon DEF Data, LoadSafe
  <2>3. \A u : Remove(u)' = Remove(u)
    BY Zenon DEF Remove
  <2>4. ASSUME NEW u \in Txs \ raced', Loading(u)'
        PROVE  /\ Ref(u)' = None /\ u \notin removes' /\ ~IsPending(Remove(u))'
               /\ \A d \in Threads : push'[d] # <<Remove(u)>>
    BY <1>2, <1>4, <2>1, <2>4, SMTT(30) DEF Data, LoadSafe
  <2> QED  BY <2>2, <2>3, <2>4, Zenon DEF LoadSafe
<1>9. ReorgHolds' /\ BatchApart' /\ NothingDown'
  BY Zenon DEF Data, ReorgHolds, BatchApart, NothingDown
<1>10. ClearEmpties' /\ StagedThere'
  BY Zenon DEF ClearEmpties, StagedThere, CanLock, UniqueHolders
<1>11. KeyVouchesForFile'
  BY Zenon DEF Data, KeyVouchesForFile, FileMatches
<1> QED  BY <1>6, <1>7, <1>8, <1>9, <1>10, <1>11, Zenon DEF Data

\* A validation task adds a transaction.
LEMMA AddData ==
  ASSUME Control, TypeOK', Data, NEW t \in Txs, AddUnchecked(t)
  PROVE  Data'
<1>1. PICK x \in FreeWrappers : entry' = [entry EXCEPT ![t] = x] /\ owned' = owned \cup {x}
  BY Zenon DEF AddUnchecked
<1>2. /\ CanLock /\ phase = "up" /\ entry[t] = None /\ oldMapTx[t] = None /\ raced \subseteq raced'
      /\ t \notin raced' => ~BeingLoaded(t)
      /\ UNCHANGED <<tasks, theQueue, db, xref, file, oldMapTx, phase, job, todo, push, adds, removes, resetting>>
  BY Zenon DEF AddUnchecked, Running, queueVars, diskVars, threadVars, workVars
<1>3. t \notin raced' => ~Loading(t)' /\ (job[Main] = "load" => push'[Main] # <<Remove(t)>>)
  BY <1>2, Zenon DEF Loading, BeingLoaded
<1>4. (\A w \in Wrappers : w # x => (w \in owned' <=> w \in owned)) /\ x \in owned'
  BY <1>1, Zenon
<1> QED  BY <1>1, <1>2, <1>3, <1>4, EntryData, Zenon

\* LoadMempool accepts a transaction of the file.
LEMMA AcceptData ==
  ASSUME Control, TypeOK', Data, NEW t \in todo[Main], LoadAccepted(t),
         Ready(Main), job[Main] = "load", t \in file.onDisk => t \in db,
         UNCHANGED <<queueVars, diskVars, phase, waiting, workVars>>
  PROVE  Data'
<1>1. PICK x \in FreeWrappers :
        /\ entry' = [entry EXCEPT ![t] = x]
        /\ owned' = IF t \in file.inMem THEN owned \cup {x} ELSE owned \ {x}
  BY Zenon DEF LoadAccepted
<1>2. /\ Main \in Threads /\ t \in Txs /\ job \in [Threads -> CallerJobs \cup MainJobs]
      /\ push \in [Threads -> Seq(Task)] /\ todo \in [Threads -> SUBSET Txs]
  BY Zenon DEF Control, TypeOK, Threads
<1>3. /\ CanLock /\ phase = "up" /\ entry[t] = None /\ oldMapTx[t] = None
      /\ UNCHANGED <<tasks, theQueue, db, xref, file, raced, oldMapTx, phase, adds, removes, resetting>>
      /\ job' = [job EXCEPT ![Main] = "load"] /\ todo' = [todo EXCEPT ![Main] = todo[Main] \ {t}]
      /\ push' = [push EXCEPT ![Main] = <<>>]
  BY Zenon DEF LoadAccepted, Ready, Become, queueVars, diskVars, workVars
<1>4. job' = job /\ todo'[Main] = todo[Main] \ {t} /\ push'[Main] = <<>>
  BY <1>2, <1>3, Zenon
<1>5. \A c \in Threads : push'[c] = push[c] \/ push'[c] = <<>>
  BY <1>2, <1>3, Zenon
<1>6. ~Loading(t)' /\ push'[Main] # <<Remove(t)>>
  BY <1>4, SMTT(30) DEF Loading
<1>7. x \notin owned' /\ t \notin raced' => Safe(t)
  <2> SUFFICES ASSUME x \notin owned', t \notin raced' PROVE Safe(t)
    OBVIOUS
  <2>1. t \in file.onDisk
    BY <1>1, Zenon DEF Data, LoadSafe
  <2> QED  BY <1>2, <1>3, <2>1, Zenon DEF Data, LoadSafe, Loading, Safe
<1>8. \A w \in Wrappers : w # x => (w \in owned' <=> w \in owned)
  BY <1>1, Zenon
<1> QED  BY <1>1, <1>2, <1>3, <1>4, <1>5, <1>6, <1>7, <1>8, EntryData, Zenon

\* What is to be loaded stays safe through a step of another thread that takes
\* no reference and pushes nothing.
LEMMA LoadSafeOn ==
  ASSUME LoadSafe, job'[Main] = job[Main], todo'[Main] = todo[Main], file' = file, removes' = removes, raced' = raced,
         \A t : Loading(t)' <=> Loading(t),
         \A t \in Txs : Ref(t) = None => Ref(t)' = None,
         \A t : IsPending(Remove(t))' => IsPending(Remove(t)),
         \A d \in Threads : push'[d] = push[d] \/ push'[d] = <<>>
  PROVE  LoadSafe'
<1>1. \A t : Remove(t)' = Remove(t)
  BY Zenon DEF Remove
<1>2. \A x : <<>> # <<x>>
  BY SMTT(30)
<1>3. \A t \in Txs \ raced : Loading(t) => \A d \in Threads : push'[d] # <<Remove(t)>>
  BY <1>2, Zenon DEF LoadSafe
<1>4. \A t \in Txs \ raced : Loading(t)' => /\ Ref(t)' = None /\ t \notin removes' /\ ~IsPending(Remove(t))'
                                   /\ \A d \in Threads : push'[d] # <<Remove(t)'>>
  BY <1>1, <1>3, Zenon DEF LoadSafe
<1>5. job'[Main] = "load" => IF file' = None THEN todo'[Main] = {}
                             ELSE todo'[Main] \subseteq file'.onDisk \cup file'.inMem
  BY Zenon DEF LoadSafe
<1> QED  BY <1>4, <1>5, Zenon DEF LoadSafe

\* The entries are set aside.
LEMMA PrepareData ==
  ASSUME Control, TypeOK', Data, NEW c \in Callers, PrepareResubmit(c)
  PROVE  Data'
<1>0. /\ job' = [job EXCEPT ![c] = "reorg"] /\ todo' = [todo EXCEPT ![c] = {}] /\ push' = [push EXCEPT ![c] = <<>>]
      /\ job \in [Threads -> CallerJobs \cup MainJobs] /\ push \in [Threads -> Seq(Task)]
      /\ todo \in [Threads -> SUBSET Txs] /\ Main \in Threads /\ c \in Threads /\ c # Main
  BY ThreadsDistinct, Zenon DEF PrepareResubmit, Become, Control, TypeOK, Threads
<1>1. /\ phase = "up" /\ CsMainFree /\ CanLock /\ oldMapTx' = entry /\ entry' = NoEntries
      /\ UNCHANGED <<tasks, theQueue, db, xref, file, raced, owned, phase, adds, removes, resetting>>
  BY Zenon DEF PrepareResubmit, Running, queueVars, diskVars, workVars
<1>2. \A t \in Txs : Ref(t)' = Ref(t) /\ entry'[t] = None
  BY <1>1, NothingAside, Zenon DEF Ref, NoEntries
<1>3. Shift(0)
  BY <1>1, ShiftSame, Zenon DEF Control
<1>4. \A t : IsPending(Remove(t))' => IsPending(Remove(t))
  BY <1>3, Zenon DEF IsPending, Remove, Shift
<1>5. \A d \in Threads : push'[d] = push[d] \/ push'[d] = <<>>
  BY <1>0, Zenon
<1>6. EntriesKept'
  <2> SUFFICES ASSUME NEW t \in Txs \ raced', NEW w \in Wrappers, Ref(t)' = w PROVE Kept(t, w)'
    BY Zenon DEF EntriesKept
  <2>1. Kept(t, w)
    BY <1>1, <1>2, Zenon DEF Data, EntriesKept
  <2>2. w \notin owned' \/ w \in resetting' => t \in db' /\ t \notin removes' /\ ~IsPending(Remove(t))
    BY <1>1, <2>1, Zenon DEF Kept, Safe
  <2>3. \A a \in adds' : a.wrapper = w => a.tx = t /\ ~IsPending(Remove(t))'
    BY <1>1, <1>4, <2>1, Zenon DEF Kept
  <2>4. \A d \in Threads : /\ push'[d] # <<Remove(t)>>
                           /\ \A u \in Txs : push'[d] = <<Add(u, w)>> => u = t
    <3> TAKE d \in Threads
    <3>1. push[d] # <<Remove(t)>> /\ \A u \in Txs : push[d] = <<Add(u, w)>> => u = t
      BY <2>1, Zenon DEF Kept
    <3>2. CASE push'[d] = push[d]
      BY <3>1, <3>2, Zenon
    <3>3. CASE push'[d] = <<>>
      BY <3>3, SMTT(30)
    <3> QED  BY <1>5, <3>2, <3>3, Zenon
  <2> QED  BY <1>3, <2>1, <2>2, <2>3, <2>4, KeptOn, Zenon
<1>7. EntriesApart' /\ BatchApart' /\ NothingDown'
  BY <1>1, <1>2, Zenon DEF Data, EntriesApart, BatchApart, NothingDown
<1>8. ReorgHolds'
  BY <1>0, Zenon DEF ReorgHolds
<1>9. ClearEmpties' /\ StagedThere'
  BY <1>0, <1>1, ZenonT(40) DEF ClearEmpties, StagedThere, CanLock, UniqueHolders
<1>10. LoadSafe'
  <2>1. job'[Main] = job[Main] /\ todo'[Main] = todo[Main]
    BY <1>0, Zenon
  <2>2. \A t : Loading(t)' <=> Loading(t)
    BY <1>1, <2>1, Zenon DEF Loading
  <2>3. \A t \in Txs : Ref(t) = None => Ref(t)' = None
    BY <1>2, Zenon
  <2>4. file' = file /\ removes' = removes /\ raced' = raced /\ LoadSafe
    BY <1>1, Zenon DEF Data
  <2> QED  BY <1>4, <1>5, <2>1, <2>2, <2>3, <2>4, LoadSafeOn, Zenon
<1>11. KeyVouchesForFile'
  BY <1>1, Zenon DEF Data, KeyVouchesForFile, FileMatches
<1> QED  BY <1>6, <1>7, <1>8, <1>9, <1>10, <1>11, Zenon DEF Data

\* The entries set aside come back, each with a new wrapper.
LEMMA ResubmitData ==
  ASSUME Control, TypeOK', Data, NEW c \in Callers, ResubmitEntries(c)
  PROVE  Data'
<1>0. /\ phase = "up" /\ CanLock /\ oldMapTx' = NoEntries
      /\ UNCHANGED <<tasks, theQueue, db, xref, file, raced, phase, adds, removes, resetting>>
      /\ entry \in [Txs -> Wrappers \cup {None}] /\ oldMapTx \in [Txs -> Wrappers \cup {None}]
      /\ owned \subseteq Wrappers
  BY Zenon DEF ResubmitEntries, Ready, queueVars, diskVars, workVars, Control, TypeOK
<1>1. PICK new \in [Stored(oldMapTx) -> Wrappers \ (TaskWrappers \cup Range(entry))] :
       /\ IsInjective(new)
       /\ entry' = [t \in Txs |-> IF t \in DOMAIN new THEN new[t] ELSE entry[t]]
       /\ owned' = (owned \ (Range(new) \cup (Range(oldMapTx) \ TaskWrappers)))
                     \cup {new[t] : t \in {u \in DOMAIN new : oldMapTx[u] \in owned}}
  BY Zenon DEF ResubmitEntries
<1>2. PICK invalid \in SUBSET Stored(entry') : Become(c, "remove", invalid, <<>>)
  BY Zenon DEF ResubmitEntries
<1>3. /\ job' = [job EXCEPT ![c] = "remove"] /\ todo' = [todo EXCEPT ![c] = invalid]
      /\ push' = [push EXCEPT ![c] = <<>>]
      /\ job \in [Threads -> CallerJobs \cup MainJobs] /\ push \in [Threads -> Seq(Task)]
      /\ todo \in [Threads -> SUBSET Txs] /\ Main \in Threads /\ c \in Threads /\ c # Main
  BY <1>2, ThreadsDistinct, Zenon DEF Become, Control, TypeOK, Threads
<1>4. /\ DOMAIN new = {t \in Txs : oldMapTx[t] # None}
      /\ \A t \in DOMAIN new : /\ t \in Txs /\ oldMapTx[t] # None /\ new[t] \in Wrappers /\ new[t] # None
                               /\ new[t] \notin TaskWrappers /\ new[t] \notin Range(entry)
      /\ \A t, u \in DOMAIN new : new[t] = new[u] => t = u
  BY <1>1, NoneDistinct, SMTT(30) DEF Stored, IsInjective
<1>5. \A t \in Txs, u \in DOMAIN new : entry[t] # new[u]
  BY <1>0, <1>4, Zenon DEF Range
<1>6. /\ \A t \in Txs : oldMapTx'[t] = None /\ Ref(t)' = IF t \in DOMAIN new THEN new[t] ELSE entry[t]
      /\ \A t \in DOMAIN new : entry[t] = None /\ Ref(t) = oldMapTx[t]
      /\ \A t \in Txs : t \notin DOMAIN new => Ref(t)' = Ref(t) /\ Ref(t) = entry[t]
  <2>1. \A t \in Txs : oldMapTx'[t] = None
    BY <1>0, Zenon DEF NoEntries
  <2>2. \A t \in DOMAIN new : entry[t] = None /\ Ref(t) = oldMapTx[t]
    BY <1>4, Zenon DEF Data, EntriesApart, Ref
  <2>3. \A t \in Txs : t \notin DOMAIN new => Ref(t) = entry[t]
    BY <1>4, Zenon DEF Ref
  <2>4. \A t \in Txs : Ref(t)' = IF t \in DOMAIN new THEN new[t] ELSE entry[t]
    BY <1>1, <1>4, <2>1, Zenon DEF Ref
  <2> QED  BY <2>1, <2>2, <2>3, <2>4, Zenon
<1>7. Shift(0)
  BY <1>0, ShiftSame, Zenon DEF Control
<1>8. \A t : IsPending(Remove(t))' => IsPending(Remove(t))
  BY <1>7, Zenon DEF IsPending, Remove, Shift
<1>9. \A d \in Threads : push'[d] = push[d] \/ push'[d] = <<>>
  BY <1>3, ZenonT(30)
<1>10. ASSUME NEW t \in DOMAIN new, t \notin raced
       PROVE  /\ new[t] \in owned' \/ Safe(t)
              /\ \A d \in Threads : push'[d] # <<Remove(t)>>
  <2>1. Kept(t, oldMapTx[t])
    BY <1>0, <1>4, <1>6, <1>10, Zenon DEF Data, EntriesKept
  <2>2. oldMapTx[t] \in owned => new[t] \in owned'
    BY <1>1, <1>10, Zenon
  <2> QED  BY <1>9, <2>1, <2>2, SMTT(30) DEF Kept
<1>11. ASSUME NEW t \in Txs, t \notin DOMAIN new, entry[t] # None
       PROVE  entry[t] \in owned => entry[t] \in owned'
  <2>1. entry[t] \notin Range(oldMapTx)
    <3> SUFFICES ASSUME NEW u \in Txs, oldMapTx[u] = entry[t] PROVE FALSE
      BY <1>0, Zenon DEF Range
    <3>1. u \in DOMAIN new /\ Ref(u) = Ref(t)
      BY <1>4, <1>6, <1>11, Zenon
    <3> QED  BY <1>6, <1>11, <3>1, Zenon DEF Data, EntriesApart
  <2>2. entry[t] \notin Range(new)
    BY <1>5, Zenon DEF Range
  <2> QED  BY <1>1, <2>1, <2>2, Zenon
<1>12. EntriesKept'
  <2> SUFFICES ASSUME NEW t \in Txs \ raced', NEW w \in Wrappers, Ref(t)' = w PROVE Kept(t, w)'
    BY Zenon DEF EntriesKept
  <2>1. CASE t \in DOMAIN new
    <3>1. w = new[t] /\ w \notin TaskWrappers /\ TypeOK
      BY <1>4, <1>6, <2>1, Zenon DEF Control
    <3>2. /\ w \notin resetting /\ \A a \in adds : a.wrapper # w
          /\ \A i \in DOMAIN Pending : Pending[i].op = "add" => Pending[i].wrapper # w
          /\ \A d \in Threads, u \in Txs : push[d] # <<Add(u, w)>>
      BY <3>1, NoTask, Zenon
    <3>3. (w \notin owned \/ w \in resetting => Safe(t))'
      BY <1>0, <1>8, <1>10, <2>1, <3>1, <3>2, Zenon DEF Safe
    <3>4. \A i \in DOMAIN Pending' : Pending'[i].op = "add" => Pending'[i].wrapper # w
      BY <1>7, <3>2, ZenonT(30) DEF Shift
    <3>5. \A d \in Threads, u \in Txs : push'[d] # <<Add(u, w)>>
      BY <1>9, <3>2, SMTT(30)
    <3>6. Remove(t)' = Remove(t) /\ \A u \in Txs : Add(u, w)' = Add(u, w)
      BY Zenon DEF Remove, Add
    <3> QED  BY <1>0, <1>10, <2>1, <3>2, <3>3, <3>4, <3>5, <3>6, Zenon DEF Kept
  <2>2. CASE t \notin DOMAIN new
    <3>1. Ref(t) = w /\ Ref(t) = entry[t] /\ w # None /\ Kept(t, w)
      BY <1>0, <1>6, <2>2, NoneDistinct, Zenon DEF Data, EntriesKept
    <3>2. w \notin owned' \/ w \in resetting' => t \in db' /\ t \notin removes' /\ ~IsPending(Remove(t))
      BY <1>0, <1>11, <2>2, <3>1, Zenon DEF Kept, Safe
    <3>3. \A a \in adds' : a.wrapper = w => a.tx = t /\ ~IsPending(Remove(t))'
      BY <1>0, <1>8, <3>1, Zenon DEF Kept
    <3>4. \A d \in Threads : /\ push'[d] # <<Remove(t)>>
                             /\ \A u \in Txs : push'[d] = <<Add(u, w)>> => u = t
      <4>1. <<>> # <<Remove(t)>> /\ \A u \in Txs : <<>> # <<Add(u, w)>>
        OBVIOUS
      <4>2. \A d \in Threads : /\ push[d] # <<Remove(t)>>
                               /\ \A u \in Txs : push[d] = <<Add(u, w)>> => u = t
        BY <3>1, Zenon DEF Kept
      <4> QED  BY <1>9, <4>1, <4>2, Zenon
    <3> QED  BY <1>7, <3>1, <3>2, <3>3, <3>4, KeptOn, Zenon
  <2> QED  BY <2>1, <2>2, Zenon
<1>13. EntriesApart'
  <2>1. ASSUME NEW t \in Txs, NEW u \in Txs, Ref(t)' # None, Ref(t)' = Ref(u)' PROVE t = u
    <3>1. CASE t \in DOMAIN new
      BY <1>4, <1>5, <1>6, <2>1, <3>1, SMTT(30)
    <3>2. CASE t \notin DOMAIN new /\ u \in DOMAIN new
      BY <1>4, <1>5, <1>6, <2>1, <3>2, SMTT(30)
    <3>3. CASE t \notin DOMAIN new /\ u \notin DOMAIN new
      BY <1>6, <2>1, <3>3, SMTT(30) DEF Data, EntriesApart
    <3> QED  BY <3>1, <3>2, <3>3, Zenon
  <2> QED  BY <1>6, <2>1, Zenon DEF EntriesApart
<1>14. ReorgHolds' /\ BatchApart' /\ NothingDown'
  BY <1>0, <1>6, Zenon DEF Data, ReorgHolds, BatchApart, NothingDown
<1>15. ClearEmpties' /\ StagedThere'
  <2>1. \A d \in Threads : job[d] \notin {"clear", "remove"}
    BY <1>0, Zenon DEF CanLock, UniqueHolders
  <2>2. \A t \in invalid : entry'[t] # None
    BY <1>2, Zenon DEF Stored
  <2> QED  BY <1>3, <2>1, <2>2, Zenon DEF ClearEmpties, StagedThere
<1>16. LoadSafe'
  <2>1. job'[Main] = job[Main] /\ todo'[Main] = todo[Main]
    BY <1>3, Zenon
  <2>2. \A t : Loading(t)' <=> Loading(t)
    BY <1>0, <2>1, Zenon DEF Loading
  <2>3. \A t \in Txs : Ref(t) = None => Ref(t)' = None
    BY <1>4, <1>6, Zenon
  <2>4. file' = file /\ removes' = removes /\ raced' = raced /\ LoadSafe
    BY <1>0, Zenon DEF Data
  <2> QED  BY <1>8, <1>9, <2>1, <2>2, <2>3, <2>4, LoadSafeOn, Zenon
<1>17. KeyVouchesForFile'
  BY <1>0, Zenon DEF Data, KeyVouchesForFile, FileMatches
<1> QED  BY <1>12, <1>13, <1>14, <1>15, <1>16, <1>17, Zenon DEF Data
\* The database is opened at start.
LEMMA InitData ==
  ASSUME Control, TypeOK', Data, InitMempoolTxDB
  PROVE  Data'
<1>0. /\ phase = "down" /\ phase' = "up" /\ xref' = None
      /\ UNCHANGED <<tasks, theQueue, file, entry, oldMapTx, owned, adds, removes, resetting>>
      /\ job' = [job EXCEPT ![Main] = "load"]
      /\ todo' = [todo EXCEPT ![Main] = IF file = None THEN {} ELSE file.onDisk \cup file.inMem]
      /\ push' = [push EXCEPT ![Main] = <<>>]
      /\ job \in [Threads -> CallerJobs \cup MainJobs] /\ push \in [Threads -> Seq(Task)]
      /\ todo \in [Threads -> SUBSET Txs] /\ Main \in Threads
  BY Zenon DEF InitMempoolTxDB, Become, queueVars, poolVars, workVars, Control, TypeOK, Threads
<1>1. /\ tasks = <<>> /\ theQueue = <<>> /\ adds = {} /\ removes = {} /\ resetting = {}
      /\ \A c \in Threads : job[c] = "idle" /\ push[c] = <<>>
      /\ \A t \in Txs : Ref(t) = None
  BY <1>0, Zenon DEF Control, Down, Data, NothingDown
<1>2. \A t \in Txs : Ref(t)' = None /\ entry'[t] = None /\ oldMapTx'[t] = None
  BY <1>0, <1>1, Zenon DEF Ref
<1>3. Pending' = <<>> /\ \A t : ~IsPending(Remove(t))'
  <2>1. Pending' = <<>>
    BY <1>0, <1>1, SMTT(30) DEF Pending
  <2> QED  BY <2>1, SMTT(30) DEF IsPending
<1>4. EntriesKept' /\ EntriesApart'
  BY <1>2, NoneDistinct, Zenon DEF EntriesKept, EntriesApart
<1>5. ReorgHolds' /\ ClearEmpties' /\ BatchApart' /\ NothingDown'
  BY <1>0, <1>1, <1>2, Zenon DEF ReorgHolds, ClearEmpties, BatchApart, NothingDown
<1>6. StagedThere'
  BY <1>0, <1>1, Zenon DEF StagedThere
<1>7. LoadSafe'
  <2>1. \A d \in Threads : push'[d] = <<>>
    BY <1>0, <1>1, Zenon
  <2> QED  BY <1>0, <1>1, <1>2, <1>3, <2>1, SMTT(30) DEF LoadSafe
<1>8. KeyVouchesForFile'
  <2>1. file' # None => file'.id # None
    BY NoneDistinct, Zenon DEF TypeOK, FileRecord
  <2> QED  BY <1>0, <2>1, Zenon DEF KeyVouchesForFile, FileMatches
<1> QED  BY <1>4, <1>5, <1>6, <1>7, <1>8, Zenon DEF Data

\* mempool.dat is written: what it says is in the database is there.
LEMMA DumpData ==
  ASSUME Control, TypeOK', Data, WriteDump
  PROVE  Data'
<1>0. /\ phase = "up" /\ job[Main] = "dump"
      /\ file'.onDisk = {t \in Stored(entry) : entry[t] \notin owned}
      /\ UNCHANGED <<tasks, theQueue, db, xref, raced, entry, oldMapTx, owned, phase, adds, removes, resetting>>
      /\ job' = [job EXCEPT ![Main] = "exit"] /\ todo' = [todo EXCEPT ![Main] = {}]
      /\ push' = [push EXCEPT ![Main] = <<>>]
      /\ job \in [Threads -> CallerJobs \cup MainJobs] /\ push \in [Threads -> Seq(Task)]
      /\ todo \in [Threads -> SUBSET Txs] /\ Main \in Threads /\ Callers \subseteq Threads
      /\ Main \notin Callers
  BY ThreadsDistinct, Zenon DEF WriteDump, Ready, Become, queueVars, poolVars, workVars, Control, TypeOK, Threads
<1>1. Pending' = Pending /\ \A t : Ref(t)' = Ref(t)
  BY <1>0, Zenon DEF Pending, Ref
<1>2. \A t : IsPending(Remove(t))' <=> IsPending(Remove(t))
  BY <1>1, Zenon DEF IsPending, Remove
<1>3. EntriesKept'
  <2> SUFFICES ASSUME NEW t \in Txs \ raced', NEW w \in Wrappers, Ref(t)' = w PROVE Kept(t, w)'
    BY Zenon DEF EntriesKept
  <2>1. Kept(t, w)
    BY <1>0, <1>1, Zenon DEF Data, EntriesKept
  <2>2. w \notin owned' \/ w \in resetting' => t \in db' /\ t \notin removes' /\ ~IsPending(Remove(t))
    BY <1>0, <2>1, Zenon DEF Kept, Safe
  <2>3. \A a \in adds' : a.wrapper = w => a.tx = t /\ ~IsPending(Remove(t))'
    BY <1>0, <1>2, <2>1, Zenon DEF Kept
  <2>4. \A d \in Threads : /\ push'[d] # <<Remove(t)>>
                           /\ \A u \in Txs : push'[d] = <<Add(u, w)>> => u = t
    <3> TAKE d \in Threads
    <3>1. push[d] # <<Remove(t)>> /\ \A u \in Txs : push[d] = <<Add(u, w)>> => u = t
      BY <2>1, Zenon DEF Kept
    <3>2. CASE d # Main
      BY <1>0, <3>1, <3>2, Zenon
    <3>3. CASE d = Main
      <4>1. push'[d] = <<>>
        BY <1>0, <3>3, Zenon
      <4> QED  BY <4>1, SMTT(30)
    <3> QED  BY <3>2, <3>3, Zenon
  <2>5. Shift(0)
    BY <1>0, ShiftSame, Zenon DEF Control
  <2> QED  BY <2>1, <2>2, <2>3, <2>4, <2>5, KeptOn, Zenon
<1>4. EntriesApart' /\ BatchApart' /\ NothingDown'
  BY <1>0, <1>1, Zenon DEF Data, EntriesApart, BatchApart, NothingDown
<1>5. ReorgHolds'
  BY <1>0, Zenon DEF Data, ReorgHolds
<1>6. ClearEmpties' /\ StagedThere'
  BY <1>0, <1>1, Zenon DEF Data, ClearEmpties, StagedThere
<1>7. LoadSafe'
  BY <1>0, Zenon DEF LoadSafe, Loading
<1>8. KeyVouchesForFile'
  <2> SUFFICES ASSUME NEW t \in Stored(entry) \ raced, entry[t] \notin owned PROVE t \in db
    BY <1>0, Zenon DEF KeyVouchesForFile
  <2>1. t \in Txs /\ entry[t] # None /\ entry[t] \in Wrappers /\ Ref(t) = entry[t]
    BY Zenon DEF Stored, Control, TypeOK, Ref
  <2> QED  BY <2>1, Zenon DEF Data, EntriesKept, Kept, Safe
<1> QED  BY <1>3, <1>4, <1>5, <1>6, <1>7, <1>8, Zenon DEF Data

\* ~CAsyncMempoolTxDB drops what is left in the queue.
LEMMA DestroyData ==
  ASSUME Control, TypeOK', Data, Destroy
  PROVE  Data'
<1>0. /\ tasks \in Seq(Task) /\ theQueue \in Seq(Task) /\ tasks' = tasks /\ theQueue' = <<>>
      /\ job[Main] = "exit" /\ phase' = "up" /\ Main \in Threads
      /\ Become(Main, "join", {}, <<>>)
      /\ UNCHANGED <<diskVars, poolVars, adds, removes, resetting>>
  BY Zenon DEF Destroy, Ready, Close, workVars, Control, TypeOK, Threads
<1>1. Shift(0)
  BY <1>0, SMTT(30) DEF Shift, Pending
<1>2. \A u \in Txs : <<>> # <<Remove(u)>> /\ \A w \in Wrappers : <<>> # <<Add(u, w)>>
  OBVIOUS
<1> QED  BY <1>0, <1>1, <1>2, BecomeData, Zenon

\* The steps that only take a thread on to another job.
LEMMA JobData ==
  ASSUME Control, TypeOK', Data, NEW c \in Threads, NEW j, NEW txs, NEW s, Become(c, j, txs, s),
         s = <<>> \/ s = <<Sync(c)>> \/ \E id : s = <<SetXref(id), Sync(c)>>,
         UNCHANGED <<queueVars, diskVars, poolVars, workVars>>, phase' = "up",
         c = Main => j # "load",
         j # "clear", j = "remove" => \A t \in txs : entry[t] # None,
         job[c] # "reorg"
  PROVE  Data'
<1>1. /\ UNCHANGED <<tasks, theQueue>> /\ UNCHANGED <<diskVars, poolVars, adds, removes, resetting>>
  BY Zenon DEF queueVars, workVars
<1>2. Shift(0)
  BY <1>1, ShiftSame, Zenon DEF Control
<1>3. \A u \in Txs : s # <<Remove(u)>> /\ \A w \in Wrappers : s # <<Add(u, w)>>
  <2> SUFFICES ASSUME NEW a, a.op \in {"add", "remove"} PROVE s # <<a>>
    BY TaskFields, SMTT(30)
  <2>1. a # Sync(c)
    BY TaskFields, Zenon
  <2> QED  BY <2>1, SMTT(30)
<1> QED  BY <1>1, <1>2, <1>3, BecomeData, Zenon
\* LoadMempool rejects a transaction of the file: it has no entry, or is of raced.
LEMMA RejectData ==
  ASSUME Control, TypeOK', Data, NEW t \in todo[Main], LoadRejected(t),
         Ready(Main), job[Main] = "load",
         UNCHANGED <<queueVars, diskVars, phase, waiting, workVars>>
  PROVE  Data'
<1> DEFINE s == IF t \in file.onDisk THEN <<Remove(t)>> ELSE <<>>
<1>0. /\ Main \in Threads /\ t \in Txs /\ todo \in [Threads -> SUBSET Txs] /\ TypeOK
      /\ UNCHANGED <<tasks, theQueue>> /\ UNCHANGED <<diskVars, poolVars, adds, removes, resetting>>
      /\ phase' = "up" /\ file' = file
      /\ todo' = [todo EXCEPT ![Main] = todo[Main] \ {t}]
  BY Zenon DEF Control, TypeOK, Threads, LoadRejected, Ready, Become, queueVars, workVars, diskVars
<1>1. Shift(0)
  BY <1>0, ShiftSame, Zenon
<1>2. \A u \in Txs \ raced : s = <<Remove(u)>> => Ref(u) = None /\ ~Loading(u)'
  <2> SUFFICES ASSUME NEW u \in Txs \ raced, s = <<Remove(u)>> PROVE Ref(u) = None /\ ~Loading(u)'
    BY ZenonT(20)
  <2>1. Remove(u) = Remove(t) /\ t \in file.onDisk
    BY ZenonT(20)
  <2>2. u = t
    BY <2>1, TaskFields, SMTT(30)
  <2>3. Loading(t) /\ ~Loading(t)'
    BY <1>0, <2>1, Zenon DEF Loading
  <2> QED  BY <1>0, <2>2, <2>3, Zenon DEF Data, LoadSafe
<1>3. \A u \in Txs, w \in Wrappers : s # <<Add(u, w)>>
  <2> SUFFICES ASSUME NEW u \in Txs, NEW w \in Wrappers, s = <<Add(u, w)>> PROVE FALSE
    OBVIOUS
  <2>1. Remove(t) = Add(u, w)
    OBVIOUS
  <2> QED  BY <2>1, TaskFields, SMTT(30)
<1> HIDE DEF s
<1>4. Become(Main, "load", todo[Main] \ {t}, s)
  BY Zenon DEF LoadRejected, s
<1> QED  BY <1>0, <1>1, <1>2, <1>3, <1>4, BecomeData, SMTT(30)

\* Data is kept by the steps of the threads,
LEMMA ThreadData ==
  ASSUME Control, TypeOK', Data, NEW c \in Threads,
         ThreadStep(c) \/ ClearMempool(c) \/ ClearAborts(c)
  PROVE  Data'
<1>1. CASE PushTasks(c)
  BY <1>1, PushData, Zenon
<1>2. CASE PushWaits(c)
  <2>1. UNCHANGED <<tasks, theQueue>> /\ UNCHANGED <<diskVars, poolVars, job, todo, push, phase, adds, removes, resetting>>
    BY <1>2, Zenon DEF PushWaits, PushSleeps, threadVars, workVars
  <2>2. Pending' = Pending
    BY <2>1, Zenon DEF Pending
  <2> QED  BY <2>1, <2>2, QuietData, Zenon
<1>3. CASE PushAborts(c) \/ ClearAborts(c)
  BY <1>3, StoppedData, Zenon DEF PushAborts, ClearAborts
<1>4. CASE SaveNext(c)
  BY <1>4, SaveData, Zenon
<1>5. CASE RemoveUnchecked(c)
  BY <1>5, RemoveData, Zenon
<1>6. CASE JobEnds(c)
  <2>1. /\ Become(c, "idle", {}, <<>>) /\ phase' = "up" /\ job[c] # "reorg"
        /\ UNCHANGED <<queueVars, diskVars, poolVars, workVars>>
    BY <1>6, Zenon DEF JobEnds, Ready
  <2> QED  BY <2>1, JobData, Zenon
<1>7. CASE ClearMempool(c)
  BY <1>7, ClearData, Zenon
<1> QED  BY <1>1, <1>2, <1>3, <1>4, <1>5, <1>6, <1>7, Zenon DEF ThreadStep

\* by the operations that callers start,
LEMMA CallerData ==
  ASSUME Control, TypeOK', Data, NEW c \in Callers, CallerStart(c)
  PROVE  Data'
<1>0. c \in Threads /\ c # Main
  BY ThreadsDistinct, Zenon DEF Threads
<1>1. CASE SaveTxsToDisk(c)
  <2>1. /\ Become(c, "save", Stored(entry), <<>>) /\ phase' = "up" /\ job[c] # "reorg"
        /\ UNCHANGED <<queueVars, diskVars, poolVars, workVars>>
    BY <1>1, Zenon DEF SaveTxsToDisk, Running
  <2> QED  BY <1>0, <2>1, JobData, Zenon
<1>2. CASE RemoveStaged(c)
  <2>1. /\ phase' = "up" /\ job[c] # "reorg" /\ UNCHANGED <<queueVars, diskVars, poolVars, workVars>>
    BY <1>2, Zenon DEF RemoveStaged, Running
  <2>2. PICK staged \in SUBSET Stored(entry) : Become(c, "remove", staged, <<>>)
    BY <1>2, Zenon DEF RemoveStaged
  <2>3. \A t \in staged : entry[t] # None
    BY Zenon DEF Stored
  <2> QED  BY <1>0, <2>1, <2>2, <2>3, JobData, Zenon
<1>3. CASE CheckMempoolTxDB(c)
  <2>1. /\ Become(c, "check", {}, <<Sync(c)>>) /\ phase' = "up" /\ job[c] # "reorg"
        /\ UNCHANGED <<queueVars, diskVars, poolVars, workVars>>
    BY <1>3, Zenon DEF CheckMempoolTxDB, Running
  <2> QED  BY <1>0, <2>1, JobData, Zenon
<1>4. CASE PrepareResubmit(c)
  BY <1>4, PrepareData, Zenon
<1>5. CASE ResubmitEntries(c)
  BY <1>5, ResubmitData, Zenon
<1> QED  BY <1>1, <1>2, <1>3, <1>4, <1>5, Zenon DEF CallerStart

\* by the worker,
LEMMA WorkerData ==
  ASSUME Control, TypeOK', Data, WorkerStep \/ CommitThrows
  PROVE  Data'
<1>1. CASE WorkPop
  <2>1. UNCHANGED <<diskVars, poolVars, job, todo, push, phase, adds, removes, resetting>>
    BY <1>1, Zenon DEF WorkPop, threadVars
  <2>2. Pending' = Pending
    BY <1>1, SMTT(30) DEF WorkPop, PopAll, Pending, Control, TypeOK
  <2> QED  BY <2>1, <2>2, QuietData, Zenon
<1>2. CASE WorkSleeps \/ WorkEnds \/ WorkNext
  <2>1. UNCHANGED <<tasks, theQueue>> /\ UNCHANGED <<diskVars, poolVars, job, todo, push, phase, adds, removes, resetting>>
    BY <1>2, Zenon DEF WorkSleeps, PopSleeps, WorkEnds, WorkNext, threadVars, workVars, queueVars
  <2>2. Pending' = Pending
    BY <2>1, Zenon DEF Pending
  <2> QED  BY <2>1, <2>2, QuietData, Zenon
<1> QED  BY <1>1, <1>2, CommitData, ResetData, TaskData, ThrowData, Zenon DEF WorkerStep

\* and by Main, by AddUnchecked and by a crash.
LEMMA MainData ==
  ASSUME Control, TypeOK', Data, MainStep \/ Crash \/ \E t \in Txs : AddUnchecked(t)
  PROVE  Data'
<1>0. Main \in Threads /\ job[Main] # "reorg"
  BY Zenon DEF Threads, Control, TypeOK, MainJobs
<1>1. CASE InitMempoolTxDB
  BY <1>1, InitData, Zenon
<1>2. CASE WriteDump
  BY <1>2, DumpData, Zenon
<1>3. CASE Destroy
  BY <1>3, DestroyData, Zenon
<1>4. CASE Join \/ Crash
  BY <1>4, StoppedData, Zenon DEF Join, Crash
<1>5. CASE \E t \in Txs : AddUnchecked(t)
  BY <1>5, AddData, Zenon
<1>6. CASE LoadNext
  <2>1. PICK t \in todo[Main] : (t \in file.onDisk => t \in db) /\ (LoadAccepted(t) \/ LoadRejected(t))
    BY <1>6, Zenon DEF LoadNext
  <2>2. Ready(Main) /\ job[Main] = "load" /\ UNCHANGED <<queueVars, diskVars, phase, waiting, workVars>>
    BY <1>6, Zenon DEF LoadNext
  <2>3. CASE LoadAccepted(t)
    BY <2>1, <2>2, <2>3, AcceptData, Zenon
  <2>4. CASE LoadRejected(t)
    BY <2>1, <2>2, <2>4, RejectData, Zenon
  <2> QED  BY <2>1, <2>3, <2>4, Zenon
<1>7. CASE LoadFails \/ LoadCancelled \/ LoadVerifies \/ LoadEnds \/ DumpMempool \/ DumpFails
  <2>1. phase' = "up" /\ UNCHANGED <<queueVars, diskVars, poolVars, workVars>>
    BY <1>7, Zenon DEF LoadFails, LoadCancelled, LoadVerifies, LoadEnds, DumpMempool, DumpFails, Ready
  <2>2. \/ \E j \in {"giveup", "exit", "idle"} : Become(Main, j, {}, <<>>)
        \/ Become(Main, "verify", {}, <<Sync(Main)>>)
        \/ \E j \in {"dump", "exit"}, id \in {InstanceId, None} : Become(Main, j, {}, <<SetXref(id), Sync(Main)>>)
    BY <1>7, Zenon DEF LoadFails, LoadCancelled, LoadVerifies, LoadEnds, DumpMempool, DumpFails
  <2>3. CASE \E j \in {"giveup", "exit", "idle"} : Become(Main, j, {}, <<>>)
    <3>1. PICK j \in {"giveup", "exit", "idle"} : Become(Main, j, {}, <<>>)
      BY <2>3, Zenon
    <3> QED  BY <1>0, <2>1, <3>1, JobData, Zenon
  <2>4. CASE Become(Main, "verify", {}, <<Sync(Main)>>)
    BY <1>0, <2>1, <2>4, JobData, Zenon
  <2>5. CASE \E j \in {"dump", "exit"}, id \in {InstanceId, None} : Become(Main, j, {}, <<SetXref(id), Sync(Main)>>)
    <3>1. PICK j \in {"dump", "exit"}, id \in {InstanceId, None} : Become(Main, j, {}, <<SetXref(id), Sync(Main)>>)
      BY <2>5, Zenon
    <3> QED  BY <1>0, <2>1, <3>1, JobData, Zenon
  <2> QED  BY <2>2, <2>3, <2>4, <2>5, Zenon
<1> QED  BY <1>1, <1>2, <1>3, <1>4, <1>5, <1>6, <1>7, Zenon DEF MainStep
-----------------------------------------------------------------------------
\* Data holds at the start, and every step keeps it.
LEMMA DataInit == TxDBInit => Data
<1> SUFFICES ASSUME TxDBInit PROVE Data
  OBVIOUS
<1>1. /\ \A t \in Txs : Ref(t) = None /\ entry[t] = None /\ oldMapTx[t] = None
      /\ adds = {} /\ removes = {} /\ resetting = {} /\ file = None /\ Main \in Threads
      /\ \A c \in Threads : job[c] = "idle"
  BY Zenon DEF TxDBInit, NoEntries, Ref, Threads
<1>2. EntriesKept /\ EntriesApart
  BY <1>1, NoneDistinct, Zenon DEF EntriesKept, EntriesApart
<1> QED  BY <1>1, <1>2, Zenon DEF Data, LoadSafe, Loading, ReorgHolds, ClearEmpties, StagedThere, BatchApart,
         NothingDown, KeyVouchesForFile, FileMatches

LEMMA DataNext ==
  Control /\ Control' /\ Data /\ [TxDBNext]_txdbVars => Data'
<1> SUFFICES ASSUME Control, Control', Data, [TxDBNext]_txdbVars PROVE Data'
  OBVIOUS
<1>0. TypeOK'
  BY Zenon DEF Control
<1>1. CASE WorkerStep \/ CommitThrows
  BY <1>0, <1>1, WorkerData, Zenon
<1>2. CASE \E c \in Threads : ThreadStep(c) \/ ClearMempool(c) \/ ClearAborts(c)
  BY <1>0, <1>2, ThreadData, Zenon
<1>3. CASE \E c \in Callers : CallerStart(c)
  BY <1>0, <1>3, CallerData, Zenon
<1>4. CASE MainStep \/ Crash \/ \E t \in Txs : AddUnchecked(t)
  BY <1>0, <1>4, MainData, Zenon
<1>5. CASE UNCHANGED txdbVars
  <2>1. UNCHANGED <<tasks, theQueue>> /\ UNCHANGED <<diskVars, poolVars, job, todo, push, phase, adds, removes, resetting>>
    BY <1>5, Zenon DEF txdbVars, queueVars, threadVars, workVars
  <2>2. Pending' = Pending
    BY <2>1, Zenon DEF Pending
  <2> QED  BY <2>1, <2>2, QuietData, Zenon
<1> QED  BY <1>1, <1>2, <1>3, <1>4, <1>5, Zenon DEF TxDBNext

\* Data is an invariant.
THEOREM DataHolds == TxDBSpec => []Data
<1>1. Control /\ Control' /\ Data /\ [TxDBNext]_txdbVars => Data'
  BY DataNext, Zenon
<1> QED  BY <1>1, DataInit, ControlHolds, PTL DEF TxDBSpec

\* A transaction of the mempool that met neither of the two races at start-up can
\* be read at any time: its wrapper owns it or it is in the database
\* (NothingLost), whatever the order in which it is moved to disk, removed, set
\* aside, added again, loaded and cleared, and whatever the others meet.
THEOREM NoTransactionLost == TxDBSpec => []NothingLost
<1>1. Control /\ Data => NothingLost
  <2> SUFFICES ASSUME Control, Data, NEW m \in {entry, oldMapTx}, NEW t \in Stored(m) \ raced, m[t] \notin owned
               PROVE  t \in db
    BY Zenon DEF NothingLost
  <2>1. t \in Txs /\ m[t] # None /\ m[t] \in Wrappers
    BY Zenon DEF Stored, Control, TypeOK
  <2>2. Ref(t) = m[t]
    BY <2>1, SMTT(30) DEF Ref, Data, EntriesApart
  <2> QED  BY <2>1, <2>2, Zenon DEF Data, EntriesKept, Kept, Safe
<1> QED  BY <1>1, ControlHolds, DataHolds, PTL

\* When the key in the database is that of mempool.dat, every transaction that
\* the file leaves to the database, and that met neither race in the session that
\* wrote the file, is in it (KeyVouchesForFile), after a crash at any point too.
THEOREM KeyVouches == TxDBSpec => []KeyVouchesForFile
<1>1. Data => KeyVouchesForFile
  BY Zenon DEF Data
<1> QED  BY <1>1, DataHolds, PTL
=============================================================================
