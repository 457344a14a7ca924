-------------------------- MODULE CheckQueueProofs --------------------------
(***************************************************************************)
(* Proofs about CheckQueue, for any number of workers, batch size and      *)
(* number of checks: the counters are exact (Accounting), nobody works on  *)
(* a session that is over (SessionsDoNotOverlap), and what Wait returns is *)
(* the conjunction of the checks and all the failed ones (ResultsSound).   *)
(***************************************************************************)
EXTENDS CheckQueue, FiniteSetTheorems, TLAPS

Busy(t) == pc[t] \in {"exec", "done"}
Waiting == {t \in Threads : pc[t] = "wait"}
Holds(s, c) == \E i \in DOMAIN s : s[i] = c

\* The books.  The batches and the queue have no check in common, so nTodo can
\* count them; a thread has a batch exactly while it executes or has executed
\* it, so a session that is over, with nothing outstanding, has nobody at work.
Books ==
  /\ TypeOK
  /\ \A t \in Threads : batch[t] # {} <=> Busy(t)
  /\ \A t \in Threads : batch[t] \intersect queue = {}
  /\ \A t, u \in Threads : t # u => batch[t] \intersect batch[u] = {}
  /\ Outstanding \subseteq added
  /\ TodoCountsOutstanding
  /\ CountersExact
  /\ mQuit => pc[Master] = "none"
  /\ pc[Master] \in {"none", "returned"} => Outstanding = {}

\* A failure is on record: handed in, or still in the hands of a thread.
SomeFailed == fAllOk = "false" \/ \E t \in Threads : Busy(t) /\ fOk[t] = "false"

\* What a session that is not cancelled has found out so far: there is a
\* failed check exactly when a failure is on record; without one every check
\* has passed, or is queued, or is in a batch and not executed yet; a failed
\* check is among the ones handed in or will be.
Verdict ==
  /\ fAllOk # "none"
  /\ \A t \in Threads : Busy(t) => fOk[t] # "none"
  /\ failed # {} <=> SomeFailed
  /\ ~SomeFailed => added \subseteq passed \union queue \union UNION {vChecks[t] : t \in Threads}
  /\ \A c \in failed :
       Holds(failedChecks, c) \/ \E t \in Threads : Busy(t) /\ Holds(vTempFailedChecks[t], c)

Session ==
  /\ \A t \in Threads : vChecks[t] \subseteq batch[t]
  /\ \A t \in Threads : pc[t] = "done" => vChecks[t] = {}
  /\ pc[Master] # "none" /\ ~canceled => Verdict
  /\ pc[Master] = "returned" => (fAllOk = "none" <=> canceled)

IInv == Books /\ Session

-----------------------------------------------------------------------------
\* The master is one of the threads.
LEMMA MasterIsThread == Master \in Threads
BY Zenon DEF Threads

\* The books of a step that touches none of what they count.
LEMMA BooksUntouched ==
  ASSUME Books, TypeOK', UNCHANGED <<queue, batch, nTodo, nIdle, nTotal, mQuit, pc, added>>
  PROVE  Books'
<1>1. Outstanding' = Outstanding /\ Running' = Running
  BY Zenon DEF Outstanding, Running
<1>2. TodoCountsOutstanding' /\ CountersExact'
  BY <1>1, Zenon DEF Books, TodoCountsOutstanding, CountersExact
<1>3. QED
  BY <1>1, <1>2, Zenon DEF Books, Busy

\* What the session has found out stands as long as nothing new fails and every
\* check is accounted for.
LEMMA VerdictStands ==
  ASSUME Verdict, UNCHANGED <<failedChecks, fAllOk, fOk, vTempFailedChecks, failed>>,
         \A u \in Threads : Busy(u)' <=> Busy(u),
         ~SomeFailed => added' \subseteq passed' \union queue'
                                         \union UNION {vChecks'[u] : u \in Threads}
  PROVE  Verdict'
<1>1. SomeFailed' <=> SomeFailed
  BY Zenon DEF SomeFailed
<1>2. fAllOk' # "none" /\ (failed' # {} <=> SomeFailed')
  BY <1>1, Zenon DEF Verdict
<1>3. \A u \in Threads : Busy(u)' => fOk'[u] # "none"
  BY Zenon DEF Verdict
<1>4. ASSUME NEW d \in failed'
      PROVE  Holds(failedChecks', d)
               \/ \E u \in Threads : Busy(u)' /\ Holds(vTempFailedChecks'[u], d)
  BY Zenon DEF Verdict
<1>5. \A d \in failed' : Holds(failedChecks, d)'
         \/ \E u \in Threads : Busy(u)' /\ Holds(vTempFailedChecks[u], d)'
  BY <1>4, Zenon DEF Holds
<1>6. QED
  BY <1>1, <1>2, <1>3, <1>5, Zenon DEF Verdict

\* What two sequences hold, their concatenation holds.
LEMMA HoldsConcat ==
  ASSUME NEW r \in Seq(Nat), NEW s \in Seq(Nat), NEW c, Holds(r, c) \/ Holds(s, c)
  PROVE  Holds(r \o s, c)
<1>1. /\ DOMAIN r = 1 .. Len(r) /\ DOMAIN s = 1 .. Len(s) /\ Len(r) \in Nat /\ Len(s) \in Nat
  OBVIOUS
<1>2. DOMAIN (r \o s) = 1 .. Len(r) + Len(s)
  OBVIOUS
<1>3. /\ \A i \in 1 .. Len(r) : (r \o s)[i] = r[i]
      /\ \A i \in 1 .. Len(s) : (r \o s)[Len(r) + i] = s[i]
  OBVIOUS
<1>4. ASSUME NEW i \in 1 .. Len(r), r[i] = c
      PROVE  Holds(r \o s, c)
  <2>1. i \in DOMAIN (r \o s) /\ (r \o s)[i] = c
    BY <1>1, <1>2, <1>3, <1>4, SMTT(30)
  <2>2. QED
    BY <2>1, Zenon DEF Holds
<1>5. ASSUME NEW i \in 1 .. Len(s), s[i] = c
      PROVE  Holds(r \o s, c)
  <2>1. Len(r) + i \in DOMAIN (r \o s) /\ (r \o s)[Len(r) + i] = c
    BY <1>1, <1>2, <1>3, <1>5, SMTT(30)
  <2>2. QED
    BY <2>1, Zenon DEF Holds
<1>6. QED
  BY <1>1, <1>4, <1>5, Zenon DEF Holds

\* Appending keeps what a sequence holds, and holds the new element.
LEMMA HoldsAppend ==
  ASSUME NEW s \in Seq(Nat), NEW n \in Nat
  PROVE  /\ Append(s, n) \in Seq(Nat) /\ Holds(Append(s, n), n)
         /\ \A c : Holds(s, c) => Holds(Append(s, n), c)
<1>1. /\ Append(s, n) \in Seq(Nat) /\ Len(s) \in Nat /\ DOMAIN s = 1 .. Len(s)
      /\ DOMAIN Append(s, n) = 1 .. Len(s) + 1
  OBVIOUS
<1>2. /\ \A i \in 1 .. Len(s) : Append(s, n)[i] = s[i]
      /\ Append(s, n)[Len(s) + 1] = n
  OBVIOUS
<1>3. QED
  BY <1>1, <1>2, SMTT(30) DEF Holds

\* One check is executed; that there is a first one of what is left is shown apart.
LEMMA RunCheckKeeps ==
  ASSUME IInv, NEW t \in Threads, RunCheck(t), Next1(t) \in vChecks[t]
  PROVE  IInv'
<1> DEFINE c == Next1(t)
<1>a. Books /\ TypeOK /\ Session
  BY Zenon DEF IInv, Books
<1>b. /\ pc[t] = "exec" /\ vChecks[t] # {} /\ fOk[t] = "true"
      /\ vChecks' = [vChecks EXCEPT ![t] = vChecks[t] \ {c}]
      /\ UNCHANGED <<queue, failedChecks, nTodo, nIdle, nTotal, fAllOk, batch, mQuit, canceled,
                     pc, asleep, added, lastCheck>>
  BY Zenon DEF RunCheck, sharedVars
<1>c. c \in vChecks[t] /\ c \in batch[t] /\ c \in added /\ c \in Nat
  <2>1. c \in vChecks[t]
    OBVIOUS
  <2>2. c \in batch[t]
    BY <1>a, <2>1, Zenon DEF Session
  <2>3. c \in Outstanding
    BY <2>2, Zenon DEF Outstanding
  <2>4. c \in added
    BY <1>a, <2>3, Zenon DEF Books
  <2>5. QED
    BY <1>a, <2>1, <2>2, <2>4, SMTT(30) DEF TypeOK
<1>d. /\ vChecks'[t] = vChecks[t] \ {c} /\ \A u \in Threads \ {t} : vChecks'[u] = vChecks[u]
  BY <1>a, <1>b, Zenon DEF TypeOK
<1>e. vTempFailedChecks[t] \in Seq(Nat)
  BY <1>a, Zenon DEF TypeOK
<1> HIDE DEF c
<1>1. \/ /\ ~canceled /\ fOk' = fOk /\ passed' = passed \union {c}
         /\ UNCHANGED <<failed, vTempFailedChecks>>
      \/ /\ ~canceled /\ fOk' = [fOk EXCEPT ![t] = "false"] /\ failed' = failed \union {c}
         /\ vTempFailedChecks' =
              [vTempFailedChecks EXCEPT ![t] = Append(vTempFailedChecks[t], c)]
         /\ UNCHANGED passed
      \/ /\ canceled /\ fOk' = [fOk EXCEPT ![t] = "none"]
         /\ UNCHANGED <<passed, failed, vTempFailedChecks>>
  BY Zenon DEF RunCheck, c
<1>2. TypeOK'
  <2>1. vChecks' \in [Threads -> SUBSET (1 .. lastCheck)]
    BY <1>a, <1>b, Zenon DEF TypeOK
  <2>2. fOk' \in [Threads -> Optional]
    BY <1>a, <1>1, Zenon DEF TypeOK, Optional
  <2>3. passed' \subseteq added /\ failed' \subseteq added
    BY <1>a, <1>c, <1>1, Zenon DEF TypeOK
  <2>4. vTempFailedChecks' \in [Threads -> Seq(Nat)]
    <3>1. Append(vTempFailedChecks[t], c) \in Seq(Nat)
      BY <1>c, <1>e, HoldsAppend, Zenon
    <3>2. QED
      BY <1>a, <1>1, <3>1, Zenon DEF TypeOK
  <2>5. QED
    BY <1>a, <1>b, <2>1, <2>2, <2>3, <2>4, Zenon DEF TypeOK
<1>3. Books'
  BY <1>a, <1>b, <1>2, BooksUntouched, Zenon
<1>4. ASSUME pc[Master] # "none", ~canceled
      PROVE  Verdict'
  <2>a. Verdict
    BY <1>a, <1>4, Zenon DEF Session
  <2>b. Busy(t) /\ \A u : Busy(u)' <=> Busy(u)
    BY <1>b, Zenon DEF Busy
  <2>1. CASE /\ fOk' = fOk /\ passed' = passed \union {c}
             /\ UNCHANGED <<failed, vTempFailedChecks>>
    <3>2. UNION {vChecks[u] : u \in Threads}
            \subseteq {c} \union UNION {vChecks'[u] : u \in Threads}
      BY <1>d, Zenon
    <3>3. ~SomeFailed => added' \subseteq passed' \union queue'
                                          \union UNION {vChecks'[u] : u \in Threads}
      BY <1>b, <2>a, <2>1, <3>2, Zenon DEF Verdict
    <3>4. \A u \in Threads : Busy(u)' <=> Busy(u)
      BY <2>b, Zenon
    <3>5. QED
      BY <1>b, <2>a, <2>1, <3>3, <3>4, VerdictStands, Zenon
  <2>2. CASE /\ fOk' = [fOk EXCEPT ![t] = "false"] /\ failed' = failed \union {c}
             /\ vTempFailedChecks' =
                  [vTempFailedChecks EXCEPT ![t] = Append(vTempFailedChecks[t], c)]
    <3>1. fOk'[t] = "false" /\ \A u \in Threads \ {t} : fOk'[u] = fOk[u]
      BY <1>a, <2>2, Zenon DEF TypeOK
    <3>2. SomeFailed' /\ failed' # {}
      BY <2>2, <2>b, <3>1, Zenon DEF SomeFailed
    <3>3. fAllOk' # "none" /\ \A u \in Threads : Busy(u)' => fOk'[u] # "none"
      BY <1>b, <2>a, <2>b, <3>1, Zenon DEF Verdict
    <3>4. /\ Holds(vTempFailedChecks'[t], c)
          /\ \A d : Holds(vTempFailedChecks[t], d) => Holds(vTempFailedChecks'[t], d)
          /\ \A u \in Threads \ {t} : vTempFailedChecks'[u] = vTempFailedChecks[u]
      <4>1. /\ vTempFailedChecks'[t] = Append(vTempFailedChecks[t], c)
            /\ \A u \in Threads \ {t} : vTempFailedChecks'[u] = vTempFailedChecks[u]
        BY <1>a, <2>2, Zenon DEF TypeOK
      <4>2. QED
        BY <1>c, <1>e, <4>1, HoldsAppend, Zenon
    <3>5. ASSUME NEW d \in failed'
          PROVE  Holds(failedChecks', d)
                   \/ \E u \in Threads : Busy(u)' /\ Holds(vTempFailedChecks'[u], d)
      <4>1. CASE d = c
        BY <2>b, <3>4, <4>1, Zenon
      <4>2. CASE d # c
        <5>1. Holds(failedChecks, d)
                \/ \E u \in Threads : Busy(u) /\ Holds(vTempFailedChecks[u], d)
          BY <2>a, <2>2, <4>2, Zenon DEF Verdict
        <5>2. QED
          BY <1>b, <2>b, <3>4, <5>1, Zenon
      <4>3. QED
        BY <4>1, <4>2, Zenon
    <3>6. \A d \in failed' : Holds(failedChecks, d)'
             \/ \E u \in Threads : Busy(u)' /\ Holds(vTempFailedChecks[u], d)'
      BY <3>5, Zenon DEF Holds
    <3>7. QED
      BY <3>2, <3>3, <3>6, Zenon DEF Verdict
  <2>3. QED
    BY <1>1, <1>4, <2>1, <2>2, Zenon
<1>5. Session'
  <2>1. \A u \in Threads : vChecks'[u] \subseteq batch'[u]
    BY <1>a, <1>b, <1>d, Zenon DEF Session
  <2>2. \A u \in Threads : pc'[u] = "done" => vChecks'[u] = {}
    BY <1>a, <1>b, <1>d, Zenon DEF Session
  <2>3. QED
    BY <1>a, <1>b, <1>4, <2>1, <2>2, Zenon DEF Session
<1>6. QED
  BY <1>3, <1>5, Zenon DEF IInv

\* The batch has been executed, or its execution was broken off.
LEMMA EndBatchKeeps ==
  ASSUME IInv, NEW t \in Threads, EndBatch(t)
  PROVE  IInv'
<1>a. Books /\ TypeOK /\ Session
  BY Zenon DEF IInv, Books
<1>b. /\ pc[t] = "exec" /\ (vChecks[t] = {} \/ fOk[t] # "true" \/ canceled)
      /\ vChecks' = [vChecks EXCEPT ![t] = {}] /\ pc' = [pc EXCEPT ![t] = "done"]
      /\ UNCHANGED <<queue, failedChecks, nTodo, nIdle, nTotal, fAllOk, batch, fOk,
                     vTempFailedChecks, mQuit, canceled, asleep, added, passed, failed,
                     lastCheck>>
  BY Zenon DEF EndBatch, Goto, sharedVars, historyVars
<1>c. /\ vChecks'[t] = {} /\ \A u \in Threads \ {t} : vChecks'[u] = vChecks[u]
      /\ pc'[t] = "done" /\ \A u \in Threads \ {t} : pc'[u] = pc[u]
  BY <1>a, <1>b, Zenon DEF TypeOK
<1>d. /\ Running' = Running /\ {u \in Threads : pc'[u] = "wait"} = {u \in Threads : pc[u] = "wait"}
      /\ \A u \in Threads : Busy(u)' <=> Busy(u)
  BY <1>b, <1>c, Zenon DEF Running, Busy
<1>e. /\ pc'[Master] = "none" <=> pc[Master] = "none"
      /\ pc'[Master] = "returned" <=> pc[Master] = "returned"
  BY <1>b, <1>c, MasterIsThread, Zenon
<1>f. Outstanding' = Outstanding
  BY <1>b, Zenon DEF Outstanding
<1>1. TypeOK'
  BY <1>a, <1>b, <1>d, Zenon DEF TypeOK
<1>2. CountersExact' /\ TodoCountsOutstanding'
  BY <1>a, <1>b, <1>d, <1>f, Zenon DEF Books, CountersExact, TodoCountsOutstanding
<1>3. Books'
  BY <1>a, <1>b, <1>d, <1>e, <1>f, <1>1, <1>2, Zenon DEF Books
<1>4. ASSUME pc[Master] # "none", ~canceled
      PROVE  Verdict'
  <2>a. Verdict
    BY <1>a, <1>4, Zenon DEF Session
  <2>2. ~SomeFailed => vChecks[t] = {}
    <3>1. Busy(t) /\ fOk[t] \in {"true", "false"}
      BY <1>a, <1>b, <2>a, Zenon DEF Busy, Verdict, TypeOK, Optional
    <3>2. QED
      BY <1>b, <1>4, <3>1, Zenon DEF SomeFailed
  <2>3. ~SomeFailed => UNION {vChecks'[u] : u \in Threads} = UNION {vChecks[u] : u \in Threads}
    BY <1>c, <2>2, Zenon
  <2>4. ~SomeFailed => added' \subseteq passed' \union queue'
                                        \union UNION {vChecks'[u] : u \in Threads}
    BY <1>b, <2>a, <2>3, Zenon DEF Verdict
  <2>5. QED
    BY <1>b, <1>d, <2>a, <2>4, VerdictStands, Zenon
<1>5. Session'
  <2>1. \A u \in Threads : vChecks'[u] \subseteq batch'[u]
    BY <1>a, <1>b, <1>c, Zenon DEF Session
  <2>2. \A u \in Threads : pc'[u] = "done" => vChecks'[u] = {}
    BY <1>a, <1>b, <1>c, Zenon DEF Session
  <2>3. QED
    BY <1>a, <1>b, <1>e, <1>4, <2>1, <2>2, Zenon DEF Session
<1>6. QED
  BY <1>3, <1>5, Zenon DEF IInv

-----------------------------------------------------------------------------
\* The master between two places outside Loop: nobody else moves, and the
\* threads in Loop are the same.
LEMMA MasterOutside ==
  ASSUME TypeOK, NEW label, pc' = [pc EXCEPT ![Master] = label],
         pc[Master] \in {"none", "open", "returned"}, label \in {"none", "open", "enter"}
  PROVE  /\ pc'[Master] = label /\ \A u \in Threads \ {Master} : pc'[u] = pc[u]
         /\ Running' = Running /\ ~Busy(Master) /\ Master \notin asleep
         /\ {u \in Threads : pc'[u] = "wait"} = {u \in Threads : pc[u] = "wait"}
         /\ pc' \in [Threads -> {"none", "open", "enter", "exec", "done", "wait", "returned", "gone"}]
         /\ \A u \in Threads : Busy(u)' <=> Busy(u)
<1>1. Master \in Threads
  BY MasterIsThread, Zenon
<1>2. pc'[Master] = label /\ \A u \in Threads \ {Master} : pc'[u] = pc[u]
  BY <1>1, Zenon DEF TypeOK
<1>3. Running' = Running
  BY <1>1, <1>2, Zenon DEF Running
<1>4. {u \in Threads : pc'[u] = "wait"} = {u \in Threads : pc[u] = "wait"}
  BY <1>1, <1>2, Zenon
<1>5. pc' \in [Threads -> {"none", "open", "enter", "exec", "done", "wait", "returned", "gone"}]
  BY <1>1, Zenon DEF TypeOK
<1>6. ~Busy(Master) /\ Master \notin asleep /\ \A u \in Threads : Busy(u)' <=> Busy(u)
  BY <1>1, <1>2, Zenon DEF TypeOK, Busy
<1>7. QED
  BY <1>2, <1>3, <1>4, <1>5, <1>6, Zenon

\* With nothing outstanding nobody is at work, and nothing of a batch is left.
LEMMA NobodyAtWork ==
  ASSUME Books, Session, Outstanding = {}
  PROVE  /\ \A u \in Threads : batch[u] = {} /\ ~Busy(u) /\ vChecks[u] = {}
         /\ queue = {} /\ Running = {u \in Threads : pc[u] = "wait"}
<1>1. queue = {} /\ \A u \in Threads : batch[u] = {}
  BY Zenon DEF Outstanding
<1>2. \A u \in Threads : ~Busy(u) /\ vChecks[u] = {}
  BY <1>1, Zenon DEF Books, Session
<1>3. Running = {u \in Threads : pc[u] = "wait"}
  BY <1>2, Zenon DEF Running, Busy
<1>4. QED
  BY <1>1, <1>2, <1>3, Zenon

\* A session starts: nothing is outstanding, so nothing has been found out yet.
LEMMA StartKeeps ==
  ASSUME IInv, StartCheckingSession
  PROVE  IInv'
<1>a. Books /\ TypeOK /\ Session
  BY Zenon DEF IInv, Books
<1>b. /\ pc[Master] = "none" /\ ~mQuit /\ canceled' = FALSE /\ fAllOk' = "true"
      /\ added' = {} /\ passed' = {} /\ failed' = {} /\ pc' = [pc EXCEPT ![Master] = "open"]
      /\ UNCHANGED <<queue, failedChecks, nTodo, nIdle, nTotal, batch, vChecks, fOk,
                     vTempFailedChecks, mQuit, asleep, lastCheck>>
  BY Zenon DEF StartCheckingSession, Goto, loopVars
<1>c. /\ pc'[Master] = "open" /\ \A u \in Threads \ {Master} : pc'[u] = pc[u]
      /\ Running' = Running
      /\ {u \in Threads : pc'[u] = "wait"} = {u \in Threads : pc[u] = "wait"}
      /\ pc' \in [Threads -> {"none", "open", "enter", "exec", "done", "wait", "returned", "gone"}]
      /\ \A u \in Threads : Busy(u)' <=> Busy(u)
  BY <1>a, <1>b, MasterOutside, Zenon
<1>d. Outstanding = {} /\ Outstanding' = {}
  BY <1>a, <1>b, Zenon DEF Books, Outstanding
<1>e. \A u \in Threads : batch[u] = {} /\ ~Busy(u) /\ vChecks[u] = {}
  BY <1>a, <1>d, NobodyAtWork, Zenon
<1>1. TypeOK'
  BY <1>a, <1>b, <1>c, Zenon DEF TypeOK, Optional
<1>2. CountersExact' /\ TodoCountsOutstanding'
  BY <1>a, <1>b, <1>c, <1>d, Zenon DEF Books, CountersExact, TodoCountsOutstanding
<1>3. Books'
  BY <1>a, <1>b, <1>c, <1>d, <1>1, <1>2, Zenon DEF Books
<1>4. Verdict'
  <2>1. ~SomeFailed'
    BY <1>b, <1>c, <1>e, Zenon DEF SomeFailed
  <2>2. QED
    BY <1>b, <1>c, <1>e, <2>1, Zenon DEF Verdict
<1>5. Session'
  BY <1>b, <1>c, <1>e, <1>4, Zenon DEF Session
<1>6. QED
  BY <1>3, <1>5, Zenon DEF IInv

\* The master goes into Loop.
LEMMA WaitKeeps ==
  ASSUME IInv, Wait
  PROVE  IInv'
<1>a. Books /\ TypeOK /\ Session
  BY Zenon DEF IInv, Books
<1>b. /\ pc[Master] = "open" /\ pc' = [pc EXCEPT ![Master] = "enter"]
      /\ vTempFailedChecks' = [vTempFailedChecks EXCEPT ![Master] = <<>>]
      /\ UNCHANGED <<queue, failedChecks, nTodo, nIdle, nTotal, fAllOk, batch, vChecks, fOk,
                     mQuit, canceled, asleep, added, passed, failed, lastCheck>>
  BY Zenon DEF Wait, Goto, sharedVars, historyVars
<1>c. /\ pc'[Master] = "enter" /\ \A u \in Threads \ {Master} : pc'[u] = pc[u]
      /\ Running' = Running /\ ~Busy(Master)
      /\ {u \in Threads : pc'[u] = "wait"} = {u \in Threads : pc[u] = "wait"}
      /\ pc' \in [Threads -> {"none", "open", "enter", "exec", "done", "wait", "returned", "gone"}]
      /\ \A u \in Threads : Busy(u)' <=> Busy(u)
  BY <1>a, <1>b, MasterOutside, Zenon
<1>d. Outstanding' = Outstanding
  BY <1>b, Zenon DEF Outstanding
<1>e. \A u \in Threads \ {Master} : vTempFailedChecks'[u] = vTempFailedChecks[u]
  BY <1>a, <1>b, Zenon DEF TypeOK
<1>1. TypeOK'
  <2>1. <<>> \in Seq(Nat)
    OBVIOUS
  <2>2. vTempFailedChecks' \in [Threads -> Seq(Nat)]
    BY <1>a, <1>b, <2>1, Zenon DEF TypeOK
  <2>3. QED
    BY <1>a, <1>b, <1>c, <2>2, Zenon DEF TypeOK
<1>2. CountersExact' /\ TodoCountsOutstanding'
  BY <1>a, <1>b, <1>c, <1>d, Zenon DEF Books, CountersExact, TodoCountsOutstanding
<1>3. Books'
  BY <1>a, <1>b, <1>c, <1>d, <1>1, <1>2, Zenon DEF Books
<1>4. ASSUME ~canceled
      PROVE  Verdict'
  <2>a. Verdict
    BY <1>a, <1>b, <1>4, Zenon DEF Session
  <2>1. SomeFailed' <=> SomeFailed
    BY <1>b, <1>c, Zenon DEF SomeFailed
  <2>2. ASSUME NEW d \in failed
        PROVE  Holds(failedChecks', d)
                 \/ \E u \in Threads : Busy(u)' /\ Holds(vTempFailedChecks'[u], d)
    BY <1>b, <1>c, <1>e, <2>a, Zenon DEF Verdict
  <2>3. \A d \in failed' : Holds(failedChecks, d)'
           \/ \E u \in Threads : Busy(u)' /\ Holds(vTempFailedChecks[u], d)'
    BY <1>b, <2>2, Zenon DEF Holds
  <2>4. ~SomeFailed' => added' \subseteq passed' \union queue'
                                         \union UNION {vChecks'[u] : u \in Threads}
    BY <1>b, <2>a, <2>1, Zenon DEF Verdict
  <2>5. fAllOk' # "none" /\ (failed' # {} <=> SomeFailed')
    BY <1>b, <2>a, <2>1, Zenon DEF Verdict
  <2>6. \A u \in Threads : Busy(u)' => fOk'[u] # "none"
    BY <1>b, <1>c, <2>a, Zenon DEF Verdict
  <2>7. QED
    BY <2>3, <2>4, <2>5, <2>6, Zenon DEF Verdict
<1>5. Session'
  <2>1. \A u \in Threads : pc'[u] = "done" => vChecks'[u] = {}
    BY <1>a, <1>b, <1>c, Zenon DEF Session
  <2>2. QED
    BY <1>a, <1>b, <1>c, <1>4, <2>1, Zenon DEF Session
<1>6. QED
  BY <1>3, <1>5, Zenon DEF IInv

\* The caller has the result, with the failed checks or without.
LEMMA SessionEndKeeps ==
  ASSUME IInv, TakeFailedChecks \/ ReturnWithoutTaking
  PROVE  IInv'
<1>a. Books /\ TypeOK /\ Session
  BY Zenon DEF IInv, Books
<1>b. /\ pc[Master] = "returned" /\ pc' = [pc EXCEPT ![Master] = "none"]
      /\ failedChecks' \in {failedChecks, <<>>}
      /\ UNCHANGED <<queue, nTodo, nIdle, nTotal, fAllOk, batch, vChecks, fOk,
                     vTempFailedChecks, mQuit, canceled, asleep, added, passed, failed,
                     lastCheck>>
  BY Zenon DEF TakeFailedChecks, ReturnWithoutTaking, Goto, sharedVars, loopVars, historyVars
<1>c. /\ pc'[Master] = "none" /\ \A u \in Threads \ {Master} : pc'[u] = pc[u]
      /\ Running' = Running
      /\ {u \in Threads : pc'[u] = "wait"} = {u \in Threads : pc[u] = "wait"}
      /\ pc' \in [Threads -> {"none", "open", "enter", "exec", "done", "wait", "returned", "gone"}]
      /\ \A u \in Threads : Busy(u)' <=> Busy(u)
  BY <1>a, <1>b, MasterOutside, Zenon
<1>d. Outstanding = {} /\ Outstanding' = {}
  BY <1>a, <1>b, Zenon DEF Books, Outstanding
<1>1. TypeOK'
  <2>1. failedChecks' \in Seq(Nat)
    <3>1. <<>> \in Seq(Nat) /\ failedChecks \in Seq(Nat)
      BY <1>a, SMTT(30) DEF TypeOK
    <3>2. failedChecks' = failedChecks \/ failedChecks' = <<>>
      BY <1>b, Zenon
    <3>3. QED
      BY <3>1, <3>2, Zenon
  <2>2. QED
    BY <1>a, <1>b, <1>c, <2>1, Zenon DEF TypeOK
<1>2. CountersExact' /\ TodoCountsOutstanding'
  BY <1>a, <1>b, <1>c, <1>d, Zenon DEF Books, CountersExact, TodoCountsOutstanding
<1>3. Books'
  BY <1>a, <1>b, <1>c, <1>d, <1>1, <1>2, Zenon DEF Books
<1>4. Session'
  <2>1. \A u \in Threads : pc'[u] = "done" => vChecks'[u] = {}
    BY <1>a, <1>b, <1>c, Zenon DEF Session
  <2>2. QED
    BY <1>a, <1>b, <1>c, <2>1, Zenon DEF Session
<1>5. QED
  BY <1>3, <1>4, Zenon DEF IInv

\* A step that only wakes threads, cancels a session under way or asks the
\* workers to leave while no session is open.
LEMMA SignalKeeps ==
  ASSUME IInv, asleep' \subseteq asleep,
         \/ UNCHANGED <<mQuit, canceled>>
         \/ UNCHANGED mQuit /\ canceled' = TRUE /\ pc[Master] # "returned"
         \/ UNCHANGED canceled /\ mQuit' = TRUE /\ pc[Master] = "none",
         UNCHANGED <<sharedVars, loopVars, historyVars, pc>>
  PROVE  IInv'
<1>a. Books /\ TypeOK /\ Session
  BY Zenon DEF IInv, Books
<1>b. UNCHANGED <<queue, failedChecks, nTodo, nIdle, nTotal, fAllOk, batch, vChecks, fOk,
                  vTempFailedChecks, added, passed, failed, lastCheck, pc>>
  BY Zenon DEF sharedVars, loopVars, historyVars
<1>1. TypeOK'
  <2>1. mQuit' \in BOOLEAN /\ canceled' \in BOOLEAN
    BY <1>a, Zenon DEF TypeOK
  <2>2. QED
    BY <1>a, <1>b, <2>1, Zenon DEF TypeOK
<1>2. Books'
  <2>1. Outstanding' = Outstanding /\ Running' = Running
    BY <1>b, Zenon DEF Outstanding, Running
  <2>2. TodoCountsOutstanding' /\ CountersExact'
    BY <1>a, <1>b, <2>1, Zenon DEF Books, TodoCountsOutstanding, CountersExact
  <2>3. mQuit' => pc'[Master] = "none"
    BY <1>a, <1>b, Zenon DEF Books
  <2>4. QED
    BY <1>a, <1>b, <1>1, <2>1, <2>2, <2>3, Zenon DEF Books, Busy
<1>3. ASSUME Verdict
      PROVE  Verdict'
  <2>1. \A u \in Threads : Busy(u)' <=> Busy(u)
    BY <1>b, Zenon DEF Busy
  <2>2. ~SomeFailed => added' \subseteq passed' \union queue'
                                        \union UNION {vChecks'[u] : u \in Threads}
    BY <1>b, <1>3, Zenon DEF Verdict
  <2>3. QED
    BY <1>b, <1>3, <2>1, <2>2, VerdictStands, Zenon
<1>4. Session'
  <2>1. pc'[Master] # "none" /\ ~canceled' => Verdict'
    BY <1>a, <1>b, <1>3, Zenon DEF Session
  <2>2. pc'[Master] = "returned" => (fAllOk' = "none" <=> canceled')
    BY <1>a, <1>b, Zenon DEF Session
  <2>3. QED
    BY <1>a, <1>b, <2>1, <2>2, Zenon DEF Session
<1>5. QED
  BY <1>2, <1>4, Zenon DEF IInv

-----------------------------------------------------------------------------
\* What the search for work does, in one formula: the thread takes the checks b,
\* or none because there are none and it waits, quits or, the master, returns.
Took(t, q, todo, ok, idle, total, sleepers, b) ==
  /\ queue' = q \ b /\ batch' = [batch EXCEPT ![t] = b] /\ nTodo' = todo
  /\ \/ /\ b # {} /\ fAllOk' = ok
        /\ vChecks' = [vChecks EXCEPT ![t] = b]
        /\ fOk' = [fOk EXCEPT ![t] = ok]
        /\ nIdle' = idle /\ nTotal' = total /\ asleep' = sleepers
        /\ pc' = [pc EXCEPT ![t] = "exec"]
     \/ /\ b = {} /\ q = {} /\ UNCHANGED <<vChecks, fOk>>
        /\ \/ /\ fAllOk' = ok /\ nIdle' = idle + 1 /\ nTotal' = total
              /\ asleep' = sleepers \union {t}
              /\ pc' = [pc EXCEPT ![t] = "wait"]
           \/ /\ mQuit /\ fAllOk' = ok /\ nIdle' = idle /\ nTotal' = total - 1
              /\ asleep' = sleepers
              /\ pc' = [pc EXCEPT ![t] = IF t = Master THEN "returned" ELSE "gone"]
           \/ /\ t = Master /\ todo = 0 /\ nIdle' = idle /\ nTotal' = total - 1
              /\ fAllOk' = IF canceled THEN "none" ELSE ok
              /\ asleep' = sleepers
              /\ pc' = [pc EXCEPT ![t] = "returned"]

\* The checks in the hands of the other threads.
Others(t) == UNION {batch[u] : u \in Threads \ {t}}

\* What a critical section of Loop hands to the search for work.
Before(t, q, todo, idle, total, sleepers) ==
  /\ pc[t] \in {"enter", "done", "wait"} /\ t \notin asleep
  /\ q \subseteq queue
  /\ todo = Cardinality(q \union Others(t))
  /\ idle = Cardinality(Waiting \ {t}) /\ total = Cardinality(Running \union {t})
  /\ sleepers \subseteq asleep

\* Afterwards what is outstanding is what is left in the queue, in the thread's
\* new batch and with the others.
LEMMA OutstandingAfter ==
  ASSUME TypeOK, NEW t \in Threads, NEW q, NEW b \in SUBSET q,
         queue' = q \ b, batch' = [batch EXCEPT ![t] = b]
  PROVE  Outstanding' = q \union Others(t)
<1>1. batch'[t] = b /\ \A u \in Threads \ {t} : batch'[u] = batch[u]
  BY Zenon DEF TypeOK
<1>2. UNION {batch'[u] : u \in Threads} = b \union Others(t)
  BY <1>1, Zenon DEF Others
<1>3. QED
  BY <1>2, Zenon DEF Outstanding

\* The counters of threads.
LEMMA CountersAfter ==
  ASSUME TypeOK, NEW t \in Threads, NEW label,
         nIdle' = Cardinality(IF label = "wait" THEN Waiting \union {t} ELSE Waiting \ {t}),
         nTotal' = Cardinality(IF label \in {"exec", "done", "wait"}
                               THEN Running \union {t} ELSE Running \ {t}),
         pc' = [pc EXCEPT ![t] = label]
  PROVE  CountersExact'
<1>1. pc'[t] = label /\ \A u \in Threads \ {t} : pc'[u] = pc[u]
  BY Zenon DEF TypeOK
<1>2. {u \in Threads : pc'[u] = "wait"}
        = IF label = "wait" THEN Waiting \union {t} ELSE Waiting \ {t}
  BY <1>1, Zenon DEF Waiting
<1>3. {u \in Threads : pc'[u] \in {"exec", "done", "wait"}}
        = IF label \in {"exec", "done", "wait"} THEN Running \union {t} ELSE Running \ {t}
  BY <1>1, Zenon DEF Running
<1>4. QED
  BY <1>2, <1>3, Zenon DEF CountersExact, Running

\* The search for work ends with the thread at one of these places.
LEMMA TookLabel ==
  ASSUME TypeOK, NEW t \in Threads, NEW q, NEW todo, NEW ok, NEW idle, NEW total,
         NEW sleepers, NEW b, Took(t, q, todo, ok, idle, total, sleepers, b)
  PROVE  \E label \in {"exec", "wait", "gone", "returned"} :
           /\ pc' = [pc EXCEPT ![t] = label]
           /\ label = "exec" <=> b # {}
           /\ label = "exec" => nIdle' = idle /\ nTotal' = total /\ asleep' = sleepers
           /\ label = "wait" => nIdle' = idle + 1 /\ nTotal' = total
                                /\ asleep' = sleepers \union {t}
           /\ label \in {"gone", "returned"} =>
                nIdle' = idle /\ nTotal' = total - 1 /\ asleep' = sleepers
           /\ label \in {"gone", "returned"} => mQuit \/ (t = Master /\ todo = 0)
BY Zenon DEF Took

\* What it hands over of the results.
Handed(t, q, ok) ==
  /\ canceled \/ q = queue
  /\ pc[Master] # "none" /\ ~canceled =>
       /\ ok # "none"
       /\ ok = "false" <=> fAllOk = "false" \/ (Busy(t) /\ fOk[t] = "false")
       /\ Busy(t) => \A c : Holds(vTempFailedChecks[t], c) => Holds(failedChecks', c)
  /\ pc[Master] = "returned" => ok = fAllOk
  /\ \A c : Holds(failedChecks, c) => Holds(failedChecks', c)

\* The search for work loses no check and no failure.
LEMMA SessionAfter ==
  ASSUME IInv, NEW t \in Threads, NEW q, NEW todo, NEW ok \in Optional, NEW idle, NEW total,
         NEW sleepers, NEW b \in SUBSET q,
         Before(t, q, todo, idle, total, sleepers), Handed(t, q, ok),
         Took(t, q, todo, ok, idle, total, sleepers, b),
         UNCHANGED <<vTempFailedChecks, mQuit, canceled, historyVars>>
  PROVE  Session'
<1>a. TypeOK /\ Session
  BY Zenon DEF IInv, Books
<1>b. PICK label \in {"exec", "wait", "gone", "returned"} :
        /\ pc' = [pc EXCEPT ![t] = label]
        /\ label = "exec" <=> b # {}
  BY <1>a, TookLabel, SMTT(30)
<1>c. queue' = q \ b /\ batch' = [batch EXCEPT ![t] = b]
  BY Zenon DEF Took
<1>d. /\ pc'[t] = label /\ \A u \in Threads \ {t} : pc'[u] = pc[u]
      /\ batch'[t] = b /\ \A u \in Threads \ {t} : batch'[u] = batch[u]
  BY <1>a, <1>b, <1>c, Zenon DEF TypeOK
<1>e. vChecks[t] = {}
  BY Zenon DEF Before, IInv, Books, Session, Busy
<1>f. /\ vChecks'[t] = b /\ \A u \in Threads \ {t} : vChecks'[u] = vChecks[u]
      /\ b # {} => fOk'[t] = ok
      /\ \A u \in Threads \ {t} : fOk'[u] = fOk[u]
  BY <1>a, <1>e, Zenon DEF TypeOK, Took
<1>g. UNCHANGED <<mQuit, canceled, added, passed, failed, vTempFailedChecks>>
  BY Zenon DEF historyVars
<1>h. t = Master => pc[Master] \notin {"none", "returned"} /\ ~mQuit
  BY Zenon DEF IInv, Books, Before
<1>1. ASSUME NEW u \in Threads
      PROVE  vChecks'[u] \subseteq batch'[u] /\ (pc'[u] = "done" => vChecks'[u] = {})
  <2>1. CASE u = t
    BY <1>b, <1>d, <1>f, <2>1, Zenon
  <2>2. CASE u # t
    BY <1>a, <1>d, <1>f, <2>2, Zenon DEF Session
  <2>3. QED
    BY <2>1, <2>2, Zenon
<1>2. ASSUME pc'[Master] # "none", ~canceled' PROVE Verdict'
  <2>1. pc[Master] # "none" /\ ~canceled
    <3>1. ~canceled
      BY <1>2, <1>g, SMTT(30)
    <3>2. CASE t = Master
      BY <1>h, <3>1, <3>2, Zenon
    <3>3. CASE t # Master
      <4>1. pc'[Master] = pc[Master]
        BY <1>d, <3>3, MasterIsThread, Zenon
      <4>2. QED
        BY <1>2, <3>1, <4>1, Zenon
    <3>4. QED
      BY <3>2, <3>3, Zenon
  <2>2. Verdict
    BY <1>a, <2>1, Zenon DEF Session
  <2>3. fAllOk' = ok
    BY <2>1, Zenon DEF Took
  <2>4. /\ ok # "none"
        /\ ok = "false" <=> fAllOk = "false" \/ (Busy(t) /\ fOk[t] = "false")
        /\ q = queue
    BY <2>1, Zenon DEF Handed
  <2>5. \A u \in Threads \ {t} : Busy(u)' <=> Busy(u)
    BY <1>d, Zenon DEF Busy
  <2>6. Busy(t)' <=> b # {}
    BY <1>b, <1>d, Zenon DEF Busy
  <2>7. ASSUME NEW u \in Threads, Busy(u)' PROVE fOk'[u] # "none"
    <3>1. CASE u = t
      BY <1>f, <2>4, <2>6, <2>7, <3>1, Zenon
    <3>2. CASE u # t
      BY <1>f, <2>2, <2>5, <2>7, <3>2, Zenon DEF Verdict
    <3>3. QED
      BY <3>1, <3>2, Zenon
  <2>8. SomeFailed' <=> SomeFailed
    <3>1. ASSUME SomeFailed' PROVE SomeFailed
      <4>1. CASE fAllOk' = "false"
        BY <4>1, <2>3, <2>4, Zenon DEF SomeFailed
      <4>2. CASE \E u \in Threads : Busy(u)' /\ fOk'[u] = "false"
        <5>1. PICK u \in Threads : Busy(u)' /\ fOk'[u] = "false"
          BY <4>2, Zenon
        <5>2. CASE u = t
          BY <5>1, <5>2, <1>f, <2>4, <2>6, Zenon DEF SomeFailed
        <5>3. CASE u # t
          BY <5>1, <5>3, <1>f, <2>5, Zenon DEF SomeFailed
        <5>4. QED
          BY <5>2, <5>3, Zenon
      <4>3. QED
        BY <3>1, <4>1, <4>2, Zenon DEF SomeFailed
    <3>2. ASSUME SomeFailed PROVE SomeFailed'
      <4>1. CASE fAllOk = "false"
        BY <4>1, <2>3, <2>4, Zenon DEF SomeFailed
      <4>2. CASE \E u \in Threads : Busy(u) /\ fOk[u] = "false"
        <5>1. PICK u \in Threads : Busy(u) /\ fOk[u] = "false"
          BY <4>2, Zenon
        <5>2. CASE u = t
          BY <5>1, <5>2, <2>3, <2>4, Zenon DEF SomeFailed
        <5>3. CASE u # t
          BY <5>1, <5>3, <1>f, <2>5, Zenon DEF SomeFailed
        <5>4. QED
          BY <5>2, <5>3, Zenon
      <4>3. QED
        BY <3>2, <4>1, <4>2, Zenon DEF SomeFailed
    <3>3. QED
      BY <3>1, <3>2, Zenon
  <2>9. queue \union UNION {vChecks[u] : u \in Threads}
          \subseteq queue' \union UNION {vChecks'[u] : u \in Threads}
    <3>1. queue \subseteq queue' \union vChecks'[t]
      BY <1>c, <1>f, <2>4, Zenon
    <3>2. \A u \in Threads : vChecks[u] \subseteq vChecks'[u]
      BY <1>e, <1>f, Zenon
    <3>3. QED
      BY <3>1, <3>2, Zenon
  <2>10. ASSUME NEW c \in failed
         PROVE  \/ Holds(failedChecks', c)
                \/ \E u \in Threads : Busy(u)' /\ Holds(vTempFailedChecks'[u], c)
    <3>1. CASE Holds(failedChecks, c)
      BY <3>1, Zenon DEF Handed
    <3>2. CASE \E u \in Threads : Busy(u) /\ Holds(vTempFailedChecks[u], c)
      <4>1. PICK u \in Threads : Busy(u) /\ Holds(vTempFailedChecks[u], c)
        BY <3>2, Zenon
      <4>2. CASE u = t
        BY <4>1, <4>2, <2>1, Zenon DEF Handed
      <4>3. CASE u # t
        BY <4>1, <4>3, <1>g, <2>5, Zenon
      <4>4. QED
        BY <4>2, <4>3, Zenon
    <3>3. QED
      BY <2>2, <3>1, <3>2, Zenon DEF Verdict
  <2>11. (failed # {} <=> SomeFailed)'
    BY <1>g, <2>2, <2>8, Zenon DEF Verdict
  <2>12. ~SomeFailed' => added' \subseteq passed' \union queue'
                                           \union UNION {vChecks'[u] : u \in Threads}
    BY <1>g, <2>2, <2>8, <2>9, Zenon DEF Verdict
  <2>13. \A c \in failed' :
           \/ Holds(failedChecks', c)
           \/ \E u \in Threads : Busy(u)' /\ Holds(vTempFailedChecks'[u], c)
    BY <1>g, <2>10, Zenon
  <2>14. QED
    BY <2>3, <2>4, <2>7, <2>11, <2>12, <2>13, Zenon DEF Verdict
<1>3. ASSUME pc'[Master] = "returned" PROVE fAllOk' = "none" <=> canceled'
  <2>1. CASE t = Master
    <3>1. fAllOk' = IF canceled THEN "none" ELSE ok
      <4>1. b = {}
        BY <1>3, <1>b, <1>d, <2>1, Zenon
      <4>2. pc'[Master] = "returned" /\ pc \in [Threads -> {"none", "open", "enter", "exec",
                                                 "done", "wait", "returned", "gone"}]
        BY <1>3, <1>a, Zenon DEF TypeOK
      <4>3. QED
        BY <4>1, <4>2, <1>h, <2>1, Zenon DEF Took
    <3>2. ~canceled => ok # "none"
      BY <1>h, <2>1, Zenon DEF Handed
    <3>3. QED
      BY <1>g, <3>1, <3>2, SMTT(30)
  <2>2. CASE t # Master
    <3>1. pc[Master] = "returned"
      BY <1>3, <1>d, <2>2, MasterIsThread, Zenon
    <3>2. fAllOk' = fAllOk
      BY <2>2, <3>1, Zenon DEF Took, Handed
    <3>3. QED
      BY <1>a, <1>g, <3>1, <3>2, SMTT(30) DEF Session
  <2>3. QED
    BY <2>1, <2>2, Zenon
<1>4. QED
  BY <1>1, <1>2, <1>3, Zenon DEF Session

\* What it hands to the search for work: the joined verdict and its failed checks.
LEMMA CleanUpHands ==
  ASSUME IInv, NEW t \in Threads, pc[t] = "done", failedChecks' = HandInFailed(t)
  PROVE  /\ Handed(t, QueueAfterDrain, JoinedVerdict(t)) /\ failedChecks' \in Seq(Nat)
         /\ JoinedVerdict(t) \in Optional
<1>a. TypeOK /\ Session /\ Books
  BY Zenon DEF IInv, Books
<1>b. failedChecks \in Seq(Nat) /\ vTempFailedChecks[t] \in Seq(Nat) /\ Busy(t)
  BY <1>a, Zenon DEF TypeOK, Busy
<1>1. failedChecks' \in Seq(Nat)
  BY <1>b, SMTT(30) DEF HandInFailed
<1>2. ASSUME NEW c, Holds(failedChecks, c)
      PROVE  Holds(failedChecks', c)
  BY <1>b, <1>2, HoldsConcat, Zenon DEF HandInFailed
<1>3. ASSUME NEW c, BothDecided(t), Holds(vTempFailedChecks[t], c)
      PROVE  Holds(failedChecks', c)
  BY <1>b, <1>3, HoldsConcat, Zenon DEF HandInFailed
<1>4. pc[Master] # "returned"
  <2>1. batch[t] # {} /\ batch[t] \subseteq Outstanding
    BY <1>a, <1>b, Zenon DEF Books, Outstanding
  <2>2. QED
    BY <2>1, <1>a, Zenon DEF Books
<1>5. ASSUME pc[Master] # "none", ~canceled
      PROVE  /\ BothDecided(t) /\ JoinedVerdict(t) # "none"
             /\ JoinedVerdict(t) = "false" <=> fAllOk = "false" \/ fOk[t] = "false"
  <2>1. Verdict
    BY <1>a, <1>5, Zenon DEF Session
  <2>2. fAllOk # "none" /\ fOk[t] # "none"
    BY <2>1, <1>b, Zenon DEF Verdict
  <2>3. fAllOk \in {"true", "false"} /\ fOk[t] \in {"true", "false"}
    BY <1>a, <2>2, Zenon DEF TypeOK, Optional
  <2>4. QED
    BY <2>2, <2>3, Zenon DEF BothDecided, JoinedVerdict
<1>6. JoinedVerdict(t) \in Optional
  BY Zenon DEF JoinedVerdict, Optional
<1>7. canceled \/ QueueAfterDrain = queue
  BY Zenon DEF QueueAfterDrain
<1>8. Handed(t, QueueAfterDrain, JoinedVerdict(t))
  BY <1>2, <1>3, <1>4, <1>5, <1>7, <1>b, Zenon DEF Handed
<1>9. QED
  BY <1>1, <1>6, <1>8, Zenon

-----------------------------------------------------------------------------
\* The threads are finitely many.
LEMMA ThreadsFinite == IsFiniteSet(Threads)
BY WorkersFinite, FS_AddElement, Zenon DEF Threads

\* So are the checks.
LEMMA ChecksFinite ==
  ASSUME TypeOK
  PROVE  /\ IsFiniteSet(1 .. lastCheck)
         /\ \A S \in SUBSET (1 .. lastCheck) : IsFiniteSet(S) /\ Cardinality(S) \in Nat
         /\ queue \in SUBSET (1 .. lastCheck) /\ Outstanding \in SUBSET (1 .. lastCheck)
<1>1. IsFiniteSet(1 .. lastCheck)
  <2>1. 1 \in Int /\ lastCheck \in Int
    BY SMTT(30) DEF TypeOK
  <2>2. QED
    BY <2>1, FS_Interval, Zenon
<1>2. ASSUME NEW S \in SUBSET (1 .. lastCheck)
      PROVE  IsFiniteSet(S) /\ Cardinality(S) \in Nat
  BY <1>1, FS_Subset, FS_CardinalityType, Zenon
<1>3. queue \in SUBSET (1 .. lastCheck) /\ Outstanding \in SUBSET (1 .. lastCheck)
  <2>1. queue \in SUBSET (1 .. lastCheck)
    BY Zenon DEF TypeOK
  <2>2. \A t \in Threads : batch[t] \subseteq 1 .. lastCheck
    BY Zenon DEF TypeOK
  <2>3. QED
    BY <2>1, <2>2, Zenon DEF Outstanding
<1>4. QED
  BY <1>1, <1>2, <1>3, Zenon

\* Counting what is left of a finite set when a part of it goes.
LEMMA CountRest ==
  ASSUME NEW S, IsFiniteSet(S), NEW T \in SUBSET S
  PROVE  Cardinality(S \ T) = Cardinality(S) - Cardinality(T)
<1>1. IsFiniteSet(T) /\ IsFiniteSet(S \ T)
  BY FS_Subset, Zenon
<1>2. (S \ T) \union T = S /\ (S \ T) \intersect T = {}
  OBVIOUS
<1>3. Cardinality(S) = Cardinality(S \ T) + Cardinality(T) - 0
  BY <1>1, <1>2, FS_Union, FS_EmptySet, Zenon
<1>4. Cardinality(S \ T) \in Nat /\ Cardinality(T) \in Nat
  BY <1>1, FS_CardinalityType, Zenon
<1>5. QED
  BY <1>3, <1>4, SMTT(30)

\* The search for work is a case of it.
LEMMA FindWorkTakes ==
  ASSUME NEW t, NEW q, NEW todo, NEW ok, NEW idle, NEW total, NEW sleepers,
         FindWork(t, q, todo, ok, idle, total, sleepers)
  PROVE  \E b \in SUBSET q : Took(t, q, todo, ok, idle, total, sleepers, b)
<1>1. CASE QuitLoop(t, q, todo, ok, idle, total, sleepers)
  <2>1. Took(t, q, todo, ok, idle, total, sleepers, {})
    BY <1>1, Zenon DEF QuitLoop, Took, Goto
  <2>2. QED
    BY <2>1, Zenon
<1>2. CASE ReturnVerdict(t, q, todo, ok, idle, total, sleepers)
  <2>1. Took(t, q, todo, ok, idle, total, sleepers, {})
    BY <1>2, Zenon DEF ReturnVerdict, CanReturn, Took, Goto
  <2>2. QED
    BY <2>1, Zenon
<1>3. CASE WaitForWork(t, q, todo, ok, idle, total, sleepers)
  <2>1. Took(t, q, todo, ok, idle, total, sleepers, {})
    BY <1>3, Zenon DEF WaitForWork, Took, Goto
  <2>2. QED
    BY <2>1, Zenon
<1>4. CASE TakeBatch(t, q, todo, ok, idle, total, sleepers)
  <2>1. PICK b \in SUBSET q :
          /\ Cardinality(b) = NowSize(q, idle, total)
          /\ queue' = q \ b /\ nTodo' = todo /\ fAllOk' = ok /\ nIdle' = idle /\ nTotal' = total
          /\ asleep' = sleepers
          /\ batch' = [batch EXCEPT ![t] = b]
          /\ vChecks' = [vChecks EXCEPT ![t] = b]
          /\ fOk' = [fOk EXCEPT ![t] = ok]
          /\ Goto(t, "exec")
    BY <1>4, Zenon DEF TakeBatch
  <2>2. NowSize(q, idle, total) # 0
    BY SMTT(30) DEF NowSize
  <2>3. b # {}
    BY <2>1, <2>2, FS_EmptySet, Zenon
  <2>4. Took(t, q, todo, ok, idle, total, sleepers, b)
    BY <2>1, <2>3, Zenon DEF Took, Goto
  <2>5. QED
    BY <2>4, Zenon
<1>5. QED
  BY <1>1, <1>2, <1>3, <1>4, Zenon DEF FindWork

\* The numbers the search for work computes with.
LEMMA CountersHanded ==
  ASSUME NEW t \in Threads
  PROVE  /\ Cardinality(Waiting \ {t}) + 1 = Cardinality(Waiting \union {t})
         /\ Cardinality(Running \union {t}) - 1 = Cardinality(Running \ {t})
         /\ Cardinality(Waiting \union {t}) \in Nat /\ Cardinality(Waiting \ {t}) \in Nat
         /\ Cardinality(Running \union {t}) \in Nat /\ Cardinality(Running \ {t}) \in Nat
<1>1. IsFiniteSet(Waiting) /\ IsFiniteSet(Running)
  BY ThreadsFinite, FS_Subset, Zenon DEF Waiting, Running
<1>2. IsFiniteSet(Waiting \ {t}) /\ IsFiniteSet(Running \ {t})
  BY <1>1, FS_Subset, Zenon
<1>3. /\ (Waiting \ {t}) \union {t} = Waiting \union {t}
      /\ (Running \ {t}) \union {t} = Running \union {t}
      /\ t \notin Waiting \ {t} /\ t \notin Running \ {t}
  OBVIOUS
<1>4. /\ Cardinality(Waiting \union {t}) = Cardinality(Waiting \ {t}) + 1
      /\ Cardinality(Running \union {t}) = Cardinality(Running \ {t}) + 1
  BY <1>2, <1>3, FS_AddElement, Zenon
<1>5. Cardinality(Waiting \ {t}) \in Nat /\ Cardinality(Running \ {t}) \in Nat
  BY <1>2, FS_CardinalityType, Zenon
<1>6. QED
  BY <1>4, <1>5, SMTT(30)

\* The books are right after the search for work.
LEMMA BooksAfter ==
  ASSUME Books, NEW t \in Threads, NEW q, NEW todo, NEW ok \in Optional, NEW idle, NEW total,
         NEW sleepers, NEW b \in SUBSET q,
         Before(t, q, todo, idle, total, sleepers),
         Took(t, q, todo, ok, idle, total, sleepers, b),
         failedChecks' \in Seq(Nat),
         UNCHANGED <<vTempFailedChecks, mQuit, canceled, historyVars>>
  PROVE  Books'
<1>a. TypeOK
  BY Zenon DEF Books
<1>b. PICK label \in {"exec", "wait", "gone", "returned"} :
        /\ pc' = [pc EXCEPT ![t] = label]
        /\ label = "exec" <=> b # {}
        /\ label = "exec" => nIdle' = idle /\ nTotal' = total /\ asleep' = sleepers
        /\ label = "wait" => nIdle' = idle + 1 /\ nTotal' = total
                             /\ asleep' = sleepers \union {t}
        /\ label \in {"gone", "returned"} =>
             nIdle' = idle /\ nTotal' = total - 1 /\ asleep' = sleepers
        /\ label \in {"gone", "returned"} => mQuit \/ (t = Master /\ todo = 0)
  BY <1>a, TookLabel, Zenon
<1>c. queue' = q \ b /\ batch' = [batch EXCEPT ![t] = b] /\ nTodo' = todo
  BY Zenon DEF Took
<1>d. /\ pc'[t] = label /\ \A u \in Threads \ {t} : pc'[u] = pc[u]
      /\ batch'[t] = b /\ \A u \in Threads \ {t} : batch'[u] = batch[u]
  BY <1>a, <1>b, <1>c, Zenon DEF TypeOK
<1>e. q \subseteq queue /\ sleepers \subseteq asleep /\ t \notin asleep
  BY Zenon DEF Before
<1>1. Outstanding' = q \union Others(t)
  BY <1>a, <1>c, OutstandingAfter, Zenon
<1>2. Outstanding' \subseteq Outstanding
  BY <1>1, <1>e, Zenon DEF Others, Outstanding
<1>3. TodoCountsOutstanding'
  BY <1>1, <1>c, Zenon DEF TodoCountsOutstanding, Before
<1>4. CountersExact'
  <2>1. /\ idle = Cardinality(Waiting \ {t}) /\ idle + 1 = Cardinality(Waiting \union {t})
        /\ total = Cardinality(Running \union {t}) /\ total - 1 = Cardinality(Running \ {t})
    BY CountersHanded, Zenon DEF Before
  <2>2. /\ nIdle' = Cardinality(IF label = "wait" THEN Waiting \union {t} ELSE Waiting \ {t})
        /\ nTotal' = Cardinality(IF label \in {"exec", "done", "wait"}
                                 THEN Running \union {t} ELSE Running \ {t})
    BY <1>b, <2>1, Zenon
  <2>3. QED
    BY <1>a, <1>b, <2>2, CountersAfter, Zenon
<1>5. TypeOK'
  <2>1. UNCHANGED <<mQuit, canceled, added, passed, failed, lastCheck, vTempFailedChecks>>
    BY Zenon DEF historyVars
  <2>2. queue' \subseteq 1 .. lastCheck' /\ batch' \in [Threads -> SUBSET (1 .. lastCheck')]
    BY <1>a, <1>c, <1>e, <2>1, Zenon DEF TypeOK
  <2>3. vChecks' \in [Threads -> SUBSET (1 .. lastCheck')]
    BY <1>a, <1>e, <2>1, Zenon DEF TypeOK, Took
  <2>4. fOk' \in [Threads -> Optional] /\ fAllOk' \in Optional
    BY <1>a, Zenon DEF TypeOK, Took, Optional
  <2>5. pc' \in [Threads -> {"none", "open", "enter", "exec", "done", "wait", "returned", "gone"}]
    BY <1>a, <1>b, Zenon DEF TypeOK
  <2>6. asleep' \subseteq {u \in Threads : pc'[u] = "wait"}
    <3>1. asleep \subseteq {u \in Threads : pc[u] = "wait"}
      BY <1>a, Zenon DEF TypeOK
    <3>2. asleep' \subseteq asleep \union {t} /\ (t \in asleep' => label = "wait")
      BY <1>b, <1>e, Zenon
    <3>3. QED
      BY <1>d, <3>1, <3>2, Zenon
  <2>7. nIdle' \in Nat /\ nTotal' \in Nat
    BY <1>b, CountersHanded, Zenon DEF Before
  <2>8. nTodo' \in Nat
    <3>1. q \union Others(t) \in SUBSET (1 .. lastCheck)
      BY <1>1, <1>2, <1>a, ChecksFinite, Zenon
    <3>2. QED
      BY <1>a, <1>c, <3>1, ChecksFinite, Zenon DEF Before
  <2>9. /\ lastCheck' \in Nat /\ mQuit' \in BOOLEAN /\ canceled' \in BOOLEAN
        /\ added' \subseteq 1 .. lastCheck' /\ passed' \subseteq added' /\ failed' \subseteq added'
        /\ vTempFailedChecks' \in [Threads -> Seq(Nat)]
    BY <1>a, <2>1, Zenon DEF TypeOK
  <2>10. QED
    BY <2>2, <2>3, <2>4, <2>5, <2>6, <2>7, <2>8, <2>9, Zenon DEF TypeOK
<1>6. ASSUME NEW u \in Threads PROVE (batch[u] # {} <=> Busy(u))'
  <2>1. CASE u = t
    BY <1>b, <1>d, <2>1, Zenon DEF Busy
  <2>2. CASE u # t
    BY <1>d, <2>2, Zenon DEF Busy, Books
  <2>3. QED
    BY <2>1, <2>2, Zenon
<1>7. ASSUME NEW u \in Threads PROVE batch'[u] \intersect queue' = {}
  BY <1>c, <1>d, <1>e, Zenon DEF Books
<1>8. ASSUME NEW u \in Threads, NEW v \in Threads, u # v
      PROVE  batch'[u] \intersect batch'[v] = {}
  BY <1>d, <1>e, <1>8, Zenon DEF Books
<1>9. Outstanding' \subseteq added'
  BY <1>2, Zenon DEF Books, historyVars
<1>10. t = Master => ~mQuit
  BY Zenon DEF Books, Before
<1>11. mQuit' => pc'[Master] = "none"
  <2>1. CASE t = Master
    BY <1>10, <2>1, Zenon
  <2>2. CASE t # Master
    BY <1>d, <2>2, MasterIsThread, Zenon DEF Books
  <2>3. QED
    BY <2>1, <2>2, Zenon
<1>12. ASSUME pc'[Master] \in {"none", "returned"} PROVE Outstanding' = {}
  <2>1. CASE t = Master
    <3>1. todo = 0
      BY <1>b, <1>d, <1>10, <1>12, <2>1, Zenon
    <3>2. IsFiniteSet(Outstanding') /\ Cardinality(Outstanding') = 0
      BY <1>1, <1>2, <1>a, <3>1, ChecksFinite, Zenon DEF Before
    <3>3. QED
      BY <3>2, FS_EmptySet, Zenon
  <2>2. CASE t # Master
    BY <1>2, <1>d, <1>12, <2>2, MasterIsThread, Zenon DEF Books
  <2>3. QED
    BY <2>1, <2>2, Zenon
<1>13. QED
  BY <1>3, <1>4, <1>5, <1>6, <1>7, <1>8, <1>9, <1>11, <1>12, Zenon DEF Books

\* A thread that enters Loop.
LEMMA EnterLoopKeeps ==
  ASSUME IInv, NEW t \in Threads, EnterLoop(t)
  PROVE  IInv'
<1>a. Books /\ TypeOK /\ Session
  BY Zenon DEF IInv, Books
<1>1. pc[t] = "enter" /\ ~Busy(t) /\ batch[t] = {} /\ t \notin Waiting /\ t \notin Running
  BY <1>a, Zenon DEF EnterLoop, Busy, Books, Waiting, Running
<1>2. Before(t, queue, nTodo, nIdle, nTotal + 1, asleep)
  <2>1. Outstanding = queue \union Others(t)
    BY <1>1, Zenon DEF Outstanding, Others
  <2>2. nTodo = Cardinality(queue \union Others(t))
    BY <1>a, <2>1, Zenon DEF Books, TodoCountsOutstanding
  <2>3. nIdle = Cardinality(Waiting \ {t})
    <3>1. Waiting \ {t} = Waiting
      BY <1>1, Zenon
    <3>2. QED
      BY <1>a, <3>1, Zenon DEF Books, CountersExact, Waiting
  <2>4. nTotal + 1 = Cardinality(Running \union {t})
    <3>1. IsFiniteSet(Running)
      BY ThreadsFinite, FS_Subset, Zenon DEF Running
    <3>2. QED
      BY <1>1, <1>a, <3>1, FS_AddElement, Zenon DEF Books, CountersExact
  <2>5. t \notin asleep
    BY <1>1, <1>a, Zenon DEF TypeOK
  <2>6. QED
    BY <1>1, <2>2, <2>3, <2>4, <2>5, Zenon DEF Before
<1>3. UNCHANGED <<failedChecks, vTempFailedChecks, mQuit, canceled, historyVars>>
  BY Zenon DEF EnterLoop
<1>4. Handed(t, queue, fAllOk)
  BY <1>a, <1>1, <1>3, Zenon DEF Handed, Session, Verdict
<1>5. fAllOk \in Optional /\ failedChecks' \in Seq(Nat)
  BY <1>a, <1>3, Zenon DEF TypeOK
<1>6. PICK b \in SUBSET queue : Took(t, queue, nTodo, fAllOk, nIdle, nTotal + 1, asleep, b)
  BY FindWorkTakes, Zenon DEF EnterLoop
<1>7. Books'
  BY <1>a, <1>2, <1>3, <1>5, <1>6, BooksAfter, Zenon
<1>8. Session'
  BY <1>2, <1>3, <1>4, <1>5, <1>6, SessionAfter, Zenon
<1>9. QED
  BY <1>7, <1>8, Zenon DEF IInv

\* A thread that has been woken.
LEMMA ResumeKeeps ==
  ASSUME IInv, NEW t \in Threads, Resume(t)
  PROVE  IInv'
<1>a. Books /\ TypeOK /\ Session
  BY Zenon DEF IInv, Books
<1>1. pc[t] = "wait" /\ ~Busy(t) /\ batch[t] = {} /\ t \in Waiting /\ t \in Running
  BY <1>a, Zenon DEF Resume, Busy, Books, Waiting, Running
<1>2. Before(t, queue, nTodo, nIdle - 1, nTotal, asleep)
  <2>1. Outstanding = queue \union Others(t)
    BY <1>1, Zenon DEF Outstanding, Others
  <2>2. nTodo = Cardinality(queue \union Others(t))
    BY <1>a, <2>1, Zenon DEF Books, TodoCountsOutstanding
  <2>3. nIdle - 1 = Cardinality(Waiting \ {t})
    <3>1. IsFiniteSet(Waiting) /\ nIdle = Cardinality(Waiting)
      BY <1>a, ThreadsFinite, FS_Subset, Zenon DEF Waiting, Books, CountersExact
    <3>2. QED
      BY <1>1, <3>1, FS_RemoveElement, Zenon
  <2>4. nTotal = Cardinality(Running \union {t})
    <3>1. Running \union {t} = Running
      BY <1>1, Zenon
    <3>2. QED
      BY <1>a, <3>1, Zenon DEF Books, CountersExact
  <2>5. t \notin asleep
    BY Zenon DEF Resume
  <2>6. QED
    BY <1>1, <2>2, <2>3, <2>4, <2>5, Zenon DEF Before
<1>3. UNCHANGED <<failedChecks, vTempFailedChecks, mQuit, canceled, historyVars>>
  BY Zenon DEF Resume
<1>4. Handed(t, queue, fAllOk)
  BY <1>a, <1>1, <1>3, Zenon DEF Handed, Session, Verdict
<1>5. fAllOk \in Optional /\ failedChecks' \in Seq(Nat)
  BY <1>a, <1>3, Zenon DEF TypeOK
<1>6. PICK b \in SUBSET queue : Took(t, queue, nTodo, fAllOk, nIdle - 1, nTotal, asleep, b)
  BY FindWorkTakes, Zenon DEF Resume, IdleGuardReleased
<1>7. Books'
  BY <1>a, <1>2, <1>3, <1>5, <1>6, BooksAfter, Zenon
<1>8. Session'
  BY <1>2, <1>3, <1>4, <1>5, <1>6, SessionAfter, Zenon
<1>9. QED
  BY <1>7, <1>8, Zenon DEF IInv

\* A thread that has executed its batch: what is left to do.
LEMMA TodoAfterDrain ==
  ASSUME Books, NEW t \in Threads
  PROVE  TodoAfterBatch(t) = Cardinality(QueueAfterDrain \union Others(t))
<1>a. TypeOK
  BY Zenon DEF Books
<1>b. /\ Outstanding = queue \union Others(t) \union batch[t]
      /\ batch[t] \intersect queue = {}
      /\ batch[t] \intersect Others(t) = {} /\ queue \intersect Others(t) = {}
  BY SMTT(30) DEF Books, Outstanding, Others
<1>c. /\ IsFiniteSet(Outstanding) /\ nTodo = Cardinality(Outstanding)
      /\ batch[t] \subseteq Outstanding /\ queue \subseteq Outstanding
  BY <1>a, <1>b, ChecksFinite, Zenon DEF Books, TodoCountsOutstanding
<1>1. Cardinality(Outstanding \ batch[t]) = nTodo - Cardinality(batch[t])
  BY <1>c, CountRest, Zenon
<1>2. Outstanding \ batch[t] = queue \union Others(t)
  BY <1>b, Zenon
<1>3. CASE ~canceled
  <2>1. nTodo \in Nat /\ Cardinality(batch[t]) \in Nat
    BY <1>a, <1>c, FS_CardinalityType, FS_Subset, Zenon DEF TypeOK
  <2>2. nTodo - Cardinality(batch[t]) - 0 = nTodo - Cardinality(batch[t])
    BY <2>1, SMTT(30)
  <2>3. QED
    BY <1>1, <1>2, <1>3, <2>2, Zenon DEF TodoAfterBatch, QueueAfterDrain
<1>4. CASE canceled
  <2>1. IsFiniteSet(queue \union Others(t)) /\ queue \in SUBSET (queue \union Others(t))
    BY <1>2, <1>c, FS_Subset, Zenon
  <2>2. Cardinality((queue \union Others(t)) \ queue)
          = Cardinality(queue \union Others(t)) - Cardinality(queue)
    BY <2>1, CountRest, Zenon
  <2>3. (queue \union Others(t)) \ queue = {} \union Others(t)
    BY <1>b, Zenon
  <2>4. QED
    BY <1>1, <1>2, <1>4, <2>2, <2>3, Zenon DEF TodoAfterBatch, QueueAfterDrain
<1>5. QED
  BY <1>3, <1>4, Zenon

\* A thread that has executed its batch.
LEMMA CleanUpKeeps ==
  ASSUME IInv, NEW t \in Threads, CleanUp(t)
  PROVE  IInv'
<1>a. Books /\ TypeOK /\ Session
  BY Zenon DEF IInv, Books
<1>1. pc[t] = "done" /\ t \notin Waiting /\ t \in Running /\ failedChecks' = HandInFailed(t)
  BY Zenon DEF CleanUp, Waiting, Running
<1>2. Before(t, QueueAfterDrain, TodoAfterBatch(t), nIdle, nTotal, MasterWoken(t))
  <2>1. TodoAfterBatch(t) = Cardinality(QueueAfterDrain \union Others(t))
    BY <1>a, TodoAfterDrain, Zenon
  <2>2. nIdle = Cardinality(Waiting \ {t})
    <3>1. Waiting \ {t} = Waiting
      BY <1>1, Zenon
    <3>2. QED
      BY <1>a, <3>1, Zenon DEF Books, CountersExact, Waiting
  <2>3. nTotal = Cardinality(Running \union {t})
    <3>1. Running \union {t} = Running
      BY <1>1, Zenon
    <3>2. QED
      BY <1>a, <3>1, Zenon DEF Books, CountersExact
  <2>4. t \notin asleep /\ QueueAfterDrain \subseteq queue /\ MasterWoken(t) \subseteq asleep
    BY <1>1, <1>a, Zenon DEF TypeOK, QueueAfterDrain, MasterWoken
  <2>5. QED
    BY <1>1, <2>1, <2>2, <2>3, <2>4, Zenon DEF Before
<1>3. UNCHANGED <<vTempFailedChecks, mQuit, canceled, historyVars>>
  BY Zenon DEF CleanUp
<1>4. /\ Handed(t, QueueAfterDrain, JoinedVerdict(t)) /\ failedChecks' \in Seq(Nat)
      /\ JoinedVerdict(t) \in Optional
  BY <1>1, CleanUpHands, Zenon
<1>5. PICK b \in SUBSET QueueAfterDrain :
        Took(t, QueueAfterDrain, TodoAfterBatch(t), JoinedVerdict(t), nIdle, nTotal,
             MasterWoken(t), b)
  BY FindWorkTakes, Zenon DEF CleanUp
<1>6. Books'
  BY <1>a, <1>2, <1>3, <1>4, <1>5, BooksAfter, Zenon
<1>7. Session'
  BY <1>2, <1>3, <1>4, <1>5, SessionAfter, Zenon
<1>8. QED
  BY <1>6, <1>7, Zenon DEF IInv

\* A thread executes the first check that is left of its batch: there is one.
LEMMA Next1IsThere ==
  ASSUME TypeOK, NEW t \in Threads, vChecks[t] # {}
  PROVE  Next1(t) \in vChecks[t]
<1>1. vChecks[t] \subseteq Nat
  BY SMTT(30) DEF TypeOK
<1>2. IsWellFoundedOn(OpToRel(<, Nat), Nat)
  BY NatLessThanWellFounded, Zenon
<1>3. PICK c \in vChecks[t] : \A d \in vChecks[t] : ~(<<d, c>> \in OpToRel(<, Nat))
  BY <1>1, <1>2, WFMin, Zenon
<1>4. \A d \in vChecks[t] : ~(d < c)
  BY <1>1, <1>3, Zenon DEF OpToRel
<1>5. \A d \in vChecks[t] : c <= d
  BY <1>1, <1>4, SMTT(30)
<1>6. QED
  BY <1>5, Zenon DEF Next1

\* Shutdown takes a worker out of its wait.
LEMMA InterruptedKeeps ==
  ASSUME IInv, NEW t \in Threads, Interrupted(t)
  PROVE  IInv'
<1>a. Books /\ TypeOK /\ Session
  BY Zenon DEF IInv, Books
<1>b. /\ t # Master /\ pc[t] = "wait" /\ pc' = [pc EXCEPT ![t] = "gone"]
      /\ nIdle' = nIdle - 1 /\ nTotal' = nTotal - 1 /\ asleep' = asleep \ {t}
      /\ UNCHANGED <<queue, failedChecks, nTodo, fAllOk, batch, vChecks, fOk,
                     vTempFailedChecks, added, passed, failed, lastCheck, mQuit, canceled>>
  BY MasterIsNoWorker, Zenon DEF Interrupted, Goto, loopVars, historyVars
<1>c. /\ pc'[t] = "gone" /\ \A u \in Threads \ {t} : pc'[u] = pc[u]
      /\ pc' \in [Threads -> {"none", "open", "enter", "exec", "done", "wait", "returned", "gone"}]
  BY <1>a, <1>b, Zenon DEF TypeOK
<1>d. pc'[Master] = pc[Master] /\ \A u \in Threads : Busy(u)' <=> Busy(u)
  BY <1>b, <1>c, MasterIsThread, Zenon DEF Busy
<1>e. Outstanding' = Outstanding
  BY <1>b, Zenon DEF Outstanding
<1>1. nIdle' = Cardinality(Waiting \ {t}) /\ nTotal' = Cardinality(Running \ {t})
      /\ nIdle' \in Nat /\ nTotal' \in Nat
  <2>1. Waiting \union {t} = Waiting /\ Running \union {t} = Running
    BY <1>b, Zenon DEF Waiting, Running
  <2>2. nIdle = Cardinality(Waiting) /\ nTotal = Cardinality(Running)
    BY <1>a, Zenon DEF Books, CountersExact, Waiting
  <2>3. /\ Cardinality(Waiting \ {t}) + 1 = Cardinality(Waiting)
        /\ Cardinality(Running) - 1 = Cardinality(Running \ {t})
        /\ Cardinality(Waiting \ {t}) \in Nat /\ Cardinality(Running \ {t}) \in Nat
    BY <2>1, CountersHanded, Zenon
  <2>4. QED
    BY <1>b, <2>2, <2>3, SMTT(30)
<1>2. CountersExact'
  <2>1. /\ nIdle' = Cardinality(IF "gone" = "wait" THEN Waiting \union {t} ELSE Waiting \ {t})
        /\ nTotal' = Cardinality(IF "gone" \in {"exec", "done", "wait"}
                                 THEN Running \union {t} ELSE Running \ {t})
    BY <1>1, Zenon
  <2>2. QED
    BY <1>a, <1>b, <2>1, CountersAfter, Zenon
<1>3. TypeOK'
  <2>1. asleep' \subseteq {u \in Threads : pc'[u] = "wait"}
    BY <1>a, <1>b, <1>c, Zenon DEF TypeOK
  <2>2. QED
    BY <1>a, <1>b, <1>c, <1>1, <2>1, Zenon DEF TypeOK
<1>4. Books'
  <2>1. TodoCountsOutstanding'
    BY <1>a, <1>b, <1>e, Zenon DEF Books, TodoCountsOutstanding
  <2>2. QED
    BY <1>a, <1>b, <1>d, <1>e, <1>2, <1>3, <2>1, Zenon DEF Books
<1>5. ASSUME Verdict
      PROVE  Verdict'
  <2>1. ~SomeFailed => added' \subseteq passed' \union queue'
                                        \union UNION {vChecks'[u] : u \in Threads}
    BY <1>b, <1>5, Zenon DEF Verdict
  <2>2. QED
    BY <1>b, <1>d, <1>5, <2>1, VerdictStands, Zenon
<1>6. Session'
  <2>1. \A u \in Threads : pc'[u] = "done" => vChecks'[u] = {}
    BY <1>a, <1>b, <1>c, Zenon DEF Session
  <2>2. QED
    BY <1>a, <1>b, <1>d, <1>5, <2>1, Zenon DEF Session
<1>7. QED
  BY <1>4, <1>6, Zenon DEF IInv

\* Checks are added; their numbers are new.
LEMMA AddKeeps ==
  ASSUME IInv, NEW n \in 1 .. MaxAdd, Add(n)
  PROVE  IInv'
<1> DEFINE new == (lastCheck + 1) .. (lastCheck + n)
<1>a. Books /\ TypeOK /\ Session
  BY Zenon DEF IInv, Books
<1>b. /\ pc[Master] = "open" /\ queue' = queue \union new /\ added' = added \union new
      /\ nTodo' = nTodo + n /\ lastCheck' = lastCheck + n /\ asleep' \subseteq asleep
      /\ UNCHANGED <<failedChecks, nIdle, nTotal, fAllOk, batch, vChecks, fOk,
                     vTempFailedChecks, mQuit, canceled, pc, passed, failed>>
  BY Zenon DEF Add, loopVars
<1>c. n \in Nat /\ lastCheck \in Nat
  BY <1>a, BoundsAreNat, SMTT(30) DEF TypeOK
<1>d. /\ new \subseteq 1 .. lastCheck' /\ 1 .. lastCheck \subseteq 1 .. lastCheck'
      /\ new \intersect (1 .. lastCheck) = {} /\ lastCheck' \in Nat
  BY <1>b, <1>c, SMTT(30)
<1>e. IsFiniteSet(new) /\ Cardinality(new) = n
  <2>1. lastCheck + 1 \in Int /\ lastCheck + n \in Int /\ lastCheck + 1 <= lastCheck + n
    BY <1>c, SMTT(30)
  <2>2. /\ IsFiniteSet(new)
        /\ Cardinality(new) = IF lastCheck + 1 > lastCheck + n THEN 0
                              ELSE (lastCheck + n) - (lastCheck + 1) + 1
    BY <2>1, FS_Interval, Zenon
  <2>3. QED
    BY <1>c, <2>2, SMTT(30)
<1> HIDE DEF new
<1>f. Outstanding \subseteq 1 .. lastCheck /\ IsFiniteSet(Outstanding)
  BY <1>a, ChecksFinite, Zenon
<1>g. Outstanding' = Outstanding \union new
  BY <1>b, Zenon DEF Outstanding
<1>1. TypeOK'
  <2>1. queue' \subseteq 1 .. lastCheck' /\ added' \subseteq 1 .. lastCheck'
    BY <1>a, <1>b, <1>d, Zenon DEF TypeOK
  <2>2. /\ batch' \in [Threads -> SUBSET (1 .. lastCheck')]
        /\ vChecks' \in [Threads -> SUBSET (1 .. lastCheck')]
    BY <1>a, <1>b, <1>d, Zenon DEF TypeOK
  <2>3. nTodo' \in Nat
    BY <1>a, <1>b, <1>c, SMTT(30) DEF TypeOK
  <2>4. QED
    BY <1>a, <1>b, <1>d, <2>1, <2>2, <2>3, Zenon DEF TypeOK
<1>2. TodoCountsOutstanding'
  <2>1. Outstanding \intersect new = {}
    BY <1>d, <1>f, Zenon
  <2>2. Cardinality(Outstanding \union new) = Cardinality(Outstanding) + Cardinality(new) - 0
    <3>1. IsFiniteSet(Outstanding) /\ IsFiniteSet(new)
      BY <1>e, <1>f, Zenon
    <3>2. Cardinality(Outstanding \union new)
            = Cardinality(Outstanding) + Cardinality(new) - Cardinality(Outstanding \intersect new)
      BY <3>1, FS_Union, Zenon
    <3>3. Cardinality(Outstanding \intersect new) = 0
      BY <2>1, FS_EmptySet, Zenon
    <3>4. QED
      BY <3>2, <3>3, Zenon
  <2>3. Cardinality(Outstanding) = nTodo /\ nTodo \in Nat
    BY <1>a, Zenon DEF Books, TodoCountsOutstanding, TypeOK
  <2>4. QED
    BY <1>b, <1>c, <1>e, <1>g, <2>2, <2>3, SMTT(30) DEF TodoCountsOutstanding
<1>3. Books'
  <2>1. Running' = Running /\ CountersExact'
    BY <1>a, <1>b, Zenon DEF Books, CountersExact, Running
  <2>2. \A u \in Threads : batch'[u] \intersect queue' = {}
    BY <1>a, <1>b, <1>d, Zenon DEF Books, TypeOK
  <2>3. Outstanding' \subseteq added'
    BY <1>a, <1>b, <1>g, Zenon DEF Books
  <2>4. QED
    BY <1>a, <1>b, <1>1, <1>2, <2>1, <2>2, <2>3, Zenon DEF Books, Busy
<1>4. ASSUME ~canceled
      PROVE  Verdict'
  <2>a. Verdict
    BY <1>a, <1>b, <1>4, Zenon DEF Session
  <2>1. \A u \in Threads : Busy(u)' <=> Busy(u)
    BY <1>b, Zenon DEF Busy
  <2>2. ~SomeFailed => added' \subseteq passed' \union queue'
                                        \union UNION {vChecks'[u] : u \in Threads}
    BY <1>b, <2>a, Zenon DEF Verdict
  <2>3. QED
    BY <1>b, <2>a, <2>1, <2>2, VerdictStands, Zenon
<1>5. Session'
  BY <1>a, <1>b, <1>4, Zenon DEF Session
<1>6. QED
  BY <1>3, <1>5, Zenon DEF IInv

\* The queue is made with no session, no checks and no thread in Loop.
LEMMA InitEstablishes == Init => IInv
<1> SUFFICES ASSUME Init
             PROVE  IInv
  OBVIOUS
<1>a. Master \in Threads
  BY MasterIsThread, Zenon
<1>b. /\ pc[Master] = "none" /\ \A t \in Threads : pc[t] \in {"none", "enter"}
      /\ \A t \in Threads : batch[t] = {} /\ vChecks[t] = {} /\ ~Busy(t)
  BY <1>a, Zenon DEF Init, Busy
<1>1. TypeOK
  <2>1. <<>> \in Seq(Nat)
    OBVIOUS
  <2>2. vTempFailedChecks \in [Threads -> Seq(Nat)] /\ failedChecks \in Seq(Nat)
    BY <2>1, Zenon DEF Init
  <2>3. pc \in [Threads -> {"none", "open", "enter", "exec", "done", "wait", "returned", "gone"}]
    BY Zenon DEF Init
  <2>4. QED
    BY <2>2, <2>3, Zenon DEF Init, TypeOK, Optional
<1>2. Outstanding = {}
  BY <1>b, Zenon DEF Outstanding, Init
<1>3. TodoCountsOutstanding
  BY <1>2, FS_EmptySet, Zenon DEF TodoCountsOutstanding, Init
<1>4. CountersExact
  <2>1. Running = {} /\ {t \in Threads : pc[t] = "wait"} = {}
    BY <1>b, Zenon DEF Running
  <2>2. QED
    BY <2>1, FS_EmptySet, Zenon DEF CountersExact, Init
<1>5. Books
  BY <1>b, <1>1, <1>2, <1>3, <1>4, Zenon DEF Books, Init
<1>6. Session
  BY <1>b, Zenon DEF Session
<1>7. QED
  BY <1>5, <1>6, Zenon DEF IInv

-----------------------------------------------------------------------------
\* Every step keeps the invariant: one case per action.
LEMMA Inductive == IInv /\ [Next]_vars => IInv'
<1> SUFFICES ASSUME IInv, [Next]_vars
             PROVE  IInv'
  OBVIOUS
<1>1. CASE SessionStep
  <2>1. CASE StartCheckingSession
    BY <2>1, StartKeeps, Zenon
  <2>2. CASE Wait
    BY <2>2, WaitKeeps, Zenon
  <2>3. CASE Cancel
    <3>1. /\ asleep' \subseteq asleep /\ UNCHANGED mQuit /\ canceled' = TRUE
          /\ pc[Master] # "returned" /\ UNCHANGED <<sharedVars, loopVars, historyVars, pc>>
      BY <2>3, Zenon DEF Cancel
    <3>2. QED
      BY <3>1, SignalKeeps, Zenon
  <2>4. CASE TakeFailedChecks \/ ReturnWithoutTaking
    BY <2>4, SessionEndKeeps, Zenon
  <2>5. CASE Quit
    <3>1. /\ asleep' \subseteq asleep /\ UNCHANGED canceled /\ mQuit' = TRUE
          /\ pc[Master] = "none" /\ UNCHANGED <<sharedVars, loopVars, historyVars, pc>>
      BY <2>5, Zenon DEF Quit, WorkersNotified
    <3>2. QED
      BY <3>1, SignalKeeps, Zenon
  <2>6. CASE \E n \in 1 .. MaxAdd : Add(n)
    BY <2>6, AddKeeps, Zenon
  <2>7. QED
    BY <1>1, <2>1, <2>2, <2>3, <2>4, <2>5, <2>6, Zenon DEF SessionStep
<1>2. ASSUME NEW t \in Threads, LoopStep(t)
      PROVE  IInv'
  <2>1. CASE RunCheck(t)
    <3>1. Next1(t) \in vChecks[t]
      BY <2>1, Next1IsThere, Zenon DEF RunCheck, IInv, Books
    <3>2. QED
      BY <2>1, <3>1, RunCheckKeeps, Zenon
  <2>2. QED
    BY <1>2, <2>1, EnterLoopKeeps, CleanUpKeeps, ResumeKeeps, EndBatchKeeps, Zenon DEF LoopStep
<1>3. ASSUME NEW t \in Threads, Interrupted(t)
      PROVE  IInv'
  BY <1>3, InterruptedKeeps, Zenon
<1>4. ASSUME NEW t \in Threads, SpuriousWakeup(t)
      PROVE  IInv'
  <2>1. /\ asleep' \subseteq asleep /\ UNCHANGED <<mQuit, canceled>>
        /\ UNCHANGED <<sharedVars, loopVars, historyVars, pc>>
    BY <1>4, Zenon DEF SpuriousWakeup
  <2>2. QED
    BY <2>1, SignalKeeps, Zenon
<1>5. CASE UNCHANGED vars
  <2>1. /\ asleep' \subseteq asleep /\ UNCHANGED <<mQuit, canceled>>
        /\ UNCHANGED <<sharedVars, loopVars, historyVars, pc>>
    BY <1>5, Zenon DEF vars
  <2>2. QED
    BY <2>1, SignalKeeps, Zenon
<1>6. QED
  BY <1>1, <1>2, <1>3, <1>4, <1>5, Zenon DEF Next

\* So it always holds.
LEMMA Invariance == Spec => []IInv
BY InitEstablishes, Inductive, PTL DEF Spec

\* For any number of workers and checks: nTodo counts the checks queued or in a
\* batch, and nTotal and nIdle the threads in Loop and those that wait.
THEOREM CountersRight == Spec => []Accounting
<1>1. IInv => Accounting
  BY Zenon DEF IInv, Books, Accounting
<1>2. QED
  BY <1>1, Invariance, PTL

\* When the master has left Loop nobody holds a batch and nothing is queued, so
\* StartCheckingSession and ReturnQueueToPool find the queue idle.
THEOREM SessionsApart == Spec => []SessionsDoNotOverlap
<1>1. IInv => SessionsDoNotOverlap
  <2> SUFFICES ASSUME IInv, pc[Master] \in {"none", "returned"}
               PROVE  IsIdle /\ queue = {} /\ \A t \in Threads : batch[t] = {}
    BY Zenon DEF SessionsDoNotOverlap
  <2>1. Books /\ Session /\ Outstanding = {}
    BY Zenon DEF IInv, Books
  <2>2. /\ queue = {} /\ Running = {t \in Threads : pc[t] = "wait"}
        /\ \A t \in Threads : batch[t] = {}
    BY <2>1, NobodyAtWork, Zenon
  <2>3. IsIdle
    BY <2>1, <2>2, FS_EmptySet, Zenon DEF IsIdle, Books, CountersExact, TodoCountsOutstanding
  <2>4. QED
    BY <2>2, <2>3, Zenon
<1>2. QED
  BY <1>1, Invariance, PTL

\* What Wait returns is right: true only if all the checks of the session have
\* passed, false only if one failed and with all the failed ones handed over,
\* nothing exactly if the session was cancelled.
THEOREM ResultsRight == Spec => []ResultsSound
<1>1. IInv => ResultsSound
  <2> SUFFICES ASSUME IInv, pc[Master] = "returned"
               PROVE  /\ fAllOk = "true" => passed = added /\ failed = {}
                      /\ fAllOk = "false" => failed # {}
                      /\ fAllOk = "none" <=> canceled
                      /\ fAllOk = "false" =>
                           \A c \in failed : \E i \in DOMAIN failedChecks : failedChecks[i] = c
    BY Zenon DEF ResultsSound, VerdictSound, FailedChecksComplete
  <2>1. Books /\ Session /\ Outstanding = {} /\ TypeOK
    BY Zenon DEF IInv, Books
  <2>2. /\ queue = {} /\ \A t \in Threads : ~Busy(t) /\ vChecks[t] = {}
    BY <2>1, NobodyAtWork, Zenon
  <2>3. fAllOk = "none" <=> canceled
    BY <2>1, Zenon DEF Session
  <2>4. ASSUME fAllOk # "none"
        PROVE  Verdict
    BY <2>1, <2>3, <2>4, Zenon DEF Session
  <2>5. SomeFailed <=> fAllOk = "false"
    BY <2>2, Zenon DEF SomeFailed
  <2>6. ASSUME fAllOk = "true"
        PROVE  passed = added /\ failed = {}
    <3>1. Verdict /\ ~SomeFailed
      BY <2>4, <2>5, <2>6, Zenon
    <3>2. failed = {} /\ added \subseteq passed
      BY <2>2, <3>1, Zenon DEF Verdict
    <3>3. QED
      BY <2>1, <3>2, Zenon DEF TypeOK
  <2>7. ASSUME fAllOk = "false"
        PROVE  failed # {} /\ \A c \in failed : Holds(failedChecks, c)
    <3>1. Verdict /\ SomeFailed
      BY <2>4, <2>5, <2>7, Zenon
    <3>2. QED
      BY <2>2, <3>1, Zenon DEF Verdict
  <2>8. QED
    BY <2>3, <2>6, <2>7, Zenon DEF Holds
<1>2. QED
  BY <1>1, Invariance, PTL
=============================================================================
