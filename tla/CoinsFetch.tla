------------------------------ MODULE CoinsFetch ------------------------------
(***************************************************************************)
(* How threads that share the CoinsDB's read lock load coins into its      *)
(* cache: CoinsDB::GetCoin with its FetchingCoins guard, and               *)
(* CoinsDB::DBCacheAllInputs (txdb.cpp, txdb.h).                           *)
(*                                                                         *)
(* mCoinsViewCacheMtx protects the cache; the database is read without it, *)
(* under the guard only.  Each critical section of that mutex is one       *)
(* action, and so is each unprotected read.  A thread holds the read lock  *)
(* of WPUSMutex from its call until it is idle again, so what a writer     *)
(* does happens while all are idle.                                        *)
(*                                                                         *)
(* A cache entry is bare (without its script), with script, or spent.  The *)
(* memory in use is that of the scripts.                                   *)
(***************************************************************************)
EXTENDS Integers, Sequences, FiniteSets, FiniteSetsExt, Functions

CONSTANTS
  Inputs,      \* outpoints that transactions spend
  Size,        \* script size of each outpoint's coin, at least 1
  Threshold,   \* mCacheSizeThreshold
  Readers,     \* threads that call GetCoin
  Cachers,     \* threads that call DBCacheAllInputs
  Big          \* uint64_t max, the request for any script; also the wrap of size_t:
               \* greater than the threshold and every size

ASSUME FetchConstants ==
  /\ IsFiniteSet(Inputs) /\ Inputs # {} /\ Readers \cap Cachers = {}
  /\ Big \in Nat /\ Threshold \in 0 .. Big - 1 /\ Size \in [Inputs -> 1 .. Big - 1]

VARIABLES
  mCache,     \* per outpoint: absent, bare, script, spent
  dirty,      \* outpoints whose entry is DIRTY
  db,         \* outpoints with a coin in the database
  fetching,   \* FetchingCoins::mCoins
  pc,         \* idle, look, measure, budget, fetch, store, unguard, done
  call,       \* per reader: the locals of GetCoin
  aborted     \* an assert failed

fetchVars == <<mCache, dirty, db, fetching, pc, call, aborted>>

Threads == Readers \union Cachers
Requests == {0, Big}

\* o, max: the arguments.  had: coinFromCache.  budget: maxScriptLoadingSize.
\* got: coinFromView, then the result.
NoCall == [o |-> CHOOSE o \in Inputs : TRUE, max |-> 0, had |-> "absent",
           budget |-> 0, got |-> "absent"]

FetchInit ==
  /\ mCache = [o \in Inputs |-> "absent"]
  /\ dirty = {}
  /\ db \in SUBSET Inputs
  /\ fetching = {}
  /\ pc = [t \in Threads |-> "idle"]
  /\ call = [r \in Readers |-> NoCall]
  /\ aborted = FALSE

-----------------------------------------------------------------------------
\* mCache.DynamicMemoryUsage, as far as scripts go.
Bytes(outpoints) == UNION {{o} \X (1 .. Size[o]) : o \in outpoints}
WithScript(c) == {o \in Inputs : c[o] = "script"}
Usage(c) == Cardinality(Bytes(WithScript(c)))

HasNoLimit(c, o) == TRUE
HasSpaceForScript(c, o) == Threshold >= Usage(c) + Size[o]

\* DBGetCoin: the script comes along when it is within the limit.
DBGetCoin(o, limit) ==
  IF o \notin db THEN "absent" ELSE IF Size[o] <= limit THEN "script" ELSE "bare"

Goto(t, label) == pc' = [pc EXCEPT ![t] = label]

\* What stays in the cache of a coin that was fetched: its script if there is
\* space, else a new entry without it; an entry that is there stays as it is.
Stored(c, o) ==
  IF HasSpaceForScript(c, o) THEN "script" ELSE IF c[o] = "absent" THEN "bare" ELSE c[o]

-----------------------------------------------------------------------------
\* GetCoin(outpoint, maxScriptSize) is called.
Call(r, o, max) ==
  /\ pc[r] = "idle"
  /\ call' = [call EXCEPT ![r] = [NoCall EXCEPT !.o = o, !.max = max]]
  /\ Goto(r, "look")
  /\ UNCHANGED <<mCache, dirty, db, fetching, aborted>>

\* The cache answers: spent, with script, or without a script nobody asked for.
Answers(r) ==
  LET o == call[r].o IN
  \/ mCache[o] \in {"spent", "script"}
  \/ mCache[o] = "bare" /\ call[r].max < Size[o]

LookFound(r) ==
  /\ pc[r] = "look"
  /\ Answers(r)
  /\ call' = [call EXCEPT ![r].got = mCache[call[r].o]]
  /\ Goto(r, "done")
  /\ UNCHANGED <<mCache, dirty, db, fetching, aborted>>

\* The cache does not answer: TryInsert, under the same shared lock.  Who does
\* not get the guard yields and looks again.
TryInsertAlways(o) == fetching' = fetching \union {o}
TryInsert(o) == o \notin fetching /\ fetching' = fetching \union {o}

LookFetch(r) ==
  /\ pc[r] = "look"
  /\ ~Answers(r)
  /\ TryInsert(call[r].o)
  /\ call' = [call EXCEPT ![r].had = mCache[call[r].o]]
  /\ Goto(r, "measure")
  /\ UNCHANGED <<mCache, dirty, db, aborted>>

\* getMaxScriptLoadingSize reads the usage twice, without the mutex.
Measure(r) ==
  /\ pc[r] = "measure"
  /\ IF Threshold > Usage(mCache)
     THEN Goto(r, "budget") /\ UNCHANGED call
     ELSE Goto(r, "fetch") /\ call' = [call EXCEPT ![r].budget = call[r].max]
  /\ UNCHANGED <<mCache, dirty, db, fetching, aborted>>

\* The subtraction is of unsigned numbers: it wraps if the usage has grown.
Budget(r) ==
  /\ pc[r] = "budget"
  /\ call' = [call EXCEPT ![r].budget = Max({call[r].max, (Threshold - Usage(mCache)) % (Big + 1)})]
  /\ Goto(r, "fetch")
  /\ UNCHANGED <<mCache, dirty, db, fetching, aborted>>

\* DBGetCoin, without the mutex.
Fetch(r) ==
  /\ pc[r] = "fetch"
  /\ LET coin == DBGetCoin(call[r].o, call[r].budget) IN
     /\ call' = [call EXCEPT ![r].got = coin]
     /\ Goto(r, IF coin = "absent" THEN "unguard" ELSE "store")
  /\ UNCHANGED <<mCache, dirty, db, fetching, aborted>>

\* The asserts of the insertion: the script was loaded, the entry has none yet
\* (ReplaceWithCoinWithScript), there is no entry (AddCoin), the stored coin
\* owns its script.
AssertsHold(r) ==
  LET o == call[r].o IN
  IF call[r].had = "bare"
  THEN call[r].got = "script" /\ (HasSpaceForScript(mCache, o) => mCache[o] = "bare")
  ELSE mCache[o] = "absent" /\ (HasSpaceForScript(mCache, o) => call[r].got = "script")

\* The insertion, under the unique lock.
Store(r) ==
  /\ pc[r] = "store"
  /\ IF AssertsHold(r)
     THEN /\ mCache' = [mCache EXCEPT ![call[r].o] = Stored(mCache, call[r].o)]
          /\ Goto(r, "unguard")
          /\ UNCHANGED aborted
     ELSE aborted' = TRUE /\ UNCHANGED <<mCache, pc>>
  /\ UNCHANGED <<dirty, db, fetching, call>>

\* ~ScopeGuard, after the unique lock is released.
GuardLeaked(o) == UNCHANGED fetching
GuardReleased(o) == fetching' = fetching \ {o}

Unguard(r) ==
  /\ pc[r] = "unguard"
  /\ GuardReleased(call[r].o)
  /\ Goto(r, "done")
  /\ UNCHANGED <<mCache, dirty, db, call, aborted>>

\* DBCacheAllInputs: one critical section for all inputs of a block, in the order
\* of their outpoints, whichever that is.
BlockInputs == UNION {Injection(1 .. n, Inputs) : n \in 1 .. Cardinality(Inputs)}

CachedOne(c, o) ==
  IF o \in db /\ c[o] \in {"absent", "bare"} THEN [c EXCEPT ![o] = Stored(c, o)] ELSE c

CachedAll(c, inputs) ==
  LET after[i \in 0 .. Len(inputs)] == IF i = 0 THEN c ELSE CachedOne(after[i - 1], inputs[i])
  IN  after[Len(inputs)]

CacheAllInputs(t, inputs) ==
  /\ pc[t] = "idle"
  /\ mCache' = CachedAll(mCache, inputs)
  /\ Goto(t, "done")
  /\ UNCHANGED <<dirty, db, fetching, call, aborted>>

\* The view or span of the thread is destroyed: its read lock is released.
Release(t) ==
  /\ pc[t] = "done"
  /\ Goto(t, "idle")
  /\ UNCHANGED <<mCache, dirty, db, fetching, call, aborted>>

-----------------------------------------------------------------------------
\* What the holder of the write lock does to the cache.
NoReader == \A t \in Threads : pc[t] = "idle"

\* BatchWrite of a coin a block spends, or of one it creates.
BatchWrite(o) ==
  /\ NoReader
  /\ mCache' = [mCache EXCEPT ![o] = IF o \in db \union dirty THEN "spent" ELSE "script"]
  /\ dirty' = dirty \union {o}
  /\ UNCHANGED <<db, fetching, pc, call, aborted>>

\* Uncache of an entry that is not DIRTY.
CoinsDBUncache(o) ==
  /\ NoReader
  /\ mCache[o] # "absent" /\ o \notin dirty
  /\ mCache' = [mCache EXCEPT ![o] = "absent"]
  /\ UNCHANGED <<dirty, db, fetching, pc, call, aborted>>

\* Flush: DIRTY entries go to the database, the cache is emptied.
CoinsDBFlush ==
  /\ NoReader
  /\ db' = {o \in db \union dirty : mCache[o] # "spent"}
  /\ mCache' = [o \in Inputs |-> "absent"]
  /\ dirty' = {}
  /\ UNCHANGED <<fetching, pc, call, aborted>>

ReaderStep(r) ==
  \/ LookFound(r) \/ LookFetch(r) \/ Measure(r) \/ Budget(r)
  \/ Fetch(r) \/ Store(r) \/ Unguard(r)

FetchStep ==
  \/ \E r \in Readers, o \in Inputs, max \in Requests : Call(r, o, max)
  \/ \E r \in Readers : ReaderStep(r)
  \/ \E t \in Cachers, inputs \in BlockInputs : CacheAllInputs(t, inputs)
  \/ \E t \in Threads : Release(t)
  \/ \E o \in Inputs : BatchWrite(o) \/ CoinsDBUncache(o)
  \/ CoinsDBFlush

\* A failed assert ends the process.
FetchNext == ~aborted /\ FetchStep

FetchSpec == FetchInit /\ [][FetchNext]_fetchVars

\* Every thread is scheduled.  The spin on the guard gives no thread precedence.
FetchFairSpec == FetchSpec /\ \A r \in Readers : WF_fetchVars(~aborted /\ ReaderStep(r))

-----------------------------------------------------------------------------
Labels == {"idle", "look", "measure", "budget", "fetch", "store", "unguard", "done"}
Entries == {"absent", "bare", "script", "spent"}
Calls ==
  [o : Inputs, max : Requests, had : {"absent", "bare"}, budget : 0 .. Big, got : Entries]
Held == {"measure", "budget", "fetch", "store", "unguard"}
Guarded(r) == pc[r] \in Held

\* Every variable has its type, and the guard set holds the outpoints of the
\* readers that are past TryInsert.
FetchTypeOK ==
  /\ mCache \in [Inputs -> Entries]
  /\ dirty \subseteq Inputs /\ db \subseteq Inputs
  /\ pc \in [Threads -> Labels]
  /\ call \in [Readers -> Calls]
  /\ fetching = {call[r].o : r \in {q \in Readers : Guarded(q)}}
  /\ aborted \in BOOLEAN

\* "Only one thread can reach this point for each distinct outpoint": one
\* reader at a time is between TryInsert and the release of the guard.
OneFetchPerOutpoint ==
  \A r, q \in Readers : Guarded(r) /\ Guarded(q) /\ call[r].o = call[q].o => r = q

\* FetchingCoins does its work: it holds the outpoints that are being loaded,
\* each by one reader.
GuardsSound == FetchTypeOK /\ OneFetchPerOutpoint

\* A GetCoin that returns has the truth: no coin exactly when there is none
\* unspent, and the script when the caller asked for it.
ReadsTrue ==
  \A r \in Readers : pc[r] = "done" =>
    LET o == call[r].o
        exists == o \in db \union dirty /\ mCache[o] # "spent"
    IN /\ exists <=> call[r].got \in {"bare", "script"}
       /\ exists /\ call[r].max >= Size[o] => call[r].got = "script"

\* Concurrent loads: FetchingCoins keeps them apart, and each returns the truth.
ReadsRight == GuardsSound /\ ReadsTrue

\* A thread that loads coins never takes the scripts in the cache beyond
\* mCacheSizeThreshold, also when the unprotected reads of
\* getMaxScriptLoadingSize wrapped around.
LoadsWithinThreshold ==
  [][dirty' = dirty /\ Usage(mCache') > Usage(mCache) => Usage(mCache') <= Threshold]_fetchVars

\* No assert of the insertion fails: a coin that was not in the cache (or had
\* no script) under the shared lock is still so under the unique lock, "DB
\* fetch of coin that is guaranteed not to be in the cache".
NoAssertFails == ~aborted

\* Every GetCoin returns, though all but one of those that want the same
\* outpoint spin, as long as the others do not call it for ever.
GetCoinReturns ==
  <>[][\A r \in Readers, o \in Inputs, max \in Requests : ~Call(r, o, max)]_fetchVars
    => \A r \in Readers : pc[r] = "look" ~> (pc[r] = "done" \/ aborted)

=============================================================================
