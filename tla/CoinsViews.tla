----------------------------- MODULE CoinsViews -----------------------------
(***************************************************************************)
(* The layers of the coins database: CoinsDBSpan (coins.cpp, txdb.cpp), a  *)
(* private write cache per block being connected or disconnected, on top   *)
(* of the shared cache of CoinsDB, on top of the database.  Every cached   *)
(* entry carries the flags DIRTY and FRESH, and an unspent entry may hold  *)
(* its script, refer to the one in the cache below, or have left it out    *)
(* for lack of space.                                                      *)
(*                                                                         *)
(* Each action is one call on a span or on CoinsDB.  The read lock of an   *)
(* attached span and the write lock of TryFlush, Flush and Uncache are     *)
(* those of WPUSMutex (module UpgradableLock): a write happens while       *)
(* nobody else is attached.  A detached span holds no lock.                *)
(*                                                                         *)
(* utxo, parent, known and want are history: the unspent outputs that each *)
(* connected block stands for, and the outputs each span should have after *)
(* the coins it was told to add and to spend.                              *)
(***************************************************************************)
EXTENDS Naturals

CONSTANTS
  Outpoints,
  Coins,       \* contents of an unspent output: amount, script, height
  NoCoin,      \* a spent or unknown output
  NoEntry,     \* nothing cached for an outpoint
  Spans,
  MaxBlocks    \* bound: blocks connected after the initial tip

Blocks == 0 .. MaxBlocks
MaybeCoin == Coins \union {NoCoin}

(* The script of an entry: stored in it, referring to the entry of the     *)
(* cache below (a non-owning coin), or not loaded.                         *)
Scripts == {"own", "ref", "none"}
EntryRecords == [coin : MaybeCoin, script : Scripts, dirty : BOOLEAN, fresh : BOOLEAN]

(* The entries there can be: a spent one has no script and something to    *)
(* tell the layer below; a FRESH one is an unspent new coin.               *)
WellFormed(e) ==
  /\ e.coin = NoCoin => e.script = "none" /\ e.dirty
  /\ e.fresh => e.dirty /\ e.coin # NoCoin
Entry == {e \in EntryRecords : WellFormed(e)}

ASSUME CoinsDistinct ==
  /\ NoCoin \notin Coins
  /\ NoEntry \notin EntryRecords \union [base : Blocks, view : [Outpoints -> MaybeCoin]]
ASSUME BlocksBounded == MaxBlocks \in Nat

VARIABLES
  disk,     \* the coins in the database
  cache,    \* CoinsDB::mCache
  tip,      \* CoinsDB::hashBlock
  mode,     \* of a span: "none", "open", "detached", "reattached"
  base,     \* the span's mHashBlock
  sCache,   \* mCache of the span's shard
  utxo, parent, known, want

blocks == <<utxo, parent, known>>
vars == <<disk, cache, tip, mode, base, sCache, utxo, parent, known, want>>

EmptyCache == [o \in Outpoints |-> NoEntry]
Clean(c, script) == [coin |-> c, script |-> script, dirty |-> FALSE, fresh |-> FALSE]

IsUnspent(e) == e # NoEntry /\ e.coin # NoCoin
IsDirty(e) == e # NoEntry /\ e.dirty
IsFresh(e) == e # NoEntry /\ e.fresh

(* What is seen through a cache entry that lies over the coin under.       *)
Over(e, under) == IF e = NoEntry THEN under ELSE e.coin

DbView(o) == Over(cache[o], disk[o])
SpanView(s, o) == Over(sCache[s][o], utxo[base[s]][o])

(* An attached span holds the read lock; the write lock is had by one that *)
(* is alone.                                                               *)
Attached(s) == mode[s] \in {"open", "reattached"}
AloneUnlocked(ss) == TRUE
Alone(ss) == \A t \in Spans \ ss : ~Attached(t)

(***************************************************************************)
(* CoinsDB::GetCoin of o, and the entry it leaves in the shared cache.     *)
(* room: hasSpaceForScript.  A found coin either refers to the shared      *)
(* entry or is a copy of its own.                                          *)
(***************************************************************************)
GoesToDisk(e, req) == e = NoEntry \/ (e.coin # NoCoin /\ e.script = "none" /\ req)

DbEntryAfter(o, req, room) ==
  LET e == cache[o] IN
  IF GoesToDisk(e, req) /\ disk[o] # NoCoin
  THEN IF e = NoEntry THEN Clean(disk[o], IF room THEN "own" ELSE "none")
       ELSE IF room THEN [e EXCEPT !.coin = disk[o], !.script = "own"] ELSE e
  ELSE e

(* The coin it returns: NoCoin when there is none or it is spent.          *)
DbCoin(o, req) == IF GoesToDisk(cache[o], req) THEN disk[o] ELSE cache[o].coin

(* The shard keeps a handle to a shared entry that has its script, and a   *)
(* copy without the script otherwise.                                      *)
ScriptKept(o, req, room) ==
  LET e == DbEntryAfter(o, req, room) IN IF e # NoEntry /\ e.script = "own" THEN "ref" ELSE "none"

(* CCoinsViewCache::Shard::GetCoin: the shard's entry afterwards.          *)
AsksView(e, req) == GoesToDisk(e, req)

ShardEntryAfter(s, o, req, room) ==
  LET e == sCache[s][o] IN
  IF e = NoEntry /\ DbCoin(o, req) # NoCoin
  THEN Clean(DbCoin(o, req), ScriptKept(o, req, room)) ELSE e

Loads(s, o, req, room) ==
  cache' = IF AsksView(sCache[s][o], req)
           THEN [cache EXCEPT ![o] = DbEntryAfter(o, req, room)] ELSE cache

(***************************************************************************)
(* CoinsStore: adding, spending and the write of a child cache.            *)
(***************************************************************************)
StoreAdd(e, c, overwrite) ==
  [coin |-> c, script |-> "own", dirty |-> TRUE,
   fresh |-> IsFresh(e) \/ (~overwrite /\ ~IsDirty(e))]

StoreSpendErases(e) == NoEntry
StoreSpend(e) ==
  IF e = NoEntry \/ IsFresh(e) THEN NoEntry
  ELSE [e EXCEPT !.coin = NoCoin, !.script = "none", !.dirty = TRUE]

(* The logic_error of AddCoin and the one of BatchWrite.                   *)
OverwritesUnspent(e, overwrite) == ~overwrite /\ IsUnspent(e)
FreshMisapplied(child, parentEntry) == IsFresh(child) /\ IsUnspent(parentEntry)

MergedFreshCopied(child, e) ==
  IF ~IsDirty(child) THEN e
  ELSE IF child.coin = NoCoin /\ (IF e = NoEntry THEN child.fresh ELSE e.fresh) THEN NoEntry
  ELSE [child EXCEPT !.dirty = TRUE, !.fresh = IsFresh(e) \/ child.fresh]
Merged(child, e) ==
  IF ~IsDirty(child) THEN e
  ELSE IF child.coin = NoCoin /\ (IF e = NoEntry THEN child.fresh ELSE e.fresh) THEN NoEntry
  ELSE [child EXCEPT !.dirty = TRUE, !.fresh = IF e = NoEntry THEN child.fresh ELSE e.fresh]

Uncached(e) == IF e # NoEntry /\ ~e.dirty /\ ~e.fresh THEN NoEntry ELSE e

Written(e, c) == IF IsDirty(e) THEN e.coin ELSE c
-----------------------------------------------------------------------------
Init ==
  /\ disk \in [Outpoints -> MaybeCoin]
  /\ cache = EmptyCache
  /\ tip = 0
  /\ mode = [s \in Spans |-> "none"]
  /\ base = [s \in Spans |-> 0]
  /\ sCache = [s \in Spans |-> EmptyCache]
  /\ utxo = [b \in Blocks |-> disk]
  /\ parent = [b \in Blocks |-> 0]
  /\ known = {0}
  /\ want = [s \in Spans |-> disk]

Open(s) ==
  /\ mode[s] = "none"
  /\ mode' = [mode EXCEPT ![s] = "open"]
  /\ base' = [base EXCEPT ![s] = tip]
  /\ want' = [want EXCEPT ![s] = utxo[tip]]
  /\ UNCHANGED <<disk, cache, tip, sCache, blocks>>

(* The span's destructor.                                                  *)
Destroyed(s) ==
  /\ mode' = [mode EXCEPT ![s] = "none"]
  /\ base' = [base EXCEPT ![s] = 0]
  /\ sCache' = [sCache EXCEPT ![s] = EmptyCache]
  /\ want' = [want EXCEPT ![s] = utxo[0]]

(* The span goes out of scope without a flush: the block is invalid, its   *)
(* validation was cancelled, or the span only read.                        *)
Close(s) ==
  /\ mode[s] # "none"
  /\ Destroyed(s)
  /\ UNCHANGED <<disk, cache, tip, blocks>>

(* A reader that is no span: CoinsDBView::GetCoin, GetCoinWithScript.      *)
ViewGetCoin(o, req, room) ==
  /\ cache' = [cache EXCEPT ![o] = DbEntryAfter(o, req, room)]
  /\ UNCHANGED <<disk, tip, mode, base, sCache, blocks, want>>

(* CCoinsViewCache::CacheInputs over the outpoints os; fits: those whose   *)
(* script found space.                                                     *)
CacheInputs(s, os, fits) ==
  /\ mode[s] = "open"
  /\ cache' = [o \in Outpoints |->
                 IF o \in os THEN DbEntryAfter(o, TRUE, o \in fits) ELSE cache[o]]
  /\ UNCHANGED <<disk, tip, mode, base, sCache, blocks, want>>

GetCoin(s, o, req, room) ==
  /\ mode[s] = "open"
  /\ Loads(s, o, req, room)
  /\ sCache' = [sCache EXCEPT ![s][o] = ShardEntryAfter(s, o, req, room)]
  /\ UNCHANGED <<disk, tip, mode, base, blocks, want>>

(* Shard::SpendCoin; wanted: the caller asks for the spent coin.           *)
SpendCoin(s, o, wanted, room) ==
  /\ mode[s] = "open"
  /\ Loads(s, o, wanted, room)
  /\ sCache' = [sCache EXCEPT ![s][o] = StoreSpend(ShardEntryAfter(s, o, wanted, room))]
  /\ want' = [want EXCEPT ![s][o] = NoCoin]
  /\ UNCHANGED <<disk, tip, mode, base, blocks>>

(* AddCoins without check: the outputs of a transaction are new, because   *)
(* its id is, except those of a coinbase, which may replace an older one.  *)
AddCoin(s, o, c, coinbase) ==
  /\ mode[s] = "open"
  /\ coinbase \/ want[s][o] = NoCoin
  /\ sCache' = [sCache EXCEPT ![s][o] = StoreAdd(@, c, coinbase)]
  /\ want' = [want EXCEPT ![s][o] = c]
  /\ UNCHANGED <<disk, cache, tip, mode, base, blocks>>

(* AddCoins with check, UndoCoinSpend: HaveCoin first.                     *)
AddCoinChecked(s, o, c, room) ==
  LET e == ShardEntryAfter(s, o, FALSE, room) IN
  /\ mode[s] = "open"
  /\ Loads(s, o, FALSE, room)
  /\ sCache' = [sCache EXCEPT ![s][o] = StoreAdd(e, c, IsUnspent(e))]
  /\ want' = [want EXCEPT ![s][o] = c]
  /\ UNCHANGED <<disk, tip, mode, base, blocks>>

(* SetBestBlock(b) and TryFlush: b is a new block on top of the tip, or    *)
(* the tip's parent once the span has undone the tip.  The span is         *)
(* destroyed afterwards.                                                   *)
TryFlush(s, b) ==
  /\ Attached(s)
  /\ Alone({s})
  /\ \/ b \notin known /\ parent' = [parent EXCEPT ![b] = tip]
     \/ b = parent[tip] /\ b # tip /\ UNCHANGED parent
        /\ utxo[b] = want[s]
  /\ cache' = [o \in Outpoints |-> Merged(sCache[s][o], cache[o])]
  /\ tip' = b
  /\ known' = known \union {b}
  /\ utxo' = [utxo EXCEPT ![b] = want[s]]
  /\ Destroyed(s)
  /\ UNCHANGED disk

ForceDetach(s) ==
  /\ mode[s] = "open"
  /\ mode' = [mode EXCEPT ![s] = "detached"]
  /\ UNCHANGED <<disk, cache, tip, base, sCache, blocks, want>>

(* A span that cannot be attached again is destroyed.  One that can is     *)
(* only flushed: Connect returns right after.                              *)
ReattachesAlways(s) == TRUE
Reattaches(s) == tip = base[s]

TryReattach(s) ==
  /\ mode[s] = "detached"
  /\ IF Reattaches(s)
     THEN mode' = [mode EXCEPT ![s] = "reattached"] /\ UNCHANGED <<base, sCache, want>>
     ELSE Destroyed(s)
  /\ UNCHANGED <<disk, cache, tip, blocks>>

(* CoinsDB::Flush, without a crash (module ChainstateRecovery has those).  *)
Flush ==
  /\ Alone({})
  /\ disk' = [o \in Outpoints |-> Written(cache[o], disk[o])]
  /\ cache' = EmptyCache
  /\ UNCHANGED <<tip, mode, base, sCache, blocks, want>>

Uncache(os) ==
  /\ Alone({})
  /\ cache' = [o \in Outpoints |-> IF o \in os THEN Uncached(cache[o]) ELSE cache[o]]
  /\ UNCHANGED <<disk, tip, mode, base, sCache, blocks, want>>

SpanStep(s) ==
  \/ Open(s) \/ Close(s) \/ ForceDetach(s) \/ TryReattach(s)
  \/ \E b \in Blocks : TryFlush(s, b)
  \/ \E os \in SUBSET Outpoints : \E fits \in SUBSET os : CacheInputs(s, os, fits)
  \/ \E o \in Outpoints, flag, room \in BOOLEAN :
       GetCoin(s, o, flag, room) \/ SpendCoin(s, o, flag, room)
  \/ \E o \in Outpoints, c \in Coins, flag \in BOOLEAN :
       AddCoin(s, o, c, flag) \/ AddCoinChecked(s, o, c, flag)

Next ==
  \/ \E s \in Spans : SpanStep(s)
  \/ \E o \in Outpoints, req, room \in BOOLEAN : ViewGetCoin(o, req, room)
  \/ \E os \in SUBSET Outpoints : Uncache(os)
  \/ Flush

Spec == Init /\ [][Next]_vars
-----------------------------------------------------------------------------
(* The type invariant, with the shape of the entries.                      *)
TypeOK ==
  /\ disk \in [Outpoints -> MaybeCoin]
  /\ cache \in [Outpoints -> Entry \union {NoEntry}]
  /\ tip \in Blocks
  /\ mode \in [Spans -> {"none", "open", "detached", "reattached"}]
  /\ base \in [Spans -> Blocks]
  /\ sCache \in [Spans -> [Outpoints -> Entry \union {NoEntry}]]
  /\ utxo \in [Blocks -> [Outpoints -> MaybeCoin]]
  /\ parent \in [Blocks -> Blocks]
  /\ known \in SUBSET Blocks
  /\ want \in [Spans -> [Outpoints -> MaybeCoin]]

(* The shared cache over the database is the unspent outputs of the tip,   *)
(* whatever was loaded, evicted, flushed or merged: reads through CoinsDB  *)
(* are right, with and without the script.                                 *)
CommittedCoinsRead ==
  \A o \in Outpoints, req \in BOOLEAN : DbCoin(o, req) = utxo[tip][o]

(* A span reads its own writes over the coins of its base block, whatever  *)
(* it asked for before and in whatever form the coin was cached.           *)
SpansReadTheirWrites ==
  \A s \in Spans, o \in Outpoints, req \in BOOLEAN :
    mode[s] = "open" =>
      want[s][o] = IF sCache[s][o] = NoEntry THEN DbCoin(o, req) ELSE sCache[s][o].coin

(* An attached span works on the current tip, and what it has cached and   *)
(* not modified is what CoinsDB has: nothing was committed underneath it,  *)
(* not even while it was detached (TryReattach compares best blocks only). *)
AttachedSpansCurrent ==
  \A s \in Spans :
    Attached(s) =>
      /\ base[s] = tip
      /\ \A o \in Outpoints :
           (sCache[s][o] # NoEntry /\ ~IsDirty(sCache[s][o])) => sCache[s][o].coin = DbView(o)

(* FRESH means what coins.h says: "The parent view does not have this      *)
(* entry (or it is pruned)", for the shared cache and for every span that  *)
(* can still be flushed.                                                   *)
FreshMeansParentLacks ==
  /\ \A o \in Outpoints : IsFresh(cache[o]) => disk[o] = NoCoin
  /\ \A s \in Spans, o \in Outpoints :
       (Attached(s) /\ IsFresh(sCache[s][o])) => DbView(o) = NoCoin

(* Neither logic_error of CoinsStore can be thrown: a flush never meets a  *)
(* FRESH entry over an unspent one, and an output known to be new never    *)
(* replaces an unspent entry.                                              *)
NoLogicError ==
  \A s \in Spans, o \in Outpoints :
    /\ Attached(s) => ~FreshMisapplied(sCache[s][o], cache[o])
    /\ (mode[s] = "open" /\ want[s][o] = NoCoin) => ~OverwritesUnspent(sCache[s][o], FALSE)

(* DBBatchWrite asserts that a dirty unspent entry has its script, though  *)
(* entries lose scripts for lack of space and spans hold scripts by        *)
(* reference: what reaches the shared cache dirty owns its script, and no  *)
(* reference is ever stored in the shared cache.                           *)
DirtyCoinsOwnScripts ==
  /\ \A o \in Outpoints :
       /\ (IsDirty(cache[o]) /\ IsUnspent(cache[o])) => cache[o].script = "own"
       /\ cache[o] # NoEntry => cache[o].script # "ref"
  /\ \A s \in Spans, o \in Outpoints :
       (IsDirty(sCache[s][o]) /\ IsUnspent(sCache[s][o])) => sCache[s][o].script = "own"

(* The three layers and their flags agree, after any calls on the spans    *)
(* and on CoinsDB.                                                         *)
LayersConsistent ==
  /\ TypeOK
  /\ CommittedCoinsRead
  /\ AttachedSpansCurrent
  /\ FreshMeansParentLacks
  /\ DirtyCoinsOwnScripts

(* A script reference in a span that still reads coins refers to a shared  *)
(* entry that is there, unspent, with its script loaded.                   *)
ReferencesValid ==
  \A s \in Spans, o \in Outpoints :
    (mode[s] = "open" /\ sCache[s][o] # NoEntry /\ sCache[s][o].script = "ref")
      => IsUnspent(cache[o]) /\ cache[o].script = "own"

(* No call on a span ends in an exception of CoinsStore or in a reference  *)
(* to a script that another thread has evicted or spent.                   *)
SpansUndisturbed == NoLogicError /\ ReferencesValid

(* The layers implement the unspent output set of UtxoSet: loading,        *)
(* evicting and flushing are invisible, a span's copy is private and       *)
(* consistent, and it is committed only on the block it started from.      *)
U == INSTANCE UtxoSet WITH
  NoSpan <- NoEntry,
  utxo <- [utxo EXCEPT ![tip] = [o \in Outpoints |-> DbView(o)]],
  span <- [s \in Spans |->
             IF mode[s] = "none" THEN NoEntry
             ELSE [base |-> base[s], view |-> [o \in Outpoints |-> SpanView(s, o)]]]

ImplementsUtxoSet == U!AbsSpec
=============================================================================
