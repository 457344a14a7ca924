----------------------------- MODULE CoinsProofs -----------------------------
(***************************************************************************)
(* The coins database, for every value of the constants.                   *)
(*                                                                         *)
(* First the safety of the layers, and that they implement UtxoSet.  Every *)
(* rule of the layers treats an outpoint by itself, so the inductive       *)
(* invariant says for each outpoint how an entry of the shared cache       *)
(* relates to the database and to the coins of the tip, and how an entry   *)
(* of a span relates to the coins of the block it is based on.             *)
(*                                                                         *)
(* Then the concurrent loads into the shared cache (CoinsFetch).  Their    *)
(* invariant says what each reader has found out by the place it has       *)
(* reached; it holds because a load only ever fills in a coin of the       *)
(* database, in an entry that does not have its script, and because nobody *)
(* makes an entry DIRTY while a reader is at work.                         *)
(***************************************************************************)
EXTENDS CoinsViews, CoinsFetch, FiniteSetTheorems, NaturalsInduction, WellFoundedInduction, TLAPS

\* The shared entry e over the database's coin d stands for the coin u of the tip.
SharedEntryOK(e, d, u) ==
  /\ Over(e, d) = u
  /\ e # NoEntry /\ ~IsDirty(e) => e.coin = d
  /\ IsFresh(e) => d = NoCoin
  /\ IsDirty(e) /\ IsUnspent(e) => e.script = "own"
  /\ e # NoEntry => e.script # "ref"

\* The entry e of a span over the coin u of its base stands for the coin w.
SpanEntryOK(e, u, w) ==
  /\ Over(e, u) = w
  /\ e # NoEntry /\ ~IsDirty(e) => e.coin = u
  /\ IsFresh(e) => u = NoCoin
  /\ IsDirty(e) /\ IsUnspent(e) => e.script = "own"

\* The script reference of a span's entry e, if it has one, is to the shared entry f.
ReferenceOK(e, f) ==
  e # NoEntry /\ e.script = "ref" => IsUnspent(f) /\ f.script = "own"

SharedOK == \A o \in Outpoints : SharedEntryOK(cache[o], disk[o], utxo[tip][o])

SpanOK(s) ==
  /\ base[s] \in known
  /\ Attached(s) => base[s] = tip
  /\ mode[s] = "none" => sCache[s] = EmptyCache
  /\ mode[s] # "none" =>
       \A o \in Outpoints : SpanEntryOK(sCache[s][o], utxo[base[s]][o], want[s][o])
  /\ mode[s] = "open" => \A o \in Outpoints : ReferenceOK(sCache[s][o], cache[o])

IInv ==
  /\ TypeOK
  /\ 0 \in known /\ tip \in known
  /\ SharedOK
  /\ \A s \in Spans : SpanOK(s)

MaybeEntry == Entry \union {NoEntry}
-----------------------------------------------------------------------------
\* What the shape of an entry gives: NoEntry is no record, and the fields have their types.
LEMMA EntryFields ==
  ASSUME NEW e \in Entry
  PROVE  /\ e # NoEntry
         /\ e.coin \in MaybeCoin /\ e.script \in Scripts
         /\ e.dirty \in BOOLEAN /\ e.fresh \in BOOLEAN
         /\ e.coin = NoCoin => e.script = "none" /\ e.dirty
         /\ e.fresh => e.dirty /\ e.coin # NoCoin
BY CoinsDistinct, Zenon DEF Entry, EntryRecords, WellFormed

\* An entry made of its fields.
LEMMA EntryMade ==
  ASSUME NEW c \in MaybeCoin, NEW k \in Scripts, NEW d \in BOOLEAN, NEW f \in BOOLEAN,
         c = NoCoin => k = "none" /\ d, f => d /\ c # NoCoin
  PROVE  [coin |-> c, script |-> k, dirty |-> d, fresh |-> f] \in Entry
BY Zenon DEF Entry, EntryRecords, WellFormed

\* Replacing fields of an entry makes the entry of the new fields.
LEMMA EntryExcept ==
  ASSUME NEW e \in Entry, NEW c \in MaybeCoin, NEW k \in Scripts, NEW d \in BOOLEAN,
         NEW f \in BOOLEAN
  PROVE  /\ [e EXCEPT !.coin = c, !.script = k]
              = [coin |-> c, script |-> k, dirty |-> e.dirty, fresh |-> e.fresh]
         /\ [e EXCEPT !.coin = c, !.script = k, !.dirty = d]
              = [coin |-> c, script |-> k, dirty |-> d, fresh |-> e.fresh]
         /\ [e EXCEPT !.dirty = d, !.fresh = f]
              = [coin |-> e.coin, script |-> e.script, dirty |-> d, fresh |-> f]
<1>1. \A x \in EntryRecords :
        /\ [x EXCEPT !.coin = c] = [coin |-> c, script |-> x.script, dirty |-> x.dirty, fresh |-> x.fresh]
        /\ [x EXCEPT !.script = k] = [coin |-> x.coin, script |-> k, dirty |-> x.dirty, fresh |-> x.fresh]
        /\ [x EXCEPT !.dirty = d] = [coin |-> x.coin, script |-> x.script, dirty |-> d, fresh |-> x.fresh]
        /\ [x EXCEPT !.fresh = f] = [coin |-> x.coin, script |-> x.script, dirty |-> x.dirty, fresh |-> f]
  BY SMTT(30) DEF EntryRecords
<1>2. e \in EntryRecords
  BY Zenon DEF Entry
<1>3. [e EXCEPT !.coin = c, !.script = k] = [[e EXCEPT !.coin = c] EXCEPT !.script = k]
  OBVIOUS
<1>a. [e EXCEPT !.coin = c, !.script = k, !.dirty = d]
        = [[[e EXCEPT !.coin = c] EXCEPT !.script = k] EXCEPT !.dirty = d]
  OBVIOUS
<1>b. [e EXCEPT !.dirty = d, !.fresh = f] = [[e EXCEPT !.dirty = d] EXCEPT !.fresh = f]
  OBVIOUS
<1>4. /\ [coin |-> c, script |-> e.script, dirty |-> e.dirty, fresh |-> e.fresh] \in EntryRecords
      /\ [coin |-> c, script |-> k, dirty |-> e.dirty, fresh |-> e.fresh] \in EntryRecords
      /\ [coin |-> e.coin, script |-> e.script, dirty |-> d, fresh |-> e.fresh] \in EntryRecords
  BY <1>2, Zenon DEF EntryRecords
<1>5. [[e EXCEPT !.coin = c] EXCEPT !.script = k]
        = [coin |-> c, script |-> k, dirty |-> e.dirty, fresh |-> e.fresh]
  <2>1. PICK x \in EntryRecords :
          x = [coin |-> c, script |-> e.script, dirty |-> e.dirty, fresh |-> e.fresh]
    BY <1>4, Zenon
  <2>2. [e EXCEPT !.coin = c] = x
    BY <1>1, <1>2, <2>1, Zenon
  <2>3. [x EXCEPT !.script = k] = [coin |-> x.coin, script |-> k, dirty |-> x.dirty, fresh |-> x.fresh]
    BY <1>1, Zenon
  <2>4. QED
    BY <2>1, <2>2, <2>3, Zenon
<1>6. [[[e EXCEPT !.coin = c] EXCEPT !.script = k] EXCEPT !.dirty = d]
        = [coin |-> c, script |-> k, dirty |-> d, fresh |-> e.fresh]
  <2>1. PICK x \in EntryRecords :
          x = [coin |-> c, script |-> k, dirty |-> e.dirty, fresh |-> e.fresh]
    BY <1>4, Zenon
  <2>2. [x EXCEPT !.dirty = d] = [coin |-> x.coin, script |-> x.script, dirty |-> d, fresh |-> x.fresh]
    BY <1>1, Zenon
  <2>3. QED
    BY <1>5, <2>1, <2>2, Zenon
<1>7. [[e EXCEPT !.dirty = d] EXCEPT !.fresh = f]
        = [coin |-> e.coin, script |-> e.script, dirty |-> d, fresh |-> f]
  <2>1. PICK x \in EntryRecords :
          x = [coin |-> e.coin, script |-> e.script, dirty |-> d, fresh |-> e.fresh]
    BY <1>4, Zenon
  <2>2. [e EXCEPT !.dirty = d] = x
    BY <1>1, <1>2, <2>1, Zenon
  <2>3. [x EXCEPT !.fresh = f] = [coin |-> x.coin, script |-> x.script, dirty |-> x.dirty, fresh |-> f]
    BY <1>1, Zenon
  <2>4. QED
    BY <2>1, <2>2, <2>3, Zenon
<1>8. QED
  BY <1>3, <1>a, <1>b, <1>5, <1>6, <1>7, Zenon
-----------------------------------------------------------------------------
\* The types of what is looked up for an outpoint.
LEMMA StateTypes ==
  ASSUME TypeOK, NEW o \in Outpoints
  PROVE  /\ disk[o] \in MaybeCoin /\ utxo[tip][o] \in MaybeCoin
         /\ cache[o] \in MaybeEntry
         /\ \A s \in Spans : /\ sCache[s][o] \in MaybeEntry /\ want[s][o] \in MaybeCoin
                             /\ utxo[base[s]][o] \in MaybeCoin
BY Zenon DEF TypeOK, MaybeEntry

\* GetCoin of CoinsDB leaves a right entry, does not take a script away, and returns the coin of the
\* tip, with and without the script.
LEMMA DbLoad ==
  ASSUME TypeOK, SharedOK, NEW o \in Outpoints, NEW req \in BOOLEAN, NEW room \in BOOLEAN
  PROVE  /\ DbEntryAfter(o, req, room) \in MaybeEntry
         /\ SharedEntryOK(DbEntryAfter(o, req, room), disk[o], utxo[tip][o])
         /\ IsUnspent(cache[o]) /\ cache[o].script = "own" =>
              IsUnspent(DbEntryAfter(o, req, room)) /\ DbEntryAfter(o, req, room).script = "own"
         /\ DbCoin(o, req) = utxo[tip][o]
         /\ ScriptKept(o, req, room) \in Scripts
         /\ ScriptKept(o, req, room) = "ref" =>
              IsUnspent(DbEntryAfter(o, req, room)) /\ DbEntryAfter(o, req, room).script = "own"
<1> DEFINE e == cache[o]
           a == DbEntryAfter(o, req, room)
<1>1. /\ e \in MaybeEntry /\ disk[o] \in MaybeCoin /\ utxo[tip][o] \in MaybeCoin
      /\ SharedEntryOK(e, disk[o], utxo[tip][o])
  BY StateTypes, Zenon DEF SharedOK
<1>2. /\ a \in MaybeEntry
      /\ SharedEntryOK(a, disk[o], utxo[tip][o])
      /\ IsUnspent(e) /\ e.script = "own" => IsUnspent(a) /\ a.script = "own"
  <2>1. CASE ~(GoesToDisk(e, req) /\ disk[o] # NoCoin)
    BY <1>1, <2>1, Zenon DEF DbEntryAfter
  <2>2. CASE GoesToDisk(e, req) /\ disk[o] # NoCoin /\ e = NoEntry
    <3>1. PICK k \in Scripts : k # "ref" /\ a = [coin |-> disk[o], script |-> k, dirty |-> FALSE, fresh |-> FALSE]
      BY <2>2, Zenon DEF DbEntryAfter, Clean, Scripts
    <3>2. a \in Entry
      BY <1>1, <2>2, <3>1, EntryMade, Zenon
    <3>3. QED
      BY <1>1, <2>2, <3>1, <3>2, EntryFields, SMTT(30)
         DEF SharedEntryOK, Over, IsDirty, IsFresh, IsUnspent, MaybeEntry
  <2>3. CASE GoesToDisk(e, req) /\ disk[o] # NoCoin /\ e # NoEntry /\ ~room
    BY <1>1, <2>3, Zenon DEF DbEntryAfter
  <2>4. CASE GoesToDisk(e, req) /\ disk[o] # NoCoin /\ e # NoEntry /\ room
    <3>1. e \in Entry /\ e.coin # NoCoin /\ e.script = "none"
      BY <1>1, <2>4, Zenon DEF GoesToDisk, MaybeEntry
    <3>2. e.dirty = FALSE /\ e.fresh = FALSE /\ e.coin = disk[o]
      BY <1>1, <2>4, <3>1, EntryFields, Zenon DEF SharedEntryOK, IsDirty, IsUnspent
    <3>3. a = [e EXCEPT !.coin = disk[o], !.script = "own"]
      BY <2>4, Zenon DEF DbEntryAfter
    <3>4. a = [coin |-> disk[o], script |-> "own", dirty |-> e.dirty, fresh |-> e.fresh]
      BY <1>1, <3>1, <3>3, EntryExcept, Zenon DEF Scripts
    <3>5. a = [coin |-> disk[o], script |-> "own", dirty |-> FALSE, fresh |-> FALSE]
      BY <3>2, <3>4, Zenon
    <3>6. a \in Entry
      BY <1>1, <2>4, <3>5, EntryMade, Zenon DEF Scripts
    <3>7. a.coin = disk[o] /\ a.script = "own" /\ ~a.dirty /\ ~a.fresh
      BY <3>5, SMTT(30)
    <3>a. a # NoEntry
      BY <3>6, EntryFields, Zenon
    <3>8. utxo[tip][o] = disk[o]
      BY <1>1, <3>1, <3>2, EntryFields, Zenon DEF SharedEntryOK, Over
    <3>9. QED
      BY <2>4, <3>6, <3>7, <3>a, <3>8, Zenon DEF SharedEntryOK, Over, IsDirty, IsFresh, IsUnspent, MaybeEntry
  <2>5. QED
    BY <2>1, <2>2, <2>3, <2>4, Zenon
<1>3. DbCoin(o, req) = utxo[tip][o]
  BY <1>1, EntryFields, Zenon DEF DbCoin, GoesToDisk, SharedEntryOK, Over, IsDirty, IsUnspent, MaybeEntry
<1>4. a # NoEntry /\ a.script = "own" => IsUnspent(a)
  BY <1>2, EntryFields, Zenon DEF IsUnspent, MaybeEntry
<1>5. QED
  BY <1>2, <1>3, <1>4, Zenon DEF ScriptKept, Scripts
\* What a reader does to the shared cache: entries stay right and keep their scripts.
Grown ==
  /\ cache' \in [Outpoints -> MaybeEntry]
  /\ \A p \in Outpoints :
       /\ SharedEntryOK(cache'[p], disk[p], utxo[tip][p])
       /\ IsUnspent(cache[p]) /\ cache[p].script = "own" =>
            IsUnspent(cache'[p]) /\ cache'[p].script = "own"

\* Looking at one outpoint through CoinsDB is reading.
LEMMA ReadGrows ==
  ASSUME TypeOK, SharedOK, NEW o \in Outpoints, NEW req \in BOOLEAN, NEW room \in BOOLEAN,
         cache' = [cache EXCEPT ![o] = DbEntryAfter(o, req, room)]
  PROVE  Grown
<1>1. cache \in [Outpoints -> MaybeEntry]
  BY Zenon DEF TypeOK, MaybeEntry
<1>2. DbEntryAfter(o, req, room) \in MaybeEntry
  BY DbLoad, Zenon
<1>3. /\ cache' \in [Outpoints -> MaybeEntry]
      /\ cache'[o] = DbEntryAfter(o, req, room)
      /\ \A p \in Outpoints : p # o => cache'[p] = cache[p]
  BY <1>1, <1>2, Zenon
<1>4. ASSUME NEW p \in Outpoints
      PROVE  /\ SharedEntryOK(cache'[p], disk[p], utxo[tip][p])
             /\ IsUnspent(cache[p]) /\ cache[p].script = "own" =>
                  IsUnspent(cache'[p]) /\ cache'[p].script = "own"
  <2>1. CASE p = o
    BY <1>3, <2>1, DbLoad, Zenon
  <2>2. CASE p # o
    BY <1>3, <2>2, Zenon DEF SharedOK
  <2>3. QED
    BY <2>1, <2>2, Zenon
<1>5. QED
  BY <1>3, <1>4, Zenon DEF Grown

\* A cache that does not change has grown.
LEMMA SameGrows ==
  ASSUME TypeOK, SharedOK, cache' = cache
  PROVE  Grown
BY Zenon DEF Grown, TypeOK, SharedOK, MaybeEntry

\* So is what a call on a span does to the shared cache.
LEMMA LoadsGrows ==
  ASSUME TypeOK, SharedOK, NEW s \in Spans, NEW o \in Outpoints,
         NEW req \in BOOLEAN, NEW room \in BOOLEAN, Loads(s, o, req, room)
  PROVE  Grown
BY ReadGrows, SameGrows, Zenon DEF Loads

\* Shard::GetCoin of an open span: the entry it leaves stands for the wanted coin, and a script
\* it refers to is in the shared cache.  Without an entry there is no coin.
LEMMA ShardLoad ==
  ASSUME IInv, NEW s \in Spans, mode[s] = "open", NEW o \in Outpoints,
         NEW req \in BOOLEAN, NEW room \in BOOLEAN, Loads(s, o, req, room)
  PROVE  /\ ShardEntryAfter(s, o, req, room) \in MaybeEntry
         /\ SpanEntryOK(ShardEntryAfter(s, o, req, room), utxo[base[s]][o], want[s][o])
         /\ ReferenceOK(ShardEntryAfter(s, o, req, room), cache'[o])
         /\ ShardEntryAfter(s, o, req, room) = NoEntry => utxo[base[s]][o] = NoCoin
<1> DEFINE e == sCache[s][o]
           a == ShardEntryAfter(s, o, req, room)
<1>1. /\ TypeOK /\ SharedOK /\ base[s] = tip
      /\ e \in MaybeEntry /\ utxo[tip][o] \in MaybeCoin
      /\ SpanEntryOK(e, utxo[tip][o], want[s][o])
      /\ ReferenceOK(e, cache[o])
  BY StateTypes, Zenon DEF IInv, SpanOK, Attached
<1>2. Grown
  BY <1>1, LoadsGrows, Zenon
<1>3. CASE ~(e = NoEntry /\ DbCoin(o, req) # NoCoin)
  <2>1. a = e
    BY <1>3, Zenon DEF ShardEntryAfter
  <2>2. QED
    BY <1>1, <1>2, <1>3, <2>1, DbLoad, Zenon DEF Grown, ReferenceOK
<1>4. CASE e = NoEntry /\ DbCoin(o, req) # NoCoin
  <2>1. cache'[o] = DbEntryAfter(o, req, room)
    BY <1>1, <1>4, Zenon DEF Loads, AsksView, GoesToDisk, TypeOK
  <2>2. /\ DbCoin(o, req) = utxo[tip][o]
        /\ ScriptKept(o, req, room) \in Scripts
        /\ ScriptKept(o, req, room) = "ref" => IsUnspent(cache'[o]) /\ cache'[o].script = "own"
    BY <1>1, <2>1, DbLoad, SMTT(30)
  <2>3. want[s][o] = utxo[tip][o]
    BY <1>1, <1>4, Zenon DEF SpanEntryOK, Over
  <2>4. a = [coin |-> utxo[tip][o], script |-> ScriptKept(o, req, room),
             dirty |-> FALSE, fresh |-> FALSE]
    BY <1>4, <2>2, Zenon DEF ShardEntryAfter, Clean
  <2>5. a \in Entry
    BY <1>1, <1>4, <2>2, <2>4, EntryMade, Zenon
  <2>6. a.coin = utxo[tip][o] /\ a.script = ScriptKept(o, req, room) /\ ~a.dirty /\ ~a.fresh
    BY <2>4, SMTT(30)
  <2>7. a # NoEntry
    BY <2>5, EntryFields, Zenon
  <2>8. QED
    BY <1>1, <2>2, <2>3, <2>5, <2>6, <2>7, Zenon
       DEF SpanEntryOK, ReferenceOK, Over, IsDirty, IsFresh, MaybeEntry
<1>5. QED
  BY <1>3, <1>4, Zenon

\* A span that reads or writes one outpoint preserves the invariant.
LEMMA OneOutpoint ==
  ASSUME IInv, NEW s \in Spans, mode[s] = "open", Grown, NEW o \in Outpoints,
         NEW x \in MaybeEntry, NEW w \in MaybeCoin,
         SpanEntryOK(x, utxo[base[s]][o], w), ReferenceOK(x, cache'[o]),
         sCache' = [sCache EXCEPT ![s][o] = x],
         want' = [want EXCEPT ![s][o] = w],
         UNCHANGED <<disk, tip, mode, base, blocks>>
  PROVE  IInv'
<1>1. /\ sCache' \in [Spans -> [Outpoints -> MaybeEntry]]
      /\ want' \in [Spans -> [Outpoints -> MaybeCoin]]
      /\ \A t \in Spans : t # s => sCache'[t] = sCache[t] /\ want'[t] = want[t]
      /\ \A p \in Outpoints : p # o => sCache'[s][p] = sCache[s][p] /\ want'[s][p] = want[s][p]
      /\ sCache'[s][o] = x /\ want'[s][o] = w
  BY Zenon DEF IInv, TypeOK, MaybeEntry
<1>2. TypeOK'
  BY <1>1, Zenon DEF IInv, TypeOK, Grown, MaybeEntry, blocks
<1>3. SharedOK'
  BY Zenon DEF SharedOK, Grown, blocks
<1>4. ASSUME NEW t \in Spans, t # s
      PROVE  SpanOK(t)'
  BY <1>1, <1>4, Zenon DEF IInv, SpanOK, Attached, Grown, ReferenceOK, blocks
<1>5. SpanOK(s)'
  <2>1. ASSUME NEW p \in Outpoints
        PROVE  /\ SpanEntryOK(sCache'[s][p], utxo[base[s]][p], want'[s][p])
               /\ ReferenceOK(sCache'[s][p], cache'[p])
    <3>1. CASE p = o
      BY <1>1, <3>1, Zenon
    <3>2. CASE p # o
      BY <1>1, <3>2, SMTT(30) DEF IInv, SpanOK, Grown, ReferenceOK
    <3>3. QED
      BY <3>1, <3>2, Zenon
  <2>2. QED
    BY <2>1, Zenon DEF IInv, SpanOK, Attached, blocks
<1>6. (0 \in known /\ tip \in known)'
  BY Zenon DEF IInv, blocks
<1>7. QED
  BY <1>2, <1>3, <1>4, <1>5, <1>6, Zenon DEF IInv
-----------------------------------------------------------------------------
\* CoinsStore::SpendCoin.
LEMMA SpendOK ==
  ASSUME NEW e \in MaybeEntry, NEW u \in MaybeCoin, NEW w, SpanEntryOK(e, u, w),
         e = NoEntry => u = NoCoin
  PROVE  /\ StoreSpend(e) \in MaybeEntry
         /\ SpanEntryOK(StoreSpend(e), u, NoCoin)
         /\ \A f : ReferenceOK(StoreSpend(e), f)
<1>1. CASE e = NoEntry \/ IsFresh(e)
  BY <1>1, Zenon DEF StoreSpend, SpanEntryOK, ReferenceOK, Over, IsDirty, IsFresh, MaybeEntry
<1>2. CASE ~(e = NoEntry \/ IsFresh(e))
  <2>1. e \in Entry /\ e.fresh = FALSE
    BY <1>2, EntryFields, Zenon DEF IsFresh, MaybeEntry
  <2>2. StoreSpend(e) = [e EXCEPT !.coin = NoCoin, !.script = "none", !.dirty = TRUE]
    BY <1>2, Zenon DEF StoreSpend
  <2>3. StoreSpend(e) = [coin |-> NoCoin, script |-> "none", dirty |-> TRUE, fresh |-> e.fresh]
    BY <2>1, <2>2, EntryExcept, Zenon DEF Scripts, MaybeCoin
  <2>4. StoreSpend(e) = [coin |-> NoCoin, script |-> "none", dirty |-> TRUE, fresh |-> FALSE]
    BY <2>1, <2>3, Zenon
  <2>5. StoreSpend(e) \in Entry
    BY <2>4, EntryMade, Zenon DEF Scripts, MaybeCoin
  <2>6. StoreSpend(e) # NoEntry
    BY <2>5, EntryFields, Zenon
  <2>7. /\ StoreSpend(e).coin = NoCoin /\ StoreSpend(e).script = "none"
        /\ StoreSpend(e).dirty /\ ~StoreSpend(e).fresh
    BY <2>4, SMTT(30)
  <2>8. QED
    BY <2>5, <2>6, <2>7, Zenon
       DEF SpanEntryOK, ReferenceOK, Over, IsDirty, IsFresh, IsUnspent, MaybeEntry
<1>3. QED
  BY <1>1, <1>2, Zenon

\* CoinsStore::AddCoin: an entry may only be made FRESH where the base has no coin.
LEMMA AddOK ==
  ASSUME NEW e \in MaybeEntry, NEW u \in MaybeCoin, NEW w, SpanEntryOK(e, u, w),
         NEW c \in Coins, NEW overwrite \in BOOLEAN,
         ~overwrite /\ ~IsDirty(e) => u = NoCoin
  PROVE  /\ StoreAdd(e, c, overwrite) \in MaybeEntry
         /\ SpanEntryOK(StoreAdd(e, c, overwrite), u, c)
         /\ \A f : ReferenceOK(StoreAdd(e, c, overwrite), f)
<1> DEFINE a == StoreAdd(e, c, overwrite)
<1>1. PICK f \in BOOLEAN : f = (IsFresh(e) \/ (~overwrite /\ ~IsDirty(e)))
  BY ZenonT(20)
<1>2. a = [coin |-> c, script |-> "own", dirty |-> TRUE, fresh |-> f]
  BY <1>1, Zenon DEF StoreAdd
<1>3. f => u = NoCoin
  BY <1>1, Zenon DEF SpanEntryOK
<1>4. a \in Entry
  BY <1>2, EntryMade, CoinsDistinct, Zenon DEF Scripts, MaybeCoin
<1>5. a # NoEntry
  BY <1>4, EntryFields, Zenon
<1>6. a.coin = c /\ a.script = "own" /\ a.dirty /\ (a.fresh => f)
  BY <1>2, SMTT(30)
<1>7. QED
  BY <1>3, <1>4, <1>5, <1>6, Zenon
     DEF SpanEntryOK, ReferenceOK, Over, IsDirty, IsFresh, IsUnspent, MaybeEntry

\* CoinsStore::BatchWrite of a span's entry into the shared entry over which it lies.
LEMMA MergeOK ==
  ASSUME NEW e \in MaybeEntry, NEW d \in MaybeCoin, NEW u \in MaybeCoin, NEW w \in MaybeCoin,
         NEW child \in MaybeEntry, SharedEntryOK(e, d, u), SpanEntryOK(child, u, w)
  PROVE  /\ Merged(child, e) \in MaybeEntry
         /\ SharedEntryOK(Merged(child, e), d, w)
<1> DEFINE a == Merged(child, e)
           f == IF e = NoEntry THEN child.fresh ELSE e.fresh
<1>1. CASE ~IsDirty(child)
  <2>1. a = e
    BY <1>1, Zenon DEF Merged
  <2>2. w = u
    BY <1>1, Zenon DEF SpanEntryOK, Over
  <2>3. QED
    BY <2>1, <2>2, Zenon
<1>2. CASE IsDirty(child)
  <2>1. child \in Entry /\ child.dirty /\ w = child.coin
    BY <1>2, Zenon DEF IsDirty, MaybeEntry, SpanEntryOK, Over
  <2>2. f \in BOOLEAN /\ (f => d = NoCoin)
    BY <2>1, EntryFields, Zenon DEF SharedEntryOK, SpanEntryOK, Over, IsFresh, MaybeEntry
  <2>3. CASE child.coin = NoCoin /\ f
    <3>1. a = NoEntry
      BY <1>2, <2>3, Zenon DEF Merged
    <3>2. QED
      BY <2>1, <2>2, <2>3, <3>1, Zenon DEF SharedEntryOK, Over, IsDirty, IsFresh, MaybeEntry
  <2>4. CASE ~(child.coin = NoCoin /\ f)
    <3>1. a = [child EXCEPT !.dirty = TRUE, !.fresh = f]
      BY <1>2, <2>4, Zenon DEF Merged
    <3>2. PICK g \in BOOLEAN : g = f
      BY <2>2, Zenon
    <3>3. a = [coin |-> child.coin, script |-> child.script, dirty |-> TRUE, fresh |-> g]
      BY <2>1, <3>1, <3>2, EntryExcept, EntryFields, Zenon
    <3>4. g => child.coin # NoCoin
      BY <2>4, <3>2, Zenon
    <3>a. /\ child.coin \in MaybeCoin /\ child.script \in Scripts
          /\ child.coin = NoCoin => child.script = "none"
      BY <2>1, EntryFields, Zenon
    <3>5. a \in Entry
      BY <3>3, <3>4, <3>a, EntryMade, Zenon
    <3>6. a # NoEntry
      BY <3>5, EntryFields, Zenon
    <3>7. a.coin = child.coin /\ a.script = child.script /\ a.dirty /\ (a.fresh => g)
      BY <3>3, SMTT(30)
    <3>8. child.coin # NoCoin => child.script = "own"
      BY <1>2, <2>1, EntryFields, Zenon DEF SpanEntryOK, IsUnspent
    <3>9. child.coin = NoCoin => child.script = "none"
      BY <2>1, EntryFields, Zenon
    <3>10. QED
      BY <2>1, <2>2, <3>2, <3>5, <3>6, <3>7, <3>8, <3>9, Zenon
         DEF SharedEntryOK, Over, IsDirty, IsFresh, IsUnspent, MaybeEntry
  <2>5. QED
    BY <2>3, <2>4, Zenon
<1>3. QED
  BY <1>1, <1>2, Zenon
-----------------------------------------------------------------------------
\* Reading through CoinsDB alone preserves the invariant.
LEMMA Quiet ==
  ASSUME IInv, Grown, UNCHANGED <<disk, tip, mode, base, sCache, blocks, want>>
  PROVE  IInv'
<1>1. TypeOK'
  BY Zenon DEF IInv, TypeOK, Grown, MaybeEntry, blocks
<1>2. SharedOK'
  BY Zenon DEF SharedOK, Grown, blocks
<1>3. ASSUME NEW t \in Spans
      PROVE  SpanOK(t)'
  BY Zenon DEF IInv, SpanOK, Attached, Grown, ReferenceOK, blocks
<1>4. QED
  BY <1>1, <1>2, <1>3, Zenon DEF IInv, blocks

\* The invariant holds with empty caches and no spans.
LEMMA InitEstablishes == Init => IInv
<1>1. SUFFICES ASSUME Init PROVE IInv
  OBVIOUS
<1>2. 0 \in Blocks
  BY BlocksBounded, SMTT(30) DEF Blocks
<1>3. TypeOK
  BY <1>1, <1>2, Zenon DEF Init, TypeOK, EmptyCache
<1>4. SharedOK
  BY <1>1, <1>2, Zenon DEF Init, SharedOK, SharedEntryOK, EmptyCache, Over, IsDirty, IsFresh
<1>5. \A s \in Spans : SpanOK(s)
  BY <1>1, Zenon DEF Init, SpanOK, Attached
<1>6. QED
  BY <1>1, <1>3, <1>4, <1>5, Zenon DEF Init, IInv

\* A new span is based on the tip and has nothing cached.
LEMMA OpenKeeps ==
  ASSUME IInv, NEW s \in Spans, Open(s)
  PROVE  IInv'
<1>1. /\ TypeOK /\ SharedOK /\ tip \in known
      /\ mode[s] = "none" /\ sCache[s] = EmptyCache
  BY Zenon DEF IInv, SpanOK, Open
<1>2. TypeOK'
  BY <1>1, Zenon DEF TypeOK, Open, blocks
<1>3. SharedOK'
  BY <1>1, Zenon DEF SharedOK, Open, blocks
<1>4. ASSUME NEW t \in Spans, t # s
      PROVE  SpanOK(t)'
  BY <1>1, <1>4, Zenon DEF IInv, SpanOK, Attached, Open, TypeOK, blocks
<1>5. SpanOK(s)'
  <2>1. mode'[s] = "open" /\ base'[s] = tip /\ want'[s] = utxo[tip] /\ sCache'[s] = EmptyCache
    BY <1>1, Zenon DEF TypeOK, Open
  <2>2. \A o \in Outpoints : /\ SpanEntryOK(sCache'[s][o], utxo[tip][o], want'[s][o])
                             /\ ReferenceOK(sCache'[s][o], cache[o])
    BY <2>1, Zenon DEF EmptyCache, SpanEntryOK, ReferenceOK, Over, IsDirty, IsFresh
  <2>3. QED
    BY <1>1, <2>1, <2>2, SMTT(30) DEF SpanOK, Attached, Open, blocks
<1>6. QED
  BY <1>2, <1>3, <1>4, <1>5, Zenon DEF IInv, Open, blocks

\* The span is gone, and nothing else has changed.
LEMMA DestroyedKeeps ==
  ASSUME IInv, NEW s \in Spans, Destroyed(s), UNCHANGED <<disk, cache, tip, blocks>>
  PROVE  IInv'
<1>1. TypeOK /\ SharedOK /\ 0 \in known /\ 0 \in Blocks
  BY BlocksBounded, SMTT(30) DEF IInv, Blocks
<1>2. EmptyCache \in [Outpoints -> Entry \union {NoEntry}]
  BY Zenon DEF EmptyCache
<1>3. TypeOK'
  BY <1>1, <1>2, Zenon DEF TypeOK, Destroyed, blocks
<1>4. SharedOK'
  BY <1>1, Zenon DEF SharedOK, blocks
<1>5. ASSUME NEW t \in Spans, t # s
      PROVE  SpanOK(t)'
  BY <1>1, <1>5, Zenon DEF IInv, SpanOK, Attached, Destroyed, TypeOK, blocks
<1>6. SpanOK(s)'
  BY <1>1, Zenon DEF SpanOK, Attached, Destroyed, TypeOK, blocks
<1>7. QED
  BY <1>3, <1>4, <1>5, <1>6, Zenon DEF IInv, blocks

\* A reader that is no span.
LEMMA ViewGetCoinKeeps ==
  ASSUME IInv, NEW o \in Outpoints, NEW req \in BOOLEAN, NEW room \in BOOLEAN,
         ViewGetCoin(o, req, room)
  PROVE  IInv'
<1>1. Grown
  BY ReadGrows, Zenon DEF ViewGetCoin, IInv
<1>2. QED
  BY <1>1, Quiet, Zenon DEF ViewGetCoin

\* The loading of a block's inputs ahead of their use.
LEMMA CacheInputsKeeps ==
  ASSUME IInv, NEW s \in Spans, NEW os \in SUBSET Outpoints, NEW fits \in SUBSET os,
         CacheInputs(s, os, fits)
  PROVE  IInv'
<1>a. TypeOK /\ SharedOK
  BY Zenon DEF IInv
<1>1. \A p \in Outpoints :
        \/ cache'[p] = cache[p]
        \/ cache'[p] = DbEntryAfter(p, TRUE, TRUE)
        \/ cache'[p] = DbEntryAfter(p, TRUE, FALSE)
  BY Zenon DEF CacheInputs, DbEntryAfter
<1>2. ASSUME NEW p \in Outpoints
      PROVE  /\ cache'[p] \in MaybeEntry
             /\ SharedEntryOK(cache'[p], disk[p], utxo[tip][p])
             /\ IsUnspent(cache[p]) /\ cache[p].script = "own" =>
                  IsUnspent(cache'[p]) /\ cache'[p].script = "own"
  <2>1. CASE cache'[p] = cache[p]
    BY <1>a, <2>1, StateTypes, Zenon DEF SharedOK
  <2>2. CASE cache'[p] = DbEntryAfter(p, TRUE, TRUE) \/ cache'[p] = DbEntryAfter(p, TRUE, FALSE)
    BY <1>a, <2>2, DbLoad, Zenon
  <2>3. QED
    BY <1>1, <2>1, <2>2, Zenon
<1>3. cache' \in [Outpoints -> MaybeEntry]
  BY <1>2, Zenon DEF CacheInputs
<1>4. Grown
  BY <1>2, <1>3, Zenon DEF Grown
<1>5. QED
  BY <1>4, Quiet, Zenon DEF CacheInputs
\* GetCoin on a span, found or not.
LEMMA GetCoinKeeps ==
  ASSUME IInv, NEW s \in Spans, NEW o \in Outpoints, NEW req \in BOOLEAN, NEW room \in BOOLEAN,
         GetCoin(s, o, req, room)
  PROVE  IInv'
<1>1. Grown
  BY LoadsGrows, Zenon DEF GetCoin, IInv
<1>2. want[s][o] \in MaybeCoin /\ want' = [want EXCEPT ![s][o] = want[s][o]]
  <2>1. want \in [Spans -> [Outpoints -> MaybeCoin]] /\ want' = want
    BY Zenon DEF GetCoin, IInv, TypeOK
  <2>2. want[s] = [want[s] EXCEPT ![o] = want[s][o]]
    BY <2>1, Zenon
  <2>3. want = [want EXCEPT ![s] = want[s]]
    BY <2>1, Zenon
  <2>4. QED
    BY <2>1, <2>2, <2>3, Zenon
<1>3. /\ ShardEntryAfter(s, o, req, room) \in MaybeEntry
      /\ SpanEntryOK(ShardEntryAfter(s, o, req, room), utxo[base[s]][o], want[s][o])
      /\ ReferenceOK(ShardEntryAfter(s, o, req, room), cache'[o])
  BY ShardLoad, Zenon DEF GetCoin
<1>4. QED
  BY <1>1, <1>2, <1>3, OneOutpoint, Zenon DEF GetCoin

\* SpendCoin on a span: nothing is left of a coin that only the span knew of.
LEMMA SpendCoinKeeps ==
  ASSUME IInv, NEW s \in Spans, NEW o \in Outpoints, NEW wanted \in BOOLEAN, NEW room \in BOOLEAN,
         SpendCoin(s, o, wanted, room)
  PROVE  IInv'
<1> DEFINE e == ShardEntryAfter(s, o, wanted, room)
<1>1. Grown
  BY LoadsGrows, Zenon DEF SpendCoin, IInv
<1>2. utxo[base[s]][o] \in MaybeCoin /\ NoCoin \in MaybeCoin
  BY Zenon DEF IInv, TypeOK, MaybeCoin
<1>3. /\ e \in MaybeEntry
      /\ SpanEntryOK(e, utxo[base[s]][o], want[s][o])
      /\ e = NoEntry => utxo[base[s]][o] = NoCoin
  BY ShardLoad, Zenon DEF SpendCoin
<1>4. /\ StoreSpend(e) \in MaybeEntry
      /\ SpanEntryOK(StoreSpend(e), utxo[base[s]][o], NoCoin)
      /\ ReferenceOK(StoreSpend(e), cache'[o])
  BY <1>2, <1>3, SpendOK, Zenon
<1>5. QED
  BY <1>1, <1>2, <1>4, OneOutpoint, Zenon DEF SpendCoin

\* A new output, or a coinbase's over one that may be there.
LEMMA AddCoinKeeps ==
  ASSUME IInv, NEW s \in Spans, NEW o \in Outpoints, NEW c \in Coins, NEW coinbase \in BOOLEAN,
         AddCoin(s, o, c, coinbase)
  PROVE  IInv'
<1> DEFINE e == sCache[s][o]
           u == utxo[base[s]][o]
<1>1. Grown
  BY SameGrows, Zenon DEF AddCoin, IInv
<1>2. u \in MaybeCoin /\ c \in MaybeCoin /\ e \in MaybeEntry
  BY StateTypes, Zenon DEF IInv, MaybeCoin
<1>3. SpanEntryOK(e, u, want[s][o])
  BY Zenon DEF IInv, SpanOK, AddCoin
<1>4. ~coinbase /\ ~IsDirty(e) => u = NoCoin
  BY <1>2, <1>3, EntryFields, Zenon DEF AddCoin, SpanEntryOK, Over, IsDirty, MaybeEntry
<1>5. /\ StoreAdd(e, c, coinbase) \in MaybeEntry
      /\ SpanEntryOK(StoreAdd(e, c, coinbase), u, c)
      /\ ReferenceOK(StoreAdd(e, c, coinbase), cache'[o])
  BY <1>2, <1>3, <1>4, AddOK, Zenon
<1>6. sCache' = [sCache EXCEPT ![s][o] = StoreAdd(e, c, coinbase)]
  BY Zenon DEF AddCoin
<1>7. QED
  BY <1>1, <1>2, <1>5, <1>6, OneOutpoint, Zenon DEF AddCoin

\* An output whose place is looked up first.
LEMMA AddCoinCheckedKeeps ==
  ASSUME IInv, NEW s \in Spans, NEW o \in Outpoints, NEW c \in Coins, NEW room \in BOOLEAN,
         AddCoinChecked(s, o, c, room)
  PROVE  IInv'
<1> DEFINE e == ShardEntryAfter(s, o, FALSE, room)
           u == utxo[base[s]][o]
<1>1. Grown
  BY LoadsGrows, Zenon DEF AddCoinChecked, IInv
<1>2. u \in MaybeCoin /\ c \in MaybeCoin
  BY StateTypes, Zenon DEF IInv, MaybeCoin
<1>3. /\ e \in MaybeEntry
      /\ SpanEntryOK(e, u, want[s][o])
      /\ e = NoEntry => u = NoCoin
  BY ShardLoad, Zenon DEF AddCoinChecked
<1>4. IsUnspent(e) \in BOOLEAN
  BY Zenon DEF IsUnspent
<1>5. ~IsUnspent(e) /\ ~IsDirty(e) => u = NoCoin
  BY <1>3, EntryFields, Zenon DEF IsUnspent, IsDirty, MaybeEntry
<1>6. /\ StoreAdd(e, c, IsUnspent(e)) \in MaybeEntry
      /\ SpanEntryOK(StoreAdd(e, c, IsUnspent(e)), u, c)
      /\ ReferenceOK(StoreAdd(e, c, IsUnspent(e)), cache'[o])
  BY <1>2, <1>3, <1>4, <1>5, AddOK, Zenon
<1>7. QED
  BY <1>1, <1>2, <1>6, OneOutpoint, Zenon DEF AddCoinChecked

\* A flush of a span: alone and based on the tip, its entries become those of the new tip; the
\* other spans are detached, and the outputs of the block they are based on stay what they are.
LEMMA TryFlushKeeps ==
  ASSUME IInv, NEW s \in Spans, NEW b \in Blocks, TryFlush(s, b)
  PROVE  IInv'
<1>1. /\ TypeOK /\ SharedOK /\ 0 \in known /\ tip \in known /\ 0 \in Blocks
      /\ base[s] = tip /\ mode[s] # "none"
      /\ \A o \in Outpoints : SpanEntryOK(sCache[s][o], utxo[tip][o], want[s][o])
  BY BlocksBounded, SMTT(30) DEF IInv, SpanOK, TryFlush, Attached, Blocks
<1>2. \A o \in Outpoints : /\ Merged(sCache[s][o], cache[o]) \in MaybeEntry
                           /\ SharedEntryOK(Merged(sCache[s][o], cache[o]), disk[o], want[s][o])
  BY <1>1, StateTypes, MergeOK, Zenon DEF SharedOK
<1>3. EmptyCache \in [Outpoints -> MaybeEntry]
  BY Zenon DEF EmptyCache, MaybeEntry
<1>4. /\ utxo' \in [Blocks -> [Outpoints -> MaybeCoin]]
      /\ utxo'[b] = want[s]
      /\ \A k \in known : utxo'[k] = utxo[k]
  BY <1>1, Zenon DEF TryFlush, TypeOK
<1>5. TypeOK'
  <2>1. cache' \in [Outpoints -> MaybeEntry]
    BY <1>2, Zenon DEF TryFlush
  <2>2. /\ mode' \in [Spans -> {"none", "open", "detached", "reattached"}]
        /\ base' \in [Spans -> Blocks]
        /\ sCache' \in [Spans -> [Outpoints -> MaybeEntry]]
        /\ want' \in [Spans -> [Outpoints -> MaybeCoin]]
    BY <1>1, <1>3, Zenon DEF TryFlush, Destroyed, TypeOK, MaybeEntry
  <2>3. parent' \in [Blocks -> Blocks] /\ known' \in SUBSET Blocks /\ tip' \in Blocks
    BY <1>1, Zenon DEF TryFlush, TypeOK
  <2>4. QED
    BY <1>1, <1>4, <2>1, <2>2, <2>3, Zenon DEF TryFlush, TypeOK, MaybeEntry
<1>6. SharedOK'
  BY <1>2, <1>4, Zenon DEF SharedOK, TryFlush
<1>7. ASSUME NEW t \in Spans, t # s
      PROVE  SpanOK(t)'
  <2>1. ~Attached(t) /\ base[t] \in known
    BY <1>7, Zenon DEF IInv, SpanOK, TryFlush, Alone
  <2>2. /\ mode'[t] = mode[t] /\ base'[t] = base[t]
        /\ sCache'[t] = sCache[t] /\ want'[t] = want[t]
    BY <1>1, <1>7, Zenon DEF TryFlush, Destroyed, TypeOK
  <2>3. utxo'[base[t]] = utxo[base[t]]
    BY <1>4, <2>1, Zenon
  <2>4. mode[t] # "open"
    BY <2>1, Zenon DEF Attached
  <2>5. base'[t] \in known' /\ ~Attached(t)'
    BY <2>1, <2>2, Zenon DEF TryFlush, Attached
  <2>6. QED
    BY <2>2, <2>3, <2>4, <2>5, Zenon DEF IInv, SpanOK
<1>8. SpanOK(s)'
  BY <1>1, Zenon DEF SpanOK, Attached, TryFlush, Destroyed, TypeOK
<1>9. QED
  BY <1>1, <1>5, <1>6, <1>7, <1>8, Zenon DEF IInv, TryFlush
\* Letting go of the lock, and taking it again where the best block is still the span's.
LEMMA DetachKeeps ==
  ASSUME IInv, NEW s \in Spans, ForceDetach(s) \/ TryReattach(s)
  PROVE  IInv'
<1>1. CASE TryReattach(s) /\ ~Reattaches(s)
  BY <1>1, DestroyedKeeps, Zenon DEF TryReattach
<1>2. CASE ForceDetach(s) \/ (TryReattach(s) /\ Reattaches(s))
  <2>1. /\ UNCHANGED <<disk, cache, tip, base, sCache, blocks, want>>
        /\ mode[s] # "none"
        /\ \/ mode' = [mode EXCEPT ![s] = "detached"]
           \/ mode' = [mode EXCEPT ![s] = "reattached"] /\ tip = base[s]
    BY <1>2, Zenon DEF ForceDetach, TryReattach, Reattaches
  <2>2. TypeOK'
    BY <2>1, Zenon DEF IInv, TypeOK, blocks
  <2>3. SharedOK'
    BY <2>1, Zenon DEF IInv, SharedOK, blocks
  <2>4. ASSUME NEW t \in Spans
        PROVE  SpanOK(t)'
    <3>1. mode \in [Spans -> {"none", "open", "detached", "reattached"}]
      BY Zenon DEF IInv, TypeOK
    <3>2. CASE t = s
      <4>1. \/ mode'[s] = "detached"
            \/ mode'[s] = "reattached" /\ tip = base[s]
        BY <2>1, <3>1, Zenon
      <4>2. QED
        BY <2>1, <3>2, <4>1, Zenon DEF IInv, SpanOK, Attached, blocks
    <3>3. CASE t # s
      <4>1. mode'[t] = mode[t]
        BY <2>1, <3>1, <3>3, Zenon
      <4>2. QED
        BY <2>1, <4>1, Zenon DEF IInv, SpanOK, Attached, blocks
    <3>4. QED
      BY <3>2, <3>3, Zenon
  <2>5. QED
    BY <2>1, <2>2, <2>3, <2>4, Zenon DEF IInv, blocks
<1>3. QED
  BY <1>1, <1>2, Zenon

\* Flush and Uncache, with no span attached: the shared cache forgets what the database has.
LEMMA UnattendedKeeps ==
  ASSUME IInv, Alone({}), cache' \in [Outpoints -> MaybeEntry], disk' \in [Outpoints -> MaybeCoin],
         \A o \in Outpoints : SharedEntryOK(cache'[o], disk'[o], utxo[tip][o]),
         UNCHANGED <<tip, mode, base, sCache, blocks, want>>
  PROVE  IInv'
<1>1. TypeOK'
  BY Zenon DEF IInv, TypeOK, MaybeEntry, blocks
<1>2. SharedOK'
  BY Zenon DEF SharedOK, blocks
<1>3. ASSUME NEW t \in Spans
      PROVE  SpanOK(t)'
  <2>1. ~Attached(t) /\ mode[t] # "open"
    BY Zenon DEF Alone, Attached
  <2>2. QED
    BY <2>1, Zenon DEF IInv, SpanOK, Attached, blocks
<1>4. QED
  BY <1>1, <1>2, <1>3, Zenon DEF IInv, blocks

\* The database takes over what is dirty.
LEMMA FlushKeeps ==
  ASSUME IInv, Flush
  PROVE  IInv'
<1>1. TypeOK /\ SharedOK
  BY Zenon DEF IInv
<1>2. ASSUME NEW o \in Outpoints
      PROVE  /\ Written(cache[o], disk[o]) = utxo[tip][o]
             /\ SharedEntryOK(NoEntry, utxo[tip][o], utxo[tip][o])
  <2>1. SharedEntryOK(cache[o], disk[o], utxo[tip][o])
    BY <1>1, Zenon DEF SharedOK
  <2>2. QED
    BY <2>1, Zenon DEF SharedEntryOK, Written, Over, IsDirty, IsFresh
<1>3. /\ disk' \in [Outpoints -> MaybeCoin]
      /\ \A o \in Outpoints : disk'[o] = utxo[tip][o]
  BY <1>1, <1>2, StateTypes, Zenon DEF Flush
<1>4. /\ cache' \in [Outpoints -> MaybeEntry]
      /\ \A o \in Outpoints : cache'[o] = NoEntry
  BY Zenon DEF Flush, EmptyCache, MaybeEntry
<1>5. QED
  BY <1>2, <1>3, <1>4, UnattendedKeeps, Zenon DEF Flush

\* Only entries that are as the database has them are evicted.
LEMMA UncacheKeeps ==
  ASSUME IInv, NEW os \in SUBSET Outpoints, Uncache(os)
  PROVE  IInv'
<1>1. TypeOK /\ SharedOK
  BY Zenon DEF IInv
<1>2. ASSUME NEW o \in Outpoints
      PROVE  /\ cache'[o] \in MaybeEntry
             /\ SharedEntryOK(cache'[o], disk[o], utxo[tip][o])
  <2>1. SharedEntryOK(cache[o], disk[o], utxo[tip][o]) /\ cache[o] \in MaybeEntry
    BY <1>1, StateTypes, Zenon DEF SharedOK
  <2>2. /\ Uncached(cache[o]) \in MaybeEntry
        /\ SharedEntryOK(Uncached(cache[o]), disk[o], utxo[tip][o])
    BY <2>1, Zenon DEF SharedEntryOK, Uncached, Over, IsDirty, IsFresh, MaybeEntry
  <2>3. QED
    BY <2>1, <2>2, Zenon DEF Uncache
<1>3. cache' \in [Outpoints -> MaybeEntry]
  BY <1>2, Zenon DEF Uncache
<1>4. disk' \in [Outpoints -> MaybeCoin] /\ disk' = disk
  BY <1>1, Zenon DEF Uncache, TypeOK
<1>5. QED
  BY <1>2, <1>3, <1>4, UnattendedKeeps, Zenon DEF Uncache
-----------------------------------------------------------------------------
\* Every step of the layers preserves the inductive invariant.
LEMMA Inductive == IInv /\ [Next]_vars => IInv'
<1>1. SUFFICES ASSUME IInv, [Next]_vars PROVE IInv'
  OBVIOUS
<1>2. CASE UNCHANGED vars
  <2>1. Grown
    BY <1>1, <1>2, SameGrows, Zenon DEF vars, IInv
  <2>2. QED
    BY <1>1, <1>2, <2>1, Quiet, Zenon DEF vars, blocks
<1>3. ASSUME NEW s \in Spans, SpanStep(s)
      PROVE  IInv'
  <2>1. CASE Open(s)
    BY <1>1, <2>1, OpenKeeps, Zenon
  <2>2. CASE Close(s)
    BY <1>1, <2>2, DestroyedKeeps, Zenon DEF Close
  <2>3. CASE ForceDetach(s) \/ TryReattach(s)
    BY <1>1, <2>3, DetachKeeps, Zenon
  <2>4. CASE \E b \in Blocks : TryFlush(s, b)
    BY <1>1, <2>4, TryFlushKeeps, Zenon
  <2>5. CASE \E os \in SUBSET Outpoints : \E fits \in SUBSET os : CacheInputs(s, os, fits)
    BY <1>1, <2>5, CacheInputsKeeps, Zenon
  <2>6. CASE \E o \in Outpoints, flag, room \in BOOLEAN :
               GetCoin(s, o, flag, room) \/ SpendCoin(s, o, flag, room)
    BY <1>1, <2>6, GetCoinKeeps, SpendCoinKeeps, Zenon
  <2>7. CASE \E o \in Outpoints, c \in Coins, flag \in BOOLEAN :
               AddCoin(s, o, c, flag) \/ AddCoinChecked(s, o, c, flag)
    BY <1>1, <2>7, AddCoinKeeps, AddCoinCheckedKeeps, Zenon
  <2>8. QED
    BY <1>3, <2>1, <2>2, <2>3, <2>4, <2>5, <2>6, <2>7, Zenon DEF SpanStep
<1>4. CASE \E o \in Outpoints, req, room \in BOOLEAN : ViewGetCoin(o, req, room)
  BY <1>1, <1>4, ViewGetCoinKeeps, Zenon
<1>5. CASE \E os \in SUBSET Outpoints : Uncache(os)
  BY <1>1, <1>5, UncacheKeeps, Zenon
<1>6. CASE Flush
  BY <1>1, <1>6, FlushKeeps, Zenon
<1>7. QED
  BY <1>1, <1>2, <1>3, <1>4, <1>5, <1>6, Zenon DEF Next
\* The inductive invariant is an invariant.
LEMMA Invariance == Spec => []IInv
<1>1. Init => IInv
  BY InitEstablishes, Zenon
<1>2. IInv /\ [Next]_vars => IInv'
  BY Inductive, Zenon
<1>3. QED
  BY <1>1, <1>2, PTL DEF Spec

\* What the inductive invariant says of reading: CoinsDB returns the coins of the tip, in whatever
\* form they are cached, and the cache over the database shows them.
LEMMA ReadsOfTip ==
  ASSUME IInv, NEW o \in Outpoints
  PROVE  /\ DbView(o) = utxo[tip][o]
         /\ \A req \in BOOLEAN : DbCoin(o, req) = utxo[tip][o]
<1>1. TypeOK /\ SharedOK
  BY Zenon DEF IInv
<1>2. DbView(o) = utxo[tip][o]
  BY <1>1, Zenon DEF SharedOK, SharedEntryOK, DbView
<1>3. QED
  BY <1>1, <1>2, DbLoad, Zenon

\* The layers agree in every state: after any calls on spans and on CoinsDB, in any interleaving,
\* reads are right, the flags mean what they say and what is written out has its script.
THEOREM LayersAgree == Spec => []LayersConsistent
<1>1. IInv => LayersConsistent
  <2>1. SUFFICES ASSUME IInv PROVE LayersConsistent
    OBVIOUS
  <2>2. TypeOK /\ SharedOK /\ \A s \in Spans : SpanOK(s)
    BY <2>1, Zenon DEF IInv
  <2>3. CommittedCoinsRead
    BY <2>1, ReadsOfTip, Zenon DEF CommittedCoinsRead
  <2>4. ASSUME NEW s \in Spans, Attached(s), NEW o \in Outpoints
        PROVE  SpanEntryOK(sCache[s][o], DbView(o), want[s][o]) /\ base[s] = tip
    BY <2>1, <2>2, <2>4, ReadsOfTip, Zenon DEF SpanOK, Attached
  <2>5. AttachedSpansCurrent
    <3>1. \A s \in Spans : Attached(s) => base[s] = tip
      BY <2>2, Zenon DEF SpanOK
    <3>2. QED
      BY <2>4, <3>1, Zenon DEF AttachedSpansCurrent, SpanEntryOK
  <2>6. FreshMeansParentLacks
    BY <2>2, <2>4, Zenon DEF FreshMeansParentLacks, SharedOK, SharedEntryOK, SpanEntryOK
  <2>7. DirtyCoinsOwnScripts
    <3>1. ASSUME NEW s \in Spans, NEW o \in Outpoints, IsDirty(sCache[s][o]), IsUnspent(sCache[s][o])
          PROVE  sCache[s][o].script = "own"
      BY <2>2, <3>1, SMTT(30) DEF SpanOK, SpanEntryOK, EmptyCache, IsDirty
    <3>2. QED
      BY <2>2, <3>1, Zenon DEF DirtyCoinsOwnScripts, SharedOK, SharedEntryOK
  <2>8. QED
    BY <2>2, <2>3, <2>5, <2>6, <2>7, Zenon DEF LayersConsistent
<1>2. QED
  BY <1>1, Invariance, PTL

\* A span reads its own writes over the coins of the block it is based on.
THEOREM SpansReadRight == Spec => []SpansReadTheirWrites
<1>1. IInv => SpansReadTheirWrites
  <2>1. SUFFICES ASSUME IInv, NEW s \in Spans, NEW o \in Outpoints, NEW req \in BOOLEAN,
                        mode[s] = "open"
                 PROVE  want[s][o] = IF sCache[s][o] = NoEntry THEN DbCoin(o, req)
                                     ELSE sCache[s][o].coin
    BY Zenon DEF SpansReadTheirWrites
  <2>2. DbCoin(o, req) = utxo[tip][o]
    BY <2>1, ReadsOfTip, Zenon
  <2>3. SpanEntryOK(sCache[s][o], utxo[tip][o], want[s][o])
    BY <2>1, Zenon DEF IInv, SpanOK, Attached
  <2>4. QED
    BY <2>2, <2>3, Zenon DEF SpanEntryOK, Over
<1>2. QED
  BY <1>1, Invariance, PTL

\* No call on a span ends in an exception of CoinsStore or in a dangling script reference.
THEOREM SpansNotDisturbed == Spec => []SpansUndisturbed
<1>1. IInv => SpansUndisturbed
  <2>1. SUFFICES ASSUME IInv PROVE SpansUndisturbed
    OBVIOUS
  <2>2. ASSUME NEW s \in Spans, NEW o \in Outpoints, Attached(s)
        PROVE  ~FreshMisapplied(sCache[s][o], cache[o])
    <3>1. SpanEntryOK(sCache[s][o], utxo[tip][o], want[s][o])
      BY <2>1, <2>2, Zenon DEF IInv, SpanOK, Attached
    <3>2. DbView(o) = utxo[tip][o]
      BY <2>1, ReadsOfTip, Zenon
    <3>3. QED
      BY <3>1, <3>2, Zenon DEF FreshMisapplied, SpanEntryOK, DbView, Over, IsUnspent
  <2>3. ASSUME NEW s \in Spans, NEW o \in Outpoints, mode[s] = "open", want[s][o] = NoCoin
        PROVE  ~OverwritesUnspent(sCache[s][o], FALSE)
    BY <2>1, <2>3, Zenon DEF IInv, SpanOK, SpanEntryOK, Over, OverwritesUnspent, IsUnspent
  <2>4. ReferencesValid
    BY <2>1, Zenon DEF IInv, SpanOK, ReferenceOK, ReferencesValid
  <2>5. QED
    BY <2>2, <2>3, <2>4, Zenon DEF SpansUndisturbed, NoLogicError
<1>2. QED
  BY <1>1, Invariance, PTL
-----------------------------------------------------------------------------
\* The abstract state that the refinement mapping of U gives: the outputs of every block, and the
\* wanted outputs of every span in use.
AbsUtxo == [utxo EXCEPT ![tip] = [o \in Outpoints |-> DbView(o)]]
AbsSpan == [s \in Spans |->
              IF mode[s] = "none" THEN NoEntry
              ELSE [base |-> base[s], view |-> [o \in Outpoints |-> SpanView(s, o)]]]
Copies == [s \in Spans |->
             IF mode[s] = "none" THEN NoEntry ELSE [base |-> base[s], view |-> want[s]]]

\* It is what the history variables say.
LEMMA AbstractState == IInv => AbsUtxo = utxo /\ AbsSpan = Copies
<1>1. SUFFICES ASSUME IInv PROVE AbsUtxo = utxo /\ AbsSpan = Copies
  OBVIOUS
<1>2. TypeOK
  BY <1>1, Zenon DEF IInv
<1>3. AbsUtxo = utxo
  <2>1. utxo[tip] = [o \in Outpoints |-> utxo[tip][o]]
    BY <1>2, Zenon DEF TypeOK
  <2>2. [o \in Outpoints |-> DbView(o)] = [o \in Outpoints |-> utxo[tip][o]]
    BY <1>1, ReadsOfTip, Zenon
  <2>3. utxo = [utxo EXCEPT ![tip] = utxo[tip]]
    BY <1>2, Zenon DEF TypeOK
  <2>4. QED
    BY <2>1, <2>2, <2>3, Zenon DEF AbsUtxo
<1>4. AbsSpan = Copies
  <2>1. ASSUME NEW s \in Spans, mode[s] # "none"
        PROVE  [o \in Outpoints |-> SpanView(s, o)] = want[s]
    <3>1. want[s] = [o \in Outpoints |-> want[s][o]]
      BY <1>2, Zenon DEF TypeOK
    <3>2. ASSUME NEW o \in Outpoints PROVE SpanView(s, o) = want[s][o]
      BY <1>1, <2>1, Zenon DEF IInv, SpanOK, SpanEntryOK, SpanView
    <3>3. QED
      BY <3>1, <3>2, Zenon
  <2>2. QED
    BY <2>1, Zenon DEF AbsSpan, Copies
<1>5. QED
  BY <1>3, <1>4, Zenon

\* A span in use is one to UtxoSet too.
LEMMA CopiesInUse ==
  ASSUME TypeOK, NEW s \in Spans
  PROVE  /\ mode[s] = "none" => Copies[s] = NoEntry
         /\ mode[s] # "none" => /\ Copies[s] = [base |-> base[s], view |-> want[s]]
                                /\ Copies[s] # NoEntry
<1>1. [base |-> base[s], view |-> want[s]] \in [base : Blocks, view : [Outpoints -> MaybeCoin]]
  BY Zenon DEF TypeOK
<1>2. QED
  BY <1>1, CoinsDistinct, Zenon DEF Copies

\* Steps that leave the history variables and the modes alone are invisible.
LEMMA Invisible ==
  ASSUME UNCHANGED <<tip, mode, base, utxo, known, want>>
  PROVE  UNCHANGED <<tip, utxo, known, Copies>>
BY Zenon DEF Copies

\* The end of a span.
LEMMA CopiesDestroyed ==
  ASSUME TypeOK, NEW s \in Spans, Destroyed(s)
  PROVE  Copies' = [Copies EXCEPT ![s] = NoEntry]
<1>1. ASSUME NEW t \in Spans
      PROVE  Copies'[t] = IF t = s THEN NoEntry ELSE Copies[t]
  <2>1. CASE t = s
    BY <2>1, Zenon DEF Copies, Destroyed, TypeOK
  <2>2. CASE t # s
    BY <2>2, Zenon DEF Copies, Destroyed, TypeOK
  <2>3. QED
    BY <2>1, <2>2, Zenon
<1>2. QED
  BY <1>1, Zenon DEF Copies

\* One output of a span's copy.
LEMMA CopiesPut ==
  ASSUME TypeOK, NEW s \in Spans, mode[s] # "none", NEW o \in Outpoints, NEW c,
         want' = [want EXCEPT ![s][o] = c], UNCHANGED <<mode, base>>
  PROVE  Copies' = [Copies EXCEPT ![s] = [base |-> Copies[s].base,
                                          view |-> [Copies[s].view EXCEPT ![o] = c]]]
<1>1. Copies[s] = [base |-> base[s], view |-> want[s]]
  BY Zenon DEF Copies
<1>2. want'[s] = [want[s] EXCEPT ![o] = c]
  BY Zenon DEF TypeOK
<1>3. ASSUME NEW t \in Spans
      PROVE  Copies'[t] = IF t = s THEN [base |-> base[s], view |-> [want[s] EXCEPT ![o] = c]]
                          ELSE Copies[t]
  <2>1. CASE t = s
    BY <1>2, <2>1, Zenon DEF Copies
  <2>2. CASE t # s
    BY <2>2, Zenon DEF Copies, TypeOK
  <2>3. QED
    BY <2>1, <2>2, Zenon
<1>4. Copies' = [Copies EXCEPT ![s] = [base |-> base[s], view |-> [want[s] EXCEPT ![o] = c]]]
  BY <1>3, Zenon DEF Copies
<1>5. QED
  BY <1>1, <1>4, SMTT(30)
\* A step of UtxoSet with the history variables as its state.
CopyBegin(s) ==
  /\ Copies[s] = NoEntry
  /\ Copies' = [Copies EXCEPT ![s] = [base |-> tip, view |-> utxo[tip]]]
  /\ UNCHANGED <<tip, utxo, known>>

CopyPut(s, o, c) ==
  /\ Copies[s] # NoEntry
  /\ Copies' = [Copies EXCEPT ![s] = [base |-> Copies[s].base,
                                      view |-> [Copies[s].view EXCEPT ![o] = c]]]
  /\ UNCHANGED <<tip, utxo, known>>

CopyCommit(s, b) ==
  /\ Copies[s] # NoEntry
  /\ Copies[s].base = tip
  /\ b \in known => utxo[b] = Copies[s].view
  /\ tip' = b
  /\ known' = known \union {b}
  /\ utxo' = [utxo EXCEPT ![b] = Copies[s].view]
  /\ Copies' = [Copies EXCEPT ![s] = NoEntry]

CopyEnd(s) ==
  /\ Copies[s] # NoEntry
  /\ Copies' = [Copies EXCEPT ![s] = NoEntry]
  /\ UNCHANGED <<tip, utxo, known>>

CopyNext ==
  \E s \in Spans :
    \/ CopyBegin(s) \/ CopyEnd(s)
    \/ \E b \in Blocks : CopyCommit(s, b)
    \/ \E o \in Outpoints, c \in MaybeCoin : CopyPut(s, o, c)

\* Every step of a span is a step of its copy or invisible.
LEMMA SpanStepCopied ==
  ASSUME IInv, NEW s \in Spans, SpanStep(s)
  PROVE  CopyNext \/ UNCHANGED <<tip, utxo, known, Copies>>
<1>a. TypeOK
  BY Zenon DEF IInv
<1>b. /\ mode[s] = "none" => Copies[s] = NoEntry
      /\ mode[s] # "none" => /\ Copies[s] = [base |-> base[s], view |-> want[s]]
                             /\ Copies[s] # NoEntry
  BY <1>a, CopiesInUse, Zenon
<1>1. CASE Open(s)
  <2>1. ASSUME NEW t \in Spans
        PROVE  Copies'[t] = IF t = s THEN [base |-> tip, view |-> utxo[tip]] ELSE Copies[t]
    <3>1. CASE t = s
      BY <1>1, <1>a, <3>1, Zenon DEF Open, Copies, TypeOK
    <3>2. CASE t # s
      BY <1>1, <1>a, <3>2, Zenon DEF Open, Copies, TypeOK
    <3>3. QED
      BY <3>1, <3>2, Zenon
  <2>2. Copies' = [Copies EXCEPT ![s] = [base |-> tip, view |-> utxo[tip]]]
    BY <2>1, Zenon DEF Copies
  <2>3. CopyBegin(s)
    BY <1>1, <1>b, <2>2, Zenon DEF Open, CopyBegin, blocks
  <2>4. QED
    BY <2>3, Zenon DEF CopyNext
<1>2. CASE Close(s)
  <2>1. Copies' = [Copies EXCEPT ![s] = NoEntry]
    BY <1>2, <1>a, CopiesDestroyed, Zenon DEF Close
  <2>2. CopyEnd(s)
    BY <1>2, <1>b, <2>1, Zenon DEF Close, CopyEnd, blocks
  <2>3. QED
    BY <2>2, Zenon DEF CopyNext
<1>3. CASE ForceDetach(s)
  <2>1. ASSUME NEW t \in Spans
        PROVE  Copies'[t] = Copies[t]
    <3>1. CASE t = s
      BY <1>3, <1>a, <3>1, Zenon DEF ForceDetach, Copies, TypeOK, blocks
    <3>2. CASE t # s
      BY <1>3, <1>a, <3>2, Zenon DEF ForceDetach, Copies, TypeOK, blocks
    <3>3. QED
      BY <3>1, <3>2, Zenon
  <2>2. Copies' = Copies
    BY <2>1, Zenon DEF Copies
  <2>3. QED
    BY <1>3, <2>2, Zenon DEF ForceDetach, blocks
<1>4. CASE TryReattach(s)
  <2>1. CASE Reattaches(s)
    <3>1. ASSUME NEW t \in Spans
          PROVE  Copies'[t] = Copies[t]
      <4>1. CASE t = s
        BY <1>4, <1>a, <2>1, <4>1, Zenon DEF TryReattach, Copies, TypeOK, blocks
      <4>2. CASE t # s
        BY <1>4, <1>a, <2>1, <4>2, Zenon DEF TryReattach, Copies, TypeOK, blocks
      <4>3. QED
        BY <4>1, <4>2, Zenon
    <3>2. Copies' = Copies
      BY <3>1, Zenon DEF Copies
    <3>3. QED
      BY <1>4, <3>2, Zenon DEF TryReattach, blocks
  <2>2. CASE ~Reattaches(s)
    <3>1. Destroyed(s)
      BY <1>4, <2>2, Zenon DEF TryReattach
    <3>2. Copies' = [Copies EXCEPT ![s] = NoEntry]
      BY <1>a, <3>1, CopiesDestroyed, Zenon
    <3>3. CopyEnd(s)
      BY <1>4, <1>b, <3>2, Zenon DEF TryReattach, CopyEnd, blocks
    <3>4. QED
      BY <3>3, Zenon DEF CopyNext
  <2>3. QED
    BY <2>1, <2>2, Zenon
<1>5. ASSUME NEW b \in Blocks, TryFlush(s, b)
      PROVE  CopyNext
  <2>1. Copies' = [Copies EXCEPT ![s] = NoEntry]
    BY <1>5, <1>a, CopiesDestroyed, Zenon DEF TryFlush
  <2>2. mode[s] # "none" /\ base[s] = tip
    BY <1>5, Zenon DEF TryFlush, Attached, IInv, SpanOK
  <2>3. b \in known => utxo[b] = want[s]
    BY <1>5, Zenon DEF TryFlush
  <2>4. Copies[s] # NoEntry /\ Copies[s].base = base[s] /\ Copies[s].view = want[s]
    BY <1>b, <2>2, SMTT(30)
  <2>5. /\ tip' = b
        /\ known' = known \union {b}
        /\ utxo' = [utxo EXCEPT ![b] = want[s]]
    BY <1>5, Zenon DEF TryFlush
  <2>6. CopyCommit(s, b)
    BY <2>1, <2>2, <2>3, <2>4, <2>5, Zenon DEF CopyCommit
  <2>7. QED
    BY <2>6, Zenon DEF CopyNext
<1>6. ASSUME NEW os \in SUBSET Outpoints, NEW fits \in SUBSET os, CacheInputs(s, os, fits)
      PROVE  UNCHANGED <<tip, utxo, known, Copies>>
  BY <1>6, Invisible, Zenon DEF CacheInputs, blocks
<1>7. ASSUME NEW o \in Outpoints, NEW flag \in BOOLEAN, NEW room \in BOOLEAN,
             GetCoin(s, o, flag, room)
      PROVE  UNCHANGED <<tip, utxo, known, Copies>>
  BY <1>7, Invisible, Zenon DEF GetCoin, blocks
<1>8. ASSUME NEW o \in Outpoints, NEW c \in MaybeCoin, mode[s] = "open",
             want' = [want EXCEPT ![s][o] = c], UNCHANGED <<tip, mode, base, blocks>>
      PROVE  CopyNext
  <2>1. Copies' = [Copies EXCEPT ![s] = [base |-> Copies[s].base,
                                         view |-> [Copies[s].view EXCEPT ![o] = c]]]
    <3>1. mode[s] # "none" /\ UNCHANGED <<mode, base>>
      BY <1>8, Zenon
    <3>2. QED
      BY <1>8, <1>a, <3>1, CopiesPut, Zenon
  <2>2. CopyPut(s, o, c)
    BY <1>8, <1>b, <2>1, Zenon DEF CopyPut, blocks
  <2>3. QED
    BY <2>2, Zenon DEF CopyNext
<1>9. ASSUME NEW o \in Outpoints, NEW flag \in BOOLEAN, NEW room \in BOOLEAN,
             SpendCoin(s, o, flag, room)
      PROVE  CopyNext
  BY <1>9, <1>8, Zenon DEF SpendCoin, MaybeCoin
<1>10. ASSUME NEW o \in Outpoints, NEW c \in Coins, NEW flag \in BOOLEAN,
              AddCoin(s, o, c, flag) \/ AddCoinChecked(s, o, c, flag)
       PROVE  CopyNext
  BY <1>10, <1>8, Zenon DEF AddCoin, AddCoinChecked, MaybeCoin
<1>11. QED
  BY <1>1, <1>2, <1>3, <1>4, <1>5, <1>6, <1>7, <1>9, <1>10, Zenon DEF SpanStep

\* The other readers, the eviction and the flush to the database are invisible.
LEMMA StepCopied ==
  ASSUME IInv, [Next]_vars
  PROVE  CopyNext \/ UNCHANGED <<tip, utxo, known, Copies>>
<1>1. ASSUME NEW o \in Outpoints, NEW req \in BOOLEAN, NEW room \in BOOLEAN,
             ViewGetCoin(o, req, room)
      PROVE  UNCHANGED <<tip, utxo, known, Copies>>
  BY <1>1, Invisible, Zenon DEF ViewGetCoin, blocks
<1>2. ASSUME NEW os \in SUBSET Outpoints, Uncache(os)
      PROVE  UNCHANGED <<tip, utxo, known, Copies>>
  BY <1>2, Invisible, Zenon DEF Uncache, blocks
<1>3. ASSUME Flush PROVE UNCHANGED <<tip, utxo, known, Copies>>
  BY <1>3, Invisible, Zenon DEF Flush, blocks
<1>4. ASSUME UNCHANGED vars PROVE UNCHANGED <<tip, utxo, known, Copies>>
  BY <1>4, Invisible, Zenon DEF vars, blocks
<1>5. QED
  BY <1>1, <1>2, <1>3, <1>4, SpanStepCopied, Zenon DEF Next

\* The layers implement the unspent output set: every call on a span, on the shared cache or on
\* the database is a step of UtxoSet or invisible to it.
THEOREM Implements == Spec => ImplementsUtxoSet
<1>1. IInv => AbsUtxo = utxo /\ AbsSpan = Copies
  BY AbstractState, Zenon
<1>2. IInv' => (AbsUtxo = utxo /\ AbsSpan = Copies)'
  BY <1>1, PTL
<1>3. Init => U!AbsInit
  <2>1. SUFFICES ASSUME Init PROVE U!AbsInit
    OBVIOUS
  <2>2. AbsUtxo = utxo
    BY <2>1, <1>1, InitEstablishes, Zenon
  <2>3. AbsSpan = [s \in Spans |-> NoEntry]
    BY <2>1, Zenon DEF AbsSpan, Init
  <2>4. tip \in Blocks /\ known = {tip} /\ utxo \in [Blocks -> [Outpoints -> MaybeCoin]]
    BY <2>1, InitEstablishes, Zenon DEF IInv, TypeOK, Init
  <2>5. QED
    BY <2>2, <2>3, <2>4, Zenon DEF U!AbsInit, AbsUtxo, AbsSpan
<1>4. IInv /\ IInv' /\ [Next]_vars => [U!AbsNext]_(U!absVars)
  <2>1. SUFFICES ASSUME IInv, IInv', [Next]_vars PROVE U!AbsNext \/ UNCHANGED U!absVars
    OBVIOUS
  <2>2. /\ AbsUtxo = utxo /\ AbsSpan = Copies
        /\ AbsUtxo' = utxo' /\ AbsSpan' = Copies'
    BY <1>1, <1>2, <2>1, Zenon
  <2>3. CASE UNCHANGED <<tip, utxo, known, Copies>>
    BY <2>2, <2>3, Zenon DEF U!absVars, AbsUtxo, AbsSpan
  <2>4. CASE CopyNext
    <3>1. PICK s \in Spans :
            \/ CopyBegin(s) \/ CopyEnd(s)
            \/ \E b \in Blocks : CopyCommit(s, b)
            \/ \E o \in Outpoints, c \in MaybeCoin : CopyPut(s, o, c)
      BY <2>4, Zenon DEF CopyNext
    <3>2. CopyBegin(s) => U!Begin(s)
      BY <2>2, Zenon DEF CopyBegin, U!Begin, AbsUtxo, AbsSpan
    <3>3. CopyEnd(s) => U!End(s)
      BY <2>2, Zenon DEF CopyEnd, U!End, AbsUtxo, AbsSpan
    <3>4. ASSUME NEW b \in Blocks, CopyCommit(s, b) PROVE U!Commit(s, b)
      BY <2>2, <3>4, Zenon DEF CopyCommit, U!Commit, AbsUtxo, AbsSpan
    <3>5. ASSUME NEW o \in Outpoints, NEW c \in MaybeCoin, CopyPut(s, o, c)
          PROVE  U!Put(s, o, c)
      BY <2>2, <3>5, Zenon DEF CopyPut, U!Put, AbsUtxo, AbsSpan
    <3>6. QED
      BY <3>1, <3>2, <3>3, <3>4, <3>5, Zenon DEF U!AbsNext
  <2>5. QED
    BY <2>1, <2>3, <2>4, StepCopied, Zenon
<1>5. QED
  BY <1>3, <1>4, Invariance, PTL DEF Spec, ImplementsUtxoSet, U!AbsSpec

-----------------------------------------------------------------------------
(* Concurrent loads: the memory in use. *)

\* Scripts take a number of bytes, and no fewer when there are more of them.
LEMMA BytesCounted ==
  ASSUME NEW T \in SUBSET Inputs, NEW S \in SUBSET T
  PROVE  /\ IsFiniteSet(Bytes(S)) /\ Cardinality(Bytes(S)) \in Nat
         /\ Cardinality(Bytes(S)) <= Cardinality(Bytes(T))
<1> DEFINE All == Inputs \X (1 .. Big)
<1>1. IsFiniteSet(All)
  <2>1. IsFiniteSet(Inputs) /\ IsFiniteSet(1 .. Big)
    BY FetchConstants, FS_Interval
  <2> QED  BY <2>1, FS_Product, Zenon
<1>2. Bytes(T) \in SUBSET All
  <2>1. \A o \in Inputs : 1 .. Size[o] \subseteq 1 .. Big
    BY FetchConstants
  <2> QED  BY <2>1 DEF Bytes
<1>3. Bytes(S) \in SUBSET Bytes(T)
  BY Zenon DEF Bytes
<1> HIDE DEF All
<1>4. IsFiniteSet(Bytes(T))
  BY <1>1, <1>2, FS_Subset, Zenon
<1>5. IsFiniteSet(Bytes(S)) /\ Cardinality(Bytes(S)) <= Cardinality(Bytes(T))
  BY <1>3, <1>4, FS_Subset, Zenon
<1> QED  BY <1>5, FS_CardinalityType, Zenon

\* One more script takes its size.
LEMMA OneScriptMore ==
  ASSUME NEW S \in SUBSET Inputs, NEW x \in Inputs \ S
  PROVE  Cardinality(Bytes(S \union {x})) = Cardinality(Bytes(S)) + Size[x]
<1> DEFINE B == {x} \X (1 .. Size[x])
<1>1. Size[x] \in Nat /\ 1 <= Size[x]
  BY FetchConstants
<1>2. IsFiniteSet(1 .. Size[x]) /\ Cardinality(1 .. Size[x]) = Size[x]
  <2>1. Cardinality(1 .. Size[x]) = IF 1 > Size[x] THEN 0 ELSE Size[x] - 1 + 1
    BY <1>1, FS_Interval
  <2>2. IsFiniteSet(1 .. Size[x])
    BY <1>1, FS_Interval
  <2> QED  BY <1>1, <2>1, <2>2
<1>3. IsFiniteSet(B) /\ Cardinality(B) = Size[x]
  <2>1. IsFiniteSet({x}) /\ Cardinality({x}) = 1
    BY FS_Singleton, Zenon
  <2>2. IsFiniteSet(B) /\ Cardinality(B) = Cardinality({x}) * Cardinality(1 .. Size[x])
    BY <1>2, <2>1, FS_Product, Zenon
  <2> QED  BY <1>1, <1>2, <2>1, <2>2
<1>4. IsFiniteSet(Bytes(S)) /\ Cardinality(Bytes(S)) \in Nat
  BY BytesCounted, Zenon
<1>5. Bytes(S \union {x}) = Bytes(S) \union B
  BY Zenon DEF Bytes
<1>6. Bytes(S) \intersect B = {}
  BY DEF Bytes
<1> HIDE DEF B
<1>7. Cardinality(Bytes(S) \union B) = Cardinality(Bytes(S)) + Cardinality(B) - Cardinality(Bytes(S) \intersect B)
  BY <1>3, <1>4, FS_Union, Zenon
<1>8. Cardinality({}) = 0
  BY FS_EmptySet, Zenon
<1>9. Cardinality(Bytes(S \union {x})) = Cardinality(Bytes(S)) + Size[x] - 0
  BY <1>3, <1>5, <1>6, <1>7, <1>8, Zenon
<1> QED  BY <1>1, <1>4, <1>9

Cache == [Inputs -> Entries]

\* The usage is a number that depends only on whose scripts there are.
LEMMA UsageCounted ==
  ASSUME NEW c, NEW d, WithScript(d) \subseteq WithScript(c)
  PROVE  Usage(c) \in Nat /\ Usage(d) \in Nat /\ Usage(d) <= Usage(c)
<1>1. WithScript(c) \in SUBSET Inputs /\ WithScript(d) \in SUBSET WithScript(c)
  BY Zenon DEF WithScript
<1>2. \A T \in SUBSET Inputs : \A S \in SUBSET T :
        Cardinality(Bytes(S)) \in Nat /\ Cardinality(Bytes(S)) <= Cardinality(Bytes(T))
  BY BytesCounted, Zenon
<1> QED  BY <1>1, <1>2, Zenon DEF Usage

-----------------------------------------------------------------------------
(* Loading coins. *)

\* Only coins of the database are loaded, into entries without their scripts.
LoadedInto(c, d) ==
  \A o \in Inputs : \/ d[o] = c[o]
                    \/ o \in db /\ c[o] \in {"absent", "bare"} /\ d[o] \in {"bare", "script"}

\* No script is loaded beyond the threshold.
WithinLimit(c, d) == WithScript(d) = WithScript(c) \/ Usage(d) <= Threshold

Fills(c, d) == d \in Cache /\ LoadedInto(c, d) /\ WithinLimit(c, d)

\* Nothing is loaded.
LEMMA FillsNothing ==
  ASSUME NEW c \in Cache
  PROVE  Fills(c, c)
BY Zenon DEF Fills, LoadedInto, WithinLimit

\* One coin is loaded.
LEMMA FillsOne ==
  ASSUME NEW c \in Cache, NEW o \in Inputs, o \in db,
         c[o] \in {"absent", "bare"} \/ (~HasSpaceForScript(c, o) /\ c[o] # "absent")
  PROVE  Fills(c, [c EXCEPT ![o] = Stored(c, o)])
<1> DEFINE d == [c EXCEPT ![o] = Stored(c, o)]
<1>1. /\ d \in Cache /\ d[o] = Stored(c, o) /\ \A x \in Inputs : x # o => d[x] = c[x]
  BY Zenon DEF Cache, Entries, Stored
<1> HIDE DEF d
<1>2. CASE HasSpaceForScript(c, o)
  <2>1. Stored(c, o) = "script" /\ c[o] \in {"absent", "bare"}
    BY <1>2, Zenon DEF Stored
  <2>2. LoadedInto(c, d)
    BY <1>1, <2>1, Zenon DEF LoadedInto
  <2>3. WithScript(d) = WithScript(c) \union {o} /\ o \in Inputs \ WithScript(c)
    BY <1>1, <2>1 DEF WithScript
  <2>4. Cardinality(Bytes(WithScript(c) \union {o})) = Cardinality(Bytes(WithScript(c))) + Size[o]
    <3>1. WithScript(c) \in SUBSET Inputs
      BY Zenon DEF WithScript
    <3> HIDE DEF WithScript
    <3> QED  BY <2>3, <3>1, OneScriptMore, Zenon
  <2>5. Usage(d) = Usage(c) + Size[o] /\ Usage(c) \in Nat /\ Size[o] \in Nat /\ Threshold \in Nat
    <3>1. Usage(c) \in Nat
      BY UsageCounted, Zenon
    <3> QED  BY <2>3, <2>4, <3>1, FetchConstants DEF Usage
  <2>6. Usage(d) <= Threshold
    BY <1>2, <2>5 DEF HasSpaceForScript
  <2> QED  BY <1>1, <2>2, <2>6, Zenon DEF Fills, WithinLimit, d
<1>3. CASE ~HasSpaceForScript(c, o)
  <2>1. Stored(c, o) = IF c[o] = "absent" THEN "bare" ELSE c[o]
    BY <1>3, Zenon DEF Stored
  <2>2. LoadedInto(c, d)
    BY <1>1, <2>1, Zenon DEF LoadedInto
  <2>3. WithScript(d) = WithScript(c)
    BY <1>1, <2>1 DEF WithScript
  <2> QED  BY <1>1, <2>2, <2>3, Zenon DEF Fills, WithinLimit, d
<1> QED  BY <1>2, <1>3, Zenon

\* Loading goes on from what was loaded.
LEMMA FillsMore ==
  ASSUME NEW c, NEW d, NEW e, Fills(c, d), Fills(d, e)
  PROVE  Fills(c, e)
<1>1. LoadedInto(c, e)
  BY Zenon DEF Fills, LoadedInto
<1>2. WithScript(e) = WithScript(d) => Usage(e) = Usage(d)
  BY Zenon DEF Usage
<1>3. WithinLimit(c, e)
  BY <1>2, Zenon DEF Fills, WithinLimit
<1> QED  BY <1>1, <1>3, Zenon DEF Fills

\* A coin of DBCacheAllInputs.
LEMMA FillsCached ==
  ASSUME NEW c \in Cache, NEW o \in Inputs
  PROVE  Fills(c, CachedOne(c, o)) /\ CachedOne(c, o) \in Cache
<1>1. CASE o \in db /\ c[o] \in {"absent", "bare"}
  BY <1>1, FillsOne, Zenon DEF CachedOne, Fills
<1>2. CASE ~(o \in db /\ c[o] \in {"absent", "bare"})
  BY <1>2, FillsNothing, Zenon DEF CachedOne
<1> QED  BY <1>1, <1>2, Zenon

\* A set of numbers has a least one.
LEMMA LeastNumber ==
  ASSUME NEW S \in SUBSET Nat, S # {}
  PROVE  \E m \in S : \A y \in S : m <= y
<1>1. IsWellFoundedOn(OpToRel(<, Nat), Nat)
  BY NatLessThanWellFounded, Zenon
<1>2. PICK m \in S : \A y \in S : ~(<<y, m>> \in OpToRel(<, Nat))
  BY <1>1, WFMin, Zenon
<1>3. \A y \in S : ~(y < m)
  BY <1>2, Zenon DEF OpToRel
<1> QED  BY <1>3, SMTT(30)

\* f[i] is the cache after the first i inputs.
Caches(f, c, s, n) == \A i \in 0 .. n : f[i] = IF i = 0 THEN c ELSE CachedOne(f[i - 1], s[i])

\* One unfolding of the recursion in CachedAll.
AfterUnfolded(f, c, s) ==
  [i \in 0 .. Len(s) |-> IF i = 0 THEN c ELSE CachedOne(f[i - 1], s[i])]

\* The recursion in CachedAll has a solution.
LEMMA CachesExist ==
  ASSUME NEW c \in Cache, NEW s \in Seq(Inputs)
  PROVE  \E f : f = AfterUnfolded(f, c, s)
<1>1. Len(s) \in Nat /\ \A i \in 1 .. Len(s) : s[i] \in Inputs
  OBVIOUS
<1> DEFINE Has(n) == \E f \in [0 .. n -> Cache] : Caches(f, c, s, n)
           F == {n \in 0 .. Len(s) : ~Has(n)}
<1>2. ASSUME F # {} PROVE FALSE
  <2>1. F \in SUBSET Nat
    BY <1>1
  <2>2. PICK n \in F : \A y \in F : n <= y
    BY <1>2, <2>1, LeastNumber, Zenon
  <2>3. n \in 0 .. Len(s) /\ ~Has(n)
    BY <2>2, Zenon
  <2>4. CASE n = 0
    <3> DEFINE f == [i \in 0 .. 0 |-> c]
    <3>1. f \in [0 .. 0 -> Cache]
      BY Zenon
    <3>2. Caches(f, c, s, 0)
      <4>1. \A i \in 0 .. 0 : i = 0 /\ f[i] = c
        OBVIOUS
      <4> HIDE DEF f
      <4> QED  BY <4>1, Zenon DEF Caches
    <3> HIDE DEF f
    <3> QED  BY <2>3, <2>4, <3>1, <3>2, Zenon
  <2>5. CASE n # 0
    <3>1. n \in 1 .. Len(s) /\ n - 1 \in 0 .. Len(s) /\ n \in Nat /\ n - 1 \in Nat /\ ~(n <= n - 1)
      BY <1>1, <2>3, <2>5
    <3> DEFINE k == n - 1
    <3>2. k \notin F
      <4> HIDE DEF F, k
      <4> QED  BY <2>2, <3>1, Zenon DEF k
    <3>3. Has(k)
      <4> HIDE DEF k
      <4> QED  BY <3>1, <3>2, Zenon DEF k
    <3>4. PICK f \in [0 .. k -> Cache] : Caches(f, c, s, k)
      BY <3>3, Zenon
    <3> DEFINE v == CachedOne(f[k], s[n])
               g == [i \in 0 .. n |-> IF i = n THEN v ELSE f[i]]
    <3>5. v \in Cache
      <4>1. f[k] \in Cache /\ s[n] \in Inputs
        BY <1>1, <3>1, <3>4
      <4> QED  BY <4>1, FillsCached, Zenon
    <3> HIDE DEF v
    <3>6. g \in [0 .. n -> Cache]
      BY <3>1, <3>4, <3>5
    <3>7. Caches(g, c, s, n)
      <4>1. ASSUME NEW i \in 0 .. n
            PROVE  g[i] = IF i = 0 THEN c ELSE CachedOne(g[i - 1], s[i])
        <5>1. CASE i = n
          <6>1. g[i] = v /\ g[i - 1] = f[k] /\ i # 0
            BY <3>1, <5>1, <2>5
          <6> HIDE DEF g, k
          <6> QED  BY <5>1, <6>1, Zenon DEF v
        <5>2. CASE i # n
          <6>1. i \in 0 .. k /\ g[i] = f[i] /\ (i # 0 => g[i - 1] = f[i - 1])
            BY <3>1, <5>2, <4>1
          <6> HIDE DEF g, k
          <6> QED  BY <3>4, <6>1, Zenon DEF Caches
        <5> QED  BY <5>1, <5>2, Zenon
      <4> HIDE DEF g
      <4> QED  BY <4>1, Zenon DEF Caches
    <3> HIDE DEF g
    <3> QED  BY <2>3, <3>6, <3>7, Zenon
  <2> QED  BY <2>4, <2>5, Zenon
<1>3. PICK f \in [0 .. Len(s) -> Cache] : Caches(f, c, s, Len(s))
  <2>1. Len(s) \in 0 .. Len(s)
    BY <1>1
  <2> HIDE DEF Has
  <2>2. Has(Len(s))
    BY <1>2, <2>1, Zenon
  <2> QED  BY <2>2, Zenon DEF Has
<1>4. f = AfterUnfolded(f, c, s)
  BY <1>3, Zenon DEF Caches, AfterUnfolded
<1> QED  BY <1>4, Zenon

\* DBCacheAllInputs loads coins, one after the other.
LEMMA FillsAll ==
  ASSUME NEW c \in Cache, NEW s \in Seq(Inputs)
  PROVE  Fills(c, CachedAll(c, s))
<1> DEFINE after == CHOOSE f : f = AfterUnfolded(f, c, s)
<1>1. Len(s) \in Nat /\ \A i \in 1 .. Len(s) : s[i] \in Inputs
  OBVIOUS
<1>2. after = AfterUnfolded(after, c, s)
  BY CachesExist, Zenon
<1>3. CachedAll(c, s) = after[Len(s)]
  BY Zenon DEF CachedAll, AfterUnfolded
<1> HIDE DEF after
<1>4. ASSUME NEW i \in 0 .. Len(s)
      PROVE  after[i] = IF i = 0 THEN c ELSE CachedOne(after[i - 1], s[i])
  BY <1>2, Zenon DEF AfterUnfolded
<1> DEFINE F == {i \in 0 .. Len(s) : ~Fills(c, after[i])}
<1>5. ASSUME F # {} PROVE FALSE
  <2>1. F \in SUBSET Nat
    BY <1>1
  <2>2. PICK n \in F : \A y \in F : n <= y
    BY <1>5, <2>1, LeastNumber, Zenon
  <2>3. n \in 0 .. Len(s) /\ ~Fills(c, after[n])
    BY <2>2, Zenon
  <2>4. n # 0
    BY <1>4, <2>3, FillsNothing, Zenon
  <2>5. n \in 1 .. Len(s) /\ n - 1 \in 0 .. Len(s) /\ ~(n <= n - 1)
    BY <1>1, <2>3, <2>4
  <2> DEFINE k == n - 1
  <2>6. Fills(c, after[k])
    <3> HIDE DEF k
    <3> QED  BY <2>2, <2>5, Zenon DEF k
  <2>7. after[n] = CachedOne(after[k], s[n]) /\ s[n] \in Inputs
    BY <1>1, <1>4, <2>3, <2>4, <2>5, Zenon
  <2> HIDE DEF k
  <2>8. Fills(after[k], after[n])
    BY <2>6, <2>7, FillsCached, Zenon DEF Fills
  <2> QED  BY <2>3, <2>6, <2>8, FillsMore, Zenon
<1>6. Len(s) \in 0 .. Len(s)
  BY <1>1
<1> QED  BY <1>3, <1>5, <1>6, Zenon

-----------------------------------------------------------------------------
(* The inductive invariant. *)

\* The truth about a coin is what GetCoin has.
Truth(exists, v) ==
  /\ exists <=> v.got \in {"bare", "script"}
  /\ exists /\ v.max >= Size[v.o] => v.got = "script"

\* What a reader at label l with locals v has found out, over the cache c.
ReaderOK(c, l, v) ==
  /\ l \in Held => v.o \notin dirty
  /\ l = "fetch" => v.budget >= v.max
  /\ l = "store" => v.o \in db
  /\ l \in {"store", "unguard"} => Truth(v.o \in db, v)
  /\ l = "done" => Truth(v.o \in db \union dirty /\ c[v.o] # "spent", v)

\* The entries of the cache are about coins that there are, and those that differ
\* from the database are DIRTY.
EntriesReal ==
  \A o \in Inputs : /\ mCache[o] \in {"bare", "script"} => o \in db \union dirty
                    /\ mCache[o] = "spent" => o \in dirty
                    /\ o \in dirty => mCache[o] \in {"script", "spent"}

FetchInv ==
  /\ GuardsSound /\ EntriesReal
  /\ \A r \in Readers : ReaderOK(mCache, pc[r], call[r])

\* The invariant says that reads are right.
LEMMA InvReads ==
  FetchInv => ReadsRight
<1> SUFFICES ASSUME FetchInv PROVE ReadsTrue
  BY Zenon DEF FetchInv, ReadsRight
<1>1. ASSUME NEW r \in Readers, pc[r] = "done"
      PROVE  Truth(call[r].o \in db \union dirty /\ mCache[call[r].o] # "spent", call[r])
  BY <1>1, Zenon DEF FetchInv, ReaderOK
<1> QED  BY <1>1, Zenon DEF ReadsTrue, Truth

\* It holds at the start.
LEMMA InvInit ==
  FetchInit => FetchInv
<1> SUFFICES ASSUME FetchInit PROVE FetchInv
  OBVIOUS
<1>1. NoCall \in Calls /\ NoCall.o \in Inputs
  <2>1. (CHOOSE o \in Inputs : TRUE) \in Inputs /\ 0 \in 0 .. Big
    BY FetchConstants
  <2> QED  BY <2>1, Zenon DEF NoCall, Calls, Requests, Entries
<1>2. \A t \in Threads : pc[t] = "idle" /\ "idle" \notin Held
  BY Zenon DEF FetchInit, Held
<1>3. \A r \in Readers : ~Guarded(r) /\ pc[r] = "idle"
  BY <1>2, Zenon DEF Guarded, Threads
<1>4. {call[r].o : r \in {q \in Readers : Guarded(q)}} = {}
  BY <1>3, Zenon
<1>5. GuardsSound
  BY <1>1, <1>3, <1>4, Zenon DEF FetchInit, GuardsSound, FetchTypeOK, OneFetchPerOutpoint, Entries, Labels
<1>6. EntriesReal
  BY Zenon DEF FetchInit, EntriesReal
<1>7. \A r \in Readers : ReaderOK(mCache, pc[r], call[r])
  <2> SUFFICES ASSUME NEW r \in Readers PROVE ReaderOK(mCache, "idle", call[r])
    BY <1>3, Zenon
  <2> QED  BY Zenon DEF ReaderOK, Held
<1> QED  BY <1>5, <1>6, <1>7, Zenon DEF FetchInv

\* What loading coins leaves true of the entries and of those who have read.
LEMMA FillsKeeps ==
  ASSUME FetchInv, Fills(mCache, mCache'), dirty' = dirty, db' = db
  PROVE  /\ EntriesReal'
         /\ \A l, v : v.o \in Inputs /\ ReaderOK(mCache, l, v) => ReaderOK(mCache', l, v)
<1>1. EntriesReal
  BY Zenon DEF FetchInv
<1>2. LoadedInto(mCache, mCache')
  BY Zenon DEF Fills
<1>3. \A o \in Inputs : mCache'[o] = "spent" <=> mCache[o] = "spent"
  BY <1>2, Zenon DEF LoadedInto
<1>4. EntriesReal'
  <2> SUFFICES ASSUME NEW o \in Inputs
               PROVE  /\ mCache'[o] \in {"bare", "script"} => o \in db \union dirty
                      /\ mCache'[o] = "spent" => o \in dirty
                      /\ o \in dirty => mCache'[o] \in {"script", "spent"}
    BY Zenon DEF EntriesReal
  <2>1. CASE mCache'[o] = mCache[o]
    BY <1>1, <2>1, Zenon DEF EntriesReal
  <2>2. CASE o \in db /\ mCache[o] \in {"absent", "bare"} /\ mCache'[o] \in {"bare", "script"}
    <3>1. o \notin dirty
      BY <1>1, <2>2, Zenon DEF EntriesReal
    <3> QED  BY <2>2, <3>1, Zenon
  <2> QED  BY <1>2, <2>1, <2>2, Zenon DEF LoadedInto
<1>5. ASSUME NEW l, NEW v, v.o \in Inputs, ReaderOK(mCache, l, v) PROVE ReaderOK(mCache', l, v)
  <2>1. mCache'[v.o] = "spent" <=> mCache[v.o] = "spent"
    BY <1>3, <1>5, Zenon
  <2>2. l = "done" => Truth(v.o \in db \union dirty /\ mCache'[v.o] # "spent", v)
    BY <1>5, <2>1, Zenon DEF ReaderOK, Truth
  <2> QED  BY <1>5, <2>2, Zenon DEF ReaderOK
<1> QED  BY <1>4, <1>5, Zenon

\* A step that leaves the readers where they are and at most loads coins.
LEMMA OthersMove ==
  ASSUME FetchInv, pc' \in [Threads -> Labels], \A q \in Readers : pc'[q] = pc[q],
         UNCHANGED <<call, dirty, db, fetching>>, aborted' \in BOOLEAN, Fills(mCache, mCache')
  PROVE  FetchInv'
<1>1. FetchTypeOK /\ OneFetchPerOutpoint /\ call \in [Readers -> Calls]
  BY Zenon DEF FetchInv, GuardsSound, FetchTypeOK
<1>2. \A q \in Readers : Guarded(q)' <=> Guarded(q)
  BY Zenon DEF Guarded
<1>3. {call'[r].o : r \in {q \in Readers : Guarded(q)'}} = {call[r].o : r \in {q \in Readers : Guarded(q)}}
  BY <1>2, Zenon
<1>4. mCache' \in [Inputs -> Entries]
  BY Zenon DEF Fills, Cache
<1>5. FetchTypeOK'
  BY <1>1, <1>3, <1>4, Zenon DEF FetchTypeOK
<1>6. OneFetchPerOutpoint'
  BY <1>1, <1>2, Zenon DEF OneFetchPerOutpoint
<1>7. \A r \in Readers : ReaderOK(mCache', pc[r], call[r])
  <2>1. \A r \in Readers : call[r].o \in Inputs
    BY <1>1, Zenon DEF Calls
  <2> QED  BY <2>1, FillsKeeps, Zenon DEF FetchInv
<1>8. \A r \in Readers : ReaderOK(mCache, pc[r], call[r])'
  BY <1>7, Zenon DEF ReaderOK, Truth
<1>9. EntriesReal'
  BY FillsKeeps, Zenon
<1> QED  BY <1>5, <1>6, <1>8, <1>9, Zenon DEF FetchInv, GuardsSound

\* How the guard of a reader moves with it.
GuardMoves(r, l, v) ==
  \/ Guarded(r) /\ l \in Held /\ v.o = call[r].o /\ fetching' = fetching
  \/ ~Guarded(r) /\ l \notin Held /\ fetching' = fetching
  \/ ~Guarded(r) /\ l \in Held /\ v.o \notin fetching /\ fetching' = fetching \union {v.o}
  \/ Guarded(r) /\ l \notin Held /\ v.o = call[r].o /\ fetching' = fetching \ {call[r].o}

\* The guards stay sound.
LEMMA GuardsMove ==
  ASSUME GuardsSound, NEW r \in Readers, NEW l \in Labels, NEW v \in Calls,
         pc' = [pc EXCEPT ![r] = l], call' = [call EXCEPT ![r] = v], GuardMoves(r, l, v),
         dirty' = dirty, db' = db, aborted' \in BOOLEAN, mCache' \in Cache
  PROVE  GuardsSound'
<1>1. /\ pc \in [Threads -> Labels] /\ call \in [Readers -> Calls] /\ r \in Threads
      /\ dirty \subseteq Inputs /\ db \subseteq Inputs
      /\ fetching = {call[q].o : q \in {p \in Readers : Guarded(p)}}
      /\ OneFetchPerOutpoint
  BY Zenon DEF GuardsSound, FetchTypeOK, Threads
<1>2. /\ pc'[r] = l /\ call'[r] = v /\ pc' \in [Threads -> Labels] /\ call' \in [Readers -> Calls]
      /\ \A q \in Readers : q # r => pc'[q] = pc[q] /\ call'[q] = call[q]
  BY <1>1, Zenon DEF Threads
<1>3. /\ Guarded(r)' <=> l \in Held
      /\ \A q \in Readers : q # r => (Guarded(q)' <=> Guarded(q)) /\ call'[q] = call[q]
  BY <1>2, Zenon DEF Guarded
<1>4. \A x : x \in fetching <=> \E q \in Readers : Guarded(q) /\ call[q].o = x
  BY <1>1, Zenon
<1>5. \A q \in Readers : Guarded(r) /\ Guarded(q) /\ call[r].o = call[q].o => r = q
  BY <1>1, Zenon DEF OneFetchPerOutpoint
<1>6. \A x : x \in fetching' <=> \E q \in Readers : Guarded(q)' /\ call'[q].o = x
  <2>1. CASE Guarded(r) /\ l \in Held /\ v.o = call[r].o /\ fetching' = fetching
    <3>1. \A q \in Readers : (Guarded(q)' <=> Guarded(q)) /\ (Guarded(q) => call'[q].o = call[q].o)
      BY <1>2, <1>3, <2>1, Zenon
    <3> QED  BY <1>4, <2>1, <3>1, Zenon
  <2>2. CASE ~Guarded(r) /\ l \notin Held /\ fetching' = fetching
    <3>1. \A q \in Readers : (Guarded(q)' <=> Guarded(q)) /\ (Guarded(q) => call'[q].o = call[q].o)
      BY <1>2, <1>3, <2>2, Zenon
    <3> QED  BY <1>4, <2>2, <3>1, Zenon
  <2>3. CASE ~Guarded(r) /\ l \in Held /\ v.o \notin fetching /\ fetching' = fetching \union {v.o}
    <3>1. \A q \in Readers :
            (Guarded(q)' <=> Guarded(q) \/ q = r) /\ (Guarded(q) => call'[q].o = call[q].o)
      BY <1>2, <1>3, <2>3, Zenon
    <3>2. ASSUME NEW x PROVE x \in fetching' <=> \E q \in Readers : Guarded(q)' /\ call'[q].o = x
      <4>1. CASE x = v.o
        BY <1>2, <2>3, <3>1, <4>1, Zenon
      <4>2. CASE x # v.o
        <5>1. x \in fetching' <=> \E q \in Readers : Guarded(q) /\ call[q].o = x
          BY <1>4, <2>3, <4>2, Zenon
        <5>2. ASSUME NEW q \in Readers
              PROVE  Guarded(q) /\ call[q].o = x <=> Guarded(q)' /\ call'[q].o = x
          BY <1>2, <2>3, <3>1, <4>2, Zenon
        <5> QED  BY <5>1, <5>2, Zenon
      <4> QED  BY <4>1, <4>2, Zenon
    <3> QED  BY <3>2, Zenon
  <2>4. CASE Guarded(r) /\ l \notin Held /\ v.o = call[r].o /\ fetching' = fetching \ {call[r].o}
    BY <1>2, <1>3, <1>4, <1>5, <2>4, Zenon
  <2> QED  BY <2>1, <2>2, <2>3, <2>4, Zenon DEF GuardMoves
<1>7. fetching' = {call'[q].o : q \in {p \in Readers : Guarded(p)'}}
  <2>1. \A x : x \in fetching' <=> x \in {call'[q].o : q \in {p \in Readers : Guarded(p)'}}
    BY <1>6, Zenon
  <2> QED  BY <2>1, Zenon
<1>8. OneFetchPerOutpoint'
  <2> SUFFICES ASSUME NEW p \in Readers, NEW q \in Readers, Guarded(p)', Guarded(q)', call'[p].o = call'[q].o
               PROVE  p = q
    BY Zenon DEF OneFetchPerOutpoint
  <2>1. CASE p # r /\ q # r
    BY <1>1, <1>3, <2>1, Zenon DEF OneFetchPerOutpoint
  <2>2. \A z \in Readers : z # r /\ Guarded(z)' /\ Guarded(r)' => call'[z].o # call'[r].o
    BY <1>2, <1>3, <1>4, <1>5, Zenon DEF GuardMoves
  <2> QED  BY <2>1, <2>2, Zenon
<1> QED  BY <1>1, <1>2, <1>7, <1>8, Zenon DEF GuardsSound, FetchTypeOK, Cache

\* A step of one reader, which at most loads a coin.
LEMMA ReaderMoves ==
  ASSUME FetchInv, NEW r \in Readers, NEW l \in Labels, NEW v \in Calls,
         pc' = [pc EXCEPT ![r] = l], call' = [call EXCEPT ![r] = v], GuardMoves(r, l, v),
         dirty' = dirty, db' = db, aborted' \in BOOLEAN, Fills(mCache, mCache'),
         ReaderOK(mCache', l, v)
  PROVE  FetchInv'
<1>1. GuardsSound /\ pc \in [Threads -> Labels] /\ call \in [Readers -> Calls] /\ r \in Threads
  BY Zenon DEF FetchInv, GuardsSound, FetchTypeOK, Threads
<1>2. GuardsSound'
  <2>1. mCache' \in Cache
    BY Zenon DEF Fills
  <2> QED  BY <1>1, <2>1, GuardsMove, Zenon
<1>3. ASSUME NEW q \in Readers PROVE ReaderOK(mCache', pc'[q], call'[q])
  <2>1. CASE q = r
    <3>1. pc'[q] = l /\ call'[q] = v
      BY <1>1, <2>1, Zenon
    <3> QED  BY <3>1, Zenon
  <2>2. CASE q # r
    <3>1. pc'[q] = pc[q] /\ call'[q] = call[q] /\ call[q].o \in Inputs
      BY <1>1, <2>2, Zenon DEF Threads, Calls
    <3>2. ReaderOK(mCache, pc[q], call[q])
      BY Zenon DEF FetchInv
    <3> QED  BY <3>1, <3>2, FillsKeeps, Zenon
  <2> QED  BY <2>1, <2>2, Zenon
<1>4. \A q \in Readers : ReaderOK(mCache, pc[q], call[q])'
  BY <1>3, Zenon DEF ReaderOK, Truth
<1>5. EntriesReal'
  BY FillsKeeps, Zenon
<1> QED  BY <1>2, <1>4, <1>5, Zenon DEF FetchInv

-----------------------------------------------------------------------------
(* The steps. *)

\* What is known of a reader.
LEMMA ReaderTyped ==
  ASSUME FetchInv, NEW r \in Readers
  PROVE  /\ call[r] \in Calls /\ call[r].o \in Inputs /\ call[r].max \in Nat /\ call[r].max <= Big
         /\ call[r].max \in 0 .. Big /\ pc[r] \in Labels /\ mCache \in Cache /\ mCache[call[r].o] \in Entries
         /\ Size[call[r].o] \in Nat /\ fetching = {call[q].o : q \in {p \in Readers : Guarded(p)}}
         /\ aborted \in BOOLEAN /\ Fills(mCache, mCache)
         /\ EntriesReal /\ ReaderOK(mCache, pc[r], call[r])
<1>1. /\ call[r] \in Calls /\ call[r].o \in Inputs /\ pc[r] \in Labels /\ mCache \in Cache
      /\ fetching = {call[q].o : q \in {p \in Readers : Guarded(p)}} /\ aborted \in BOOLEAN
  BY Zenon DEF FetchInv, GuardsSound, FetchTypeOK, Calls, Threads, Cache
<1>2. call[r].max \in {0, Big}
  BY <1>1, Zenon DEF Calls, Requests
<1>3. call[r].max \in Nat /\ call[r].max <= Big /\ call[r].max \in 0 .. Big /\ Size[call[r].o] \in Nat
  BY <1>1, <1>2, FetchConstants
<1>4. mCache[call[r].o] \in Entries /\ Fills(mCache, mCache)
  BY <1>1, FillsNothing, Zenon DEF Cache
<1> QED  BY <1>1, <1>3, <1>4, Zenon DEF FetchInv

\* The locals of a call after one of them has been set.
LEMMA LocalSet ==
  ASSUME NEW k \in Calls
  PROVE  /\ \A x \in Entries : LET v == [k EXCEPT !.got = x] IN
              v \in Calls /\ v.o = k.o /\ v.max = k.max /\ v.budget = k.budget /\ v.got = x
         /\ \A x \in {"absent", "bare"} : LET v == [k EXCEPT !.had = x] IN
              v \in Calls /\ v.o = k.o /\ v.max = k.max /\ v.budget = k.budget /\ v.got = k.got
         /\ \A x \in 0 .. Big : LET v == [k EXCEPT !.budget = x] IN
              v \in Calls /\ v.o = k.o /\ v.max = k.max /\ v.budget = x /\ v.got = k.got
BY DEF Calls

\* GetCoin is called.
LEMMA CallKeeps ==
  ASSUME FetchInv, NEW r \in Readers, NEW o \in Inputs, NEW max \in Requests, Call(r, o, max)
  PROVE  FetchInv'
<1> DEFINE v == [NoCall EXCEPT !.o = o, !.max = max]
<1>1. v \in Calls
  <2>1. 0 \in 0 .. Big
    BY FetchConstants
  <2> QED  BY <2>1 DEF NoCall, Calls, Requests, Entries
<1>2. /\ pc[r] = "idle" /\ pc' = [pc EXCEPT ![r] = "look"] /\ call' = [call EXCEPT ![r] = v]
      /\ UNCHANGED <<mCache, dirty, db, fetching, aborted>>
  BY Zenon DEF Call, Goto
<1> HIDE DEF v
<1>3. GuardMoves(r, "look", v)
  BY <1>2, Zenon DEF GuardMoves, Guarded, Held
<1>4. ReaderOK(mCache', "look", v)
  BY Zenon DEF ReaderOK, Held
<1>5. "look" \in Labels /\ aborted' \in BOOLEAN /\ Fills(mCache, mCache')
  BY <1>2, ReaderTyped, Zenon DEF Labels
<1> QED  BY <1>1, <1>2, <1>3, <1>4, <1>5, ReaderMoves, Zenon

\* The cache answers.
LEMMA LookFoundKeeps ==
  ASSUME FetchInv, NEW r \in Readers, LookFound(r)
  PROVE  FetchInv'
<1> DEFINE o == call[r].o
           v == [call[r] EXCEPT !.got = mCache[o]]
<1>1. /\ pc[r] = "look" /\ Answers(r) /\ pc' = [pc EXCEPT ![r] = "done"]
      /\ call' = [call EXCEPT ![r].got = mCache[o]]
      /\ UNCHANGED <<mCache, dirty, db, fetching, aborted>>
  BY Zenon DEF LookFound, Goto
<1>2. call' = [call EXCEPT ![r] = v]
  BY <1>1
<1>3. v \in Calls /\ v.o = o /\ v.max = call[r].max /\ v.got = mCache[o]
  BY ReaderTyped, LocalSet, Zenon
<1>4. o \in Inputs /\ EntriesReal /\ v.max \in Nat /\ Size[o] \in Nat
  BY <1>3, ReaderTyped, Zenon
<1>5. mCache[o] \in {"spent", "script"} \/ (mCache[o] = "bare" /\ v.max < Size[o])
  BY <1>1, <1>3, Zenon DEF Answers
<1> HIDE DEF v, o
<1>6. Truth(v.o \in db \union dirty /\ mCache[v.o] # "spent", v)
  <2>1. mCache[o] \in {"script", "bare"} => o \in db \union dirty
    BY <1>4, Zenon DEF EntriesReal
  <2>2. v.max < Size[o] => ~(v.max >= Size[o])
    BY <1>4
  <2> QED  BY <1>3, <1>5, <2>1, <2>2, Zenon DEF Truth
<1>7. ReaderOK(mCache', "done", v)
  BY <1>1, <1>6, Zenon DEF ReaderOK, Held
<1>8. GuardMoves(r, "done", v)
  BY <1>1, Zenon DEF GuardMoves, Guarded, Held
<1>9. "done" \in Labels /\ aborted' \in BOOLEAN /\ Fills(mCache, mCache')
  BY <1>1, ReaderTyped, Zenon DEF Labels
<1> QED  BY <1>1, <1>2, <1>3, <1>7, <1>8, <1>9, ReaderMoves, Zenon

\* A reader gets the guard.
LEMMA LookFetchKeeps ==
  ASSUME FetchInv, NEW r \in Readers, LookFetch(r)
  PROVE  FetchInv'
<1> DEFINE o == call[r].o
           v == [call[r] EXCEPT !.had = mCache[o]]
<1>1. /\ pc[r] = "look" /\ ~Answers(r) /\ pc' = [pc EXCEPT ![r] = "measure"]
      /\ call' = [call EXCEPT ![r].had = mCache[o]]
      /\ o \notin fetching /\ fetching' = fetching \union {o}
      /\ UNCHANGED <<mCache, dirty, db, aborted>>
  BY Zenon DEF LookFetch, Goto, TryInsert
<1>2. call' = [call EXCEPT ![r] = v]
  BY <1>1
<1>3. mCache[o] \in {"absent", "bare"} /\ o \in Inputs /\ EntriesReal
  BY <1>1, ReaderTyped, Zenon DEF Answers, Entries
<1>4. v \in Calls /\ v.o = o
  BY <1>3, ReaderTyped, LocalSet, Zenon
<1> HIDE DEF v, o
<1>5. o \notin dirty
  BY <1>3, Zenon DEF EntriesReal
<1>6. ReaderOK(mCache', "measure", v)
  BY <1>4, <1>5, Zenon DEF ReaderOK
<1>7. GuardMoves(r, "measure", v)
  BY <1>1, <1>4, Zenon DEF GuardMoves, Guarded, Held
<1>8. "measure" \in Labels /\ aborted' \in BOOLEAN /\ Fills(mCache, mCache')
  BY <1>1, ReaderTyped, Zenon DEF Labels
<1> QED  BY <1>1, <1>2, <1>4, <1>6, <1>7, <1>8, ReaderMoves, Zenon

\* A reader inside the guard goes on, with the coin it fetches or the size it may load.
LEMMA InsideKeeps ==
  ASSUME FetchInv, NEW r \in Readers, NEW l \in Labels, NEW v \in Calls,
         Guarded(r), l \in Held, v.o = call[r].o, pc' = [pc EXCEPT ![r] = l],
         call' = [call EXCEPT ![r] = v], UNCHANGED <<dirty, db, fetching, aborted>>,
         Fills(mCache, mCache'),
         l = "fetch" => v.budget >= v.max,
         l = "store" => v.o \in db,
         l \in {"store", "unguard"} => Truth(v.o \in db, v)
  PROVE  FetchInv'
<1>1. call[r].o \notin dirty /\ aborted \in BOOLEAN
  BY ReaderTyped, Zenon DEF ReaderOK, Guarded
<1>2. ReaderOK(mCache', l, v)
  BY <1>1, Zenon DEF ReaderOK, Held
<1>3. GuardMoves(r, l, v)
  BY Zenon DEF GuardMoves
<1> QED  BY <1>1, <1>2, <1>3, ReaderMoves, Zenon

\* The first of the two reads of the usage.
LEMMA MeasureKeeps ==
  ASSUME FetchInv, NEW r \in Readers, Measure(r)
  PROVE  FetchInv'
<1>1. pc[r] = "measure" /\ UNCHANGED <<mCache, dirty, db, fetching, aborted>> /\ Guarded(r)
  BY Zenon DEF Measure, Guarded, Held
<1>2. Fills(mCache, mCache') /\ call[r] \in Calls /\ call \in [Readers -> Calls]
  BY <1>1, ReaderTyped, Zenon DEF FetchInv, GuardsSound, FetchTypeOK
<1>3. CASE Goto(r, "budget") /\ UNCHANGED call
  <2>1. call' = [call EXCEPT ![r] = call[r]]
    BY <1>2, <1>3
  <2>2. "budget" \in Labels /\ "budget" \in Held /\ pc' = [pc EXCEPT ![r] = "budget"]
    BY <1>3, Zenon DEF Labels, Held, Goto
  <2> QED  BY <1>1, <1>2, <2>1, <2>2, InsideKeeps, Zenon
<1>4. CASE Goto(r, "fetch") /\ call' = [call EXCEPT ![r].budget = call[r].max]
  <2> DEFINE v == [call[r] EXCEPT !.budget = call[r].max]
  <2>1. call' = [call EXCEPT ![r] = v]
    BY <1>4
  <2>2. v \in Calls /\ v.o = call[r].o /\ v.max = call[r].max /\ v.budget = call[r].max
    BY ReaderTyped, LocalSet, Zenon
  <2>3. v.max \in Nat
    BY <2>2, ReaderTyped, Zenon
  <2> HIDE DEF v
  <2>4. v.budget >= v.max
    BY <2>2, <2>3
  <2>5. "fetch" \in Labels /\ "fetch" \in Held /\ pc' = [pc EXCEPT ![r] = "fetch"]
    BY <1>4, Zenon DEF Labels, Held, Goto
  <2> QED  BY <1>1, <1>2, <2>1, <2>2, <2>4, <2>5, InsideKeeps, Zenon
<1> QED  BY <1>3, <1>4, Zenon DEF Measure

\* The second one, with the subtraction that may wrap.
LEMMA BudgetKeeps ==
  ASSUME FetchInv, NEW r \in Readers, Budget(r)
  PROVE  FetchInv'
<1> DEFINE left == (Threshold - Usage(mCache)) % (Big + 1)
           b == Max({call[r].max, left})
           v == [call[r] EXCEPT !.budget = b]
<1>1. /\ pc[r] = "budget" /\ pc' = [pc EXCEPT ![r] = "fetch"] /\ call' = [call EXCEPT ![r].budget = b]
      /\ UNCHANGED <<mCache, dirty, db, fetching, aborted>> /\ Guarded(r)
  BY Zenon DEF Budget, Goto, Guarded, Held
<1>2. left \in 0 .. Big
  <2>1. Usage(mCache) \in Nat
    BY UsageCounted, Zenon
  <2> QED  BY <2>1, FetchConstants
<1>3. call[r] \in Calls /\ call[r].max \in 0 .. Big
  BY ReaderTyped, Zenon
<1> HIDE DEF left
<1>4. b \in 0 .. Big /\ b >= call[r].max
  <2> DEFINE m == call[r].max
  <2>1. \E x \in {m, left} : \A y \in {m, left} : x >= y
    BY <1>2, <1>3
  <2>2. b \in {m, left} /\ \A y \in {m, left} : b >= y
    BY <2>1, Zenon DEF Max
  <2> HIDE DEF b
  <2> QED  BY <1>2, <1>3, <2>2
<1>5. call' = [call EXCEPT ![r] = v]
  BY <1>1
<1> HIDE DEF b
<1>6. v \in Calls /\ v.o = call[r].o /\ v.max = call[r].max /\ v.budget = b
  BY <1>3, <1>4, LocalSet, Zenon
<1> HIDE DEF v
<1>7. v.budget >= v.max
  BY <1>4, <1>6, Zenon
<1>8. "fetch" \in Labels /\ "fetch" \in Held /\ Fills(mCache, mCache')
  BY <1>1, ReaderTyped, Zenon DEF Labels, Held
<1> QED  BY <1>1, <1>5, <1>6, <1>7, <1>8, InsideKeeps, Zenon

\* The database is read.
LEMMA FetchKeeps ==
  ASSUME FetchInv, NEW r \in Readers, Fetch(r)
  PROVE  FetchInv'
<1> DEFINE o == call[r].o
           coin == DBGetCoin(o, call[r].budget)
           v == [call[r] EXCEPT !.got = coin]
           l == IF coin = "absent" THEN "unguard" ELSE "store"
<1>1. /\ pc[r] = "fetch" /\ pc' = [pc EXCEPT ![r] = l] /\ call' = [call EXCEPT ![r].got = coin]
      /\ UNCHANGED <<mCache, dirty, db, fetching, aborted>> /\ Guarded(r)
  BY Zenon DEF Fetch, Goto, Guarded, Held
<1>2. coin \in Entries /\ (coin = "absent" <=> o \notin db) /\ coin # "spent"
      /\ (o \in db /\ Size[o] <= call[r].budget => coin = "script")
  BY Zenon DEF DBGetCoin, Entries
<1>3. call[r] \in Calls /\ call[r].max \in Nat /\ call[r].budget >= call[r].max /\ Size[o] \in Nat
  BY <1>1, ReaderTyped, Zenon DEF ReaderOK
<1>4. call' = [call EXCEPT ![r] = v]
  BY <1>1
<1>5. call[r].max >= Size[o] => Size[o] <= call[r].budget
  <2>1. call[r].budget \in 0 .. Big
    BY <1>3, Zenon DEF Calls
  <2>2. call[r].budget \in Nat
    BY <2>1
  <2> HIDE DEF o
  <2> QED  BY <1>3, <2>2
<1> HIDE DEF coin
<1>6. v \in Calls /\ v.o = o /\ v.max = call[r].max /\ v.got = coin
  BY <1>2, <1>3, LocalSet, Zenon
<1> HIDE DEF v
<1>7. Truth(v.o \in db, v)
  BY <1>2, <1>5, <1>6, Zenon DEF Truth, Entries
<1>8. /\ l \in Labels /\ l \in Held /\ l # "fetch" /\ (l = "store" => v.o \in db)
      /\ Fills(mCache, mCache')
  BY <1>1, <1>2, <1>6, ReaderTyped, Zenon DEF Labels, Held
<1> HIDE DEF l
<1> QED  BY <1>1, <1>4, <1>6, <1>7, <1>8, InsideKeeps, Zenon

\* The insertion loads a coin at most.
LEMMA StoreFills ==
  ASSUME FetchInv, NEW r \in Readers, Store(r)
  PROVE  Fills(mCache, mCache')
<1> DEFINE o == call[r].o
<1>1. o \in Inputs /\ o \in db /\ mCache \in Cache /\ Fills(mCache, mCache)
  BY ReaderTyped, Zenon DEF ReaderOK, Store
<1>2. CASE AssertsHold(r)
  <2>1. mCache' = [mCache EXCEPT ![o] = Stored(mCache, o)]
    BY <1>2, Zenon DEF Store
  <2>2. ~HasSpaceForScript(mCache, o) \/ mCache[o] \in {"absent", "bare"}
    BY <1>2, Zenon DEF AssertsHold
  <2>3. mCache[o] \in {"absent", "bare"} \/ (~HasSpaceForScript(mCache, o) /\ mCache[o] # "absent")
    BY <2>2, Zenon
  <2> HIDE DEF o
  <2> QED  BY <1>1, <2>1, <2>3, FillsOne, Zenon
<1>3. CASE ~AssertsHold(r)
  BY <1>1, <1>3, Zenon DEF Store
<1> QED  BY <1>2, <1>3, Zenon

\* The insertion loads a coin, or an assert fails.
LEMMA StoreKeeps ==
  ASSUME FetchInv, NEW r \in Readers, Store(r)
  PROVE  FetchInv'
<1>1. pc[r] = "store" /\ UNCHANGED <<dirty, db, fetching, call>> /\ Guarded(r)
  BY Zenon DEF Store, Guarded, Held
<1>2. /\ Truth(call[r].o \in db, call[r]) /\ call[r] \in Calls /\ Fills(mCache, mCache')
      /\ pc \in [Threads -> Labels] /\ call \in [Readers -> Calls]
  BY <1>1, ReaderTyped, StoreFills, Zenon DEF ReaderOK, FetchInv, GuardsSound, FetchTypeOK
<1>3. CASE AssertsHold(r)
  <2>1. pc' = [pc EXCEPT ![r] = "unguard"] /\ aborted' = aborted
    BY <1>3, Zenon DEF Store, Goto
  <2>2. call' = [call EXCEPT ![r] = call[r]]
    BY <1>1, <1>2
  <2>3. "unguard" \in Labels /\ "unguard" \in Held
    BY Zenon DEF Labels, Held
  <2> QED  BY <1>1, <1>2, <2>1, <2>2, <2>3, InsideKeeps, Zenon
<1>4. CASE ~AssertsHold(r)
  <2>1. aborted' = TRUE /\ UNCHANGED pc
    BY <1>4, Zenon DEF Store
  <2> QED  BY <1>1, <1>2, <2>1, OthersMove, Zenon
<1> QED  BY <1>3, <1>4, Zenon

\* The guard is released, and GetCoin returns.
LEMMA UnguardKeeps ==
  ASSUME FetchInv, NEW r \in Readers, Unguard(r)
  PROVE  FetchInv'
<1> DEFINE o == call[r].o
<1>1. /\ pc[r] = "unguard" /\ pc' = [pc EXCEPT ![r] = "done"] /\ fetching' = fetching \ {o}
      /\ UNCHANGED <<mCache, dirty, db, call, aborted>> /\ Guarded(r) /\ "done" \notin Held
  BY Zenon DEF Unguard, GuardReleased, Goto, Guarded, Held
<1>2. /\ o \in Inputs /\ o \notin dirty /\ Truth(o \in db, call[r]) /\ call[r] \in Calls
      /\ Fills(mCache, mCache') /\ aborted \in BOOLEAN /\ EntriesReal /\ call \in [Readers -> Calls]
  BY <1>1, ReaderTyped, Zenon DEF ReaderOK, Held, FetchInv, GuardsSound, FetchTypeOK
<1>3. call' = [call EXCEPT ![r] = call[r]]
  BY <1>1, <1>2
<1>4. o \in db \union dirty /\ mCache[o] # "spent" <=> o \in db
  BY <1>2, Zenon DEF EntriesReal
<1>5. ReaderOK(mCache', "done", call[r])
  BY <1>1, <1>2, <1>4, Zenon DEF ReaderOK, Truth
<1>6. GuardMoves(r, "done", call[r])
  BY <1>1, Zenon DEF GuardMoves
<1>7. "done" \in Labels
  BY Zenon DEF Labels
<1> QED  BY <1>1, <1>2, <1>3, <1>5, <1>6, <1>7, ReaderMoves, Zenon

\* DBCacheAllInputs loads coins at most.
LEMMA CacheAllFills ==
  ASSUME FetchInv, NEW t \in Cachers, NEW inputs \in BlockInputs, CacheAllInputs(t, inputs)
  PROVE  Fills(mCache, mCache')
<1>1. mCache \in Cache
  BY Zenon DEF FetchInv, GuardsSound, FetchTypeOK, Cache
<1>2. PICK n \in 1 .. Cardinality(Inputs) : inputs \in Injection(1 .. n, Inputs)
  BY Zenon DEF BlockInputs
<1>3. inputs \in [1 .. n -> Inputs]
  BY <1>2, Zenon DEF Injection
<1>4. n \in Nat
  BY <1>2, FetchConstants, FS_CardinalityType
<1>5. inputs \in Seq(Inputs)
  BY <1>3, <1>4
<1> QED  BY <1>1, <1>5, FillsAll, Zenon DEF CacheAllInputs

\* It leaves the readers alone.
LEMMA CacheAllKeeps ==
  ASSUME FetchInv, NEW t \in Cachers, NEW inputs \in BlockInputs, CacheAllInputs(t, inputs)
  PROVE  FetchInv'
<1>1. /\ pc' = [pc EXCEPT ![t] = "done"] /\ UNCHANGED <<dirty, db, fetching, call, aborted>>
      /\ "done" \in Labels
  BY Zenon DEF CacheAllInputs, Goto, Labels
<1>2. pc \in [Threads -> Labels] /\ aborted \in BOOLEAN
  BY Zenon DEF FetchInv, GuardsSound, FetchTypeOK
<1>3. pc' \in [Threads -> Labels] /\ \A q \in Readers : pc'[q] = pc[q]
  BY <1>1, <1>2, FetchConstants, Zenon DEF Threads
<1> QED  BY <1>1, <1>2, <1>3, CacheAllFills, OthersMove, Zenon

\* A thread releases its lock.
LEMMA ReleaseKeeps ==
  ASSUME FetchInv, NEW t \in Threads, Release(t)
  PROVE  FetchInv'
<1>1. /\ pc[t] = "done" /\ pc' = [pc EXCEPT ![t] = "idle"] /\ "idle" \in Labels
      /\ UNCHANGED <<mCache, dirty, db, fetching, call, aborted>> /\ "idle" \notin Held /\ "done" \notin Held
  BY Zenon DEF Release, Goto, Labels, Held
<1>2. /\ pc \in [Threads -> Labels] /\ aborted \in BOOLEAN /\ call \in [Readers -> Calls] /\ mCache \in Cache
  BY Zenon DEF FetchInv, GuardsSound, FetchTypeOK, Cache
<1>3. Fills(mCache, mCache')
  BY <1>1, <1>2, FillsNothing, Zenon
<1>4. CASE t \in Readers
  <2>1. call' = [call EXCEPT ![t] = call[t]] /\ call[t] \in Calls
    BY <1>1, <1>2, <1>4
  <2>2. ReaderOK(mCache', "idle", call[t])
    BY <1>1, Zenon DEF ReaderOK
  <2>3. GuardMoves(t, "idle", call[t])
    BY <1>1, Zenon DEF GuardMoves, Guarded
  <2> QED  BY <1>1, <1>2, <1>3, <1>4, <2>1, <2>2, <2>3, ReaderMoves, Zenon
<1>5. CASE t \notin Readers
  <2>1. pc' \in [Threads -> Labels] /\ \A q \in Readers : pc'[q] = pc[q]
    BY <1>1, <1>2, <1>5, Zenon DEF Threads
  <2> QED  BY <1>1, <1>2, <1>3, <2>1, OthersMove, Zenon
<1> QED  BY <1>4, <1>5, Zenon

\* What the holder of the write lock does finds no reader at work.
LEMMA WriterMoves ==
  ASSUME FetchInv, NoReader, UNCHANGED <<fetching, pc, call, aborted>>, mCache' \in Cache,
         dirty' \subseteq Inputs, db' \subseteq Inputs, EntriesReal'
  PROVE  FetchInv'
<1>1. GuardsSound'
  BY Zenon DEF FetchInv, GuardsSound, FetchTypeOK, OneFetchPerOutpoint, Guarded, Cache
<1>2. \A r \in Readers : pc'[r] = "idle"
  BY Zenon DEF NoReader, Threads
<1>3. \A r \in Readers : ReaderOK(mCache, pc[r], call[r])'
  BY <1>2, Zenon DEF ReaderOK, Held
<1> QED  BY <1>1, <1>3, Zenon DEF FetchInv

\* What a block leaves in the cache.
LEMMA BatchWriteKeeps ==
  ASSUME FetchInv, NEW o \in Inputs, BatchWrite(o)
  PROVE  FetchInv'
<1> DEFINE e == IF o \in db \union dirty THEN "spent" ELSE "script"
<1>1. /\ NoReader /\ mCache' = [mCache EXCEPT ![o] = e] /\ dirty' = dirty \union {o}
      /\ UNCHANGED <<db, fetching, pc, call, aborted>> /\ e \in {"spent", "script"}
  BY Zenon DEF BatchWrite
<1> HIDE DEF e
<1>2. mCache \in Cache /\ dirty \subseteq Inputs /\ db \subseteq Inputs /\ EntriesReal
  BY Zenon DEF FetchInv, GuardsSound, FetchTypeOK, Cache
<1>3. /\ mCache' \in Cache /\ dirty' \subseteq Inputs /\ mCache'[o] = e /\ o \in dirty'
      /\ \A x \in Inputs : x # o => mCache'[x] = mCache[x] /\ (x \in dirty' <=> x \in dirty)
  BY <1>1, <1>2, Zenon DEF Cache, Entries
<1>4. EntriesReal'
  <2> SUFFICES ASSUME NEW x \in Inputs
               PROVE  /\ mCache'[x] \in {"bare", "script"} => x \in db' \union dirty'
                      /\ mCache'[x] = "spent" => x \in dirty'
                      /\ x \in dirty' => mCache'[x] \in {"script", "spent"}
    BY Zenon DEF EntriesReal
  <2>1. CASE x = o
    BY <1>1, <1>3, <2>1, Zenon
  <2>2. CASE x # o
    BY <1>1, <1>2, <1>3, <2>2, Zenon DEF EntriesReal
  <2> QED  BY <2>1, <2>2, Zenon
<1> QED  BY <1>1, <1>2, <1>3, <1>4, WriterMoves, Zenon

\* An entry is dropped.
LEMMA CoinsDBUncacheKeeps ==
  ASSUME FetchInv, NEW o \in Inputs, CoinsDBUncache(o)
  PROVE  FetchInv'
<1>1. /\ NoReader /\ o \notin dirty /\ mCache' = [mCache EXCEPT ![o] = "absent"]
      /\ UNCHANGED <<dirty, db, fetching, pc, call, aborted>>
  BY Zenon DEF CoinsDBUncache
<1>2. mCache \in Cache /\ dirty \subseteq Inputs /\ db \subseteq Inputs /\ EntriesReal
  BY Zenon DEF FetchInv, GuardsSound, FetchTypeOK, Cache
<1>3. mCache' \in Cache /\ mCache'[o] = "absent" /\ \A x \in Inputs : x # o => mCache'[x] = mCache[x]
  BY <1>1, <1>2, Zenon DEF Cache, Entries
<1>4. EntriesReal'
  <2> SUFFICES ASSUME NEW x \in Inputs
               PROVE  /\ mCache'[x] \in {"bare", "script"} => x \in db' \union dirty'
                      /\ mCache'[x] = "spent" => x \in dirty'
                      /\ x \in dirty' => mCache'[x] \in {"script", "spent"}
    BY Zenon DEF EntriesReal
  <2>1. CASE x = o
    BY <1>1, <1>3, <2>1, Zenon
  <2>2. CASE x # o
    BY <1>1, <1>2, <1>3, <2>2, Zenon DEF EntriesReal
  <2> QED  BY <2>1, <2>2, Zenon
<1> QED  BY <1>1, <1>2, <1>3, <1>4, WriterMoves, Zenon

\* The cache is written and emptied.
LEMMA CoinsDBFlushKeeps ==
  ASSUME FetchInv, CoinsDBFlush
  PROVE  FetchInv'
<1>1. /\ NoReader /\ db' \subseteq db \union dirty /\ mCache' = [o \in Inputs |-> "absent"] /\ dirty' = {}
      /\ UNCHANGED <<fetching, pc, call, aborted>>
  BY Zenon DEF CoinsDBFlush
<1>2. dirty \subseteq Inputs /\ db \subseteq Inputs
  BY Zenon DEF FetchInv, GuardsSound, FetchTypeOK
<1>3. mCache' \in Cache /\ \A o \in Inputs : mCache'[o] = "absent"
  BY <1>1, Zenon DEF Cache, Entries
<1>4. EntriesReal'
  BY <1>1, <1>3, Zenon DEF EntriesReal
<1> QED  BY <1>1, <1>2, <1>3, <1>4, WriterMoves, Zenon

\* Every step keeps the invariant.
LEMMA FetchNextKeeps ==
  FetchInv /\ [FetchNext]_fetchVars => FetchInv'
<1> SUFFICES ASSUME FetchInv, [FetchNext]_fetchVars PROVE FetchInv'
  OBVIOUS
<1>1. CASE UNCHANGED fetchVars
  BY <1>1, Zenon DEF fetchVars, FetchInv, GuardsSound, FetchTypeOK, OneFetchPerOutpoint, Guarded,
     EntriesReal, ReaderOK, Truth
<1>2. ASSUME NEW r \in Readers, ReaderStep(r) PROVE FetchInv'
  BY <1>2, LookFoundKeeps, LookFetchKeeps, MeasureKeeps, BudgetKeeps, FetchKeeps, StoreKeeps,
     UnguardKeeps, Zenon DEF ReaderStep
<1>3. CASE FetchStep
  BY <1>2, <1>3, CallKeeps, CacheAllKeeps, ReleaseKeeps, BatchWriteKeeps,
     CoinsDBUncacheKeeps, CoinsDBFlushKeeps, Zenon DEF FetchStep
<1> QED  BY <1>1, <1>3, Zenon DEF FetchNext

\* The cache and the readers agree in every state.
THEOREM FetchInvHolds ==
  FetchSpec => []FetchInv
<1>1. FetchInit => FetchInv
  BY InvInit, Zenon
<1>2. FetchInv /\ [FetchNext]_fetchVars => FetchInv'
  BY FetchNextKeeps, Zenon
<1> QED  BY <1>1, <1>2, PTL DEF FetchSpec

\* Concurrent loads: one reader per outpoint is behind the guard of FetchingCoins, and
\* GetCoin returns the truth, whatever the number of threads, coins and bytes.
THEOREM LoadsReadRight ==
  FetchSpec => []ReadsRight
<1>1. FetchInv => ReadsRight
  BY InvReads, Zenon
<1> QED  BY <1>1, FetchInvHolds, PTL

\* A step loads coins, or takes scripts from the cache, or writes what a block changed.
LEMMA StepLoads ==
  ASSUME FetchInv, FetchNext
  PROVE  \/ WithScript(mCache') \subseteq WithScript(mCache)
         \/ Fills(mCache, mCache')
         \/ dirty' # dirty
<1> USE DEF WithScript
<1>1. mCache' = mCache => WithScript(mCache') \subseteq WithScript(mCache)
  BY Zenon
<1>2. ASSUME NEW r \in Readers, ReaderStep(r) PROVE mCache' = mCache \/ Fills(mCache, mCache')
  <2>1. CASE Store(r)
    BY <2>1, StoreFills, Zenon
  <2>2. CASE ~Store(r)
    BY <1>2, <2>2, Zenon DEF ReaderStep, LookFound, LookFetch, Measure, Budget, Fetch, Unguard
  <2> QED  BY <2>1, <2>2, Zenon
<1>3. ASSUME NEW o \in Inputs, BatchWrite(o), dirty' = dirty
      PROVE  WithScript(mCache') \subseteq WithScript(mCache)
  <2>1. mCache' = [mCache EXCEPT ![o] = "spent"] /\ mCache \in Cache
    BY <1>3, Zenon DEF BatchWrite, FetchInv, GuardsSound, FetchTypeOK, Cache
  <2> QED  BY <2>1, Zenon DEF Cache
<1>4. ASSUME NEW o \in Inputs, CoinsDBUncache(o)
      PROVE  WithScript(mCache') \subseteq WithScript(mCache)
  <2>1. mCache' = [mCache EXCEPT ![o] = "absent"] /\ mCache \in Cache
    BY <1>4, Zenon DEF CoinsDBUncache, FetchInv, GuardsSound, FetchTypeOK, Cache
  <2> QED  BY <2>1, Zenon DEF Cache
<1>5. ASSUME CoinsDBFlush PROVE WithScript(mCache') \subseteq WithScript(mCache)
  BY <1>5, Zenon DEF CoinsDBFlush
<1> HIDE DEF WithScript
<1>6. CASE \E r \in Readers, o \in Inputs, max \in Requests : Call(r, o, max)
  BY <1>1, <1>6, Zenon DEF Call
<1>7. CASE \E t \in Threads : Release(t)
  BY <1>1, <1>7, Zenon DEF Release
<1> QED
  BY <1>1, <1>2, <1>3, <1>4, <1>5, <1>6, <1>7, CacheAllFills, Zenon DEF FetchNext, FetchStep

\* No load takes the scripts in the cache beyond the threshold, although the size it may
\* load is computed from two unprotected reads and may wrap around.
THEOREM ThresholdRespected ==
  FetchSpec => LoadsWithinThreshold
<1> DEFINE A == dirty' = dirty /\ Usage(mCache') > Usage(mCache) => Usage(mCache') <= Threshold
<1>1. ASSUME FetchInv, [FetchNext]_fetchVars PROVE [A]_fetchVars
  <2>1. CASE UNCHANGED fetchVars
    BY <2>1, Zenon
  <2>2. CASE FetchNext
    <3>1. ASSUME WithScript(mCache') \subseteq WithScript(mCache) PROVE A
      <4>1. Usage(mCache) \in Nat /\ Usage(mCache') \in Nat /\ Usage(mCache') <= Usage(mCache)
        BY <3>1, UsageCounted, Zenon
      <4> QED  BY <4>1
    <3>2. ASSUME Fills(mCache, mCache') PROVE A
      BY <3>1, <3>2, Zenon DEF Fills, WithinLimit
    <3> QED  BY <1>1, <2>2, <3>1, <3>2, StepLoads, Zenon
  <2> QED  BY <1>1, <2>1, <2>2, Zenon
<1> QED  BY <1>1, FetchInvHolds, PTL DEF FetchSpec, LoadsWithinThreshold
=============================================================================
