------------------------ MODULE BlockDownloadProofs ------------------------
(***************************************************************************)
(* Proofs about BlockDownload, for any finite set of peers, any number of  *)
(* blocks and all limits: the tracker's maps, the lists and the counters   *)
(* of the peers agree, a peer that left is nowhere, and the limits on      *)
(* blocks in transit, on parallel downloads and on peers that announce     *)
(* compact blocks hold.                                                    *)
(***************************************************************************)
EXTENDS BlockDownload, FiniteSetTheorems, NaturalsInduction, WellFoundedInduction, TLAPS

-----------------------------------------------------------------------------
(* Lists. *)

\* No member is there twice.
Once(s) == \A i, j \in DOMAIN s : s[i] = s[j] => i = j

\* A set of numbers has a least one.
LEMMA Least ==
  ASSUME NEW S \in SUBSET Nat, S # {}
  PROVE  \E m \in S : \A y \in S : m <= y
<1>1. IsWellFoundedOn(OpToRel(<, Nat), Nat)
  BY NatLessThanWellFounded, Zenon
<1>2. PICK m \in S : \A y \in S : ~(<<y, m>> \in OpToRel(<, Nat))
  BY <1>1, WFMin, Zenon
<1>3. \A y \in S : ~(y < m)
  BY <1>2, Zenon DEF OpToRel
<1> QED  BY <1>3, SMTT(30)

\* A list of different members is as long as it has members.
LEMMA OnceCounts ==
  ASSUME NEW S, NEW s \in Seq(S), Once(s)
  PROVE  IsFiniteSet(Range(s)) /\ Cardinality(Range(s)) = Len(s)
<1>1. Len(s) \in Nat /\ DOMAIN s = 1 .. Len(s) /\ s \in [1 .. Len(s) -> S]
  OBVIOUS
<1> DEFINE D == 1 .. Len(s)
           T == Range(s)
<1>2. IsFiniteSet(D) /\ Cardinality(D) = Len(s)
  <2>1. IsFiniteSet(D) /\ Cardinality(D) = IF 1 > Len(s) THEN 0 ELSE Len(s) - 1 + 1
    BY <1>1, FS_Interval, SMTT(30)
  <2> HIDE DEF D
  <2> QED  BY <1>1, <2>1, SMTT(30)
<1>3. s \in [D -> T] /\ \A x \in T : \E i \in D : s[i] = x
  <2>1. \A x : x \in T <=> \E i \in D : s[i] = x
    BY <1>1 DEF Range
  <2>2. DOMAIN s = D /\ s = [i \in D |-> s[i]]
    BY <1>1
  <2> HIDE DEF D, T
  <2> QED  BY <2>1, <2>2
<1>4. s \in Injection(D, T) /\ s \in Surjection(D, T)
  BY <1>1, <1>3, Zenon DEF Once, Injection, IsInjective, Surjection
<1>5. ExistsBijection(D, T)
  BY <1>4, Zenon DEF ExistsBijection, Bijection
<1> HIDE DEF D, T
<1>6. IsFiniteSet(T) /\ Cardinality(T) = Cardinality(D)
  BY <1>2, <1>5, FS_Bijection, Zenon
<1> QED  BY <1>2, <1>6, Zenon DEF T

\* What Append adds.
LEMMA Appended ==
  ASSUME NEW S, NEW s \in Seq(S), NEW x \in S
  PROVE  /\ Append(s, x) \in Seq(S) /\ Len(Append(s, x)) = Len(s) + 1
         /\ Range(Append(s, x)) = Range(s) \union {x}
         /\ Once(s) /\ x \notin Range(s) => Once(Append(s, x))
<1> DEFINE t == Append(s, x)
<1>1. /\ t \in Seq(S) /\ Len(t) = Len(s) + 1 /\ Len(s) \in Nat
      /\ DOMAIN s = 1 .. Len(s) /\ DOMAIN t = 1 .. Len(s) + 1
      /\ t[Len(s) + 1] = x /\ \A i \in 1 .. Len(s) : t[i] = s[i]
  OBVIOUS
<1> HIDE DEF t
<1>2. \A i : i \in DOMAIN t <=> i \in DOMAIN s \/ i = Len(s) + 1
  BY <1>1
<1> DEFINE n == Len(s) + 1
<1>3. n \notin DOMAIN s /\ t[n] = x /\ \A i \in DOMAIN s : t[i] = s[i]
  BY <1>1
<1> HIDE DEF n
<1>4. Range(t) = Range(s) \union {x}
  BY <1>2, <1>3, Zenon DEF Range, n
<1>5. ASSUME Once(s), x \notin Range(s), NEW i \in DOMAIN t, NEW j \in DOMAIN t, t[i] = t[j]
      PROVE  i = j
  <2>1. \A k \in DOMAIN s : s[k] # x
    BY <1>5, Zenon DEF Range
  <2>2. (i \in DOMAIN s \/ i = n) /\ (j \in DOMAIN s \/ j = n)
    BY <1>2, <1>5, Zenon DEF n
  <2> QED  BY <1>3, <1>5, <2>1, <2>2, Zenon DEF Once
<1> QED  BY <1>1, <1>4, <1>5, Zenon DEF t, Once

\* One unfolding of the recursion in Without.
Unfolded(f, s, erased) ==
  [i \in 0 .. Len(s) |->
    IF i = 0 THEN <<>> ELSE IF s[i] \in erased THEN f[i - 1] ELSE Append(f[i - 1], s[i])]

\* f[i] is what is left of the first i members.
Leaves(f, s, erased, n) ==
  \A i \in 0 .. n :
    f[i] = IF i = 0 THEN <<>> ELSE IF s[i] \in erased THEN f[i - 1] ELSE Append(f[i - 1], s[i])

\* The recursion in Without has a solution.
LEMMA LeavesExist ==
  ASSUME NEW S, NEW s \in Seq(S), NEW erased
  PROVE  \E f : f = Unfolded(f, s, erased)
<1>1. Len(s) \in Nat /\ \A i \in 1 .. Len(s) : s[i] \in S
  OBVIOUS
<1> DEFINE Has(n) == \E f \in [0 .. n -> Seq(S)] : Leaves(f, s, erased, n)
           F == {n \in 0 .. Len(s) : ~Has(n)}
<1>2. ASSUME F # {} PROVE FALSE
  <2>1. F \in SUBSET Nat
    BY <1>1
  <2>2. PICK n \in F : \A y \in F : n <= y
    BY <1>2, <2>1, Least, Zenon
  <2>3. n \in 0 .. Len(s) /\ ~Has(n)
    BY <2>2, Zenon
  <2>4. CASE n = 0
    <3> DEFINE f == [i \in 0 .. 0 |-> <<>>]
    <3>1. f \in [0 .. 0 -> Seq(S)] /\ Leaves(f, s, erased, 0)
      BY DEF Leaves
    <3> HIDE DEF f
    <3> QED  BY <2>3, <2>4, <3>1, Zenon
  <2>5. CASE n # 0
    <3>1. n \in 1 .. Len(s) /\ n - 1 \in 0 .. Len(s) /\ n \in Nat /\ n - 1 \in Nat /\ ~(n <= n - 1)
      BY <1>1, <2>3, <2>5
    <3> DEFINE k == n - 1
    <3>2. k \notin F
      <4> HIDE DEF F, k
      <4> QED  BY <2>2, <3>1, Zenon DEF k
    <3>3. Has(k)
      <4> HIDE DEF k
      <4> QED  BY <3>1, <3>2, Zenon DEF k
    <3>4. PICK f \in [0 .. k -> Seq(S)] : Leaves(f, s, erased, k)
      BY <3>3, Zenon
    <3> DEFINE v == IF s[n] \in erased THEN f[k] ELSE Append(f[k], s[n])
               g == [i \in 0 .. n |-> IF i = n THEN v ELSE f[i]]
    <3>5. v \in Seq(S)
      <4>1. f[k] \in Seq(S) /\ s[n] \in S
        BY <1>1, <3>1, <3>4
      <4> QED  BY <4>1
    <3> HIDE DEF v
    <3>6. g \in [0 .. n -> Seq(S)]
      BY <3>1, <3>4, <3>5
    <3>7. Leaves(g, s, erased, n)
      <4>1. ASSUME NEW i \in 0 .. n
            PROVE  g[i] = IF i = 0 THEN <<>>
                          ELSE IF s[i] \in erased THEN g[i - 1] ELSE Append(g[i - 1], s[i])
        <5>1. CASE i = n
          <6>1. g[i] = v /\ g[i - 1] = f[k] /\ i # 0
            BY <3>1, <5>1, <2>5
          <6> QED  BY <5>1, <6>1, Zenon DEF v
        <5>2. CASE i # n
          <6>1. i \in 0 .. k /\ g[i] = f[i] /\ (i # 0 => g[i - 1] = f[i - 1])
            BY <3>1, <5>2, <4>1
          <6> QED  BY <3>4, <6>1, Zenon DEF Leaves
        <5> QED  BY <5>1, <5>2, Zenon
      <4> HIDE DEF g
      <4> QED  BY <4>1, Zenon DEF Leaves
    <3> HIDE DEF g
    <3> QED  BY <2>3, <3>6, <3>7, Zenon
  <2> QED  BY <2>4, <2>5, Zenon
<1>3. PICK f \in [0 .. Len(s) -> Seq(S)] : Leaves(f, s, erased, Len(s))
  <2>1. Len(s) \in 0 .. Len(s)
    BY <1>1
  <2> HIDE DEF Has
  <2>2. Has(Len(s))
    BY <1>2, <2>1, Zenon
  <2> QED  BY <2>2, Zenon DEF Has
<1>4. f = Unfolded(f, s, erased)
  BY <1>3, Zenon DEF Leaves, Unfolded
<1> QED  BY <1>4, Zenon

\* What Without leaves: the other members, once if they were there once.
LEMMA WithoutLeaves ==
  ASSUME NEW S, NEW s \in Seq(S), NEW erased
  PROVE  /\ Without(s, erased) \in Seq(S)
         /\ Range(Without(s, erased)) = Range(s) \ erased
         /\ Once(s) => Once(Without(s, erased))
<1> DEFINE left == CHOOSE f : f = Unfolded(f, s, erased)
<1>1. Len(s) \in Nat /\ DOMAIN s = 1 .. Len(s) /\ \A i \in 1 .. Len(s) : s[i] \in S
  OBVIOUS
<1>2. left = Unfolded(left, s, erased)
  BY LeavesExist, Zenon
<1>3. Without(s, erased) = left[Len(s)]
  BY Zenon DEF Without, Unfolded
<1> HIDE DEF left
<1>4. ASSUME NEW i \in 0 .. Len(s)
      PROVE  left[i] = IF i = 0 THEN <<>>
                       ELSE IF s[i] \in erased THEN left[i - 1] ELSE Append(left[i - 1], s[i])
  BY <1>2, Zenon DEF Unfolded
<1> DEFINE First(i) == {s[j] : j \in 1 .. i}
           Good(i) == /\ left[i] \in Seq(S)
                      /\ Range(left[i]) = First(i) \ erased
                      /\ Once(s) => Once(left[i])
           F == {i \in 0 .. Len(s) : ~Good(i)}
<1>5. ASSUME F # {} PROVE FALSE
  <2>1. F \in SUBSET Nat
    BY <1>1
  <2>2. PICK n \in F : \A y \in F : n <= y
    BY <1>5, <2>1, Least, Zenon
  <2>3. n \in 0 .. Len(s) /\ ~Good(n)
    BY <2>2, Zenon
  <2>4. CASE n = 0
    <3>1. left[n] = <<>>
      BY <1>4, <2>3, <2>4, Zenon
    <3>2. First(n) = {}
      BY <2>4
    <3>3. <<>> \in Seq(S) /\ Range(<<>>) = {} /\ Once(<<>>)
      BY DEF Range, Once
    <3> QED  BY <2>3, <3>1, <3>2, <3>3, Zenon
  <2>5. CASE n # 0
    <3>1. n \in 1 .. Len(s) /\ n - 1 \in 0 .. Len(s) /\ n \in Nat /\ ~(n <= n - 1)
      BY <1>1, <2>3, <2>5
    <3> DEFINE k == n - 1
    <3>2. k \in 0 .. Len(s) /\ k \notin F
      <4> HIDE DEF F, k
      <4> QED  BY <2>2, <3>1, Zenon DEF k
    <3>3. left[n] = IF s[n] \in erased THEN left[k] ELSE Append(left[k], s[n])
      BY <1>4, <2>3, <2>5, Zenon
    <3>4. First(n) = First(k) \union {s[n]}
      <4>1. \A j : j \in 1 .. n <=> j \in 1 .. k \/ j = n
        BY <3>1
      <4> QED  BY <4>1, Zenon
    <3>5. s[n] \in S
      BY <1>1, <3>1
    <3>6. Once(s) => s[n] \notin First(k)
      <4> SUFFICES ASSUME Once(s), NEW j \in 1 .. k, s[j] = s[n] PROVE FALSE
        BY Zenon
      <4>1. j \in DOMAIN s /\ n \in DOMAIN s /\ j # n
        BY <1>1, <3>1
      <4> QED  BY <4>1, Zenon DEF Once
    <3> HIDE DEF k, First
    <3>7. Good(k)
      BY <3>2, Zenon
    <3>8. CASE s[n] \in erased
      BY <2>3, <3>3, <3>4, <3>7, <3>8, Zenon
    <3>9. CASE s[n] \notin erased
      <4>1. /\ Append(left[k], s[n]) \in Seq(S)
            /\ Range(Append(left[k], s[n])) = Range(left[k]) \union {s[n]}
            /\ Once(left[k]) /\ s[n] \notin Range(left[k]) => Once(Append(left[k], s[n]))
        <5> DEFINE a == left[k]
                   x == s[n]
        <5>1. a \in Seq(S) /\ x \in S
          BY <3>5, <3>7, Zenon
        <5> HIDE DEF a, x
        <5>2. /\ Append(a, x) \in Seq(S) /\ Range(Append(a, x)) = Range(a) \union {x}
              /\ Once(a) /\ x \notin Range(a) => Once(Append(a, x))
          BY <5>1, Appended, SMTT(30)
        <5> QED  BY <5>2, Zenon DEF a, x
      <4>2. Range(left[n]) = First(n) \ erased
        BY <3>3, <3>4, <3>7, <3>9, <4>1, Zenon
      <4>3. Once(s) => Once(left[n])
        BY <3>3, <3>6, <3>7, <3>9, <4>1, Zenon
      <4> QED  BY <2>3, <3>3, <3>9, <4>1, <4>2, <4>3, Zenon
    <3> QED  BY <3>8, <3>9, Zenon
  <2> QED  BY <2>4, <2>5, Zenon
<1>6. Range(s) = First(Len(s)) /\ Len(s) \in 0 .. Len(s)
  BY <1>1 DEF Range
<1> HIDE DEF Good
<1>7. Good(Len(s))
  BY <1>5, <1>6, Zenon
<1> QED  BY <1>3, <1>6, <1>7, Zenon DEF Good

-----------------------------------------------------------------------------
(* The inductive invariant. *)

Statuses == {"new", "up", "closing", "leaving", "gone"}
InFlightBlock == [block : Blocks, node : Peers]
BlockPunish == [block : Blocks, node : Peers, punish : BOOLEAN]

FlightTypes ==
  /\ status \in [Peers -> Statuses]
  /\ vBlocksInFlight \in [Peers -> Seq(Blocks)]
  /\ nBlocksInFlight \in [Peers -> Int] /\ nValidHeaders \in [Peers -> Int]
  /\ partialBlock \in [Peers -> SUBSET Blocks]
  /\ mMapBlocksInFlight \subseteq InFlightBlock

\* The blocks that the tracker has in flight from a peer.
Tracked(n) == {b \in Blocks : Source(b, n) \in mMapBlocksInFlight}

\* A peer's list and its counters agree with the blocks tracked for it; no
\* block is queued twice, so the list is as long as it has members.
PeerOK(list, tracked, inFlight, validHeaders, partial) ==
  /\ Once(list) /\ Range(list) = tracked
  /\ inFlight = Len(list) /\ validHeaders = Len(list) /\ Len(list) <= MaxInTransit
  /\ partial \subseteq tracked

PeerRight(n) ==
  PeerOK(vBlocksInFlight[n], Tracked(n), nBlocksInFlight[n], nValidHeaders[n], partialBlock[n])

Downloading == {n \in Peers : vBlocksInFlight[n] # <<>>}

Flight ==
  /\ FlightTypes
  /\ \A n \in Peers : PeerRight(n)
  /\ mPeersWithValidatedDownloadsCount = Cardinality(Downloading)
  /\ \A n \in Peers : Tracked(n) # {} => HasState(n)
  /\ ParallelFetchBounded

SendersPresent ==
  /\ mMapBlockSender \in Seq(BlockPunish)
  /\ \A i \in DOMAIN mMapBlockSender : HasState(mMapBlockSender[i].node)

\* No peer is twice on the list, so the list does not grow when one moves to its end.
AnnouncersListed ==
  mNodesAnnouncing \in Seq(Peers) /\ Once(mNodesAnnouncing) /\ AnnouncingBounded

IInv == Flight /\ SendersPresent /\ AnnouncersListed

-----------------------------------------------------------------------------
(* One peer. *)

\* A list is empty if and only if it has length 0.
LEMMA EmptyList ==
  ASSUME NEW S, NEW s \in Seq(S)
  PROVE  Len(s) \in Nat /\ (s = <<>> <=> Len(s) = 0) /\ (s = <<>> <=> Range(s) = {})
<1>1. Len(s) \in Nat /\ (s = <<>> <=> Len(s) = 0) /\ DOMAIN s = 1 .. Len(s)
  OBVIOUS
<1>2. DOMAIN s = {} <=> Len(s) = 0
  <2>1. Len(s) # 0 => 1 \in DOMAIN s
    BY <1>1
  <2>2. Len(s) = 0 => \A i : i \notin DOMAIN s
    BY <1>1
  <2> QED  BY <2>1, <2>2, Zenon
<1>3. Range(s) = {} <=> DOMAIN s = {}
  BY Zenon DEF Range
<1> QED  BY <1>1, <1>2, <1>3, Zenon

\* A peer that is asked for one more block.
LEMMA PeerAdds ==
  ASSUME NEW list \in Seq(Blocks), NEW T, NEW k, NEW h, NEW part, PeerOK(list, T, k, h, part),
         NEW b \in Blocks, b \notin T, k < MaxInTransit, NEW p, p \subseteq part \union {b}
  PROVE  /\ Append(list, b) \in Seq(Blocks) /\ Append(list, b) # <<>>
         /\ PeerOK(Append(list, b), T \union {b}, k + 1, h + 1, p)
<1> DEFINE l == Append(list, b)
<1>1. /\ Once(list) /\ Range(list) = T /\ k = Len(list) /\ h = Len(list) /\ part \subseteq T
  BY Zenon DEF PeerOK
<1>2. /\ l \in Seq(Blocks) /\ Len(l) = Len(list) + 1
      /\ Range(l) = Range(list) \union {b}
      /\ Once(list) /\ b \notin Range(list) => Once(l)
  BY Appended, SMTT(30)
<1> HIDE DEF l
<1>3. Len(list) \in Nat /\ MaxInTransit \in Nat
  BY DownloadConstants
<1>4. l # <<>>
  BY <1>2, <1>3, EmptyList
<1>5. Len(l) <= MaxInTransit /\ k + 1 = Len(l) /\ h + 1 = Len(l)
  BY <1>1, <1>2, <1>3
<1>6. Once(l) /\ Range(l) = T \union {b} /\ p \subseteq T \union {b}
  BY <1>1, <1>2, Zenon
<1> QED  BY <1>2, <1>4, <1>5, <1>6, Zenon DEF PeerOK, l

\* A peer of which the blocks in a set are no longer expected.
LEMMA PeerRemoves ==
  ASSUME NEW list \in Seq(Blocks), NEW T, NEW k, NEW h, NEW part, PeerOK(list, T, k, h, part),
         NEW found \in SUBSET T
  PROVE  /\ Without(list, found) \in Seq(Blocks)
         /\ Cardinality(found) \in Nat /\ h \in Nat
         /\ list = <<>> => h = 0
         /\ list # <<>> => h > 0
         /\ Cardinality(found) = 0 <=> found = {}
         /\ Without(list, found) = <<>> <=> h = Cardinality(found)
         /\ PeerOK(Without(list, found), T \ found, k - Cardinality(found), h - Cardinality(found),
                   part \ found)
<1> DEFINE l == Without(list, found)
           c == Cardinality(found)
<1>1. Once(list) /\ Range(list) = T /\ k = Len(list) /\ h = Len(list) /\ part \subseteq T
      /\ Len(list) <= MaxInTransit
  BY Zenon DEF PeerOK
<1>2. l \in Seq(Blocks) /\ Range(l) = T \ found /\ Once(l)
  BY <1>1, WithoutLeaves, Zenon
<1>3. IsFiniteSet(T) /\ Cardinality(T) = Len(list) /\ Cardinality(T \ found) = Len(l)
  BY <1>1, <1>2, OnceCounts, Zenon
<1>4. Len(list) \in Nat /\ Len(l) \in Nat /\ (list = <<>> <=> Len(list) = 0) /\ (l = <<>> <=> Len(l) = 0)
  <2> HIDE DEF l
  <2> QED  BY <1>2, EmptyList, Zenon
<1>5. IsFiniteSet(found) /\ c \in Nat /\ (c = 0 <=> found = {})
  BY <1>3, FS_Subset, FS_CardinalityType, FS_EmptySet, Zenon
<1>6. Cardinality(T \ found) = Cardinality(T) - c
  <2>1. T \intersect found = found
    BY Zenon
  <2>2. Cardinality(T \ found) = Cardinality(T) - Cardinality(T \intersect found)
    BY <1>3, FS_Difference, Zenon
  <2> QED  BY <2>1, <2>2, Zenon
<1> HIDE DEF l, c
<1>7. Len(l) = Len(list) - c
  BY <1>3, <1>6
<1>8. /\ k - c = Len(l) /\ h - c = Len(l) /\ Len(l) <= MaxInTransit
      /\ list = <<>> => h = 0
      /\ list # <<>> => h > 0
      /\ l = <<>> <=> h = c
  <2>1. MaxInTransit \in Nat
    BY DownloadConstants
  <2> QED  BY <1>1, <1>4, <1>5, <1>7, <2>1
<1>9. PeerOK(l, T \ found, k - c, h - c, part \ found)
  <2>1. part \ found \subseteq T \ found
    BY <1>1, Zenon
  <2> QED  BY <1>2, <1>8, <2>1, Zenon DEF PeerOK
<1> QED  BY <1>1, <1>2, <1>4, <1>5, <1>8, <1>9, Zenon DEF l, c

-----------------------------------------------------------------------------
(* The tracker. *)

\* The peers a block is requested from that are still in vNodes.
Live(b) == {m \in Sources(b) : status[m] # "leaving"}

\* They are finitely many.
LEMMA LiveFinite ==
  ASSUME NEW b
  PROVE  IsFiniteSet(Live(b)) /\ Cardinality(Live(b)) \in Nat
<1>1. Live(b) \in SUBSET Peers /\ IsFiniteSet(Peers)
  BY DownloadConstants, Zenon DEF Live, Sources
<1> QED  BY <1>1, FS_Subset, FS_CardinalityType, Zenon

\* The limit on parallel downloads is not touched by requests that end.
LEMMA ParallelShrinks ==
  ASSUME ParallelFetchBounded, \A b \in Blocks : Live(b)' \subseteq Live(b)
  PROVE  ParallelFetchBounded'
<1> SUFFICES ASSUME NEW b \in Blocks PROVE Cardinality(Live(b)') <= MaxParallelFetch
  BY Zenon DEF ParallelFetchBounded, Live
<1>1. Cardinality(Live(b)) <= MaxParallelFetch
  BY Zenon DEF ParallelFetchBounded, Live
<1> DEFINE A == Live(b)
           B == Live(b)'
<1>2. IsFiniteSet(A) /\ Cardinality(A) \in Nat /\ B \in SUBSET A
  BY LiveFinite, Zenon
<1> HIDE DEF A, B
<1>3. IsFiniteSet(B) /\ Cardinality(B) <= Cardinality(A)
  BY <1>2, FS_Subset, Zenon
<1>4. Cardinality(B) \in Nat
  BY <1>3, FS_CardinalityType, Zenon
<1>5. MaxParallelFetch \in Nat
  BY DownloadConstants
<1>6. Cardinality(A) <= MaxParallelFetch
  BY <1>1, Zenon DEF A
<1>7. Cardinality(B) <= MaxParallelFetch
  BY <1>2, <1>3, <1>4, <1>5, <1>6
<1> QED  BY <1>7, Zenon DEF B

\* What a step may do to the status of a peer that has blocks in flight.
Stays(m) == HasState(m) => HasState(m)' /\ (status'[m] # "leaving" => status[m] # "leaving")

\* A step that only moves peers on.
LEMMA StatusMoves ==
  ASSUME Flight, status' \in [Peers -> Statuses], \A m \in Peers : Stays(m),
         UNCHANGED <<vBlocksInFlight, nBlocksInFlight, nValidHeaders, partialBlock,
                     mMapBlocksInFlight, mPeersWithValidatedDownloadsCount>>
  PROVE  Flight'
<1>1. FlightTypes'
  BY Zenon DEF Flight, FlightTypes
<1>2. \A n \in Peers : Tracked(n)' = Tracked(n)
  BY Zenon DEF Tracked
<1>3. \A n \in Peers : PeerRight(n)'
  BY <1>2, Zenon DEF Flight, PeerRight
<1>4. Downloading' = Downloading
  BY Zenon DEF Downloading
<1>5. \A n \in Peers : Tracked(n)' # {} => HasState(n)'
  BY <1>2, Zenon DEF Flight, Stays
<1>6. ASSUME NEW b \in Blocks PROVE Live(b)' \subseteq Live(b)
  <2> SUFFICES ASSUME NEW m \in Live(b)' PROVE m \in Live(b)
    BY Zenon
  <2>1. m \in Peers /\ m \in Sources(b) /\ status'[m] # "leaving"
    BY Zenon DEF Live, Sources
  <2>2. b \in Tracked(m)
    BY <2>1, Zenon DEF Sources, Tracked
  <2>3. HasState(m)
    BY <2>1, <2>2, Zenon DEF Flight
  <2> QED  BY <2>1, <2>3, Zenon DEF Stays, Live
<1>7. ParallelFetchBounded'
  BY <1>6, ParallelShrinks, Zenon DEF Flight
<1> QED  BY <1>1, <1>3, <1>4, <1>5, <1>7, Zenon DEF Flight

\* How the number of peers with downloads moves with one peer.
LEMMA CountMoves ==
  ASSUME NEW S \in SUBSET Peers, NEW n \in Peers
  PROVE  /\ Cardinality(S) \in Int
         /\ Cardinality(S \union {n}) = Cardinality(S) + (IF n \in S THEN 0 ELSE 1)
         /\ Cardinality(S \ {n}) = Cardinality(S) - (IF n \in S THEN 1 ELSE 0)
<1>1. IsFiniteSet(S) /\ Cardinality(S) \in Nat
  BY DownloadConstants, FS_Subset, FS_CardinalityType, Zenon
<1>2. Cardinality(S \union {n}) = IF n \in S THEN Cardinality(S) ELSE Cardinality(S) + 1
  BY <1>1, FS_AddElement, Zenon
<1>3. Cardinality(S \ {n}) = IF n \in S THEN Cardinality(S) - 1 ELSE Cardinality(S)
  BY <1>1, FS_RemoveElement, Zenon
<1> QED  BY <1>1, <1>2, <1>3

\* The change of mPeersWithValidatedDownloadsCount when a list a becomes b.
Change(a, b) == (IF b # <<>> THEN 1 ELSE 0) - (IF a # <<>> THEN 1 ELSE 0)

\* A step that gives one peer n a new list with new counters.
LEMMA FlightMoves ==
  ASSUME Flight, NEW n \in Peers, NEW list \in Seq(Blocks), NEW T \in SUBSET Blocks,
         NEW k \in Int, NEW h \in Int, NEW part \in SUBSET Blocks, PeerOK(list, T, k, h, part),
         vBlocksInFlight' = [vBlocksInFlight EXCEPT ![n] = list],
         nBlocksInFlight' = [nBlocksInFlight EXCEPT ![n] = k],
         nValidHeaders' = [nValidHeaders EXCEPT ![n] = h],
         partialBlock' = [partialBlock EXCEPT ![n] = part],
         mMapBlocksInFlight' \subseteq InFlightBlock,
         \A m \in Peers : Tracked(m)' = IF m = n THEN T ELSE Tracked(m),
         mPeersWithValidatedDownloadsCount' =
           mPeersWithValidatedDownloadsCount + Change(vBlocksInFlight[n], list),
         status' \in [Peers -> Statuses], \A m \in Peers \ {n} : Stays(m), T # {} => HasState(n)',
         ParallelFetchBounded'
  PROVE  Flight'
<1>1. FlightTypes'
  BY Zenon DEF Flight, FlightTypes
<1>2. /\ vBlocksInFlight'[n] = list /\ nBlocksInFlight'[n] = k /\ nValidHeaders'[n] = h
      /\ partialBlock'[n] = part
      /\ \A m \in Peers \ {n} :
           /\ vBlocksInFlight'[m] = vBlocksInFlight[m] /\ nBlocksInFlight'[m] = nBlocksInFlight[m]
           /\ nValidHeaders'[m] = nValidHeaders[m] /\ partialBlock'[m] = partialBlock[m]
  BY Zenon DEF Flight, FlightTypes
<1>3. ASSUME NEW m \in Peers PROVE PeerRight(m)'
  <2>1. CASE m = n
    <3>1. PeerOK(vBlocksInFlight'[m], Tracked(m)', nBlocksInFlight'[m], nValidHeaders'[m], partialBlock'[m])
      BY <1>2, <2>1, Zenon
    <3> QED  BY <3>1, Zenon DEF PeerRight, PeerOK
  <2>2. CASE m # n
    <3>1. PeerOK(vBlocksInFlight'[m], Tracked(m)', nBlocksInFlight'[m], nValidHeaders'[m], partialBlock'[m])
      BY <1>2, <2>2, Zenon DEF Flight, PeerRight
    <3> QED  BY <3>1, Zenon DEF PeerRight, PeerOK
  <2> QED  BY <2>1, <2>2, Zenon
<1>4. mPeersWithValidatedDownloadsCount' = Cardinality(Downloading')
  <2> DEFINE S == Downloading
             c == mPeersWithValidatedDownloadsCount
             a == vBlocksInFlight[n]
  <2>1. S \in SUBSET Peers /\ c = Cardinality(S) /\ (n \in S <=> a # <<>>)
    BY Zenon DEF Downloading, Flight
  <2>2. Downloading' = IF list # <<>> THEN S \union {n} ELSE S \ {n}
    <3>1. \A m \in Peers : m \in Downloading' <=> IF m = n THEN list # <<>> ELSE m \in S
      BY <1>2, Zenon DEF Downloading
    <3>2. Downloading' \subseteq Peers
      BY Zenon DEF Downloading
    <3> HIDE DEF S
    <3> QED  BY <2>1, <3>1, <3>2, Zenon
  <2>3. c' = c + Change(a, list)
    BY Zenon
  <2> HIDE DEF S, c, a
  <2>4. /\ Cardinality(S) \in Int
        /\ Cardinality(S \union {n}) = Cardinality(S) + (IF n \in S THEN 0 ELSE 1)
        /\ Cardinality(S \ {n}) = Cardinality(S) - (IF n \in S THEN 1 ELSE 0)
    BY <2>1, CountMoves, Zenon
  <2>5. c' = Cardinality(Downloading')
    <3>1. CASE list # <<>>
      BY <2>1, <2>2, <2>3, <2>4, <3>1 DEF Change
    <3>2. CASE list = <<>>
      BY <2>1, <2>2, <2>3, <2>4, <3>2 DEF Change
    <3> QED  BY <3>1, <3>2, Zenon
  <2> QED  BY <2>5, Zenon DEF c
<1>5. ASSUME NEW m \in Peers, Tracked(m)' # {} PROVE HasState(m)'
  BY <1>5, Zenon DEF Flight, Stays
<1> QED  BY <1>1, <1>3, <1>4, <1>5, Zenon DEF Flight

\* What holds of a peer's list before a step.
LEMMA PeerNow ==
  ASSUME Flight, NEW n \in Peers
  PROVE  /\ vBlocksInFlight[n] \in Seq(Blocks) /\ partialBlock[n] \subseteq Blocks
         /\ nBlocksInFlight[n] \in Nat /\ nValidHeaders[n] = nBlocksInFlight[n]
         /\ vBlocksInFlight[n] = <<>> <=> nValidHeaders[n] = 0
         /\ Tracked(n) \in SUBSET Blocks
         /\ PeerOK(vBlocksInFlight[n], Tracked(n), nBlocksInFlight[n], nValidHeaders[n], partialBlock[n])
         /\ mPeersWithValidatedDownloadsCount \in Int
<1>1. vBlocksInFlight[n] \in Seq(Blocks) /\ partialBlock[n] \subseteq Blocks /\ Tracked(n) \in SUBSET Blocks
  BY Zenon DEF Flight, FlightTypes, Tracked
<1>2. PeerOK(vBlocksInFlight[n], Tracked(n), nBlocksInFlight[n], nValidHeaders[n], partialBlock[n])
  BY Zenon DEF Flight, PeerRight
<1>3. nBlocksInFlight[n] = Len(vBlocksInFlight[n]) /\ nValidHeaders[n] = Len(vBlocksInFlight[n])
  BY <1>2, Zenon DEF PeerOK
<1>4. Len(vBlocksInFlight[n]) \in Nat /\ (vBlocksInFlight[n] = <<>> <=> Len(vBlocksInFlight[n]) = 0)
  BY <1>1, EmptyList, Zenon
<1>5. mPeersWithValidatedDownloadsCount \in Int
  <2>1. Downloading \in SUBSET Peers
    BY Zenon DEF Downloading
  <2> QED  BY <2>1, CountMoves, Zenon DEF Flight
<1> QED  BY <1>1, <1>2, <1>3, <1>4, <1>5, Zenon

\* MarkBlockAsInFlight, where the callers ask for it.
LEMMA Adds ==
  ASSUME Flight, NEW n \in Peers, NEW b \in Blocks, status[n] = "up", status' = status,
         ~FromNode(b, n) =>
           nBlocksInFlight[n] < MaxInTransit /\ Cardinality(Live(b)) < MaxParallelFetch,
         NEW p, p \subseteq partialBlock[n] \union {b}, MarkBlockAsInFlight(b, n),
         partialBlock' = [partialBlock EXCEPT ![n] = p]
  PROVE  Flight'
<1>1. status' \in [Peers -> Statuses] /\ (\A m \in Peers \ {n} : Stays(m)) /\ HasState(n)'
  BY Zenon DEF Flight, FlightTypes, Stays, HasState
<1>2. p \subseteq Blocks
  BY PeerNow, Zenon
<1> DEFINE list == vBlocksInFlight[n]
           k == nBlocksInFlight[n]
           h == nValidHeaders[n]
           part == partialBlock[n]
           T == Tracked(n)
<1>3. /\ list \in Seq(Blocks) /\ k \in Nat /\ h = k /\ T \in SUBSET Blocks
      /\ list = <<>> <=> h = 0
      /\ PeerOK(list, T, k, h, part)
      /\ mPeersWithValidatedDownloadsCount \in Int
  BY PeerNow, Zenon
<1>4. b \in T <=> FromNode(b, n)
  BY Zenon DEF Tracked, FromNode
<1>5. CASE FromNode(b, n)
  <2>1. /\ vBlocksInFlight' = [vBlocksInFlight EXCEPT ![n] = list]
        /\ nBlocksInFlight' = [nBlocksInFlight EXCEPT ![n] = k]
        /\ nValidHeaders' = [nValidHeaders EXCEPT ![n] = h]
        /\ UNCHANGED <<mMapBlocksInFlight, mPeersWithValidatedDownloadsCount>>
    BY <1>5, Zenon DEF MarkBlockAsInFlight, Flight, FlightTypes
  <2>2. mMapBlocksInFlight' \subseteq InFlightBlock
    BY <2>1, Zenon DEF Flight, FlightTypes
  <2>3. \A m \in Peers : Tracked(m)' = IF m = n THEN T ELSE Tracked(m)
    BY <2>1, Zenon DEF Tracked
  <2>4. mPeersWithValidatedDownloadsCount' = mPeersWithValidatedDownloadsCount + Change(vBlocksInFlight[n], list)
    BY <1>3, <2>1 DEF Change
  <2>5. ParallelFetchBounded'
    <3>1. \A c \in Blocks : Live(c)' \subseteq Live(c)
      BY <2>1, Zenon DEF Live, Sources
    <3> QED  BY <3>1, ParallelShrinks, Zenon DEF Flight
  <2>6. PeerOK(list, T, k, h, p)
    BY <1>3, <1>4, <1>5, Zenon DEF PeerOK
  <2>7. k \in Int /\ h \in Int
    BY <1>3
  <2> HIDE DEF list, k, h, part, T
  <2> QED  BY <1>1, <1>2, <1>3, <2>1, <2>2, <2>3, <2>4, <2>5, <2>6, <2>7, FlightMoves, Zenon
<1>6. CASE ~FromNode(b, n)
  <2> DEFINE new == Append(list, b)
  <2>1. /\ vBlocksInFlight' = [vBlocksInFlight EXCEPT ![n] = new]
        /\ nBlocksInFlight' = [nBlocksInFlight EXCEPT ![n] = k + 1]
        /\ nValidHeaders' = [nValidHeaders EXCEPT ![n] = h + 1]
        /\ mPeersWithValidatedDownloadsCount' = mPeersWithValidatedDownloadsCount + (IF h = 0 THEN 1 ELSE 0)
        /\ mMapBlocksInFlight' = mMapBlocksInFlight \union {Source(b, n)}
    BY <1>6, Zenon DEF MarkBlockAsInFlight
  <2>2. mMapBlocksInFlight' \subseteq InFlightBlock
    <3>1. Source(b, n) \in InFlightBlock
      BY DEF Source, InFlightBlock
    <3> QED  BY <2>1, <3>1, Zenon DEF Flight, FlightTypes
  <2>3. \A m \in Peers : Tracked(m)' = IF m = n THEN T \union {b} ELSE Tracked(m)
    <3>1. \A m \in Peers, c \in Blocks :
            Source(c, m) \in mMapBlocksInFlight' <=> Source(c, m) \in mMapBlocksInFlight \/ (c = b /\ m = n)
      <4> SUFFICES ASSUME NEW m \in Peers, NEW c \in Blocks
                   PROVE  Source(c, m) \in mMapBlocksInFlight'
                            <=> Source(c, m) \in mMapBlocksInFlight \/ (c = b /\ m = n)
        BY Zenon
      <4>1. Source(c, m) = Source(b, n) <=> c = b /\ m = n
        BY DEF Source
      <4> QED  BY <2>1, <4>1, Zenon
    <3> QED  BY <3>1, Zenon DEF Tracked
  <2>4. /\ new \in Seq(Blocks) /\ new # <<>>
        /\ PeerOK(new, T \union {b}, k + 1, h + 1, p)
    <3> HIDE DEF list, k, h, part, T
    <3>1. k < MaxInTransit /\ p \subseteq part \union {b} /\ b \notin T
      BY <1>4, <1>6, Zenon DEF k, part
    <3> QED  BY <1>3, <3>1, PeerAdds, Zenon
  <2>5. mPeersWithValidatedDownloadsCount' = mPeersWithValidatedDownloadsCount + Change(vBlocksInFlight[n], new)
    <3> HIDE DEF new, h, k
    <3>1. CASE h = 0
      BY <1>3, <2>1, <2>4, <3>1 DEF Change
    <3>2. CASE h # 0
      BY <1>3, <2>1, <2>4, <3>2 DEF Change
    <3> QED  BY <3>1, <3>2, Zenon
  <2>6. ParallelFetchBounded'
    <3> SUFFICES ASSUME NEW c \in Blocks PROVE Cardinality(Live(c)') <= MaxParallelFetch
      BY Zenon DEF ParallelFetchBounded, Live
    <3>1. \A m \in Peers : m \in Sources(c)' <=> m \in Sources(c) \/ (c = b /\ m = n)
      <4> SUFFICES ASSUME NEW m \in Peers
                   PROVE  m \in Sources(c)' <=> m \in Sources(c) \/ (c = b /\ m = n)
        BY Zenon
      <4>1. Source(c, m) = Source(b, n) <=> c = b /\ m = n
        BY DEF Source
      <4> QED  BY <2>1, <4>1, Zenon DEF Sources
    <3>2. CASE c # b
      <4>1. Live(c)' = Live(c)
        BY <3>1, <3>2, Zenon DEF Live, Sources
      <4> QED  BY <4>1, Zenon DEF Flight, ParallelFetchBounded, Live
    <3>3. CASE c = b
      <4>1. Live(c)' = Live(b) \union {n}
        <5>1. status'[n] # "leaving"
          BY Zenon
        <5> QED  BY <3>1, <3>3, <5>1, Zenon DEF Live, Sources
      <4>2. Live(b) \in SUBSET Peers
        BY Zenon DEF Live, Sources
      <4>3. /\ Cardinality(Live(b)) \in Int
            /\ Cardinality(Live(b) \union {n}) = Cardinality(Live(b)) + (IF n \in Live(b) THEN 0 ELSE 1)
        BY <4>2, CountMoves, Zenon
      <4>4. Cardinality(Live(b)) < MaxParallelFetch /\ MaxParallelFetch \in Int
        BY <1>6, DownloadConstants
      <4> QED  BY <4>1, <4>3, <4>4
    <3> QED  BY <3>2, <3>3, Zenon
  <2>7. k + 1 \in Int /\ h + 1 \in Int /\ T \union {b} \in SUBSET Blocks
    BY <1>3
  <2> DEFINE U == T \union {b}
             k1 == k + 1
             h1 == h + 1
  <2> HIDE DEF list, part, T, new, U, k1, h1
  <2> QED  BY <1>1, <1>2, <1>3, <2>1, <2>2, <2>3, <2>4, <2>5, <2>6, <2>7, FlightMoves, Zenon DEF U, k1, h1
<1> QED  BY <1>5, <1>6, Zenon

\* Requests that end: the tracker and peer n forget the blocks of a set.
LEMMA Forgets ==
  ASSUME Flight, NEW n \in Peers, NEW found \in SUBSET Tracked(n), NEW list \in Seq(Blocks),
         NEW k \in Int, NEW h \in Int, NEW part \in SUBSET Blocks,
         PeerOK(list, Tracked(n) \ found, k, h, part),
         vBlocksInFlight' = [vBlocksInFlight EXCEPT ![n] = list],
         nBlocksInFlight' = [nBlocksInFlight EXCEPT ![n] = k],
         nValidHeaders' = [nValidHeaders EXCEPT ![n] = h],
         partialBlock' = [partialBlock EXCEPT ![n] = part],
         mMapBlocksInFlight' = mMapBlocksInFlight \ {Source(b, n) : b \in found},
         mPeersWithValidatedDownloadsCount' =
           mPeersWithValidatedDownloadsCount + Change(vBlocksInFlight[n], list),
         status' \in [Peers -> Statuses], \A m \in Peers \ {n} : Stays(m),
         Stays(n) \/ found = Tracked(n)
  PROVE  Flight'
<1>1. mMapBlocksInFlight' \subseteq InFlightBlock
  BY Zenon DEF Flight, FlightTypes
<1>2. ASSUME NEW m \in Peers, NEW b \in Blocks
      PROVE  b \in Tracked(m)' <=> b \in Tracked(m) /\ ~(m = n /\ b \in found)
  <2>1. \A c \in found : Source(b, m) = Source(c, n) <=> b = c /\ m = n
    BY DEF Source
  <2> QED  BY <2>1, Zenon DEF Tracked
<1> DEFINE T == Tracked(n) \ found
<1>3. T \in SUBSET Blocks
  BY Zenon DEF Tracked
<1>4. \A m \in Peers : Tracked(m)' = IF m = n THEN T ELSE Tracked(m)
  <2>1. \A m \in Peers : Tracked(m)' \subseteq Blocks /\ Tracked(m) \subseteq Blocks
    BY Zenon DEF Tracked
  <2> QED  BY <1>2, <2>1, Zenon
<1>5. T # {} => Stays(n) /\ HasState(n) /\ HasState(n)'
  BY Zenon DEF Flight, Stays
<1>6. ASSUME NEW b \in Blocks PROVE Live(b)' \subseteq Live(b)
  <2> SUFFICES ASSUME NEW m \in Live(b)' PROVE m \in Live(b)
    BY Zenon
  <2>1. m \in Peers /\ b \in Tracked(m)' /\ status'[m] # "leaving"
    BY Zenon DEF Live, Sources, Tracked
  <2>2. b \in Tracked(m) /\ HasState(m)
    BY <1>2, <2>1, Zenon DEF Flight
  <2>3. Stays(m)
    BY <1>4, <1>5, <2>1, Zenon
  <2> QED  BY <2>1, <2>2, <2>3, Zenon DEF Stays, Live, Sources, Tracked
<1>7. ParallelFetchBounded'
  BY <1>6, ParallelShrinks, Zenon DEF Flight
<1> HIDE DEF T
<1>8. PeerOK(list, T, k, h, part)
  BY Zenon DEF T
<1> QED  BY <1>1, <1>3, <1>4, <1>5, <1>7, <1>8, FlightMoves, Zenon

\* removeFromBlockMapNL.
LEMMA Removes ==
  ASSUME Flight, NEW n \in Peers, NEW bs \in SUBSET Blocks, RemoveFromBlockMap(bs, n),
         status' \in [Peers -> Statuses], \A m \in Peers : Stays(m)
  PROVE  Flight'
<1> DEFINE found == {b \in bs : Source(b, n) \in mMapBlocksInFlight}
           c == Cardinality(found)
           list == vBlocksInFlight[n]
           new == Without(list, found)
           k == nBlocksInFlight[n]
           h == nValidHeaders[n]
           part == partialBlock[n]
           T == Tracked(n)
           count == mPeersWithValidatedDownloadsCount
<1>1. /\ vBlocksInFlight' = [vBlocksInFlight EXCEPT ![n] = new]
      /\ nBlocksInFlight' = [nBlocksInFlight EXCEPT ![n] = k - c]
      /\ nValidHeaders' = [nValidHeaders EXCEPT ![n] = h - c]
      /\ partialBlock' = [partialBlock EXCEPT ![n] = part \ found]
      /\ count' = count - (IF c > 0 /\ h = c THEN 1 ELSE 0)
      /\ mMapBlocksInFlight' = mMapBlocksInFlight \ {Source(b, n) : b \in found}
  BY Zenon DEF RemoveFromBlockMap
<1>2. found \in SUBSET T
  BY Zenon DEF Tracked
<1>3. /\ list \in Seq(Blocks) /\ k \in Nat /\ h \in Nat /\ T \in SUBSET Blocks /\ part \subseteq Blocks
      /\ list = <<>> <=> h = 0
      /\ PeerOK(list, T, k, h, part)
      /\ count \in Int
  BY PeerNow, Zenon
<1> HIDE DEF found, c, list, new, k, h, part, T, count
<1>4. /\ new \in Seq(Blocks) /\ c \in Nat
      /\ new = <<>> <=> h = c
      /\ PeerOK(new, T \ found, k - c, h - c, part \ found)
  <2>1. /\ Without(list, found) \in Seq(Blocks) /\ Cardinality(found) \in Nat
        /\ Without(list, found) = <<>> <=> h = Cardinality(found)
        /\ PeerOK(Without(list, found), T \ found, k - Cardinality(found), h - Cardinality(found),
                  part \ found)
    BY <1>2, <1>3, PeerRemoves, SMTT(30)
  <2> QED  BY <2>1, Zenon DEF new, c
<1>5. count' = count + Change(list, new)
  <2>1. CASE c > 0 /\ h = c
    BY <1>1, <1>3, <1>4, <2>1 DEF Change
  <2>2. CASE c = 0
    BY <1>1, <1>3, <1>4, <2>2 DEF Change
  <2>3. CASE h # c /\ c > 0
    <3>1. h # 0
      <4>1. Len(new) \in Nat /\ h - c = Len(new)
        BY <1>4, EmptyList, Zenon DEF PeerOK
      <4> QED  BY <1>3, <1>4, <2>3, <4>1
    <3> QED  BY <1>1, <1>3, <1>4, <2>3, <3>1 DEF Change
  <2> QED  BY <1>4, <2>1, <2>2, <2>3
<1>6. k - c \in Int /\ h - c \in Int /\ part \ found \in SUBSET Blocks
  BY <1>3, <1>4
<1> DEFINE k1 == k - c
           h1 == h - c
           p1 == part \ found
<1> HIDE DEF k1, h1, p1
<1>7. /\ found \in SUBSET Tracked(n) /\ k1 \in Int /\ h1 \in Int /\ p1 \in SUBSET Blocks
      /\ PeerOK(new, Tracked(n) \ found, k1, h1, p1)
      /\ nBlocksInFlight' = [nBlocksInFlight EXCEPT ![n] = k1]
      /\ nValidHeaders' = [nValidHeaders EXCEPT ![n] = h1]
      /\ partialBlock' = [partialBlock EXCEPT ![n] = p1]
      /\ mPeersWithValidatedDownloadsCount' =
           mPeersWithValidatedDownloadsCount + Change(vBlocksInFlight[n], new)
  BY <1>1, <1>2, <1>4, <1>5, <1>6, Zenon DEF k1, h1, p1, T, list, count
<1> QED  BY <1>1, <1>4, <1>7, Forgets, Zenon

\* ClearPeer, for a peer that is gone.
LEMMA Clears ==
  ASSUME Flight, NEW n \in Peers, ClearPeer(n), status' = [status EXCEPT ![n] = "gone"]
  PROVE  Flight'
<1> DEFINE list == vBlocksInFlight[n]
           h == nValidHeaders[n]
           T == Tracked(n)
           count == mPeersWithValidatedDownloadsCount
<1>1. /\ list \in Seq(Blocks) /\ h \in Nat /\ T \in SUBSET Blocks
      /\ list = <<>> <=> h = 0
      /\ PeerOK(list, T, nBlocksInFlight[n], h, partialBlock[n])
      /\ count \in Int
  BY PeerNow, Zenon
<1>2. /\ mMapBlocksInFlight' = mMapBlocksInFlight \ {Source(list[i], n) : i \in DOMAIN list}
      /\ count' = count - (IF h # 0 THEN 1 ELSE 0)
      /\ vBlocksInFlight' = [vBlocksInFlight EXCEPT ![n] = <<>>]
      /\ nBlocksInFlight' = [nBlocksInFlight EXCEPT ![n] = 0]
      /\ nValidHeaders' = [nValidHeaders EXCEPT ![n] = 0]
      /\ partialBlock' = [partialBlock EXCEPT ![n] = {}]
  BY Zenon DEF ClearPeer
<1>3. {Source(list[i], n) : i \in DOMAIN list} = {Source(b, n) : b \in T}
  <2>1. Range(list) = T
    BY <1>1, Zenon DEF PeerOK
  <2> QED  BY <2>1, Zenon DEF Range
<1>4. count' = count + Change(list, <<>>)
  <2> HIDE DEF list, h, count
  <2>1. CASE h = 0
    BY <1>1, <1>2, <2>1 DEF Change
  <2>2. CASE h # 0
    BY <1>1, <1>2, <2>2 DEF Change
  <2> QED  BY <2>1, <2>2, Zenon
<1>5. PeerOK(<<>>, T \ T, 0, 0, {}) /\ <<>> \in Seq(Blocks) /\ 0 \in Int
  <2>1. Once(<<>>) /\ Range(<<>>) = {} /\ Len(<<>>) = 0 /\ 0 <= MaxInTransit
    BY DownloadConstants DEF Once, Range
  <2>2. T \ T = {} /\ <<>> \in Seq(Blocks) /\ 0 \in Int
    OBVIOUS
  <2> QED  BY <2>1, <2>2, Zenon DEF PeerOK
<1>6. status' \in [Peers -> Statuses] /\ \A m \in Peers \ {n} : Stays(m)
  <2>1. \A m \in Peers \ {n} : status'[m] = status[m]
    BY Zenon DEF Flight, FlightTypes
  <2>2. status' \in [Peers -> Statuses]
    BY DEF Flight, FlightTypes, Statuses
  <2> QED  BY <2>1, <2>2, Zenon DEF Stays, HasState
<1>7. mMapBlocksInFlight' = mMapBlocksInFlight \ {Source(b, n) : b \in T}
  BY <1>2, <1>3, Zenon
<1> DEFINE e == <<>>
           z == 0
           N == {}
<1>8. N \in SUBSET Blocks /\ T \in SUBSET T
  BY Zenon
<1> HIDE DEF list, h, e, z, N
<1> QED  BY <1>2, <1>4, <1>5, <1>6, <1>7, <1>8, Forgets, Zenon DEF e, z, N, T, count, list

-----------------------------------------------------------------------------
(* The sender records. *)

\* The peers of all records are there after a step.
LEMMA SendersMove ==
  ASSUME mMapBlockSender' \in Seq(BlockPunish),
         \A r \in Range(mMapBlockSender') : HasState(r.node)'
  PROVE  SendersPresent'
BY Zenon DEF SendersPresent, Range

\* The peers of all records are there.
LEMMA SendersNow ==
  ASSUME SendersPresent
  PROVE  /\ mMapBlockSender \in Seq(BlockPunish)
         /\ \A r \in Range(mMapBlockSender) : HasState(r.node) /\ r.node \in Peers
<1>1. \A r \in Range(mMapBlockSender) : HasState(r.node)
  BY Zenon DEF SendersPresent, Range
<1>2. \A r \in Range(mMapBlockSender) : r \in BlockPunish
  BY DEF SendersPresent, Range
<1>3. \A r \in BlockPunish : r.node \in Peers
  BY DEF BlockPunish
<1> QED  BY <1>1, <1>2, <1>3, Zenon DEF SendersPresent

\* The records stay, and no peer goes.
LEMMA SendersStay ==
  ASSUME SendersPresent, UNCHANGED mMapBlockSender, \A m \in Peers : Stays(m)
  PROVE  SendersPresent'
<1>1. mMapBlockSender' = mMapBlockSender
  OBVIOUS
<1>2. \A m \in Peers : HasState(m) => HasState(m)'
  BY Zenon DEF Stays
<1>3. /\ mMapBlockSender' \in Seq(BlockPunish)
      /\ \A r \in Range(mMapBlockSender') : HasState(r.node)'
  BY <1>1, <1>2, SendersNow, Zenon
<1> QED  BY <1>3, SendersMove, Zenon

\* A block is received from a peer that is there.
LEMMA SenderAdded ==
  ASSUME SendersPresent, NEW n \in Peers, NEW b \in Blocks, NEW p \in BOOLEAN, HasState(n)',
         mMapBlockSender' = Append(mMapBlockSender, [block |-> b, node |-> n, punish |-> p]),
         \A m \in Peers : Stays(m)
  PROVE  SendersPresent'
<1> DEFINE rec == [block |-> b, node |-> n, punish |-> p]
           old == mMapBlockSender
<1>1. rec \in BlockPunish /\ rec.node = n
  BY DEF BlockPunish
<1>2. old \in Seq(BlockPunish) /\ \A r \in Range(old) : HasState(r.node) /\ r.node \in Peers
  BY SendersNow, Zenon
<1>3. mMapBlockSender' = Append(old, rec)
  BY Zenon
<1>4. \A m \in Peers : HasState(m) => HasState(m)'
  BY Zenon DEF Stays
<1> HIDE DEF rec, old
<1>5. Append(old, rec) \in Seq(BlockPunish) /\ Range(Append(old, rec)) = Range(old) \union {rec}
  BY <1>1, <1>2, Appended, SMTT(30)
<1>6. /\ mMapBlockSender' \in Seq(BlockPunish)
      /\ \A r \in Range(mMapBlockSender') : HasState(r.node)'
  BY <1>1, <1>2, <1>3, <1>4, <1>5, Zenon
<1> QED  BY <1>6, SendersMove, Zenon

\* ClearPeer takes the records of the peer.
LEMMA SendersCleared ==
  ASSUME SendersPresent, NEW n \in Peers, mMapBlockSender' = SendersWithout(n),
         \A m \in Peers \ {n} : Stays(m)
  PROVE  SendersPresent'
<1> DEFINE old == mMapBlockSender
           gone == {r \in Range(old) : r.node = n}
           new == Without(old, gone)
<1>1. old \in Seq(BlockPunish) /\ \A r \in Range(old) : HasState(r.node) /\ r.node \in Peers
  BY SendersNow, Zenon
<1>2. mMapBlockSender' = new
  BY Zenon DEF SendersWithout
<1>3. \A m \in Peers \ {n} : HasState(m) => HasState(m)'
  BY Zenon DEF Stays
<1>4. new \in Seq(BlockPunish) /\ Range(new) = Range(old) \ gone
  <2> HIDE DEF old, gone
  <2> QED  BY <1>1, WithoutLeaves, Zenon
<1>5. \A r \in Range(new) : r \in Range(old) /\ r.node # n
  <2> HIDE DEF new, old
  <2> QED  BY <1>4, Zenon DEF gone
<1> HIDE DEF new, old
<1>6. /\ mMapBlockSender' \in Seq(BlockPunish)
      /\ \A r \in Range(mMapBlockSender') : HasState(r.node)'
  BY <1>1, <1>2, <1>3, <1>4, <1>5, Zenon
<1> QED  BY <1>6, SendersMove, Zenon

\* BlockChecked removes one record.
LEMMA SenderRemoved ==
  ASSUME SendersPresent, NEW i \in DOMAIN mMapBlockSender,
         mMapBlockSender' = RemovedAt(mMapBlockSender, i), \A m \in Peers : Stays(m)
  PROVE  SendersPresent'
<1> DEFINE old == mMapBlockSender
           new == RemovedAt(old, i)
<1>1. old \in Seq(BlockPunish) /\ \A r \in Range(old) : HasState(r.node) /\ r.node \in Peers
  BY SendersNow, Zenon
<1>2. mMapBlockSender' = new /\ i \in DOMAIN old
  BY Zenon
<1>3. \A m \in Peers : HasState(m) => HasState(m)'
  BY Zenon DEF Stays
<1> HIDE DEF old
<1>4. new \in Seq(BlockPunish) /\ \A j \in DOMAIN new : \E k \in DOMAIN old : new[j] = old[k]
  <2>1. Len(old) \in Nat /\ DOMAIN old = 1 .. Len(old) /\ i \in 1 .. Len(old)
    BY <1>1, <1>2
  <2> DEFINE a == SubSeq(old, 1, i - 1)
             z == SubSeq(old, i + 1, Len(old))
  <2>2. /\ a \in Seq(BlockPunish) /\ Len(a) = i - 1
        /\ \A j \in 1 .. Len(a) : a[j] = old[j] /\ j \in DOMAIN old
    BY <1>1, <2>1
  <2>3. /\ z \in Seq(BlockPunish) /\ Len(z) = Len(old) - i
        /\ \A j \in 1 .. Len(z) : z[j] = old[i + j] /\ i + j \in DOMAIN old
    BY <1>1, <2>1
  <2>4. new = a \o z
    BY Zenon DEF RemovedAt
  <2> HIDE DEF a, z, new
  <2>5. /\ new \in Seq(BlockPunish) /\ DOMAIN new = 1 .. Len(a) + Len(z)
        /\ \A j \in 1 .. Len(a) : new[j] = a[j]
        /\ \A j \in DOMAIN new : j \notin 1 .. Len(a) =>
             new[j] = z[j - Len(a)] /\ j - Len(a) \in 1 .. Len(z)
    BY <2>2, <2>3, <2>4
  <2>6. ASSUME NEW j \in DOMAIN new PROVE \E k \in DOMAIN old : new[j] = old[k]
    <3>1. CASE j \in 1 .. Len(a)
      BY <2>2, <2>5, <3>1, Zenon
    <3>2. CASE j \notin 1 .. Len(a)
      BY <2>3, <2>5, <3>2, Zenon
    <3> QED  BY <3>1, <3>2, Zenon
  <2> QED  BY <2>5, <2>6, Zenon
<1> HIDE DEF new
<1>5. /\ mMapBlockSender' \in Seq(BlockPunish)
      /\ \A r \in Range(mMapBlockSender') : HasState(r.node)'
  <2>1. \A r \in Range(new) : r \in Range(old)
    BY <1>4, Zenon DEF Range
  <2> QED  BY <1>1, <1>2, <1>3, <1>4, <2>1, Zenon
<1> QED  BY <1>5, SendersMove, Zenon

-----------------------------------------------------------------------------
(* The peers that announce compact blocks. *)

\* The list does not change.
LEMMA AnnouncersStay ==
  ASSUME AnnouncersListed, UNCHANGED announceVars
  PROVE  AnnouncersListed'
<1>1. mNodesAnnouncing' = mNodesAnnouncing /\ told' = told
  BY DEF announceVars
<1> QED  BY <1>1, Zenon DEF AnnouncersListed, AnnouncingBounded

\* maybeSetPeerAsAnnouncingHeaderAndIDsNL.
LEMMA AnnouncersMove ==
  ASSUME AnnouncersListed, NEW n \in Peers, MaybeSetPeerAsAnnouncing(n)
  PROVE  AnnouncersListed'
<1> DEFINE list == mNodesAnnouncing
           limit == MaxAnnouncing
<1>1. list \in Seq(Peers) /\ Once(list) /\ Len(list) <= limit /\ told \subseteq Range(list)
  BY Zenon DEF AnnouncersListed, AnnouncingBounded
<1>2. limit \in Nat \ {0} /\ Len(list) \in Nat
  BY <1>1, DownloadConstants
<1>3. CASE UNCHANGED announceVars
  BY <1>3, AnnouncersStay, Zenon
<1> DEFINE moved == Without(list, {n})
           rest == Tail(list)
<1>4. ASSUME NEW start \in Seq(Peers), Once(start), n \notin Range(start), Len(start) + 1 <= limit,
             list' = Append(start, n), told' \subseteq Range(start) \union {n}
      PROVE  AnnouncersListed'
  <2> HIDE DEF list, limit
  <2>1. /\ list' \in Seq(Peers) /\ Len(list') = Len(start) + 1
        /\ Range(list') = Range(start) \union {n} /\ Once(list')
    BY <1>4, Appended, SMTT(30)
  <2>2. Len(list') <= limit
    BY <1>4, <2>1
  <2> QED  BY <1>4, <2>1, <2>2, Zenon DEF AnnouncersListed, AnnouncingBounded, list, limit
<1>5. CASE /\ n \in Range(list) /\ list' = Append(moved, n) /\ told' = told
  <2>1. moved \in Seq(Peers) /\ Range(moved) = Range(list) \ {n} /\ Once(moved)
    <3> DEFINE e == {n}
    <3> HIDE DEF list, e
    <3> QED  BY <1>1, WithoutLeaves, Zenon DEF e
  <2>2. /\ IsFiniteSet(Range(list)) /\ Cardinality(Range(list)) = Len(list)
        /\ Cardinality(Range(moved)) = Len(moved) /\ Len(moved) \in Nat
    <3> HIDE DEF list, moved
    <3>1. Len(moved) \in Nat
      BY <2>1
    <3> QED  BY <1>1, <2>1, <3>1, OnceCounts, Zenon
  <2> DEFINE A == Range(list)
  <2>3. Cardinality(A \ {n}) = Cardinality(A) - 1
    <3>1. n \in A /\ IsFiniteSet(A)
      BY <1>5, <2>2, Zenon
    <3> HIDE DEF A
    <3> QED  BY <3>1, FS_RemoveElement, Zenon
  <2>4. Len(moved) + 1 <= limit
    <3>1. Len(moved) = Len(list) - 1
      BY <2>1, <2>2, <2>3, Zenon
    <3> HIDE DEF list, moved, limit
    <3> QED  BY <1>1, <1>2, <2>2, <3>1
  <2>5. n \notin Range(moved) /\ told' \subseteq Range(moved) \union {n}
    BY <1>1, <1>5, <2>1, Zenon
  <2> HIDE DEF moved
  <2> QED  BY <1>4, <1>5, <2>1, <2>4, <2>5, Zenon
<1>6. CASE n \notin Range(list) /\ Len(list) >= limit /\ ReplaceAnnouncing(n)
  <2> DEFINE hd == Head(list)
  <2>1. list' = Append(rest, n) /\ told' = (told \ {hd}) \union {n}
    BY <1>6, Zenon DEF ReplaceAnnouncing
  <2> HIDE DEF list, limit
  <2>2. Len(list) = limit /\ list # <<>>
    BY <1>1, <1>2, <1>6
  <2>3. /\ rest \in Seq(Peers) /\ Len(rest) = Len(list) - 1
        /\ DOMAIN rest = 1 .. Len(list) - 1 /\ DOMAIN list = 1 .. Len(list)
        /\ \A i \in DOMAIN rest : rest[i] = list[i + 1] /\ i + 1 \in DOMAIN list
        /\ hd = list[1] /\ hd \in Peers
        /\ \A i \in DOMAIN list : i # 1 => i - 1 \in DOMAIN rest /\ rest[i - 1] = list[i]
    BY <1>1, <2>2
  <2> HIDE DEF rest, hd
  <2>4. Len(rest) + 1 <= limit
    BY <1>2, <2>2, <2>3
  <2>5. Once(rest)
    <3> SUFFICES ASSUME NEW i \in DOMAIN rest, NEW j \in DOMAIN rest, rest[i] = rest[j] PROVE i = j
      BY Zenon DEF Once
    <3> DEFINE a == i + 1
               b == j + 1
    <3>1. a \in DOMAIN list /\ b \in DOMAIN list /\ list[a] = list[b] /\ (a = b => i = j)
      BY <1>2, <2>3
    <3> HIDE DEF a, b
    <3> QED  BY <1>1, <3>1, Zenon DEF Once
  <2>6. Range(rest) \subseteq Range(list)
    <3>1. \A i \in DOMAIN rest : \E j \in DOMAIN list : rest[i] = list[j]
      BY <2>3
    <3> QED  BY <3>1, Zenon DEF Range
  <2>7. Range(list) \subseteq Range(rest) \union {hd}
    <3>1. \A i \in DOMAIN list : list[i] = hd \/ \E j \in DOMAIN rest : list[i] = rest[j]
      BY <2>3
    <3> QED  BY <3>1, Zenon DEF Range
  <2>8. n \notin Range(rest) /\ told' \subseteq Range(rest) \union {n}
    BY <1>1, <1>6, <2>1, <2>6, <2>7, Zenon
  <2> QED  BY <1>4, <2>1, <2>3, <2>4, <2>5, <2>8, Zenon
<1>7. CASE /\ n \notin Range(list) /\ ~(Len(list) >= limit) /\ list' = Append(list, n)
           /\ told' = told \union {n}
  <2>1. Len(list) + 1 <= limit
    <3> HIDE DEF list, limit
    <3> QED  BY <1>2, <1>7
  <2>2. told' \subseteq Range(list) \union {n}
    BY <1>1, <1>7, Zenon
  <2> QED  BY <1>1, <1>4, <1>7, <2>1, <2>2, Zenon
<1>8. \/ UNCHANGED announceVars
      \/ n \in Range(list) /\ list' = Append(moved, n) /\ told' = told
      \/ n \notin Range(list) /\ Len(list) >= limit /\ ReplaceAnnouncing(n)
      \/ /\ n \notin Range(list) /\ ~(Len(list) >= limit) /\ list' = Append(list, n)
         /\ told' = told \union {n}
  BY Zenon DEF MaybeSetPeerAsAnnouncing
<1> QED  BY <1>3, <1>5, <1>6, <1>7, <1>8, Zenon

-----------------------------------------------------------------------------
(* Steps. *)

\* A peer connects, is closed, or is taken out of vNodes; its state stays.
LEMMA PeerMoves ==
  ASSUME Flight, NEW n \in Peers, NEW s, status' = [status EXCEPT ![n] = s],
         \/ status[n] = "new" /\ s = "up"
         \/ status[n] = "up" /\ s = "closing"
         \/ status[n] = "closing" /\ s = "leaving"
  PROVE  status' \in [Peers -> Statuses] /\ \A m \in Peers : Stays(m)
<1>1. s \in Statuses /\ status \in [Peers -> Statuses]
  BY Zenon DEF Statuses, Flight, FlightTypes
<1>2. status' \in [Peers -> Statuses] /\ \A m \in Peers : status'[m] = IF m = n THEN s ELSE status[m]
  <2> HIDE DEF Statuses
  <2> QED  BY <1>1
<1>3. Stays(n)
  BY <1>2 DEF Stays, HasState
<1>4. \A m \in Peers : m # n => Stays(m)
  BY <1>2, Zenon DEF Stays, HasState
<1> QED  BY <1>2, <1>3, <1>4, Zenon

\* No peer comes or goes.
LEMMA PeersStay ==
  ASSUME Flight, status' = status
  PROVE  status' \in [Peers -> Statuses] /\ \A m \in Peers : Stays(m)
BY Zenon DEF Flight, FlightTypes, Stays, HasState

\* A step that leaves the requests, the records and the list alone.
LEMMA OnlyStatus ==
  ASSUME IInv, status' \in [Peers -> Statuses], \A m \in Peers : Stays(m),
         UNCHANGED <<flightVars, mMapBlockSender, announceVars>>
  PROVE  IInv'
<1>1. /\ UNCHANGED <<vBlocksInFlight, nBlocksInFlight, nValidHeaders, partialBlock,
                     mMapBlocksInFlight, mPeersWithValidatedDownloadsCount>>
      /\ UNCHANGED mMapBlockSender /\ UNCHANGED announceVars
  BY Zenon DEF flightVars, peerVars
<1>2. Flight /\ SendersPresent /\ AnnouncersListed
  BY Zenon DEF IInv
<1>3. Flight'
  BY <1>1, <1>2, StatusMoves, Zenon
<1>4. SendersPresent'
  BY <1>1, <1>2, SendersStay, Zenon
<1>5. AnnouncersListed'
  BY <1>1, <1>2, AnnouncersStay, Zenon
<1> QED  BY <1>3, <1>4, <1>5, Zenon DEF IInv

\* A request ends without the block.
LEMMA RequestFails ==
  ASSUME IInv, NEW n \in Peers, NEW bs \in SUBSET Blocks, RemoveFromBlockMap(bs, n),
         status' \in [Peers -> Statuses], \A m \in Peers : Stays(m),
         UNCHANGED mMapBlockSender, UNCHANGED announceVars
  PROVE  IInv'
<1>1. Flight /\ SendersPresent /\ AnnouncersListed
  BY Zenon DEF IInv
<1>2. Flight'
  BY <1>1, Removes, Zenon
<1>3. SendersPresent'
  BY <1>1, SendersStay, Zenon
<1>4. AnnouncersListed'
  BY <1>1, AnnouncersStay, Zenon
<1> QED  BY <1>2, <1>3, <1>4, Zenon DEF IInv

\* A block is received from a peer that is connected.
LEMMA Receives ==
  ASSUME IInv, NEW n \in Peers, NEW b \in Blocks, NEW p \in BOOLEAN, status[n] = "up",
         MarkBlockAsReceived(b, n, p), status' = status, UNCHANGED announceVars
  PROVE  IInv'
<1>1. Flight /\ SendersPresent /\ AnnouncersListed
  BY Zenon DEF IInv
<1>2. status' \in [Peers -> Statuses] /\ \A m \in Peers : Stays(m)
  BY <1>1, PeersStay, Zenon
<1> DEFINE bs == {b}
<1>3. RemoveFromBlockMap(bs, n) /\ bs \in SUBSET Blocks
  BY Zenon DEF MarkBlockAsReceived
<1> HIDE DEF bs
<1>4. Flight'
  BY <1>1, <1>2, <1>3, Removes, Zenon
<1>5. SendersPresent'
  <2>1. HasState(n)'
    BY Zenon DEF HasState
  <2>2. mMapBlockSender' = Append(mMapBlockSender, [block |-> b, node |-> n, punish |-> p])
    BY Zenon DEF MarkBlockAsReceived
  <2> QED  BY <1>1, <1>2, <2>1, <2>2, SenderAdded, Zenon
<1>6. AnnouncersListed'
  BY <1>1, AnnouncersStay, Zenon
<1> QED  BY <1>4, <1>5, <1>6, Zenon DEF IInv

\* FinalizeNode.
LEMMA Finalizes ==
  ASSUME IInv, NEW n \in Peers, FinalizeNode(n)
  PROVE  IInv'
<1>1. Flight /\ SendersPresent /\ AnnouncersListed
  BY Zenon DEF IInv
<1>2. ClearPeer(n) /\ status' = [status EXCEPT ![n] = "gone"] /\ UNCHANGED announceVars
  BY Zenon DEF FinalizeNode
<1>3. Flight'
  BY <1>1, <1>2, Clears, Zenon
<1>4. SendersPresent'
  <2>1. \A m \in Peers \ {n} : status'[m] = status[m]
    BY <1>1, <1>2, Zenon DEF Flight, FlightTypes
  <2>2. \A m \in Peers \ {n} : Stays(m)
    BY <2>1, Zenon DEF Stays, HasState
  <2>3. mMapBlockSender' = SendersWithout(n)
    BY <1>2, Zenon DEF ClearPeer
  <2> QED  BY <1>1, <2>2, <2>3, SendersCleared, Zenon
<1>5. AnnouncersListed'
  BY <1>1, <1>2, AnnouncersStay, Zenon
<1> QED  BY <1>3, <1>4, <1>5, Zenon DEF IInv

\* A block that no one was asked for may be requested.
LEMMA NotInFlight ==
  ASSUME NEW b, ~InFlight(b)
  PROVE  Cardinality(Live(b)) < MaxParallelFetch
<1>1. Live(b) = {}
  BY Zenon DEF InFlight, Live
<1>2. Cardinality(Live(b)) = 0
  BY <1>1, FS_EmptySet, Zenon
<1> QED  BY <1>2, DownloadConstants

\* A block is requested from a peer that is connected.
LEMMA Requests ==
  ASSUME IInv, NEW n \in Peers, NEW b \in Blocks, status[n] = "up", status' = status,
         ~FromNode(b, n) => nBlocksInFlight[n] < MaxInTransit /\ (~InFlight(b) \/ MayAlsoFetch(b)),
         NEW p, p \subseteq partialBlock[n] \union {b}, MarkBlockAsInFlight(b, n),
         partialBlock' = [partialBlock EXCEPT ![n] = p],
         UNCHANGED mMapBlockSender, UNCHANGED announceVars
  PROVE  IInv'
<1>1. Flight /\ SendersPresent /\ AnnouncersListed
  BY Zenon DEF IInv
<1>2. MayAlsoFetch(b) => Cardinality(Live(b)) < MaxParallelFetch
  BY Zenon DEF MayAlsoFetch, Live
<1>3. Flight'
  BY <1>1, <1>2, NotInFlight, Adds, Zenon
<1>4. SendersPresent'
  BY <1>1, PeersStay, SendersStay, Zenon
<1>5. AnnouncersListed'
  BY <1>1, AnnouncersStay, Zenon
<1> QED  BY <1>3, <1>4, <1>5, Zenon DEF IInv

\* One round of BlockChecked's loop.
LEMMA Checks ==
  ASSUME IInv, NEW c \in Checkers, CheckSource(c)
  PROVE  IInv'
<1> DEFINE b == check[c].block
           n == Head(check[c].sources)
           mine == {i \in DOMAIN mMapBlockSender : mMapBlockSender[i].block = b /\ mMapBlockSender[i].node = n}
           first == CHOOSE i \in mine : \A j \in mine : i <= j
<1>1. Flight /\ SendersPresent /\ AnnouncersListed
  BY Zenon DEF IInv
<1>2. UNCHANGED flightVars
  BY Zenon DEF CheckSource
<1>3. CASE mine = {}
  <2>1. status' = status /\ UNCHANGED <<flightVars, mMapBlockSender, announceVars>>
    BY <1>2, <1>3, Zenon DEF CheckSource
  <2> QED  BY <1>1, <2>1, PeersStay, OnlyStatus, Zenon
<1>4. CASE mine # {}
  <2>1. first \in mine
    <3>1. mine \in SUBSET Nat
      BY <1>1 DEF SendersPresent
    <3> HIDE DEF mine
    <3>2. \E m \in mine : \A y \in mine : m <= y
      BY <1>4, <3>1, Least, Zenon
    <3> QED  BY <3>2, Zenon
  <2>2. first \in DOMAIN mMapBlockSender /\ mMapBlockSender[first].node = n
    <3> HIDE DEF first, n, b
    <3> QED  BY <2>1, Zenon
  <2>3. n \in Peers
    <3> HIDE DEF first, n
    <3>1. mMapBlockSender[first] \in Range(mMapBlockSender)
      BY <2>2, Zenon DEF Range
    <3> QED  BY <1>1, <2>2, <3>1, SendersNow, Zenon
  <2>4. /\ mMapBlockSender' = RemovedAt(mMapBlockSender, first)
        /\ \/ status' = status
           \/ status[n] = "up" /\ status' = [status EXCEPT ![n] = "closing"]
        /\ UNCHANGED announceVars \/ MaybeSetPeerAsAnnouncing(n)
    <3> HIDE DEF first
    <3>1. /\ mMapBlockSender' = RemovedAt(mMapBlockSender, first)
          /\ \/ /\ b \in Invalid
                /\ status' \in {status} \cup
                     (IF mMapBlockSender[first].punish /\ status[n] = "up" /\ n \notin Reliable
                      THEN {[status EXCEPT ![n] = "closing"]} ELSE {})
                /\ UNCHANGED announceVars
             \/ /\ b \notin Invalid
                /\ \E isIBD \in BOOLEAN :
                     IF ~isIBD /\ InFlight(b) /\ UniqueBlockCount = 1
                     THEN MaybeSetPeerAsAnnouncing(n)
                     ELSE UNCHANGED announceVars
                /\ UNCHANGED status
      BY <1>4, Zenon DEF CheckSource, first
    <3> HIDE DEF b, n
    <3> QED  BY <3>1, Zenon
  <2> HIDE DEF first, n
  <2>5. status' \in [Peers -> Statuses] /\ \A m \in Peers : Stays(m)
    <3>1. CASE status' = status
      BY <1>1, <3>1, PeersStay, Zenon
    <3>2. CASE status[n] = "up" /\ status' = [status EXCEPT ![n] = "closing"]
      BY <1>1, <2>3, <3>2, PeerMoves, Zenon
    <3> QED  BY <2>4, <3>1, <3>2, Zenon
  <2>6. UNCHANGED <<vBlocksInFlight, nBlocksInFlight, nValidHeaders, partialBlock,
                    mMapBlocksInFlight, mPeersWithValidatedDownloadsCount>>
    BY <1>2, Zenon DEF flightVars, peerVars
  <2>7. Flight'
    BY <1>1, <2>5, <2>6, StatusMoves, Zenon
  <2>8. SendersPresent'
    BY <1>1, <2>2, <2>4, <2>5, SenderRemoved, Zenon
  <2>9. AnnouncersListed'
    BY <1>1, <2>3, <2>4, AnnouncersStay, AnnouncersMove, Zenon
  <2> QED  BY <2>7, <2>8, <2>9, Zenon DEF IInv
<1> QED  BY <1>3, <1>4, Zenon

-----------------------------------------------------------------------------
(* The theorems. *)

\* The invariant holds before the first peer connects.
LEMMA InitIInv ==
  DownloadInit => IInv
<1> SUFFICES ASSUME DownloadInit PROVE IInv
  OBVIOUS
<1>1. FlightTypes
  BY DEF DownloadInit, FlightTypes, Statuses
<1>2. \A n \in Peers : Tracked(n) = {}
  BY Zenon DEF DownloadInit, Tracked
<1>3. ASSUME NEW n \in Peers PROVE PeerRight(n)
  <2>1. /\ vBlocksInFlight[n] = <<>> /\ nBlocksInFlight[n] = 0 /\ nValidHeaders[n] = 0
        /\ partialBlock[n] = {}
    BY Zenon DEF DownloadInit
  <2>2. PeerOK(<<>>, {}, 0, 0, {})
    BY DownloadConstants DEF PeerOK, Once, Range
  <2> QED  BY <1>2, <2>1, <2>2, Zenon DEF PeerRight
<1>4. mPeersWithValidatedDownloadsCount = Cardinality(Downloading)
  <2>1. Downloading = {}
    BY Zenon DEF DownloadInit, Downloading
  <2> QED  BY <2>1, FS_EmptySet, Zenon DEF DownloadInit
<1>5. ParallelFetchBounded
  <2>1. \A b \in Blocks : ~InFlight(b)
    BY Zenon DEF DownloadInit, InFlight, Sources
  <2>2. \A b \in Blocks : Cardinality(Live(b)) = 0
    BY <2>1, FS_EmptySet, Zenon DEF InFlight, Live
  <2>3. 0 <= MaxParallelFetch
    BY DownloadConstants
  <2> QED  BY <2>2, <2>3, Zenon DEF ParallelFetchBounded, Live
<1>6. SendersPresent
  <2>1. mMapBlockSender = <<>>
    BY Zenon DEF DownloadInit
  <2> QED  BY <2>1 DEF SendersPresent
<1>7. AnnouncersListed
  <2>1. mNodesAnnouncing = <<>> /\ told = {}
    BY Zenon DEF DownloadInit
  <2>2. <<>> \in Seq(Peers) /\ Once(<<>>) /\ Len(<<>>) <= MaxAnnouncing
    BY DownloadConstants DEF Once
  <2> QED  BY <2>1, <2>2, Zenon DEF AnnouncersListed, AnnouncingBounded
<1> QED  BY <1>1, <1>2, <1>3, <1>4, <1>5, <1>6, <1>7, Zenon DEF IInv, Flight

\* Every handler keeps it.
LEMMA NextIInv ==
  IInv /\ [DownloadNext]_downloadVars => IInv'
<1> SUFFICES ASSUME IInv, [DownloadNext]_downloadVars PROVE IInv'
  OBVIOUS
<1>0. Flight
  BY Zenon DEF IInv
<1>1. ASSUME NEW n \in Peers, NEW s, status' = [status EXCEPT ![n] = s],
             \/ status[n] = "new" /\ s = "up"
             \/ status[n] = "up" /\ s = "closing"
             \/ status[n] = "closing" /\ s = "leaving",
             UNCHANGED <<flightVars, mMapBlockSender, announceVars>>
      PROVE  IInv'
  BY <1>0, <1>1, PeerMoves, OnlyStatus, Zenon
<1>2. ASSUME NEW n \in Peers, InitializeNode(n) PROVE IInv'
  BY <1>1, <1>2, Zenon DEF InitializeNode
<1>3. ASSUME NEW n \in Peers, Disconnect(n) PROVE IInv'
  BY <1>1, <1>3, Zenon DEF Disconnect
<1>4. ASSUME NEW n \in Peers, DetectStalling(n) PROVE IInv'
  BY <1>1, <1>4, Zenon DEF DetectStalling
<1>5. ASSUME NEW n \in Peers, RemoveFromNodes(n) PROVE IInv'
  BY <1>1, <1>5, Zenon DEF RemoveFromNodes
<1>6. ASSUME NEW n \in Peers, FinalizeNode(n) PROVE IInv'
  BY <1>6, Finalizes, Zenon
<1>7. ASSUME NEW n \in Peers, RequestBlock(n) PROVE IInv'
  <2>1. PICK b \in Wanted(n) : MarkBlockAsInFlight(b, n)
    BY <1>7, Zenon DEF RequestBlock
  <2>2. b \in Blocks /\ (~InFlight(b) \/ MayAlsoFetch(b))
    BY <2>1, Zenon DEF Wanted, NotAskedFor, Missing, KnownBy
  <2>3. /\ status[n] = "up" /\ nBlocksInFlight[n] < MaxInTransit /\ status' = status
        /\ partialBlock' = partialBlock /\ UNCHANGED mMapBlockSender /\ UNCHANGED announceVars
    BY <1>7, Zenon DEF RequestBlock
  <2> DEFINE p == partialBlock[n]
  <2>4. partialBlock' = [partialBlock EXCEPT ![n] = p] /\ p \subseteq partialBlock[n] \union {b}
    BY <1>0, <2>3, Zenon DEF Flight, FlightTypes
  <2> HIDE DEF p
  <2> QED  BY <2>1, <2>2, <2>3, <2>4, Requests, Zenon
<1>8. ASSUME NEW n \in Peers, StallStarts(n) PROVE IInv'
  <2>1. /\ UNCHANGED <<vBlocksInFlight, nBlocksInFlight, nValidHeaders, partialBlock,
                       mMapBlocksInFlight, mPeersWithValidatedDownloadsCount>>
        /\ status' = status /\ UNCHANGED mMapBlockSender /\ UNCHANGED announceVars
    BY <1>8, Zenon DEF StallStarts
  <2>2. Flight'
    BY <1>0, <2>1, PeersStay, StatusMoves, Zenon
  <2>3. SendersPresent'
    BY <1>0, <2>1, PeersStay, SendersStay, Zenon DEF IInv
  <2>4. AnnouncersListed'
    BY <2>1, AnnouncersStay, Zenon DEF IInv
  <2> QED  BY <2>2, <2>3, <2>4, Zenon DEF IInv
<1>9. ASSUME NEW n \in Peers, PeerTooBusy(n) PROVE IInv'
  <2> DEFINE bs == {vBlocksInFlight[n][i] : i \in DOMAIN vBlocksInFlight[n]}
  <2>1. bs \in SUBSET Blocks
    <3>1. vBlocksInFlight[n] \in Seq(Blocks)
      BY <1>0, PeerNow, Zenon
    <3>2. \A i \in DOMAIN vBlocksInFlight[n] : vBlocksInFlight[n][i] \in Blocks
      <4> DEFINE l == vBlocksInFlight[n]
      <4> HIDE DEF l
      <4>1. l \in Seq(Blocks) => \A i \in DOMAIN l : l[i] \in Blocks
        OBVIOUS
      <4> QED  BY <3>1, <4>1, Zenon DEF l
    <3> QED  BY <3>2, Zenon
  <2>2. /\ RemoveFromBlockMap(bs, n) /\ status' = status
        /\ UNCHANGED mMapBlockSender /\ UNCHANGED announceVars
    BY <1>9, Zenon DEF PeerTooBusy
  <2> HIDE DEF bs
  <2> QED  BY <1>0, <2>1, <2>2, PeersStay, RequestFails, Zenon
<1>10. ASSUME NEW n \in Peers, NEW b \in Blocks, MarkBlockAsFailed(b, n),
              status' \in [Peers -> Statuses], \A m \in Peers : Stays(m), UNCHANGED announceVars
       PROVE  IInv'
  <2> DEFINE bs == {b}
  <2>1. bs \in SUBSET Blocks /\ RemoveFromBlockMap(bs, n) /\ UNCHANGED mMapBlockSender
    BY <1>10, Zenon DEF MarkBlockAsFailed
  <2> HIDE DEF bs
  <2> QED  BY <1>10, <2>1, RequestFails, Zenon
<1>11. ASSUME NEW n \in Peers, NEW b \in Blocks, ProcessBlockMessage(n, b) PROVE IInv'
  BY <1>11, Receives, Zenon DEF ProcessBlockMessage
<1>12. ASSUME NEW n \in Peers, NEW b \in Blocks, CompactNotNeeded(n, b) PROVE IInv'
  BY <1>0, <1>10, <1>12, PeersStay, Zenon DEF CompactNotNeeded
<1>13. ASSUME NEW n \in Peers, NEW b \in Blocks, CompactTracked(n, b) PROVE IInv'
  <2> DEFINE p == partialBlock[n] \union {b}
  <2>1. /\ status[n] = "up" /\ status' = status /\ MarkBlockAsInFlight(b, n)
        /\ UNCHANGED mMapBlockSender /\ UNCHANGED announceVars
        /\ partialBlock' = [partialBlock EXCEPT ![n] = p]
        /\ ~FromNode(b, n) => nBlocksInFlight[n] < MaxInTransit /\ ~InFlight(b)
    BY <1>13, Zenon DEF CompactTracked, MayFill
  <2>2. p \subseteq partialBlock[n] \union {b}
    BY Zenon
  <2> HIDE DEF p
  <2> QED  BY <2>1, <2>2, Requests, Zenon
<1>14. ASSUME NEW n \in Peers, NEW b \in Blocks, CompactReconstructed(n, b) PROVE IInv'
  BY <1>14, Receives, Zenon DEF CompactReconstructed
<1>15. ASSUME NEW n \in Peers, NEW b \in Blocks, FillInvalid(n, b) PROVE IInv'
  <2>1. /\ MarkBlockAsFailed(b, n) /\ UNCHANGED announceVars /\ status[n] = "up"
        /\ status' = status \/ status' = [status EXCEPT ![n] = "closing"]
    BY <1>15, Zenon DEF FillInvalid
  <2>2. status' \in [Peers -> Statuses] /\ \A m \in Peers : Stays(m)
    BY <1>0, <2>1, PeersStay, PeerMoves, Zenon
  <2> QED  BY <1>10, <2>1, <2>2, Zenon
<1>16. ASSUME NEW n \in Peers, NEW b \in Blocks, BlockFilled(n, b) PROVE IInv'
  BY <1>16, Receives, Zenon DEF BlockFilled
<1>17. ASSUME NEW c \in Checkers, BlockChecked(c) PROVE IInv'
  BY <1>0, <1>17, PeersStay, OnlyStatus, Zenon DEF BlockChecked
<1>18. ASSUME NEW c \in Checkers, CheckSource(c) PROVE IInv'
  BY <1>18, Checks, Zenon
<1>19. ASSUME UNCHANGED downloadVars PROVE IInv'
  <2>1. status' = status /\ UNCHANGED <<flightVars, mMapBlockSender, announceVars>>
    BY <1>19, Zenon DEF downloadVars
  <2> QED  BY <1>0, <2>1, PeersStay, OnlyStatus, Zenon
<1>20. \A n \in Peers : KnownBy(n) \subseteq Blocks
  BY Zenon DEF KnownBy
<1> QED  BY <1>2, <1>3, <1>4, <1>5, <1>6, <1>7, <1>8, <1>9, <1>11, <1>12, <1>13, <1>14, <1>15, <1>16,
            <1>17, <1>18, <1>19, <1>20, Zenon DEF DownloadNext

\* What the tracker keeps of the requests and what the peers keep agree, in
\* every state (markBlockAsInFlight, removeFromBlockMapNL, ClearPeer).
THEOREM DownloadInvariant ==
  DownloadSpec => []IInv
BY InitIInv, NextIInv, PTL DEF DownloadSpec

\* The invariant says what the tracker's users rely on.
LEMMA InvTracker ==
  IInv => TrackerConsistent
<1> SUFFICES ASSUME IInv PROVE TrackerConsistent
  OBVIOUS
<1>0. Flight /\ SendersPresent
  BY Zenon DEF IInv
<1>1. ASSUME NEW n \in Peers
      PROVE  /\ Range(vBlocksInFlight[n]) = Tracked(n)
             /\ Len(vBlocksInFlight[n]) = Cardinality(Tracked(n))
             /\ nBlocksInFlight[n] = Len(vBlocksInFlight[n])
             /\ nValidHeaders[n] = nBlocksInFlight[n]
             /\ nBlocksInFlight[n] <= MaxInTransit
             /\ partialBlock[n] \subseteq Range(vBlocksInFlight[n])
  <2> DEFINE l == vBlocksInFlight[n]
  <2>1. l \in Seq(Blocks) /\ PeerOK(l, Tracked(n), nBlocksInFlight[n], nValidHeaders[n], partialBlock[n])
    BY <1>0, PeerNow, Zenon
  <2>2. Once(l) => Cardinality(Range(l)) = Len(l)
    <3> HIDE DEF l
    <3> QED  BY <2>1, OnceCounts, Zenon
  <2> QED  BY <2>1, <2>2, Zenon DEF PeerOK
<1>2. mPeersWithValidatedDownloadsCount = Cardinality({n \in Peers : vBlocksInFlight[n] # <<>>})
  BY <1>0, Zenon DEF Flight, Downloading
<1>3. ASSUME NEW s \in mMapBlocksInFlight PROVE HasState(s.node)
  <2>1. s \in InFlightBlock
    BY <1>0, Zenon DEF Flight, FlightTypes
  <2>2. s.block \in Blocks /\ s.node \in Peers /\ s = Source(s.block, s.node)
    BY <2>1 DEF InFlightBlock, Source
  <2>3. s.block \in Tracked(s.node)
    BY <2>2, Zenon DEF Tracked
  <2> QED  BY <1>0, <2>2, <2>3, Zenon DEF Flight
<1>4. \A i \in DOMAIN mMapBlockSender : HasState(mMapBlockSender[i].node)
  BY <1>0, Zenon DEF SendersPresent
<1> QED  BY <1>1, <1>2, <1>3, <1>4, Zenon DEF TrackerConsistent, Tracked

\* The lists of the peers, their counters and the tracker's maps agree, and a
\* peer that is gone has left nothing, however peers connect, stall, answer
\* and leave, for any number of peers, blocks and threads that validate.
THEOREM TrackerAgrees ==
  DownloadSpec => []TrackerConsistent
BY DownloadInvariant, InvTracker, PTL

\* The invariant says that the limits are kept.
LEMMA InvLimits ==
  IInv => LimitsKept
BY Zenon DEF IInv, Flight, AnnouncersListed, LimitsKept

\* The limits on peers that announce compact blocks and on parallel downloads
\* of a block hold, whatever the values of the limits are.
THEOREM LimitsHold ==
  DownloadSpec => []LimitsKept
BY DownloadInvariant, InvLimits, PTL
=============================================================================
