----------------------- MODULE ChainstateRecoveryProofs -----------------------
(***************************************************************************)
(* Proofs about ChainstateRecovery, for every block tree, every content of *)
(* its blocks and any number of crashes: what ReplayBlocks makes of the    *)
(* coins that an interrupted flush left behind are the coins of the new    *)
(* tip, and every start finds the blocks and the undo data it needs.       *)
(*                                                                         *)
(* Applying or undoing a block overwrites the outpoints that the block     *)
(* touches with values that do not depend on what was there (Over).  So    *)
(* the result of a replay differs from what is on disk only at outpoints   *)
(* of the blocks between the two heads, and there it is what a replay of   *)
(* the coins of the old head gives.                                        *)
(***************************************************************************)
EXTENDS ChainstateRecovery, NaturalsInduction, WellFoundedInduction, SequenceTheorems, TLAPS

-----------------------------------------------------------------------------
(* Sequences of overwritings. *)

\* The outpoints of t get the values of a.
Overwrite(c, t, a) == (c \ t) \union a

\* What the steps i of s write, where a step overwrites T[i] by A[i].
Written(T, A, s) == UNION {{o \in A[i] : \A j \in s : j > i => o \notin T[j]} : i \in s}
Over(c, T, A, s) == {o \in c : \A i \in s : o \notin T[i]} \union Written(T, A, s)

\* What a step leaves behind belongs to what it touches.
Nested(T, A, s) == \A i \in s : A[i] \subseteq T[i]

Steps(T, A, n) == n \in Nat /\ Nested(T, A, 1 .. n)
Among(x, n) == x \in SUBSET (1 .. n)

\* f[x] is the result of the steps in x, in their order: the recursion in MapThenFoldSet.
Folds(f, c, T, A, n) ==
  \A x : Among(x, n) =>
    f[x] = IF x = {} THEN c ELSE Overwrite(f[x \ {Max(x)}], T[Max(x)], A[Max(x)])

IsLast(m, s) == s \subseteq Nat /\ m \in s /\ \A y \in s : m >= y

\* A set of numbers has a least one.
LEMMA Least ==
  ASSUME NEW S \in SUBSET Nat, S # {}
  PROVE  \E m \in S : \A y \in S : m <= y
<1>1. IsWellFoundedOn(OpToRel(<, Nat), Nat)
  BY NatLessThanWellFounded, Zenon
<1>2. PICK m \in S : \A y \in S : ~(<<y, m>> \in OpToRel(<, Nat))
  BY <1>1, WFMin, Zenon
<1>3. \A y \in S : ~(y < m)
  BY <1>2, Zenon DEF OpToRel
<1> QED  BY <1>3, SMTT(30)

\* And a greatest one, when it is bounded.
LEMMA Greatest ==
  ASSUME NEW n \in Nat, NEW S \in SUBSET (0 .. n), S # {}
  PROVE  Max(S) \in S /\ \A y \in S : Max(S) >= y
<1> DEFINE R == {n - x : x \in S}
<1>1. R \in SUBSET Nat /\ R # {}
  <2>1. \A x \in S : n - x \in Nat
    OBVIOUS
  <2>2. PICK x \in S : TRUE
    BY Zenon
  <2>3. n - x \in R
    OBVIOUS
  <2> QED  BY <2>1, <2>3, Zenon
<1> HIDE DEF R
<1>2. PICK r \in R : \A y \in R : r <= y
  BY <1>1, Least, Zenon
<1>3. PICK m \in S : r = n - m
  BY <1>2 DEF R
<1>4. \A y \in S : m >= y
  <2>1. \A y \in S : n - y \in R
    BY DEF R
  <2> QED  BY <1>2, <1>3, <2>1
<1> QED  BY <1>4, Zenon DEF Max

\* What Written says of an outpoint.
LEMMA InWritten ==
  ASSUME NEW T, NEW A, NEW s, NEW o
  PROVE  o \in Written(T, A, s) <=> \E i \in s : o \in A[i] /\ \A j \in s : j > i => o \notin T[j]
BY DEF Written

\* The last of the steps overwrites what the others wrote.
LEMMA OverStep ==
  ASSUME NEW T, NEW A, NEW c, NEW s, Nested(T, A, s), NEW m, IsLast(m, s)
  PROVE  Over(c, T, A, s) = Overwrite(Over(c, T, A, s \ {m}), T[m], A[m])
<1>1. m \in s /\ A[m] \subseteq T[m] /\ \A y \in s \ {m} : m > y /\ ~(y > m)
  BY DEF IsLast, Nested
<1>2. ~(m > m)
  BY DEF IsLast
<1>3. ASSUME NEW o
      PROVE  o \in Over(c, T, A, s) <=> o \in (Over(c, T, A, s \ {m}) \ T[m]) \union A[m]
  <2>1. o \in Written(T, A, s) <=> \E i \in s : o \in A[i] /\ \A j \in s : j > i => o \notin T[j]
    BY InWritten, SMTT(30)
  <2>2. o \in Written(T, A, s \ {m})
          <=> \E i \in s \ {m} : o \in A[i] /\ \A j \in s \ {m} : j > i => o \notin T[j]
    BY InWritten, SMTT(30)
  <2>3. CASE o \in A[m]
    BY <1>1, <1>2, <2>1, <2>3, Zenon DEF Over
  <2>4. CASE o \notin A[m]
    <3>1. o \in Written(T, A, s) <=> o \in Written(T, A, s \ {m}) /\ o \notin T[m]
      BY <1>1, <1>2, <2>1, <2>2, <2>4, Zenon
    <3> QED  BY <1>1, <2>4, <3>1, Zenon DEF Over
  <2> QED  BY <2>3, <2>4, Zenon
<1> QED  BY <1>3, Zenon DEF Overwrite

\* Without steps nothing is overwritten.
LEMMA OverNone ==
  ASSUME NEW T, NEW A, NEW c
  PROVE  Over(c, T, A, {}) = c
BY Zenon DEF Over, Written

\* The steps 1 to n in their order lead through the states g.
LEMMA OverStates ==
  ASSUME NEW n \in Nat, NEW T, NEW A, NEW g, Nested(T, A, 1 .. n),
         \A i \in 1 .. n : g[i] = Overwrite(g[i - 1], T[i], A[i])
  PROVE  \A i \in 0 .. n : Over(g[0], T, A, 1 .. i) = g[i]
<1> DEFINE S == {i \in 0 .. n : Over(g[0], T, A, 1 .. i) # g[i]}
<1> SUFFICES ASSUME S # {} PROVE FALSE
  OBVIOUS
<1>1. S \in SUBSET Nat
  OBVIOUS
<1>2. PICK k \in S : \A y \in S : k <= y
  BY <1>1, Least, Zenon
<1>3. k \in 0 .. n /\ Over(g[0], T, A, 1 .. k) # g[k]
  BY <1>2
<1>4. k # 0
  <2>1. SUFFICES ASSUME k = 0 PROVE FALSE
    OBVIOUS
  <2>2. 1 .. k = {}
    BY <2>1
  <2>3. Over(g[0], T, A, {}) = g[0]
    BY OverNone, ZenonT(30)
  <2> QED  BY <1>3, <2>1, <2>2, <2>3
<1>5. k - 1 \in 0 .. n /\ k - 1 \notin S /\ k \in 1 .. n
  BY <1>2, <1>3, <1>4
<1>6. Over(g[0], T, A, 1 .. (k - 1)) = g[k - 1]
  BY <1>5
<1>7. IsLast(k, 1 .. k) /\ Nested(T, A, 1 .. k) /\ (1 .. k) \ {k} = 1 .. (k - 1)
  <2>1. IsLast(k, 1 .. k)
    BY <1>5 DEF IsLast
  <2>2. 1 .. k \subseteq 1 .. n /\ (1 .. k) \ {k} = 1 .. (k - 1)
    BY <1>5
  <2>3. Nested(T, A, 1 .. k)
    BY <2>2, Zenon DEF Steps, Nested
  <2> QED  BY <2>1, <2>2, <2>3
<1>8. Over(g[0], T, A, 1 .. k) = Overwrite(Over(g[0], T, A, (1 .. k) \ {k}), T[k], A[k])
  <2> DEFINE c == g[0]
             s == 1 .. k
  <2>1. IsLast(k, s) /\ Nested(T, A, s)
    BY <1>7, Zenon
  <2> HIDE DEF c, s
  <2>2. Over(c, T, A, s) = Overwrite(Over(c, T, A, s \ {k}), T[k], A[k])
    BY <2>1, OverStep, SMTT(30)
  <2> QED  BY <2>2, Zenon DEF c, s
<1> QED  BY <1>3, <1>5, <1>6, <1>7, <1>8, Zenon


\* The states g are those between the steps.
Walks(g, T, A, n) == \A i \in 1 .. n : g[i] = Overwrite(g[i - 1], T[i], A[i])

\* All the steps in their order lead to the last of the states.
LEMMA OverWalk ==
  ASSUME NEW n, NEW T, NEW A, NEW g, Steps(T, A, n), Walks(g, T, A, n)
  PROVE  Over(g[0], T, A, 1 .. n) = g[n]
<1>1. n \in Nat /\ Nested(T, A, 1 .. n) /\ \A i \in 1 .. n : g[i] = Overwrite(g[i - 1], T[i], A[i])
  BY Zenon DEF Steps, Walks
<1>2. \A i \in 0 .. n : Over(g[0], T, A, 1 .. i) = g[i]
  BY <1>1, OverStates, SMTT(30)
<1>3. n \in 0 .. n
  BY <1>1
<1> QED  BY <1>2, <1>3, Zenon

\* The result is decided by the steps that are taken.
LEMMA OverSame ==
  ASSUME NEW T, NEW A, NEW U, NEW B, NEW c, NEW s, \A i \in s : T[i] = U[i] /\ A[i] = B[i]
  PROVE  Over(c, T, A, s) = Over(c, U, B, s)
<1>1. ASSUME NEW o PROVE o \in Over(c, T, A, s) <=> o \in Over(c, U, B, s)
  <2>1. o \in Written(T, A, s) <=> \E i \in s : o \in A[i] /\ \A j \in s : j > i => o \notin T[j]
    BY InWritten, SMTT(30)
  <2>2. o \in Written(U, B, s) <=> \E i \in s : o \in B[i] /\ \A j \in s : j > i => o \notin U[j]
    BY InWritten, SMTT(30)
  <2>3. o \in Written(T, A, s) <=> o \in Written(U, B, s)
    BY <2>1, <2>2, Zenon
  <2> QED  BY <2>3, Zenon DEF Over
<1> QED  BY <1>1, Zenon

\* The steps of any set of numbers end with its greatest one.
LEMMA OverLast ==
  ASSUME NEW n, NEW T, NEW A, NEW c, Steps(T, A, n), NEW x, Among(x, n)
  PROVE  /\ x # {} => Max(x) \in x
         /\ Over(c, T, A, x) = IF x = {} THEN c
                               ELSE Overwrite(Over(c, T, A, x \ {Max(x)}), T[Max(x)], A[Max(x)])
<1> USE DEF Steps, Among
<1>1. CASE x = {}
  <2>1. Over(c, T, A, {}) = c
    BY OverNone, SMTT(30)
  <2> QED  BY <1>1, <2>1, Zenon
<1>2. CASE x # {}
  <2>1. x \in SUBSET (0 .. n)
    OBVIOUS
  <2>2. Max(x) \in x /\ \A y \in x : Max(x) >= y
    BY <1>2, <2>1, Greatest, Zenon
  <2>3. IsLast(Max(x), x) /\ Nested(T, A, x)
    <3>1. x \subseteq Nat
      OBVIOUS
    <3> QED  BY <2>2, <3>1, Zenon DEF IsLast, Nested
  <2>4. Over(c, T, A, x) = Overwrite(Over(c, T, A, x \ {Max(x)}), T[Max(x)], A[Max(x)])
    BY <2>3, OverStep, SMTT(30)
  <2> QED  BY <1>2, <2>2, <2>4, Zenon
<1> QED  BY <1>1, <1>2, Zenon

\* A fold that overwrites has done so with all its steps, in their order.
LEMMA OverFold ==
  ASSUME NEW n, NEW T, NEW A, NEW c, Steps(T, A, n), NEW f, Folds(f, c, T, A, n)
  PROVE  f[1 .. n] = Over(c, T, A, 1 .. n)
<1> USE DEF Steps, Among, Folds
<1> DEFINE g == [i \in 0 .. n |-> f[1 .. i]]
<1>1. g[0] = c
  <2>1. 1 .. 0 = {} /\ {} \in SUBSET (1 .. n) /\ 0 \in 0 .. n
    OBVIOUS
  <2> QED  BY <2>1, Zenon
<1>2. ASSUME NEW i \in 1 .. n PROVE g[i] = Overwrite(g[i - 1], T[i], A[i])
  <2>1. /\ 1 .. i \in SUBSET (1 .. n) /\ 1 .. i # {} /\ i \in 0 .. n /\ i - 1 \in 0 .. n
        /\ 1 .. i \in SUBSET (0 .. n) /\ (1 .. i) \ {i} = 1 .. (i - 1)
    <3>1. n \in Nat
      BY Zenon
    <3> HIDE DEF Steps, Among, Folds, g
    <3> QED  BY <3>1
  <2>2. Max(1 .. i) \in 1 .. i /\ \A y \in 1 .. i : Max(1 .. i) >= y
    BY <2>1, Greatest, Zenon
  <2>3. Max(1 .. i) = i
    BY <2>2
  <2>4. f[1 .. i] = Overwrite(f[(1 .. i) \ {i}], T[i], A[i])
    BY <2>1, <2>3, Zenon
  <2> QED  BY <2>1, <2>4, Zenon
<1> HIDE DEF g
<1>3. \A i \in 1 .. n : g[i] = Overwrite(g[i - 1], T[i], A[i])
  BY <1>2, Zenon
<1>4. \A i \in 0 .. n : Over(g[0], T, A, 1 .. i) = g[i]
  <2> n \in Nat /\ Nested(T, A, 1 .. n)
    BY Zenon
  <2> HIDE DEF Steps, Among, Folds
  <2> QED  BY <1>3, OverStates, SMTT(30)
<1>5. n \in 0 .. n
  OBVIOUS
<1> QED  BY <1>1, <1>4, <1>5, Zenon DEF g

-----------------------------------------------------------------------------
(* The folds of the model. *)

Transaction == [ins : SUBSET Outpoints, outs : SUBSET Outpoints]

HasSteps(s, n) == n \in Nat /\ DOMAIN s = 1 .. n

TxTouched(s) == [i \in DOMAIN s |-> s[i].ins \union s[i].outs]
TxOuts(s) == [i \in DOMAIN s |-> s[i].outs]
TxIns(s) == [i \in DOMAIN s |-> s[i].ins]

\* Applying a sequence of transactions overwrites what they touch.
LEMMA ApplyFold ==
  ASSUME NEW s, NEW n, HasSteps(s, n), NEW c
  PROVE  /\ Steps(TxTouched(s), TxOuts(s), n)
         /\ FoldLeft(AppliedTx, c, s) = Over(c, TxTouched(s), TxOuts(s), 1 .. n)
<1> DEFINE T == TxTouched(s)
           A == TxOuts(s)
<1>1. Steps(T, A, n)
  BY DEF HasSteps, Steps, Nested, TxTouched, TxOuts
<1>2. \A i \in 1 .. n : \A d : AppliedTx(d, s[i]) = Overwrite(d, T[i], A[i])
  BY DEF HasSteps, AppliedTx, Overwrite, TxTouched, TxOuts
<1> HIDE DEF T, A
<1>3. ASSUME NEW x, Among(x, n)
      PROVE  /\ x # {} => Max(x) \in x
             /\ Over(c, T, A, x) = IF x = {} THEN c
                              ELSE Overwrite(Over(c, T, A, x \ {Max(x)}), T[Max(x)], A[Max(x)])
  BY <1>1, <1>3, OverLast, SMTT(30)
<1> DEFINE Def(f) == [x \in SUBSET DOMAIN s |->
                        IF x = {} THEN c ELSE AppliedTx(f[x \ {Max(x)}], s[Max(x)])]
           F == [x \in SUBSET DOMAIN s |-> Over(c, T, A, x)]
           iter == CHOOSE f : f = Def(f)
<1>4. FoldLeft(AppliedTx, c, s) = iter[1 .. n]
  BY DEF HasSteps, FoldLeft, MapThenFoldSet
<1>5. ASSUME NEW x, Among(x, n)
      PROVE  F[x] = IF x = {} THEN c ELSE AppliedTx(F[x \ {Max(x)}], s[Max(x)])
  <2>1. x \in SUBSET DOMAIN s /\ x \ {Max(x)} \in SUBSET DOMAIN s
    BY <1>5, Zenon DEF Among, HasSteps
  <2>2. F[x] = Over(c, T, A, x) /\ F[x \ {Max(x)}] = Over(c, T, A, x \ {Max(x)})
    BY <2>1, Zenon
  <2>3. x # {} => Max(x) \in 1 .. n
    BY <1>3, <1>5, Zenon DEF Among
  <2> QED  BY <1>2, <1>3, <1>5, <2>2, <2>3, Zenon
<1>6. F = Def(F)
  BY <1>5, Zenon DEF Among, HasSteps
<1> HIDE DEF F
<1>7. iter = Def(iter)
  BY <1>6, Zenon
<1> HIDE DEF iter
<1>8. ASSUME NEW x, Among(x, n)
      PROVE  iter[x] = IF x = {} THEN c
                       ELSE Overwrite(iter[x \ {Max(x)}], T[Max(x)], A[Max(x)])
  <2>1. iter[x] = IF x = {} THEN c ELSE AppliedTx(iter[x \ {Max(x)}], s[Max(x)])
    BY <1>7, <1>8, Zenon DEF Among, HasSteps
  <2>2. x # {} => Max(x) \in 1 .. n
    BY <1>3, <1>8, Zenon DEF Among, HasSteps
  <2> QED  BY <1>2, <2>1, <2>2, Zenon
<1> HIDE DEF Def
<1>9. iter[1 .. n] = Over(c, T, A, 1 .. n)
  <2>1. Folds(iter, c, T, A, n)
    BY <1>8, Zenon DEF Folds
  <2> QED  BY <1>1, <2>1, OverFold, SMTT(30)
<1> QED  BY <1>1, <1>4, <1>9, Zenon DEF T, A


\* So does undoing it.
LEMMA UndoFold ==
  ASSUME NEW s, NEW n, HasSteps(s, n), NEW c
  PROVE  /\ Steps(TxTouched(s), TxIns(s), n)
         /\ FoldLeft(UndoneTx, c, s) = Over(c, TxTouched(s), TxIns(s), 1 .. n)
<1> DEFINE T == TxTouched(s)
           A == TxIns(s)
<1>1. Steps(T, A, n)
  BY DEF HasSteps, Steps, Nested, TxTouched, TxIns
<1>2. \A i \in 1 .. n : \A d : UndoneTx(d, s[i]) = Overwrite(d, T[i], A[i])
  BY Zenon DEF HasSteps, UndoneTx, Overwrite, TxTouched, TxIns
<1> HIDE DEF T, A
<1>3. ASSUME NEW x, Among(x, n)
      PROVE  /\ x # {} => Max(x) \in x
             /\ Over(c, T, A, x) = IF x = {} THEN c
                              ELSE Overwrite(Over(c, T, A, x \ {Max(x)}), T[Max(x)], A[Max(x)])
  BY <1>1, <1>3, OverLast, SMTT(30)
<1> DEFINE Def(f) == [x \in SUBSET DOMAIN s |->
                        IF x = {} THEN c ELSE UndoneTx(f[x \ {Max(x)}], s[Max(x)])]
           F == [x \in SUBSET DOMAIN s |-> Over(c, T, A, x)]
           iter == CHOOSE f : f = Def(f)
<1>4. FoldLeft(UndoneTx, c, s) = iter[1 .. n]
  BY DEF HasSteps, FoldLeft, MapThenFoldSet
<1>5. ASSUME NEW x, Among(x, n)
      PROVE  F[x] = IF x = {} THEN c ELSE UndoneTx(F[x \ {Max(x)}], s[Max(x)])
  <2>1. x \in SUBSET DOMAIN s /\ x \ {Max(x)} \in SUBSET DOMAIN s
    BY <1>5, Zenon DEF Among, HasSteps
  <2>2. F[x] = Over(c, T, A, x) /\ F[x \ {Max(x)}] = Over(c, T, A, x \ {Max(x)})
    BY <2>1, Zenon
  <2>3. x # {} => Max(x) \in 1 .. n
    BY <1>3, <1>5, Zenon DEF Among
  <2> QED  BY <1>2, <1>3, <1>5, <2>2, <2>3, Zenon
<1>6. F = Def(F)
  BY <1>5, Zenon DEF Among, HasSteps
<1> HIDE DEF F
<1>7. iter = Def(iter)
  BY <1>6, Zenon
<1> HIDE DEF iter
<1>8. ASSUME NEW x, Among(x, n)
      PROVE  iter[x] = IF x = {} THEN c
                       ELSE Overwrite(iter[x \ {Max(x)}], T[Max(x)], A[Max(x)])
  <2>1. iter[x] = IF x = {} THEN c ELSE UndoneTx(iter[x \ {Max(x)}], s[Max(x)])
    BY <1>7, <1>8, Zenon DEF Among, HasSteps
  <2>2. x # {} => Max(x) \in 1 .. n
    BY <1>3, <1>8, Zenon DEF Among, HasSteps
  <2> QED  BY <1>2, <2>1, <2>2, Zenon
<1> HIDE DEF Def
<1>9. iter[1 .. n] = Over(c, T, A, 1 .. n)
  <2>1. Folds(iter, c, T, A, n)
    BY <1>8, Zenon DEF Folds
  <2> QED  BY <1>1, <2>1, OverFold, SMTT(30)
<1> QED  BY <1>1, <1>4, <1>9, Zenon DEF T, A

-----------------------------------------------------------------------------
(* Blocks. *)

Created(b) == Written(TxTouched(Txs[b]), TxOuts(Txs[b]), DOMAIN Txs[b])
Restored(b) == Written(TxTouched(Reverse(Txs[b])), TxIns(Reverse(Txs[b])), DOMAIN Txs[b])

\* The transactions of a block.
LEMMA BlockTxs ==
  ASSUME NEW b \in Blocks
  PROVE  /\ HasSteps(Txs[b], Len(Txs[b])) /\ HasSteps(Reverse(Txs[b]), Len(Txs[b]))
         /\ \A i \in DOMAIN Txs[b] : Txs[b][i] \in Transaction
<1>1. Txs[b] \in Seq(Transaction)
  BY TxsTyped, Zenon DEF Transaction
<1> QED  BY <1>1 DEF HasSteps, Reverse

\* What a block touches.
LEMMA TouchedIs ==
  ASSUME NEW b \in Blocks, NEW o
  PROVE  /\ o \in Touched(b) <=> \E i \in DOMAIN Txs[b] : o \in TxTouched(Txs[b])[i]
         /\ o \in Touched(b) <=> \E i \in DOMAIN Txs[b] : o \in TxTouched(Reverse(Txs[b]))[i]
         /\ o \in Touched(b) => o \in Outpoints
<1> DEFINE s == Txs[b]
           n == Len(s)
<1>1. n \in Nat /\ DOMAIN s = 1 .. n /\ DOMAIN Reverse(s) = 1 .. n
  BY BlockTxs, Zenon DEF HasSteps
<1>2. o \in Touched(b) <=> \E i \in DOMAIN s : o \in s[i].ins \union s[i].outs
  BY Zenon DEF Touched, Range
<1>3. \A i \in DOMAIN s : TxTouched(s)[i] = s[i].ins \union s[i].outs
  BY Zenon DEF TxTouched
<1>4. \A i \in 1 .. n : TxTouched(Reverse(s))[i] = s[(n - i) + 1].ins \union s[(n - i) + 1].outs
  <2>1. \A i \in 1 .. n : Reverse(s)[i] = s[(n - i) + 1]
    BY Zenon DEF Reverse
  <2> QED  BY <1>1, <2>1, Zenon DEF TxTouched
<1>5. \A i \in 1 .. n : (n - i) + 1 \in 1 .. n /\ (n - ((n - i) + 1)) + 1 = i
  BY <1>1
<1>6. (\E i \in 1 .. n : o \in TxTouched(Reverse(s))[i])
        <=> \E i \in 1 .. n : o \in s[i].ins \union s[i].outs
  BY <1>4, <1>5, Zenon
<1>7. o \in Touched(b) => o \in Outpoints
  BY Zenon DEF Outpoints
<1> QED  BY <1>1, <1>2, <1>3, <1>6, <1>7, Zenon

\* UpdateCoins and ApplyBlockUndo give each outpoint that the block touches a
\* value of their own, whatever the coins were before.
LEMMA BlockOverwrites ==
  ASSUME NEW b \in Blocks, NEW c
  PROVE  /\ Applied(c, b) = Overwrite(c, Touched(b), Created(b))
         /\ Undone(c, b) = Overwrite(c, Touched(b), Restored(b))
         /\ Created(b) \subseteq Touched(b) /\ Restored(b) \subseteq Touched(b)
         /\ Touched(b) \subseteq Outpoints
<1> DEFINE s == Txs[b]
           n == Len(s)
           r == Reverse(s)
<1>1. HasSteps(s, n) /\ HasSteps(r, n) /\ DOMAIN s = 1 .. n
  BY BlockTxs, Zenon DEF HasSteps
<1> HIDE DEF n, r
<1>2. /\ Steps(TxTouched(s), TxOuts(s), n)
      /\ Applied(c, b) = Over(c, TxTouched(s), TxOuts(s), 1 .. n)
  BY <1>1, ApplyFold DEF Applied
<1>3. /\ Steps(TxTouched(r), TxIns(r), n)
      /\ Undone(c, b) = Over(c, TxTouched(r), TxIns(r), 1 .. n)
  BY <1>1, UndoFold DEF Undone, r
<1>4. ASSUME NEW o
      PROVE  /\ o \in Created(b) => o \in Touched(b)
             /\ o \in Over(c, TxTouched(s), TxOuts(s), 1 .. n) <=> o \in Overwrite(c, Touched(b), Created(b))
  <2>1. o \in Touched(b) <=> \E i \in 1 .. n : o \in TxTouched(s)[i]
    <3>1. o \in Touched(b) <=> \E i \in DOMAIN s : o \in TxTouched(s)[i]
      BY TouchedIs, SMTT(30)
    <3> QED  BY <1>1, <3>1, Zenon
  <2>2. o \in Created(b) => \E i \in 1 .. n : o \in TxOuts(s)[i]
    <3>1. o \in Created(b) => \E i \in DOMAIN s : o \in TxOuts(s)[i]
      BY InWritten, SMTT(30) DEF Created
    <3> QED  BY <1>1, <3>1, Zenon
  <2>3. \A i \in 1 .. n : TxOuts(s)[i] \subseteq TxTouched(s)[i]
    BY <1>2, Zenon DEF Steps, Nested
  <2> QED  BY <1>1, <2>1, <2>2, <2>3, Zenon DEF Over, Overwrite, Created
<1>5. ASSUME NEW o
      PROVE  /\ o \in Restored(b) => o \in Touched(b)
             /\ o \in Over(c, TxTouched(r), TxIns(r), 1 .. n) <=> o \in Overwrite(c, Touched(b), Restored(b))
  <2>1. o \in Touched(b) <=> \E i \in 1 .. n : o \in TxTouched(r)[i]
    <3>1. o \in Touched(b) <=> \E i \in DOMAIN s : o \in TxTouched(r)[i]
      BY TouchedIs, SMTT(30) DEF r
    <3> QED  BY <1>1, <3>1, Zenon
  <2>2. o \in Restored(b) => \E i \in 1 .. n : o \in TxIns(r)[i]
    <3>1. o \in Restored(b) => \E i \in DOMAIN s : o \in TxIns(r)[i]
      BY InWritten, SMTT(30) DEF Restored, r
    <3> QED  BY <1>1, <3>1, Zenon
  <2>3. \A i \in 1 .. n : TxIns(r)[i] \subseteq TxTouched(r)[i]
    BY <1>3, Zenon DEF Steps, Nested
  <2> QED  BY <1>1, <2>1, <2>2, <2>3, Zenon DEF Over, Overwrite, Restored, r
<1>6. Touched(b) \subseteq Outpoints
  BY TouchedIs, SMTT(30)
<1> QED  BY <1>2, <1>3, <1>4, <1>5, <1>6, Zenon

BlocksTouched(s) == [i \in DOMAIN s |-> Touched(s[i])]
BlocksCreated(s) == [i \in DOMAIN s |-> Created(s[i])]
BlocksRestored(s) == [i \in DOMAIN s |-> Restored(s[i])]

\* The roll forward of ReplayBlocks overwrites what the blocks touch.
LEMMA ForwardFold ==
  ASSUME NEW s, NEW n, HasSteps(s, n), \A i \in DOMAIN s : s[i] \in Blocks, NEW c
  PROVE  /\ Steps(BlocksTouched(s), BlocksCreated(s), n)
         /\ FoldLeft(Applied, c, s) = Over(c, BlocksTouched(s), BlocksCreated(s), 1 .. n)
<1> DEFINE T == BlocksTouched(s)
           A == BlocksCreated(s)
<1>1. Steps(T, A, n)
  <2>1. \A i \in DOMAIN s : A[i] \subseteq T[i]
    BY BlockOverwrites, Zenon DEF BlocksTouched, BlocksCreated
  <2> QED  BY <2>1, Zenon DEF HasSteps, Steps, Nested
<1>2. \A i \in 1 .. n : \A d : Applied(d, s[i]) = Overwrite(d, T[i], A[i])
  <2>1. \A i \in 1 .. n : /\ s[i] \in Blocks /\ T[i] = Touched(s[i])
                          /\ A[i] = Created(s[i])
    BY Zenon DEF HasSteps, BlocksTouched, BlocksCreated
  <2> HIDE DEF T, A
  <2> QED  BY <2>1, BlockOverwrites, SMTT(30)
<1> HIDE DEF T, A
<1>3. ASSUME NEW x, Among(x, n)
      PROVE  /\ x # {} => Max(x) \in x
             /\ Over(c, T, A, x) = IF x = {} THEN c
                              ELSE Overwrite(Over(c, T, A, x \ {Max(x)}), T[Max(x)], A[Max(x)])
  BY <1>1, <1>3, OverLast, SMTT(30)
<1> DEFINE Def(f) == [x \in SUBSET DOMAIN s |->
                        IF x = {} THEN c ELSE Applied(f[x \ {Max(x)}], s[Max(x)])]
           F == [x \in SUBSET DOMAIN s |-> Over(c, T, A, x)]
           iter == CHOOSE f : f = Def(f)
<1>4. FoldLeft(Applied, c, s) = iter[1 .. n]
  BY DEF HasSteps, FoldLeft, MapThenFoldSet
<1>5. ASSUME NEW x, Among(x, n)
      PROVE  F[x] = IF x = {} THEN c ELSE Applied(F[x \ {Max(x)}], s[Max(x)])
  <2>1. x \in SUBSET DOMAIN s /\ x \ {Max(x)} \in SUBSET DOMAIN s
    BY <1>5, Zenon DEF Among, HasSteps
  <2>2. F[x] = Over(c, T, A, x) /\ F[x \ {Max(x)}] = Over(c, T, A, x \ {Max(x)})
    BY <2>1, Zenon
  <2>3. x # {} => Max(x) \in 1 .. n
    BY <1>3, <1>5, Zenon DEF Among
  <2> QED  BY <1>2, <1>3, <1>5, <2>2, <2>3, Zenon
<1>6. F = Def(F)
  BY <1>5, Zenon DEF Among, HasSteps
<1> HIDE DEF F
<1>7. iter = Def(iter)
  BY <1>6, Zenon
<1> HIDE DEF iter
<1>8. ASSUME NEW x, Among(x, n)
      PROVE  iter[x] = IF x = {} THEN c
                       ELSE Overwrite(iter[x \ {Max(x)}], T[Max(x)], A[Max(x)])
  <2>1. iter[x] = IF x = {} THEN c ELSE Applied(iter[x \ {Max(x)}], s[Max(x)])
    BY <1>7, <1>8, Zenon DEF Among, HasSteps
  <2>2. x # {} => Max(x) \in 1 .. n
    BY <1>3, <1>8, Zenon DEF Among, HasSteps
  <2> QED  BY <1>2, <2>1, <2>2, Zenon
<1> HIDE DEF Def
<1>9. iter[1 .. n] = Over(c, T, A, 1 .. n)
  <2>1. Folds(iter, c, T, A, n)
    BY <1>8, Zenon DEF Folds
  <2> QED  BY <1>1, <2>1, OverFold, SMTT(30)
<1> QED  BY <1>1, <1>4, <1>9, Zenon DEF T, A


\* So does the roll back.
LEMMA BackwardFold ==
  ASSUME NEW s, NEW n, HasSteps(s, n), \A i \in DOMAIN s : s[i] \in Blocks, NEW c
  PROVE  /\ Steps(BlocksTouched(s), BlocksRestored(s), n)
         /\ FoldLeft(Undone, c, s) = Over(c, BlocksTouched(s), BlocksRestored(s), 1 .. n)
<1> DEFINE T == BlocksTouched(s)
           A == BlocksRestored(s)
<1>1. Steps(T, A, n)
  <2>1. \A i \in DOMAIN s : A[i] \subseteq T[i]
    BY BlockOverwrites, Zenon DEF BlocksTouched, BlocksRestored
  <2> QED  BY <2>1, Zenon DEF HasSteps, Steps, Nested
<1>2. \A i \in 1 .. n : \A d : Undone(d, s[i]) = Overwrite(d, T[i], A[i])
  <2>1. \A i \in 1 .. n : /\ s[i] \in Blocks /\ T[i] = Touched(s[i])
                          /\ A[i] = Restored(s[i])
    BY Zenon DEF HasSteps, BlocksTouched, BlocksRestored
  <2> HIDE DEF T, A
  <2> QED  BY <2>1, BlockOverwrites, SMTT(30)
<1> HIDE DEF T, A
<1>3. ASSUME NEW x, Among(x, n)
      PROVE  /\ x # {} => Max(x) \in x
             /\ Over(c, T, A, x) = IF x = {} THEN c
                              ELSE Overwrite(Over(c, T, A, x \ {Max(x)}), T[Max(x)], A[Max(x)])
  BY <1>1, <1>3, OverLast, SMTT(30)
<1> DEFINE Def(f) == [x \in SUBSET DOMAIN s |->
                        IF x = {} THEN c ELSE Undone(f[x \ {Max(x)}], s[Max(x)])]
           F == [x \in SUBSET DOMAIN s |-> Over(c, T, A, x)]
           iter == CHOOSE f : f = Def(f)
<1>4. FoldLeft(Undone, c, s) = iter[1 .. n]
  BY DEF HasSteps, FoldLeft, MapThenFoldSet
<1>5. ASSUME NEW x, Among(x, n)
      PROVE  F[x] = IF x = {} THEN c ELSE Undone(F[x \ {Max(x)}], s[Max(x)])
  <2>1. x \in SUBSET DOMAIN s /\ x \ {Max(x)} \in SUBSET DOMAIN s
    BY <1>5, Zenon DEF Among, HasSteps
  <2>2. F[x] = Over(c, T, A, x) /\ F[x \ {Max(x)}] = Over(c, T, A, x \ {Max(x)})
    BY <2>1, Zenon
  <2>3. x # {} => Max(x) \in 1 .. n
    BY <1>3, <1>5, Zenon DEF Among
  <2> QED  BY <1>2, <1>3, <1>5, <2>2, <2>3, Zenon
<1>6. F = Def(F)
  BY <1>5, Zenon DEF Among, HasSteps
<1> HIDE DEF F
<1>7. iter = Def(iter)
  BY <1>6, Zenon
<1> HIDE DEF iter
<1>8. ASSUME NEW x, Among(x, n)
      PROVE  iter[x] = IF x = {} THEN c
                       ELSE Overwrite(iter[x \ {Max(x)}], T[Max(x)], A[Max(x)])
  <2>1. iter[x] = IF x = {} THEN c ELSE Undone(iter[x \ {Max(x)}], s[Max(x)])
    BY <1>7, <1>8, Zenon DEF Among, HasSteps
  <2>2. x # {} => Max(x) \in 1 .. n
    BY <1>3, <1>8, Zenon DEF Among, HasSteps
  <2> QED  BY <1>2, <2>1, <2>2, Zenon
<1> HIDE DEF Def
<1>9. iter[1 .. n] = Over(c, T, A, 1 .. n)
  <2>1. Folds(iter, c, T, A, n)
    BY <1>8, Zenon DEF Folds
  <2> QED  BY <1>1, <2>1, OverFold, SMTT(30)
<1> QED  BY <1>1, <1>4, <1>9, Zenon DEF T, A

-----------------------------------------------------------------------------
(* The block tree. *)

\* A part of the solution of a recursion over the tree: f[b] from f[Parent[b]].
Solves(f, D, V, base, step) ==
  /\ D \in SUBSET Blocks /\ f \in [D -> V]
  /\ \A b \in D : b # Genesis => Parent[b] \in D
  /\ \A b \in D : f[b] = IF b = Genesis THEN base ELSE step[<<f[Parent[b]], b>>]

\* Two such parts agree.
LEMMA SolutionsAgree ==
  ASSUME NEW V, NEW base, NEW step, NEW f, NEW D, NEW g, NEW E,
         Solves(f, D, V, base, step), Solves(g, E, V, base, step)
  PROVE  \A b \in D \intersect E : f[b] = g[b]
<1> DEFINE S == {b \in D \intersect E : f[b] # g[b]}
<1> SUFFICES ASSUME S # {} PROVE FALSE
  OBVIOUS
<1>1. S \in (SUBSET Blocks) \ {{}}
  BY DEF Solves
<1> HIDE DEF S
<1>2. PICK b \in S : b = Genesis \/ Parent[b] \notin S
  BY <1>1, TreeGrounded, Zenon
<1>3. b \in D /\ b \in E /\ f[b] # g[b]
  BY <1>2 DEF S
<1>4. /\ f[b] = IF b = Genesis THEN base ELSE step[<<f[Parent[b]], b>>]
      /\ g[b] = IF b = Genesis THEN base ELSE step[<<g[Parent[b]], b>>]
      /\ b # Genesis => Parent[b] \in D /\ Parent[b] \in E
  BY <1>3, Zenon DEF Solves
<1>5. CASE b = Genesis
  BY <1>3, <1>4, <1>5, Zenon
<1>6. CASE b # Genesis
  <2>1. f[Parent[b]] = g[Parent[b]]
    BY <1>2, <1>4, <1>6, Zenon DEF S
  <2> QED  BY <1>3, <1>4, <1>6, <2>1, Zenon
<1> QED  BY <1>5, <1>6, Zenon

\* Every block has a part of the solution.
LEMMA SolutionsReach ==
  ASSUME NEW V, NEW base \in V, NEW step \in [V \X Blocks -> V]
  PROVE  \A b \in Blocks : \E D \in SUBSET Blocks : \E f \in [D -> V] :
           b \in D /\ Solves(f, D, V, base, step)
<1> DEFINE Has(b) == \E D \in SUBSET Blocks : \E f \in [D -> V] :
                       b \in D /\ Solves(f, D, V, base, step)
           S == {b \in Blocks : ~Has(b)}
<1> SUFFICES ASSUME S # {} PROVE FALSE
  BY Zenon
<1>1. S \in (SUBSET Blocks) \ {{}}
  BY Zenon
<1> HIDE DEF S
<1>2. PICK b \in S : b = Genesis \/ Parent[b] \notin S
  BY <1>1, TreeGrounded, Zenon
<1>3. b \in Blocks /\ ~Has(b)
  BY <1>2, Zenon DEF S
<1>4. CASE b = Genesis
  <2> DEFINE f == [x \in {b} |-> base]
  <2>1. {b} \in SUBSET Blocks /\ f \in [{b} -> V] /\ b \in {b} /\ Solves(f, {b}, V, base, step)
    BY <1>3, <1>4 DEF Solves
  <2> HIDE DEF f
  <2> QED  BY <1>3, <2>1, Zenon
<1>5. CASE b # Genesis
  <2>1. Parent[b] \in Blocks
    BY <1>3, <1>5, ParentInTree
  <2>2. Has(Parent[b])
    BY <1>2, <1>5, <2>1, Zenon DEF S
  <2>3. PICK D \in SUBSET Blocks : \E f \in [D -> V] : Parent[b] \in D /\ Solves(f, D, V, base, step)
    BY <2>2, Zenon
  <2>4. PICK f \in [D -> V] : Parent[b] \in D /\ Solves(f, D, V, base, step)
    BY <2>3, Zenon
  <2>5. b \notin D
    BY <1>3, <2>4, Zenon
  <2> HIDE DEF Has
  <2> DEFINE E == D \union {b}
             v == step[<<f[Parent[b]], b>>]
             g == [x \in E |-> IF x \in D THEN f[x] ELSE v]
  <2>6. v \in V
    BY <1>3, <2>4
  <2>7. E \in SUBSET Blocks /\ g \in [E -> V] /\ b \in E
    BY <1>3, <2>6
  <2>8. (\A x \in D : g[x] = f[x]) /\ g[b] = v
    BY <2>5
  <2>9. \A x \in D : /\ f[x] = IF x = Genesis THEN base ELSE step[<<f[Parent[x]], x>>]
                     /\ x # Genesis => Parent[x] \in D
    BY <2>4, Zenon DEF Solves
  <2> HIDE DEF g
  <2>10. ASSUME NEW x \in E
         PROVE  /\ x # Genesis => Parent[x] \in E
                /\ g[x] = IF x = Genesis THEN base ELSE step[<<g[Parent[x]], x>>]
    <3>1. CASE x \in D
      BY <2>8, <2>9, <3>1, Zenon
    <3>2. CASE x = b
      BY <1>5, <2>4, <2>8, <3>2, Zenon
    <3> QED  BY <3>1, <3>2, Zenon
  <2> HIDE DEF E
  <2>11. Solves(g, E, V, base, step)
    BY <2>7, <2>10, Zenon DEF Solves
  <2> QED  BY <1>3, <2>7, <2>11, Zenon DEF Has
<1> QED  BY <1>4, <1>5, Zenon

Solvable(V, base, step) ==
  \E f \in [Blocks -> V] :
    \A b \in Blocks : f[b] = IF b = Genesis THEN base ELSE step[<<f[Parent[b]], b>>]

\* A recursion over the block tree has a solution.
LEMMA TreeRecursion ==
  ASSUME NEW V, NEW base \in V, NEW step \in [V \X Blocks -> V]
  PROVE  Solvable(V, base, step)
<1> DEFINE Is(b, v) == \E D \in SUBSET Blocks : \E f \in [D -> V] :
                         b \in D /\ Solves(f, D, V, base, step) /\ v = f[b]
           F == [b \in Blocks |-> CHOOSE v \in V : Is(b, v)]
<1>1. ASSUME NEW b \in Blocks PROVE F[b] \in V /\ Is(b, F[b])
  <2>1. PICK D \in SUBSET Blocks : \E f \in [D -> V] : b \in D /\ Solves(f, D, V, base, step)
    BY SolutionsReach, Zenon
  <2>2. PICK f \in [D -> V] : b \in D /\ Solves(f, D, V, base, step)
    BY <2>1, Zenon
  <2>3. f[b] \in V /\ Is(b, f[b])
    BY <2>2, Zenon
  <2> HIDE DEF Is
  <2> QED  BY <2>3, Zenon
<1>2. F \in [Blocks -> V]
  BY <1>1, Zenon
<1> HIDE DEF F
<1>3. ASSUME NEW b \in Blocks, NEW D \in SUBSET Blocks, NEW f \in [D -> V],
             b \in D, Solves(f, D, V, base, step)
      PROVE  F[b] = f[b]
  <2>1. PICK E \in SUBSET Blocks :
          \E g \in [E -> V] : b \in E /\ Solves(g, E, V, base, step) /\ F[b] = g[b]
    BY <1>1, Zenon
  <2>2. PICK g \in [E -> V] : b \in E /\ Solves(g, E, V, base, step) /\ F[b] = g[b]
    BY <2>1, Zenon
  <2>3. \A x \in E \intersect D : g[x] = f[x]
    BY <1>3, <2>2, SolutionsAgree
  <2> QED  BY <1>3, <2>2, <2>3, Zenon
<1>4. ASSUME NEW b \in Blocks
      PROVE  F[b] = IF b = Genesis THEN base ELSE step[<<F[Parent[b]], b>>]
  <2>1. PICK D \in SUBSET Blocks : \E f \in [D -> V] : b \in D /\ Solves(f, D, V, base, step)
    BY SolutionsReach, Zenon
  <2>2. PICK f \in [D -> V] : b \in D /\ Solves(f, D, V, base, step)
    BY <2>1, Zenon
  <2>3. /\ b # Genesis => Parent[b] \in D
        /\ f[b] = IF b = Genesis THEN base ELSE step[<<f[Parent[b]], b>>]
    BY <2>2, Zenon DEF Solves
  <2>4. F[b] = f[b] /\ (b # Genesis => F[Parent[b]] = f[Parent[b]])
    BY <1>3, <2>2, <2>3, Zenon
  <2> QED  BY <2>3, <2>4, Zenon
<1> QED  BY <1>2, <1>4, Zenon DEF Solvable

\* Chain is what its definition says.
LEMMA ChainDef ==
  \A b \in Blocks : Chain[b] = IF b = Genesis THEN <<b>> ELSE Append(Chain[Parent[b]], b)
<1> DEFINE V == Seq(Blocks)
           step == [x \in V \X Blocks |-> Append(x[1], x[2])]
           Def(f) == [b \in Blocks |-> IF b = Genesis THEN <<b>> ELSE Append(f[Parent[b]], b)]
<1>1. <<Genesis>> \in V /\ step \in [V \X Blocks -> V]
  BY GenesisInTree
<1>2. \A s \in V : \A b \in Blocks : step[<<s, b>>] = Append(s, b)
  OBVIOUS
<1> HIDE DEF V, step
<1>3. PICK f \in [Blocks -> V] :
        \A b \in Blocks : f[b] = IF b = Genesis THEN <<Genesis>> ELSE step[<<f[Parent[b]], b>>]
  <2>1. Solvable(V, <<Genesis>>, step)
    BY <1>1, TreeRecursion, Zenon
  <2> QED  BY <2>1, Zenon DEF Solvable
<1>4. ASSUME NEW b \in Blocks
      PROVE  f[b] = IF b = Genesis THEN <<b>> ELSE Append(f[Parent[b]], b)
  <2>1. b # Genesis => Parent[b] \in Blocks /\ f[Parent[b]] \in V
    BY ParentInTree
  <2> QED  BY <1>2, <1>3, <2>1, Zenon
<1>5. f = Def(f)
  BY <1>4, Zenon
<1>6. Chain = CHOOSE h : h = Def(h)
  BY DEF Chain
<1>7. Chain = Def(Chain)
  BY <1>5, <1>6, Zenon
<1> QED  BY <1>7, Zenon

\* What a chain looks like: from the genesis block to b, each block above its parent.
Leads(s, b) ==
  /\ s \in Seq(Blocks) /\ Len(s) >= 1 /\ s[1] = Genesis /\ s[Len(s)] = b
  /\ \A i \in 2 .. Len(s) : s[i] \in Blocks \ {Genesis} /\ Parent[s[i]] = s[i - 1]

\* The chain of a block leads to it.
LEMMA ChainLeads == \A b \in Blocks : Leads(Chain[b], b)
<1> DEFINE S == {b \in Blocks : ~Leads(Chain[b], b)}
<1> SUFFICES ASSUME S # {} PROVE FALSE
  OBVIOUS
<1>1. S \in (SUBSET Blocks) \ {{}}
  BY Zenon
<1> HIDE DEF S
<1>2. PICK b \in S : b = Genesis \/ Parent[b] \notin S
  BY <1>1, TreeGrounded, Zenon
<1>3. b \in Blocks /\ ~Leads(Chain[b], b)
  BY <1>2, Zenon DEF S
<1>4. CASE b = Genesis
  <2>1. Chain[b] = <<b>>
    BY <1>3, <1>4, ChainDef, Zenon
  <2> QED  BY <1>3, <1>4, <2>1 DEF Leads
<1>5. CASE b # Genesis
  <2>1. Parent[b] \in Blocks
    BY <1>3, <1>5, ParentInTree
  <2>2. Chain[b] = Append(Chain[Parent[b]], b)
    BY <1>3, <1>5, ChainDef, Zenon
  <2>3. Leads(Chain[Parent[b]], Parent[b])
    BY <1>2, <1>5, <2>1, Zenon DEF S
  <2> DEFINE s == Chain[Parent[b]]
             t == Chain[b]
             n == Len(s)
  <2>4. /\ s \in Seq(Blocks) /\ n \in Nat /\ n >= 1 /\ s[1] = Genesis /\ s[n] = Parent[b]
        /\ \A i \in 2 .. n : s[i] \in Blocks \ {Genesis} /\ Parent[s[i]] = s[i - 1]
    BY <2>3 DEF Leads
  <2>5. t = Append(s, b)
    BY <2>2
  <2> HIDE DEF s, t
  <2>6. /\ t \in Seq(Blocks) /\ Len(t) = n + 1 /\ t[n + 1] = b
        /\ \A i \in 1 .. n : t[i] = s[i]
    BY <1>3, <2>4, <2>5
  <2> HIDE DEF n
  <2>7. ASSUME NEW i \in 2 .. Len(t)
        PROVE  t[i] \in Blocks \ {Genesis} /\ Parent[t[i]] = t[i - 1]
    <3>1. CASE i = n + 1
      <4>1. n \in 1 .. n /\ i - 1 = n
        BY <2>4, <3>1
      <4> QED  BY <1>3, <1>5, <2>4, <2>6, <3>1, <4>1, Zenon
    <3>2. CASE i # n + 1
      <4>1. i \in 2 .. n /\ i \in 1 .. n /\ i - 1 \in 1 .. n
        BY <2>4, <2>6, <3>2
      <4> QED  BY <2>4, <2>6, <4>1, Zenon
    <3> QED  BY <3>1, <3>2, Zenon
  <2>8. Len(t) >= 1 /\ t[1] = Genesis /\ t[Len(t)] = b
    BY <2>4, <2>6
  <2>9. Leads(t, b)
    BY <2>6, <2>7, <2>8, Zenon DEF Leads
  <2> QED  BY <1>3, <2>9, Zenon DEF t
<1> QED  BY <1>4, <1>5, Zenon

\* Utxo is what its definition says, and names outpoints of blocks only.
LEMMA UtxoDef ==
  /\ \A b \in Blocks : Utxo[b] = IF b = Genesis THEN {} ELSE Applied(Utxo[Parent[b]], b)
  /\ \A b \in Blocks : Utxo[b] \in SUBSET Outpoints
<1> DEFINE V == SUBSET Outpoints
           step == [x \in V \X Blocks |-> Applied(x[1], x[2])]
           Def(f) == [b \in Blocks |-> IF b = Genesis THEN {} ELSE Applied(f[Parent[b]], b)]
<1>1. \A c \in V : \A b \in Blocks : Applied(c, b) \in V
  <2>1. ASSUME NEW c \in V, NEW b \in Blocks PROVE Applied(c, b) \in V
    <3>1. /\ Applied(c, b) = Overwrite(c, Touched(b), Created(b))
          /\ Created(b) \subseteq Touched(b) /\ Touched(b) \subseteq Outpoints
      BY BlockOverwrites
    <3> QED  BY <3>1 DEF Overwrite
  <2> QED  BY <2>1, Zenon
<1>2. {} \in V /\ step \in [V \X Blocks -> V]
  BY <1>1
<1>3. \A c \in V : \A b \in Blocks : step[<<c, b>>] = Applied(c, b)
  OBVIOUS
<1> HIDE DEF V, step
<1>4. PICK f \in [Blocks -> V] :
        \A b \in Blocks : f[b] = IF b = Genesis THEN {} ELSE step[<<f[Parent[b]], b>>]
  <2>1. Solvable(V, {}, step)
    BY <1>2, TreeRecursion, Zenon
  <2> QED  BY <2>1, Zenon DEF Solvable
<1>5. ASSUME NEW b \in Blocks
      PROVE  f[b] = IF b = Genesis THEN {} ELSE Applied(f[Parent[b]], b)
  <2>1. b # Genesis => Parent[b] \in Blocks /\ f[Parent[b]] \in V
    BY ParentInTree
  <2> QED  BY <1>3, <1>4, <2>1, Zenon
<1>6. f = Def(f)
  BY <1>5, Zenon
<1>7. Utxo = CHOOSE h : h = Def(h)
  BY DEF Utxo
<1>8. Utxo = Def(Utxo)
  BY <1>6, <1>7, Zenon
<1>9. \A b \in Blocks : Utxo[b] = IF b = Genesis THEN {} ELSE Applied(Utxo[Parent[b]], b)
  BY <1>8, Zenon
<1> DEFINE S == {b \in Blocks : Utxo[b] \notin V}
<1>10. S = {}
  <2> SUFFICES ASSUME S # {} PROVE FALSE
    OBVIOUS
  <2>1. S \in (SUBSET Blocks) \ {{}}
    BY Zenon
  <2> HIDE DEF S
  <2>2. PICK b \in S : b = Genesis \/ Parent[b] \notin S
    BY <2>1, TreeGrounded, Zenon
  <2>3. b \in Blocks /\ Utxo[b] \notin V /\ (b # Genesis => Parent[b] \in Blocks)
    BY <2>2, ParentInTree DEF S
  <2> QED  BY <1>1, <1>2, <1>9, <2>2, <2>3, ZenonT(30) DEF S
<1> QED  BY <1>9, <1>10, Zenon DEF V

-----------------------------------------------------------------------------
(* Undoing a block. *)

\* The coins after the first i transactions of a block.
State(b, i) == FoldLeft(AppliedTx, Utxo[Parent[b]], SubSeq(Txs[b], 1, i))

\* Those coins, as the result of overwritings.
LEMMA StateIs ==
  ASSUME NEW b \in Blocks, NEW i \in 0 .. Len(Txs[b])
  PROVE  State(b, i) = Over(Utxo[Parent[b]], TxTouched(Txs[b]), TxOuts(Txs[b]), 1 .. i)
<1> DEFINE s == Txs[b]
           p == SubSeq(s, 1, i)
           c == Utxo[Parent[b]]
<1>1. s \in Seq(Transaction) /\ Len(s) \in Nat /\ DOMAIN s = 1 .. Len(s)
  <2>1. s \in Seq(Transaction)
    BY TxsTyped, Zenon DEF Transaction
  <2> HIDE DEF s
  <2> QED  BY <2>1
<1>2. i \in Nat /\ DOMAIN p = 1 .. i /\ (\A j \in 1 .. i : p[j] = s[j]) /\ 1 .. i \subseteq 1 .. Len(s)
  <2> HIDE DEF s
  <2> QED  BY <1>1 DEF s
<1>3. HasSteps(p, i)
  BY <1>2, Zenon DEF HasSteps
<1>4. \A j \in 1 .. i : TxTouched(p)[j] = TxTouched(s)[j] /\ TxOuts(p)[j] = TxOuts(s)[j]
  BY <1>1, <1>2, Zenon DEF TxTouched, TxOuts
<1> HIDE DEF p, c, s
<1>5. FoldLeft(AppliedTx, c, p) = Over(c, TxTouched(p), TxOuts(p), 1 .. i)
  BY <1>3, ApplyFold, SMTT(30)
<1>6. Over(c, TxTouched(p), TxOuts(p), 1 .. i) = Over(c, TxTouched(s), TxOuts(s), 1 .. i)
  <2> DEFINE x == 1 .. i
             T == TxTouched(p)
             A == TxOuts(p)
             U == TxTouched(s)
             B == TxOuts(s)
  <2>1. \A j \in x : T[j] = U[j] /\ A[j] = B[j]
    BY <1>4, Zenon
  <2> HIDE DEF x, T, A, U, B
  <2>2. Over(c, T, A, x) = Over(c, U, B, x)
    BY <2>1, OverSame, SMTT(30)
  <2> QED  BY <2>2, Zenon DEF x, T, A, U, B
<1> QED  BY <1>5, <1>6, Zenon DEF State, p, c, s

\* Each transaction makes the next of these coins, and they end with those of the block.
LEMMA StateSteps ==
  ASSUME NEW b \in Blocks \ {Genesis}
  PROVE  /\ State(b, 0) = Utxo[Parent[b]] /\ State(b, Len(Txs[b])) = Utxo[b]
         /\ \A i \in 1 .. Len(Txs[b]) : State(b, i) = AppliedTx(State(b, i - 1), Txs[b][i])
<1> DEFINE s == Txs[b]
           n == Len(s)
           c == Utxo[Parent[b]]
           T == TxTouched(s)
           A == TxOuts(s)
<1>1. s \in Seq(Transaction) /\ n \in Nat /\ DOMAIN s = 1 .. n /\ SubSeq(s, 1, n) = s
  <2>1. s \in Seq(Transaction)
    BY TxsTyped, Zenon DEF Transaction
  <2> HIDE DEF s
  <2> QED  BY <2>1
<1>2. Steps(T, A, n)
  BY BlockTxs, ApplyFold, Zenon
<1>3. \A i \in 0 .. n : State(b, i) = Over(c, T, A, 1 .. i)
  BY StateIs, Zenon
<1>4. State(b, 0) = c
  <2>1. 0 \in 0 .. n /\ 1 .. 0 = {}
    BY <1>1
  <2>2. Over(c, T, A, {}) = c
    BY OverNone, SMTT(30)
  <2> QED  BY <1>3, <2>1, <2>2, Zenon
<1>5. State(b, n) = Utxo[b]
  <2>1. Utxo[b] = Applied(c, b)
    BY UtxoDef, Zenon
  <2> QED  BY <1>1, <2>1, Zenon DEF State, Applied
<1>6. ASSUME NEW i \in 1 .. n PROVE State(b, i) = AppliedTx(State(b, i - 1), s[i])
  <2> HIDE DEF s, T, A, c, n
  <2>1. /\ i \in 0 .. n /\ i - 1 \in 0 .. n /\ (1 .. i) \ {i} = 1 .. (i - 1) /\ 1 .. i \subseteq 1 .. n
        /\ 1 .. i \subseteq Nat /\ i \in 1 .. i /\ \A y \in 1 .. i : i >= y
    BY <1>1
  <2> DEFINE x == 1 .. i
  <2>2. IsLast(i, x) /\ Nested(T, A, x)
    BY <1>2, <2>1, Zenon DEF IsLast, Nested, Steps
  <2> HIDE DEF x
  <2>3. Over(c, T, A, x) = Overwrite(Over(c, T, A, x \ {i}), T[i], A[i])
    BY <2>2, OverStep, SMTT(30)
  <2>4. State(b, i) = Overwrite(State(b, i - 1), T[i], A[i])
    BY <1>3, <2>1, <2>3, Zenon DEF x
  <2>5. T[i] = s[i].ins \union s[i].outs /\ A[i] = s[i].outs
    BY <1>1, Zenon DEF T, A, TxTouched, TxOuts
  <2> QED  BY <2>4, <2>5 DEF Overwrite, AppliedTx
<1> QED  BY <1>4, <1>5, <1>6, Zenon

\* What is left of a sequence without its first i elements.
LEMMA SuffixIs ==
  ASSUME NEW S, NEW s \in Seq(S), NEW i \in 0 .. Len(s)
  PROVE  /\ SubSeq(s, i + 1, Len(s)) \in Seq(S)
         /\ Len(SubSeq(s, i + 1, Len(s))) = Len(s) - i
         /\ DOMAIN SubSeq(s, i + 1, Len(s)) = 1 .. (Len(s) - i)
         /\ \A j \in 1 .. (Len(s) - i) : SubSeq(s, i + 1, Len(s))[j] = s[i + j]
<1> DEFINE n == Len(s)
           q == SubSeq(s, i + 1, n)
<1>1. /\ n \in Nat /\ i \in Nat /\ i <= n /\ i + 1 \in Int /\ n \in Int
      /\ \A j \in (i + 1) .. n : s[j] \in S
  OBVIOUS
<1> HIDE DEF n
<1>2. /\ q \in Seq(S) /\ Len(q) = (IF i + 1 <= n THEN n - (i + 1) + 1 ELSE 0)
      /\ \A j \in 1 .. (n - (i + 1) + 1) : q[j] = s[(i + 1) + j - 1]
  <2> DEFINE m == i + 1
  <2>1. m \in Int /\ n \in Int /\ \A j \in m .. n : s[j] \in S
    BY <1>1, Zenon
  <2> HIDE DEF m
  <2>2. SubSeq(s, m, n) \in Seq(S)
    BY <2>1, SubSeqProperties, Zenon
  <2>3. Len(SubSeq(s, m, n)) = IF m <= n THEN n - m + 1 ELSE 0
    BY <2>1, SubSeqProperties
  <2>4. \A j \in 1 .. (n - m + 1) : SubSeq(s, m, n)[j] = s[m + j - 1]
    BY <2>1, SubSeqProperties
  <2> QED  BY <2>2, <2>3, <2>4, Zenon DEF m
<1> HIDE DEF q
<1>3. Len(q) = n - i
  BY <1>1, <1>2
<1>4. DOMAIN q = 1 .. (n - i)
  BY <1>2, <1>3
<1>5. ASSUME NEW j \in 1 .. (n - i) PROVE q[j] = s[i + j]
  <2>1. j \in 1 .. (n - (i + 1) + 1) /\ (i + 1) + j - 1 = i + j
    BY <1>1
  <2> QED  BY <1>2, <2>1, Zenon
<1> QED  BY <1>2, <1>3, <1>4, <1>5, Zenon DEF n, q

\* ApplyBlockUndo, as far as transaction i, brings back the coins before the next one.
LEMMA UndoneStates ==
  ASSUME NEW b \in Blocks \ {Genesis}, NEW i \in 0 .. Len(Txs[b])
  PROVE  FoldLeft(UndoneTx, Utxo[b], Reverse(SubSeq(Txs[b], i + 1, Len(Txs[b])))) = State(b, i)
<1> DEFINE s == Txs[b]
           n == Len(s)
           q == SubSeq(s, i + 1, n)
           r == Reverse(q)
           m == n - i
           T == TxTouched(r)
           A == TxIns(r)
           g == [j \in 0 .. m |-> State(b, n - j)]
<1>1. s \in Seq(Transaction) /\ n \in Nat /\ DOMAIN s = 1 .. n /\ i \in 0 .. n
  <2>1. s \in Seq(Transaction)
    BY TxsTyped, Zenon DEF Transaction
  <2>2. i \in 0 .. n
    OBVIOUS
  <2> HIDE DEF s
  <2> QED  BY <2>1, <2>2
<1>2. /\ m \in Nat /\ Len(q) = m /\ DOMAIN q = 1 .. m
      /\ \A j \in 1 .. m : q[j] = s[i + j]
  <2>1. /\ Len(q) = n - i /\ DOMAIN q = 1 .. (n - i)
        /\ \A j \in 1 .. (n - i) : q[j] = s[i + j]
    BY <1>1, SuffixIs, Zenon
  <2>2. m \in Nat
    <3> HIDE DEF s, n
    <3> QED  BY <1>1
  <2> QED  BY <2>1, <2>2, Zenon
<1>3. DOMAIN r = 1 .. m /\ \A j \in 1 .. m : r[j] = s[(n - j) + 1]
  <2> HIDE DEF s, n, q, m
  <2>1. \A j \in 1 .. m : (m - j) + 1 \in 1 .. m
    BY <1>2
  <2>2. \A j \in 1 .. m : i + ((m - j) + 1) = (n - j) + 1
    BY <1>1, <1>2 DEF m
  <2> QED  BY <1>2, <2>1, <2>2, Zenon DEF Reverse
<1>4. HasSteps(r, m)
  BY <1>2, <1>3, Zenon DEF HasSteps
<1> HIDE DEF r, q
<1>5. Steps(T, A, m) /\ FoldLeft(UndoneTx, Utxo[b], r) = Over(Utxo[b], T, A, 1 .. m)
  BY <1>4, UndoFold
<1>6. Walks(g, T, A, m)
  <2>1. ASSUME NEW j \in 1 .. m PROVE g[j] = Overwrite(g[j - 1], T[j], A[j])
    <3> DEFINE k == (n - j) + 1
               coins == State(b, k - 1)
    <3>1. k \in 1 .. n /\ k - 1 = n - j /\ n - (j - 1) = k /\ j \in 0 .. m /\ j - 1 \in 0 .. m
      <4> HIDE DEF s, n, g, T, A
      <4> QED  BY <1>1, <1>2
    <3>2. g[j] = coins /\ g[j - 1] = State(b, k)
      BY <3>1, Zenon
    <3>3. State(b, k) = AppliedTx(coins, s[k])
      BY <3>1, StateSteps, Zenon
    <3>4. s[k].ins \subseteq coins /\ s[k].outs \intersect coins = {}
      BY <1>1, <3>1, ChainsValid, Zenon DEF State
    <3>5. T[j] = s[k].ins \union s[k].outs /\ A[j] = s[k].ins
      BY <1>3, Zenon DEF TxTouched, TxIns
    <3> HIDE DEF k, coins, g, T, A, s
    <3>6. AppliedTx(coins, s[k]) = (coins \ s[k].ins) \union s[k].outs
      BY DEF AppliedTx
    <3>7. Overwrite(AppliedTx(coins, s[k]), s[k].ins \union s[k].outs, s[k].ins) = coins
      BY <3>4, <3>6, Zenon DEF Overwrite
    <3> QED  BY <3>2, <3>3, <3>5, <3>7, Zenon
  <2> QED  BY <2>1, Zenon DEF Walks
<1>7. g[0] = Utxo[b] /\ g[m] = State(b, i)
  <2>1. 0 \in 0 .. m /\ m \in 0 .. m /\ n - 0 = n /\ n - m = i
    <3> HIDE DEF s, n, g, T, A
    <3> QED  BY <1>1, <1>2 DEF m
  <2>2. State(b, n) = Utxo[b]
    BY StateSteps, Zenon
  <2> QED  BY <2>1, <2>2, Zenon
<1> HIDE DEF g, T, A, m, n
<1>8. Over(g[0], T, A, 1 .. m) = g[m]
  BY <1>5, <1>6, OverWalk, SMTT(30)
<1> QED  BY <1>5, <1>7, <1>8, Zenon DEF r, q, n

\* DisconnectBlock brings back the coins of the parent.
LEMMA UndoneBlock ==
  ASSUME NEW b \in Blocks \ {Genesis}
  PROVE  Undone(Utxo[b], b) = Utxo[Parent[b]]
<1> DEFINE s == Txs[b]
<1>1. s \in Seq(Transaction)
  BY TxsTyped, Zenon DEF Transaction
<1>2. 0 \in 0 .. Len(s) /\ SubSeq(s, 0 + 1, Len(s)) = s
  <2> HIDE DEF s
  <2> QED  BY <1>1
<1>3. FoldLeft(UndoneTx, Utxo[b], Reverse(SubSeq(s, 0 + 1, Len(s)))) = State(b, 0)
  BY <1>2, UndoneStates, Zenon
<1> QED  BY <1>2, <1>3, StateSteps, Zenon DEF Undone

\* So does every part of it find the outputs it removes and no input it restores.
LEMMA UndoneCleanly ==
  ASSUME NEW b \in Blocks \ {Genesis}, NEW i \in DOMAIN Txs[b]
  PROVE  LET later == FoldLeft(UndoneTx, Utxo[b], Reverse(SubSeq(Txs[b], i + 1, Len(Txs[b]))))
         IN Txs[b][i].outs \subseteq later /\ Txs[b][i].ins \intersect later = {}
<1> DEFINE s == Txs[b]
           coins == State(b, i - 1)
<1>1. s \in Seq(Transaction)
  BY TxsTyped, Zenon DEF Transaction
<1>2. i \in 0 .. Len(s) /\ i \in 1 .. Len(s)
  <2>1. i \in DOMAIN s
    OBVIOUS
  <2> HIDE DEF s
  <2> QED  BY <1>1, <2>1
<1>3. FoldLeft(UndoneTx, Utxo[b], Reverse(SubSeq(s, i + 1, Len(s)))) = State(b, i)
  BY <1>2, UndoneStates, Zenon
<1>4. State(b, i) = (coins \ s[i].ins) \union s[i].outs
  BY <1>2, StateSteps, Zenon DEF AppliedTx
<1>5. s[i].ins \subseteq coins /\ s[i].outs \intersect coins = {}
  BY ChainsValid, Zenon DEF State
<1>6. s[i].outs \subseteq State(b, i) /\ s[i].ins \intersect State(b, i) = {}
  <2> HIDE DEF coins, s
  <2> QED  BY <1>4, <1>5, Zenon
<1> QED  BY <1>3, <1>6, Zenon

-----------------------------------------------------------------------------
(* The path from the old head to the new one. *)

Agree(s, t, k) == k \in 1 .. Len(s) /\ k \in 1 .. Len(t) /\ s[k] = t[k]

\* Two sequences that begin alike have a last place where they agree.
LEMMA LastAgreed ==
  ASSUME NEW S, NEW s \in Seq(S), NEW t \in Seq(S), Len(s) >= 1, Len(t) >= 1, s[1] = t[1]
  PROVE  Agree(s, t, Max({i \in DOMAIN s \intersect DOMAIN t : s[i] = t[i]}))
<1> DEFINE n == Len(s)
           C == {i \in DOMAIN s \intersect DOMAIN t : s[i] = t[i]}
<1>1. n \in Nat /\ DOMAIN s = 1 .. Len(s) /\ DOMAIN t = 1 .. Len(t) /\ Len(t) \in Nat
  OBVIOUS
<1>2. C \in SUBSET (0 .. n) /\ 1 \in C
  BY <1>1
<1> HIDE DEF n
<1>3. Max(C) \in C
  <2> HIDE DEF C
  <2> QED  BY <1>1, <1>2, Greatest, Zenon
<1> DEFINE m == Max(C)
<1>4. m \in C
  BY <1>3
<1> HIDE DEF m
<1>5. Agree(s, t, m)
  BY <1>1, <1>4, Zenon DEF Agree
<1> QED  BY <1>5, Zenon DEF m

\* What the elements of a chain are.
LEMMA ChainAt ==
  ASSUME NEW b \in Blocks
  PROVE  /\ Chain[b] \in Seq(Blocks) /\ Len(Chain[b]) \in Nat /\ Len(Chain[b]) >= 1
         /\ Chain[b][1] = Genesis /\ Chain[b][Len(Chain[b])] = b
         /\ \A i \in 1 .. Len(Chain[b]) : Chain[b][i] \in Blocks
         /\ \A i \in 2 .. Len(Chain[b]) :
              Chain[b][i] \in Blocks \ {Genesis} /\ Parent[Chain[b][i]] = Chain[b][i - 1]
<1> DEFINE c == Chain[b]
<1>1. Leads(c, b)
  BY ChainLeads, Zenon
<1> HIDE DEF c
<1>2. c \in Seq(Blocks) /\ Len(c) >= 1 /\ c[1] = Genesis /\ c[Len(c)] = b
  BY <1>1, Zenon DEF Leads
<1>3. \A i \in 2 .. Len(c) : c[i] \in Blocks \ {Genesis} /\ Parent[c[i]] = c[i - 1]
  BY <1>1, Zenon DEF Leads
<1>4. Len(c) \in Nat /\ \A i \in 1 .. Len(c) : c[i] \in Blocks
  BY <1>2
<1> QED  BY <1>2, <1>3, <1>4, Zenon DEF c

\* What the replay needs to know of the blocks it goes through.
OnChain(s, b) == \A i \in DOMAIN s : \E j \in 2 .. Len(Chain[b]) : s[i] = Chain[b][j]

\* The blocks of a chain above the k-th, applied to the coins of that one, give
\* the coins of the last one.
LEMMA ForwardPath ==
  ASSUME NEW b \in Blocks, NEW k \in 1 .. Len(Chain[b])
  PROVE  /\ HasSteps(Above(b, k), Len(Chain[b]) - k)
         /\ OnChain(Above(b, k), b)
         /\ \A i \in DOMAIN Above(b, k) : Above(b, k)[i] \in Blocks
         /\ FoldLeft(Applied, Utxo[Chain[b][k]], Above(b, k)) = Utxo[b]
<1> DEFINE c == Chain[b]
           m == Len(c)
           n == m - k
           s == Above(b, k)
           g == [i \in 0 .. n |-> Utxo[c[k + i]]]
           T == BlocksTouched(s)
           A == BlocksCreated(s)
<1>1. /\ c \in Seq(Blocks) /\ m \in Nat /\ m >= 1 /\ c[m] = b
      /\ \A i \in 1 .. m : c[i] \in Blocks
      /\ \A i \in 2 .. m : c[i] \in Blocks \ {Genesis} /\ Parent[c[i]] = c[i - 1]
  BY ChainAt, Zenon
<1>2. k \in 1 .. m /\ k \in 0 .. m
  <2>1. k \in 1 .. m
    OBVIOUS
  <2> HIDE DEF m
  <2> QED  BY <1>1, <2>1
<1>3. DOMAIN s = 1 .. n /\ \A j \in 1 .. n : s[j] = c[k + j]
  <2>1. s = SubSeq(c, k + 1, Len(c))
    BY Zenon DEF Above
  <2>2. c \in Seq(Blocks) /\ k \in 0 .. Len(c)
    BY <1>1, <1>2, Zenon
  <2> HIDE DEF c, s
  <2> QED  BY <2>1, <2>2, SuffixIs, SMTT(30)
<1> HIDE DEF c, m, s
<1>4. n \in Nat /\ \A j \in 1 .. n : k + j \in 2 .. m /\ k + j - 1 = k + (j - 1) /\ k + j \in 1 .. m
  BY <1>1, <1>2
<1>5. HasSteps(s, n)
  BY <1>3, <1>4, Zenon DEF HasSteps
<1>6. \A i \in DOMAIN s : s[i] \in Blocks \ {Genesis} /\ \E j \in 2 .. m : s[i] = c[j]
  BY <1>1, <1>3, <1>4, Zenon
<1>7. ASSUME NEW x PROVE Steps(T, A, n) /\ FoldLeft(Applied, x, s) = Over(x, T, A, 1 .. n)
  <2> HIDE DEF T, A, n
  <2> QED  BY <1>5, <1>6, ForwardFold, SMTT(30) DEF T, A
<1>8. Walks(g, T, A, n)
  <2> SUFFICES ASSUME NEW i \in 1 .. n PROVE g[i] = Overwrite(g[i - 1], T[i], A[i])
    BY Zenon DEF Walks
  <2>1. i \in 0 .. n /\ i - 1 \in 0 .. n
    BY <1>4
  <2>2. g[i] = Utxo[c[k + i]] /\ g[i - 1] = Utxo[c[k + (i - 1)]]
    BY <2>1, Zenon
  <2>3. s[i] = c[k + i] /\ s[i] \in Blocks \ {Genesis} /\ Parent[s[i]] = c[k + (i - 1)]
    <3>1. k + i \in 2 .. m /\ k + i - 1 = k + (i - 1)
      BY <1>4, Zenon
    <3> DEFINE j == k + i
               h == k + (i - 1)
    <3>2. j \in 2 .. m /\ h = j - 1 /\ s[i] = c[j]
      BY <3>1, <1>3
    <3> HIDE DEF j, h
    <3>3. Parent[c[j]] = c[j - 1] /\ c[j] \in Blocks \ {Genesis}
      BY <3>2, <1>1, Zenon
    <3>4. s[i] = c[j] /\ s[i] \in Blocks \ {Genesis} /\ Parent[s[i]] = c[h]
      BY <3>2, <3>3, Zenon
    <3> QED  BY <3>4, Zenon DEF j, h
  <2>4. T[i] = Touched(s[i]) /\ A[i] = Created(s[i])
    BY <1>3, Zenon DEF BlocksTouched, BlocksCreated
  <2> HIDE DEF g, T, A
  <2>5. Utxo[s[i]] = Applied(Utxo[Parent[s[i]]], s[i])
    BY <2>3, UtxoDef, Zenon
  <2>6. Applied(Utxo[Parent[s[i]]], s[i]) = Overwrite(Utxo[Parent[s[i]]], Touched(s[i]), Created(s[i]))
    BY <2>3, BlockOverwrites, SMTT(30)
  <2> QED  BY <2>2, <2>3, <2>4, <2>5, <2>6, Zenon
<1>9. g[0] = Utxo[c[k]] /\ g[n] = Utxo[b]
  <2>1. 0 \in 0 .. n /\ n \in 0 .. n /\ k + 0 = k /\ k + n = m
    BY <1>1, <1>2, <1>4
  <2>2. g[0] = Utxo[c[k + 0]] /\ g[n] = Utxo[c[k + n]]
    BY <2>1, Zenon
  <2> HIDE DEF g, n
  <2> QED  BY <1>1, <2>1, <2>2, Zenon
<1>10. Over(g[0], T, A, 1 .. n) = g[n]
  <2>1. Steps(T, A, n)
    BY <1>7, Zenon
  <2> HIDE DEF g, T, A, n
  <2> QED  BY <2>1, <1>8, OverWalk, SMTT(30)
<1>11. FoldLeft(Applied, Utxo[c[k]], s) = Utxo[b]
  <2> HIDE DEF g, T, A, n
  <2> QED  BY <1>7, <1>9, <1>10, Zenon
<1> QED  BY <1>5, <1>6, <1>11, Zenon DEF OnChain, c, m, s

\* Undone from the last one down, they give the coins of the k-th.
LEMMA BackwardPath ==
  ASSUME NEW b \in Blocks, NEW k \in 1 .. Len(Chain[b])
  PROVE  /\ HasSteps(Reverse(Above(b, k)), Len(Chain[b]) - k)
         /\ OnChain(Reverse(Above(b, k)), b)
         /\ \A i \in DOMAIN Reverse(Above(b, k)) : Reverse(Above(b, k))[i] \in Blocks
         /\ FoldLeft(Undone, Utxo[b], Reverse(Above(b, k))) = Utxo[Chain[b][k]]
<1> DEFINE c == Chain[b]
           m == Len(c)
           n == m - k
           q == Above(b, k)
           s == Reverse(q)
           g == [i \in 0 .. n |-> Utxo[c[m - i]]]
           T == BlocksTouched(s)
           A == BlocksRestored(s)
<1>1. /\ c \in Seq(Blocks) /\ m \in Nat /\ m >= 1 /\ c[m] = b
      /\ \A i \in 1 .. m : c[i] \in Blocks
      /\ \A i \in 2 .. m : c[i] \in Blocks \ {Genesis} /\ Parent[c[i]] = c[i - 1]
  BY ChainAt, Zenon
<1>2. k \in 1 .. m /\ k \in 0 .. m
  <2>1. k \in 1 .. m
    OBVIOUS
  <2> HIDE DEF m
  <2> QED  BY <1>1, <2>1
<1>3. q \in Seq(Blocks) /\ Len(q) = n /\ \A j \in 1 .. n : q[j] = c[k + j]
  <2>1. q = SubSeq(c, k + 1, Len(c))
    BY Zenon DEF Above
  <2>2. c \in Seq(Blocks) /\ k \in 0 .. Len(c)
    BY <1>1, <1>2, Zenon
  <2> HIDE DEF c, q
  <2> QED  BY <2>1, <2>2, SuffixIs, SMTT(30)
<1> HIDE DEF c, m, q
<1>4. /\ n \in Nat
      /\ \A j \in 1 .. n : /\ n - j + 1 \in 1 .. n /\ k + (n - j + 1) = m - (j - 1)
                           /\ m - (j - 1) \in 2 .. m /\ m - (j - 1) - 1 = m - j
  BY <1>1, <1>2
<1>5. DOMAIN s = 1 .. n /\ \A j \in 1 .. n : s[j] = c[m - (j - 1)]
  <2>1. DOMAIN s = 1 .. n /\ \A j \in 1 .. n : s[j] = q[n - j + 1]
    BY <1>3, Zenon DEF Reverse
  <2> HIDE DEF s
  <2>2. ASSUME NEW j \in 1 .. n PROVE s[j] = c[m - (j - 1)]
    <3>1. q[n - j + 1] = c[k + (n - j + 1)]
      BY <1>3, <1>4, Zenon
    <3> QED  BY <3>1, <1>4, <2>1, Zenon
  <2> QED  BY <2>1, <2>2, Zenon
<1> HIDE DEF s
<1>6. HasSteps(s, n)
  BY <1>4, <1>5, Zenon DEF HasSteps
<1>7. \A i \in DOMAIN s : s[i] \in Blocks \ {Genesis} /\ \E j \in 2 .. m : s[i] = c[j]
  BY <1>1, <1>4, <1>5, Zenon
<1>8. ASSUME NEW x PROVE Steps(T, A, n) /\ FoldLeft(Undone, x, s) = Over(x, T, A, 1 .. n)
  <2> HIDE DEF T, A, n
  <2> QED  BY <1>6, <1>7, BackwardFold, SMTT(30) DEF T, A
<1>9. Walks(g, T, A, n)
  <2> SUFFICES ASSUME NEW i \in 1 .. n PROVE g[i] = Overwrite(g[i - 1], T[i], A[i])
    BY Zenon DEF Walks
  <2>1. i \in 0 .. n /\ i - 1 \in 0 .. n
    BY <1>4
  <2>2. g[i] = Utxo[c[m - i]] /\ g[i - 1] = Utxo[c[m - (i - 1)]]
    BY <2>1, Zenon
  <2>3. s[i] = c[m - (i - 1)] /\ s[i] \in Blocks \ {Genesis} /\ Parent[s[i]] = c[m - i]
    <3> DEFINE h == m - (i - 1)
               l == m - i
    <3>1. h \in 2 .. m /\ h - 1 = l /\ s[i] = c[h]
      BY <1>4, <1>5, Zenon
    <3> HIDE DEF h, l
    <3>2. c[h] \in Blocks \ {Genesis} /\ Parent[c[h]] = c[h - 1]
      BY <1>1, <3>1, Zenon
    <3>3. s[i] = c[h] /\ s[i] \in Blocks \ {Genesis} /\ Parent[s[i]] = c[l]
      BY <3>1, <3>2, Zenon
    <3> QED  BY <3>3, Zenon DEF h, l
  <2>4. T[i] = Touched(s[i]) /\ A[i] = Restored(s[i])
    BY <1>5, Zenon DEF BlocksTouched, BlocksRestored
  <2> HIDE DEF g, T, A
  <2>5. Undone(Utxo[s[i]], s[i]) = Utxo[Parent[s[i]]]
    BY <2>3, UndoneBlock, Zenon
  <2>6. Undone(Utxo[s[i]], s[i]) = Overwrite(Utxo[s[i]], Touched(s[i]), Restored(s[i]))
    BY <2>3, BlockOverwrites, SMTT(30)
  <2> QED  BY <2>2, <2>3, <2>4, <2>5, <2>6, Zenon
<1>10. g[0] = Utxo[b] /\ g[n] = Utxo[c[k]]
  <2>1. 0 \in 0 .. n /\ n \in 0 .. n /\ m - 0 = m /\ m - n = k
    BY <1>1, <1>2, <1>4
  <2>2. g[0] = Utxo[c[m - 0]] /\ g[n] = Utxo[c[m - n]]
    BY <2>1, Zenon
  <2> HIDE DEF g, n
  <2> QED  BY <1>1, <2>1, <2>2, Zenon
<1>11. Over(g[0], T, A, 1 .. n) = g[n]
  <2>1. Steps(T, A, n)
    BY <1>8, Zenon
  <2> HIDE DEF g, T, A, n
  <2> QED  BY <2>1, <1>9, OverWalk, SMTT(30)
<1>12. FoldLeft(Undone, Utxo[b], s) = Utxo[c[k]]
  <2> HIDE DEF g, T, A, n
  <2> QED  BY <1>8, <1>10, <1>11, Zenon
<1> QED  BY <1>6, <1>7, <1>12, Zenon DEF OnChain, c, m, q, s

\* The fork is in both chains; without an old head it is the first block.
LEMMA ForkIs ==
  ASSUME NEW new \in Blocks, NEW old \in Blocks \union {None}
  PROVE  /\ ForkLength(new, old) \in 1 .. Len(Chain[new])
         /\ old # None => Agree(Chain[new], Chain[old], ForkLength(new, old))
         /\ old = None => ForkLength(new, old) = 1
<1>1. CASE old = None
  <2>1. Len(Chain[new]) \in Nat /\ Len(Chain[new]) >= 1
    BY ChainAt, Zenon
  <2>2. 1 \in 1 .. Len(Chain[new])
    BY <2>1
  <2> QED  BY <1>1, <2>2, Zenon DEF ForkLength
<1>2. CASE old # None
  <2>1. old \in Blocks
    BY <1>2, Zenon
  <2> DEFINE s == Chain[new]
             t == Chain[old]
  <2>2. s \in Seq(Blocks) /\ t \in Seq(Blocks) /\ Len(s) >= 1 /\ Len(t) >= 1 /\ s[1] = Genesis /\ t[1] = Genesis
    BY <2>1, ChainAt, Zenon
  <2> HIDE DEF s, t
  <2> DEFINE m == Max({i \in DOMAIN s \intersect DOMAIN t : s[i] = t[i]})
  <2>3. Agree(s, t, m)
    <3>1. s[1] = t[1]
      BY <2>2, Zenon
    <3> QED  BY <2>2, <3>1, LastAgreed, Zenon
  <2>4. ForkLength(new, old) = m
    BY <1>2, Zenon DEF ForkLength, s, t
  <2> HIDE DEF m
  <2> QED  BY <1>2, <2>3, <2>4, Zenon DEF Agree, s, t
<1> QED  BY <1>1, <1>2, Zenon

\* A sequence of blocks.
Path(s) == (\E n : HasSteps(s, n)) /\ \A i \in DOMAIN s : s[i] \in Blocks

\* The replay of the coins of the old head leads to those of the new one.
LEMMA PathIs ==
  ASSUME NEW new \in Blocks, NEW old \in Blocks \union {None}
  PROVE  /\ Path(RolledForward(new, old)) /\ OnChain(RolledForward(new, old), new)
         /\ Path(RolledBack(new, old)) /\ (old # None => OnChain(RolledBack(new, old), old))
         /\ old = None => DOMAIN RolledBack(new, old) = {}
         /\ Replayed(UtxoOf(old), new, old) = Utxo[new]
<1> DEFINE k == ForkLength(new, old)
           f == RolledForward(new, old)
           r == RolledBack(new, old)
<1>1. k \in 1 .. Len(Chain[new]) /\ (old # None => Agree(Chain[new], Chain[old], k))
  BY ForkIs, Zenon
<1>2. f = Above(new, k)
  BY Zenon DEF RolledForward
<1>3. Path(f) /\ OnChain(f, new) /\ FoldLeft(Applied, Utxo[Chain[new][k]], f) = Utxo[new]
  <2> HIDE DEF k, f
  <2> QED  BY <1>1, <1>2, ForwardPath, Zenon DEF Path
<1>4. CASE old = None
  <2>1. k = 1 /\ Chain[new][1] = Genesis /\ Utxo[Genesis] = {}
    <3>1. k = 1
      BY <1>4, ForkIs, Zenon
    <3>2. Chain[new][1] = Genesis
      BY ChainAt, Zenon
    <3>3. Utxo[Genesis] = {}
      BY UtxoDef, GenesisInTree, Zenon
    <3> QED  BY <3>1, <3>2, <3>3, Zenon
  <2>2. r = << >>
    BY <1>4, Zenon DEF RolledBack
  <2>3. HasSteps(r, 0) /\ DOMAIN r = {} /\ Path(r)
    <3>1. HasSteps(r, 0) /\ DOMAIN r = {}
      <4> HIDE DEF r
      <4> QED  BY <2>2 DEF HasSteps
    <3> QED  BY <3>1, Zenon DEF Path
  <2>4. FoldLeft(Undone, {}, r) = {}
    <3> DEFINE T == BlocksTouched(r)
               A == BlocksRestored(r)
    <3>1. FoldLeft(Undone, {}, r) = Over({}, T, A, 1 .. 0)
      <4> HIDE DEF r
      <4> QED  BY <2>3, BackwardFold, Zenon
    <3>2. 1 .. 0 = {}
      OBVIOUS
    <3> HIDE DEF T, A, r
    <3> QED  BY <3>1, <3>2, OverNone, Zenon
  <2>5. Replayed({}, new, old) = Utxo[new]
    BY <1>3, <2>1, <2>4, Zenon DEF Replayed
  <2> QED  BY <1>3, <1>4, <2>3, <2>5, Zenon DEF UtxoOf
<1>5. CASE old # None
  <2>1. old \in Blocks /\ k \in 1 .. Len(Chain[old]) /\ Chain[new][k] = Chain[old][k]
    BY <1>1, <1>5, Zenon DEF Agree
  <2>2. r = Reverse(Above(old, k))
    BY <1>5, Zenon DEF RolledBack
  <2>3. Path(r) /\ OnChain(r, old) /\ FoldLeft(Undone, Utxo[old], r) = Utxo[Chain[old][k]]
    <3> HIDE DEF k, r
    <3> QED  BY <2>1, <2>2, BackwardPath, Zenon DEF Path
  <2>4. Replayed(Utxo[old], new, old) = Utxo[new]
    BY <1>3, <2>1, <2>3, Zenon DEF Replayed
  <2> QED  BY <1>3, <1>5, <2>3, <2>4, Zenon DEF UtxoOf
<1> QED  BY <1>4, <1>5, Zenon

Swept(T, n) == UNION {T[i] : i \in 1 .. n}

\* Many overwritings are one.
LEMMA OverShape ==
  ASSUME NEW n, NEW T, NEW A, NEW c, Steps(T, A, n)
  PROVE  /\ Over(c, T, A, 1 .. n) = Overwrite(c, Swept(T, n), Written(T, A, 1 .. n))
         /\ Written(T, A, 1 .. n) \subseteq Swept(T, n)
<1> DEFINE s == 1 .. n
<1>1. \A i \in s : A[i] \subseteq T[i]
  BY Zenon DEF Steps, Nested
<1> HIDE DEF s
<1>2. Written(T, A, s) \subseteq UNION {T[i] : i \in s}
  <2> SUFFICES ASSUME NEW o \in Written(T, A, s) PROVE \E i \in s : o \in T[i]
    BY Zenon
  <2>1. \E i \in s : o \in A[i]
    BY SMTT(30) DEF Written
  <2> QED  BY <1>1, <2>1, Zenon
<1>3. Over(c, T, A, s) = Overwrite(c, UNION {T[i] : i \in s}, Written(T, A, s))
  BY Zenon DEF Over, Overwrite
<1> QED  BY <1>2, <1>3, Zenon DEF Swept, s

\* What the blocks of a path touch.
Along(s) == UNION {Touched(b) : b \in Range(s)}

\* It is what their steps sweep.
LEMMA AlongIs ==
  ASSUME NEW s, NEW n, HasSteps(s, n)
  PROVE  Swept(BlocksTouched(s), n) = Along(s)
<1>1. DOMAIN s = 1 .. n
  BY Zenon DEF HasSteps
<1>2. Swept(BlocksTouched(s), n) = UNION {Touched(s[i]) : i \in DOMAIN s}
  BY <1>1, Zenon DEF Swept, BlocksTouched
<1> QED  BY <1>2, Zenon DEF Along, Range

-----------------------------------------------------------------------------
(* The replay. *)

\* A path of blocks overwrites what they touch, forward or backward.
LEMMA ForwardShape ==
  ASSUME NEW s, Path(s)
  PROVE  \E W : W \subseteq Along(s) /\ \A c : FoldLeft(Applied, c, s) = Overwrite(c, Along(s), W)
<1>1. PICK n : HasSteps(s, n)
  BY Zenon DEF Path
<1> DEFINE T == BlocksTouched(s)
           A == BlocksCreated(s)
           W == Written(T, A, 1 .. n)
<1>2. ASSUME NEW c PROVE Steps(T, A, n) /\ FoldLeft(Applied, c, s) = Over(c, T, A, 1 .. n)
  BY <1>1, ForwardFold, Zenon DEF Path
<1>3. Swept(T, n) = Along(s)
  BY <1>1, AlongIs, Zenon
<1> HIDE DEF T, A
<1>4. ASSUME NEW c PROVE W \subseteq Swept(T, n) /\ Over(c, T, A, 1 .. n) = Overwrite(c, Swept(T, n), W)
  BY <1>2, OverShape, Zenon
<1> HIDE DEF W
<1>5. W \subseteq Along(s) /\ \A c : FoldLeft(Applied, c, s) = Overwrite(c, Along(s), W)
  BY <1>2, <1>3, <1>4, Zenon
<1> QED  BY <1>5, Zenon

\* The same for the roll back.
LEMMA BackwardShape ==
  ASSUME NEW s, Path(s)
  PROVE  \E W : W \subseteq Along(s) /\ \A c : FoldLeft(Undone, c, s) = Overwrite(c, Along(s), W)
<1>1. PICK n : HasSteps(s, n)
  BY Zenon DEF Path
<1> DEFINE T == BlocksTouched(s)
           A == BlocksRestored(s)
           W == Written(T, A, 1 .. n)
<1>2. ASSUME NEW c PROVE Steps(T, A, n) /\ FoldLeft(Undone, c, s) = Over(c, T, A, 1 .. n)
  BY <1>1, BackwardFold, Zenon DEF Path
<1>3. Swept(T, n) = Along(s)
  BY <1>1, AlongIs, Zenon
<1> HIDE DEF T, A
<1>4. ASSUME NEW c PROVE W \subseteq Swept(T, n) /\ Over(c, T, A, 1 .. n) = Overwrite(c, Swept(T, n), W)
  BY <1>2, OverShape, Zenon
<1> HIDE DEF W
<1>5. W \subseteq Along(s) /\ \A c : FoldLeft(Undone, c, s) = Overwrite(c, Along(s), W)
  BY <1>2, <1>3, <1>4, Zenon
<1> QED  BY <1>5, Zenon

\* What the blocks between the heads touch.
PathTouched(new, old) == Along(RolledBack(new, old)) \union Along(RolledForward(new, old))

\* A replay keeps what is off the path, and what it leaves on the path does not
\* depend on what was there.
LEMMA ReplayShape ==
  ASSUME NEW new \in Blocks, NEW old \in Blocks \union {None}, NEW c, NEW d, NEW o
  PROVE  /\ o \notin PathTouched(new, old) => (o \in Replayed(c, new, old) <=> o \in c)
         /\ o \in PathTouched(new, old) =>
              (o \in Replayed(c, new, old) <=> o \in Replayed(d, new, old))
<1> DEFINE f == RolledForward(new, old)
           r == RolledBack(new, old)
           F(x) == FoldLeft(Applied, x, f)
           B(x) == FoldLeft(Undone, x, r)
<1>1. Path(f) /\ Path(r)
  BY PathIs, Zenon
<1>2. Replayed(c, new, old) = F(B(c)) /\ Replayed(d, new, old) = F(B(d))
  BY Zenon DEF Replayed
<1>3. PICK V : V \subseteq Along(r) /\ \A x : B(x) = Overwrite(x, Along(r), V)
  BY <1>1, BackwardShape, Zenon
<1>4. PICK W : W \subseteq Along(f) /\ \A x : F(x) = Overwrite(x, Along(f), W)
  BY <1>1, ForwardShape, Zenon
<1>5. PathTouched(new, old) = Along(r) \union Along(f)
  BY Zenon DEF PathTouched
<1> HIDE DEF f, r, F, B
<1>6. ASSUME NEW x
      PROVE  F(B(x)) = Overwrite(Overwrite(x, Along(r), V), Along(f), W)
  BY <1>3, <1>4, Zenon
<1>7. ASSUME NEW x
      PROVE  o \in F(B(x)) <=> (((o \in x /\ o \notin Along(r)) \/ o \in V) /\ o \notin Along(f)) \/ o \in W
  BY <1>6, Zenon DEF Overwrite
<1> QED  BY <1>2, <1>3, <1>4, <1>5, <1>7, Zenon

\* Off the path the coins of the two heads agree.
LEMMA HeadsAgree ==
  ASSUME NEW new \in Blocks, NEW old \in Blocks \union {None}, NEW o, o \notin PathTouched(new, old)
  PROVE  o \in UtxoOf(old) <=> o \in Utxo[new]
<1>1. Replayed(UtxoOf(old), new, old) = Utxo[new]
  BY PathIs, Zenon
<1>2. o \in Replayed(UtxoOf(old), new, old) <=> o \in UtxoOf(old)
  BY ReplayShape, SMTT(30)
<1> QED  BY <1>1, <1>2, Zenon

\* Whatever an interrupted flush wrote, the replay ends with the coins of the
\* new head if the disk is right off the path.
LEMMA ReplayRight ==
  ASSUME NEW new \in Blocks, NEW old \in Blocks \union {None}, NEW c,
         \A o : o \notin PathTouched(new, old) => (o \in c <=> o \in Utxo[new])
  PROVE  Replayed(c, new, old) = Utxo[new]
<1>1. Replayed(UtxoOf(old), new, old) = Utxo[new]
  BY PathIs, Zenon
<1>2. ASSUME NEW o PROVE o \in Replayed(c, new, old) <=> o \in Utxo[new]
  <2>1. CASE o \in PathTouched(new, old)
    <3>1. o \in Replayed(c, new, old) <=> o \in Replayed(UtxoOf(old), new, old)
      BY <2>1, ReplayShape, SMTT(30)
    <3> QED  BY <1>1, <3>1, Zenon
  <2>2. CASE o \notin PathTouched(new, old)
    <3>1. o \in Replayed(c, new, old) <=> o \in c
      BY <2>2, ReplayShape, SMTT(30)
    <3> QED  BY <2>2, <3>1, Zenon
  <2> QED  BY <2>1, <2>2, Zenon
<1> DEFINE R == Replayed(c, new, old)
           U == Utxo[new]
<1>3. \A o : o \in R <=> o \in U
  BY <1>2, Zenon
<1>4. R \subseteq U /\ U \subseteq R
  <2> HIDE DEF R, U
  <2> QED  BY <1>3, Zenon
<1>5. \A x, y : x \subseteq y /\ y \subseteq x => x = y
  BY Zenon
<1> HIDE DEF R, U
<1>6. R = U
  BY <1>4, <1>5, Zenon
<1> QED  BY <1>6 DEF R, U

-----------------------------------------------------------------------------
(* The block tree in memory and on disk. *)

\* A set of blocks that has the parents of its members.
Closed(S) == \A b \in S \ {Genesis} : Parent[b] \in S

\* A block whose chain has its data in the index I and its undo data in U.
Known(b, I, U) == b \in I /\ b \in U \union {Genesis}
KnownOrNone(b, I, U) == b = None \/ Known(b, I, U)

\* The tree on disk is closed, and what the coins on disk refer to is in it.

\* A closed set that has a block has its chain.
LEMMA ClosedChain ==
  ASSUME NEW S \in SUBSET Blocks, Closed(S), NEW b \in S
  PROVE  \A i \in 1 .. Len(Chain[b]) : Chain[b][i] \in S
<1> DEFINE c == Chain[b]
           m == Len(c)
           X == {j \in 0 .. m - 1 : c[m - j] \notin S}
<1>1. /\ m \in Nat /\ m >= 1 /\ c[m] = b
      /\ \A i \in 2 .. m : c[i] # Genesis /\ Parent[c[i]] = c[i - 1]
  <2>1. b \in Blocks
    BY Zenon
  <2>2. m \in Nat /\ m >= 1 /\ c[m] = b
    BY <2>1, ChainAt, ZenonT(30)
  <2>3. \A i \in 2 .. m : c[i] \in Blocks \ {Genesis} /\ Parent[c[i]] = c[i - 1]
    BY <2>1, ChainAt, ZenonT(30)
  <2> HIDE DEF c, m
  <2> QED  BY <2>2, <2>3, Zenon
<1> HIDE DEF c, m
<1>2. X = {}
  <2> SUFFICES ASSUME X # {} PROVE FALSE
    OBVIOUS
  <2>1. X \in SUBSET Nat
    BY <1>1
  <2>2. PICK j \in X : \A y \in X : j <= y
    BY <2>1, Least, Zenon
  <2>3. j \in 0 .. m - 1 /\ c[m - j] \notin S
    OBVIOUS
  <2>4. j # 0
    BY <1>1, <2>3
  <2>5. j - 1 \in 0 .. m - 1 /\ ~(j <= j - 1) /\ m - (j - 1) \in 2 .. m /\ m - (j - 1) - 1 = m - j
    BY <1>1, <2>3, <2>4
  <2>6. c[m - (j - 1)] \in S
    <3>1. j - 1 \notin X
      BY <2>2, <2>5, Zenon
    <3> QED  BY <3>1, <2>5, Zenon
  <2> DEFINE h == m - (j - 1)
  <2>7. h \in 2 .. m /\ h - 1 = m - j /\ c[h] \in S
    BY <2>5, <2>6
  <2> HIDE DEF h, X
  <2>8. c[h] # Genesis /\ Parent[c[h]] = c[h - 1]
    BY <1>1, <2>7, Zenon
  <2>9. c[h - 1] \in S
    BY <2>7, <2>8, Zenon DEF Closed
  <2> QED  BY <2>3, <2>7, <2>9, Zenon
<1>3. ASSUME NEW i \in 1 .. m PROVE c[i] \in S
  <2>1. m - i \in 0 .. m - 1 /\ m - (m - i) = i
    BY <1>1
  <2>2. c[m - (m - i)] \in S
    BY <1>2, <2>1
  <2> QED  BY <2>1, <2>2
<1> QED  BY <1>3, Zenon DEF c, m

\* Replayable, with the block index I and the undo data U.
CanReplay(new, old, I, U) ==
  /\ new \in I
  /\ old # None => old \in I
  /\ Range(RolledBack(new, old)) \subseteq U \intersect I
  /\ Range(RolledForward(new, old)) \subseteq I

\* ReplayBlocks has the blocks and the undo data of the path if it has those of
\* the two heads.
LEMMA DataThere ==
  ASSUME NEW I \in SUBSET Blocks, NEW U \in SUBSET Blocks,
         Closed(I), Closed(U \union {Genesis}),
         NEW new \in Blocks, Known(new, I, U),
         NEW old \in Blocks \union {None}, KnownOrNone(old, I, U)
  PROVE  CanReplay(new, old, I, U)
<1> DEFINE f == RolledForward(new, old)
           r == RolledBack(new, old)
           G == U \union {Genesis}
<1>1. OnChain(f, new) /\ (old # None => OnChain(r, old)) /\ (old = None => DOMAIN r = {})
  BY PathIs, Zenon
<1>2. G \in SUBSET Blocks
  BY GenesisInTree, Zenon
<1>3. ASSUME NEW b \in I, b \in G, NEW s, OnChain(s, b) PROVE Range(s) \subseteq U \intersect I
  <2> SUFFICES ASSUME NEW i \in DOMAIN s PROVE s[i] \in U \intersect I
    BY Zenon DEF Range
  <2>1. b \in Blocks
    BY Zenon
  <2>2. PICK j \in 2 .. Len(Chain[b]) : s[i] = Chain[b][j]
    BY <1>3, Zenon DEF OnChain
  <2>3. Len(Chain[b]) \in Nat /\ \A h \in 2 .. Len(Chain[b]) : Chain[b][h] # Genesis
    BY <2>1, ChainAt, ZenonT(30)
  <2>4. j \in 1 .. Len(Chain[b])
    BY <2>3
  <2>5. Chain[b][j] \in I
    BY <2>4, ClosedChain, Zenon
  <2>6. Chain[b][j] \in G
    <3> HIDE DEF G
    <3> QED  BY <1>2, <1>3, <2>4, ClosedChain, Zenon DEF G
  <2> QED  BY <2>2, <2>3, <2>5, <2>6, Zenon
<1>4. new \in I /\ new \in G /\ (old # None => old \in I /\ old \in G)
  BY Zenon DEF Known, KnownOrNone
<1>5. Range(f) \subseteq I
  BY <1>1, <1>3, <1>4, Zenon
<1>6. Range(r) \subseteq U \intersect I
  <2>1. CASE old = None
    BY <1>1, <2>1, Zenon DEF Range
  <2>2. CASE old # None
    BY <1>1, <1>3, <1>4, <2>2, Zenon
  <2> QED  BY <2>1, <2>2, Zenon
<1> QED  BY <1>4, <1>5, <1>6, Zenon DEF CanReplay

-----------------------------------------------------------------------------
(* The inductive invariant. *)

DiskTree ==
  /\ Closed(indexDisk) /\ Closed(undoDisk \union {Genesis})
  /\ KnownOrNone(best, indexDisk, undoDisk)
  /\ heads # <<>> => /\ Known(heads[1], indexDisk, undoDisk)
                     /\ KnownOrNone(heads[2], indexDisk, undoDisk)

\* The tree in memory is ahead of that on disk; a flush wrote it out first.
MemoryTree ==
  phase \in {"run", "flush", "start"} =>
    /\ Genesis \in index /\ Closed(index) /\ Closed(undo \union {Genesis})
    /\ KnownOrNone(tip, index, undo)
    /\ indexDisk \subseteq index /\ undoDisk \subseteq undo
    /\ phase = "flush" => indexDisk = index /\ undoDisk = undo /\ tip # None

\* A flush that was interrupted is finished before the node runs.
HeadsFollowed ==
  /\ phase = "run" => heads = <<>>
  /\ phase \in {"flush", "start"} /\ heads # <<>> => heads[1] = tip

\* The coins on disk: those of the best block, or such that the replay leads to
\* those of the new head.
DiskCoins ==
  IF heads = <<>> THEN disk = UtxoOf(best)
                  ELSE Replayed(disk, heads[1], heads[2]) = Utxo[heads[1]]

\* The inductive invariant.
IInv ==
  /\ TypeOK /\ DiskTree /\ MemoryTree /\ HeadsFollowed
  /\ CoinsMatchTip /\ DirtyCoversChanges /\ DiskCoins /\ NeverFails

\* What a block does to the coins stays within the outpoints it touches.
LEMMA Writes ==
  ASSUME NEW b \in Blocks, NEW c
  PROVE  /\ \A o : o \notin Touched(b) => /\ o \in Applied(c, b) <=> o \in c
                                          /\ o \in Undone(c, b) <=> o \in c
         /\ c \subseteq Outpoints => Applied(c, b) \subseteq Outpoints /\ Undone(c, b) \subseteq Outpoints
         /\ Touched(b) \subseteq Outpoints
<1>1. /\ Applied(c, b) = Overwrite(c, Touched(b), Created(b))
      /\ Undone(c, b) = Overwrite(c, Touched(b), Restored(b))
  BY BlockOverwrites, SMTT(30)
<1>2. /\ Created(b) \subseteq Touched(b) /\ Restored(b) \subseteq Touched(b)
      /\ Touched(b) \subseteq Outpoints
  BY BlockOverwrites, Zenon
<1>3. ASSUME NEW o, o \notin Touched(b)
      PROVE  (o \in Applied(c, b) <=> o \in c) /\ (o \in Undone(c, b) <=> o \in c)
  BY <1>1, <1>2, <1>3, Zenon DEF Overwrite
<1>4. ASSUME c \subseteq Outpoints PROVE Applied(c, b) \subseteq Outpoints /\ Undone(c, b) \subseteq Outpoints
  BY <1>1, <1>2, <1>4, Zenon DEF Overwrite
<1> QED  BY <1>2, <1>3, <1>4, Zenon

\* Connecting a block to the coins of its parent gives its own; the genesis
\* block changes nothing.
LEMMA Advance ==
  ASSUME NEW b \in Blocks
  PROVE  Applied(UtxoOf(IF b = Genesis THEN None ELSE Parent[b]), b) = Utxo[b]
<1>1. CASE b = Genesis
  <2>1. Touched(Genesis) = {}
    <3>1. Range(Txs[Genesis]) = {}
      BY GenesisEmpty DEF Range
    <3> QED  BY <3>1, Zenon DEF Touched
  <2>2. Applied({}, Genesis) = Overwrite({}, {}, Created(Genesis)) /\ Created(Genesis) \subseteq {}
    BY <2>1, GenesisInTree, BlockOverwrites, SMTT(30)
  <2>3. Applied({}, Genesis) = {}
    BY <2>2 DEF Overwrite
  <2>4. Utxo[Genesis] = {}
    BY UtxoDef, GenesisInTree, Zenon
  <2> QED  BY <1>1, <2>3, <2>4, Zenon DEF UtxoOf
<1>2. CASE b # Genesis
  <2>1. Parent[b] # None
    BY <1>2, ParentInTree, GenesisInTree
  <2>2. Utxo[b] = Applied(Utxo[Parent[b]], b)
    BY <1>2, UtxoDef, Zenon
  <2> QED  BY <1>2, <2>1, <2>2, Zenon DEF UtxoOf
<1> QED  BY <1>1, <1>2, Zenon

\* The initial state.
LEMMA InitRight == ASSUME Init PROVE IInv
<1>1. TypeOK
  BY GenesisInTree, MaxCrashesNat DEF Init, TypeOK
<1>2. DiskTree /\ HeadsFollowed
  BY DEF Init, DiskTree, HeadsFollowed, Closed, KnownOrNone
<1>3. MemoryTree
  BY DEF Init, MemoryTree, Closed, KnownOrNone
<1>4. CoinsMatchTip /\ DirtyCoversChanges /\ DiskCoins /\ NeverFails
  BY DEF Init, CoinsMatchTip, DirtyCoversChanges, DiskCoins, NeverFails, UtxoOf
<1> QED  BY <1>1, <1>2, <1>3, <1>4, Zenon DEF IInv

\* What depends on the disk only is kept when the disk is not written.
LEMMA DiskKept ==
  ASSUME DiskTree, DiskCoins, UNCHANGED coinsDisk, UNCHANGED treeDisk
  PROVE  DiskTree' /\ DiskCoins'
<1>1. disk' = disk /\ best' = best /\ heads' = heads /\ indexDisk' = indexDisk /\ undoDisk' = undoDisk
  BY DEF coinsDisk, treeDisk
<1>2. DiskTree'
  BY <1>1, Zenon DEF DiskTree
<1>3. DiskCoins'
  BY <1>1, Zenon DEF DiskCoins
<1> QED  BY <1>2, <1>3, Zenon

\* AcceptBlock extends the block index at a leaf.
LEMMA AcceptBlockRight ==
  ASSUME IInv, NEW b \in Blocks \ {Genesis}, AcceptBlock(b)
  PROVE  IInv'
<1>1. /\ phase = "run" /\ Parent[b] \in index /\ index' = index \union {b}
      /\ phase' = phase /\ mem' = mem /\ dirty' = dirty /\ tip' = tip /\ undo' = undo
      /\ UNCHANGED coinsDisk /\ UNCHANGED treeDisk /\ crashes' = crashes
  BY Zenon DEF AcceptBlock
<1>2. disk' = disk /\ best' = best /\ heads' = heads /\ indexDisk' = indexDisk /\ undoDisk' = undoDisk
  BY <1>1 DEF coinsDisk, treeDisk
<1>3. TypeOK'
  BY <1>1, <1>2, Zenon DEF IInv, TypeOK
<1>4. DiskTree' /\ DiskCoins'
  BY <1>1, DiskKept, Zenon DEF IInv
<1>5. MemoryTree'
  <2>1. /\ Genesis \in index /\ Closed(index) /\ Closed(undo \union {Genesis})
        /\ KnownOrNone(tip, index, undo)
        /\ indexDisk \subseteq index /\ undoDisk \subseteq undo
    BY <1>1, Zenon DEF IInv, MemoryTree
  <2>2. Closed(index')
    BY <2>1, <1>1, Zenon DEF Closed
  <2>3. KnownOrNone(tip, index', undo) /\ indexDisk \subseteq index' /\ Genesis \in index'
    BY <2>1, <1>1, Zenon DEF KnownOrNone, Known
  <2>4. "run" # "flush"
    OBVIOUS
  <2> QED  BY <2>1, <2>2, <2>3, <2>4, <1>1, <1>2, Zenon DEF MemoryTree
<1>6. HeadsFollowed' /\ CoinsMatchTip' /\ DirtyCoversChanges' /\ NeverFails'
  BY <1>1, <1>2, Zenon DEF IInv, HeadsFollowed, CoinsMatchTip, DirtyCoversChanges, NeverFails
<1> QED  BY <1>3, <1>4, <1>5, <1>6, Zenon DEF IInv

\* The cache entries a block touched become dirty, unless they were FRESH and
\* are gone again.
LEMMA DirtyGrows ==
  ASSUME NEW t \in SUBSET Outpoints, NEW m, dirty \subseteq Outpoints,
         \A o \in Outpoints \ dirty : o \in mem <=> o \in disk,
         \A o : o \notin t => (o \in m <=> o \in mem)
  PROVE  /\ StillDirty(dirty \union t, m) \subseteq Outpoints
         /\ \A o \in Outpoints \ StillDirty(dirty \union t, m) : o \in m <=> o \in disk
<1>1. StillDirty(dirty \union t, m) \subseteq Outpoints
  BY Zenon DEF StillDirty
<1>2. ASSUME NEW o \in Outpoints, o \notin StillDirty(dirty \union t, m)
      PROVE  o \in m <=> o \in disk
  <2>1. (o \notin dirty /\ o \notin t) \/ (o \notin m /\ o \notin disk)
    BY <1>2, Zenon DEF StillDirty
  <2> QED  BY <2>1, Zenon
<1> QED  BY <1>1, <1>2, Zenon

\* ConnectTip moves on to a child of the tip.
LEMMA ConnectTipRight ==
  ASSUME IInv, NEW b \in Blocks, ConnectTip(b)
  PROVE  IInv'
<1>1. /\ phase = "run" /\ b \in index /\ tip = IF b = Genesis THEN None ELSE Parent[b]
      /\ undo' = IF b = Genesis THEN undo ELSE undo \union {b}
      /\ mem' = Applied(mem, b) /\ dirty' = StillDirty(dirty \union Touched(b), mem')
      /\ tip' = b /\ phase' = phase /\ index' = index
      /\ UNCHANGED coinsDisk /\ UNCHANGED treeDisk /\ crashes' = crashes
  BY Zenon DEF ConnectTip
<1>2. disk' = disk /\ best' = best /\ heads' = heads /\ indexDisk' = indexDisk /\ undoDisk' = undoDisk
  BY <1>1 DEF coinsDisk, treeDisk
<1>3. mem = UtxoOf(tip) /\ mem \subseteq Outpoints /\ dirty \subseteq Outpoints
  BY <1>1, Zenon DEF IInv, CoinsMatchTip, TypeOK
<1>4. CoinsMatchTip'
  <2>1. mem' = Utxo[b]
    BY <1>1, <1>3, Advance, Zenon
  <2>2. b # None
    BY GenesisInTree, Zenon
  <2> QED  BY <1>1, <2>1, <2>2, Zenon DEF CoinsMatchTip, UtxoOf
<1>5. dirty' \subseteq Outpoints /\ DirtyCoversChanges'
  <2>1. \A o \in Outpoints \ dirty : o \in mem <=> o \in disk
    BY <1>1, Zenon DEF IInv, DirtyCoversChanges
  <2>2. Touched(b) \in SUBSET Outpoints /\ \A o : o \notin Touched(b) => (o \in mem' <=> o \in mem)
    BY <1>1, Writes, SMTT(30)
  <2>3. dirty' \subseteq Outpoints /\ \A o \in Outpoints \ dirty' : o \in mem' <=> o \in disk
    <3> DEFINE t == Touched(b)
               m == mem'
    <3> HIDE DEF t, m
    <3>1. t \in SUBSET Outpoints /\ \A o : o \notin t => (o \in m <=> o \in mem)
      BY <2>2, Zenon DEF t, m
    <3>2. /\ StillDirty(dirty \union t, m) \subseteq Outpoints
          /\ \A o \in Outpoints \ StillDirty(dirty \union t, m) : o \in m <=> o \in disk
      BY <1>3, <2>1, <3>1, DirtyGrows, Zenon
    <3> QED  BY <1>1, <3>2, Zenon DEF t, m
  <2> QED  BY <1>2, <2>3, Zenon DEF DirtyCoversChanges
<1>6. TypeOK'
  <2>1. mem' \subseteq Outpoints
    BY <1>1, <1>3, Writes, SMTT(30)
  <2>2. undo' \subseteq Blocks
    BY <1>1, Zenon DEF IInv, TypeOK
  <2> QED  BY <1>1, <1>2, <1>5, <2>1, <2>2, Zenon DEF IInv, TypeOK
<1>7. DiskTree' /\ DiskCoins'
  BY <1>1, DiskKept, Zenon DEF IInv
<1>8. MemoryTree'
  <2>1. /\ Genesis \in index /\ Closed(index) /\ Closed(undo \union {Genesis})
        /\ KnownOrNone(tip, index, undo)
        /\ indexDisk \subseteq index /\ undoDisk \subseteq undo
    BY <1>1, Zenon DEF IInv, MemoryTree
  <2>2. Closed(undo' \union {Genesis})
    <3>1. CASE b = Genesis
      BY <1>1, <2>1, <3>1, Zenon
    <3>2. CASE b # Genesis
      <4>1. Parent[b] # None
        BY <3>2, ParentInTree, GenesisInTree
      <4>2. Parent[b] \in undo \union {Genesis}
        BY <4>1, <3>2, <1>1, <2>1, Zenon DEF KnownOrNone, Known
      <4> QED  BY <4>2, <3>2, <1>1, <2>1, Zenon DEF Closed
    <3> QED  BY <3>1, <3>2, Zenon
  <2>3. KnownOrNone(tip', index', undo') /\ undoDisk \subseteq undo'
    BY <2>1, <1>1, Zenon DEF KnownOrNone, Known
  <2>4. "run" # "flush"
    OBVIOUS
  <2> QED  BY <2>1, <2>2, <2>3, <2>4, <1>1, <1>2, Zenon DEF MemoryTree
<1>9. HeadsFollowed' /\ NeverFails'
  <2>1. "run" # "flush" /\ "run" # "start" /\ "run" # "failed"
    OBVIOUS
  <2> QED  BY <2>1, <1>1, <1>2, Zenon DEF IInv, HeadsFollowed, NeverFails
<1> QED  BY <1>4, <1>5, <1>6, <1>7, <1>8, <1>9, Zenon DEF IInv

\* DisconnectTip moves back to the parent of the tip.
LEMMA DisconnectTipRight ==
  ASSUME IInv, DisconnectTip
  PROVE  IInv'
<1>1. /\ phase = "run" /\ tip # None /\ tip # Genesis /\ tip \in undo
      /\ mem' = Undone(mem, tip) /\ dirty' = StillDirty(dirty \union Touched(tip), mem')
      /\ tip' = Parent[tip] /\ phase' = phase /\ index' = index /\ undo' = undo
      /\ UNCHANGED coinsDisk /\ UNCHANGED treeDisk /\ crashes' = crashes
  BY Zenon DEF DisconnectTip
<1>2. disk' = disk /\ best' = best /\ heads' = heads /\ indexDisk' = indexDisk /\ undoDisk' = undoDisk
  BY <1>1 DEF coinsDisk, treeDisk
<1>3. mem = UtxoOf(tip) /\ mem \subseteq Outpoints /\ dirty \subseteq Outpoints /\ tip \in Blocks \ {Genesis}
  BY <1>1, Zenon DEF IInv, CoinsMatchTip, TypeOK
<1>4. Parent[tip] \in Blocks /\ Parent[tip] # None
  BY <1>3, ParentInTree, GenesisInTree
<1>5. CoinsMatchTip'
  <2>1. mem = Utxo[tip]
    BY <1>1, <1>3, Zenon DEF UtxoOf
  <2>2. mem' = Utxo[Parent[tip]]
    BY <1>1, <1>3, <2>1, UndoneBlock, Zenon
  <2> QED  BY <1>1, <1>4, <2>2, Zenon DEF CoinsMatchTip, UtxoOf
<1>6. dirty' \subseteq Outpoints /\ DirtyCoversChanges'
  <2>1. \A o \in Outpoints \ dirty : o \in mem <=> o \in disk
    BY <1>1, Zenon DEF IInv, DirtyCoversChanges
  <2>2. Touched(tip) \in SUBSET Outpoints /\ \A o : o \notin Touched(tip) => (o \in mem' <=> o \in mem)
    BY <1>1, <1>3, Writes, SMTT(30)
  <2>3. dirty' \subseteq Outpoints /\ \A o \in Outpoints \ dirty' : o \in mem' <=> o \in disk
    <3> DEFINE t == Touched(tip)
               m == mem'
    <3> HIDE DEF t, m
    <3>1. t \in SUBSET Outpoints /\ \A o : o \notin t => (o \in m <=> o \in mem)
      BY <2>2, Zenon DEF t, m
    <3>2. /\ StillDirty(dirty \union t, m) \subseteq Outpoints
          /\ \A o \in Outpoints \ StillDirty(dirty \union t, m) : o \in m <=> o \in disk
      BY <1>3, <2>1, <3>1, DirtyGrows, Zenon
    <3> QED  BY <1>1, <3>2, Zenon DEF t, m
  <2> QED  BY <1>2, <2>3, Zenon DEF DirtyCoversChanges
<1>7. TypeOK'
  <2>1. mem' \subseteq Outpoints
    BY <1>1, <1>3, Writes, SMTT(30)
  <2> QED  BY <1>1, <1>2, <1>4, <1>6, <2>1, Zenon DEF IInv, TypeOK
<1>8. DiskTree' /\ DiskCoins'
  BY <1>1, DiskKept, Zenon DEF IInv
<1>9. MemoryTree'
  <2>1. /\ Genesis \in index /\ Closed(index) /\ Closed(undo \union {Genesis})
        /\ KnownOrNone(tip, index, undo)
        /\ indexDisk \subseteq index /\ undoDisk \subseteq undo
    BY <1>1, Zenon DEF IInv, MemoryTree
  <2>2. KnownOrNone(tip', index', undo')
    BY <2>1, <1>1, Zenon DEF KnownOrNone, Known, Closed
  <2>3. "run" # "flush"
    OBVIOUS
  <2> QED  BY <2>1, <2>2, <2>3, <1>1, <1>2, Zenon DEF MemoryTree
<1>10. HeadsFollowed' /\ NeverFails'
  <2>1. "run" # "flush" /\ "run" # "start" /\ "run" # "failed"
    OBVIOUS
  <2> QED  BY <2>1, <1>1, <1>2, Zenon DEF IInv, HeadsFollowed, NeverFails
<1> QED  BY <1>5, <1>6, <1>7, <1>8, <1>9, <1>10, Zenon DEF IInv

\* Writing the block index makes the tree on disk that in memory.
LEMMA TreeWritten ==
  ASSUME IInv, phase \in {"run", "start"}, IndexWritten, UNCHANGED coinsDisk
  PROVE  DiskTree' /\ DiskCoins'
<1>1. /\ indexDisk' = index /\ undoDisk' = undo
      /\ disk' = disk /\ best' = best /\ heads' = heads
  BY DEF IndexWritten, coinsDisk
<1>2. /\ Closed(index) /\ Closed(undo \union {Genesis})
      /\ indexDisk \subseteq index /\ undoDisk \subseteq undo
  <2>1. phase \in {"run", "flush", "start"}
    OBVIOUS
  <2> QED  BY <2>1, Zenon DEF IInv, MemoryTree
<1>3. ASSUME NEW b, Known(b, indexDisk, undoDisk) PROVE Known(b, index, undo)
  BY <1>2, <1>3, Zenon DEF Known
<1>4. ASSUME NEW b, KnownOrNone(b, indexDisk, undoDisk) PROVE KnownOrNone(b, index, undo)
  BY <1>3, <1>4, Zenon DEF KnownOrNone
<1>5. /\ KnownOrNone(best, indexDisk, undoDisk)
      /\ heads # <<>> => /\ Known(heads[1], indexDisk, undoDisk)
                         /\ KnownOrNone(heads[2], indexDisk, undoDisk)
  BY Zenon DEF IInv, DiskTree
<1>6. /\ KnownOrNone(best, index, undo)
      /\ heads # <<>> => Known(heads[1], index, undo) /\ KnownOrNone(heads[2], index, undo)
  BY <1>3, <1>4, <1>5, Zenon
<1>7. DiskTree'
  BY <1>1, <1>2, <1>6, Zenon DEF DiskTree
<1>8. DiskCoins'
  BY <1>1, Zenon DEF IInv, DiskCoins
<1> QED  BY <1>7, <1>8, Zenon

\* A write of the block index.
LEMMA WriteBlockIndexRight ==
  ASSUME IInv, WriteBlockIndex
  PROVE  IInv'
<1>1. /\ phase = "run" /\ phase' = phase /\ indexDisk' = index /\ undoDisk' = undo
      /\ UNCHANGED coinsDisk /\ UNCHANGED memory /\ crashes' = crashes /\ IndexWritten
  BY Zenon DEF WriteBlockIndex, IndexWritten
<1>2. /\ disk' = disk /\ best' = best /\ heads' = heads
      /\ mem' = mem /\ dirty' = dirty /\ tip' = tip /\ index' = index /\ undo' = undo
  BY <1>1 DEF coinsDisk, memory
<1>3. phase \in {"run", "start"} /\ "run" # "flush"
  BY <1>1
<1>4. DiskTree' /\ DiskCoins'
  BY <1>1, <1>3, TreeWritten, Zenon
<1>5. TypeOK'
  BY <1>1, <1>2, Zenon DEF IInv, TypeOK
<1>6. MemoryTree'
  BY <1>1, <1>2, <1>3, Zenon DEF IInv, MemoryTree
<1>7. HeadsFollowed' /\ CoinsMatchTip' /\ DirtyCoversChanges' /\ NeverFails'
  BY <1>1, <1>2, Zenon DEF IInv, HeadsFollowed, CoinsMatchTip, DirtyCoversChanges, NeverFails
<1> QED  BY <1>4, <1>5, <1>6, <1>7, Zenon DEF IInv

\* The start of a full flush: the block index is on disk before any coin.
LEMMA FlushStateToDiskRight ==
  ASSUME IInv, FlushStateToDisk
  PROVE  IInv'
<1>1. /\ phase \in {"run", "start"} /\ phase' = (IF tip = None THEN "run" ELSE "flush")
      /\ indexDisk' = index /\ undoDisk' = undo
      /\ UNCHANGED coinsDisk /\ UNCHANGED memory /\ crashes' = crashes /\ IndexWritten
  BY Zenon DEF FlushStateToDisk, IndexWritten, FlushBegun
<1>2. /\ disk' = disk /\ best' = best /\ heads' = heads
      /\ mem' = mem /\ dirty' = dirty /\ tip' = tip /\ index' = index /\ undo' = undo
  BY <1>1 DEF coinsDisk, memory
<1>3. phase \in {"run", "flush", "start"} /\ phase' \in {"run", "flush", "start"}
  BY <1>1
<1>4. DiskTree' /\ DiskCoins'
  BY <1>1, TreeWritten, Zenon
<1>5. TypeOK'
  <2>1. phase' \in {"run", "flush", "down", "start", "failed"}
    BY <1>3
  <2> QED  BY <2>1, <1>1, <1>2, Zenon DEF IInv, TypeOK
<1>6. MemoryTree'
  <2>1. /\ Genesis \in index /\ Closed(index) /\ Closed(undo \union {Genesis})
        /\ KnownOrNone(tip, index, undo)
    BY <1>3, Zenon DEF IInv, MemoryTree
  <2>2. phase' = "flush" => tip # None
    BY <1>1
  <2> QED  BY <2>1, <2>2, <1>1, <1>2, Zenon DEF MemoryTree
<1>7. HeadsFollowed'
  <2>1. phase = "run" => heads = <<>>
    BY Zenon DEF IInv, HeadsFollowed
  <2>2. phase = "start" /\ heads # <<>> => heads[1] = tip
    BY Zenon DEF IInv, HeadsFollowed
  <2>3. heads # <<>> => heads[1] # None
    BY GenesisInTree DEF IInv, TypeOK
  <2>4. phase' = "run" => heads = <<>>
    BY <1>1, <2>1, <2>2, <2>3
  <2>5. heads # <<>> => heads[1] = tip
    BY <1>1, <2>1, <2>2
  <2> QED  BY <1>2, <2>4, <2>5, Zenon DEF HeadsFollowed
<1>8. CoinsMatchTip' /\ DirtyCoversChanges'
  BY <1>2, <1>3, Zenon DEF IInv, CoinsMatchTip, DirtyCoversChanges
<1>9. NeverFails'
  BY <1>3 DEF NeverFails
<1> QED  BY <1>4, <1>5, <1>6, <1>7, <1>8, <1>9, Zenon DEF IInv

\* During a flush the disk is right off the path from the old tip to the new.
LEMMA RightOffPath ==
  ASSUME IInv, phase = "flush"
  PROVE  /\ tip \in Blocks /\ mem = Utxo[tip] /\ Known(tip, indexDisk, undoDisk)
         /\ OldTip \in Blocks \union {None} /\ KnownOrNone(OldTip, indexDisk, undoDisk)
         /\ \A o : o \notin PathTouched(tip, OldTip) => (o \in disk <=> o \in Utxo[tip])
<1>1. /\ tip # None /\ indexDisk = index /\ undoDisk = undo /\ KnownOrNone(tip, index, undo)
      /\ mem = UtxoOf(tip)
  <2>1. phase \in {"run", "flush", "start"}
    OBVIOUS
  <2> QED  BY <2>1, Zenon DEF IInv, MemoryTree, CoinsMatchTip
<1>2. tip \in Blocks /\ mem = Utxo[tip] /\ Known(tip, indexDisk, undoDisk)
  BY <1>1, Zenon DEF IInv, TypeOK, KnownOrNone, UtxoOf
<1>3. CASE heads = <<>>
  <2>1. OldTip = best
    BY <1>3, Zenon DEF OldTip
  <2>2. best \in Blocks \union {None} /\ KnownOrNone(best, indexDisk, undoDisk) /\ disk = UtxoOf(best)
    BY <1>3, Zenon DEF IInv, TypeOK, DiskTree, DiskCoins
  <2>3. ASSUME NEW o, o \notin PathTouched(tip, best) PROVE o \in disk <=> o \in Utxo[tip]
    BY <1>2, <2>2, <2>3, HeadsAgree, Zenon
  <2> QED  BY <1>2, <2>1, <2>2, <2>3, Zenon
<1>4. CASE heads # <<>>
  <2>1. best = None /\ heads \in Blocks \X (Blocks \union {None})
    BY <1>4, Zenon DEF IInv, TypeOK
  <2>2. OldTip = heads[2] /\ heads[2] \in Blocks \union {None}
    BY <1>4, <2>1 DEF OldTip
  <2>3. KnownOrNone(heads[2], indexDisk, undoDisk) /\ heads[1] = tip
    BY <1>4, Zenon DEF IInv, DiskTree, HeadsFollowed
  <2>4. Replayed(disk, tip, heads[2]) = Utxo[tip]
    BY <1>4, <2>3, Zenon DEF IInv, DiskCoins
  <2> DEFINE old == heads[2]
  <2> HIDE DEF old
  <2>5. ASSUME NEW o, o \notin PathTouched(tip, old) PROVE o \in disk <=> o \in Utxo[tip]
    <3>1. old \in Blocks \union {None} /\ Replayed(disk, tip, old) = Utxo[tip]
      BY <2>2, <2>4, Zenon DEF old
    <3>2. o \in Replayed(disk, tip, old) <=> o \in disk
      BY <1>2, <2>5, <3>1, ReplayShape, SMTT(30)
    <3> QED  BY <3>1, <3>2, Zenon
  <2> QED  BY <1>2, <2>2, <2>3, <2>5, Zenon DEF old
<1> QED  BY <1>3, <1>4, Zenon

\* A batch of DBBatchWrite: the marks of the heads, and some of the coins.
LEMMA PartialBatchRight ==
  ASSUME IInv, NEW S, PartialBatch(S)
  PROVE  IInv'
<1>1. /\ phase = "flush" /\ S \subseteq dirty /\ heads' = <<tip, OldTip>> /\ best' = None
      /\ disk' = (disk \ S) \union (mem \intersect S) /\ dirty' = dirty \ S
      /\ phase' = phase /\ mem' = mem /\ tip' = tip /\ index' = index /\ undo' = undo
      /\ UNCHANGED treeDisk /\ crashes' = crashes
  BY Zenon DEF PartialBatch, HeadsMarked, WrittenTo
<1>2. indexDisk' = indexDisk /\ undoDisk' = undoDisk
  BY <1>1 DEF treeDisk
<1>3. /\ tip \in Blocks /\ mem = Utxo[tip] /\ Known(tip, indexDisk, undoDisk)
      /\ OldTip \in Blocks \union {None} /\ KnownOrNone(OldTip, indexDisk, undoDisk)
      /\ \A o : o \notin PathTouched(tip, OldTip) => (o \in disk <=> o \in Utxo[tip])
  BY <1>1, RightOffPath, Zenon
<1> DEFINE old == OldTip
           d == disk'
<1> HIDE DEF old, d
<1>4. heads' = <<tip, old>> /\ heads' # <<>> /\ heads'[1] = tip /\ heads'[2] = old
  BY <1>1 DEF old
<1>5. old \in Blocks \union {None} /\ KnownOrNone(old, indexDisk, undoDisk)
  BY <1>3, Zenon DEF old
<1>6. DiskCoins'
  <2>1. \A o : o \notin PathTouched(tip, old) => (o \in d <=> o \in Utxo[tip])
    BY <1>1, <1>3, Zenon DEF old, d
  <2>2. Replayed(d, tip, old) = Utxo[tip]
    BY <1>3, <1>5, <2>1, ReplayRight, SMTT(30)
  <2> QED  BY <1>4, <2>2, Zenon DEF DiskCoins, d
<1>7. DiskTree'
  BY <1>1, <1>2, <1>3, <1>4, <1>5, Zenon DEF IInv, DiskTree, KnownOrNone
<1>8. TypeOK'
  <2>1. heads' \in Blocks \X (Blocks \union {None})
    BY <1>3, <1>4, <1>5
  <2>2. disk' \subseteq Outpoints /\ dirty' \subseteq Outpoints
    BY <1>1, Zenon DEF IInv, TypeOK
  <2> QED  BY <1>1, <1>2, <2>1, <2>2, Zenon DEF IInv, TypeOK
<1>9. DirtyCoversChanges'
  <2>1. \A o \in Outpoints \ dirty : o \in mem <=> o \in disk
    BY <1>1, Zenon DEF IInv, DirtyCoversChanges
  <2>2. \A o \in Outpoints \ dirty' : o \in mem <=> o \in disk'
    BY <1>1, <2>1, Zenon
  <2> QED  BY <1>1, <2>2, Zenon DEF DirtyCoversChanges
<1>10. MemoryTree' /\ CoinsMatchTip' /\ NeverFails'
  BY <1>1, <1>2, Zenon DEF IInv, MemoryTree, CoinsMatchTip, NeverFails
<1>11. HeadsFollowed'
  <2>1. "flush" # "run"
    OBVIOUS
  <2> QED  BY <2>1, <1>1, <1>4, Zenon DEF HeadsFollowed
<1> QED  BY <1>6, <1>7, <1>8, <1>9, <1>10, <1>11, Zenon DEF IInv

\* The last batch: all that differs is written.
LEMMA FinalBatchRight ==
  ASSUME IInv, FinalBatch
  PROVE  IInv'
<1>1. /\ phase = "flush" /\ heads' = <<>> /\ best' = tip
      /\ disk' = (disk \ dirty) \union (mem \intersect dirty) /\ dirty' = {}
      /\ phase' = "run" /\ mem' = mem /\ tip' = tip /\ index' = index /\ undo' = undo
      /\ UNCHANGED treeDisk /\ crashes' = crashes
  BY Zenon DEF FinalBatch, WrittenTo
<1>2. indexDisk' = indexDisk /\ undoDisk' = undoDisk
  BY <1>1 DEF treeDisk
<1>3. /\ tip \in Blocks /\ mem = Utxo[tip] /\ Known(tip, indexDisk, undoDisk)
      /\ tip # None
  BY <1>1, RightOffPath, GenesisInTree, Zenon
<1>4. disk' = mem
  <2>1. \A o \in Outpoints \ dirty : o \in mem <=> o \in disk
    BY <1>1, Zenon DEF IInv, DirtyCoversChanges
  <2>2. mem \subseteq Outpoints /\ disk \subseteq Outpoints
    BY Zenon DEF IInv, TypeOK
  <2>3. disk' \subseteq mem /\ mem \subseteq disk'
    BY <1>1, <2>1, <2>2, Zenon
  <2> QED  BY <2>3
<1>5. DiskCoins'
  BY <1>1, <1>3, <1>4, Zenon DEF DiskCoins, UtxoOf
<1>6. DiskTree'
  BY <1>1, <1>2, <1>3, Zenon DEF IInv, DiskTree, KnownOrNone
<1>7. TypeOK'
  BY <1>1, <1>2, <1>3, <1>4, Zenon DEF IInv, TypeOK
<1>8. "run" # "flush" /\ "run" # "start" /\ "run" # "failed"
  OBVIOUS
<1>9. phase \in {"run", "flush", "start"}
  BY <1>1
<1>10. MemoryTree'
  BY <1>1, <1>2, <1>8, <1>9, Zenon DEF IInv, MemoryTree
<1>11. CoinsMatchTip' /\ DirtyCoversChanges'
  BY <1>1, <1>4, <1>9, Zenon DEF IInv, CoinsMatchTip, DirtyCoversChanges
<1>12. HeadsFollowed' /\ NeverFails'
  BY <1>1, <1>8, Zenon DEF HeadsFollowed, NeverFails
<1> QED  BY <1>5, <1>6, <1>7, <1>10, <1>11, <1>12, Zenon DEF IInv

\* A crash loses what is in memory.
LEMMA CrashRight ==
  ASSUME IInv, Crash
  PROVE  IInv'
<1>1. /\ crashes < MaxCrashes /\ crashes' = crashes + 1 /\ phase' = "down"
      /\ mem' = {} /\ dirty' = {} /\ tip' = None /\ index' = {} /\ undo' = {}
      /\ UNCHANGED coinsDisk /\ UNCHANGED treeDisk
  BY Zenon DEF Crash
<1>2. disk' = disk /\ best' = best /\ heads' = heads /\ indexDisk' = indexDisk /\ undoDisk' = undoDisk
  BY <1>1 DEF coinsDisk, treeDisk
<1>3. DiskTree' /\ DiskCoins'
  BY <1>1, DiskKept, Zenon DEF IInv
<1>4. TypeOK'
  <2>1. crashes' \in 0 .. MaxCrashes
    BY <1>1, MaxCrashesNat DEF IInv, TypeOK
  <2>2. phase' \in {"run", "flush", "down", "start", "failed"}
    BY <1>1
  <2> QED  BY <1>1, <1>2, <2>1, <2>2, Zenon DEF IInv, TypeOK
<1>5. ~(phase' \in {"run", "flush", "start"}) /\ phase' # "failed"
  BY <1>1
<1>6. phase' # "run" /\ ~(phase' \in {"flush", "start"})
  BY <1>5
<1>7. MemoryTree' /\ CoinsMatchTip' /\ DirtyCoversChanges' /\ NeverFails' /\ HeadsFollowed'
  BY <1>5, <1>6, Zenon DEF MemoryTree, CoinsMatchTip, DirtyCoversChanges, NeverFails, HeadsFollowed
<1> QED  BY <1>3, <1>4, <1>7, Zenon DEF IInv

\* The tree that start-up reads from disk.
LEMMA TreeLoaded ==
  ASSUME IInv, IndexLoaded, UNCHANGED treeDisk, phase' = "start", KnownOrNone(tip', indexDisk, undoDisk)
  PROVE  MemoryTree' /\ index' \subseteq Blocks /\ undo' \subseteq Blocks
<1>1. /\ index' = indexDisk \union {Genesis} /\ undo' = undoDisk
      /\ indexDisk' = indexDisk /\ undoDisk' = undoDisk
  BY DEF IndexLoaded, treeDisk
<1>2. Closed(indexDisk) /\ Closed(undoDisk \union {Genesis})
  BY Zenon DEF IInv, DiskTree
<1>3. Closed(index') /\ Genesis \in index' /\ indexDisk \subseteq index'
  BY <1>1, <1>2, Zenon DEF Closed
<1>4. KnownOrNone(tip', index', undo')
  BY <1>1, Zenon DEF KnownOrNone, Known
<1>5. "start" # "flush"
  OBVIOUS
<1>6. MemoryTree'
  BY <1>1, <1>2, <1>3, <1>4, <1>5, Zenon DEF MemoryTree
<1>7. index' \subseteq Blocks /\ undo' \subseteq Blocks
  BY <1>1, GenesisInTree, Zenon DEF IInv, TypeOK
<1> QED  BY <1>6, <1>7, Zenon

\* A start after a complete flush.
LEMMA StartConsistentRight ==
  ASSUME IInv, StartConsistent
  PROVE  IInv'
<1>1. /\ phase = "down" /\ heads = <<>> /\ IndexLoaded
      /\ mem' = disk /\ dirty' = {} /\ tip' = best
      /\ phase' = IF best \in index' \union {None} THEN "start" ELSE "failed"
      /\ UNCHANGED coinsDisk /\ UNCHANGED treeDisk /\ crashes' = crashes
  BY Zenon DEF StartConsistent, Started
<1>2. disk' = disk /\ best' = best /\ heads' = heads /\ indexDisk' = indexDisk /\ undoDisk' = undoDisk
  BY <1>1 DEF coinsDisk, treeDisk
<1>3. KnownOrNone(best, indexDisk, undoDisk) /\ disk = UtxoOf(best)
  BY <1>1, Zenon DEF IInv, DiskTree, DiskCoins
<1>4. phase' = "start"
  <2>1. best \in index' \union {None}
    BY <1>1, <1>3, Zenon DEF IndexLoaded, KnownOrNone, Known
  <2> QED  BY <1>1, <2>1, Zenon
<1>5. MemoryTree' /\ index' \subseteq Blocks /\ undo' \subseteq Blocks
  BY <1>1, <1>3, <1>4, TreeLoaded, Zenon
<1>6. DiskTree' /\ DiskCoins'
  BY <1>1, DiskKept, Zenon DEF IInv
<1>7. phase' \in {"run", "flush", "down", "start", "failed"} /\ phase' # "failed" /\ phase' # "run"
  BY <1>4
<1>8. TypeOK'
  BY <1>1, <1>2, <1>5, <1>7, Zenon DEF IInv, TypeOK
<1>9. CoinsMatchTip' /\ DirtyCoversChanges' /\ NeverFails' /\ HeadsFollowed'
  BY <1>1, <1>2, <1>3, <1>7, Zenon DEF CoinsMatchTip, DirtyCoversChanges, NeverFails, HeadsFollowed
<1> QED  BY <1>5, <1>6, <1>8, <1>9, Zenon DEF IInv

\* Replayable in terms of the tree on disk.
LEMMA ReplayableIs ==
  ASSUME IInv, heads # <<>>
  PROVE  /\ heads[1] \in Blocks /\ heads[2] \in Blocks \union {None}
         /\ Replayable(heads[1], heads[2])
<1>1. heads[1] \in Blocks /\ heads[2] \in Blocks \union {None}
  BY DEF IInv, TypeOK
<1> DEFINE new == heads[1]
           old == heads[2]
<1>2. /\ Known(new, indexDisk, undoDisk) /\ KnownOrNone(old, indexDisk, undoDisk)
      /\ Closed(indexDisk) /\ Closed(undoDisk \union {Genesis})
      /\ indexDisk \in SUBSET Blocks /\ undoDisk \in SUBSET Blocks
  BY Zenon DEF IInv, DiskTree, TypeOK
<1> HIDE DEF new, old
<1>3. new \in Blocks /\ old \in Blocks \union {None}
  BY <1>1, Zenon DEF new, old
<1>4. CanReplay(new, old, indexDisk, undoDisk)
  BY <1>2, <1>3, DataThere, Zenon
<1>5. Replayable(new, old)
  BY <1>4, Zenon DEF CanReplay, Replayable
<1> QED  BY <1>1, <1>5, Zenon DEF new, old

\* A start after an interrupted flush.
LEMMA ReplayBlocksRight ==
  ASSUME IInv, ReplayBlocks
  PROVE  IInv'
<1> DEFINE new == heads[1]
           old == heads[2]
           path == Range(RolledBack(new, old)) \union Range(RolledForward(new, old))
           touched == UNION {Touched(b) : b \in path}
<1>1. heads # <<>> /\ IndexLoaded /\ UNCHANGED coinsDisk /\ UNCHANGED treeDisk /\ crashes' = crashes
  BY Zenon DEF ReplayBlocks
<1>2. new \in Blocks /\ old \in Blocks \union {None} /\ Replayable(new, old)
  BY <1>1, ReplayableIs, Zenon
<1>3. /\ mem' = Replayed(disk, new, old) /\ dirty' = StillDirty(touched, mem')
      /\ tip' = new /\ phase' = "start"
  BY <1>2, Zenon DEF ReplayBlocks, Started
<1>4. disk' = disk /\ best' = best /\ heads' = heads /\ indexDisk' = indexDisk /\ undoDisk' = undoDisk
  BY <1>1 DEF coinsDisk, treeDisk
<1>5. Known(new, indexDisk, undoDisk) /\ Replayed(disk, new, old) = Utxo[new]
  BY <1>1, Zenon DEF IInv, DiskTree, DiskCoins
<1>6. touched = PathTouched(new, old)
  BY Zenon DEF PathTouched, Along
<1> HIDE DEF new, old, path, touched
<1>7. mem' = UtxoOf(tip')
  BY <1>2, <1>3, <1>5, GenesisInTree, Zenon DEF UtxoOf
<1>8. mem' \subseteq Outpoints
  <2>1. Utxo[new] \in SUBSET Outpoints
    BY <1>2, UtxoDef, Zenon
  <2> QED  BY <1>3, <1>5, <2>1, Zenon
<1>9. MemoryTree' /\ index' \subseteq Blocks /\ undo' \subseteq Blocks
  BY <1>1, <1>3, <1>5, TreeLoaded, Zenon DEF KnownOrNone
<1>10. DiskTree' /\ DiskCoins'
  BY <1>1, DiskKept, Zenon DEF IInv
<1>11. /\ phase' \in {"run", "flush", "down", "start", "failed"} /\ phase' # "failed" /\ phase' # "run"
  BY <1>3
<1>12. dirty' \subseteq Outpoints /\ DirtyCoversChanges'
  <2> DEFINE m == Replayed(disk, new, old)
  <2>1. ASSUME NEW o, o \notin touched PROVE o \in m <=> o \in disk
    BY <1>2, <1>6, <2>1, ReplayShape, SMTT(30)
  <2>2. mem' = m
    BY <1>3, Zenon
  <2> HIDE DEF m
  <2>3. mem' \subseteq Outpoints /\ disk \subseteq Outpoints
    BY <1>8, Zenon DEF IInv, TypeOK
  <2>4. dirty' \subseteq Outpoints
    BY <1>3, <2>3, Zenon DEF StillDirty
  <2>5. ASSUME NEW o \in Outpoints, o \notin dirty' PROVE o \in mem' <=> o \in disk
    <3>1. o \notin touched \/ (o \notin mem' /\ o \notin disk)
      BY <1>3, <2>5, Zenon DEF StillDirty
    <3> QED  BY <3>1, <2>1, <2>2, Zenon
  <2> QED  BY <1>4, <2>4, <2>5, Zenon DEF DirtyCoversChanges
<1>13. TypeOK'
  BY <1>1, <1>2, <1>3, <1>4, <1>8, <1>9, <1>11, <1>12, Zenon DEF IInv, TypeOK
<1>14. CoinsMatchTip' /\ NeverFails' /\ HeadsFollowed'
  BY <1>3, <1>4, <1>7, <1>11, Zenon DEF CoinsMatchTip, NeverFails, HeadsFollowed, new
<1> QED  BY <1>9, <1>10, <1>12, <1>13, <1>14, Zenon DEF IInv

-----------------------------------------------------------------------------
(* The theorems. *)

\* No step, and no crash between two steps, breaks the invariant.
LEMMA StepRight == ASSUME IInv, [Next]_vars PROVE IInv'
<1>1. CASE UNCHANGED vars
  <2>1. /\ phase' = phase /\ mem' = mem /\ dirty' = dirty /\ tip' = tip /\ index' = index /\ undo' = undo
        /\ UNCHANGED coinsDisk /\ UNCHANGED treeDisk /\ crashes' = crashes
    BY <1>1 DEF vars, memory
  <2>2. disk' = disk /\ best' = best /\ heads' = heads /\ indexDisk' = indexDisk /\ undoDisk' = undoDisk
    BY <2>1 DEF coinsDisk, treeDisk
  <2>3. DiskTree' /\ DiskCoins'
    BY <2>1, DiskKept, Zenon DEF IInv
  <2>4. TypeOK'
    BY <2>1, <2>2, Zenon DEF IInv, TypeOK
  <2>5. MemoryTree' /\ HeadsFollowed' /\ CoinsMatchTip' /\ DirtyCoversChanges' /\ NeverFails'
    BY <2>1, <2>2, Zenon
    DEF IInv, MemoryTree, HeadsFollowed, CoinsMatchTip, DirtyCoversChanges, NeverFails
  <2> QED  BY <2>3, <2>4, <2>5, Zenon DEF IInv
<1>2. CASE Next
  <2>1. CASE \E b \in Blocks \ {Genesis} : AcceptBlock(b)
    BY <2>1, AcceptBlockRight, Zenon
  <2>2. CASE \E b \in Blocks : ConnectTip(b)
    BY <2>2, ConnectTipRight, Zenon
  <2>3. CASE DisconnectTip
    BY <2>3, DisconnectTipRight, Zenon
  <2>4. CASE WriteBlockIndex
    BY <2>4, WriteBlockIndexRight, Zenon
  <2>5. CASE FlushStateToDisk
    BY <2>5, FlushStateToDiskRight, Zenon
  <2>6. CASE \E S \in SUBSET dirty : PartialBatch(S)
    BY <2>6, PartialBatchRight, Zenon
  <2>7. CASE FinalBatch
    BY <2>7, FinalBatchRight, Zenon
  <2>8. CASE Crash
    BY <2>8, CrashRight, Zenon
  <2>9. CASE StartConsistent
    BY <2>9, StartConsistentRight, Zenon
  <2>10. CASE ReplayBlocks
    BY <2>10, ReplayBlocksRight, Zenon
  <2> QED
    BY <1>2, <2>1, <2>2, <2>3, <2>4, <2>5, <2>6, <2>7, <2>8, <2>9, <2>10, ZenonT(30) DEF Next
<1> QED  BY <1>1, <1>2, Zenon

\* The inductive invariant holds in every reachable state.
THEOREM RecoveryInvariant == Spec => []IInv
<1>1. Init => IInv
  BY InitRight, Zenon
<1>2. IInv /\ [Next]_vars => IInv'
  BY StepRight, Zenon
<1> QED  BY <1>1, <1>2, PTL DEF Spec

\* In every phase the coins that the CoinsDB presents are those of its best
\* block, the cache marks all that differs from the disk, FlushStateToDisk goes
\* on towards the head it began with, and DisconnectBlock finds the coins that
\* it expects, whatever crashes and replays came before.
THEOREM MemoryStaysConsistent == Spec => []MemoryConsistent
<1>1. IInv => MemoryConsistent
  <2> SUFFICES ASSUME IInv PROVE MemoryConsistent
    OBVIOUS
  <2>1. TypeOK /\ CoinsMatchTip /\ DirtyCoversChanges
    BY Zenon DEF IInv
  <2>2. FlushFinishesInterruptedOne
    BY DEF IInv, HeadsFollowed, FlushFinishesInterruptedOne
  <2>3. CleanDisconnect
    <3> SUFFICES ASSUME phase = "run", tip # None, tip # Genesis, NEW i \in DOMAIN Txs[tip]
                 PROVE  LET later == FoldLeft(UndoneTx, mem, Reverse(SubSeq(Txs[tip], i + 1, Len(Txs[tip]))))
                        IN Txs[tip][i].outs \subseteq later /\ Txs[tip][i].ins \intersect later = {}
      BY Zenon DEF CleanDisconnect
    <3>1. tip \in Blocks \ {Genesis} /\ phase \in {"run", "flush", "start"}
      BY DEF IInv, TypeOK
    <3>2. mem = Utxo[tip]
      BY <3>1, Zenon DEF IInv, CoinsMatchTip, UtxoOf
    <3> QED  BY <3>1, <3>2, UndoneCleanly, Zenon
  <2> QED  BY <2>1, <2>2, <2>3, Zenon DEF MemoryConsistent
<1> QED  BY <1>1, RecoveryInvariant, PTL

\* At every instant, between two batches of DBBatchWrite included, the disk
\* holds the coins of its best block or all that ReplayBlocks needs to reach
\* those of the new head, and no start-up fails.
THEOREM EveryCrashSurvived == Spec => []CrashesSurvived
<1>1. IInv => CrashesSurvived
  <2> SUFFICES ASSUME IInv PROVE DiskRecoverable
    BY Zenon DEF IInv, CrashesSurvived
  <2>1. CASE heads = <<>>
    BY <2>1, Zenon DEF IInv, DiskCoins, DiskRecoverable
  <2>2. CASE heads # <<>>
    <3>1. Replayable(heads[1], heads[2])
      BY <2>2, ReplayableIs, Zenon
    <3> QED  BY <2>2, <3>1, Zenon DEF IInv, DiskCoins, DiskRecoverable
  <2> QED  BY <2>1, <2>2, Zenon
<1> QED  BY <1>1, RecoveryInvariant, PTL
===============================================================================
