------------------------ MODULE ChainActivationProofs ------------------------
(***************************************************************************)
(* Proofs about ChainActivation, for any tree of blocks, any number of     *)
(* threads and any bounds: the index stays consistent, a block is          *)
(* connected only to its parent, and when all threads are done no eligible *)
(* block has more work than the tip.                                       *)
(***************************************************************************)
EXTENDS ChainActivation, FiniteSetTheorems, WellFoundedInduction, TLAPS

-----------------------------------------------------------------------------
(* The tree.                                                               *)

\* A set of blocks that has the parent of each of its members.
Closed(S) == \A b \in S \ {Genesis} : Parent[b] \in S

\* The least such set with block b.
Closure(b) == {a \in Blocks : \A S \in SUBSET Blocks : b \in S /\ Closed(S) => a \in S}

\* The recursive definition of Ancestors has a solution, whatever the tree.
LEMMA ClosureUnfolds ==
  ASSUME NEW b \in Blocks
  PROVE  Closure(b) = IF b = Genesis THEN {b} ELSE {b} \union Closure(Parent[b])
<1>1. \A x \in Blocks \ {Genesis} : Parent[x] \in Blocks
  BY TreeRooted, Zenon
<1>2. CASE b = Genesis
  <2>1. {b} \in SUBSET Blocks /\ Closed({b})
    BY <1>2, Zenon DEF Closed
  <2>2. Closure(b) \subseteq {b}
    BY <2>1, Zenon DEF Closure
  <2>3. b \in Closure(b)
    BY Zenon DEF Closure
  <2> QED  BY <1>2, <2>2, <2>3, Zenon
<1>3. CASE b # Genesis
  <2> DEFINE p == Parent[b]
             C == {b} \union Closure(p)
  <2>1. p \in Blocks /\ p \in Closure(p) /\ b \in Closure(b)
    BY <1>1, <1>3, Zenon DEF Closure
  <2>2. C \in SUBSET Blocks
    BY Zenon DEF Closure
  <2>3. ASSUME NEW x \in Closure(p), x # Genesis PROVE Parent[x] \in Closure(p)
    <3>1. x \in Blocks /\ Parent[x] \in Blocks
      BY <1>1, <2>3, Zenon DEF Closure
    <3>2. ASSUME NEW S \in SUBSET Blocks, p \in S, Closed(S) PROVE Parent[x] \in S
      <4>1. x \in S
        BY <3>2, Zenon DEF Closure
      <4> QED  BY <2>3, <3>2, <4>1, Zenon DEF Closed
    <3> QED  BY <3>1, <3>2, Zenon DEF Closure
  <2>4. Closed(C)
    BY <1>3, <2>1, <2>3, Zenon DEF Closed
  <2>5. Closure(b) \subseteq C
    BY <2>2, <2>4, Zenon DEF Closure
  <2>6. ASSUME NEW x \in Closure(p) PROVE x \in Closure(b)
    <3>1. x \in Blocks
      BY Zenon DEF Closure
    <3>2. ASSUME NEW S \in SUBSET Blocks, b \in S, Closed(S) PROVE x \in S
      <4>1. p \in S
        BY <1>3, <3>2, Zenon DEF Closed
      <4> QED  BY <3>2, <4>1, Zenon DEF Closure
    <3> QED  BY <3>1, <3>2, Zenon DEF Closure
  <2> QED  BY <1>3, <2>1, <2>5, <2>6, Zenon
<1> QED  BY <1>2, <1>3, Zenon

\* Ancestors is what its definition says.
LEMMA AncestorsDef ==
  \A b \in Blocks : Ancestors[b] = IF b = Genesis THEN {b} ELSE {b} \union Ancestors[Parent[b]]
<1> DEFINE Def(f) == [b \in Blocks |-> IF b = Genesis THEN {b} ELSE {b} \union f[Parent[b]]]
           F == [b \in Blocks |-> Closure(b)]
<1>1. F = Def(F)
  <2>1. ASSUME NEW b \in Blocks
        PROVE  F[b] = IF b = Genesis THEN {b} ELSE {b} \union F[Parent[b]]
    <3>1. b # Genesis => Parent[b] \in Blocks
      BY TreeRooted, Zenon
    <3> QED  BY <3>1, ClosureUnfolds, Zenon
  <2> QED  BY <2>1, Zenon
<1>2. Up = CHOOSE f : f = Def(f)
  BY Zenon DEF Up
<1> HIDE DEF F
<1>3. Up = Def(Up)
  BY <1>1, <1>2, Zenon
<1>4. ASSUME NEW b \in Blocks
      PROVE  Ancestors[b] = IF b = Genesis THEN {b} ELSE {b} \union Ancestors[Parent[b]]
  <2>1. b # Genesis => Parent[b] \in Blocks
    BY TreeRooted, Zenon
  <2>2. Up[b] = IF b = Genesis THEN {b} ELSE {b} \union Up[Parent[b]]
    BY <1>3, Zenon
  <2> QED  BY <2>1, <2>2, Zenon DEF Ancestors
<1> QED  BY <1>4, Zenon

\* The active chain or any other reaches down to the genesis block.
LEMMA AncestorsIn ==
  \A b \in Blocks : Ancestors[b] \subseteq Blocks /\ b \in Ancestors[b] /\ Genesis \in Ancestors[b]
<1> DEFINE P(b) == Ancestors[b] \subseteq Blocks /\ b \in Ancestors[b] /\ Genesis \in Ancestors[b]
           S == {b \in Blocks : ~P(b)}
<1> SUFFICES ASSUME S # {} PROVE FALSE
  OBVIOUS
<1>1. S \in (SUBSET Blocks) \ {{}}
  OBVIOUS
<1> HIDE DEF S
<1>2. PICK b \in S : b = Genesis \/ Parent[b] \notin S
  BY <1>1, TreeGrounded, Zenon
<1> USE DEF S
<1>3. b \in Blocks /\ ~P(b) /\ (b # Genesis => Parent[b] \in Blocks)
  BY <1>2, TreeRooted, Zenon
<1>4. Ancestors[b] = IF b = Genesis THEN {b} ELSE {b} \union Ancestors[Parent[b]]
  BY <1>3, AncestorsDef, Zenon
<1>5. CASE b = Genesis
  BY <1>3, <1>4, <1>5, Zenon
<1>6. CASE b # Genesis
  <2>1. P(Parent[b])
    BY <1>2, <1>3, <1>6, Zenon
  <2> QED  BY <1>3, <1>4, <1>6, <2>1, Zenon
<1> QED  BY <1>5, <1>6, Zenon

\* What a block's parent is to it.
LEMMA ParentOf ==
  ASSUME NEW b \in Blocks \ {Genesis}
  PROVE  /\ Parent[b] \in Blocks /\ Ancestors[b] = {b} \union Ancestors[Parent[b]]
         /\ Parent[b] \in Ancestors[b]
<1>1. Parent[b] \in Blocks
  BY TreeRooted, Zenon
<1> QED  BY <1>1, AncestorsDef, AncestorsIn, Zenon

\* The ancestors of an ancestor are ancestors.
LEMMA AncestorsTransitive ==
  \A b \in Blocks : \A a \in Ancestors[b] : Ancestors[a] \subseteq Ancestors[b]
<1> DEFINE P(b) == \A a \in Ancestors[b] : Ancestors[a] \subseteq Ancestors[b]
           S == {b \in Blocks : ~P(b)}
<1> SUFFICES ASSUME S # {} PROVE FALSE
  OBVIOUS
<1>1. S \in (SUBSET Blocks) \ {{}}
  OBVIOUS
<1> HIDE DEF S
<1>2. PICK b \in S : b = Genesis \/ Parent[b] \notin S
  BY <1>1, TreeGrounded, Zenon
<1> USE DEF S
<1>3. b \in Blocks /\ ~P(b)
  BY <1>2, Zenon
<1>4. CASE b = Genesis
  <2>1. Ancestors[b] = {b}
    BY <1>3, <1>4, AncestorsDef, Zenon
  <2>2. P(b)
    BY <2>1, Zenon
  <2> QED  BY <1>3, <2>2, Zenon
<1>5. CASE b # Genesis
  <2>1. Parent[b] \in Blocks /\ Ancestors[b] = {b} \union Ancestors[Parent[b]]
    BY <1>3, <1>5, ParentOf, Zenon
  <2>2. P(Parent[b])
    BY <1>2, <1>5, <2>1, Zenon
  <2> QED  BY <1>3, <2>1, <2>2, Zenon
<1> QED  BY <1>4, <1>5, Zenon

\* No block is above itself.
LEMMA NotAboveItself ==
  ASSUME NEW b \in Blocks \ {Genesis}
  PROVE  b \notin Ancestors[Parent[b]]
<1> SUFFICES ASSUME b \in Ancestors[Parent[b]] PROVE FALSE
  OBVIOUS
<1> DEFINE S == {x \in Ancestors[b] : b \in Ancestors[x]}
<1>1. b \in S /\ S \in SUBSET Blocks
  BY AncestorsIn, Zenon
<1>2. ASSUME NEW x \in S PROVE x # Genesis /\ Parent[x] \in S
  <2>1. x \in Blocks /\ x \in Ancestors[b] /\ b \in Ancestors[x]
    BY <1>1, Zenon
  <2>2. x # Genesis
    BY <2>1, AncestorsDef, Zenon
  <2>3. Parent[x] \in Ancestors[x] /\ Ancestors[x] = {x} \union Ancestors[Parent[x]]
    BY <2>1, <2>2, ParentOf, Zenon
  <2>4. Parent[x] \in Ancestors[b]
    BY <2>1, <2>3, AncestorsTransitive, Zenon
  <2> QED  BY <2>1, <2>2, <2>3, <2>4, Zenon
<1> HIDE DEF S
<1> QED  BY <1>1, <1>2, TreeGrounded, Zenon

\* Two blocks are not above each other.
LEMMA Antisymmetric ==
  ASSUME NEW b \in Blocks, NEW a \in Ancestors[b], b \in Ancestors[a]
  PROVE  a = b
<1> SUFFICES ASSUME a # b PROVE FALSE
  OBVIOUS
<1>1. b # Genesis
  BY AncestorsDef, Zenon
<1>2. Parent[b] \in Blocks /\ a \in Ancestors[Parent[b]]
  BY <1>1, ParentOf, Zenon
<1>3. b \in Ancestors[Parent[b]]
  BY <1>2, AncestorsTransitive, Zenon
<1> QED  BY <1>1, <1>3, NotAboveItself, Zenon

\* A chain has no forks.
LEMMA ChainLinear ==
  \A b \in Blocks : \A a, c \in Ancestors[b] : a \in Ancestors[c] \/ c \in Ancestors[a]
<1> DEFINE P(b) == \A a, c \in Ancestors[b] : a \in Ancestors[c] \/ c \in Ancestors[a]
           S == {b \in Blocks : ~P(b)}
<1> SUFFICES ASSUME S # {} PROVE FALSE
  OBVIOUS
<1>1. S \in (SUBSET Blocks) \ {{}}
  OBVIOUS
<1> HIDE DEF S
<1>2. PICK b \in S : b = Genesis \/ Parent[b] \notin S
  BY <1>1, TreeGrounded, Zenon
<1> USE DEF S
<1>3. b \in Blocks /\ ~P(b)
  BY <1>2, Zenon
<1>4. CASE b = Genesis
  <2>1. Ancestors[b] = {b}
    BY <1>3, <1>4, AncestorsDef, Zenon
  <2>2. \A a, c \in Ancestors[b] : a \in Ancestors[c]
    BY <2>1, Zenon
  <2> QED  BY <1>3, <2>2, Zenon
<1>5. CASE b # Genesis
  <2>1. Parent[b] \in Blocks /\ Ancestors[b] = {b} \union Ancestors[Parent[b]]
    BY <1>3, <1>5, ParentOf, Zenon
  <2>2. P(Parent[b])
    BY <1>2, <1>5, <2>1, Zenon
  <2> QED  BY <1>3, <2>1, <2>2, Zenon
<1> QED  BY <1>4, <1>5, Zenon

\* On the way up from an ancestor there is a next block.
LEMMA NextOnPath ==
  \A b \in Blocks : \A a \in Ancestors[b] \ {b} : \E x \in Ancestors[b] \ {Genesis} : Parent[x] = a
<1> DEFINE P(b) == \A a \in Ancestors[b] \ {b} : \E x \in Ancestors[b] \ {Genesis} : Parent[x] = a
           S == {b \in Blocks : ~P(b)}
<1> SUFFICES ASSUME S # {} PROVE FALSE
  OBVIOUS
<1>1. S \in (SUBSET Blocks) \ {{}}
  OBVIOUS
<1> HIDE DEF S
<1>2. PICK b \in S : b = Genesis \/ Parent[b] \notin S
  BY <1>1, TreeGrounded, Zenon
<1> USE DEF S
<1>3. b \in Blocks /\ ~P(b)
  BY <1>2, Zenon
<1>4. CASE b = Genesis
  BY <1>3, <1>4, AncestorsDef, Zenon
<1>5. CASE b # Genesis
  <2>1. Parent[b] \in Blocks /\ Ancestors[b] = {b} \union Ancestors[Parent[b]]
    BY <1>3, <1>5, ParentOf, Zenon
  <2>2. P(Parent[b])
    BY <1>2, <1>5, <2>1, Zenon
  <2>3. ASSUME NEW a \in Ancestors[b] \ {b} PROVE \E x \in Ancestors[b] \ {Genesis} : Parent[x] = a
    <3>1. CASE a = Parent[b]
      BY <1>5, <2>1, <3>1, Zenon
    <3>2. CASE a # Parent[b]
      BY <2>1, <2>2, <3>2, Zenon
    <3> QED  BY <3>1, <3>2, Zenon
  <2> QED  BY <1>3, <2>3, Zenon
<1> QED  BY <1>4, <1>5, Zenon

\* Work grows along a chain.
LEMMA WorkOf ==
  ASSUME NEW b \in Blocks
  PROVE  /\ Work(b) \in Nat /\ Work(b) <= Cardinality(Blocks)
         /\ \A a \in Ancestors[b] : Work(a) <= Work(b) /\ (a # b => Work(a) < Work(b))
<1>1. \A x \in Blocks : IsFiniteSet(Ancestors[x])
  BY AncestorsIn, TreeGrounded, FS_Subset, Zenon
<1>2. Work(b) \in Nat /\ Work(b) <= Cardinality(Blocks)
  BY <1>1, AncestorsIn, TreeGrounded, FS_CardinalityType, FS_Subset, Zenon DEF Work
<1>3. ASSUME NEW a \in Ancestors[b] PROVE Work(a) <= Work(b) /\ (a # b => Work(a) < Work(b))
  <2>1. a \in Blocks /\ Ancestors[a] \subseteq Ancestors[b] /\ b \in Ancestors[b]
    BY AncestorsIn, AncestorsTransitive, Zenon
  <2>2. /\ Cardinality(Ancestors[a]) \in Nat /\ Cardinality(Ancestors[b]) \in Nat
        /\ Cardinality(Ancestors[a]) <= Cardinality(Ancestors[b])
    BY <1>1, <2>1, FS_CardinalityType, FS_Subset, Zenon
  <2>3. ASSUME a # b PROVE Cardinality(Ancestors[a]) # Cardinality(Ancestors[b])
    <3>1. b \notin Ancestors[a]
      BY <2>3, Antisymmetric, Zenon
    <3> QED  BY <1>1, <2>1, <3>1, FS_Subset, Zenon
  <2> QED  BY <2>2, <2>3, SMTT(30) DEF Work
<1> QED  BY <1>2, <1>3, Zenon

-----------------------------------------------------------------------------
(* The order of the candidates.                                            *)

\* CBlockIndexWorkComparator: by work, then by time, sequence id and address.
LEMMA Order ==
  ASSUME NEW a \in Blocks, NEW b \in Blocks,
         NEW tm \in [Blocks -> Int], NEW id \in [Blocks -> Int]
  PROVE  Before(a, b, tm, id) <=>
           \/ Work(a) < Work(b)
           \/ /\ Work(a) = Work(b)
              /\ \/ tm[a] > tm[b]
                 \/ /\ tm[a] = tm[b]
                    /\ \/ id[a] > id[b]
                       \/ id[a] = id[b] /\ Address[a] > Address[b]
<1> DEFINE x == <<-Work(a), tm[a], id[a], Address[a]>>
           y == <<-Work(b), tm[b], id[b], Address[b]>>
           Q(i) == x[i] > y[i] /\ \A j \in 1 .. i - 1 : x[j] = y[j]
<1>1. /\ Work(a) \in Nat /\ Work(b) \in Nat /\ tm[a] \in Int /\ tm[b] \in Int
      /\ id[a] \in Int /\ id[b] \in Int /\ Address[a] \in Nat /\ Address[b] \in Nat
  BY WorkOf, AddressesDistinct, Zenon
<1>2. /\ x[1] = -Work(a) /\ x[2] = tm[a] /\ x[3] = id[a] /\ x[4] = Address[a]
      /\ y[1] = -Work(b) /\ y[2] = tm[b] /\ y[3] = id[b] /\ y[4] = Address[b]
  OBVIOUS
<1>3. Before(a, b, tm, id) <=> \E i \in 1 .. 4 : Q(i)
  BY Zenon DEF Before
<1> HIDE DEF x, y
<1>4. /\ Q(1) <=> x[1] > y[1]
      /\ Q(2) <=> x[2] > y[2] /\ x[1] = y[1]
      /\ Q(3) <=> x[3] > y[3] /\ x[1] = y[1] /\ x[2] = y[2]
      /\ Q(4) <=> x[4] > y[4] /\ x[1] = y[1] /\ x[2] = y[2] /\ x[3] = y[3]
  OBVIOUS
<1>5. (\E i \in 1 .. 4 : Q(i)) <=> Q(1) \/ Q(2) \/ Q(3) \/ Q(4)
  <2>1. 1 .. 4 = {1, 2, 3, 4}
    OBVIOUS
  <2> HIDE DEF Q
  <2> QED  BY <2>1, Zenon
<1> HIDE DEF Q
<1>6. /\ x[1] > y[1] <=> Work(a) < Work(b)
      /\ x[1] = y[1] <=> Work(a) = Work(b)
  BY <1>1, <1>2, SMTT(30)
<1> QED  BY <1>2, <1>3, <1>4, <1>5, <1>6, Zenon

\* Some member of a set has the least value.
LEMMA Least ==
  ASSUME NEW C, C # {}, NEW f, \A c \in C : f[c] \in Nat
  PROVE  \E m \in C : \A c \in C : f[m] <= f[c]
<1> DEFINE V == {f[c] : c \in C}
<1>1. V \subseteq Nat /\ V # {}
  OBVIOUS
<1>2. IsWellFoundedOn(OpToRel(<, Nat), Nat)
  BY NatLessThanWellFounded, Zenon
<1> HIDE DEF V
<1>3. PICK v \in V : \A w \in V : ~(<<w, v>> \in OpToRel(<, Nat))
  BY <1>1, <1>2, WFMin, Zenon
<1>4. \A w \in V : ~(w < v)
  BY <1>1, <1>3, Zenon DEF OpToRel
<1>5. \A w \in V : v <= w
  BY <1>1, <1>4, SMTT(30)
<1> USE DEF V
<1>6. PICK m \in C : v = f[m]
  OBVIOUS
<1> QED  BY <1>5, <1>6, Zenon

\* FindMostWorkChain finds a best candidate: the order is total.
LEMMA BestExists ==
  ASSUME NEW C \in SUBSET Blocks, C # {},
         NEW tm \in [Blocks -> Nat], NEW id \in [Blocks -> Int],
         NEW k \in Nat, \A b \in Blocks : id[b] + k >= 0
  PROVE  \E b \in C : \A c \in C \ {b} : Before(c, b, tm, id)
<1>1. /\ \A b \in Blocks : /\ Work(b) \in Nat /\ Cardinality(Blocks) - Work(b) \in Nat
                           /\ tm[b] \in Nat /\ id[b] \in Int /\ id[b] + k \in Nat
                           /\ Address[b] \in Nat
      /\ Cardinality(Blocks) \in Nat
  <2>1. Cardinality(Blocks) \in Nat
    BY TreeGrounded, FS_CardinalityType, Zenon
  <2>2. ASSUME NEW b \in Blocks
        PROVE  /\ Work(b) \in Nat /\ Work(b) <= Cardinality(Blocks)
               /\ tm[b] \in Nat /\ id[b] \in Int /\ id[b] + k >= 0 /\ Address[b] \in Nat
    BY WorkOf, AddressesDistinct, Zenon
  <2> QED  BY <2>1, <2>2, SMTT(30)
<1> DEFINE f == [b \in Blocks |-> Cardinality(Blocks) - Work(b)]
           g == [b \in Blocks |-> id[b] + k]
           C1 == {b \in C : \A c \in C : f[b] <= f[c]}
           C2 == {b \in C1 : \A c \in C1 : tm[b] <= tm[c]}
           C3 == {b \in C2 : \A c \in C2 : g[b] <= g[c]}
<1>2. C1 # {}
  <2>1. \A c \in C : f[c] \in Nat
    BY <1>1, Zenon
  <2> HIDE DEF f
  <2>2. \E m \in C : \A c \in C : f[m] <= f[c]
    BY <2>1, Least, Zenon
  <2> QED  BY <2>2, Zenon
<1>3. C2 # {}
  <2>1. \A c \in C1 : tm[c] \in Nat
    BY <1>1, Zenon
  <2> HIDE DEF C1
  <2>2. \E m \in C1 : \A c \in C1 : tm[m] <= tm[c]
    BY <1>2, <2>1, Least, Zenon
  <2> QED  BY <2>2, Zenon
<1>4. C3 # {}
  <2>1. \A c \in C2 : g[c] \in Nat
    BY <1>1, Zenon
  <2> HIDE DEF C2, g
  <2>2. \E m \in C2 : \A c \in C2 : g[m] <= g[c]
    BY <1>3, <2>1, Least, Zenon
  <2> QED  BY <2>2, Zenon
<1>5. PICK b \in C3 : \A c \in C3 : Address[b] <= Address[c]
  <2>1. \A c \in C3 : Address[c] \in Nat
    BY <1>1, Zenon
  <2> HIDE DEF C3
  <2>2. \E m \in C3 : \A c \in C3 : Address[m] <= Address[c]
    BY <1>4, <2>1, Least, Zenon
  <2> QED  BY <2>2, Zenon
<1>6. b \in C /\ b \in Blocks
  OBVIOUS
<1>7. ASSUME NEW c \in C \ {b} PROVE Before(c, b, tm, id)
  <2>1. c \in Blocks /\ b \in Blocks /\ tm \in [Blocks -> Int]
    BY <1>1, <1>6, SMTT(30)
  <2>2. Work(c) <= Work(b)
    <3>1. f[b] <= f[c]
      OBVIOUS
    <3> QED  BY <1>1, <2>1, <3>1, SMTT(30)
  <2>3. Work(c) = Work(b) => tm[b] <= tm[c]
    <3>1. ASSUME Work(c) = Work(b) PROVE c \in C1
      <4>1. f[c] = f[b]
        BY <2>1, <3>1, Zenon
      <4> QED  BY <4>1, Zenon
    <3>2. \A d \in C1 : tm[b] <= tm[d]
      BY ZenonT(20)
    <3> QED  BY <3>1, <3>2, Zenon
  <2>4. Work(c) = Work(b) /\ tm[c] = tm[b] => id[b] <= id[c]
    <3>1. ASSUME Work(c) = Work(b), tm[c] = tm[b] PROVE c \in C2
      <4>1. f[c] = f[b]
        BY <2>1, <3>1, Zenon
      <4> QED  BY <3>1, <4>1, Zenon
    <3>2. \A d \in C2 : g[b] <= g[d]
      BY ZenonT(20)
    <3>3. g[b] = id[b] + k /\ g[c] = id[c] + k
      BY <2>1, Zenon
    <3>4. c \in C2 => id[b] + k <= id[c] + k
      BY <3>2, <3>3, Zenon
    <3> HIDE DEF C2
    <3> QED  BY <1>1, <2>1, <3>1, <3>4, SMTT(30)
  <2>5. Work(c) = Work(b) /\ tm[c] = tm[b] /\ id[c] = id[b] => Address[b] <= Address[c]
    <3>1. ASSUME Work(c) = Work(b), tm[c] = tm[b], id[c] = id[b] PROVE c \in C3
      <4>1. f[c] = f[b] /\ g[c] = g[b]
        BY <2>1, <3>1, Zenon
      <4> QED  BY <3>1, <4>1, Zenon
    <3> QED  BY <1>5, <3>1, Zenon
  <2>6. Address[c] # Address[b]
    BY <2>1, AddressesDistinct, Zenon DEF IsInjective
  <2> HIDE DEF C1, C2, C3, f, g
  <2> QED  BY <1>1, <2>1, <2>2, <2>3, <2>4, <2>5, <2>6, Order, SMTT(30)
<1> QED  BY <1>6, <1>7, Zenon

-----------------------------------------------------------------------------
(* The inductive invariant.                                                *)

\* The block index: what is received, linked and marked, and the sort keys.
\* All blocks whose ancestors were received are linked, and the other received
\* blocks wait for a parent, unless it or one below it will never be accepted.
IndexTypes ==
  /\ data \subseteq Blocks /\ linked = {b \in Blocks : Ancestors[b] \subseteq data}
  /\ malformed \subseteq Bad /\ data \intersect malformed = {}
  /\ unlinked \subseteq data \ linked
  /\ \A b \in data \ linked : b \in unlinked \/ Ancestors[b] \intersect malformed # {}
  /\ tip \in linked /\ candidates \subseteq linked
  /\ failed \subseteq Blocks /\ failedParent \subseteq Blocks /\ overlooked \subseteq Blocks
  /\ crossed \in BOOLEAN
  /\ time \in [Blocks -> Earliest .. Never]
  /\ seqId \in [Blocks -> Int] /\ \A b \in Blocks : seqId[b] >= -rpcs
  /\ precious \in [seq : Int, work : Nat] /\ precious.seq >= -1 - rpcs
  /\ rpcs \in 0 .. MaxRpcs /\ cancels \in 0 .. MaxCancels

\* Nothing above an invalid block that is not linked, but may be, waits for it.
UnlinkedInvalid ==
  \A p \in Blocks \ linked :
    Invalid(p) /\ Ancestors[p] \intersect malformed = {} => \A d \in Descendants(p) : Invalid(d)

\* A chain that is neither marked invalid nor will be found so.
Sound(c) == c \in linked /\ \A a \in Ancestors[c] : ~Invalid(a) /\ a \notin Bad

\* A candidate that cannot be dropped lies on or above the tip.
Anchored == ~crossed => \E c \in candidates : tip \in Ancestors[c] /\ Sound(c)

\* A valid block is a candidate, unless it has no more work than the tip or
\* than a candidate that cannot be dropped.
Outdone(b) == Work(b) <= Work(tip) \/ \E c \in candidates : Sound(c) /\ Work(b) <= Work(c)
Covered ==
  ~crossed => \A b \in linked \ overlooked : ~Invalid(b) => b \in candidates \/ Outdone(b)

Index == IndexTypes /\ UnlinkedInvalid /\ Anchored /\ Covered

Maybe(S) == S \union {None}
Locals == [pblock : Maybe(Blocks), mostWork : Maybe(Blocks), newTip : Maybe(Blocks),
           oldTip : Maybe(Blocks), target : Maybe(Blocks), outer : BOOLEAN]

\* What a thread at a label knows: whoever chooses or connects holds cs_main,
\* and connects only what nobody validates.
Knows(t, label, v) ==
  /\ v.mostWork \in Maybe(linked)
  /\ label \in {"find", "check", "step"} => csMain = t
  /\ label \in {"check", "step"} => v.mostWork # None
  /\ label = "step" => validating \intersect Ancestors[v.mostWork] = {}
  /\ label = "validate" => v.target \in (linked \ {Genesis}) \intersect validating

\* The threads: each that released cs_main validates a block of its own.
Control ==
  /\ csMain \in Maybe(Threads) /\ pc \in [Threads -> Labels] /\ local \in [Threads -> Locals]
  /\ \A t \in Threads : Knows(t, pc[t], local[t])
  /\ \A v \in validating : \E t \in Threads : pc[t] = "validate" /\ local[t].target = v
  /\ \A t, u \in Threads :
       pc[t] = "validate" /\ pc[u] = "validate" /\ local[t].target = local[u].target => t = u

\* When all are done nothing better is left among the candidates.
Resting == Quiescent => \A c \in candidates : Work(c) <= Work(tip)

IInv == Index /\ Control /\ Resting

-----------------------------------------------------------------------------
(* The block index.                                                        *)

\* What the order says about work.
LEMMA OrderWork ==
  ASSUME NEW a \in Blocks, NEW b \in Blocks,
         NEW tm \in [Blocks -> Int], NEW id \in [Blocks -> Int]
  PROVE  /\ Before(a, b, tm, id) => Work(a) <= Work(b)
         /\ ~Before(a, b, tm, id) => Work(b) <= Work(a)
         /\ ~Before(a, a, tm, id)
<1>1. Work(a) \in Nat /\ Work(b) \in Nat /\ tm[a] \in Int /\ id[a] \in Int /\ Address[a] \in Nat
  BY WorkOf, AddressesDistinct, Zenon
<1>2. ~Before(a, a, tm, id)
  BY <1>1, Order, SMTT(30)
<1>3. Before(a, b, tm, id) => Work(a) < Work(b) \/ Work(a) = Work(b)
  BY Order, Zenon
<1>4. Work(a) < Work(b) => Before(a, b, tm, id)
  BY Order, Zenon
<1> QED  BY <1>1, <1>2, <1>3, <1>4, SMTT(30)

\* Types the other lemmas need.
LEMMA IndexParts ==
  ASSUME IndexTypes
  PROVE  /\ linked \subseteq Blocks /\ linked \subseteq data /\ candidates \subseteq Blocks
         /\ tip \in Blocks /\ tip \in linked
         /\ time \in [Blocks -> Nat] /\ time \in [Blocks -> Int] /\ seqId \in [Blocks -> Int]
         /\ \A c \in linked : Ancestors[c] \subseteq linked
<1>1. Cardinality(Blocks) \in Nat
  BY TreeGrounded, FS_CardinalityType, Zenon
<1>2. Earliest .. Never \subseteq Nat /\ Earliest .. Never \subseteq Int
  BY <1>1, SMTT(30) DEF Earliest, Never
<1>3. time \in [Blocks -> Nat] /\ time \in [Blocks -> Int]
  BY <1>2, Zenon DEF IndexTypes
<1>4. linked \subseteq Blocks /\ linked \subseteq data /\ candidates \subseteq Blocks /\ tip \in Blocks
  BY AncestorsIn, Zenon DEF IndexTypes
<1>5. ASSUME NEW c \in linked, NEW a \in Ancestors[c] PROVE a \in linked
  <2>1. a \in Blocks /\ Ancestors[a] \subseteq Ancestors[c]
    BY <1>4, AncestorsIn, AncestorsTransitive, Zenon
  <2> QED  BY <2>1, Zenon DEF IndexTypes
<1> QED  BY <1>3, <1>4, <1>5, Zenon DEF IndexTypes

\* A chain stays sound when none of its blocks is marked.
LEMMA SoundKept ==
  ASSUME NEW c, Sound(c), linked \subseteq linked', \A a \in Ancestors[c] : Invalid(a)' => Invalid(a)
  PROVE  Sound(c)'
BY Zenon DEF Sound

\* A valid block remains covered when candidates are dropped that are invalid
\* or have no more work than the new tip.
LEMMA CoveredKept ==
  ASSUME IndexTypes, IndexTypes', Covered, crossed' = FALSE => crossed = FALSE,
         linked' = linked, overlooked' = overlooked, Work(tip) <= Work(tip'),
         \A b \in Blocks : Invalid(b) => Invalid(b)',
         \A c \in candidates : \/ c \in candidates' \/ Work(c) <= Work(tip')
                               \/ Invalid(c)' /\ ~Sound(c),
         \A c \in candidates : Sound(c) => Sound(c)' \/ Work(c) <= Work(tip')
  PROVE  Covered'
<1> SUFFICES ASSUME ~crossed', NEW b \in linked \ overlooked, ~Invalid(b)'
             PROVE  (b \in candidates \/ Outdone(b))'
  BY Zenon DEF Covered
<1>1. b \in Blocks /\ ~Invalid(b) /\ tip \in Blocks /\ tip' \in Blocks /\ candidates \subseteq Blocks
  <2>1. linked \subseteq Blocks /\ tip \in Blocks /\ candidates \subseteq Blocks
    BY IndexParts, Zenon
  <2>2. tip' \in linked
    BY Zenon DEF IndexTypes
  <2> QED  BY <2>1, <2>2, Zenon
<1>2. ~crossed
  BY Zenon DEF IndexTypes
<1>3. b \in candidates \/ Outdone(b)
  BY <1>1, <1>2, Zenon DEF Covered
<1>4. Work(b) \in Nat /\ Work(tip) \in Nat /\ Work(tip') \in Nat /\ \A c \in candidates : Work(c) \in Nat
  BY <1>1, WorkOf, Zenon
<1>5. CASE b \in candidates
  BY <1>5, Zenon DEF Outdone
<1>6. CASE Work(b) <= Work(tip)
  <2>1. Work(b) <= Work(tip')
    BY <1>4, <1>6, SMTT(30)
  <2> QED  BY <2>1, Zenon DEF Outdone
<1>7. ASSUME NEW c \in candidates, Sound(c), Work(b) <= Work(c) PROVE Outdone(b)'
  <2>1. CASE Work(c) <= Work(tip')
    <3>1. Work(b) <= Work(tip')
      BY <1>4, <1>7, <2>1, SMTT(30)
    <3> QED  BY <3>1, Zenon DEF Outdone
  <2>2. CASE ~(Work(c) <= Work(tip'))
    BY <1>7, <2>2, Zenon DEF Outdone
  <2> QED  BY <2>1, <2>2, Zenon
<1> QED  BY <1>3, <1>5, <1>6, <1>7, Zenon DEF Outdone

\* FindDrops: InvalidateChain marks and drops what is above an invalid block.
LEMMA DropIndex ==
  ASSUME Index, NEW test \in Blocks, Invalid(test),
         failedParent' = failedParent \union Descendants(test),
         candidates' = candidates \ ({test} \union Descendants(test)),
         UNCHANGED <<tip, received, failed, overlooked, crossed, time, precious, bounds>>
  PROVE  Index'
<1>0. /\ IndexTypes /\ UnlinkedInvalid /\ Anchored /\ Covered
      /\ linked \subseteq Blocks /\ candidates \subseteq Blocks /\ tip \in Blocks
      /\ UNCHANGED <<malformed, data, linked, unlinked, seqId, rpcs, cancels>>
  BY IndexParts, Zenon DEF Index, received, bounds
<1>1. Descendants(test) \subseteq Blocks /\ \A d \in Descendants(test) : test \in Ancestors[d]
  BY Zenon DEF Descendants
<1>2. IndexTypes'
  BY <1>0, <1>1, Zenon DEF IndexTypes, Never
<1>3. \A b \in Blocks : Invalid(b)' <=> Invalid(b) \/ b \in Descendants(test)
  BY Zenon DEF Invalid
<1>4. ASSUME NEW c \in candidates, Sound(c) PROVE c \in candidates' /\ Sound(c)'
  <2>1. c \in Blocks /\ Ancestors[c] \subseteq Blocks /\ test \notin Ancestors[c] /\ c \in Ancestors[c]
    BY <1>0, <1>4, AncestorsIn, Zenon DEF Sound
  <2>2. \A a \in Ancestors[c] : a \notin Descendants(test)
    BY <1>1, <2>1, AncestorsTransitive, Zenon
  <2>3. Sound(c)'
    BY <1>0, <1>3, <1>4, <2>1, <2>2, SoundKept, Zenon
  <2> QED  BY <2>1, <2>2, <2>3, Zenon
<1>5. UnlinkedInvalid'
  <2> SUFFICES ASSUME NEW p \in Blocks \ linked, Invalid(p)', Ancestors[p] \intersect malformed = {},
                      NEW d \in Descendants(p)
               PROVE  Invalid(d)'
    BY <1>0, Zenon DEF UnlinkedInvalid, Descendants
  <2>1. d \in Blocks /\ p \in Ancestors[d] /\ d # p
    BY Zenon DEF Descendants
  <2>2. CASE Invalid(p)
    BY <1>0, <1>3, <2>1, <2>2, Zenon DEF UnlinkedInvalid
  <2>3. CASE p \in Descendants(test)
    <3>1. test \in Ancestors[d] /\ p # test /\ test \in Ancestors[p]
      BY <2>1, <2>3, AncestorsTransitive, Zenon DEF Descendants
    <3>2. d # test
      BY <2>1, <3>1, Antisymmetric, Zenon
    <3> QED  BY <1>3, <2>1, <3>1, <3>2, Zenon DEF Descendants
  <2> QED  BY <1>3, <2>2, <2>3, Zenon
<1>6. Anchored'
  BY <1>0, <1>4, Zenon DEF Anchored
<1>7. Covered'
  <2>1. \A c \in candidates : c \in candidates' \/ (Invalid(c)' /\ ~Sound(c))
    <3> SUFFICES ASSUME NEW c \in candidates, c \notin candidates' PROVE Invalid(c)' /\ ~Sound(c)
      BY Zenon
    <3>1. c \in {test} \union Descendants(test)
      OBVIOUS
    <3>2. Invalid(c)'
      BY <1>1, <1>3, <3>1, Zenon
    <3> QED  BY <1>4, <3>2, Zenon
  <2>2. Work(tip) <= Work(tip')
    BY <1>0, WorkOf, SMTT(30)
  <2> QED  BY <1>0, <1>2, <1>3, <1>4, <2>1, <2>2, CoveredKept, Zenon
<1> QED  BY <1>2, <1>5, <1>6, <1>7, Zenon DEF Index

\* DisconnectTip: what was not above the old tip is not above the anchor.
LEMMA DisconnectIndex ==
  ASSUME Index, tip # Genesis, tip' = Parent[tip],
         UNCHANGED <<received, flags, time, candidates, precious, bounds>>
  PROVE  Index'
<1>0. /\ IndexTypes /\ UnlinkedInvalid /\ Anchored /\ Covered
      /\ linked \subseteq Blocks /\ candidates \subseteq Blocks /\ tip \in Blocks /\ tip \in linked
      /\ UNCHANGED <<malformed, data, linked, unlinked, seqId, failed, failedParent, overlooked, crossed, rpcs, cancels>>
      /\ \A c \in linked : Ancestors[c] \subseteq linked
  BY IndexParts, Zenon DEF Index, received, flags, bounds
<1>1. tip' \in Blocks /\ tip' \in Ancestors[tip]
  BY <1>0, ParentOf, Zenon
<1>2. IndexTypes'
  BY <1>0, <1>1, Zenon DEF IndexTypes, Never
<1>3. (\A b : Invalid(b)' <=> Invalid(b)) /\ (\A c : Sound(c)' <=> Sound(c))
  BY <1>0, Zenon DEF Invalid, Sound
<1>4. UnlinkedInvalid'
  BY <1>0, <1>3, Zenon DEF UnlinkedInvalid
<1>5. ASSUME NEW c \in candidates, tip \in Ancestors[c] PROVE tip' \in Ancestors[c] /\ Work(tip) <= Work(c)
  BY <1>0, <1>1, <1>5, AncestorsTransitive, WorkOf, Zenon
<1>6. Anchored'
  BY <1>0, <1>3, <1>5, Zenon DEF Anchored
<1>7. Covered'
  <2> SUFFICES ASSUME ~crossed, NEW b \in linked \ overlooked, ~Invalid(b)
               PROVE  (b \in candidates \/ Outdone(b))'
    BY <1>0, <1>3, Zenon DEF Covered
  <2>1. PICK c \in candidates : tip \in Ancestors[c] /\ Sound(c)
    BY <1>0, Zenon DEF Anchored
  <2>2. Work(tip) <= Work(c) /\ Work(tip) \in Nat /\ Work(c) \in Nat /\ Work(b) \in Nat
    BY <1>0, <1>5, <2>1, WorkOf, Zenon
  <2>3. Work(b) <= Work(tip) => Work(b) <= Work(c)
    BY <2>2, SMTT(30)
  <2>4. Work(b) <= Work(tip) => Outdone(b)'
    BY <1>0, <1>3, <2>1, <2>3, Zenon DEF Outdone
  <2> QED  BY <1>0, <1>3, <2>4, Zenon DEF Covered, Outdone
<1> QED  BY <1>2, <1>4, <1>6, <1>7, Zenon DEF Index

\* InvalidBlockFound: no sound candidate builds on a block that is bad.
LEMMA BadIndex ==
  ASSUME Index, NEW b \in linked, b \in Bad,
         failed' = failed \union {b}, candidates' = candidates \ {b},
         UNCHANGED <<tip, received, failedParent, overlooked, crossed, time, precious, rpcs>>,
         cancels' \in 0 .. MaxCancels
  PROVE  Index'
<1>0. /\ IndexTypes /\ UnlinkedInvalid /\ Anchored /\ Covered
      /\ linked \subseteq Blocks /\ candidates \subseteq Blocks /\ tip \in Blocks /\ b \in Blocks
      /\ UNCHANGED <<malformed, data, linked, unlinked, seqId>>
  BY IndexParts, Zenon DEF Index, received
<1>2. IndexTypes'
  BY <1>0, Zenon DEF IndexTypes, Never
<1>3. \A x : Invalid(x)' <=> Invalid(x) \/ x = b
  BY Zenon DEF Invalid
<1>4. ASSUME NEW c \in candidates, Sound(c) PROVE c \in candidates' /\ Sound(c)'
  <2>1. b \notin Ancestors[c] /\ c \in Ancestors[c]
    BY <1>0, <1>4, AncestorsIn, Zenon DEF Sound
  <2>2. Sound(c)'
    BY <1>0, <1>3, <1>4, <2>1, SoundKept, Zenon
  <2> QED  BY <2>1, <2>2, Zenon
<1>5. UnlinkedInvalid'
  BY <1>0, <1>3, Zenon DEF UnlinkedInvalid
<1>6. Anchored'
  BY <1>0, <1>4, Zenon DEF Anchored
<1>7. Covered'
  <2>1. \A c \in candidates : c \in candidates' \/ (Invalid(c)' /\ ~Sound(c))
    BY <1>3, <1>4, Zenon
  <2>2. Work(tip) <= Work(tip')
    BY <1>0, WorkOf, SMTT(30)
  <2> QED  BY <1>0, <1>2, <1>3, <1>4, <2>1, <2>2, CoveredKept, Zenon
<1> QED  BY <1>2, <1>5, <1>6, <1>7, Zenon DEF Index

\* The clock does not reach the end of time before all blocks are validated.
LEMMA ValidatedTime ==
  ASSUME IndexTypes, NEW b \in Blocks, Validated(b)
  PROVE  time' \in [Blocks -> Earliest .. Never]
<1> DEFINE D == {x \in Blocks : time[x] < Never}
<1>1. IsFiniteSet(D) /\ Cardinality(D) \in Nat /\ Cardinality(D) <= Cardinality(Blocks)
      /\ Cardinality(Blocks) \in Nat
  BY TreeGrounded, FS_Subset, FS_CardinalityType, Zenon
<1>2. Now = 1 + Cardinality(D)
  BY Zenon DEF Now
<1> HIDE DEF D
<1>3. Now \in Earliest .. Never
  BY <1>1, <1>2, SMTT(30) DEF Earliest, Never
<1> QED  BY <1>3, Zenon DEF IndexTypes, Validated

\* UpdateTip: the new tip is the anchor, and all that is pruned has no more work.
LEMMA ConnectIndex ==
  ASSUME Index, NEW b \in linked \ {Genesis}, Parent[b] = tip, b \notin Bad, Connected(b),
         UNCHANGED <<received, precious, rpcs>>, cancels' \in 0 .. MaxCancels
  PROVE  Index'
<1>0. /\ IndexTypes /\ UnlinkedInvalid /\ Anchored /\ Covered
      /\ linked \subseteq Blocks /\ candidates \subseteq Blocks /\ tip \in Blocks /\ b \in Blocks
      /\ UNCHANGED <<malformed, data, linked, unlinked, seqId, failed, failedParent, overlooked>>
      /\ tip' = b /\ crossed' = (crossed \/ Invalid(b))
      /\ candidates' = {x \in candidates \union {b} : ~Before(x, b, time', seqId)}
  BY IndexParts, Zenon DEF Index, received, Connected, Pruned
<1>1. time' \in [Blocks -> Earliest .. Never]
  BY <1>0, ValidatedTime, Zenon DEF Connected
<1>2. IndexTypes'
  BY <1>0, <1>1, Zenon DEF IndexTypes, Never
<1>3. (\A x : Invalid(x)' <=> Invalid(x)) /\ (\A c : Sound(c)' <=> Sound(c))
  BY <1>0, Zenon DEF Invalid, Sound
<1>4. UnlinkedInvalid'
  BY <1>0, <1>3, Zenon DEF UnlinkedInvalid
<1>5. time' \in [Blocks -> Int] /\ seqId \in [Blocks -> Int]
  <2>1. Cardinality(Blocks) \in Nat
    BY TreeGrounded, FS_CardinalityType, Zenon
  <2>2. Earliest .. Never \subseteq Int
    BY <2>1, SMTT(30) DEF Earliest, Never
  <2> QED  BY <1>0, <1>1, <2>2, IndexParts, Zenon
<1>6. Anchored'
  <2> SUFFICES ASSUME ~crossed' PROVE b \in candidates' /\ b \in Ancestors[b] /\ Sound(b)'
    BY <1>0, Zenon DEF Anchored
  <2>1. b \in candidates'
    BY <1>0, <1>5, OrderWork, Zenon
  <2>2. ~crossed /\ ~Invalid(b)
    BY <1>0, Zenon DEF IndexTypes
  <2>3. PICK c \in candidates : tip \in Ancestors[c] /\ Sound(c)
    BY <1>0, <2>2, Zenon DEF Anchored
  <2>4. Ancestors[tip] \subseteq Ancestors[c] /\ Ancestors[b] = {b} \union Ancestors[tip]
    BY <1>0, <2>3, AncestorsTransitive, ParentOf, Zenon
  <2>5. Sound(b)
    BY <2>2, <2>3, <2>4, Zenon DEF Sound
  <2> QED  BY <1>0, <1>3, <2>1, <2>5, AncestorsIn, Zenon
<1>7. Covered'
  <2>1. \A c \in candidates : c \in candidates' \/ Work(c) <= Work(tip')
    BY <1>0, <1>5, OrderWork, Zenon
  <2>2. Work(tip) <= Work(tip')
    BY <1>0, ParentOf, WorkOf, Zenon
  <2>3. crossed' = FALSE => crossed = FALSE
    BY <1>0, Zenon DEF IndexTypes
  <2> QED  BY <1>0, <1>2, <1>3, <2>1, <2>2, <2>3, CoveredKept, Zenon
<1> QED  BY <1>2, <1>4, <1>6, <1>7, Zenon DEF Index

\* A block validated in vain becomes a candidate again.
LEMMA RetryIndex ==
  ASSUME Index, NEW b \in linked, Validated(b), candidates' = candidates \union {b},
         UNCHANGED <<tip, received, flags, precious, bounds>>
  PROVE  Index'
<1>0. /\ IndexTypes /\ UnlinkedInvalid /\ Anchored /\ Covered
      /\ linked \subseteq Blocks /\ candidates \subseteq Blocks /\ tip \in Blocks /\ b \in Blocks
      /\ UNCHANGED <<malformed, data, linked, unlinked, seqId, failed, failedParent, overlooked, crossed, rpcs, cancels>>
  BY IndexParts, Zenon DEF Index, received, flags, bounds
<1>1. time' \in [Blocks -> Earliest .. Never]
  BY <1>0, ValidatedTime, Zenon
<1>2. IndexTypes'
  BY <1>0, <1>1, Zenon DEF IndexTypes, Never
<1>3. (\A x : Invalid(x)' <=> Invalid(x)) /\ (\A c : Sound(c)' <=> Sound(c))
  BY <1>0, Zenon DEF Invalid, Sound
<1>4. UnlinkedInvalid'
  BY <1>0, <1>3, Zenon DEF UnlinkedInvalid
<1>5. Anchored'
  BY <1>0, <1>3, Zenon DEF Anchored
<1>6. Covered'
  BY <1>0, <1>3, Zenon DEF Covered, Outdone
<1> QED  BY <1>2, <1>4, <1>5, <1>6, Zenon DEF Index

\* InvalidateBlock: what is left of the active chain is the anchor, and all
\* valid blocks that are not worse are candidates.
LEMMA InvalidateIndex ==
  ASSUME Index, NEW b \in Blocks \ {Genesis}, NEW gone,
         gone = IF b \in Ancestors[tip] THEN Ancestors[tip] \ Ancestors[Parent[b]] ELSE Descendants(b),
         failed' = failed \union {b}, failedParent' = failedParent \union gone,
         tip' = IF b \in Ancestors[tip] THEN Parent[b] ELSE tip,
         candidates' = (candidates \ ({b} \union gone))
             \union {x \in linked : x \notin failed' \union failedParent' /\ ~Worse(x, tip')},
         UNCHANGED <<received, overlooked, crossed, time, precious, cancels>>,
         rpcs \in Nat, rpcs' \in rpcs .. MaxRpcs
  PROVE  Index'
<1>0. /\ IndexTypes /\ UnlinkedInvalid /\ Anchored /\ Covered
      /\ linked \subseteq Blocks /\ candidates \subseteq Blocks /\ tip \in Blocks /\ tip \in linked
      /\ \A c \in linked : Ancestors[c] \subseteq linked
      /\ time \in [Blocks -> Int] /\ seqId \in [Blocks -> Int]
      /\ UNCHANGED <<malformed, data, linked, unlinked, seqId>>
  BY IndexParts, Zenon DEF Index, received
<1>1. /\ gone \subseteq Blocks /\ tip' \in Blocks /\ Ancestors[tip'] \subseteq Ancestors[tip]
      /\ tip' \in linked /\ Ancestors[tip'] \intersect ({b} \union gone) = {}
  <2>1. CASE b \in Ancestors[tip]
    <3>1. Parent[b] \in Blocks /\ Parent[b] \in Ancestors[tip] /\ Ancestors[Parent[b]] \subseteq Ancestors[tip]
      BY <1>0, <2>1, ParentOf, AncestorsTransitive, Zenon
    <3>2. b \notin Ancestors[Parent[b]]
      BY NotAboveItself, Zenon
    <3> QED  BY <1>0, <2>1, <3>1, <3>2, AncestorsIn, Zenon
  <2>2. CASE b \notin Ancestors[tip]
    <3>1. \A a \in Ancestors[tip] : a \notin Descendants(b)
      BY <1>0, <2>2, AncestorsTransitive, Zenon DEF Descendants
    <3> QED  BY <1>0, <2>2, <3>1, Zenon DEF Descendants
  <2> QED  BY <2>1, <2>2, Zenon
<1>2. IndexTypes'
  <2>1. (\A x \in Blocks : seqId[x] \in Int /\ seqId[x] >= -rpcs) /\ precious.seq \in Int /\ precious.seq >= -1 - rpcs
    BY <1>0, Zenon DEF IndexTypes
  <2>2. rpcs' \in Nat /\ rpcs <= rpcs' /\ rpcs' \in 0 .. MaxRpcs
    BY BoundsNat, SMTT(30)
  <2>3. (\A x \in Blocks : seqId[x] >= -rpcs') /\ precious.seq >= -1 - rpcs'
    BY <2>1, <2>2, SMTT(30)
  <2> QED  BY <1>0, <1>1, <2>2, <2>3, Zenon DEF IndexTypes, Never
<1>3. \A x : Invalid(x)' <=> Invalid(x) \/ x \in {b} \union gone
  BY Zenon DEF Invalid
<1>4. UnlinkedInvalid'
  <2> SUFFICES ASSUME NEW p \in Blocks \ linked, Invalid(p)', Ancestors[p] \intersect malformed = {},
                      NEW d \in Descendants(p)
               PROVE  Invalid(d)'
    BY <1>0, Zenon DEF UnlinkedInvalid, Descendants
  <2>1. d \in Blocks /\ p \in Ancestors[d] /\ d # p
    BY Zenon DEF Descendants
  <2>2. CASE Invalid(p)
    BY <1>0, <1>3, <2>1, <2>2, Zenon DEF UnlinkedInvalid
  <2>3. CASE p \in {b} \union gone
    <3>1. p \notin Ancestors[tip]
      BY <1>0, Zenon
    <3>2. b \notin Ancestors[tip] /\ gone = Descendants(b) /\ b \in Ancestors[p]
      BY <2>3, <3>1, AncestorsIn, Zenon DEF Descendants
    <3>3. b \in Ancestors[d]
      BY <2>1, <3>2, AncestorsTransitive, Zenon
    <3>4. d # b
      BY <2>1, <3>2, Antisymmetric, Zenon
    <3> QED  BY <1>3, <2>1, <3>2, <3>3, <3>4, Zenon DEF Descendants
  <2> QED  BY <1>3, <2>2, <2>3, Zenon
<1>5. Anchored'
  <2> SUFFICES ASSUME ~crossed PROVE tip' \in candidates' /\ tip' \in Ancestors[tip'] /\ Sound(tip)'
    BY <1>0, Zenon DEF Anchored
  <2>1. PICK c \in candidates : tip \in Ancestors[c] /\ Sound(c)
    BY <1>0, Zenon DEF Anchored
  <2>2. Ancestors[tip'] \subseteq Ancestors[c]
    BY <1>0, <1>1, <2>1, AncestorsTransitive, Zenon
  <2>3. \A a \in Ancestors[tip'] : ~Invalid(a)' /\ a \notin Bad
    BY <1>1, <1>3, <2>1, <2>2, Zenon DEF Sound
  <2>4. tip' \in Ancestors[tip'] /\ ~Worse(tip', tip')
    BY <1>0, <1>1, AncestorsIn, OrderWork, Zenon DEF Worse
  <2>5. tip' \notin failed' \union failedParent'
    BY <2>3, <2>4, Zenon DEF Invalid
  <2> QED  BY <1>0, <1>1, <2>3, <2>4, <2>5, Zenon DEF Sound
<1>6. Covered'
  <2> SUFFICES ASSUME NEW x \in linked, ~Invalid(x)' PROVE (x \in candidates \/ Outdone(x))'
    BY <1>0, Zenon DEF Covered
  <2>1. x \notin failed' \union failedParent'
    BY Zenon DEF Invalid
  <2>2. Worse(x, tip') => Work(x) <= Work(tip')
    BY <1>0, <1>1, OrderWork, Zenon DEF Worse
  <2> QED  BY <2>1, <2>2, Zenon DEF Outdone
<1> QED  BY <1>2, <1>4, <1>5, <1>6, Zenon DEF Index

\* PreciousBlock: only what has no more work than the tip, or is invalid, is
\* dropped, and never the anchor.
LEMMA PreciousIndex ==
  ASSUME Index, NEW b \in Blocks, NEW seq, NEW id, NEW tm,
         seq = IF Work(tip) > precious.work THEN -1 ELSE precious.seq,
         id = [seqId EXCEPT ![b] = seq], tm = [time EXCEPT ![b] = Earliest],
         precious' = [seq |-> seq - 1, work |-> Work(tip)], seqId' = id, time' = tm,
         candidates' = IF b \in linked /\ ~Invalid(b)
                       THEN Pruned(candidates \union {b}, tip, tm, id)
                       ELSE candidates \ {b},
         UNCHANGED <<tip, malformed, data, linked, unlinked, flags, cancels>>,
         rpcs < MaxRpcs, rpcs' = rpcs + 1
  PROVE  Index'
<1>0. /\ IndexTypes /\ UnlinkedInvalid /\ Anchored /\ Covered
      /\ linked \subseteq Blocks /\ candidates \subseteq Blocks /\ tip \in Blocks
      /\ UNCHANGED <<failed, failedParent, overlooked, crossed>>
      /\ candidates \subseteq linked
  BY IndexParts, Zenon DEF Index, flags, IndexTypes
<1>1. Cardinality(Blocks) \in Nat /\ Work(tip) \in Nat /\ rpcs \in Nat /\ rpcs + 1 \in 0 .. MaxRpcs
  BY <1>0, TreeGrounded, FS_CardinalityType, WorkOf, BoundsNat, SMTT(30) DEF IndexTypes
<1>2. /\ seq \in Int /\ seq >= -rpcs' /\ seq - 1 >= -1 - rpcs'
      /\ \A x \in Blocks : seqId[x] \in Int /\ seqId[x] >= -rpcs'
  <2>1. precious.seq \in Int /\ precious.seq >= -1 - rpcs
    BY <1>0, Zenon DEF IndexTypes
  <2>2. seq = -1 \/ seq = precious.seq
    OBVIOUS
  <2>3. \A x \in Blocks : seqId[x] \in Int /\ seqId[x] >= -rpcs
    BY <1>0, Zenon DEF IndexTypes
  <2> QED  BY <1>1, <2>1, <2>2, <2>3, SMTT(30)
<1>3. id \in [Blocks -> Int] /\ \A x \in Blocks : id[x] >= -rpcs'
  BY <1>0, <1>2, Zenon DEF IndexTypes
<1>4. tm \in [Blocks -> Earliest .. Never] /\ tm \in [Blocks -> Int]
  <2>1. Earliest \in Earliest .. Never /\ Earliest .. Never \subseteq Int
    BY <1>1, SMTT(30) DEF Earliest, Never
  <2> QED  BY <1>0, <2>1, Zenon DEF IndexTypes
<1>5. /\ candidates' \subseteq linked
      /\ \A c \in candidates : \/ c \in candidates' \/ Before(c, tip, tm, id)
                               \/ c = b /\ Invalid(b)
  BY <1>0, Zenon DEF Pruned
<1>6. IndexTypes'
  <2>1. precious' \in [seq : Int, work : Nat] /\ precious'.seq >= -1 - rpcs'
    BY <1>1, <1>2, SMTT(30)
  <2> QED  BY <1>0, <1>1, <1>3, <1>4, <1>5, <2>1, Zenon DEF IndexTypes, Never
<1>7. (\A x : Invalid(x)' <=> Invalid(x)) /\ (\A c : Sound(c)' <=> Sound(c))
  BY <1>0, Zenon DEF Invalid, Sound
<1>8. UnlinkedInvalid'
  BY <1>0, <1>7, Zenon DEF UnlinkedInvalid
<1>9. \A c \in candidates : Before(c, tip, tm, id) => Work(c) <= Work(tip)
  BY <1>0, <1>3, <1>4, OrderWork, Zenon
<1>10. \A c \in candidates : Sound(c) => ~Invalid(c)
  BY <1>0, AncestorsIn, Zenon DEF Sound
<1>11. ASSUME NEW c \in candidates, Sound(c), tip \in Ancestors[c] PROVE c \in candidates'
  <2>1. ~Before(c, tip, tm, id)
    <3>1. CASE c = tip
      BY <1>0, <1>3, <1>4, <3>1, OrderWork, Zenon
    <3>2. CASE c # tip
      <4>1. Work(tip) < Work(c) /\ Work(c) \in Nat
        BY <1>0, <1>11, <3>2, WorkOf, Zenon
      <4>2. ~(Work(c) <= Work(tip))
        BY <1>1, <4>1, SMTT(30)
      <4> QED  BY <1>9, <4>2, Zenon
    <3> QED  BY <3>1, <3>2, Zenon
  <2> QED  BY <1>5, <1>10, <1>11, <2>1, Zenon
<1>12. Anchored'
  BY <1>0, <1>7, <1>11, Zenon DEF Anchored
<1>5a. Covered'
  <2>1. \A c \in candidates : \/ c \in candidates' \/ Work(c) <= Work(tip')
                              \/ Invalid(c)' /\ ~Sound(c)
    BY <1>0, <1>5, <1>7, <1>9, <1>10, Zenon
  <2>2. Work(tip) <= Work(tip')
    BY <1>0, <1>1, SMTT(30)
  <2> QED  BY <1>0, <1>6, <1>7, <2>1, <2>2, CoveredKept, Zenon
<1> QED  BY <1>6, <1>8, <1>12, <1>5a, Zenon DEF Index

\* ResetBlockFailureFlags: the descendants it clears are candidates or not
\* better than the tip; its ancestors are what is overlooked.
LEMMA ResetIndex ==
  ASSUME Index, NEW b \in Blocks \ {Genesis}, NEW above, NEW cleared,
         above = {b} \union Descendants(b), cleared = above \union Ancestors[b],
         failed' = failed \ cleared, failedParent' = failedParent \ cleared,
         overlooked' = overlooked \union {a \in Ancestors[b] \ {b} : Invalid(a)},
         candidates' = candidates \union {x \in above \intersect linked : Invalid(x) /\ Worse(tip, x)},
         UNCHANGED <<tip, received, crossed, time, precious, cancels>>,
         rpcs \in Nat, rpcs' \in rpcs .. MaxRpcs
  PROVE  Index'
<1>0. /\ IndexTypes /\ UnlinkedInvalid /\ Anchored /\ Covered
      /\ linked \subseteq Blocks /\ candidates \subseteq Blocks /\ tip \in Blocks
      /\ time \in [Blocks -> Int] /\ seqId \in [Blocks -> Int]
      /\ UNCHANGED <<malformed, data, linked, unlinked, seqId>>
  BY IndexParts, Zenon DEF Index, received
<1>1. overlooked' \subseteq Blocks
  BY <1>0, AncestorsIn, Zenon DEF IndexTypes
<1>2. IndexTypes'
  <2>1. (\A x \in Blocks : seqId[x] \in Int /\ seqId[x] >= -rpcs) /\ precious.seq \in Int /\ precious.seq >= -1 - rpcs
    BY <1>0, Zenon DEF IndexTypes
  <2>2. rpcs' \in Nat /\ rpcs <= rpcs' /\ rpcs' \in 0 .. MaxRpcs
    BY BoundsNat, SMTT(30)
  <2>3. (\A x \in Blocks : seqId[x] >= -rpcs') /\ precious.seq >= -1 - rpcs'
    BY <2>1, <2>2, SMTT(30)
  <2> QED  BY <1>0, <1>1, <2>2, <2>3, Zenon DEF IndexTypes, Never
<1>3. \A x : Invalid(x)' <=> Invalid(x) /\ x \notin cleared
  BY Zenon DEF Invalid
<1>4. \A c \in candidates : Sound(c) => Sound(c)'
  BY <1>0, <1>3, SoundKept, Zenon
<1>5. UnlinkedInvalid'
  <2> SUFFICES ASSUME NEW p \in Blocks \ linked, Invalid(p), p \notin cleared,
                      Ancestors[p] \intersect malformed = {}, NEW d \in Descendants(p)
               PROVE  Invalid(d) /\ d \notin cleared
    BY <1>0, <1>3, Zenon DEF UnlinkedInvalid, Descendants
  <2>1. d \in Blocks /\ p \in Ancestors[d] /\ Invalid(d)
    BY <1>0, Zenon DEF Descendants, UnlinkedInvalid
  <2>2. p \notin Ancestors[b] /\ p # b /\ b \notin Ancestors[p]
    BY Zenon DEF Descendants
  <2>3. b \notin Ancestors[d]
    BY <2>1, <2>2, ChainLinear, Zenon
  <2>4. d \notin Ancestors[b]
    BY <2>1, <2>2, AncestorsTransitive, Zenon
  <2> QED  BY <2>1, <2>3, <2>4, AncestorsIn, Zenon DEF Descendants
<1>6. Anchored'
  BY <1>0, <1>4, Zenon DEF Anchored
<1>7. Covered'
  <2> SUFFICES ASSUME ~crossed, NEW x \in linked, x \notin overlooked', ~Invalid(x)'
               PROVE  (x \in candidates \/ Outdone(x))'
    BY <1>0, Zenon DEF Covered
  <2>1. CASE ~Invalid(x)
    BY <1>0, <1>4, <2>1, Zenon DEF Covered, Outdone
  <2>2. CASE Invalid(x)
    <3>1. x \in above
      BY <1>3, <2>2, Zenon
    <3>2. Worse(tip, x) \/ Work(x) <= Work(tip)
      BY <1>0, OrderWork, Zenon DEF Worse
    <3> QED  BY <1>0, <2>2, <3>1, <3>2, Zenon DEF Outdone
  <2> QED  BY <2>1, <2>2, Zenon
<1> QED  BY <1>2, <1>5, <1>6, <1>7, Zenon DEF Index

\* The queue of ReceivedBlockTransactions reaches each block it should.
LEMMA OrderCovers ==
  ASSUME NEW S \in SUBSET Blocks, NEW q \in LinkOrders(S)
  PROVE  Range(q) = S /\ DOMAIN q \subseteq Nat
<1> DEFINE n == Cardinality(S)
<1>1. IsFiniteSet(S) /\ n \in Nat
  BY TreeGrounded, FS_Subset, FS_CardinalityType, Zenon
<1>2. /\ q \in [1 .. n -> S]
      /\ \A s \in S : \E i \in 1 .. n : q[i] = s
  BY Zenon DEF LinkOrders, Bijection, Surjection
<1> HIDE DEF n
<1> QED  BY <1>1, <1>2, SMTT(30) DEF Range

\* ReceivedBlockTransactions: the block that closes a gap links all that
\* waited for it, and each becomes a candidate or has no more work than the tip.
LEMMA LinkIndex ==
  ASSUME Index, NEW b \in Blocks \ {Genesis}, b \notin data, ~Invalid(b), b \notin malformed,
         NEW q \in LinkOrders({b} \union WaitingFor(b)), Link(b, q),
         UNCHANGED <<tip, malformed, flags, time, precious, bounds>>
  PROVE  Index' /\ linked \subseteq linked'
<1> DEFINE W == {b} \union WaitingFor(b)
           p == Parent[b]
<1>0. /\ IndexTypes /\ UnlinkedInvalid /\ Anchored /\ Covered
      /\ linked \subseteq Blocks /\ candidates \subseteq Blocks /\ tip \in Blocks
      /\ linked \subseteq data /\ data \subseteq Blocks /\ unlinked \subseteq data \ linked
      /\ data \intersect malformed = {}
      /\ \A x \in data \ linked : x \in unlinked \/ Ancestors[x] \intersect malformed # {}
      /\ candidates \subseteq linked
      /\ linked = {x \in Blocks : Ancestors[x] \subseteq data}
      /\ \A c \in linked : Ancestors[c] \subseteq linked
      /\ time \in [Blocks -> Int] /\ seqId \in [Blocks -> Int]
      /\ UNCHANGED <<failed, failedParent, overlooked, crossed, rpcs, cancels>>
      /\ data' = data \union {b} /\ malformed' = malformed
  BY IndexParts, Zenon DEF Index, flags, bounds, IndexTypes, Link
<1>1. /\ p \in Blocks /\ Ancestors[b] = {b} \union Ancestors[p] /\ b \notin Ancestors[p]
      /\ p \in Ancestors[b] /\ p # b
  BY ParentOf, NotAboveItself, AncestorsIn, Zenon
<1>2. W \in SUBSET Blocks /\ b \in W
  BY Zenon DEF WaitingFor, Descendants
<1>3. Range(q) = W /\ DOMAIN q \subseteq Nat
  BY <1>2, OrderCovers, Zenon
<1>4. \A x \in W : x = b \/ (b \in Ancestors[x] /\ Ancestors[x] \ Ancestors[b] \subseteq unlinked)
  BY Zenon DEF WaitingFor, Descendants
<1>5. \A x \in Blocks : b \in Ancestors[x] /\ x # b /\ Ancestors[x] \ Ancestors[b] \subseteq unlinked => x \in W
  BY Zenon DEF WaitingFor, Descendants
<1>5a. data' = data \union {b} /\ data' \intersect malformed = {}
  <2>1. data' = data \union {b} /\ data \intersect malformed = {}
    BY <1>0, Zenon
  <2> QED  BY <2>1, SMTT(30)
<1> HIDE DEF W
<1>6. /\ linked \subseteq linked' /\ linked' = {x \in Blocks : Ancestors[x] \subseteq data'}
      /\ unlinked' \subseteq data' \ linked'
      /\ \A x \in data' \ linked' : x \in unlinked' \/ Ancestors[x] \intersect malformed # {}
      /\ candidates \subseteq candidates' /\ candidates' \subseteq linked'
      /\ seqId' \in [Blocks -> Int] /\ \A x \in Blocks : seqId'[x] >= -rpcs
      /\ \A x \in linked' \ linked : x \in candidates' \/ Before(x, tip, time, seqId')
  <2>1. CASE p \in linked
    <3>1. /\ linked' = linked \union W /\ unlinked' = unlinked \ W
          /\ seqId' = [d \in Blocks |-> IF d \in W
                                        THEN Cardinality(linked) + CHOOSE i \in DOMAIN q : q[i] = d
                                        ELSE seqId[d]]
          /\ candidates' = candidates \union {d \in W : ~Before(d, tip, time, seqId')}
      BY <1>3, <2>1, Zenon DEF Link, StillWaiting, BecomesCandidate
    <3>2. ASSUME NEW x \in linked' PROVE x \in Blocks /\ Ancestors[x] \subseteq data'
      <4>1. Ancestors[b] \subseteq data'
        BY <1>0, <1>1, <2>1, Zenon
      <4> QED  BY <1>0, <1>2, <1>4, <3>1, <4>1, Zenon
    <3>3. ASSUME NEW x \in Blocks, Ancestors[x] \subseteq data' PROVE x \in linked'
      <4>1. CASE b \notin Ancestors[x]
        BY <1>0, <3>1, <3>3, <4>1, SMTT(30)
      <4>2. CASE x = b
        BY <1>2, <3>1, <4>2, Zenon
      <4>3. CASE b \in Ancestors[x] /\ x # b
        <5>1. ASSUME NEW a \in Ancestors[x], a \notin Ancestors[b] PROVE a \in unlinked
          <6>1. b \in Ancestors[a]
            BY <4>3, <5>1, ChainLinear, Zenon
          <6>2. a \notin linked
            BY <1>0, <6>1, Zenon
          <6>3. a # b
            BY <1>1, <5>1, Zenon
          <6>4. a \in data \ linked
            BY <1>0, <3>3, <6>2, <6>3, Zenon
          <6>5. Ancestors[a] \subseteq Ancestors[x]
            BY <5>1, AncestorsTransitive, Zenon
          <6>6. Ancestors[a] \intersect malformed = {}
            BY <1>5a, <3>3, <6>5, Zenon
          <6> QED  BY <1>0, <6>4, <6>6, Zenon
        <5> QED  BY <1>5, <3>1, <4>3, <5>1, Zenon
      <4> QED  BY <4>1, <4>2, <4>3, Zenon
    <3>4. linked' = {x \in Blocks : Ancestors[x] \subseteq data'}
      BY <3>2, <3>3, Zenon
    <3>5. /\ unlinked' \subseteq data' \ linked'
          /\ \A x \in data' \ linked' : x \in unlinked' \/ Ancestors[x] \intersect malformed # {}
      BY <1>0, <1>2, <3>1, Zenon
    <3>6. ASSUME NEW x \in Blocks PROVE seqId'[x] \in Int /\ seqId'[x] >= -rpcs
      <4>1. CASE x \in W
        <5> DEFINE j == CHOOSE i \in DOMAIN q : q[i] = x
        <5>1. \E i \in DOMAIN q : q[i] = x
          BY <1>3, <4>1, Zenon DEF Range
        <5>2. j \in Nat
          BY <1>3, <5>1, Zenon
        <5>3. Cardinality(linked) \in Nat /\ rpcs \in Nat
          <6>1. linked \in SUBSET Blocks /\ IsFiniteSet(Blocks) /\ rpcs \in Nat
            BY <1>0, TreeGrounded DEF IndexTypes
          <6> QED  BY <6>1, FS_Subset, FS_CardinalityType, Zenon
        <5>4. seqId'[x] = Cardinality(linked) + j
          BY <3>1, <4>1, Zenon
        <5> HIDE DEF j
        <5> QED  BY <5>2, <5>3, <5>4, SMTT(30)
      <4>2. CASE x \notin W
        BY <1>0, <3>1, <4>2, Zenon DEF IndexTypes
      <4> QED  BY <4>1, <4>2, Zenon
    <3>7. seqId' \in [Blocks -> Int]
      BY <3>1, <3>6, Zenon
    <3> QED  BY <1>0, <3>1, <3>4, <3>5, <3>6, <3>7, Zenon
  <2>2. CASE p \notin linked
    <3>1. Invalid(p) => Ancestors[b] \intersect malformed # {}
      <4>1. b \in Descendants(p)
        BY <1>1, Zenon DEF Descendants
      <4>2. Invalid(p) => Ancestors[p] \intersect malformed # {}
        BY <1>0, <1>1, <2>2, <4>1, Zenon DEF UnlinkedInvalid
      <4> QED  BY <1>1, <4>2, Zenon
    <3>2. /\ unlinked' = (IF Invalid(p) THEN unlinked ELSE unlinked \union {b})
          /\ UNCHANGED <<linked, seqId, candidates>>
      BY <2>2, Zenon DEF Link
    <3>3. ASSUME NEW x \in Blocks, Ancestors[x] \subseteq data' PROVE x \in linked
      <4>1. b \notin Ancestors[x]
        <5> SUFFICES ASSUME b \in Ancestors[x] PROVE FALSE
          OBVIOUS
        <5>1. Ancestors[b] \subseteq Ancestors[x]
          BY AncestorsTransitive, Zenon
        <5>2. Ancestors[p] \subseteq data
          BY <1>0, <1>1, <3>3, <5>1, Zenon
        <5> QED  BY <1>0, <1>1, <2>2, <5>2, Zenon
      <4>2. Ancestors[x] \subseteq data
        BY <1>5a, <3>3, <4>1, Zenon
      <4> QED  BY <1>0, <4>2, Zenon
    <3>4. linked' = {x \in Blocks : Ancestors[x] \subseteq data'}
      BY <1>0, <3>2, <3>3, Zenon
    <3>5. b \notin linked /\ p \in Ancestors[b]
      BY <1>0, <1>1, Zenon
    <3>6. /\ unlinked' \subseteq data' \ linked'
          /\ \A x \in data' \ linked' : x \in unlinked' \/ Ancestors[x] \intersect malformed # {}
      BY <1>0, <3>1, <3>2, <3>5, Zenon
    <3> QED  BY <1>0, <3>2, <3>4, <3>6, Zenon DEF IndexTypes
  <2> QED  BY <2>1, <2>2, Zenon
<1>7. IndexTypes'
  BY <1>0, <1>6, <1>5a, Zenon DEF IndexTypes, Never
<1>8. \A x : Invalid(x)' <=> Invalid(x)
  BY <1>0, Zenon DEF Invalid
<1>9. \A c : Sound(c) => Sound(c)'
  BY <1>6, <1>8, SoundKept, Zenon
<1>10. UnlinkedInvalid'
  BY <1>0, <1>6, <1>8, Zenon DEF UnlinkedInvalid
<1>11. Anchored'
  BY <1>0, <1>6, <1>9, Zenon DEF Anchored
<1>12. Covered'
  <2> SUFFICES ASSUME ~crossed, NEW x \in linked' \ overlooked, ~Invalid(x)
               PROVE  (x \in candidates \/ Outdone(x))'
    BY <1>0, <1>8, Zenon DEF Covered
  <2>1. CASE x \in linked
    BY <1>0, <1>6, <1>9, <2>1, Zenon DEF Covered, Outdone
  <2>2. CASE x \notin linked
    <3>1. Before(x, tip, time, seqId') => Work(x) <= Work(tip)
      BY <1>0, <1>6, OrderWork, Zenon
    <3> QED  BY <1>6, <2>2, <3>1, Zenon DEF Outdone
  <2> QED  BY <2>1, <2>2, Zenon
<1> QED  BY <1>6, <1>7, <1>10, <1>11, <1>12, Zenon DEF Index

\* AcceptBlock fails: nothing that is linked builds on the block.
LEMMA MarkIndex ==
  ASSUME Index, NEW b \in malformed, failed' = failed \union {b},
         UNCHANGED <<tip, received, failedParent, overlooked, crossed, time, candidates, precious, bounds>>
  PROVE  Index'
<1>0. /\ IndexTypes /\ UnlinkedInvalid /\ Anchored /\ Covered
      /\ linked \subseteq Blocks /\ linked \subseteq data /\ data \intersect malformed = {}
      /\ candidates \subseteq linked /\ b \in Blocks /\ b \in Ancestors[b]
      /\ \A c \in linked : Ancestors[c] \subseteq linked
      /\ UNCHANGED <<malformed, data, linked, unlinked, seqId, rpcs, cancels>>
  BY IndexParts, BadInTree, AncestorsIn, Zenon DEF Index, IndexTypes, received, bounds
<1>1. IndexTypes'
  BY <1>0, Zenon DEF IndexTypes, Never
<1>2. \A x : Invalid(x)' <=> Invalid(x) \/ x = b
  BY Zenon DEF Invalid
<1>3. \A c \in linked : b \notin Ancestors[c]
  BY <1>0, Zenon
<1>4. \A c \in linked : (Sound(c)' <=> Sound(c)) /\ (Invalid(c)' <=> Invalid(c))
  <2>1. \A c \in linked : Invalid(c)' <=> Invalid(c)
    BY <1>0, <1>2, Zenon
  <2> QED  BY <1>0, <2>1, Zenon DEF Sound
<1>5. UnlinkedInvalid'
  BY <1>0, <1>2, Zenon DEF UnlinkedInvalid
<1>6. Anchored'
  BY <1>0, <1>4, Zenon DEF Anchored
<1>7. Covered'
  BY <1>0, <1>4, Zenon DEF Covered, Outdone
<1> QED  BY <1>1, <1>5, <1>6, <1>7, Zenon DEF Index

\* Nothing in the index changes.
LEMMA SameIndex ==
  ASSUME Index, UNCHANGED <<tip, received, flags, time, candidates, precious, rpcs>>,
         cancels' \in 0 .. MaxCancels
  PROVE  Index'
<1>1. UNCHANGED <<malformed, data, linked, unlinked, seqId, failed, failedParent, overlooked, crossed>>
  BY Zenon DEF received, flags
<1>2. IndexTypes'
  BY <1>1, Zenon DEF Index, IndexTypes, Never
<1>3. (\A x : Invalid(x)' <=> Invalid(x)) /\ (\A c : Sound(c)' <=> Sound(c))
  BY <1>1, Zenon DEF Invalid, Sound
<1>4. UnlinkedInvalid' /\ Anchored' /\ Covered'
  BY <1>1, <1>3, Zenon DEF Index, UnlinkedInvalid, Anchored, Covered, Outdone
<1> QED  BY <1>2, <1>4, Zenon DEF Index

\* FindMostWorkChain starts from a candidate with the most work.
LEMMA BestOf ==
  ASSUME Index, candidates # {}
  PROVE  Best \in candidates /\ \A c \in candidates : Work(c) <= Work(Best)
<1>1. /\ candidates \in SUBSET Blocks /\ time \in [Blocks -> Nat] /\ time \in [Blocks -> Int]
      /\ seqId \in [Blocks -> Int]
  BY IndexParts, Zenon DEF Index
<1>2. rpcs \in Nat /\ \A b \in Blocks : seqId[b] + rpcs >= 0
  <2>1. rpcs \in Nat /\ \A b \in Blocks : seqId[b] \in Int /\ seqId[b] >= -rpcs
    BY SMTT(30) DEF Index, IndexTypes
  <2> QED  BY <2>1, SMTT(30)
<1>3. \E b \in candidates : \A c \in candidates \ {b} : Before(c, b, time, seqId)
  BY <1>1, <1>2, BestExists, Zenon
<1>4. Best \in candidates /\ \A c \in candidates \ {Best} : Before(c, Best, time, seqId)
  BY <1>3, Zenon DEF Best, Worse
<1>5. ASSUME NEW c \in candidates PROVE Work(c) <= Work(Best)
  <2>1. CASE c = Best
    BY <1>1, <2>1, WorkOf, SMTT(30)
  <2>2. CASE c # Best
    <3>1. Before(c, Best, time, seqId) /\ c \in Blocks /\ Best \in Blocks
      BY <1>1, <1>4, <2>2, Zenon
    <3> QED  BY <1>1, <3>1, OrderWork, Zenon
  <2> QED  BY <2>1, <2>2, Zenon
<1> QED  BY <1>4, <1>5, Zenon

\* Of some blocks of a chain one is the highest.
LEMMA Highest ==
  ASSUME NEW b \in Blocks, NEW S \in SUBSET Ancestors[b], S # {}
  PROVE  \E a \in S : S \subseteq Ancestors[a]
<1> DEFINE f == [x \in Blocks |-> Cardinality(Blocks) - Work(x)]
<1>1. S \subseteq Blocks
  BY AncestorsIn, Zenon
<1>2. Cardinality(Blocks) \in Nat /\ \A x \in Blocks : Work(x) \in Nat /\ Work(x) <= Cardinality(Blocks)
  BY TreeGrounded, FS_CardinalityType, WorkOf, Zenon
<1>3. \A s \in S : f[s] \in Nat
  BY <1>1, <1>2, SMTT(30)
<1>4. \A s \in S : f[s] = Cardinality(Blocks) - Work(s)
  BY <1>1, Zenon
<1> HIDE DEF f
<1>5. PICK m \in S : \A s \in S : f[m] <= f[s]
  BY <1>3, Least, Zenon
<1>6. ASSUME NEW s \in S PROVE s \in Ancestors[m]
  <2>1. Work(s) <= Work(m) /\ Work(m) \in Nat /\ Work(s) \in Nat
    BY <1>1, <1>2, <1>4, <1>5, SMTT(30)
  <2>2. s \in Ancestors[m] \/ m \in Ancestors[s]
    BY ChainLinear, Zenon
  <2>3. m \in Ancestors[s] /\ m # s => Work(m) < Work(s)
    BY <1>1, WorkOf, Zenon
  <2>4. ~(Work(m) < Work(s))
    BY <2>1, SMTT(30)
  <2> QED  BY <1>1, <2>2, <2>3, <2>4, AncestorsIn, Zenon
<1> QED  BY <1>6, Zenon

-----------------------------------------------------------------------------
(* The threads.                                                            *)

\* A thread moves while no other holds cs_main, and what is validated changes
\* only by what it begins or ends to validate.
LEMMA ControlStep ==
  ASSUME Control, NEW t \in Threads, NEW l \in Labels, NEW v \in Locals,
         pc' = [pc EXCEPT ![t] = l], local' = [local EXCEPT ![t] = v],
         Free(t), csMain' \in {None, t}, linked \subseteq linked', Knows(t, l, v)',
         \/ validating' = validating /\ l # "validate" /\ pc[t] # "validate"
         \/ /\ validating' = validating \union {v.target} /\ v.target \notin validating
            /\ l = "validate" /\ pc[t] # "validate"
         \/ validating' = validating \ {local[t].target} /\ l # "validate" /\ pc[t] = "validate"
  PROVE  Control'
<1>1. csMain' \in Maybe(Threads) /\ pc' \in [Threads -> Labels] /\ local' \in [Threads -> Locals]
  BY Zenon DEF Control, Maybe
<1>2. /\ pc'[t] = l /\ local'[t] = v
      /\ \A u \in Threads \ {t} : pc'[u] = pc[u] /\ local'[u] = local[u]
  BY Zenon DEF Control
<1>3. \A u \in Threads : /\ Knows(u, pc[u], local[u])
                         /\ pc[u] = "validate" => local[u].target \in validating
  BY Zenon DEF Control, Knows
<1>4. ASSUME NEW u \in Threads \ {t} PROVE pc[u] \notin {"find", "check", "step"}
  BY <1>3, BadInTree, Zenon DEF Free, Knows
<1>5. \A u \in Threads \ {t} :
        pc[u] = "validate" /\ pc[t] = "validate" => local[u].target # local[t].target
  BY Zenon DEF Control
<1>6. ASSUME NEW u \in Threads PROVE Knows(u, pc[u], local[u])'
  <2>1. CASE u = t
    BY <1>2, <2>1, Zenon DEF Knows
  <2>2. CASE u # t
    <3>1. pc[u] = "validate" => local[u].target \in (linked' \ {Genesis}) \intersect validating'
      BY <1>3, <1>5, <2>2, Zenon DEF Knows
    <3>2. local[u].mostWork \in Maybe(linked')
      BY <1>3, Zenon DEF Knows, Maybe
    <3> QED  BY <1>2, <1>4, <2>2, <3>1, <3>2, Zenon DEF Knows
  <2> QED  BY <2>1, <2>2, Zenon
<1>7. ASSUME NEW w \in validating' PROVE \E u \in Threads : pc'[u] = "validate" /\ local'[u].target = w
  <2>1. CASE w \in validating
    <3>1. PICK u \in Threads : pc[u] = "validate" /\ local[u].target = w
      BY <2>1, Zenon DEF Control
    <3>2. u # t
      BY <1>7, <3>1, Zenon
    <3> QED  BY <1>2, <3>1, <3>2, Zenon
  <2>2. CASE w \notin validating
    BY <1>2, <1>7, <2>2, Zenon
  <2> QED  BY <2>1, <2>2, Zenon
<1>8. ASSUME NEW u \in Threads, NEW w \in Threads, pc'[u] = "validate", pc'[w] = "validate",
             local'[u].target = local'[w].target
      PROVE  u = w
  <2>1. CASE u # t /\ w # t
    BY <1>2, <1>8, <2>1, Zenon DEF Control
  <2>2. CASE u = t /\ w # t
    <3>1. l = "validate" /\ v.target \notin validating /\ local[w].target \in validating
      BY <1>2, <1>3, <1>8, <2>2, Zenon
    <3> QED  BY <1>2, <1>8, <2>2, <3>1, Zenon
  <2>3. CASE w = t /\ u # t
    <3>1. l = "validate" /\ v.target \notin validating /\ local[u].target \in validating
      BY <1>2, <1>3, <1>8, <2>3, Zenon
    <3> QED  BY <1>2, <1>8, <2>3, <3>1, Zenon
  <2> QED  BY <2>1, <2>2, <2>3, Zenon
<1> QED  BY <1>1, <1>6, <1>7, <1>8, Zenon DEF Control

\* A thread stays where it is and nothing that threads know changes.
LEMMA SameControl ==
  ASSUME Control, UNCHANGED <<csMain, pc, local, validating, linked>>
  PROVE  Control'
BY Zenon DEF Control, Knows

\* A thread goes to a label where it need not know anything.
Moved(t, l) ==
  \E v \in Locals : /\ pc' = [pc EXCEPT ![t] = l] /\ local' = [local EXCEPT ![t] = v]
                    /\ v.mostWork \in {None, local[t].mostWork}

\* Ending what it does, a thread leaves to the others what they know.
LEMMA MovedControl ==
  ASSUME Control, NEW t \in Threads, NEW l \in {"idle", "lock"}, Moved(t, l),
         Free(t), csMain' \in {None, t}, linked \subseteq linked',
         \/ validating' = validating /\ pc[t] # "validate"
         \/ validating' = validating \ {local[t].target} /\ pc[t] = "validate"
  PROVE  Control' /\ pc'[t] = l
<1>1. PICK v \in Locals : /\ pc' = [pc EXCEPT ![t] = l] /\ local' = [local EXCEPT ![t] = v]
                          /\ v.mostWork \in {None, local[t].mostWork}
  BY Zenon DEF Moved
<1>2. local[t].mostWork \in Maybe(linked)
  BY Zenon DEF Control, Knows
<1>3. Knows(t, l, v)'
  BY <1>1, <1>2, Zenon DEF Knows, Maybe
<1>4. Control'
  BY <1>1, <1>3, ControlStep, Zenon DEF Labels
<1>5. pc'[t] = l
  BY <1>1, Zenon DEF Control
<1> QED  BY <1>4, <1>5, Zenon

\* The ways to get there.
LEMMA Moves ==
  ASSUME Control, NEW t \in Threads
  PROVE  /\ \A pblock \in Maybe(Blocks), outer \in BOOLEAN :
              Activate(t, pblock, outer) => Moved(t, "lock")
         /\ Return(t) => Moved(t, "idle") /\ csMain' \in {None, t}
         /\ \A newTip \in Blocks, f \in BOOLEAN :
              EndStep(t, newTip, f) => Moved(t, "lock") /\ csMain' \in {None, t}
         /\ Caught(t) => Moved(t, "lock") /\ csMain' \in {None, t}
<1>0. local[t] \in Locals /\ local \in [Threads -> Locals]
  BY Zenon DEF Control
<1>1. NoLocal \in Locals /\ NoLocal.mostWork = None
  BY Zenon DEF NoLocal, Locals, Maybe
<1>2. ASSUME NEW pblock \in Maybe(Blocks), NEW outer \in BOOLEAN, Activate(t, pblock, outer)
      PROVE  Moved(t, "lock")
  <2> DEFINE v == [NoLocal EXCEPT !.pblock = pblock, !.outer = outer]
  <2>1. v \in Locals /\ v.mostWork = None
    BY Zenon DEF NoLocal, Locals, Maybe
  <2>2. local' = [local EXCEPT ![t] = v] /\ pc' = [pc EXCEPT ![t] = "lock"]
    BY <1>2, Zenon DEF Activate, Goto
  <2> HIDE DEF v
  <2> QED  BY <2>1, <2>2, Zenon DEF Moved
<1>3. ASSUME Return(t) PROVE Moved(t, "idle") /\ csMain' \in {None, t}
  BY <1>1, <1>3, Zenon DEF Return, Moved, Goto
<1>4. ASSUME NEW newTip \in Blocks, NEW f \in BOOLEAN, EndStep(t, newTip, f)
      PROVE  Moved(t, "lock") /\ csMain' \in {None, t}
  <2> DEFINE m == IF f \/ local[t].mostWork = newTip THEN None ELSE local[t].mostWork
             v == [local[t] EXCEPT !.newTip = newTip, !.target = None, !.mostWork = m]
  <2>1. v \in Locals /\ v.mostWork \in {None, local[t].mostWork}
    BY <1>0, Zenon DEF Locals, Maybe
  <2>2. local' = [local EXCEPT ![t] = v]
    BY <1>0, <1>4, Zenon DEF EndStep, Locals
  <2>3. pc' = [pc EXCEPT ![t] = "lock"] /\ csMain' \in {None, t}
    BY <1>4, Zenon DEF EndStep, Goto, Unlocked
  <2> HIDE DEF v
  <2> QED  BY <2>1, <2>2, <2>3, Zenon DEF Moved
<1>5. ASSUME Caught(t) PROVE Moved(t, "lock") /\ csMain' \in {None, t}
  <2> DEFINE v == [local[t] EXCEPT !.mostWork = None, !.target = None]
  <2>1. v \in Locals /\ v.mostWork \in {None, local[t].mostWork}
    BY <1>0, Zenon DEF Locals, Maybe
  <2>2. local' = [local EXCEPT ![t] = v]
    BY <1>0, <1>5, Zenon DEF Caught, Locals
  <2>3. pc' = [pc EXCEPT ![t] = "lock"] /\ csMain' \in {None, t}
    BY <1>5, Zenon DEF Caught, Goto, Unlocked
  <2> HIDE DEF v
  <2> QED  BY <2>1, <2>2, <2>3, Zenon DEF Moved
<1> QED  BY <1>2, <1>3, <1>4, <1>5, Zenon

-----------------------------------------------------------------------------
(* The steps.                                                              *)

\* How the tip may move.
TipMoves == tip' = tip \/ tip' \in Ancestors[tip] \/ (tip' # Genesis /\ Parent[tip'] = tip)

Good == IInv' /\ TipMoves

\* While a thread is busy nothing is said of the best chain.
LEMMA BusyRests ==
  ASSUME NEW t \in Threads, pc'[t] # "idle"
  PROVE  Resting'
BY Zenon DEF Resting, Quiescent

\* A block arrives that cannot be accepted.
LEMMA AcceptFailsStep ==
  ASSUME IInv, NEW t \in Threads, NEW b, NEW fRequested, AcceptFails(t, b, fRequested)
  PROVE  Good
<1>1. /\ b \in malformed /\ failed' = failed \union {b}
      /\ UNCHANGED <<tip, received, failedParent, overlooked, crossed, time, candidates, precious, bounds>>
      /\ UNCHANGED <<csMain, pc, local, validating>>
  BY Zenon DEF AcceptFails
<1>2. Index'
  BY <1>1, MarkIndex, Zenon DEF IInv
<1>3. linked' = linked /\ TipMoves
  BY <1>1, Zenon DEF received, TipMoves
<1>4. Control'
  BY <1>1, <1>3, SameControl, Zenon DEF IInv
<1>5. Resting'
  BY <1>1, Zenon DEF IInv, Resting, Quiescent
<1> QED  BY <1>2, <1>3, <1>4, <1>5, Zenon DEF Good, IInv

\* A new or a known block arrives.
LEMMA AcceptStep ==
  ASSUME IInv, NEW t \in Threads, NEW b \in Blocks \ {Genesis}, NEW fRequested,
         AcceptBlock(t, b, fRequested) \/ AcceptIgnored(t, b, fRequested)
  PROVE  Good
<1>0. Index /\ Control
  BY Zenon DEF IInv
<1>2. /\ pc[t] = "idle" /\ csMain = None /\ ~Invalid(b) /\ Activate(t, b, FALSE)
      /\ UNCHANGED <<csMain, tip, flags, time, validating, precious, bounds>>
  BY Zenon DEF AcceptBlock, AcceptIgnored
<1>3. Index' /\ linked \subseteq linked'
  <2>1. CASE AcceptBlock(t, b, fRequested)
    <3>1. PICK q \in LinkOrders({b} \union WaitingFor(b)) : Link(b, q)
      BY <2>1, Zenon DEF AcceptBlock
    <3>2. b \notin data /\ b \notin malformed /\ malformed' = malformed
      BY <2>1, Zenon DEF AcceptBlock
    <3> QED  BY <1>0, <1>2, <3>1, <3>2, LinkIndex, Zenon
  <2>2. CASE AcceptIgnored(t, b, fRequested)
    <3>1. UNCHANGED <<tip, received, flags, time, candidates, precious, rpcs, cancels, linked>>
      BY <2>2, Zenon DEF AcceptIgnored, bounds, received
    <3>2. cancels' \in 0 .. MaxCancels
      BY <1>0, <3>1, Zenon DEF Index, IndexTypes
    <3> QED  BY <1>0, <3>1, <3>2, SameIndex, Zenon
  <2> QED  BY <2>1, <2>2, Zenon
<1>4. Control' /\ pc'[t] = "lock"
  <2>1. Moved(t, "lock")
    BY <1>0, <1>2, Moves, Zenon DEF Maybe
  <2>2. Free(t) /\ csMain' \in {None, t} /\ validating' = validating /\ pc[t] # "validate"
    BY <1>2, Zenon DEF Free
  <2> QED  BY <1>0, <1>3, <2>1, <2>2, MovedControl, Zenon
<1>5. Resting'
  BY <1>4, BusyRests, Zenon
<1> QED  BY <1>2, <1>3, <1>4, <1>5, Zenon DEF Good, IInv, TipMoves

\* A step of ActivateBestChain that changes nothing in the index.
LEMMA QuietStep ==
  ASSUME Index, UNCHANGED <<tip, received, flags, time, candidates, precious, bounds>>
  PROVE  Index' /\ linked \subseteq linked' /\ linked' = linked /\ TipMoves
<1>1. UNCHANGED <<rpcs, cancels, linked>>
  BY Zenon DEF received, bounds
<1>2. cancels' \in 0 .. MaxCancels
  BY <1>1, Zenon DEF Index, IndexTypes
<1> QED  BY <1>1, <1>2, SameIndex, Zenon DEF TipMoves

\* A thread takes cs_main.
LEMMA LockStep ==
  ASSUME IInv, NEW t \in Threads, Lock(t)
  PROVE  Good
<1>0. Index /\ Control /\ local[t] \in Locals /\ local \in [Threads -> Locals] /\ pc \in [Threads -> Labels]
  BY Zenon DEF IInv, Control
<1>1. Index' /\ linked \subseteq linked' /\ linked' = linked /\ TipMoves
  BY <1>0, QuietStep, Zenon DEF Lock
<1>2. tip \in Blocks
  BY <1>0, IndexParts, Zenon DEF Index
<1> DEFINE v == [local[t] EXCEPT !.oldTip = tip]
<1>3. v \in Locals /\ v.mostWork = local[t].mostWork
  BY <1>0, <1>2, Zenon DEF Locals, Maybe
<1>4. local' = [local EXCEPT ![t] = v]
  BY <1>0, Zenon DEF Lock
<1> HIDE DEF v
<1>5. PICK l \in {"check", "find"} : pc' = [pc EXCEPT ![t] = l] /\ (l = "check" => CacheValid(t))
  BY Zenon DEF Lock, Goto
<1>6. /\ pc[t] = "lock" /\ Free(t) /\ csMain' = t /\ validating' = validating
      /\ local[t].mostWork \in Maybe(linked)
  BY <1>0, Zenon DEF Lock, Control, Knows
<1>7. Control'
  <2>1. PICK w \in Locals : w = v
    BY <1>3, Zenon
  <2>2. Knows(t, l, w)'
    BY <1>1, <1>3, <1>5, <1>6, <2>1, Zenon DEF Knows, CacheValid
  <2>3. l \in Labels /\ l # "validate"
    BY Zenon DEF Labels
  <2>4. pc' = [pc EXCEPT ![t] = l] /\ local' = [local EXCEPT ![t] = w] /\ csMain' \in {None, t}
    BY <1>4, <1>5, <1>6, <2>1, Zenon
  <2> QED  BY <1>0, <1>1, <1>6, <2>2, <2>3, <2>4, ControlStep, Zenon
<1>8. Resting'
  <2>1. pc'[t] # "idle"
    BY <1>0, <1>5, Zenon
  <2> QED  BY <2>1, BusyRests, Zenon
<1> QED  BY <1>1, <1>7, <1>8, Zenon DEF Good, IInv

\* FindMostWorkChain drops a chain with an invalid block.
LEMMA FindDropsStep ==
  ASSUME IInv, NEW t \in Threads, FindDrops(t)
  PROVE  Good
<1>0. Index /\ Control /\ candidates # {} /\ InvalidBelow(Best) # {} /\ pc[t] = "find"
  BY Zenon DEF IInv, FindDrops
<1>1. Best \in candidates /\ candidates \subseteq Blocks
  BY <1>0, BestOf, IndexParts, Zenon DEF Index
<1>2. InvalidBelow(Best) \in SUBSET Ancestors[Best] /\ \A a \in InvalidBelow(Best) : Invalid(a)
  BY Zenon DEF InvalidBelow
<1>3. \E a \in InvalidBelow(Best) : InvalidBelow(Best) \subseteq Ancestors[a]
  BY <1>0, <1>1, <1>2, Highest, SMTT(30)
<1> DEFINE test == CHOOSE a \in InvalidBelow(Best) : InvalidBelow(Best) \subseteq Ancestors[a]
<1>4. test \in InvalidBelow(Best)
  BY <1>3, Zenon
<1>5. /\ failedParent' = failedParent \union Descendants(test)
      /\ candidates' = candidates \ ({test} \union Descendants(test))
      /\ UNCHANGED <<csMain, tip, received, failed, overlooked, crossed, time, validating, pc, local, precious, bounds>>
  BY Zenon DEF FindDrops
<1>6. test \in Blocks /\ Invalid(test)
  BY <1>1, <1>2, <1>4, AncestorsIn, Zenon
<1> HIDE DEF test
<1>7. Index'
  BY <1>0, <1>5, <1>6, DropIndex, Zenon
<1>8. Control'
  BY <1>0, <1>5, SameControl, Zenon DEF received
<1>9. Resting'
  <2>1. pc'[t] # "idle"
    BY <1>0, <1>5, Zenon
  <2> QED  BY <2>1, BusyRests, Zenon
<1> QED  BY <1>5, <1>7, <1>8, <1>9, Zenon DEF Good, IInv, TipMoves

\* FindMostWorkChain returns: when the last thread finds nothing to do, the tip
\* is the best candidate.
LEMMA FindChoosesStep ==
  ASSUME IInv, NEW t \in Threads, FindChooses(t)
  PROVE  Good
<1>0. /\ Index /\ Control /\ pc[t] = "find" /\ pc \in [Threads -> Labels]
      /\ local[t] \in Locals /\ local \in [Threads -> Locals]
      /\ UNCHANGED <<tip, received, flags, time, candidates, validating, precious, bounds>>
  BY Zenon DEF IInv, Control, FindChooses
<1>1. Index' /\ linked \subseteq linked' /\ linked' = linked /\ TipMoves
  BY <1>0, QuietStep, Zenon
<1>2. csMain = t /\ Free(t)
  BY <1>0, Zenon DEF Control, Knows, Free
<1>3. tip \in Blocks /\ candidates \subseteq Blocks /\ candidates \subseteq linked
  BY <1>0, IndexParts, Zenon DEF Index, IndexTypes
<1> DEFINE choice == ConsiderBlock(Best, local[t].pblock)
<1>4. CASE Return(t) /\ (candidates = {} \/ choice = tip)
  <2>1. Control'
    <3>1. Moved(t, "idle") /\ csMain' \in {None, t}
      BY <1>0, <1>4, Moves, Zenon
    <3> QED  BY <1>0, <1>1, <1>2, <3>1, MovedControl, Zenon
  <2>2. \A c \in candidates : Work(c) <= Work(tip)
    <3>1. CASE candidates = {}
      BY <3>1, Zenon
    <3>2. CASE candidates # {}
      <4>1. \A c \in candidates : Work(c) <= Work(Best)
        BY <1>0, <3>2, BestOf, Zenon
      <4>2. choice = tip
        BY <1>4, <3>2, Zenon
      <4>3. Best = tip
        <5> SUFFICES ASSUME Best # tip PROVE FALSE
          OBVIOUS
        <5>1. tip = local[t].pblock /\ tip # Genesis /\ Parent[tip] = tip
          BY <4>2, Zenon DEF ConsiderBlock
        <5> QED  BY <1>3, <5>1, NotAboveItself, AncestorsIn, Zenon
      <4> QED  BY <4>1, <4>3, Zenon
    <3> QED  BY <3>1, <3>2, Zenon
  <2>3. Resting'
    BY <1>0, <2>2, Zenon DEF Resting
  <2> QED  BY <1>1, <2>1, <2>3, Zenon DEF Good, IInv
<1>5. CASE /\ candidates # {} /\ csMain' = csMain
           /\ local' = [local EXCEPT ![t].mostWork = choice] /\ pc' = [pc EXCEPT ![t] = "check"]
  <2>1. Best \in candidates
    BY <1>0, <1>5, BestOf, Zenon
  <2>2. choice \in linked
    BY <1>3, <2>1, Zenon DEF ConsiderBlock
  <2>3. choice \in Blocks /\ choice # None
    BY <1>0, <2>2, BadInTree, IndexParts, Zenon DEF Index
  <2> DEFINE v == [local[t] EXCEPT !.mostWork = choice]
  <2> HIDE DEF choice
  <2>4. v \in Locals /\ v.mostWork = choice
    BY <1>0, <2>3, Zenon DEF Locals, Maybe
  <2>5. local' = [local EXCEPT ![t] = v]
    BY <1>0, <1>5, Zenon
  <2> HIDE DEF v
  <2>6. Control'
    <3>1. PICK w \in Locals : w = v
      BY <2>4, Zenon
    <3>2. Knows(t, "check", w)'
      BY <1>1, <1>2, <1>5, <2>2, <2>3, <2>4, <3>1, Zenon DEF Knows, Maybe
    <3>3. /\ local' = [local EXCEPT ![t] = w] /\ csMain' \in {None, t} /\ "check" \in Labels
          /\ pc' = [pc EXCEPT ![t] = "check"] /\ pc[t] # "validate" /\ validating' = validating
      BY <1>0, <1>2, <1>5, <2>5, <3>1, Zenon DEF Labels
    <3> QED  BY <1>0, <1>1, <1>2, <3>2, <3>3, ControlStep, Zenon
  <2>7. Resting'
    <3>1. pc'[t] # "idle"
      BY <1>0, <1>5, Zenon
    <3> QED  BY <3>1, BusyRests, Zenon
  <2> QED  BY <1>1, <2>6, <2>7, Zenon DEF Good, IInv
<1>6. (Return(t) /\ (candidates = {} \/ choice = tip))
      \/ (/\ candidates # {} /\ csMain' = csMain
          /\ local' = [local EXCEPT ![t].mostWork = choice] /\ pc' = [pc EXCEPT ![t] = "check"])
  BY Zenon DEF FindChooses, Goto
<1> QED  BY <1>4, <1>5, <1>6, Zenon

\* A thread that leaves its work to others is not the last one.
LEMMA LeaveStep ==
  ASSUME IInv, NEW t \in Threads, Leave(t)
  PROVE  Good
<1>0. /\ Index /\ Control /\ pc[t] = "check" /\ pc \in [Threads -> Labels]
      /\ UNCHANGED <<tip, received, flags, time, candidates, validating, precious, bounds>>
      /\ LeavesToOthers(t) /\ Return(t)
  BY Zenon DEF IInv, Control, Leave
<1>1. Index' /\ linked \subseteq linked' /\ TipMoves
  BY <1>0, QuietStep, Zenon
<1>2. Free(t)
  BY <1>0, Zenon DEF Control, Knows, Free
<1>3. Control'
  <2>1. Moved(t, "idle") /\ csMain' \in {None, t}
    BY <1>0, Moves, Zenon
  <2> QED  BY <1>0, <1>1, <1>2, <2>1, MovedControl, Zenon
<1>4. validating # {}
  <2> SUFFICES ASSUME validating = {} PROVE FALSE
    OBVIOUS
  <2>1. AreNSiblingsInValidation(local[t].mostWork)
    BY <1>0, Zenon DEF LeavesToOthers, IsAncestorInValidation
  <2>2. {v \in validating : Work(v) = Work(local[t].mostWork)} = {}
    OBVIOUS
  <2>3. 0 >= MaxParallelBlocks
    BY <2>1, <2>2, FS_EmptySet, Zenon DEF AreNSiblingsInValidation
  <2> QED  BY <2>3, BoundsNat, SMTT(30)
<1>5. PICK u \in Threads : pc[u] = "validate"
  BY <1>0, <1>4, Zenon DEF Control
<1>6. pc'[u] # "idle"
  BY <1>0, <1>5, Zenon DEF Return, Goto
<1>7. Resting'
  BY <1>6, BusyRests, Zenon
<1> QED  BY <1>1, <1>3, <1>7, Zenon DEF Good, IInv

\* A thread goes on only if nobody validates a block of its chain.
LEMMA BeginStepStep ==
  ASSUME IInv, NEW t \in Threads, BeginStep(t)
  PROVE  Good
<1>0. /\ Index /\ Control /\ pc[t] = "check" /\ pc \in [Threads -> Labels]
      /\ UNCHANGED <<tip, received, flags, time, candidates, validating, precious, bounds>>
      /\ UNCHANGED <<csMain, local>> /\ pc' = [pc EXCEPT ![t] = "step"]
      /\ ~LeavesToOthers(t) /\ local[t] \in Locals /\ local \in [Threads -> Locals]
  BY Zenon DEF IInv, Control, BeginStep, Goto
<1>1. Index' /\ linked \subseteq linked' /\ linked' = linked /\ TipMoves
  BY <1>0, QuietStep, Zenon
<1>2. csMain = t /\ Free(t) /\ local[t].mostWork \in Maybe(linked) \ {None}
  BY <1>0, Zenon DEF Control, Knows, Free
<1>3. validating \intersect Ancestors[local[t].mostWork] = {}
  BY <1>0, Zenon DEF LeavesToOthers, IsAncestorInValidation
<1>4. Control'
  <2>1. PICK v \in Locals : v = local[t]
    BY <1>0, Zenon
  <2>2. Knows(t, "step", v)'
    BY <1>0, <1>1, <1>2, <1>3, <2>1, Zenon DEF Knows
  <2>3. /\ local' = [local EXCEPT ![t] = v] /\ csMain' \in {None, t} /\ "step" \in Labels
        /\ pc[t] # "validate" /\ validating' = validating
    BY <1>0, <1>2, <2>1, Zenon DEF Labels
  <2> QED  BY <1>0, <1>1, <1>2, <2>2, <2>3, ControlStep, Zenon
<1>5. Resting'
  <2>1. pc'[t] # "idle"
    BY <1>0, Zenon
  <2> QED  BY <2>1, BusyRests, Zenon
<1> QED  BY <1>1, <1>4, <1>5, Zenon DEF Good, IInv

\* The active chain is cut down to the fork.
LEMMA DisconnectTipStep ==
  ASSUME IInv, NEW t \in Threads, DisconnectTip(t)
  PROVE  Good
<1>0. /\ Index /\ Control /\ pc[t] = "step" /\ tip \notin Ancestors[local[t].mostWork]
      /\ tip' = Parent[tip]
      /\ UNCHANGED <<csMain, received, flags, time, candidates, validating, pc, local, precious, bounds>>
  BY Zenon DEF IInv, DisconnectTip
<1>1. local[t].mostWork \in linked /\ linked \subseteq Blocks /\ tip \in Blocks
  BY <1>0, IndexParts, Zenon DEF Control, Knows, Maybe, Index
<1>2. tip # Genesis
  BY <1>0, <1>1, AncestorsIn, Zenon
<1>3. Index'
  BY <1>0, <1>2, DisconnectIndex, Zenon
<1>4. Control'
  BY <1>0, SameControl, Zenon DEF received
<1>5. Resting'
  <2>1. pc'[t] # "idle"
    BY <1>0, Zenon
  <2> QED  BY <2>1, BusyRests, Zenon
<1>6. TipMoves
  BY <1>0, <1>1, <1>2, ParentOf, Zenon DEF TipMoves
<1> QED  BY <1>3, <1>4, <1>5, <1>6, Zenon DEF Good, IInv

\* The step ends at the block that was chosen.
LEMMA ArriveStep ==
  ASSUME IInv, NEW t \in Threads, Arrive(t)
  PROVE  Good
<1>0. /\ Index /\ Control /\ pc[t] = "step" /\ EndStep(t, tip, FALSE)
      /\ UNCHANGED <<tip, received, flags, time, candidates, validating, precious, bounds>>
  BY Zenon DEF IInv, Arrive
<1>1. Index' /\ linked \subseteq linked' /\ TipMoves
  BY <1>0, QuietStep, Zenon
<1>2. Free(t) /\ tip \in Blocks
  BY <1>0, IndexParts, Zenon DEF Control, Knows, Free, Index
<1>3. Control' /\ pc'[t] = "lock"
  <2>1. Moved(t, "lock") /\ csMain' \in {None, t}
    BY <1>0, <1>2, Moves, Zenon
  <2> QED  BY <1>0, <1>1, <1>2, <2>1, MovedControl, Zenon
<1>4. Resting'
  BY <1>3, BusyRests, Zenon
<1> QED  BY <1>1, <1>3, <1>4, Zenon DEF Good, IInv

\* The next block to connect is linked, builds on the tip and is nobody else's.
LEMMA TargetOf ==
  ASSUME Index, Control, NEW t \in Threads, pc[t] = "step", OnPath(t)
  PROVE  /\ Target(t) \in linked \ {Genesis} /\ Parent[Target(t)] = tip
         /\ Target(t) \notin validating
<1>1. /\ local[t].mostWork \in linked /\ linked \subseteq Blocks
      /\ \A c \in linked : Ancestors[c] \subseteq linked
      /\ validating \intersect Ancestors[local[t].mostWork] = {}
  BY IndexParts, Zenon DEF Control, Knows, Maybe, Index
<1>2. \E x \in Ancestors[local[t].mostWork] \ {Genesis} : Parent[x] = tip
  BY <1>1, NextOnPath, ZenonT(30) DEF OnPath
<1>3. Target(t) \in Ancestors[local[t].mostWork] \ {Genesis} /\ Parent[Target(t)] = tip
  BY <1>2, Zenon DEF Target
<1> QED  BY <1>1, <1>3, Zenon

\* A validation is terminated, with or without its block among the candidates.
LEMMA CancelledStep ==
  ASSUME Index, Control, NEW t \in Threads, Cancelled(t), UNCHANGED <<received, precious, rpcs>>,
         pc[t] \in {"step", "validate"}, Free(t),
         validating' = IF pc[t] = "validate" THEN validating \ {local[t].target} ELSE validating
  PROVE  Good
<1>1. cancels' \in 0 .. MaxCancels
  BY BoundsNat, SMTT(30) DEF Cancelled, Index, IndexTypes
<1>2. Index' /\ linked' = linked
  BY <1>1, SameIndex, Zenon DEF Cancelled, received
<1>3. Control' /\ pc'[t] = "lock"
  <2>1. Moved(t, "lock") /\ csMain' \in {None, t}
    BY Moves, Zenon DEF Cancelled
  <2> QED  BY <1>2, <2>1, MovedControl, Zenon
<1>4. Resting'
  BY <1>3, BusyRests, Zenon
<1> QED  BY <1>2, <1>3, <1>4, Zenon DEF Good, IInv, TipMoves, Cancelled

\* A block is found invalid.
LEMMA ConnectFailsStep ==
  ASSUME Index, Control, NEW t \in Threads, NEW b \in linked, ConnectFails(t, b),
         UNCHANGED <<received, precious, bounds>>,
         pc[t] \in {"step", "validate"}, Free(t),
         validating' = IF pc[t] = "validate" THEN validating \ {local[t].target} ELSE validating
  PROVE  Good
<1>1. cancels' \in 0 .. MaxCancels /\ rpcs' = rpcs
  BY Zenon DEF Index, IndexTypes, bounds
<1>2. Index' /\ linked' = linked
  BY <1>1, BadIndex, Zenon DEF ConnectFails, InvalidBlockFound, received
<1>3. Control' /\ pc'[t] = "lock"
  <2>1. tip \in Blocks
    BY IndexParts, Zenon DEF Index
  <2>2. Moved(t, "lock") /\ csMain' \in {None, t}
    BY <2>1, Moves, Zenon DEF ConnectFails
  <2> QED  BY <1>2, <2>2, MovedControl, Zenon
<1>4. Resting'
  BY <1>3, BusyRests, Zenon
<1> QED  BY <1>2, <1>3, <1>4, Zenon DEF Good, IInv, TipMoves, ConnectFails

\* A block on the way up is connected, found invalid or cancelled.
LEMMA ConnectTipStep ==
  ASSUME IInv, NEW t \in Threads, ConnectTip(t)
  PROVE  Good
<1>0. /\ Index /\ Control /\ pc[t] = "step" /\ OnPath(t)
      /\ UNCHANGED <<received, validating, precious, rpcs>>
  BY Zenon DEF IInv, ConnectTip
<1>1. /\ Target(t) \in linked \ {Genesis} /\ Parent[Target(t)] = tip /\ Target(t) \notin validating
      /\ Free(t)
  BY <1>0, TargetOf, Zenon DEF Control, Knows, Free
<1>2. \/ ConnectFails(t, Target(t)) /\ cancels' = cancels
      \/ Target(t) \notin Bad /\ Connected(Target(t)) /\ UNCHANGED <<csMain, pc, local, cancels>>
      \/ Cancelled(t)
  BY <1>1, Zenon DEF ConnectTip
<1>3. CASE ConnectFails(t, Target(t)) /\ cancels' = cancels
  BY <1>0, <1>1, <1>3, ConnectFailsStep, Zenon DEF bounds
<1>4. CASE Target(t) \notin Bad /\ Connected(Target(t)) /\ UNCHANGED <<csMain, pc, local, cancels>>
  <2>1. cancels' \in 0 .. MaxCancels
    BY <1>0, <1>4, Zenon DEF Index, IndexTypes
  <2>2. Index'
    BY <1>0, <1>1, <1>4, <2>1, ConnectIndex, Zenon
  <2>3. Control'
    BY <1>0, <1>4, SameControl, Zenon DEF received
  <2>4. Resting'
    <3>1. pc'[t] # "idle"
      BY <1>0, <1>4, Zenon
    <3> QED  BY <3>1, BusyRests, Zenon
  <2>5. TipMoves
    BY <1>1, <1>4, Zenon DEF TipMoves, Connected
  <2> QED  BY <2>2, <2>3, <2>4, <2>5, Zenon DEF Good, IInv
<1>5. CASE Cancelled(t)
  BY <1>0, <1>1, <1>5, CancelledStep, Zenon
<1> QED  BY <1>2, <1>3, <1>4, <1>5, Zenon

\* A block that adds work is validated with cs_main released.
LEMMA BeginParallelStep ==
  ASSUME IInv, NEW t \in Threads, BeginParallel(t)
  PROVE  Good
<1>0. /\ Index /\ Control /\ pc[t] = "step" /\ OnPath(t)
      /\ local[t] \in Locals /\ local \in [Threads -> Locals] /\ pc \in [Threads -> Labels]
      /\ UNCHANGED <<tip, received, flags, time, candidates, precious, bounds>>
  BY Zenon DEF IInv, Control, BeginParallel
<1>1. Index' /\ linked \subseteq linked' /\ linked' = linked /\ TipMoves
  BY <1>0, QuietStep, Zenon
<1>2. Target(t) \in linked \ {Genesis} /\ Target(t) \notin validating
  BY <1>0, TargetOf, Zenon
<1>3. /\ validating' = validating \union {Target(t)} /\ local' = [local EXCEPT ![t].target = Target(t)]
      /\ pc' = [pc EXCEPT ![t] = "validate"] /\ csMain' \in {None, t}
  BY <1>2, Zenon DEF BeginParallel, Goto, Unlocked
<1>4. Free(t) /\ local[t].mostWork \in Maybe(linked)
  BY <1>0, Zenon DEF Control, Knows, Free
<1> DEFINE v == [local[t] EXCEPT !.target = Target(t)]
<1>5. v \in Locals /\ v.target = Target(t) /\ v.mostWork = local[t].mostWork
  <2>1. Target(t) \in Blocks
    BY <1>0, <1>2, IndexParts, Zenon DEF Index
  <2> QED  BY <1>0, <2>1, Zenon DEF Locals, Maybe
<1>6. local' = [local EXCEPT ![t] = v]
  BY <1>0, <1>3, Zenon
<1> HIDE DEF v
<1>7. Control'
  <2>1. PICK w \in Locals : w = v
    BY <1>5, Zenon
  <2>2. Knows(t, "validate", w)'
    BY <1>1, <1>2, <1>3, <1>4, <1>5, <2>1, Zenon DEF Knows
  <2>3. /\ local' = [local EXCEPT ![t] = w] /\ "validate" \in Labels /\ pc[t] # "validate"
        /\ validating' = validating \union {w.target} /\ w.target \notin validating
    BY <1>0, <1>2, <1>3, <1>5, <1>6, <2>1, Zenon DEF Labels
  <2> QED  BY <1>0, <1>1, <1>3, <1>4, <2>2, <2>3, ControlStep, Zenon
<1>8. Resting'
  <2>1. pc'[t] # "idle"
    BY <1>0, <1>3, Zenon
  <2> QED  BY <2>1, BusyRests, Zenon
<1> QED  BY <1>1, <1>7, <1>8, Zenon DEF Good, IInv

\* The block is connected if the tip is still its parent; otherwise it is a
\* candidate again.
LEMMA FinishParallelStep ==
  ASSUME IInv, NEW t \in Threads, FinishParallel(t)
  PROVE  Good
<1> DEFINE b == local[t].target
<1>0. /\ Index /\ Control /\ pc[t] = "validate" /\ Free(t) /\ validating' = validating \ {b}
      /\ UNCHANGED <<received, precious, rpcs>>
  BY Zenon DEF IInv, FinishParallel
<1>1. b \in linked \ {Genesis} /\ b \in Blocks
  BY <1>0, IndexParts, Zenon DEF Control, Knows, Index
<1>2. \/ ConnectFails(t, b) /\ cancels' = cancels
      \/ b \notin Bad /\ tip = Parent[b] /\ Connected(b) /\ EndStep(t, b, FALSE) /\ cancels' = cancels
      \/ /\ Validated(b) /\ candidates' = candidates \union {b} /\ Caught(t)
         /\ UNCHANGED <<tip, flags, cancels>>
      \/ Cancelled(t)
  BY Zenon DEF FinishParallel, Reattaches
<1> HIDE DEF b
<1>3. CASE ConnectFails(t, b) /\ cancels' = cancels
  BY <1>0, <1>1, <1>3, ConnectFailsStep, Zenon DEF bounds, b
<1>4. CASE b \notin Bad /\ tip = Parent[b] /\ Connected(b) /\ EndStep(t, b, FALSE) /\ cancels' = cancels
  <2>1. cancels' \in 0 .. MaxCancels
    BY <1>0, <1>4, Zenon DEF Index, IndexTypes
  <2>2. Index' /\ linked' = linked
    BY <1>0, <1>1, <1>4, <2>1, ConnectIndex, Zenon DEF received
  <2>3. Moved(t, "lock") /\ csMain' \in {None, t}
    BY <1>0, <1>1, <1>4, Moves, Zenon
  <2>4. Control' /\ pc'[t] = "lock"
    BY <1>0, <2>2, <2>3, MovedControl, Zenon DEF b
  <2>5. Resting'
    BY <2>4, BusyRests, Zenon
  <2>6. TipMoves
    BY <1>1, <1>4, Zenon DEF TipMoves, Connected
  <2> QED  BY <2>2, <2>4, <2>5, <2>6, Zenon DEF Good, IInv
<1>5. CASE /\ Validated(b) /\ candidates' = candidates \union {b} /\ Caught(t)
           /\ UNCHANGED <<tip, flags, cancels>>
  <2>1. Index' /\ linked' = linked
    BY <1>0, <1>1, <1>5, RetryIndex, Zenon DEF received, bounds
  <2>2. Moved(t, "lock") /\ csMain' \in {None, t}
    BY <1>0, <1>5, Moves, Zenon
  <2>3. Control' /\ pc'[t] = "lock"
    BY <1>0, <2>1, <2>2, MovedControl, Zenon DEF b
  <2>4. Resting'
    BY <2>3, BusyRests, Zenon
  <2> QED  BY <1>5, <2>1, <2>3, <2>4, Zenon DEF Good, IInv, TipMoves
<1>6. CASE Cancelled(t)
  BY <1>0, <1>6, CancelledStep, Zenon DEF b
<1> QED  BY <1>2, <1>3, <1>4, <1>5, <1>6, Zenon

\* An operator's call changes the index and begins an activation.
LEMMA OperatorStep ==
  ASSUME IInv, NEW t \in Threads, Operator(t)
  PROVE  Good
<1>0. Index /\ Control /\ tip \in Blocks /\ rpcs \in Nat
  BY IndexParts, SMTT(30) DEF IInv, Index, IndexTypes
<1>1. PICK b \in Blocks \ {Genesis} :
        InvalidateBlock(t, b) \/ PreciousBlock(t, b) \/ ResetBlockFailureFlags(t, b)
  BY Zenon DEF Operator
<1>2. /\ pc[t] = "idle" /\ csMain = None /\ rpcs < MaxRpcs /\ rpcs' = rpcs + 1
      /\ \E outer \in BOOLEAN : Activate(t, None, outer)
      /\ csMain' \in {None, t} /\ validating' = validating /\ linked' = linked
  BY <1>1, Zenon DEF InvalidateBlock, PreciousBlock, ResetBlockFailureFlags, Rpc, received
<1>3. rpcs' \in rpcs .. MaxRpcs
  BY <1>0, <1>2, BoundsNat, SMTT(30)
<1>4. Index' /\ TipMoves
  <2>1. CASE InvalidateBlock(t, b)
    <3> DEFINE gone == IF b \in Ancestors[tip] THEN Ancestors[tip] \ Ancestors[Parent[b]] ELSE Descendants(b)
    <3>1. /\ failed' = failed \union {b} /\ failedParent' = failedParent \union gone
          /\ tip' = IF b \in Ancestors[tip] THEN Parent[b] ELSE tip
          /\ candidates' = (candidates \ ({b} \union gone))
               \union {x \in linked : x \notin failed' \union failedParent' /\ ~Worse(x, tip')}
          /\ UNCHANGED <<received, overlooked, crossed, time, precious, cancels>>
      BY <2>1, Zenon DEF InvalidateBlock
    <3>2. Index'
      <4>1. gone = IF b \in Ancestors[tip] THEN Ancestors[tip] \ Ancestors[Parent[b]] ELSE Descendants(b)
        OBVIOUS
      <4> HIDE DEF gone
      <4> QED  BY <1>0, <1>3, <3>1, <4>1, InvalidateIndex, Zenon
    <3>3. TipMoves
      <4>1. CASE b \in Ancestors[tip]
        <5>1. Parent[b] \in Ancestors[tip]
          BY <1>0, <4>1, ParentOf, AncestorsTransitive, Zenon
        <5> QED  BY <3>1, <4>1, <5>1, Zenon DEF TipMoves
      <4>2. CASE b \notin Ancestors[tip]
        BY <3>1, <4>2, Zenon DEF TipMoves
      <4> QED  BY <4>1, <4>2, Zenon
    <3> QED  BY <3>2, <3>3, Zenon
  <2>2. CASE PreciousBlock(t, b)
    <3> DEFINE seq == IF Work(tip) > precious.work THEN -1 ELSE precious.seq
               id == [seqId EXCEPT ![b] = seq]
               tm == [time EXCEPT ![b] = Earliest]
    <3>1. /\ precious' = [seq |-> seq - 1, work |-> Work(tip)] /\ seqId' = id /\ time' = tm
          /\ candidates' = IF b \in linked /\ ~Invalid(b)
                           THEN Pruned(candidates \union {b}, tip, tm, id)
                           ELSE candidates \ {b}
          /\ UNCHANGED <<tip, malformed, data, linked, unlinked, flags, cancels>>
      BY <2>2, Zenon DEF PreciousBlock
    <3>2. Index'
      <4>1. seq = IF Work(tip) > precious.work THEN -1 ELSE precious.seq
        OBVIOUS
      <4>2. id = [seqId EXCEPT ![b] = seq] /\ tm = [time EXCEPT ![b] = Earliest]
        OBVIOUS
      <4> HIDE DEF seq, id, tm
      <4> QED  BY <1>0, <1>2, <3>1, <4>1, <4>2, PreciousIndex, Zenon
    <3> QED  BY <3>1, <3>2, Zenon DEF TipMoves
  <2>3. CASE ResetBlockFailureFlags(t, b)
    <3> DEFINE above == {b} \union Descendants(b)
               cleared == above \union Ancestors[b]
    <3>1. /\ failed' = failed \ cleared /\ failedParent' = failedParent \ cleared
          /\ overlooked' = overlooked \union {a \in Ancestors[b] \ {b} : Invalid(a)}
          /\ candidates' = candidates \union {x \in above \intersect linked : Invalid(x) /\ Worse(tip, x)}
          /\ UNCHANGED <<tip, received, crossed, time, precious, cancels>>
      BY <2>3, Zenon DEF ResetBlockFailureFlags
    <3>2. Index'
      <4>1. above = {b} \union Descendants(b) /\ cleared = above \union Ancestors[b]
        OBVIOUS
      <4> HIDE DEF above, cleared
      <4> QED  BY <1>0, <1>3, <3>1, <4>1, ResetIndex, Zenon
    <3> QED  BY <3>1, <3>2, Zenon DEF TipMoves
  <2> QED  BY <1>1, <2>1, <2>2, <2>3, Zenon
<1>5. Control' /\ pc'[t] = "lock"
  <2>1. Moved(t, "lock")
    BY <1>0, <1>2, Moves, Zenon DEF Maybe
  <2>2. Free(t) /\ pc[t] # "validate"
    BY <1>2, Zenon DEF Free
  <2> QED  BY <1>0, <1>2, <2>1, <2>2, MovedControl, Zenon
<1>6. Resting'
  BY <1>5, BusyRests, Zenon
<1> QED  BY <1>4, <1>5, <1>6, Zenon DEF Good, IInv

-----------------------------------------------------------------------------
(* The theorems.                                                           *)

\* The node starts with the genesis block as its only candidate.
LEMMA InitInvariant ==
  ASSUME Init
  PROVE  IInv
<1>1. Genesis \in Blocks /\ Genesis \notin Bad /\ Ancestors[Genesis] = {Genesis}
  BY TreeRooted, AncestorsDef, Zenon
<1>2. linked = {b \in Blocks : Ancestors[b] \subseteq data}
  BY <1>1, AncestorsIn, Zenon DEF Init
<1>3. Never \in Earliest .. Never
  <2>1. Cardinality(Blocks) \in Nat
    BY TreeGrounded, FS_CardinalityType, Zenon
  <2> QED  BY <2>1, SMTT(30) DEF Earliest, Never
<1>4. IndexTypes
  <2>1. /\ data \subseteq Blocks /\ unlinked \subseteq data \ linked /\ data \ linked = {} /\ malformed \subseteq Bad
        /\ data \intersect malformed = {} /\ tip \in linked /\ candidates \subseteq linked
        /\ failed \subseteq Blocks /\ failedParent \subseteq Blocks /\ overlooked \subseteq Blocks
        /\ crossed \in BOOLEAN
    BY <1>1, Zenon DEF Init
  <2>2. time \in [Blocks -> Earliest .. Never]
    BY <1>3, Zenon DEF Init
  <2>3. seqId \in [Blocks -> Int] /\ \A b \in Blocks : seqId[b] >= -rpcs
    BY SMTT(30) DEF Init
  <2>4. precious \in [seq : Int, work : Nat] /\ precious.seq >= -1 - rpcs
    BY SMTT(30) DEF Init
  <2>5. rpcs \in 0 .. MaxRpcs /\ cancels \in 0 .. MaxCancels
    BY BoundsNat, SMTT(30) DEF Init
  <2> QED  BY <1>2, <2>1, <2>2, <2>3, <2>4, <2>5, Zenon DEF IndexTypes
<1>5. \A b : ~Invalid(b)
  BY Zenon DEF Init, Invalid
<1>6. UnlinkedInvalid
  BY <1>5, Zenon DEF UnlinkedInvalid
<1>7. Anchored
  BY <1>1, <1>5, Zenon DEF Init, Anchored, Sound
<1>8. Covered
  BY Zenon DEF Init, Covered
<1>9. Control
  <2>1. NoLocal \in Locals /\ NoLocal.mostWork = None
    BY Zenon DEF NoLocal, Locals, Maybe
  <2>2. csMain \in Maybe(Threads) /\ pc \in [Threads -> Labels] /\ local \in [Threads -> Locals]
    BY <2>1, Zenon DEF Init, Maybe, Labels
  <2>3. \A t \in Threads : pc[t] = "idle" /\ local[t].mostWork = None
    BY <2>1, Zenon DEF Init
  <2> QED  BY <2>2, <2>3, Zenon DEF Init, Control, Knows, Maybe
<1>10. Resting
  BY <1>1, WorkOf, Zenon DEF Init, Resting
<1> QED  BY <1>4, <1>6, <1>7, <1>8, <1>9, <1>10, Zenon DEF IInv, Index

\* Each step keeps the invariant and moves the tip as it may.
LEMMA NextInvariant ==
  ASSUME IInv, [Next]_vars
  PROVE  Good
<1>1. ASSUME NEW t \in Threads, Activation(t) PROVE Good
  BY <1>1, LockStep, FindDropsStep, FindChoosesStep, LeaveStep, BeginStepStep, DisconnectTipStep,
     ArriveStep, ConnectTipStep, BeginParallelStep, FinishParallelStep, Zenon DEF Activation
<1>2. CASE Next
  <2>1. ASSUME NEW t \in Threads, Accept(t) PROVE Good
    BY <2>1, AcceptStep, AcceptFailsStep, Zenon DEF Accept
  <2> QED  BY <1>1, <1>2, <2>1, OperatorStep, Zenon DEF Next
<1>3. CASE UNCHANGED vars
  <2>1. UNCHANGED <<tip, received, flags, time, candidates, precious, bounds>>
        /\ UNCHANGED <<csMain, pc, local, validating>>
    BY <1>3, Zenon DEF vars
  <2>2. Index' /\ linked' = linked /\ TipMoves
    BY <2>1, QuietStep, Zenon DEF IInv
  <2>3. Control'
    BY <2>1, <2>2, SameControl, Zenon DEF IInv
  <2>4. Resting'
    BY <2>1, Zenon DEF IInv, Resting, Quiescent
  <2> QED  BY <2>2, <2>3, <2>4, Zenon DEF Good, IInv
<1> QED  BY <1>2, <1>3, Zenon

\* The inductive invariant holds in every reachable state.
THEOREM IndexInvariant == Spec => []IInv
<1>1. Init => IInv
  BY InitInvariant, Zenon
<1>2. IInv /\ [Next]_vars => IInv'
  BY NextInvariant, Zenon DEF Good
<1> QED  BY <1>1, <1>2, PTL DEF Spec

\* The sets of the block index agree with each other and with the threads, the
\* tip or a successor of it is a candidate, and no two threads of
\* ActivateBestChain validate the same block.
THEOREM IndexStaysConsistent == Spec => []IndexConsistent
<1>1. IInv => IndexConsistent
  <2> SUFFICES ASSUME IInv PROVE IndexConsistent
    OBVIOUS
  <2>0. Index /\ Control /\ IndexTypes
    BY Zenon DEF IInv, Index
  <2>1. TypeOK
    <3>1. validating = {local[t].target : t \in {u \in Threads : pc[u] = "validate"}}
      BY <2>0, SMTT(30) DEF Control, Knows
    <3>2. \A t \in Threads : pc[t] \in {"find", "check", "step"} => csMain = t
      BY <2>0, Zenon DEF Control, Knows
    <3>3. csMain \in Threads \union {None} /\ pc \in [Threads -> Labels]
      BY <2>0, Zenon DEF Control, Maybe
    <3>4. linked \subseteq data
      BY <2>0, IndexParts, Zenon
    <3> QED  BY <2>0, <3>1, <3>2, <3>3, <3>4, Zenon DEF TypeOK, IndexTypes
  <2>2. TipOrSuccessorLeft
    BY Zenon DEF IInv, Index, Anchored, TipOrSuccessorLeft
  <2>3. ValidatedOnce
    BY <2>0, TargetOf, Zenon DEF ValidatedOnce
  <2> QED  BY <2>1, <2>2, <2>3, Zenon DEF IndexConsistent
<1> QED  BY <1>1, IndexInvariant, PTL

\* When all activations are over no eligible block has more work than the tip,
\* unless its invalidity was cleared as that of an ancestor, or a block marked
\* invalid was connected.
THEOREM BestChainIsActive == Spec => []BestChainActive
<1>1. IInv => BestChainActive
  <2> SUFFICES ASSUME IInv, Quiescent, ~crossed, NEW b \in Blocks \ overlooked, Eligible(b)
               PROVE  Work(b) <= Work(tip)
    BY Zenon DEF BestChainActive
  <2>1. Index /\ IndexTypes /\ Covered
    BY Zenon DEF IInv, Index
  <2>2. b \in linked /\ ~Invalid(b)
    BY <2>1, AncestorsIn, Zenon DEF IndexTypes, Eligible
  <2>3. b \in candidates \/ Outdone(b)
    BY <2>1, <2>2, Zenon DEF Covered
  <2>4. \A c \in candidates : Work(c) <= Work(tip)
    BY Zenon DEF IInv, Resting
  <2>5. Work(b) \in Nat /\ Work(tip) \in Nat /\ \A c \in candidates : Work(c) \in Nat
    BY <2>1, IndexParts, WorkOf, Zenon
  <2> QED  BY <2>3, <2>4, <2>5, SMTT(30) DEF Outdone
<1> QED  BY <1>1, IndexInvariant, PTL

\* A block is connected only to its parent, whatever other threads did to the
\* tip while it was validated.
THEOREM OnlyToParent == Spec => ConnectsToParent
<1>1. IInv /\ [Next]_vars => [tip' \in Ancestors[tip] \/ (tip' # Genesis /\ Parent[tip'] = tip)]_tip
  BY NextInvariant, Zenon DEF Good, TipMoves
<1> QED  BY <1>1, IndexInvariant, PTL DEF Spec, ConnectsToParent
=============================================================================
