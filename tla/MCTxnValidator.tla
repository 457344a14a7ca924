--------------------------- MODULE MCTxnValidator ---------------------------
(* Instances of TxnValidator.  In the first, o and d spend the same output *)
(* of p, which spends a coin.  In the second, p and d spend coins and o    *)
(* spends from both.                                                       *)
EXTENDS TxnValidator

CONSTANTS p, o, d, coin, a

MCSpends == (p :> {<<coin, 0>>}) @@ (o :> {<<p, 0>>}) @@ (d :> {<<p, 0>>})
MCTwoParents == (p :> {<<coin, 0>>}) @@ (d :> {<<coin, 1>>}) @@ (o :> {<<p, 0>>, <<d, 0>>})
MCFrom == [t \in {p, o, d} |-> a]
MCSubmitted == {<<o>>, <<o, p>>}
============================================================================
