------------------------- MODULE MCChainActivation -------------------------
(* A branch of two blocks, the second of them invalid, and one of a single  *)
(* block; two threads.                                                      *)
EXTENDS ChainActivation, TLC

CONSTANTS G, B1, B2, C1, t1, t2

MCBlocks == {G, B1, B2, C1}
MCParent == B1 :> G @@ B2 :> B1 @@ C1 :> G
MCBad == {B2}
MCAddress == G :> 1 @@ B1 :> 2 @@ B2 :> 3 @@ C1 :> 4
MCThreads == {t1, t2}
=============================================================================
