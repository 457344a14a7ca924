------------------------------ MODULE UtxoSet ------------------------------
(***************************************************************************)
(* What the coins layer promises to block connection: the unspent outputs  *)
(* are a function of the tip block, a span works on a private copy of the  *)
(* outputs of the block it was opened on, and its copy becomes the outputs *)
(* of the next tip only if the tip is still that block.  Caches, flags,    *)
(* scripts and the database are the business of module CoinsViews, which   *)
(* is shown to implement this specification.                               *)
(***************************************************************************)
CONSTANTS Outpoints, MaybeCoin, Spans, Blocks,
          NoSpan    \* a span not in use

VARIABLES
  tip,      \* the best block
  utxo,     \* the unspent outputs of each block
  known,    \* the blocks that have been the tip
  span      \* the block each span was opened on, and its private copy

absVars == <<tip, utxo, known, span>>

AbsInit ==
  /\ tip \in Blocks
  /\ known = {tip}
  /\ utxo \in [Blocks -> [Outpoints -> MaybeCoin]]
  /\ span = [s \in Spans |-> NoSpan]

Begin(s) ==
  /\ span[s] = NoSpan
  /\ span' = [span EXCEPT ![s] = [base |-> tip, view |-> utxo[tip]]]
  /\ UNCHANGED <<tip, utxo, known>>

Put(s, o, c) ==
  /\ span[s] # NoSpan
  /\ span' = [span EXCEPT ![s] = [base |-> span[s].base, view |-> [span[s].view EXCEPT ![o] = c]]]
  /\ UNCHANGED <<tip, utxo, known>>

(* The span's copy becomes the unspent outputs of tip b; the outputs of a  *)
(* block that was the tip before are what they were then.                  *)
Commit(s, b) ==
  /\ span[s] # NoSpan
  /\ span[s].base = tip
  /\ b \in known => utxo[b] = span[s].view
  /\ tip' = b
  /\ known' = known \union {b}
  /\ utxo' = [utxo EXCEPT ![b] = span[s].view]
  /\ span' = [span EXCEPT ![s] = NoSpan]

End(s) ==
  /\ span[s] # NoSpan
  /\ span' = [span EXCEPT ![s] = NoSpan]
  /\ UNCHANGED <<tip, utxo, known>>

AbsNext ==
  \E s \in Spans :
    \/ Begin(s) \/ End(s)
    \/ \E b \in Blocks : Commit(s, b)
    \/ \E o \in Outpoints, c \in MaybeCoin : Put(s, o, c)

AbsSpec == AbsInit /\ [][AbsNext]_absVars
=============================================================================
