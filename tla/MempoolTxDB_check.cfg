CONSTANTS
  Txs = {t1}
  Wrappers = {w1, w2}
  Callers = {c1}
  Main = main
  Worker = worker
  None = none
  MaximalSize = 2
SPECIFICATION TxDBSpec
CHECK_DEADLOCK FALSE
INVARIANT MempoolMatchesTxDB
