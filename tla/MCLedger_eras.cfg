SPECIFICATION Spec
CONSTANTS
  t1 = t1
  t2 = t2
  t3 = t3
  t4 = t4
  k1 = k1
  k2 = k2
  A = A
  B = B
  Tx = {t1, t2, t3, t4}
  Key = {k1, k2}
  Address = {A, B}
  StateThread = {}
  Coin <- MCCoin
  Value <- MCValue
  Owner <- MCOwner
  TxKind <- MCTxKind
  TxIn <- MCTxIn
  TxOut <- MCTxOut
  TxBurn <- MCTxBurn
  TxKeys <- MCTxKeys
  TxUnlock <- MCTxUnlock
  V2Act = 2
  ReplayFix = 4
  V4Act = 5
  TTL = 1
  PowWindow = 1
  InitialReward = 2
  BlocksPerYear = 3
  MaxHalvings = 1
  MaxTxInputs = 2
  MaxTxOutputs = 2
  MaxConsolidateInputs = 3
  U64Max = 64
  MaxBatchCommits = 2
  MaxBatchReveals = 2
  MaxBatchInputs = 2
  MaxBatchOutputs = 3
  StartHeight = 1
  MaxHeight = 6
  StartCoins <- MCStartCoins
  Coinbases <- MCCoinbases
INVARIANT TypeOK
INVARIANT NoCommitmentOutlivesTTL
INVARIANT CoinsCacheConsistent
INVARIANT Supply
