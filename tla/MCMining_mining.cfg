SPECIFICATION Spec
CONSTANTS
  mergeA = mergeA
  mergeB = mergeB
  forged = forged
  k1 = k1
  A = A
  Tx = {mergeA, mergeB, forged}
  Key = {k1}
  Address = {A}
  StateThread = {}
  Coin <- MCCoin
  Value <- MCValue
  Owner <- MCOwner
  TxKind <- MCTxKind
  TxIn <- MCTxIn
  TxOut <- MCTxOut
  TxBurn <- MCTxBurn
  TxKeys <- MCTxKeys
  TxUnlock <- MCTxUnlock
  TxOrder <- MCTxOrder
  BurnOf <- MCBurnOf
  V2Act = 1
  ReplayFix = 3
  V4Act = 4
  TTL = 2
  PowWindow = 2
  InitialReward = 2
  BlocksPerYear = 100
  MaxHalvings = 1
  MaxTxInputs = 2
  MaxTxOutputs = 2
  MaxConsolidateInputs = 3
  U64Max = 64
  MaxBatchCommits = 2
  MaxBatchReveals = 3
  MaxBatchInputs = 2
  MaxBatchOutputs = 3
  StartHeight = 4
  StartCoins <- MCStartCoins
  StartCommitted = {mergeA, mergeB}
  PeerTxs <- MCPeerTxs
  Mode = "pool"
  MaxHeight = 6
  MaxTasks = 2
  MaxBlocks = 3
  MaxEvents = 3
CHECK_DEADLOCK FALSE
INVARIANT HandleSound
 
INVARIANT ServableFresh
