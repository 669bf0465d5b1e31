SPECIFICATION Spec
CONSTANTS
  a = a
  b = b
  c = c
  d = d
  e = e
  k1 = k1
  A = A
  NoTx = NoTx
  Tx = {a, b, c, d, e}
  Key = {k1}
  Address = {A}
  StateThread = {}
  Coin <- MCCoin
  Value <- MCValue
  Owner <- MCOwner
  TxKind <- MCTxKind
  TxIn <- MCTxIn
  TxOut <- MCTxOut
  TxBurn <- MCTxBurn
  TxKeys <- MCTxKeys
  TxUnlock <- MCTxUnlock
  TxRank <- MCTxRank
  TxSizes <- MCTxSizes
  PowBits = {1, 2}
  RequiredPow <- MCRequiredPow
  MAX_MEMPOOL_REVEALS = 2
  MAX_MEMPOOL_BYTES = 5
  MAX_PENDING_COMMITS = 1
  MIN_FEE_PER_KB = 1
  FEE_RATE_SCALE = 4
  V2Act = 1
  ReplayFix = 3
  V4Act = 3
  TTL = 2
  PowWindow = 2
  InitialReward = 2
  BlocksPerYear = 4
  MaxHalvings = 1
  MaxTxInputs = 2
  MaxTxOutputs = 2
  MaxConsolidateInputs = 3
  U64Max = 64
  StartHeight = 3
  MaxHeight = 5
  MaxReorgs = 1
  MaxBlockTxs = 2
  PowAnchors = {2, 3}
  StartCoins <- MCStartCoins
  Scenes <- MCScenes
INVARIANTS PoolConsistent RevealsMinable
PROPERTIES SubmissionPaysOff
