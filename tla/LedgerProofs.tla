---------------------------- MODULE LedgerProofs ----------------------------
(***************************************************************************)
(* Ledger's invariants, proved for every value of the constants: types,    *)
(* the TTL of commitments, the money supply, the coin tree's cache, and    *)
(* what the replay fix achieves.                                           *)
(***************************************************************************)
EXTENDS Ledger, ChainStateProofs

\* The block being applied starts from `before`, at the same height.
Framed ==
    /\ state.height <= MaxHeight
    /\ ~Idle => state.height = block.before.height /\ state.height < MaxHeight
    /\ Idle => state = block.before

TrackInv == Framed /\ Tracked(state) /\ Tracked(block.before)

\* What exists at a height: the starting coins and the rewards since.
Issued(h) == SumValues(StartCoins) + SumOf(Rewards, StartHeight..(h - 1))

\* The State before the block is worth what was issued less what was burnt;
\* in the block, every transaction so far moved value from coins to fees and
\* burns, none in or out.
Conserved ==
    /\ StartHeight <= block.before.height
    /\ SumValues(block.before.coins) + burnt = Issued(block.before.height)
    /\ block.phase = "body" =>
         SumValues(state.coins) + (block.fees + block.burn) = SumValues(block.before.coins)

ChainInv == CacheUniform(state) /\ CacheUniform(block.before) /\ Conserved
-----------------------------------------------------------------------------
LEMMA NoBlockType ==
    ASSUME NEW s \in State
    PROVE  /\ NoBlock(s) \in BlockType /\ NoBlock(s).phase = "idle"
           /\ NoBlock(s).before = s
BY DEF NoBlock, BlockType, Phase

IndInv == TypeOK /\ TrackInv

LEMMA InitInv == Init => IndInv
<1> SUFFICES ASSUME Init PROVE IndInv
  OBVIOUS
<1>1. PICK ages \in [Tx -> {None} \cup (saturating_sub(StartHeight, TTL)..(StartHeight - 1))] :
        state = Loaded(ages)
  BY DEF Init
<1> DEFINE raw == [coins |-> StartCoins,
         commitments |-> {c \in Tx : ages[c] # None}, commitment_heights |-> ages,
         expirations |-> {}, burned_wots |-> {}, height |-> StartHeight,
         coins_cache |-> "none", commitments_cache |-> "none"]
<1>n. StartHeight \in Nat /\ TTL \in Nat /\ StartCoins \in SUBSET Coin
      /\ StartHeight <= MaxHeight /\ MaxHeight \in Nat
  BY StartAssumption, EraAssumption
<1>s. saturating_sub(StartHeight, TTL) \in Nat /\ StartHeight - saturating_sub(StartHeight, TTL) <= TTL
  BY <1>n DEF saturating_sub
<1>h. \A c \in Tx : ages[c] # None =>
          ages[c] \in Nat /\ ages[c] <= StartHeight /\ StartHeight - ages[c] <= TTL
  BY <1>n, <1>s
<1>g. ages \in [Tx -> Nat \cup {None}]
  BY <1>h
<1>2. raw \in State
  BY <1>n, <1>g DEF State, CacheMode
<1>3. Dated(raw) = raw.commitments
  BY DEF Dated
<1>4. \A c \in raw.commitments : raw.commitment_heights[c] <= raw.height
                                  /\ raw.height - raw.commitment_heights[c] <= TTL
  BY <1>h
<1>5. state = deserialize_state(raw) /\ raw.height = StartHeight
  BY <1>1 DEF Loaded
<1> HIDE DEF raw
<1>6. state \in State /\ Tracked(state) /\ state.height = StartHeight
  BY <1>2, <1>3, <1>4, <1>5, ReloadTracked
<1>7. block \in BlockType /\ block.phase = "idle" /\ block.before = state
  BY <1>6, NoBlockType DEF Init
<1>8. QED BY <1>6, <1>7, <1>n DEF Init, IndInv, TypeOK, TrackInv, Framed, Idle

\* Adopting the result of one transaction.
LEMMA ProceedInv ==
    ASSUME IndInv, NEW r, NEW next, Proceed(r, next), block.phase = "body",
           r.ok \in BOOLEAN, r.state \in State, Tracked(r.state),
           r.state.height = state.height,
           next \in BlockType, next.phase = "body", next.before = block.before,
           UNCHANGED <<included, burnt>>
    PROVE  IndInv'
<1> DEFINE failed == [block EXCEPT !.phase = "failed"]
<1>1. /\ failed \in BlockType /\ failed.phase = "failed"
      /\ failed.before = block.before
  BY DEF IndInv, TypeOK, BlockType, Phase
<1>2. /\ state' = r.state /\ block' \in BlockType /\ block'.phase # "idle"
      /\ block'.before = block.before
  BY <1>1 DEF Proceed
<1>3. QED BY <1>2 DEF IndInv, TypeOK, TrackInv, Framed, Idle

LEMMA NextInv == IndInv /\ [Next]_vars => IndInv'
<1> SUFFICES ASSUME IndInv, [Next]_vars PROVE IndInv'
  OBVIOUS
<1>t. /\ state \in State /\ Tracked(state) /\ block \in BlockType
      /\ block.before \in State /\ Tracked(block.before)
      /\ included \subseteq Pow /\ burnt \in Nat
      /\ MaxHeight \in Nat /\ state.height \in Nat /\ state.height <= MaxHeight
  BY StartAssumption DEF IndInv, TypeOK, TrackInv, Framed, BlockType, State
<1>1. CASE BeginBlock
  <2> DEFINE b == [NoBlock(state) EXCEPT !.phase = "body"]
  <2>1. b \in BlockType /\ b.phase = "body" /\ b.before = state
    BY <1>t, NoBlockType DEF BlockType, Phase
  <2>2. QED BY <1>1, <1>t, <2>1 DEF BeginBlock, IndInv, TypeOK, TrackInv, Framed, Idle
<1>2. ASSUME NEW pow \in Pow, ApplyCommit(pow) PROVE IndInv'
  <2> DEFINE r == apply_commit(state, pow)
             commits == block.commits \cup {pow.tx}
             pows == IF pow.fmt = "v3" THEN block.pows \cup {pow} ELSE block.pows
             next == [block EXCEPT !.commits = commits, !.pows = pows]
  <2>1. /\ r.state \in State /\ Tracked(r.state) /\ r.state.height = state.height
        /\ r.ok \in BOOLEAN
    BY <1>t, CommitTracked DEF Pow
  <2>2. commits \in SUBSET Tx /\ pows \in SUBSET Pow
    BY <1>t DEF BlockType, Pow
  <2>3. Proceed(r, next) /\ UNCHANGED <<included, burnt>> /\ block.phase = "body"
    BY <1>2 DEF ApplyCommit
  <2> HIDE DEF commits, pows, r
  <2>4. next \in BlockType /\ next.phase = "body" /\ next.before = block.before
    BY <1>t, <2>2, <2>3 DEF BlockType
  <2> HIDE DEF next
  <2>5. QED BY <2>1, <2>3, <2>4, ProceedInv
<1>3. ASSUME NEW tx \in Tx, ApplyReveal(tx) PROVE IndInv'
  <2> DEFINE r == apply_transaction_no_sig_check(state, tx)
             reveals == block.reveals + 1
             ins == block.inputs + InputCount(tx)
             outs == block.outputs + Len(TxOut[tx]) + Len(TxBurn[tx])
             fees == block.fees + fee(tx)
             burn == block.burn + SumSeq(TxBurn[tx])
             cons == block.consolidated \cup ConsolidatedAddress(tx)
             next == [block EXCEPT !.reveals = reveals, !.inputs = ins, !.outputs = outs,
                                   !.fees = fees, !.burn = burn, !.consolidated = cons]
  <2>1. /\ r.state \in State /\ Tracked(r.state) /\ r.state.height = state.height
        /\ r.ok \in BOOLEAN
    BY <1>t, RevealTracked
  <2>b. /\ block.reveals \in Nat /\ block.inputs \in Nat /\ block.outputs \in Nat
        /\ block.fees \in Nat /\ block.burn \in Nat
        /\ block.consolidated \in SUBSET Address
    BY <1>t DEF BlockType
  <2>x. TxIn[tx] \in Seq(Coin) /\ TxOut[tx] \in Seq(Coin) /\ TxBurn[tx] \in Seq(Nat)
    BY TxAssumption
  <2>l. Len(TxIn[tx]) \in Nat /\ Len(TxOut[tx]) \in Nat /\ Len(TxBurn[tx]) \in Nat
    BY <2>x
  <2>i. InputCount(tx) \in Nat
    BY <2>l DEF InputCount
  <2>f. fee(tx) \in Nat /\ SumSeq(TxBurn[tx]) \in Nat
    <3>1. InputSum(tx) \in Nat /\ OutputSum(tx) \in Nat /\ SumSeq(TxBurn[tx]) \in Nat
      BY SumsNat
    <3>2. QED BY <3>1 DEF fee, saturating_sub
  <2>c. ConsolidatedAddress(tx) \in SUBSET Address
    <3>1. TxIn[tx] # <<>> => TxIn[tx][1] \in Coin
      BY <2>x
    <3>2. QED BY <3>1, TxAssumption DEF ConsolidatedAddress
  <2>n. reveals \in Nat /\ ins \in Nat
    BY <2>b, <2>i
  <2>o. outs \in Nat
    <3> HIDE DEF r, next
    <3>1. \A i, j, k \in Nat : i + j + k \in Nat
      OBVIOUS
    <3>2. QED BY <2>b, <2>l, <3>1, Zenon
  <2>v. fees \in Nat /\ burn \in Nat
    BY <2>b, <2>f
  <2>a. cons \in SUBSET Address
    BY <2>b, <2>c, Zenon
  <2>2. /\ reveals \in Nat /\ ins \in Nat /\ outs \in Nat /\ fees \in Nat
        /\ burn \in Nat /\ cons \in SUBSET Address
    BY <2>n, <2>o, <2>v, <2>a, Zenon
  <2>3. Proceed(r, next) /\ UNCHANGED <<included, burnt>> /\ block.phase = "body"
    BY <1>3 DEF ApplyReveal
  <2> HIDE DEF reveals, ins, outs, fees, burn, cons, r
  <2>4. next \in BlockType /\ next.phase = "body" /\ next.before = block.before
    BY <1>t, <2>2, <2>3 DEF BlockType
  <2> HIDE DEF next
  <2>5. QED BY <2>1, <2>3, <2>4, ProceedInv
<1>4. ASSUME NEW coinbase \in Coinbases(state.height), FinishBlock(coinbase) PROVE IndInv'
  <2>1. state.height < MaxHeight /\ block.phase = "body"
    BY <1>4 DEF FinishBlock, IndInv, TrackInv, Framed, Idle
  <2>2. coinbase \in SUBSET Coin
    BY <2>1, <1>t, StartAssumption
  <2>3. CASE CoinbaseOK(state, coinbase, block.fees) /\ coinbase \cap state.coins = {}
    <3>1. /\ state' = EndBlock(AddCoinbase(state, coinbase)) /\ block' = NoBlock(state')
          /\ included' = included \cup block.pows /\ burnt' = burnt + block.burn
      BY <1>4, <2>3 DEF FinishBlock
    <3>2. /\ AddCoinbase(state, coinbase) \in State /\ Tracked(AddCoinbase(state, coinbase))
          /\ AddCoinbase(state, coinbase).height = state.height
      BY <2>2, <1>t, CoinbaseTracked
    <3>3. state' \in State /\ Tracked(state') /\ state'.height = state.height + 1
      BY <3>1, <3>2, EndBlockTracked
    <3>4. block' \in BlockType /\ block'.phase = "idle" /\ block'.before = state'
      BY <3>1, <3>3, NoBlockType
    <3>5. included' \subseteq Pow /\ burnt' \in Nat
      BY <3>1, <1>t DEF BlockType
    <3>6. state'.height <= MaxHeight
      BY <3>3, <2>1, <1>t
    <3>7. QED BY <3>3, <3>4, <3>5, <3>6 DEF IndInv, TypeOK, TrackInv, Framed, Idle, Tracked, Dated
  <2>4. CASE ~(CoinbaseOK(state, coinbase, block.fees) /\ coinbase \cap state.coins = {})
    <3> DEFINE b == [block EXCEPT !.phase = "failed"]
    <3>1. block' = b /\ UNCHANGED <<state, included, burnt>>
      BY <1>4, <2>4 DEF FinishBlock
    <3>2. b \in BlockType /\ b.phase = "failed" /\ b.before = block.before
      BY <1>t DEF BlockType, Phase
    <3>3. QED BY <3>1, <3>2, <2>1 DEF IndInv, TypeOK, TrackInv, Framed, Idle, Tracked, Dated
  <2>5. QED BY <2>3, <2>4
<1>5. CASE RejectBlock
  <2>1. /\ state' = block.before /\ block' = NoBlock(block.before)
        /\ UNCHANGED <<included, burnt>> /\ block.phase = "failed"
    BY <1>5 DEF RejectBlock
  <2>2. block' \in BlockType /\ block'.phase = "idle" /\ block'.before = block.before
    BY <2>1, <1>t, NoBlockType
  <2>3. QED BY <2>1, <2>2, <1>t DEF IndInv, TypeOK, TrackInv, Framed, Idle, Tracked, Dated
<1>6. CASE Restart
  <2>1. /\ state' = deserialize_state(state) /\ block' = NoBlock(state')
        /\ UNCHANGED <<included, burnt>>
    BY <1>6 DEF Restart
  <2>2. state' \in State /\ Tracked(state') /\ state'.height = state.height
    BY <2>1, <1>t, ReloadTracked DEF Tracked
  <2>3. block' \in BlockType /\ block'.phase = "idle" /\ block'.before = state'
    BY <2>1, <2>2, NoBlockType
  <2>4. QED BY <2>1, <2>2, <2>3, <1>t DEF IndInv, TypeOK, TrackInv, Framed, Idle, Tracked, Dated
<1>7. CASE UNCHANGED vars
  BY <1>7 DEF vars, IndInv, TypeOK, TrackInv, Framed, Idle, Tracked, Dated
<1>8. QED BY <1>1, <1>2, <1>3, <1>4, <1>5, <1>6, <1>7 DEF Next

\* The State and the block accounting keep their types.
THEOREM TypeCorrect == Spec => []TypeOK
<1>1. IndInv => TypeOK
  BY DEF IndInv
<1>2. QED BY <1>1, InitInv, NextInv, PTL DEF Spec

\* No commitment stays in a node's state for more than COMMITMENT_TTL blocks,
\* under either collector and across the change from one to the other.
THEOREM TTLCorrect == Spec => []NoCommitmentOutlivesTTL
<1>1. IndInv => NoCommitmentOutlivesTTL
  BY DEF IndInv, TrackInv, Tracked, NoCommitmentOutlivesTTL
<1>2. QED BY <1>1, InitInv, NextInv, PTL DEF Spec
-----------------------------------------------------------------------------
\* A block adds its reward to what is issued.
LEMMA IssuedStep ==
    ASSUME NEW h \in Nat, StartHeight <= h, h < MaxHeight
    PROVE  /\ Issued(h) \in Int /\ block_reward(h) \in Nat
           /\ Issued(h + 1) = Issued(h) + block_reward(h)
<1>1. StartHeight \in Nat /\ MaxHeight \in Nat /\ StartCoins \in SUBSET Coin
  BY StartAssumption
<1>2. \A i \in 0..MaxHeight : Rewards[i] = block_reward(i) /\ Rewards[i] \in Nat
  BY RewardAssumption DEF Rewards
<1> DEFINE past == StartHeight..(h - 1)
<1>3. IsFiniteSet(past)
  BY <1>1, FS_Interval
<1>4. past \subseteq 0..MaxHeight /\ h \in 0..MaxHeight /\ h \notin past
  BY <1>1
<1>5. StartHeight..((h + 1) - 1) = past \union {h}
  BY <1>1
<1> HIDE DEF past
<1>6. SumOf(Rewards, past \union {h}) = SumOf(Rewards, past) + Rewards[h]
  <2>1. (\A x \in past : Rewards[x] \in Int) /\ Rewards[h] \in Int
    BY <1>2, <1>4
  <2>2. QED BY <1>3, <1>4, <2>1, SumInsert
<1>7. SumOf(Rewards, past) \in Nat /\ SumValues(StartCoins) \in Nat /\ block_reward(h) \in Nat
  <2>1. \A x \in past : Rewards[x] \in Nat
    BY <1>2, <1>4
  <2>2. SumOf(Rewards, past) \in Nat
    BY <1>3, <2>1, SumNat
  <2>3. QED BY <1>1, <1>2, <1>4, <2>2, ValuesNat
<1>8. Rewards[h] = block_reward(h)
  BY <1>2, <1>4
<1>9. Issued(h) = SumValues(StartCoins) + SumOf(Rewards, past)
  BY DEF Issued, past
<1>10. Issued(h + 1) = SumValues(StartCoins) + (SumOf(Rewards, past) + block_reward(h))
  BY <1>5, <1>6, <1>8 DEF Issued
<1>11. QED BY <1>7, <1>9, <1>10

LEMMA NoBlockFields ==
    ASSUME NEW s
    PROVE  /\ NoBlock(s).phase = "idle" /\ NoBlock(s).before = s
           /\ NoBlock(s).fees = 0 /\ NoBlock(s).burn = 0
BY DEF NoBlock

LEMMA InitChain == Init => ChainInv
<1> SUFFICES ASSUME Init PROVE ChainInv
  OBVIOUS
<1>1. PICK ages \in [Tx -> {None} \cup (saturating_sub(StartHeight, TTL)..(StartHeight - 1))] :
        state = Loaded(ages)
  BY DEF Init
<1> DEFINE raw == [coins |-> StartCoins,
         commitments |-> {c \in Tx : ages[c] # None}, commitment_heights |-> ages,
         expirations |-> {}, burned_wots |-> {}, height |-> StartHeight,
         coins_cache |-> "none", commitments_cache |-> "none"]
<1>2. StartHeight \in Nat /\ TTL \in Nat /\ StartCoins \in SUBSET Coin
  BY StartAssumption, EraAssumption
<1>3. saturating_sub(StartHeight, TTL) \in Nat
  BY <1>2 DEF saturating_sub
<1>4. ages \in [Tx -> Nat \cup {None}]
  BY <1>2, <1>3
<1>5. raw \in State /\ raw.coins = StartCoins /\ raw.height = StartHeight
  BY <1>2, <1>4 DEF State, CacheMode
<1>6. state = deserialize_state(raw)
  BY <1>1 DEF Loaded
<1> HIDE DEF raw
<1>7. state.coins = StartCoins /\ state.height = StartHeight /\ CacheUniform(state)
  BY <1>5, <1>6, ReloadCoins
<1>8. block.phase = "idle" /\ block.before = state /\ burnt = 0
  BY NoBlockFields DEF Init
<1>9. SumValues(StartCoins) + 0 = Issued(StartHeight)
  <2>1. StartHeight..(StartHeight - 1) = {}
    BY <1>2
  <2>2. SumOf(Rewards, StartHeight..(StartHeight - 1)) = 0
    BY <2>1, SumEmpty
  <2>3. QED BY <2>2 DEF Issued
<1>10. StartHeight <= StartHeight
  BY <1>2
<1>11. QED BY <1>7, <1>8, <1>9, <1>10 DEF ChainInv, Conserved

\* Adopting the result of one transaction that turned `paid` and `lost` into
\* fee and burn.
LEMMA ProceedChain ==
    ASSUME IndInv, ChainInv, NEW r, NEW next, Proceed(r, next), block.phase = "body",
           r.state.height = state.height, CacheUniform(r.state),
           next.phase = "body", next.before = block.before,
           r.ok => SumValues(r.state.coins) + (next.fees + next.burn)
                     = SumValues(state.coins) + (block.fees + block.burn),
           UNCHANGED burnt
    PROVE  ChainInv'
<1> DEFINE failed == [block EXCEPT !.phase = "failed"]
<1>1. failed.phase = "failed" /\ failed.before = block.before
  BY DEF IndInv, TypeOK, BlockType
<1>2. /\ state' = r.state /\ block'.before = block.before
      /\ block'.phase = "body" => r.ok /\ block' = next
  <2> HIDE DEF failed
  <2>1. state' = r.state /\ block' = IF r.ok THEN next ELSE failed
    BY DEF Proceed, failed
  <2>2. QED BY <2>1, <1>1
<1>3. QED BY <1>2 DEF ChainInv, Conserved, CacheUniform, Issued, SumValues

LEMMA NextChain == IndInv /\ ChainInv /\ [Next]_vars => ChainInv'
<1> SUFFICES ASSUME IndInv, ChainInv, [Next]_vars PROVE ChainInv'
  OBVIOUS
<1>t. /\ state \in State /\ Tracked(state) /\ block \in BlockType /\ block.before \in State
      /\ burnt \in Nat /\ MaxHeight \in Nat /\ state.height \in Nat
      /\ CacheUniform(state) /\ CacheUniform(block.before) /\ Conserved
  BY StartAssumption DEF IndInv, TypeOK, TrackInv, BlockType, State, ChainInv
<1>n. block.fees \in Nat /\ block.burn \in Nat
  BY <1>t DEF BlockType
<1>v. SumValues(state.coins) \in Nat /\ SumValues(block.before.coins) \in Nat
  <2>1. state.coins \in SUBSET Coin /\ block.before.coins \in SUBSET Coin
    BY <1>t DEF State
  <2>2. QED BY <2>1, ValuesNat
<1>1. CASE BeginBlock
  <2> DEFINE b == [NoBlock(state) EXCEPT !.phase = "body"]
  <2>1. b.phase = "body" /\ b.before = state /\ b.fees = 0 /\ b.burn = 0
    BY DEF NoBlock
  <2> HIDE DEF b
  <2>2. block' = b /\ UNCHANGED <<state, burnt>> /\ state = block.before
    BY <1>1 DEF BeginBlock, b, IndInv, TrackInv, Framed, Idle
  <2>3. SumValues(state.coins) + (0 + 0) = SumValues(state.coins)
    BY <1>v
  <2>4. QED BY <1>t, <2>1, <2>2, <2>3 DEF ChainInv, Conserved, CacheUniform, Issued, SumValues
<1>2. ASSUME NEW pow \in Pow, ApplyCommit(pow) PROVE ChainInv'
  <2> DEFINE r == apply_commit(state, pow)
             commits == block.commits \cup {pow.tx}
             pows == IF pow.fmt = "v3" THEN block.pows \cup {pow} ELSE block.pows
             next == [block EXCEPT !.commits = commits, !.pows = pows]
  <2>1. /\ r.state.coins = state.coins /\ r.state.coins_cache = state.coins_cache
        /\ r.state.height = state.height
    BY <1>t, CommitCoins
  <2>2. Proceed(r, next) /\ UNCHANGED burnt /\ block.phase = "body"
    BY <1>2 DEF ApplyCommit
  <2> HIDE DEF commits, pows, r
  <2>3. /\ next.phase = "body" /\ next.before = block.before
        /\ next.fees = block.fees /\ next.burn = block.burn
    BY <1>t, <2>2 DEF BlockType
  <2> HIDE DEF next
  <2>4. CacheUniform(r.state)
    BY <1>t, <2>1 DEF CacheUniform
  <2>5. QED BY <2>1, <2>2, <2>3, <2>4, ProceedChain
<1>3. ASSUME NEW tx \in Tx, ApplyReveal(tx) PROVE ChainInv'
  <2> DEFINE r == apply_transaction_no_sig_check(state, tx)
             reveals == block.reveals + 1
             ins == block.inputs + InputCount(tx)
             outs == block.outputs + Len(TxOut[tx]) + Len(TxBurn[tx])
             fees == block.fees + fee(tx)
             burn == block.burn + SumSeq(TxBurn[tx])
             cons == block.consolidated \cup ConsolidatedAddress(tx)
             next == [block EXCEPT !.reveals = reveals, !.inputs = ins, !.outputs = outs,
                                   !.fees = fees, !.burn = burn, !.consolidated = cons]
  <2>1. /\ r.state.height = state.height /\ CacheUniform(r.state)
        /\ r.ok => SumValues(r.state.coins) + (fee(tx) + SumSeq(TxBurn[tx]))
                     = SumValues(state.coins)
    BY <1>t, RevealCoins
  <2>2. Proceed(r, next) /\ UNCHANGED burnt /\ block.phase = "body"
    BY <1>3 DEF ApplyReveal
  <2>3. r.state \in State
    BY <1>t, RevealTracked
  <2>4. SumValues(r.state.coins) \in Nat
    <3>1. r.state.coins \in SUBSET Coin
      BY <2>3 DEF State
    <3>2. QED BY <3>1, ValuesNat
  <2>5. fee(tx) \in Nat /\ SumSeq(TxBurn[tx]) \in Nat
    <3>1. InputSum(tx) \in Nat /\ OutputSum(tx) \in Nat /\ SumSeq(TxBurn[tx]) \in Nat
      BY SumsNat
    <3>2. QED BY <3>1 DEF fee, saturating_sub
  <2>6. ASSUME r.ok
        PROVE  SumValues(r.state.coins) + (fees + burn)
                 = SumValues(state.coins) + (block.fees + block.burn)
    <3> DEFINE x == SumValues(r.state.coins)
               y == SumValues(state.coins)
               f == fee(tx)
               g == SumSeq(TxBurn[tx])
    <3>1. x \in Nat /\ f \in Nat /\ g \in Nat /\ x + (f + g) = y
      BY <2>1, <2>4, <2>5, <2>6
    <3> HIDE DEF x, y, f, g, r
    <3>2. x + ((block.fees + f) + (block.burn + g)) = y + (block.fees + block.burn)
      BY <3>1, <1>n
    <3>3. QED BY <3>2 DEF x, y, f, g
  <2> HIDE DEF reveals, ins, outs, fees, burn, cons, r
  <2>7. /\ next.phase = "body" /\ next.before = block.before
        /\ next.fees = fees /\ next.burn = burn
    BY <1>t, <2>2 DEF BlockType
  <2> HIDE DEF next
  <2>8. QED BY <2>1, <2>2, <2>6, <2>7, ProceedChain
<1>4. ASSUME NEW coinbase \in Coinbases(state.height), FinishBlock(coinbase) PROVE ChainInv'
  <2>1. state.height < MaxHeight /\ block.phase = "body" /\ state.height = block.before.height
    BY <1>4 DEF FinishBlock, IndInv, TrackInv, Framed, Idle
  <2>2. coinbase \in SUBSET Coin
    BY <2>1, <1>t, StartAssumption
  <2>3. CASE CoinbaseOK(state, coinbase, block.fees) /\ coinbase \cap state.coins = {}
    <3> DEFINE n == EndBlock(AddCoinbase(state, coinbase))
    <3>1. state' = n /\ block' = NoBlock(n) /\ burnt' = burnt + block.burn
      BY <1>4, <2>3 DEF FinishBlock
    <3>2. /\ n.height = state.height + 1 /\ CacheUniform(n)
          /\ SumValues(n.coins) = SumValues(state.coins) + SumValues(coinbase)
      BY <2>2, <2>3, <1>t, EndCoins
    <3>3. SumValues(coinbase) = block_reward(state.height) + block.fees
      BY <2>3 DEF CoinbaseOK
    <3>4. /\ StartHeight <= state.height
          /\ SumValues(block.before.coins) + burnt = Issued(state.height)
          /\ SumValues(state.coins) + (block.fees + block.burn) = SumValues(block.before.coins)
      BY <1>t, <2>1 DEF Conserved
    <3>5. /\ Issued(state.height) \in Int /\ block_reward(state.height) \in Nat
          /\ Issued(state.height + 1) = Issued(state.height) + block_reward(state.height)
      BY <1>t, <2>1, <3>4, IssuedStep
    <3> HIDE DEF n
    <3>6. SumValues(n.coins) + (burnt + block.burn) = Issued(state.height + 1)
      <4> DEFINE x == SumValues(state.coins)
                 y == SumValues(block.before.coins)
                 w == block_reward(state.height)
      <4>1. SumValues(n.coins) = x + (w + block.fees)
        BY <3>2, <3>3
      <4>2. y + burnt = Issued(state.height) /\ x + (block.fees + block.burn) = y
        BY <3>4
      <4>3. x \in Nat /\ y \in Nat /\ w \in Nat /\ Issued(state.height) \in Int
        BY <1>v, <3>5
      <4>4. Issued(state.height + 1) = Issued(state.height) + w
        BY <3>5
      <4> HIDE DEF x, y, w
      <4>5. (x + (w + block.fees)) + (burnt + block.burn) = Issued(state.height) + w
        BY <4>2, <4>3, <1>n, <1>t
      <4>6. QED BY <4>1, <4>4, <4>5
    <3>7. block'.phase = "idle" /\ block'.before = n
      BY <3>1, NoBlockFields
    <3>8. StartHeight <= n.height
      BY <3>2, <3>4, <1>t, StartAssumption
    <3>9. CacheUniform(state') /\ CacheUniform(block'.before)
      BY <3>1, <3>2, <3>7
    <3>10. SumValues(block'.before.coins) + burnt' = Issued(block'.before.height)
      BY <3>1, <3>2, <3>6, <3>7
    <3>11. QED BY <3>7, <3>8, <3>9, <3>10
           DEF ChainInv, Conserved, CacheUniform, Issued, SumValues
  <2>4. CASE ~(CoinbaseOK(state, coinbase, block.fees) /\ coinbase \cap state.coins = {})
    <3> DEFINE b == [block EXCEPT !.phase = "failed"]
    <3>1. block' = b /\ UNCHANGED <<state, burnt>>
      BY <1>4, <2>4 DEF FinishBlock
    <3>2. b.phase = "failed" /\ b.before = block.before
      BY <1>t DEF BlockType
    <3> HIDE DEF b
    <3>3. QED BY <3>1, <3>2, <1>t DEF ChainInv, Conserved, CacheUniform, Issued, SumValues
  <2>5. QED BY <2>3, <2>4
<1>5. CASE RejectBlock
  <2>1. /\ state' = block.before /\ UNCHANGED burnt
        /\ block'.before = block.before /\ block'.phase = "idle"
    BY <1>5, NoBlockFields DEF RejectBlock
  <2>2. QED BY <2>1, <1>t DEF ChainInv, Conserved, CacheUniform, Issued, SumValues
<1>6. CASE Restart
  <2>1. state' = deserialize_state(state) /\ block' = NoBlock(state') /\ UNCHANGED burnt
    BY <1>6 DEF Restart
  <2>2. state'.coins = state.coins /\ state'.height = state.height /\ CacheUniform(state')
    BY <2>1, <1>t, ReloadCoins
  <2>3. block'.phase = "idle" /\ block'.before = state' /\ state = block.before
    BY <2>1, <1>6, NoBlockFields DEF Restart, IndInv, TrackInv, Framed, Idle
  <2>4. CacheUniform(block.before)' /\ CacheUniform(state)'
    BY <2>2, <2>3 DEF CacheUniform
  <2>5. Conserved'
    <3>1. /\ block'.before.height = block.before.height
          /\ block'.before.coins = block.before.coins
      BY <2>2, <2>3
    <3>2. QED BY <3>1, <2>1, <2>3, <1>t DEF Conserved, Issued, SumValues
  <2>6. QED BY <2>4, <2>5 DEF ChainInv
<1>7. CASE UNCHANGED vars
  BY <1>7 DEF vars, ChainInv, Conserved, CacheUniform, Issued, SumValues
<1>8. QED BY <1>1, <1>2, <1>3, <1>4, <1>5, <1>6, <1>7 DEF Next

LEMMA ChainAlways == Spec => [](IndInv /\ ChainInv)
BY InitInv, NextInv, InitChain, NextChain, PTL DEF Spec

\* Nothing but the block reward adds to the supply (Ledger's Supply): for
\* all coins, transactions, eras and blocks, accepted or rejected.
THEOREM SupplyCorrect == Spec => []Supply
<1>1. IndInv /\ ChainInv => Supply
  <2> SUFFICES ASSUME IndInv, ChainInv, Idle
               PROVE  SumValues(state.coins) + burnt
                        = SumValues(StartCoins) + SumOf(Rewards, StartHeight..(state.height - 1))
    BY DEF Supply
  <2>1. state = block.before
    BY DEF IndInv, TrackInv, Framed
  <2>2. SumValues(block.before.coins) + burnt = Issued(block.before.height)
    BY DEF ChainInv, Conserved
  <2>3. QED BY <2>1, <2>2 DEF Issued
<1>2. QED BY <1>1, ChainAlways, PTL

\* The coin tree's cache is in one hashing mode, that of the height, in every
\* State between blocks: across the V2 boundary, rejected blocks and restarts.
THEOREM CoinsCacheCorrect == Spec => []CoinsCacheConsistent
<1>1. ChainInv => CoinsCacheConsistent
  BY DEF ChainInv, CacheUniform, CoinsCacheConsistent
<1>2. QED BY <1>1, ChainAlways, PTL
-----------------------------------------------------------------------------
(***************************************************************************)
(* What the replay fix achieves: a node that loaded its State at or after  *)
(* ReplayFix keeps an exact collector index and single-mode caches (so     *)
(* restarts are invisible), and an anchored proof of work cannot be        *)
(* included twice.                                                         *)
(***************************************************************************)
\* What deserialize_state would build, the running State already has.
Exact(s) ==
    /\ s.expirations = IndexOf(s)
    /\ s.coins_cache = Rebuilt("v2", s.coins)
    /\ s.commitments_cache = Rebuilt("v2", s.commitments)

\* An included proof is too old to be accepted again, or the commitment it
\* paid for is there and was made after the proof's anchor: the collector
\* then comes too late to let the proof back in.
Paid(s, pows) ==
    \A p \in pows :
        \/ p.tx \in s.commitments /\ p.t < s.commitment_heights[p.tx]
        \/ p.t + PowWindow < s.height

Post(s, pows) == s.height >= ReplayFix /\ Exact(s) /\ Paid(s, pows)

PostInv ==
    StartHeight >= ReplayFix =>
        Post(state, included \cup block.pows) /\ Post(block.before, included)
-----------------------------------------------------------------------------
LEMMA RehashV2 ==
    ASSUME NEW X, NEW Y
    PROVE  Rehash(Rebuilt("v2", X), "v2", Y) = Rebuilt("v2", Y)
BY DEF Rehash, Rebuilt

LEMMA ModeV2 ==
    ASSUME NEW h \in Nat, h >= ReplayFix PROVE ModeAt(h) = "v2"
BY EraAssumption DEF ModeAt, is_v2_at

\* Before a commit is accepted its anchor lies strictly below the height the
\* commitment will be dated with.
LEMMA CommitPost ==
    ASSUME NEW s \in State, NEW pow \in Pow, NEW P \in SUBSET Pow,
           Tracked(s), Post(s, P)
    PROVE  LET r == apply_commit(s, pow)
           IN  Post(r.state, P) /\ (r.ok => Post(r.state, P \cup {pow}))
<1> DEFINE r == apply_commit(s, pow)
<1>p. pow.tx \in Tx /\ pow.t \in Nat
  <2>1. MaxHeight \in Nat
    BY StartAssumption
  <2>2. QED BY <2>1 DEF Pow
<1>n. s.height \in Nat /\ ReplayFix \in Nat
  BY EraAssumption DEF State
<1>1. CASE r = Err(s)
  BY <1>1 DEF Err
<1>2. CASE r # Err(s)
  <2> DEFINE now == s.commitments \cup {pow.tx}
             heights == [s.commitment_heights EXCEPT ![pow.tx] = s.height]
             index == s.expirations \cup {<<s.height, pow.tx>>}
             cache == Rehash(s.commitments_cache, ModeAt(s.height), now)
             n == [s EXCEPT !.commitments = now, !.commitment_heights = heights,
                            !.expirations = index, !.commitments_cache = cache]
  <2>0. pow.tx \notin s.commitments /\ evaluate_commit_pow(pow, s.height)
    BY <1>2 DEF apply_commit
  <2>1. r = Ok(n)
    BY <1>2 DEF apply_commit
  <2>t. s.commitment_heights \in [Tx -> Nat \cup {None}] /\ s.commitments \in SUBSET Tx
    BY DEF State
  <2>c. cache = Rebuilt("v2", now)
    BY ModeV2, RehashV2, <1>n DEF Post, Exact
  <2>2. pow.t < s.height
    BY <2>0, <1>n DEF evaluate_commit_pow, Post
  <2>3. /\ heights[pow.tx] = s.height
        /\ \A c \in Tx \ {pow.tx} : heights[c] = s.commitment_heights[c]
    BY <1>p, <2>t
  <2>4. heights \in [Tx -> Nat \cup {None}]
    BY <1>p, <1>n, <2>t
  <2>f. /\ n.height = s.height /\ n.commitments = now /\ n.coins = s.coins
        /\ n.expirations = index /\ n.commitment_heights = heights
        /\ n.coins_cache = s.coins_cache /\ n.commitments_cache = cache
    <3> HIDE DEF now, heights, index, cache
    <3> QED BY DEF State
  <2> HIDE DEF n, heights
  <2>5. index = IndexOf(n)
    <3>0. \A c \in Tx \ {pow.tx} : c \in Dated(n) <=> c \in Dated(s)
      BY <2>f, <2>3 DEF Dated
    <3>1. pow.tx \in Dated(n) /\ pow.tx \notin Dated(s)
      BY <2>f, <2>3, <2>0, <1>p, <1>n DEF Dated, None, Tracked
    <3>2. Dated(n) \subseteq Tx /\ Dated(s) \subseteq Tx
      BY DEF Dated
    <3>3. ASSUME NEW e PROVE e \in index => e \in IndexOf(n)
      BY <3>0, <3>1, <3>2, <2>f, <2>3 DEF IndexOf, Post, Exact
    <3>4. ASSUME NEW e PROVE e \in IndexOf(n) => e \in index
      BY <3>0, <3>1, <3>2, <2>f, <2>3 DEF IndexOf, Post, Exact
    <3>5. QED BY <3>3, <3>4
  <2>6. Exact(n)
    BY <2>5, <2>f, <2>c DEF Post, Exact
  <2>7. Paid(n, P \cup {pow})
    <3> SUFFICES ASSUME NEW p \in P \cup {pow}
                 PROVE  \/ p.tx \in n.commitments /\ p.t < n.commitment_heights[p.tx]
                        \/ p.t + PowWindow < n.height
      BY DEF Paid
    <3>1. CASE p = pow
      BY <3>1, <2>f, <2>2, <2>3
    <3>2. CASE p \in P
      <4>1. \/ p.tx \in s.commitments /\ p.t < s.commitment_heights[p.tx]
            \/ p.t + PowWindow < s.height
        BY <3>2 DEF Post, Paid
      <4>2. QED BY <4>1, <2>f, <2>3, <2>0, <2>t
    <3>3. QED BY <3>1, <3>2
  <2>8. Paid(n, P)
    BY <2>7 DEF Paid
  <2>9. QED BY <2>1, <2>6, <2>7, <2>8, <2>f DEF Ok, Post
<1>3. QED BY <1>1, <1>2

\* After the fix a reveal leaves the commitments alone.
LEMMA RevealPost ==
    ASSUME NEW s \in State, NEW tx \in Tx, NEW P \in SUBSET Pow, Tracked(s), Post(s, P)
    PROVE  Post(apply_transaction_no_sig_check(s, tx).state, P)
<1>n. s.height \in Nat /\ ReplayFix \in Nat
  BY EraAssumption DEF State
<1>0. Consume(s, tx) = s
  BY <1>n DEF Consume, Post
<1>1. Post(SpendAndCreate(s, tx).state, P)
  <2> DEFINE left == s.coins \ Range(TxIn[tx])
             Clash(i) == \/ TxOut[tx][i] \in left
                         \/ \E j \in 1..(i - 1) : TxOut[tx][j] = TxOut[tx][i]
             clashes == {i \in DOMAIN TxOut[tx] : Clash(i)}
             new == {TxOut[tx][i] : i \in {k \in DOMAIN TxOut[tx] :
                                            \A b \in clashes : k < b}}
             all == left \cup new
             cache == Rehash(Rehash(s.coins_cache, ModeAt(s.height), left),
                             ModeAt(s.height), all)
             after == [s EXCEPT !.coins = all, !.coins_cache = cache]
             r == SpendAndCreate(s, tx)
  <2>1. r = IF clashes = {} THEN Ok(after) ELSE Err(after)
    BY DEF SpendAndCreate
  <2>2. cache = Rebuilt("v2", all)
    <3> HIDE DEF left, new, all
    <3> QED BY ModeV2, RehashV2, <1>n DEF Post, Exact
  <2> HIDE DEF left, new, clashes, cache, r, all
  <2>3. r.state = after
    BY <2>1 DEF Ok, Err
  <2>4. /\ after.height = s.height /\ after.coins = all /\ after.coins_cache = cache
        /\ after.commitments = s.commitments
        /\ after.commitment_heights = s.commitment_heights
        /\ after.expirations = s.expirations
        /\ after.commitments_cache = s.commitments_cache
    BY DEF State
  <2> HIDE DEF after
  <2>5. QED BY <2>2, <2>3, <2>4 DEF Post, Exact, Paid, IndexOf, Dated, r
<1>2. CASE ~WellFormed(tx) \/ ~CommitmentLive(s, tx)
  BY <1>2 DEF apply_transaction_no_sig_check, Err
<1>3. CASE WellFormed(tx) /\ CommitmentLive(s, tx) /\ ~InputsExist(s, tx)
  BY <1>0, <1>3 DEF apply_transaction_no_sig_check, Err
<1>4. CASE WellFormed(tx) /\ CommitmentLive(s, tx) /\ InputsExist(s, tx)
  BY <1>0, <1>1, <1>4 DEF apply_transaction_no_sig_check
<1>5. QED BY <1>2, <1>3, <1>4

LEMMA CoinbasePost ==
    ASSUME NEW s \in State, NEW coinbase \in SUBSET Coin, NEW P \in SUBSET Pow, Post(s, P)
    PROVE  Post(AddCoinbase(s, coinbase), P)
<1> DEFINE all == s.coins \cup coinbase
           cache == Rehash(s.coins_cache, ModeAt(s.height), all)
           a == AddCoinbase(s, coinbase)
<1>n. s.height \in Nat
  BY DEF State
<1>1. a = [s EXCEPT !.coins = all, !.coins_cache = cache]
  BY DEF AddCoinbase
<1>2. cache = Rebuilt("v2", all)
  <2> HIDE DEF all
  <2> QED BY ModeV2, RehashV2, <1>n DEF Post, Exact
<1> HIDE DEF all, cache
<1>3. /\ a.height = s.height /\ a.commitments = s.commitments /\ a.coins = all
      /\ a.commitment_heights = s.commitment_heights /\ a.expirations = s.expirations
      /\ a.coins_cache = cache /\ a.commitments_cache = s.commitments_cache
  BY <1>1 DEF State
<1> HIDE DEF a
<1>4. Post(a, P)
  BY <1>2, <1>3 DEF Post, Exact, Paid, IndexOf, Dated
<1>5. QED BY <1>4 DEF a

\* The end of a block: the index names exactly the commitments that are one
\* block too old.  They were made after the anchors of the proofs that paid
\* for them, so by now (PowWindow <= TTL + 1) those proofs are stale.
LEMMA EndBlockPost ==
    ASSUME NEW s \in State, NEW P \in SUBSET Pow, Tracked(s), Post(s, P)
    PROVE  Post(EndBlock(s), P)
<1> DEFINE a == AdvanceHeight(s)
           m == ModeAt(s.height)
           old == ExpiredHeight(a)
           gone == ExpiredByIndex(a)
           d == DropCommitments(a, gone, m)
           rest == {x \in a.expirations : x[1] # old}
           n == [d EXCEPT !.expirations = rest]
<1>n. /\ s.height \in Nat /\ ReplayFix \in Nat /\ V2Act \in Nat \ {0} /\ TTL \in Nat
      /\ PowWindow \in Nat /\ PowWindow <= TTL + 1
      /\ V2Act + TTL <= ReplayFix /\ s.height >= ReplayFix
      /\ s.commitment_heights \in [Tx -> Nat \cup {None}]
      /\ s.commitments \in SUBSET Tx /\ s.commitments = Dated(s)
  BY EraAssumption, WindowAssumption DEF State, Post, Tracked
<1>m. m = "v2"
  BY <1>n, ModeV2
<1>a. /\ a \in State /\ a.height = s.height + 1 /\ a.commitments = s.commitments
      /\ a.commitment_heights = s.commitment_heights /\ a.expirations = s.expirations
      /\ a.coins = s.coins
  BY AdvanceFields
<1>b. a.coins_cache = s.coins_cache /\ a.commitments_cache = s.commitments_cache
  <2>1. s.height + 1 # V2Act
    BY <1>n
  <2>2. QED BY <2>1 DEF AdvanceHeight, State
<1>e. EndBlock(s) = n
  <2>1. EndBlock(s) = CollectExpired(a, m)
    BY DEF EndBlock
  <2>2. ~(a.height < V2Act + TTL)
    BY <1>a, <1>n
  <2>3. QED BY <2>1, <2>2 DEF CollectExpired
<1>o. old = s.height - TTL /\ old \in Nat
  BY <1>a, <1>n DEF ExpiredHeight, saturating_sub
<1>g. gone \in SUBSET Tx /\ \A c \in Tx : c \in gone <=> <<old, c>> \in a.expirations
  BY DEF ExpiredByIndex
<1> HIDE DEF a, m, old, gone
<1>h. \A c \in Tx : c \in gone <=> c \in s.commitments /\ s.commitment_heights[c] = old
  BY <1>g, <1>a, <1>n DEF Post, Exact, IndexOf
<1>d. /\ d \in State /\ d.height = a.height /\ d.commitments = a.commitments \ gone
      /\ d.coins = a.coins
      /\ \A c \in Tx : d.commitment_heights[c]
            = IF c \in gone THEN None ELSE a.commitment_heights[c]
  BY <1>g, <1>a, <1>m, DropType
<1>c. d.coins_cache = a.coins_cache /\ d.commitments_cache = Rebuilt("v2", d.commitments)
  <2>0. a.commitments_cache = Rebuilt("v2", a.commitments)
    BY <1>a, <1>b DEF Post, Exact
  <2>1. d.coins_cache = a.coins_cache
    BY <1>a DEF DropCommitments, State
  <2>2. d.commitments_cache = IF gone \cap a.commitments = {} THEN a.commitments_cache
                              ELSE Rehash(a.commitments_cache, m, a.commitments \ gone)
    BY <1>a DEF DropCommitments, State
  <2>3. CASE gone \cap a.commitments = {}
    <3>1. d.commitments = a.commitments
      BY <2>3, <1>d
    <3>2. QED BY <3>1, <2>0, <2>1, <2>2, <2>3
  <2>4. CASE gone \cap a.commitments # {}
    BY <2>4, <2>0, <2>1, <2>2, <1>d, <1>m, RehashV2
  <2>5. QED BY <2>3, <2>4
<1> HIDE DEF d
<1>r. rest \in SUBSET (Nat \X Tx)
  BY <1>a DEF State
<1>f. /\ n.height = d.height /\ n.expirations = rest /\ n.coins = d.coins
      /\ n.commitments = d.commitments /\ n.commitment_heights = d.commitment_heights
      /\ n.coins_cache = d.coins_cache /\ n.commitments_cache = d.commitments_cache
  <2> HIDE DEF rest
  <2> QED BY <1>d DEF State
<1> HIDE DEF n
<1>1. rest = IndexOf(n)
  <2>0. Dated(n) \subseteq Tx /\ Dated(s) \subseteq Tx
    BY DEF Dated
  <2>1. \A c \in Tx : c \in Dated(n) <=> c \in Dated(s) /\ c \notin gone
    BY <1>f, <1>d, <1>a DEF Dated
  <2>2. \A c \in Dated(n) : n.commitment_heights[c] = s.commitment_heights[c]
    BY <2>0, <2>1, <1>f, <1>d, <1>a
  <2>3. ASSUME NEW e \in rest PROVE e \in IndexOf(n)
    <3>1. PICK c \in Dated(s) : e = <<s.commitment_heights[c], c>>
      BY <1>a DEF Post, Exact, IndexOf
    <3>2. s.commitment_heights[c] # old
      BY <3>1
    <3>3. c \in Dated(n)
      BY <3>2, <2>0, <2>1, <1>h
    <3>4. QED BY <3>1, <3>3, <2>2 DEF IndexOf
  <2>4. ASSUME NEW e \in IndexOf(n) PROVE e \in rest
    <3>1. PICK c \in Dated(n) : e = <<n.commitment_heights[c], c>>
      BY DEF IndexOf
    <3>2. c \in Dated(s) /\ c \notin gone /\ c \in Tx /\ e = <<s.commitment_heights[c], c>>
      BY <3>1, <2>0, <2>1, <2>2
    <3>3. s.commitment_heights[c] # old
      BY <3>2, <1>h, <1>n
    <3>4. e \in s.expirations
      BY <3>2 DEF Post, Exact, IndexOf
    <3>5. QED BY <3>2, <3>3, <3>4, <1>a
  <2>5. QED BY <2>3, <2>4
<1>2. Exact(n)
  BY <1>1, <1>f, <1>c, <1>d, <1>a, <1>b DEF Exact, Post
<1>3. Paid(n, P)
  <2> SUFFICES ASSUME NEW p \in P
               PROVE  \/ p.tx \in n.commitments /\ p.t < n.commitment_heights[p.tx]
                      \/ p.t + PowWindow < n.height
    BY DEF Paid
  <2>0. p.tx \in Tx /\ p.t \in Nat
    <3>1. MaxHeight \in Nat
      BY StartAssumption
    <3>2. QED BY <3>1 DEF Pow
  <2>h. n.height = s.height + 1
    BY <1>f, <1>d, <1>a
  <2>1. CASE p.t + PowWindow < s.height
    BY <2>1, <2>0, <2>h, <1>n
  <2>2. CASE p.tx \in s.commitments /\ p.t < s.commitment_heights[p.tx] /\ p.tx \in gone
    <3>1. p.t < s.height - TTL
      BY <2>2, <2>0, <1>h, <1>o
    <3>2. QED BY <3>1, <2>0, <2>h, <1>n
  <2>3. CASE p.tx \in s.commitments /\ p.t < s.commitment_heights[p.tx] /\ p.tx \notin gone
    BY <2>3, <2>0, <1>f, <1>d, <1>a
  <2>4. QED BY <2>1, <2>2, <2>3 DEF Post, Paid
<1>4. n.height >= ReplayFix
  BY <1>f, <1>d, <1>a, <1>n
<1>5. QED BY <1>2, <1>3, <1>4, <1>e DEF Post

\* Reloading an exact State gives the same State.
LEMMA ReloadSame ==
    ASSUME NEW s \in State, Exact(s), s.height >= ReplayFix
    PROVE  deserialize_state(s) = s
<1>1. ModeAt(s.height) = "v2"
  BY ModeV2 DEF State
<1>2. /\ IndexOf(s) = s.expirations
      /\ Rebuilt(ModeAt(s.height), s.coins) = s.coins_cache
      /\ Rebuilt(ModeAt(s.height), s.commitments) = s.commitments_cache
  BY <1>1 DEF Exact
<1>3. deserialize_state(s) = [s EXCEPT !.expirations = s.expirations,
                                       !.coins_cache = s.coins_cache,
                                       !.commitments_cache = s.commitments_cache]
  BY <1>2 DEF deserialize_state
<1>4. QED BY <1>3 DEF State
-----------------------------------------------------------------------------
LEMMA InitPost == Init /\ IndInv => PostInv
<1> SUFFICES ASSUME Init, IndInv, StartHeight >= ReplayFix
             PROVE  Post(state, included \cup block.pows) /\ Post(block.before, included)
  BY DEF PostInv
<1>1. PICK ages : state = Loaded(ages)
  BY DEF Init
<1> DEFINE raw == [coins |-> StartCoins,
         commitments |-> {c \in Tx : ages[c] # None}, commitment_heights |-> ages,
         expirations |-> {}, burned_wots |-> {}, height |-> StartHeight,
         coins_cache |-> "none", commitments_cache |-> "none"]
<1>2. /\ state = [raw EXCEPT !.expirations = IndexOf(raw),
                             !.coins_cache = Rebuilt(ModeAt(raw.height), raw.coins),
                             !.commitments_cache = Rebuilt(ModeAt(raw.height), raw.commitments)]
      /\ raw.height = StartHeight
  BY <1>1 DEF Loaded, deserialize_state
<1>3. /\ state.height = StartHeight /\ state.coins = raw.coins
      /\ state.commitments = raw.commitments
      /\ state.commitment_heights = raw.commitment_heights
      /\ state.expirations = IndexOf(raw)
      /\ state.coins_cache = Rebuilt(ModeAt(StartHeight), raw.coins)
      /\ state.commitments_cache = Rebuilt(ModeAt(StartHeight), raw.commitments)
  BY <1>2
<1> HIDE DEF raw
<1>4. ModeAt(StartHeight) = "v2"
  BY ModeV2, StartAssumption
<1>5. IndexOf(raw) = IndexOf(state)
  BY <1>3 DEF IndexOf, Dated
<1>6. Exact(state)
  BY <1>3, <1>4, <1>5 DEF Exact
<1>7. block.before = state /\ block.pows = {} /\ included = {}
  BY DEF Init, NoBlock
<1>8. QED BY <1>3, <1>6, <1>7 DEF Post, Paid

LEMMA NextPost == IndInv /\ PostInv /\ [Next]_vars => PostInv'
<1> SUFFICES ASSUME IndInv, PostInv, [Next]_vars, StartHeight >= ReplayFix
             PROVE  /\ Post(state', included' \cup block'.pows)
                    /\ Post(block'.before, included')
  BY DEF PostInv, Post, Exact, Paid, IndexOf, Dated
<1> DEFINE P == included \cup block.pows
<1>t. /\ state \in State /\ Tracked(state) /\ block \in BlockType
      /\ block.before \in State /\ Tracked(block.before)
      /\ included \in SUBSET Pow /\ block.pows \in SUBSET Pow
      /\ Idle => state = block.before
  BY DEF IndInv, TypeOK, TrackInv, Framed, BlockType
<1>p. Post(state, P) /\ Post(block.before, included) /\ P \in SUBSET Pow
  BY <1>t DEF PostInv
<1>0. Post(state, included)
  BY <1>p DEF Post, Paid
<1>1. CASE BeginBlock
  <2>1. block'.before = state /\ block'.pows = {} /\ state' = state /\ included' = included
    BY <1>1 DEF BeginBlock, NoBlock
  <2>2. QED BY <2>1, <1>0
<1>2. ASSUME NEW pow \in Pow, ApplyCommit(pow)
      PROVE  Post(state', included' \cup block'.pows) /\ Post(block'.before, included')
  <2> DEFINE r == apply_commit(state, pow)
  <2>1. Post(r.state, P) /\ (r.ok => Post(r.state, P \cup {pow}))
    BY <1>t, <1>p, CommitPost
  <2>2. /\ state' = r.state /\ included' = included
        /\ block'.before = block.before
        /\ block'.pows \subseteq block.pows \cup {pow}
        /\ ~r.ok => block'.pows = block.pows
    BY <1>2, <1>t DEF ApplyCommit, Proceed, BlockType
  <2> HIDE DEF r
  <2>3. Post(state', included' \cup block'.pows)
    BY <2>1, <2>2 DEF Post, Paid
  <2>4. QED BY <2>2, <2>3, <1>p
<1>3. ASSUME NEW tx \in Tx, ApplyReveal(tx)
      PROVE  Post(state', included' \cup block'.pows) /\ Post(block'.before, included')
  <2> DEFINE r == apply_transaction_no_sig_check(state, tx)
  <2>1. Post(r.state, P)
    BY <1>t, <1>p, RevealPost
  <2>2. /\ state' = r.state /\ included' = included
        /\ block'.before = block.before /\ block'.pows = block.pows
    BY <1>3, <1>t DEF ApplyReveal, Proceed, BlockType
  <2> HIDE DEF r
  <2>3. QED BY <2>1, <2>2, <1>p
<1>4. ASSUME NEW coinbase \in Coinbases(state.height), FinishBlock(coinbase)
      PROVE  Post(state', included' \cup block'.pows) /\ Post(block'.before, included')
  <2>1. CASE CoinbaseOK(state, coinbase, block.fees) /\ coinbase \cap state.coins = {}
    <3>1. /\ state' = EndBlock(AddCoinbase(state, coinbase)) /\ block' = NoBlock(state')
          /\ included' = P
      BY <1>4, <2>1 DEF FinishBlock
    <3>2. coinbase \in SUBSET Coin
      <4>1. state.height \in 0..MaxHeight
        BY <1>t, StartAssumption DEF IndInv, TrackInv, Framed, State
      <4>2. QED BY <4>1, StartAssumption
    <3>3. AddCoinbase(state, coinbase) \in State /\ Tracked(AddCoinbase(state, coinbase))
      BY <3>2, <1>t, CoinbaseTracked
    <3>4. Post(AddCoinbase(state, coinbase), P)
      BY <3>2, <1>t, <1>p, CoinbasePost
    <3>5. Post(state', P)
      BY <3>1, <3>3, <3>4, <1>p, EndBlockPost
    <3>6. block'.pows = {} /\ block'.before = state'
      BY <3>1 DEF NoBlock
    <3>7. QED BY <3>1, <3>5, <3>6
  <2>2. CASE ~(CoinbaseOK(state, coinbase, block.fees) /\ coinbase \cap state.coins = {})
    <3>1. /\ state' = state /\ included' = included
          /\ block'.pows = block.pows /\ block'.before = block.before
      BY <1>4, <2>2, <1>t DEF FinishBlock, BlockType
    <3>2. QED BY <3>1, <1>p
  <2>3. QED BY <2>1, <2>2
<1>5. CASE RejectBlock
  <2>1. /\ state' = block.before /\ included' = included
        /\ block'.pows = {} /\ block'.before = block.before
    BY <1>5 DEF RejectBlock, NoBlock
  <2>2. QED BY <2>1, <1>p
<1>6. CASE Restart
  <2>1. /\ state' = deserialize_state(state) /\ block' = NoBlock(state')
        /\ included' = included
    BY <1>6 DEF Restart
  <2>2. state' = state
    BY <2>1, <1>t, <1>0, ReloadSame DEF Post
  <2>3. block'.pows = {} /\ block'.before = state
    BY <2>1, <2>2 DEF NoBlock
  <2>4. QED BY <2>1, <2>2, <2>3, <1>0
<1>7. CASE UNCHANGED vars
  BY <1>7, <1>p DEF vars
<1>8. QED BY <1>1, <1>2, <1>3, <1>4, <1>5, <1>6, <1>7 DEF Next

\* Every reachable state satisfies both inductive invariants.
LEMMA Reachable == Spec => [](IndInv /\ PostInv)
<1>1. Init => IndInv /\ PostInv
  BY InitInv, InitPost
<1>2. IndInv /\ PostInv /\ [Next]_vars => (IndInv /\ PostInv)'
  BY NextInv, NextPost
<1>3. QED BY <1>1, <1>2, PTL DEF Spec

\* A node that loaded its State at or after the replay fix can be restarted
\* between any two blocks without changing its State, the collector's index
\* and the hash caches included.
THEOREM RestartTransparent == Spec => []RestartTransparentAfterFix
<1>1. IndInv /\ PostInv => RestartTransparentAfterFix
  BY ReloadSame DEF PostInv, Post, IndInv, TypeOK, RestartTransparentAfterFix
<1>2. QED BY <1>1, Reachable, PTL

\* An anchored proof of work that is on chain is either too old to be
\* accepted or its commitment still blocks a second inclusion.
THEOREM ReplayImpossible == Spec => []PowIsSingleUse
<1>1. IndInv /\ PostInv => PowIsSingleUse
  <2> SUFFICES ASSUME IndInv, PostInv, StartHeight >= ReplayFix, NEW pow \in included,
                      evaluate_commit_pow(pow, state.height)
               PROVE  pow.tx \in state.commitments
    BY DEF PowIsSingleUse
  <2>1. /\ state.height \in Nat /\ ReplayFix \in Nat /\ PowWindow \in Nat
        /\ state.height >= ReplayFix
        /\ \/ pow.tx \in state.commitments
           \/ pow.t + PowWindow < state.height
    BY EraAssumption DEF IndInv, TypeOK, State, PostInv, Post, Paid
  <2>2. pow.t \in Nat
    <3>1. MaxHeight \in Nat /\ pow \in Pow
      BY StartAssumption DEF IndInv, TypeOK
    <3>2. QED BY <3>1 DEF Pow
  <2>3. saturating_sub(state.height, pow.t) <= PowWindow
    BY <2>1 DEF evaluate_commit_pow
  <2>4. ~(pow.t + PowWindow < state.height)
    BY <2>1, <2>2, <2>3 DEF saturating_sub
  <2>5. QED BY <2>1, <2>4
<1>2. QED BY <1>1, Reachable, PTL
=============================================================================
