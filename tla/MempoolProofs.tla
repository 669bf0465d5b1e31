---------------------------- MODULE MempoolProofs ----------------------------
(***************************************************************************)
(* Mempool's invariants, proved for every value of the constants: the      *)
(* pool's indexes and byte counter stay exact, and every pending reveal    *)
(* can still be mined.                                                     *)
(***************************************************************************)
EXTENDS Mempool, ChainStateProofs, SequenceTheorems

\* A pool on its own: what every one of its operations preserves.
Sound(p) ==
    /\ p \in MempoolType /\ IsFiniteSet(p.commits)
    /\ IndexesAgree(p) /\ BytesExact(p)

Minable(p, s) == \A tx \in Pending(p) : InputsExist(s, tx) /\ CommitmentLive(s, tx)
-----------------------------------------------------------------------------
LEMMA PendingFinite ==
    ASSUME NEW p
    PROVE  Pending(p) \in SUBSET Tx /\ IsFiniteSet(Pending(p))
<1>1. Pending(p) \in SUBSET Tx
  BY DEF Pending
<1>2. QED BY <1>1, PoolAssumption, FS_Subset

LEMMA InputsType == ASSUME NEW tx \in Tx PROVE Inputs(tx) \in SUBSET Coin
<1>1. TxIn[tx] \in Seq(Coin)
  BY TxAssumption
<1>2. QED BY <1>1 DEF Inputs, Range

\* Taking reveals out: the four fields lose exactly the ones that were there.
LEMMA RemoveSound ==
    ASSUME NEW p, Sound(p), NEW txs
    PROVE  LET q == remove_reveals(p, txs)
           IN  /\ Sound(q) /\ Pending(q) = Pending(p) \ txs
               /\ q.commits = p.commits /\ q.commits_by_pow = p.commits_by_pow
               /\ \A tx \in Pending(q) : q.reveals[tx] = p.reveals[tx]
               /\ q.current_reveal_bytes = SizeOf(p, Pending(p) \ txs)
               /\ q.current_reveal_bytes
                    = p.current_reveal_bytes - SizeOf(p, txs \cap Pending(p))
<1> DEFINE gone == txs \cap Pending(p)
           reveals == [tx \in Tx |-> IF tx \in gone THEN 0 ELSE p.reveals[tx]]
           fees == p.reveals_by_fee \ {<<Rate(p, tx), tx>> : tx \in gone}
           inputs == [c \in Coin |->
                        IF \E tx \in gone : c \in Inputs(tx) THEN NoTx ELSE p.txs_by_input[c]]
           bytes == saturating_sub(p.current_reveal_bytes, SizeOf(p, gone))
           q == [p EXCEPT !.reveals = reveals, !.reveals_by_fee = fees,
                          !.txs_by_input = inputs, !.current_reveal_bytes = bytes]
<1>q. remove_reveals(p, txs) = q
  BY DEF remove_reveals
<1>p. /\ p.reveals \in [Tx -> Nat] /\ p.reveals_by_fee \in SUBSET (Nat \X Tx)
      /\ p.txs_by_input \in [Coin -> Tx \cup {NoTx}] /\ p.current_reveal_bytes \in Nat
  BY DEF Sound, MempoolType
<1>i. /\ p.reveals_by_fee = {<<Rate(p, tx), tx>> : tx \in Pending(p)}
      /\ \A tx \in Pending(p), c \in Coin : c \in Inputs(tx) <=> p.txs_by_input[c] = tx
      /\ \A c \in Coin : p.txs_by_input[c] \in Pending(p) \cup {NoTx}
      /\ NoTx \notin Tx /\ Pending(p) \in SUBSET Tx
  BY PoolAssumption, PendingFinite DEF Sound, IndexesAgree
<1>1. /\ SizeOf(p, Pending(p) \ txs) \in Nat /\ SizeOf(p, gone) \in Nat
      /\ SizeOf(p, Pending(p) \ txs) + SizeOf(p, gone) = p.current_reveal_bytes
  <2>1. IsFiniteSet(Pending(p)) /\ Pending(p) \in SUBSET Tx
    BY PendingFinite
  <2>2. \A x \in Pending(p) : p.reveals[x] \in Nat
    BY <1>p, <2>1
  <2>3. IsFiniteSet(gone) /\ IsFiniteSet(Pending(p) \ txs) /\ gone \in SUBSET Pending(p)
    BY <2>1, FS_Subset
  <2>4. SumOf(p.reveals, Pending(p) \ txs) \in Nat /\ SumOf(p.reveals, gone) \in Nat
    BY <2>2, <2>3, SumNat
  <2>5. Pending(p) \ gone = Pending(p) \ txs
    OBVIOUS
  <2>6. SumOf(p.reveals, Pending(p) \ gone) + SumOf(p.reveals, gone)
          = SumOf(p.reveals, Pending(p))
    <3> HIDE DEF gone
    <3>1. QED BY <2>1, <2>2, <2>3, SumRemove
  <2>7. p.current_reveal_bytes = SumOf(p.reveals, Pending(p))
    BY DEF Sound, BytesExact, SizeOf
  <2>8. QED BY <2>4, <2>5, <2>6, <2>7 DEF SizeOf
<1>2. bytes = SizeOf(p, Pending(p) \ txs) /\ bytes \in Nat
      /\ bytes = p.current_reveal_bytes - SizeOf(p, gone)
  <2> DEFINE x == SizeOf(p, Pending(p) \ txs)
             y == SizeOf(p, gone)
  <2> HIDE DEF x, y
  <2>1. x \in Nat /\ y \in Nat /\ x + y = p.current_reveal_bytes
    BY <1>1 DEF x, y
  <2>2. saturating_sub(p.current_reveal_bytes, y) = x
        /\ p.current_reveal_bytes - y = x
    BY <2>1 DEF saturating_sub
  <2>3. QED BY <2>1, <2>2 DEF x, y
<1>3. \A c \in Coin : inputs[c] = IF p.txs_by_input[c] \in txs THEN NoTx ELSE p.txs_by_input[c]
  <2>1. ASSUME NEW c \in Coin, p.txs_by_input[c] \in txs
        PROVE  inputs[c] = NoTx
    <3>1. CASE p.txs_by_input[c] = NoTx
      BY <3>1
    <3>2. CASE p.txs_by_input[c] # NoTx
      <4>1. p.txs_by_input[c] \in gone /\ c \in Inputs(p.txs_by_input[c])
        BY <2>1, <3>2, <1>i
      <4>2. QED BY <4>1
    <3>3. QED BY <3>1, <3>2
  <2>2. ASSUME NEW c \in Coin, p.txs_by_input[c] \notin txs
        PROVE  inputs[c] = p.txs_by_input[c]
    <3>1. ~(\E tx \in gone : c \in Inputs(tx))
      BY <2>2, <1>i
    <3>2. QED BY <3>1
  <2>3. QED BY <2>1, <2>2
<1>4. reveals \in [Tx -> Nat] /\ inputs \in [Coin -> Tx \cup {NoTx}]
      /\ fees \in SUBSET (Nat \X Tx)
  BY <1>p
<1>t. \A tx \in Tx : reveals[tx] = IF tx \in gone THEN 0 ELSE p.reveals[tx]
  OBVIOUS
<1>f. fees = {<<Rate(p, tx), tx>> : tx \in Pending(p) \ txs}
  BY <1>i
<1> HIDE DEF reveals, fees, inputs, bytes
<1>5. /\ q \in MempoolType /\ q.commits = p.commits /\ q.commits_by_pow = p.commits_by_pow
      /\ q.reveals = reveals /\ q.reveals_by_fee = fees /\ q.txs_by_input = inputs
      /\ q.current_reveal_bytes = bytes
  BY <1>2, <1>4 DEF Sound, MempoolType
<1> HIDE DEF q
<1>6. Pending(q) = Pending(p) \ txs
  BY <1>5, <1>t, <1>p DEF Pending
<1>7. \A tx \in Pending(q) : q.reveals[tx] = p.reveals[tx]
  BY <1>5, <1>6, <1>t, <1>i
<1>8. IndexesAgree(q)
  <2>1. \A x, y \in q.commits : x.tx = y.tx => x = y
    BY <1>5 DEF Sound, IndexesAgree
  <2>2. q.commits_by_pow = {<<pow.bits, pow.tx>> : pow \in q.commits}
    BY <1>5 DEF Sound, IndexesAgree
  <2>3. q.reveals_by_fee = {<<Rate(q, tx), tx>> : tx \in Pending(q)}
    <3>1. \A tx \in Pending(q) : Rate(q, tx) = Rate(p, tx)
      BY <1>7 DEF Rate
    <3>2. QED BY <3>1, <1>5, <1>6, <1>f
  <2>4. \A tx \in Pending(q), c \in Coin : c \in Inputs(tx) <=> q.txs_by_input[c] = tx
    BY <1>3, <1>5, <1>6, <1>i
  <2>5. \A c \in Coin : q.txs_by_input[c] \in Pending(q) \cup {NoTx}
    BY <1>3, <1>5, <1>6, <1>i
  <2>6. QED BY <2>1, <2>2, <2>3, <2>4, <2>5 DEF IndexesAgree
<1>9. BytesExact(q)
  <2>1. SumOf(q.reveals, Pending(q)) = SumOf(p.reveals, Pending(q))
    BY <1>7, PendingFinite, SumCongruence
  <2>2. QED BY <2>1, <1>2, <1>5, <1>6 DEF BytesExact, SizeOf
<1>10. IsFiniteSet(q.commits)
  BY <1>5 DEF Sound
<1>11. QED BY <1>q, <1>2, <1>3, <1>5, <1>6, <1>7, <1>8, <1>9, <1>10 DEF Sound

\* Putting in a reveal that conflicts with nothing.
LEMMA InsertSound ==
    ASSUME NEW p, Sound(p), NEW tx \in Tx, NEW size \in Nat \ {0},
           tx \notin Pending(p), \A c \in Inputs(tx) : p.txs_by_input[c] = NoTx
    PROVE  LET q == insert_reveal(p, tx, size)
           IN  /\ Sound(q) /\ Pending(q) = Pending(p) \cup {tx}
               /\ q.commits = p.commits
               /\ q.current_reveal_bytes = p.current_reveal_bytes + size
<1> DEFINE rate == compute_fee_rate(fee(tx), size)
           reveals == [p.reveals EXCEPT ![tx] = size]
           fees == p.reveals_by_fee \cup {<<rate, tx>>}
           inputs == [c \in Coin |-> IF c \in Inputs(tx) THEN tx ELSE p.txs_by_input[c]]
           bytes == p.current_reveal_bytes + size
           q == [p EXCEPT !.reveals = reveals, !.reveals_by_fee = fees,
                          !.txs_by_input = inputs, !.current_reveal_bytes = bytes]
<1>q. insert_reveal(p, tx, size) = q
  BY DEF insert_reveal
<1>p. /\ p.reveals \in [Tx -> Nat] /\ p.reveals_by_fee \in SUBSET (Nat \X Tx)
      /\ p.txs_by_input \in [Coin -> Tx \cup {NoTx}] /\ p.current_reveal_bytes \in Nat
  BY DEF Sound, MempoolType
<1>i. /\ p.reveals_by_fee = {<<Rate(p, t), t>> : t \in Pending(p)}
      /\ \A t \in Pending(p), c \in Coin : c \in Inputs(t) <=> p.txs_by_input[c] = t
      /\ \A c \in Coin : p.txs_by_input[c] \in Pending(p) \cup {NoTx}
      /\ NoTx \notin Tx /\ Pending(p) \in SUBSET Tx
  BY PoolAssumption, PendingFinite DEF Sound, IndexesAgree
<1>r. rate \in Nat
  <2>1. fee(tx) \in Nat
    <3>1. InputSum(tx) \in Nat /\ OutputSum(tx) \in Nat
      BY SumsNat
    <3>2. QED BY <3>1 DEF fee, saturating_sub
  <2>2. FEE_RATE_SCALE \in Nat
    BY PoolAssumption
  <2>3. \A a, b \in Nat : a * b \in Nat
    OBVIOUS
  <2>4. fee(tx) * FEE_RATE_SCALE \in Nat
    BY <2>1, <2>2, <2>3
  <2>5. \A a \in Nat, b \in Nat \ {0} : a \div b \in Nat
    OBVIOUS
  <2>6. QED BY <2>4, <2>5 DEF compute_fee_rate
<1>1. /\ reveals \in [Tx -> Nat] /\ inputs \in [Coin -> Tx \cup {NoTx}]
      /\ fees \in SUBSET (Nat \X Tx) /\ bytes \in Nat
  <2> HIDE DEF rate
  <2>1. QED BY <1>p, <1>r
<1>2. /\ reveals[tx] = size /\ \A t \in Tx \ {tx} : reveals[t] = p.reveals[t]
      /\ \A c \in Coin : inputs[c] = IF c \in Inputs(tx) THEN tx ELSE p.txs_by_input[c]
  BY <1>p
<1> HIDE DEF reveals, fees, inputs, bytes
<1>5. /\ q \in MempoolType /\ q.commits = p.commits /\ q.commits_by_pow = p.commits_by_pow
      /\ q.reveals = reveals /\ q.reveals_by_fee = fees /\ q.txs_by_input = inputs
      /\ q.current_reveal_bytes = bytes
  BY <1>1 DEF Sound, MempoolType
<1> HIDE DEF q
<1>6. Pending(q) = Pending(p) \cup {tx}
  BY <1>5, <1>2, <1>p DEF Pending
<1>7. \A t \in Pending(p) : t # tx /\ q.reveals[t] = p.reveals[t]
  BY <1>5, <1>2, <1>i
<1>8. IndexesAgree(q)
  <2>1. \A x, y \in q.commits : x.tx = y.tx => x = y
    BY <1>5 DEF Sound, IndexesAgree
  <2>2. q.commits_by_pow = {<<pow.bits, pow.tx>> : pow \in q.commits}
    BY <1>5 DEF Sound, IndexesAgree
  <2>3. q.reveals_by_fee = {<<Rate(q, t), t>> : t \in Pending(q)}
    <3>1. \A t \in Pending(p) : Rate(q, t) = Rate(p, t)
      BY <1>7 DEF Rate
    <3>2. Rate(q, tx) = rate
      BY <1>2, <1>5 DEF Rate
    <3>3. q.reveals_by_fee = p.reveals_by_fee \cup {<<rate, tx>>}
      BY <1>5 DEF fees
    <3> HIDE DEF rate
    <3>4. QED BY <3>1, <3>2, <3>3, <1>6, <1>i
  <2>4. \A t \in Pending(q), c \in Coin : c \in Inputs(t) <=> q.txs_by_input[c] = t
    <3>1. ASSUME NEW c \in Coin PROVE c \in Inputs(tx) <=> q.txs_by_input[c] = tx
      <4>1. p.txs_by_input[c] # tx
        BY <1>i
      <4>2. QED BY <4>1, <1>2, <1>5
    <3>2. ASSUME NEW t \in Pending(p), NEW c \in Coin
          PROVE  c \in Inputs(t) <=> q.txs_by_input[c] = t
      <4>1. t # tx /\ t # NoTx
        BY <1>7, <1>i
      <4>2. CASE c \in Inputs(tx)
        BY <4>1, <4>2, <1>2, <1>5, <1>i
      <4>3. CASE c \notin Inputs(tx)
        BY <4>3, <1>2, <1>5, <1>i
      <4>4. QED BY <4>2, <4>3
    <3>3. QED BY <3>1, <3>2, <1>6
  <2>5. \A c \in Coin : q.txs_by_input[c] \in Pending(q) \cup {NoTx}
    BY <1>2, <1>5, <1>6, <1>i
  <2>6. QED BY <2>1, <2>2, <2>3, <2>4, <2>5 DEF IndexesAgree
<1>9. BytesExact(q)
  <2>1. SumOf(q.reveals, Pending(p)) = SumOf(p.reveals, Pending(p))
    BY <1>7, PendingFinite, SumCongruence
  <2>2. q.reveals[tx] = size /\ \A t \in Pending(p) : q.reveals[t] \in Int
    BY <1>1, <1>2, <1>5, <1>i
  <2>3. SumOf(q.reveals, Pending(p) \cup {tx}) = SumOf(q.reveals, Pending(p)) + size
    <3>1. q.reveals[tx] \in Int
      BY <2>2
    <3>2. SumOf(q.reveals, Pending(p) \cup {tx}) = SumOf(q.reveals, Pending(p)) + q.reveals[tx]
      BY <3>1, <2>2, PendingFinite, SumInsert
    <3>3. QED BY <3>2, <2>2
  <2>4. p.current_reveal_bytes = SumOf(p.reveals, Pending(p))
    BY DEF Sound, BytesExact, SizeOf
  <2>5. QED BY <2>1, <2>3, <2>4, <1>5, <1>6 DEF BytesExact, SizeOf, bytes
<1>10. IsFiniteSet(q.commits)
  BY <1>5 DEF Sound
<1>11. QED BY <1>q, <1>5, <1>6, <1>8, <1>9, <1>10 DEF Sound, bytes

LEMMA RemoveCommitsSound ==
    ASSUME NEW p, Sound(p), NEW txs
    PROVE  LET q == remove_commits(p, txs)
           IN  /\ Sound(q) /\ Pending(q) = Pending(p)
               /\ q.commits = {pow \in p.commits : pow.tx \notin txs}
               /\ q.reveals = p.reveals /\ q.txs_by_input = p.txs_by_input
               /\ q.current_reveal_bytes = p.current_reveal_bytes
<1> DEFINE left == {pow \in p.commits : pow.tx \notin txs}
           index == {e \in p.commits_by_pow : e[2] \notin txs}
           q == [p EXCEPT !.commits = left, !.commits_by_pow = index]
<1>q. remove_commits(p, txs) = q
  BY DEF remove_commits
<1>p. /\ p.commits \in SUBSET Pow /\ p.commits_by_pow \in SUBSET (Nat \X Tx)
      /\ p.commits_by_pow = {<<pow.bits, pow.tx>> : pow \in p.commits}
      /\ IsFiniteSet(p.commits)
  BY DEF Sound, MempoolType, IndexesAgree
<1>1. left \in SUBSET Pow /\ index \in SUBSET (Nat \X Tx) /\ IsFiniteSet(left)
  BY <1>p, FS_Subset
<1>2. index = {<<pow.bits, pow.tx>> : pow \in left}
  BY <1>p
<1>3. \A x \in left : x \in p.commits
  OBVIOUS
<1>4. left = {pow \in p.commits : pow.tx \notin txs}
  OBVIOUS
<1> HIDE DEF left, index
<1>5. /\ q \in MempoolType /\ q.commits = left /\ q.commits_by_pow = index
      /\ q.reveals = p.reveals /\ q.reveals_by_fee = p.reveals_by_fee
      /\ q.txs_by_input = p.txs_by_input
      /\ q.current_reveal_bytes = p.current_reveal_bytes
  BY <1>1 DEF Sound, MempoolType
<1> HIDE DEF q
<1>6. Pending(q) = Pending(p)
  BY <1>5 DEF Pending
<1>7. IndexesAgree(q)
  BY <1>2, <1>3, <1>5, <1>6 DEF Sound, IndexesAgree, Rate
<1>8. BytesExact(q)
  BY <1>5, <1>6 DEF Sound, BytesExact, SizeOf
<1>9. QED BY <1>q, <1>1, <1>4, <1>5, <1>6, <1>7, <1>8 DEF Sound

LEMMA InsertCommitSound ==
    ASSUME NEW p, Sound(p), NEW pow \in Pow, ~HasCommit(p, pow.tx)
    PROVE  LET q == insert_commit(p, pow)
           IN  /\ Sound(q) /\ Pending(q) = Pending(p)
               /\ q.commits = p.commits \cup {pow}
<1> DEFINE now == {x \in p.commits : x.tx # pow.tx} \cup {pow}
           index == p.commits_by_pow \cup {<<pow.bits, pow.tx>>}
           q == [p EXCEPT !.commits = now, !.commits_by_pow = index]
<1>q. insert_commit(p, pow) = q
  BY DEF insert_commit
<1>p. /\ p.commits \in SUBSET Pow /\ p.commits_by_pow \in SUBSET (Nat \X Tx)
      /\ p.commits_by_pow = {<<x.bits, x.tx>> : x \in p.commits}
      /\ \A x, y \in p.commits : x.tx = y.tx => x = y
      /\ IsFiniteSet(p.commits)
  BY DEF Sound, MempoolType, IndexesAgree
<1>w. pow.tx \in Tx /\ pow.bits \in Nat
  BY PoolAssumption DEF Pow
<1>0. now = p.commits \cup {pow} /\ \A x \in p.commits : x.tx # pow.tx
  BY DEF HasCommit
<1>1. now \in SUBSET Pow /\ index \in SUBSET (Nat \X Tx) /\ IsFiniteSet(now)
  BY <1>p, <1>w, <1>0, FS_AddElement
<1>2. index = {<<x.bits, x.tx>> : x \in now}
  BY <1>p, <1>0
<1>3. \A x, y \in now : x.tx = y.tx => x = y
  BY <1>p, <1>0
<1> HIDE DEF now, index
<1>5. /\ q \in MempoolType /\ q.commits = now /\ q.commits_by_pow = index
      /\ q.reveals = p.reveals /\ q.reveals_by_fee = p.reveals_by_fee
      /\ q.txs_by_input = p.txs_by_input
      /\ q.current_reveal_bytes = p.current_reveal_bytes
  BY <1>1 DEF Sound, MempoolType
<1> HIDE DEF q
<1>6. Pending(q) = Pending(p)
  BY <1>5 DEF Pending
<1>7. IndexesAgree(q)
  BY <1>2, <1>3, <1>5, <1>6 DEF Sound, IndexesAgree, Rate
<1>8. BytesExact(q)
  BY <1>5, <1>6 DEF Sound, BytesExact, SizeOf
<1>9. QED BY <1>q, <1>0, <1>1, <1>5, <1>6, <1>7, <1>8 DEF Sound
-----------------------------------------------------------------------------
\* A transaction that passes validate_reveal spends something.
LEMMA ValidSpends ==
    ASSUME NEW tx \in Tx, NEW s, validate_reveal(tx, s)
    PROVE  Inputs(tx) # {}
<1>1. TxIn[tx] \in Seq(Coin)
  BY TxAssumption
<1>2. Len(TxIn[tx]) >= 1
  <2>1. Len(TxIn[tx]) \in Nat
    BY <1>1
  <2>2. CASE WellFormed(tx)
    <3>1. Len(TxIn[tx]) \in 2..MaxConsolidateInputs \/ Len(TxIn[tx]) \in 1..MaxTxInputs
      BY <2>2 DEF WellFormed
    <3>2. QED BY <2>1, <3>1
  <2>3. CASE ~WellFormed(tx)
    <3>1. Len(TxIn[tx]) = 1
      BY <2>3 DEF validate_reveal
    <3>2. QED BY <3>1
  <2>4. QED BY <2>2, <2>3
<1>3. 1 \in DOMAIN TxIn[tx]
  BY <1>1, <1>2
<1>4. QED BY <1>3 DEF Inputs, Range

\* The victims of Mempool::add are pending, include every conflict and leave
\* room.
LEMMA VictimsPending ==
    ASSUME NEW p, Sound(p), NEW tx \in Tx, NEW size, NEW gone \in Victims(p, tx, size)
    PROVE  /\ gone \in SUBSET Pending(p)
           /\ \A c \in Inputs(tx) : p.txs_by_input[c] = NoTx \/ p.txs_by_input[c] \in gone
           /\ Fits(p, gone, size)
<1> DEFINE conflicts == Conflicts(p, tx)
           Gone(low) == conflicts \cup {e[2] : e \in low}
           enough == {low \in Cheapest(p, conflicts) : Fits(p, Gone(low), size)}
<1>1. PICK low \in enough : gone = Gone(low)
  BY DEF Victims
<1>2. low \subseteq p.reveals_by_fee /\ Fits(p, Gone(low), size)
  <2>1. low \in Cheapest(p, conflicts) /\ Fits(p, Gone(low), size)
    OBVIOUS
  <2>2. QED BY <2>1 DEF Cheapest
<1>3. /\ p.reveals_by_fee = {<<Rate(p, t), t>> : t \in Pending(p)}
      /\ \A c \in Coin : p.txs_by_input[c] \in Pending(p) \cup {NoTx}
  BY DEF Sound, IndexesAgree
<1>4. {e[2] : e \in low} \subseteq Pending(p)
  <2>1. ASSUME NEW e \in low PROVE e[2] \in Pending(p)
    <3>1. PICK t \in Pending(p) : e = <<Rate(p, t), t>>
      BY <1>2, <1>3
    <3>2. QED BY <3>1
  <2>2. QED BY <2>1
<1>5. Inputs(tx) \in SUBSET Coin
  BY InputsType
<1>6. conflicts \subseteq Pending(p)
        /\ \A c \in Inputs(tx) : p.txs_by_input[c] = NoTx \/ p.txs_by_input[c] \in conflicts
  BY <1>3, <1>5 DEF Conflicts
<1> HIDE DEF conflicts, enough
<1>7. QED BY <1>1, <1>2, <1>4, <1>6

LEMMA AddRevealSound ==
    ASSUME NEW p, Sound(p), NEW tx \in Tx, NEW size \in TxSizes(tx),
           Inputs(tx) # {}, NEW q \in add_reveal(p, tx, size)
    PROVE  /\ Sound(q) /\ q.commits = p.commits
           /\ \E gone \in SUBSET Pending(p) :
                 /\ Pending(q) = (Pending(p) \ gone) \cup {tx} /\ tx \notin Pending(p) \ gone
                 /\ q.current_reveal_bytes
                      = (p.current_reveal_bytes - SizeOf(p, gone)) + size
                 /\ p.current_reveal_bytes - SizeOf(p, gone) \in Nat
                 /\ Fits(p, gone, size)
                 /\ Outbids(compute_fee_rate(fee(tx), size), p, gone)
<1>1. PICK gone \in Victims(p, tx, size) :
         /\ q = insert_reveal(remove_reveals(p, gone), tx, size)
         /\ Outbids(compute_fee_rate(fee(tx), size), p, gone)
  BY DEF add_reveal
<1>2. /\ gone \in SUBSET Pending(p)
      /\ \A c \in Inputs(tx) : p.txs_by_input[c] = NoTx \/ p.txs_by_input[c] \in gone
      /\ Fits(p, gone, size)
  BY VictimsPending
<1> DEFINE r == remove_reveals(p, gone)
<1>3. /\ Sound(r) /\ Pending(r) = Pending(p) \ gone /\ r.commits = p.commits
      /\ r.current_reveal_bytes = p.current_reveal_bytes - SizeOf(p, gone \cap Pending(p))
  BY RemoveSound
<1>4. gone \cap Pending(p) = gone
  BY <1>2
<1> HIDE DEF r
<1>5. ASSUME NEW c \in Inputs(tx) PROVE r.txs_by_input[c] = NoTx
  <2>1. c \in Coin
    BY InputsType
  <2>2. r.txs_by_input[c] \in Pending(r) \cup {NoTx}
    BY <1>3, <2>1 DEF Sound, IndexesAgree
  <2>3. ASSUME NEW t \in Pending(r), r.txs_by_input[c] = t PROVE FALSE
    <3>1. c \in Inputs(t)
      BY <1>3, <2>1, <2>3 DEF Sound, IndexesAgree
    <3>2. t \in Pending(p) /\ t \notin gone
      BY <1>3
    <3>3. p.txs_by_input[c] = t
      BY <3>1, <3>2, <2>1 DEF Sound, IndexesAgree
    <3>4. t # NoTx
      BY <3>2, PendingFinite, PoolAssumption
    <3>5. QED BY <1>2, <3>2, <3>3, <3>4
  <2>4. QED BY <2>2, <2>3
<1>6. tx \notin Pending(r)
  <2> SUFFICES ASSUME tx \in Pending(r) PROVE FALSE
    OBVIOUS
  <2>1. PICK c \in Inputs(tx) : c \in Coin
    BY InputsType
  <2>2. r.txs_by_input[c] = tx
    BY <1>3, <2>1 DEF Sound, IndexesAgree
  <2>3. QED BY <2>2, <1>5, PoolAssumption
<1>7. size \in Nat \ {0}
  BY PoolAssumption
<1>8. /\ Sound(q) /\ Pending(q) = Pending(r) \cup {tx} /\ q.commits = r.commits
      /\ q.current_reveal_bytes = r.current_reveal_bytes + size
  BY <1>1, <1>3, <1>5, <1>6, <1>7, InsertSound DEF r
<1>9. r.current_reveal_bytes \in Nat
  BY <1>3 DEF Sound, MempoolType
<1>10. r.current_reveal_bytes = p.current_reveal_bytes - SizeOf(p, gone)
  BY <1>3, <1>4
<1>11. /\ Pending(q) = (Pending(p) \ gone) \cup {tx} /\ tx \notin Pending(p) \ gone
       /\ q.current_reveal_bytes = (p.current_reveal_bytes - SizeOf(p, gone)) + size
       /\ p.current_reveal_bytes - SizeOf(p, gone) \in Nat
  BY <1>3, <1>6, <1>8, <1>9, <1>10
<1>12. QED BY <1>1, <1>2, <1>3, <1>8, <1>11

LEMMA AddCommitSound ==
    ASSUME NEW p, Sound(p), NEW pow \in Pow, NEW q \in add_commit(p, pow)
    PROVE  /\ Sound(q) /\ Pending(q) = Pending(p)
           /\ q.commits = {x \in p.commits : x.tx \notin {e[2] : e \in CommitVictims(p)}} \cup {pow}
           /\ pow \notin p.commits
<1> DEFINE gone == {e[2] : e \in CommitVictims(p)}
           r == remove_commits(p, gone)
<1>1. q = insert_commit(r, pow) /\ ~HasCommit(p, pow.tx)
  BY DEF add_commit
<1> HIDE DEF gone
<1>2. /\ Sound(r) /\ Pending(r) = Pending(p)
      /\ r.commits = {x \in p.commits : x.tx \notin gone}
  BY RemoveCommitsSound
<1> HIDE DEF r
<1>3. ~HasCommit(r, pow.tx) /\ pow \notin p.commits
  BY <1>1, <1>2 DEF HasCommit
<1>4. Sound(q) /\ Pending(q) = Pending(r) /\ q.commits = r.commits \cup {pow}
  BY <1>1, <1>2, <1>3, InsertCommitSound
<1>5. QED BY <1>2, <1>3, <1>4 DEF gone

LEMMA PruneBlockSound ==
    ASSUME NEW p, Sound(p), NEW s, NEW txs
    PROVE  LET q == prune_on_new_block(p, s, txs)
           IN  /\ Sound(q) /\ Pending(q) \subseteq Pending(p)
               /\ \A tx \in Pending(q) :
                     ~CommitmentDead(s, tx)
                     /\ \A c \in SpentBy(txs) : p.txs_by_input[c] = NoTx \/ p.txs_by_input[c] # tx
<1> DEFINE spends == {p.txs_by_input[c] : c \in SpentBy(txs)} \ {NoTx}
           reused == {tx \in Pending(p) : TxKeys[tx] \cap KeysBy(txs) # {}}
           dead   == {tx \in Pending(p) : CommitmentDead(s, tx)}
           out    == spends \cup reused \cup dead
           mined  == MinedCommits(txs)
           r      == remove_reveals(p, out)
           q      == prune_on_new_block(p, s, txs)
<1>1. q = remove_commits(r, mined)
  BY DEF prune_on_new_block
<1>2. \A tx \in Pending(p) \ out :
         ~CommitmentDead(s, tx) /\ \A c \in SpentBy(txs) : p.txs_by_input[c] = NoTx \/ p.txs_by_input[c] # tx
  OBVIOUS
<1> HIDE DEF out, mined
<1>3. Sound(r) /\ Pending(r) = Pending(p) \ out
  BY RemoveSound
<1> HIDE DEF r
<1>4. Sound(q) /\ Pending(q) = Pending(r)
  <2> HIDE DEF q
  <2>1. QED BY <1>1, <1>3, RemoveCommitsSound
<1> HIDE DEF q
<1>5. QED BY <1>2, <1>3, <1>4 DEF q

LEMMA PruneInvalidSound ==
    ASSUME NEW p, Sound(p), NEW s, NEW blocks
    PROVE  LET q == prune_invalid(p, s, blocks)
           IN  /\ Sound(q)
               /\ \A tx \in Pending(q) : /\ tx \in Tx /\ InputsExist(s, tx) /\ tx \in s.commitments
                                         /\ ~CommitmentDead(s, tx)
<1> DEFINE stale == {pow.tx : pow \in {x \in p.commits : ~PowValid(x, s, blocks)}}
           out == {tx \in Pending(p) :
                     ~InputsExist(s, tx) \/ tx \notin s.commitments \/ CommitmentDead(s, tx)}
           r == remove_commits(p, stale)
           q == prune_invalid(p, s, blocks)
<1>1. q = remove_reveals(r, out)
  BY DEF prune_invalid
<1>2. \A tx \in Pending(p) \ out : /\ InputsExist(s, tx) /\ tx \in s.commitments
                                   /\ ~CommitmentDead(s, tx)
  OBVIOUS
<1> HIDE DEF out, stale
<1>3. Sound(r) /\ Pending(r) = Pending(p)
  BY RemoveCommitsSound
<1> HIDE DEF r
<1>4. Sound(q) /\ Pending(q) = Pending(r) \ out
  <2> HIDE DEF q
  <2>1. QED BY <1>1, <1>3, RemoveSound
<1> HIDE DEF q
<1>5. QED BY <1>2, <1>3, <1>4, PendingFinite DEF q

LEMMA ReAddSound ==
    ASSUME NEW p, Sound(p), NEW e \in Entry, NEW s, NEW blocks
    PROVE  Sound(re_add(p, e, s, blocks))
<1>1. CASE re_add(p, e, s, blocks) = p
  BY <1>1
<1>2. CASE re_add(p, e, s, blocks) # p /\ e.kind = "commit"
  <2>1. re_add(p, e, s, blocks) = insert_commit(p, e.pow) /\ ~HasCommit(p, e.pow.tx)
    BY <1>2 DEF re_add
  <2>2. e.pow \in Pow
    BY <1>2 DEF Entry
  <2>3. QED BY <2>1, <2>2, InsertCommitSound
<1>3. CASE re_add(p, e, s, blocks) # p /\ e.kind # "commit"
  <2>1. /\ re_add(p, e, s, blocks) = insert_reveal(p, e.tx, e.size)
        /\ validate_reveal(e.tx, s) /\ Conflicts(p, e.tx) = {}
    BY <1>3 DEF re_add
  <2>2. e.tx \in Tx /\ e.size \in Nat \ {0}
    BY <1>3 DEF Entry
  <2>3. \A c \in Inputs(e.tx) : p.txs_by_input[c] = NoTx
    BY <2>1 DEF Conflicts
  <2>4. e.tx \notin Pending(p)
    <3> SUFFICES ASSUME e.tx \in Pending(p) PROVE FALSE
      OBVIOUS
    <3>1. PICK c \in Inputs(e.tx) : c \in Coin
      BY <2>1, <2>2, ValidSpends, InputsType
    <3>2. p.txs_by_input[c] = e.tx
      BY <3>1 DEF Sound, IndexesAgree
    <3>3. QED BY <3>1, <3>2, <2>2, <2>3, PoolAssumption
  <2>5. QED BY <2>1, <2>2, <2>3, <2>4, InsertSound
<1>4. QED BY <1>1, <1>2, <1>3
-----------------------------------------------------------------------------
(***************************************************************************)
(* The chain under the pool.                                               *)
(***************************************************************************)
TrackedState == {s \in State : Tracked(s)}
TrackedBlock == {b \in Block : b.before \in TrackedState}

WorkType ==
    [phase : {"quiet", "evaluate", "restore"}, fork : Nat, before : TrackedState,
     state : TrackedState, blocks : Seq(TrackedBlock), txs : Seq(Entry)]

\* A block or branch under evaluation: the coins of the State it starts from
\* are there unless one of its own transactions spends them.
Evaluating ==
    work.phase = "evaluate" =>
        /\ work.fork <= Len(chain)
        /\ work.fork < Len(chain) => branch < MaxReorgs
        /\ work.before.coins \ SpentBy(work.txs) \subseteq work.state.coins
        /\ work.fork = Len(chain) =>
             /\ Len(work.blocks) = 0 => work.before = state
             /\ Len(work.blocks) = 1 =>
                  state.coins \ SpentBy(work.blocks[1].txs) \subseteq work.before.coins

Typed ==
    /\ state \in TrackedState /\ chain \in Seq(TrackedBlock) /\ branch \in 0..MaxReorgs
    /\ spent \in [Key -> Tx \cup {NoTx}] /\ active_burns \subseteq Key
    /\ work \in WorkType /\ scene \in Scenes

PoolInv ==
    /\ Typed /\ Evaluating /\ Sound(pool)
    /\ work.phase # "restore" => Minable(pool, state)

LEMMA SpentByAppend ==
    ASSUME NEW txs \in Seq(Entry), NEW e \in Entry
    PROVE  /\ Append(txs, e) \in Seq(Entry)
           /\ e.kind = "commit" => SpentBy(Append(txs, e)) = SpentBy(txs)
           /\ e.kind = "reveal" => SpentBy(Append(txs, e)) = SpentBy(txs) \cup Inputs(e.tx)
<1>1. Append(txs, e) \in Seq(Entry)
  OBVIOUS
<1>2. Range(Append(txs, e)) = Range(txs) \cup {e}
  <2> DEFINE new == Append(txs, e)
  <2>1. /\ DOMAIN txs = 1..Len(txs) /\ DOMAIN new = 1..(Len(txs) + 1) /\ Len(txs) \in Nat
        /\ new[Len(txs) + 1] = e /\ \A i \in 1..Len(txs) : new[i] = txs[i]
    OBVIOUS
  <2> HIDE DEF new
  <2>2. \A i \in DOMAIN new : i \in DOMAIN txs \/ i = Len(txs) + 1
    BY <2>1
  <2>3. DOMAIN txs \subseteq DOMAIN new /\ Len(txs) + 1 \in DOMAIN new
    BY <2>1
  <2>4. {new[i] : i \in DOMAIN new} = {txs[i] : i \in DOMAIN txs} \cup {e}
    BY <2>1, <2>2, <2>3
  <2>5. QED BY <2>4 DEF Range, new
<1> DEFINE old == {x \in Range(txs) : x.kind = "reveal"}
           new == {x \in Range(Append(txs, e)) : x.kind = "reveal"}
<1>3. e.kind = "commit" => new = old
  BY <1>2
<1>4. e.kind = "reveal" => new = old \cup {e}
  BY <1>2
<1>5. SpentBy(txs) = UNION {Inputs(x.tx) : x \in old}
      /\ SpentBy(Append(txs, e)) = UNION {Inputs(x.tx) : x \in new}
  BY DEF SpentBy
<1> HIDE DEF old, new
<1>6. QED BY <1>1, <1>3, <1>4, <1>5

LEMMA SpentByNothing == SpentBy(<<>>) = {}
<1>1. Range(<<>>) = {}
  BY DEF Range
<1>2. QED BY <1>1 DEF SpentBy

LEMMA NoWorkType ==
    ASSUME NEW s \in TrackedState
    PROVE  [phase |-> "quiet", fork |-> 0, before |-> s, state |-> s,
            blocks |-> <<>>, txs |-> <<>>] \in WorkType
<1>1. <<>> \in Seq(TrackedBlock) /\ <<>> \in Seq(Entry)
  BY EmptySeq
<1>2. QED BY <1>1 DEF WorkType

\* The last use of a key in a list of blocks exists.
LEMMA GreatestBelow ==
    ASSUME NEW n \in Nat, NEW S \in SUBSET (0..n), S # {}
    PROVE  \E m \in S : \A x \in S : x <= m
<1> DEFINE R == {n - x : x \in S}
<1>0. \A x \in S : x \in Nat /\ x <= n /\ n - x \in Nat
  BY SMT
<1>1. R \in SUBSET Nat /\ R # {}
  <2>1. \A y \in R : y \in Nat
    BY <1>0
  <2>2. PICK x \in S : TRUE
    OBVIOUS
  <2>3. n - x \in R
    OBVIOUS
  <2>4. QED BY <2>1, <2>3
<1>2. PICK y \in R : \A z \in R : ~(<<z, y>> \in OpToRel(<, Nat))
  BY <1>1, NatLessThanWellFounded, WFMin
<1>3. PICK m \in S : y = n - m
  BY <1>2
<1>4. ASSUME NEW x \in S PROVE x <= m
  <2>1. n - x \in R /\ n - x \in Nat /\ y \in Nat
    BY <1>1, <1>3
  <2>2. ~(n - x < y)
    BY <1>2, <2>1 DEF OpToRel
  <2>3. QED BY <2>1, <2>2, <1>3
<1>5. QED BY <1>4

LEMMA UsesType ==
    ASSUME NEW blocks \in Seq(Block), NEW k, NEW u \in Uses(blocks, k)
    PROVE  /\ u = <<u[1], u[2]>> /\ u[1] \in 1..Len(blocks)
           /\ u[2] \in 1..Len(blocks[u[1]].txs) /\ Len(blocks[u[1]].txs) \in Nat
           /\ blocks[u[1]].txs[u[2]].tx \in Tx
<1>1. /\ u \in (DOMAIN blocks) \X (1..MaxBlockTxs) /\ u[2] \in DOMAIN blocks[u[1]].txs
      /\ blocks[u[1]].txs[u[2]].kind = "reveal"
  BY DEF Uses
<1>2. u = <<u[1], u[2]>> /\ u[1] \in DOMAIN blocks
  BY <1>1
<1>3. DOMAIN blocks = 1..Len(blocks) /\ blocks[u[1]] \in Block
  BY <1>2
<1>4. blocks[u[1]].txs \in Seq(Entry)
  BY <1>3 DEF Block
<1>5. /\ DOMAIN blocks[u[1]].txs = 1..Len(blocks[u[1]].txs) /\ Len(blocks[u[1]].txs) \in Nat
      /\ blocks[u[1]].txs[u[2]] \in Entry
  BY <1>1, <1>4
<1>6. blocks[u[1]].txs[u[2]].tx \in Tx
  BY <1>1, <1>5 DEF Entry
<1>7. QED BY <1>1, <1>2, <1>3, <1>5, <1>6

\* The last use of a key in a list of blocks exists.
LEMMA LastUse ==
    ASSUME NEW blocks \in Seq(Block), NEW k, Uses(blocks, k) # {}
    PROVE  \E u \in Uses(blocks, k) : \A v \in Uses(blocks, k) :
              v[1] < u[1] \/ (v[1] = u[1] /\ v[2] <= u[2])
<1> DEFINE uses == Uses(blocks, k)
           firsts == {u[1] : u \in uses}
<1>0. \A u \in uses : /\ u[1] \in 1..Len(blocks) /\ u[2] \in 1..Len(blocks[u[1]].txs)
                      /\ Len(blocks[u[1]].txs) \in Nat
  BY UsesType
<1>n. Len(blocks) \in Nat
  OBVIOUS
<1> HIDE DEF uses
<1>1. firsts \in SUBSET (0..Len(blocks)) /\ firsts # {}
  <2>1. \A u \in uses : u[1] \in 0..Len(blocks)
    BY <1>0, <1>n
  <2>2. QED BY <2>1 DEF uses
<1>2. PICK m \in firsts : \A x \in firsts : x <= m
  <2> HIDE DEF firsts
  <2>1. QED BY <1>n, <1>1, GreatestBelow
<1> DEFINE seconds == {u[2] : u \in {v \in uses : v[1] = m}}
           n == Len(blocks[m].txs)
<1>3. n \in Nat /\ seconds \in SUBSET (0..n) /\ seconds # {}
  <2>1. PICK w \in uses : w[1] = m
    BY <1>2
  <2>2. n \in Nat
    BY <1>0, <2>1
  <2>3. ASSUME NEW u \in uses, u[1] = m PROVE u[2] \in 0..n
    <3>1. u[2] \in 1..n
      BY <1>0, <2>3
    <3> HIDE DEF n
    <3>2. QED BY <3>1, <2>2
  <2>4. QED BY <2>1, <2>2, <2>3
<1>4. PICK j \in seconds : \A x \in seconds : x <= j
  <2> HIDE DEF seconds, n
  <2>1. QED BY <1>3, GreatestBelow
<1>5. PICK u \in uses : u[1] = m /\ u[2] = j
  BY <1>4
<1>6. ASSUME NEW v \in uses PROVE v[1] < u[1] \/ (v[1] = u[1] /\ v[2] <= u[2])
  <2>1. v[1] <= m /\ v[1] \in Int /\ m \in Int
    BY <1>0, <1>2, <1>5
  <2>2. CASE v[1] = m
    BY <2>2, <1>4, <1>5
  <2>3. CASE v[1] # m
    BY <2>1, <2>3, <1>5
  <2>4. QED BY <2>2, <2>3
<1>7. QED BY <1>6 DEF uses

LEMMA BurnType ==
    ASSUME NEW table \in [Key -> Tx \cup {NoTx}], NEW blocks \in Seq(Block)
    PROVE  burn_batch_addresses(table, blocks) \in [Key -> Tx \cup {NoTx}]
<1> SUFFICES ASSUME NEW k \in Key
             PROVE  burn_batch_addresses(table, blocks)[k] \in Tx \cup {NoTx}
  BY DEF burn_batch_addresses
<1>1. CASE Uses(blocks, k) = {}
  BY <1>1 DEF burn_batch_addresses
<1>2. CASE Uses(blocks, k) # {}
  <2> DEFINE Last(u) == \A v \in Uses(blocks, k) :
                            v[1] < u[1] \/ (v[1] = u[1] /\ v[2] <= u[2])
             last == CHOOSE u \in Uses(blocks, k) : Last(u)
  <2>1. last \in Uses(blocks, k)
    BY <1>2, LastUse
  <2>2. burn_batch_addresses(table, blocks)[k] = blocks[last[1]].txs[last[2]].tx
    BY <1>2 DEF burn_batch_addresses
  <2> HIDE DEF last
  <2>3. QED BY <2>1, <2>2, UsesType
<1>3. QED BY <1>1, <1>2

LEMMA UnburnType ==
    ASSUME NEW table \in [Key -> Tx \cup {NoTx}], NEW blocks
    PROVE  unburn_batch_addresses(table, blocks) \in [Key -> Tx \cup {NoTx}]
BY DEF unburn_batch_addresses

LEMMA TrackedBlocks ==
    ASSUME NEW blocks \in Seq(TrackedBlock)
    PROVE  blocks \in Seq(Block)
<1>1. TrackedBlock \subseteq Block
  BY DEF TrackedBlock
<1>2. QED BY <1>1, SeqMonotonic
-----------------------------------------------------------------------------
(***************************************************************************)
(* PoolInv holds initially and every action preserves it.                  *)
(***************************************************************************)
LEMMA EmptySound == Sound(EmptyPool) /\ Pending(EmptyPool) = {}
<1> DEFINE p == EmptyPool
<1>1. /\ p \in MempoolType /\ p.commits = {} /\ p.commits_by_pow = {} /\ p.reveals_by_fee = {}
      /\ p.reveals = [tx \in Tx |-> 0] /\ p.txs_by_input = [c \in Coin |-> NoTx]
      /\ p.current_reveal_bytes = 0
  BY DEF EmptyPool, MempoolType
<1> HIDE DEF p
<1>2. Pending(p) = {}
  BY <1>1 DEF Pending
<1>3. IndexesAgree(p)
  BY <1>1, <1>2 DEF IndexesAgree
<1>4. BytesExact(p)
  BY <1>1, <1>2, SumEmpty DEF BytesExact, SizeOf
<1>5. IsFiniteSet(p.commits)
  BY <1>1, FS_EmptySet
<1>6. QED BY <1>1, <1>2, <1>3, <1>4, <1>5 DEF Sound, p

LEMMA PoolInit == ASSUME Init PROVE PoolInv
<1> DEFINE s == [coins |-> StartCoins, commitment_heights |-> scene.ages,
                 commitments |-> {c \in Tx : scene.ages[c] # None},
                 expirations |-> {}, burned_wots |-> {}, height |-> StartHeight,
                 coins_cache |-> "none", commitments_cache |-> "none"]
<1>1. /\ scene \in Scenes /\ state = deserialize_state(s) /\ chain = <<>> /\ branch = 0
      /\ pool = EmptyPool /\ spent = [k \in Key |-> NoTx] /\ active_burns = {}
      /\ work = NoWork
  BY DEF Init
<1>2. /\ StartHeight \in Nat /\ StartCoins \in SUBSET Coin
      /\ scene.ages \in [Tx -> {None} \cup (saturating_sub(StartHeight, TTL)..(StartHeight - 1))]
  BY <1>1, StartAssumption
<1>t. TTL \in Nat
  BY EraAssumption
<1>3. \A x \in saturating_sub(StartHeight, TTL)..(StartHeight - 1) :
         x \in Nat /\ x <= StartHeight /\ StartHeight - x <= TTL
  BY <1>2, <1>t DEF saturating_sub
<1>4. scene.ages \in [Tx -> Nat \cup {None}]
  BY <1>2, <1>3
<1>5. s \in State
  BY <1>2, <1>4 DEF State, CacheMode
<1>6. Dated(s) = s.commitments
  BY DEF Dated
<1>7. \A c \in s.commitments : s.commitment_heights[c] <= s.height
                                 /\ s.height - s.commitment_heights[c] <= TTL
  <2>1. ASSUME NEW c \in Tx, scene.ages[c] # None
        PROVE  scene.ages[c] <= StartHeight /\ StartHeight - scene.ages[c] <= TTL
    BY <2>1, <1>2, <1>3
  <2>2. QED BY <2>1
<1>8. state \in TrackedState
  <2> HIDE DEF s
  <2>1. QED BY <1>1, <1>5, <1>6, <1>7, ReloadTracked DEF TrackedState
<1>9. work \in WorkType /\ work.phase = "quiet"
  BY <1>1, <1>8, NoWorkType DEF NoWork
<1>10. chain \in Seq(TrackedBlock)
  BY <1>1, EmptySeq
<1>11. branch \in 0..MaxReorgs
  BY <1>1, PoolAssumption
<1>12. Typed
  BY <1>1, <1>8, <1>9, <1>10, <1>11 DEF Typed
<1>13. Sound(pool) /\ Minable(pool, state)
  BY <1>1, EmptySound DEF Minable
<1>14. QED BY <1>9, <1>12, <1>13 DEF PoolInv, Evaluating

LEMMA SubmitCommitStep ==
    ASSUME PoolInv, NEW pow \in Broadcast, SubmitCommit(pow)
    PROVE  PoolInv'
<1>1. pow \in Pow
  BY DEF Broadcast
<1>2. Sound(pool') /\ Pending(pool') = Pending(pool)
  BY <1>1, AddCommitSound DEF SubmitCommit, PoolInv
<1>3. Minable(pool', state)
  BY <1>2 DEF SubmitCommit, Quiet, PoolInv, Minable
<1>4. QED BY <1>2, <1>3 DEF SubmitCommit, PoolInv, Typed, Evaluating

\* An admitted reveal can be mined in the State it was validated against.
LEMMA SubmitRevealStep ==
    ASSUME PoolInv, NEW tx \in Tx, NEW size \in TxSizes(tx), SubmitReveal(tx, size)
    PROVE  PoolInv'
<1>1. validate_reveal(tx, state) /\ pool' \in add_reveal(pool, tx, size) /\ Quiet
  BY DEF SubmitReveal
<1>2. Inputs(tx) # {}
  BY <1>1, ValidSpends
<1>3. Sound(pool) /\ Minable(pool, state)
  BY <1>1 DEF PoolInv, Quiet
<1>4. Sound(pool') /\ Pending(pool') \subseteq Pending(pool) \cup {tx}
  BY <1>1, <1>2, <1>3, AddRevealSound
<1>5. InputsExist(state, tx) /\ CommitmentLive(state, tx)
  BY <1>1 DEF validate_reveal
<1>6. Minable(pool', state)
  BY <1>3, <1>4, <1>5 DEF Minable
<1>7. QED BY <1>4, <1>6 DEF SubmitReveal, PoolInv, Typed, Evaluating

LEMMA PunishStep ==
    ASSUME PoolInv, NEW tx \in Tx, NEW k \in Key, PunishReuse(tx, k)
    PROVE  PoolInv'
BY DEF PunishReuse, PoolInv, Typed, Evaluating

LEMMA ReceiveStep ==
    ASSUME PoolInv, NEW fork \in 0..Len(chain), Receive(fork)
    PROVE  PoolInv'
<1>1. chain \in Seq(TrackedBlock) /\ state \in TrackedState /\ Len(chain) \in Nat /\ fork \in Nat
  BY DEF PoolInv, Typed
<1>2. StateAt(fork) \in TrackedState /\ (fork = Len(chain) => StateAt(fork) = state)
  <2>1. CASE fork = Len(chain)
    BY <2>1, <1>1 DEF StateAt
  <2>2. CASE fork # Len(chain)
    <3>1. fork + 1 \in 1..Len(chain)
      BY <1>1, <2>2
    <3>2. chain[fork + 1] \in TrackedBlock
      BY <1>1, <3>1
    <3>3. QED BY <2>2, <3>2 DEF StateAt, TrackedBlock
  <2>3. QED BY <2>1, <2>2
<1>3. work' = [phase |-> "evaluate", fork |-> fork, before |-> StateAt(fork),
               state |-> StateAt(fork), blocks |-> <<>>, txs |-> <<>>]
  BY DEF Receive, NoWork
<1>4. work' \in WorkType
  <2>1. <<>> \in Seq(TrackedBlock) /\ <<>> \in Seq(Entry)
    BY EmptySeq
  <2>2. QED BY <1>1, <1>2, <1>3, <2>1 DEF WorkType
<1>5. /\ UNCHANGED <<state, chain, branch, pool, spent, active_burns, scene>>
      /\ fork = Len(chain) \/ branch < MaxReorgs
      /\ work.phase = "quiet"
  BY DEF Receive, Quiet
<1>6. Evaluating'
  <2>1. work'.before.coins \ SpentBy(work'.txs) \subseteq work'.state.coins
    BY <1>3
  <2>2. fork <= Len(chain)
    BY <1>1
  <2>3. fork < Len(chain) => branch < MaxReorgs
    BY <1>1, <1>5
  <2>4. fork = Len(chain) => work'.before = state
    BY <1>2, <1>3
  <2>5. Len(work'.blocks) = 0
    BY <1>3
  <2>6. QED BY <1>3, <1>5, <2>1, <2>2, <2>3, <2>4, <2>5 DEF Evaluating
<1>7. Typed'
  BY <1>4, <1>5 DEF PoolInv, Typed
<1>8. QED BY <1>3, <1>5, <1>6, <1>7 DEF PoolInv

LEMMA IncludeStep ==
    ASSUME PoolInv, work.phase = "evaluate", NEW e \in Entry, NEW r, Include(e, r),
           r.state \in TrackedState,
           e.kind = "commit" => work.state.coins \subseteq r.state.coins,
           e.kind = "reveal" => work.state.coins \ Inputs(e.tx) \subseteq r.state.coins
    PROVE  PoolInv'
<1>1. work \in WorkType
  BY DEF PoolInv, Typed
<1>2. work.txs \in Seq(Entry)
  BY <1>1 DEF WorkType
<1>3. work' = [work EXCEPT !.state = r.state, !.txs = Append(work.txs, e)]
  BY DEF Include
<1>4. Append(work.txs, e) \in Seq(Entry)
  BY <1>2, SpentByAppend
<1>5. /\ work' \in WorkType /\ work'.state = r.state /\ work'.txs = Append(work.txs, e)
      /\ work'.phase = work.phase /\ work'.fork = work.fork /\ work'.before = work.before
      /\ work'.blocks = work.blocks
  BY <1>1, <1>3, <1>4 DEF WorkType
<1>6. UNCHANGED <<state, chain, branch, pool, spent, active_burns, scene>>
  BY DEF Include
<1>7. work.before.coins \ SpentBy(Append(work.txs, e)) \subseteq r.state.coins
  <2>1. work.before.coins \ SpentBy(work.txs) \subseteq work.state.coins
    BY DEF PoolInv, Evaluating
  <2>2. CASE e.kind = "commit"
    <3>1. SpentBy(Append(work.txs, e)) = SpentBy(work.txs)
      BY <1>2, <2>2, SpentByAppend
    <3>2. QED BY <2>1, <2>2, <3>1
  <2>3. CASE e.kind = "reveal"
    <3>1. SpentBy(Append(work.txs, e)) = SpentBy(work.txs) \cup Inputs(e.tx)
      BY <1>2, <2>3, SpentByAppend
    <3>2. QED BY <2>1, <2>3, <3>1
  <2>4. e.kind = "commit" \/ e.kind = "reveal"
    BY DEF Entry
  <2>5. QED BY <2>2, <2>3, <2>4
<1>8. Evaluating'
  BY <1>5, <1>6, <1>7 DEF PoolInv, Evaluating
<1>9. Typed'
  BY <1>5, <1>6 DEF PoolInv, Typed
<1>10. QED BY <1>5, <1>6, <1>8, <1>9 DEF PoolInv

LEMMA IncludeCommitStep ==
    ASSUME PoolInv, NEW pow \in Broadcast, IncludeCommit(pow)
    PROVE  PoolInv'
<1> DEFINE e == [kind |-> "commit", pow |-> pow]
           r == apply_commit(work.state, pow)
<1>1. work.phase = "evaluate" /\ Include(e, r)
  BY DEF IncludeCommit
<1>2. pow \in Pow /\ pow.tx \in Tx
  BY DEF Broadcast, Pow
<1>3. e \in Entry /\ e.kind = "commit"
  BY <1>2 DEF Entry
<1>4. work.state \in State /\ Tracked(work.state)
  BY DEF PoolInv, Typed, WorkType, TrackedState
<1>5. r.state \in TrackedState
  BY <1>2, <1>4, CommitTracked DEF TrackedState
<1>6. r.state.coins = work.state.coins
  BY <1>4, CommitCoins
<1> HIDE DEF e, r
<1>7. e.kind # "reveal"
  BY <1>3
<1>8. QED BY <1>1, <1>3, <1>5, <1>6, <1>7, IncludeStep

LEMMA IncludeRevealStep ==
    ASSUME PoolInv, NEW tx \in Tx, NEW size \in TxSizes(tx), IncludeReveal(tx, size)
    PROVE  PoolInv'
<1> DEFINE e == [kind |-> "reveal", tx |-> tx, size |-> size]
           r == apply_transaction_no_sig_check(work.state, tx)
<1>1. work.phase = "evaluate" /\ Include(e, r)
  BY DEF IncludeReveal
<1>2. size \in Nat \ {0}
  BY PoolAssumption
<1>3. e \in Entry /\ e.kind = "reveal" /\ e.tx = tx
  BY <1>2 DEF Entry
<1>4. work.state \in State /\ Tracked(work.state)
  BY DEF PoolInv, Typed, WorkType, TrackedState
<1>5. r.state \in TrackedState
  BY <1>4, RevealTracked DEF TrackedState
<1>6. work.state.coins \ Inputs(tx) \subseteq r.state.coins
  BY <1>4, RevealKeeps DEF Inputs
<1> HIDE DEF e, r
<1>7. e.kind # "commit"
  BY <1>3
<1>8. QED BY <1>1, <1>3, <1>5, <1>6, <1>7, IncludeStep

LEMMA SealStep == ASSUME PoolInv, SealBlock PROVE PoolInv'
<1> DEFINE s == EndBlock(work.state)
           sealed == [before |-> work.before, txs |-> work.txs,
                      branch |-> IF work.fork = Len(chain) THEN branch ELSE branch + 1]
<1>0. /\ work.phase = "evaluate"
      /\ work' = [work EXCEPT !.before = s, !.state = s, !.txs = <<>>,
                              !.blocks = Append(work.blocks, sealed)]
      /\ UNCHANGED <<state, chain, branch, pool, spent, active_burns, scene>>
  BY DEF SealBlock
<1>1. /\ work \in WorkType /\ chain \in Seq(TrackedBlock) /\ Len(chain) \in Nat
      /\ branch \in 0..MaxReorgs /\ MaxReorgs \in Nat
  BY PoolAssumption DEF PoolInv, Typed
<1>2. /\ work.state \in State /\ Tracked(work.state) /\ work.before \in TrackedState
      /\ work.txs \in Seq(Entry) /\ work.blocks \in Seq(TrackedBlock) /\ work.fork \in Nat
  BY <1>1 DEF WorkType, TrackedState
<1>3. s \in TrackedState /\ s.coins = work.state.coins
  BY <1>2, EndBlockTracked, EndKeeps DEF TrackedState
<1>4. /\ work.fork <= Len(chain)
      /\ work.fork < Len(chain) => branch < MaxReorgs
      /\ work.before.coins \ SpentBy(work.txs) \subseteq work.state.coins
      /\ work.fork = Len(chain) /\ Len(work.blocks) = 0 => work.before = state
  BY <1>0 DEF PoolInv, Evaluating
<1>5. sealed \in TrackedBlock /\ sealed.txs = work.txs
  <2> DEFINE b == IF work.fork = Len(chain) THEN branch ELSE branch + 1
  <2>1. b \in 0..MaxReorgs
    BY <1>1, <1>2, <1>4
  <2>2. work.before \in State
    BY <1>2 DEF TrackedState
  <2> HIDE DEF b
  <2>3. [before |-> work.before, txs |-> work.txs, branch |-> b] \in TrackedBlock
    BY <1>2, <2>1, <2>2 DEF TrackedBlock, Block
  <2>4. QED BY <2>3 DEF b
<1> HIDE DEF s, sealed
<1>6. <<>> \in Seq(Entry) /\ Append(work.blocks, sealed) \in Seq(TrackedBlock)
  BY <1>2, <1>5, EmptySeq
<1>7. /\ work' \in WorkType /\ work'.before = s /\ work'.state = s /\ work'.txs = <<>>
      /\ work'.blocks = Append(work.blocks, sealed) /\ work'.phase = "evaluate"
      /\ work'.fork = work.fork
  BY <1>0, <1>1, <1>3, <1>6 DEF WorkType
<1>8. /\ Len(Append(work.blocks, sealed)) = Len(work.blocks) + 1 /\ Len(work.blocks) \in Nat
      /\ Len(work.blocks) = 0 => Append(work.blocks, sealed)[1] = sealed
  BY <1>2
<1>9. Evaluating'
  <2>1. work'.before.coins \ SpentBy(work'.txs) \subseteq work'.state.coins
    BY <1>7
  <2>2. Len(work'.blocks) # 0
    BY <1>7, <1>8
  <2>3. ASSUME work.fork = Len(chain), Len(work'.blocks) = 1
        PROVE  state.coins \ SpentBy(work'.blocks[1].txs) \subseteq work'.before.coins
    <3>1. Len(work.blocks) = 0
      BY <2>3, <1>7, <1>8
    <3>2. work'.blocks[1].txs = work.txs /\ work.before = state
      BY <2>3, <3>1, <1>4, <1>5, <1>7, <1>8
    <3>3. QED BY <3>2, <1>3, <1>4, <1>7
  <2>4. QED BY <1>0, <1>4, <1>7, <2>1, <2>2, <2>3 DEF Evaluating
<1>10. Typed'
  BY <1>0, <1>7 DEF PoolInv, Typed
<1>11. QED BY <1>0, <1>7, <1>9, <1>10 DEF PoolInv

\* What a successful evaluation installs.
LEMMA AdoptType ==
    ASSUME PoolInv, Adopt
    PROVE  /\ state' = work.state /\ chain' = Candidate
           /\ state' \in TrackedState /\ chain' \in Seq(TrackedBlock)
           /\ work.blocks \in Seq(TrackedBlock) /\ work.phase = "evaluate"
           /\ work.before.coins \subseteq state'.coins
<1>1. /\ state' = work.state /\ chain' = Candidate /\ work.phase = "evaluate" /\ work.txs = <<>>
  BY DEF Adopt
<1>2. /\ work.state \in TrackedState /\ work.blocks \in Seq(TrackedBlock) /\ work.fork \in Nat
      /\ chain \in Seq(TrackedBlock) /\ Len(chain) \in Nat /\ work.fork <= Len(chain)
      /\ work.before.coins \ SpentBy(work.txs) \subseteq work.state.coins
  BY <1>1 DEF PoolInv, Typed, WorkType, Evaluating
<1>3. SubSeq(chain, 1, work.fork) \in Seq(TrackedBlock)
  <2>1. \A i \in 1..work.fork : chain[i] \in TrackedBlock
    <3>1. \A i \in 1..work.fork : i \in 1..Len(chain)
      BY <1>2
    <3>2. QED BY <1>2, <3>1
  <2>2. QED BY <1>2, <2>1, SubSeqProperties
<1>4. Candidate \in Seq(TrackedBlock)
  BY <1>2, <1>3, ConcatProperties DEF Candidate
<1>5. SpentBy(work.txs) = {}
  BY <1>1, SpentByNothing
<1>6. QED BY <1>1, <1>2, <1>4, <1>5

\* A pending reveal that survives prune_on_new_block spends nothing the block
\* spent, and its commitment is still recorded.
LEMMA NewBlockStep ==
    ASSUME PoolInv, NEW records \in BOOLEAN, NewBlock(records)
    PROVE  PoolInv'
<1> DEFINE txs == work.blocks[1].txs
<1>0. /\ Adopt /\ work.fork = Len(chain) /\ Len(work.blocks) = 1
      /\ spent' = IF records THEN burn_batch_addresses(spent, work.blocks) ELSE spent
      /\ pool' = prune_on_new_block(pool, state', txs)
      /\ work' = NoWork' /\ UNCHANGED <<branch, active_burns, scene>>
  BY DEF NewBlock
<1>1. /\ state' \in TrackedState /\ chain' \in Seq(TrackedBlock)
      /\ work.blocks \in Seq(TrackedBlock) /\ work.phase = "evaluate"
      /\ work.before.coins \subseteq state'.coins
  BY <1>0, AdoptType
<1>2. spent' \in [Key -> Tx \cup {NoTx}]
  <2>1. work.blocks \in Seq(Block) /\ spent \in [Key -> Tx \cup {NoTx}]
    BY <1>1, TrackedBlocks DEF PoolInv, Typed
  <2>2. QED BY <1>0, <2>1, BurnType
<1>3. work' \in WorkType /\ work'.phase = "quiet"
  BY <1>0, <1>1, NoWorkType DEF NoWork
<1>4. Typed'
  BY <1>0, <1>1, <1>2, <1>3 DEF PoolInv, Typed
<1>5. state.coins \ SpentBy(txs) \subseteq state'.coins
  BY <1>0, <1>1 DEF PoolInv, Evaluating
<1>6. Sound(pool) /\ Minable(pool, state)
  BY <1>1 DEF PoolInv
<1> HIDE DEF txs
<1>7. /\ Sound(pool') /\ Pending(pool') \subseteq Pending(pool)
      /\ \A tx \in Pending(pool') :
            ~CommitmentDead(state', tx)
            /\ \A c \in SpentBy(txs) : pool.txs_by_input[c] = NoTx \/ pool.txs_by_input[c] # tx
  BY <1>0, <1>6, PruneBlockSound
<1>8. ASSUME NEW tx \in Pending(pool')
      PROVE  InputsExist(state', tx) /\ CommitmentLive(state', tx)
  <2>1. tx \in Tx /\ tx \in Pending(pool) /\ tx # NoTx
    BY <1>7, PendingFinite, PoolAssumption
  <2>2. ASSUME NEW c \in Inputs(tx) PROVE c \in state'.coins
    <3>1. c \in Coin /\ c \in state.coins
      BY <1>6, <2>1, InputsType DEF Minable, InputsExist, Inputs
    <3>2. pool.txs_by_input[c] = tx
      BY <1>6, <2>1, <3>1 DEF Sound, IndexesAgree
    <3>3. c \notin SpentBy(txs)
      BY <1>7, <2>1, <3>2
    <3>4. QED BY <1>5, <3>1, <3>3
  <2>3. InputsExist(state', tx)
    BY <2>2 DEF InputsExist, Inputs
  <2>4. CommitmentLive(state', tx)
    <3>1. state'.commitment_heights[tx] # None
          /\ ~(saturating_sub(state'.height, state'.commitment_heights[tx]) > TTL)
      BY <1>7 DEF CommitmentDead
    <3>2. tx \in state'.commitments
      BY <1>1, <2>1, <3>1 DEF TrackedState, Tracked, Dated
    <3>3. state'.height \in Nat /\ state'.commitment_heights[tx] \in Nat
      BY <1>1, <2>1, <3>1 DEF TrackedState, State
    <3>4. saturating_sub(state'.height, state'.commitment_heights[tx]) \in Nat /\ TTL \in Nat
      BY <3>3, EraAssumption DEF saturating_sub
    <3>5. QED BY <3>1, <3>2, <3>4 DEF CommitmentLive
  <2>5. QED BY <2>3, <2>4
<1>9. Minable(pool', state')
  BY <1>8 DEF Minable
<1>10. QED BY <1>3, <1>4, <1>7, <1>9 DEF PoolInv, Evaluating

\* prune_invalid leaves only what can be mined.
LEMMA PruneInvalidMinable ==
    ASSUME NEW p, Sound(p), NEW s \in TrackedState, NEW blocks
    PROVE  Sound(prune_invalid(p, s, blocks)) /\ Minable(prune_invalid(p, s, blocks), s)
<1> DEFINE q == prune_invalid(p, s, blocks)
<1>1. /\ Sound(q)
      /\ \A tx \in Pending(q) : /\ tx \in Tx /\ InputsExist(s, tx) /\ tx \in s.commitments
                                /\ ~CommitmentDead(s, tx)
  BY PruneInvalidSound
<1> HIDE DEF q
<1>2. ASSUME NEW tx \in Pending(q) PROVE CommitmentLive(s, tx)
  <2>1. s.commitment_heights[tx] # None
        /\ ~(saturating_sub(s.height, s.commitment_heights[tx]) > TTL)
    BY <1>1 DEF CommitmentDead
  <2>2. s.height \in Nat /\ s.commitment_heights[tx] \in Nat
    BY <1>1, <2>1 DEF TrackedState, State
  <2>3. saturating_sub(s.height, s.commitment_heights[tx]) \in Nat /\ TTL \in Nat
    BY <2>2, EraAssumption DEF saturating_sub
  <2>4. QED BY <1>1, <2>1, <2>3 DEF CommitmentLive
<1>3. QED BY <1>1, <1>2 DEF Minable, q

LEMMA ExtensionStep == ASSUME PoolInv, LinearExtension PROVE PoolInv'
<1>0. /\ Adopt /\ spent' = burn_batch_addresses(spent, work.blocks)
      /\ pool' = prune_invalid(pool, state', chain')
      /\ work' = NoWork' /\ UNCHANGED <<branch, active_burns, scene>>
  BY DEF LinearExtension
<1>1. /\ state' \in TrackedState /\ chain' \in Seq(TrackedBlock)
      /\ work.blocks \in Seq(TrackedBlock)
  BY <1>0, AdoptType
<1>2. spent' \in [Key -> Tx \cup {NoTx}]
  <2>1. work.blocks \in Seq(Block) /\ spent \in [Key -> Tx \cup {NoTx}]
    BY <1>1, TrackedBlocks DEF PoolInv, Typed
  <2>2. QED BY <1>0, <2>1, BurnType
<1>3. work' \in WorkType /\ work'.phase = "quiet"
  BY <1>0, <1>1, NoWorkType DEF NoWork
<1>4. Typed'
  BY <1>0, <1>1, <1>2, <1>3 DEF PoolInv, Typed
<1>5. Sound(pool') /\ Minable(pool', state')
  BY <1>0, <1>1, PruneInvalidMinable DEF PoolInv
<1>6. QED BY <1>3, <1>4, <1>5 DEF PoolInv, Evaluating

LEMMA ReorgStep == ASSUME PoolInv, Reorg PROVE PoolInv'
<1> DEFINE abandoned == SubSeq(chain, work.fork + 1, Len(chain))
<1>0. /\ Adopt /\ work.fork < Len(chain)
      /\ spent' = burn_batch_addresses(unburn_batch_addresses(spent, abandoned), work.blocks)
      /\ work' = [NoWork' EXCEPT !.phase = "restore", !.blocks = abandoned]
      /\ branch' = branch + 1 /\ UNCHANGED <<pool, active_burns, scene>>
  BY DEF Reorg
<1>1. /\ state' \in TrackedState /\ chain' \in Seq(TrackedBlock)
      /\ work.blocks \in Seq(TrackedBlock) /\ work.phase = "evaluate"
  BY <1>0, AdoptType
<1>2. /\ chain \in Seq(TrackedBlock) /\ Len(chain) \in Nat /\ work.fork \in Nat
      /\ branch \in 0..MaxReorgs /\ MaxReorgs \in Nat /\ branch < MaxReorgs
  BY <1>0, <1>1, PoolAssumption DEF PoolInv, Typed, WorkType, Evaluating
<1>3. abandoned \in Seq(TrackedBlock)
  <2>1. \A i \in (work.fork + 1)..Len(chain) : i \in 1..Len(chain)
    BY <1>2
  <2>2. \A i \in (work.fork + 1)..Len(chain) : chain[i] \in TrackedBlock
    BY <1>2, <2>1
  <2>3. work.fork + 1 \in Int /\ Len(chain) \in Int
    BY <1>2
  <2>4. QED BY <2>2, <2>3, SubSeqProperties
<1> HIDE DEF abandoned
<1>4. spent' \in [Key -> Tx \cup {NoTx}]
  <2>1. /\ work.blocks \in Seq(Block) /\ spent \in [Key -> Tx \cup {NoTx}]
    BY <1>1, TrackedBlocks DEF PoolInv, Typed
  <2>2. unburn_batch_addresses(spent, abandoned) \in [Key -> Tx \cup {NoTx}]
    BY <2>1, UnburnType
  <2>3. QED BY <1>0, <2>1, <2>2, BurnType
<1>5. work' = [phase |-> "restore", fork |-> 0, before |-> state', state |-> state',
               blocks |-> abandoned, txs |-> <<>>]
  BY <1>0 DEF NoWork
<1>6. work' \in WorkType /\ work'.phase = "restore"
  <2>1. <<>> \in Seq(Entry)
    BY EmptySeq
  <2>2. QED BY <1>1, <1>3, <1>5, <2>1 DEF WorkType
<1>7. branch' \in 0..MaxReorgs
  BY <1>0, <1>2
<1>8. Typed'
  BY <1>0, <1>1, <1>4, <1>6, <1>7 DEF PoolInv, Typed
<1>9. Sound(pool')
  BY <1>0 DEF PoolInv
<1>10. QED BY <1>6, <1>8, <1>9 DEF PoolInv, Evaluating

LEMMA ReAddStep == ASSUME PoolInv, ReAdd PROVE PoolInv'
<1>0. /\ work.phase = "restore" /\ work.blocks # <<>>
      /\ UNCHANGED <<state, chain, branch, spent, active_burns, scene>>
  BY DEF ReAdd
<1>1. /\ work \in WorkType /\ work.blocks \in Seq(TrackedBlock) /\ Sound(pool)
  BY DEF PoolInv, Typed, WorkType
<1>2. /\ Head(work.blocks) = work.blocks[1] /\ Tail(work.blocks) \in Seq(TrackedBlock)
      /\ work.blocks[1] \in TrackedBlock /\ 1 \in DOMAIN work.blocks
  <2>1. Len(work.blocks) >= 1 /\ Len(work.blocks) \in Nat
    BY <1>0, <1>1, EmptySeq
  <2>2. QED BY <1>0, <1>1, <2>1, HeadTailProperties
<1> DEFINE b == work.blocks[1]
<1>3. b \in Block /\ b.before \in TrackedState /\ b.txs \in Seq(Entry)
  BY <1>2 DEF TrackedBlock, Block
<1>4. /\ work' \in WorkType /\ work'.phase = "restore" /\ Sound(pool')
  <2>1. CASE b.txs = <<>>
    <3>1. work' = [work EXCEPT !.blocks = Tail(work.blocks)] /\ pool' = pool
      BY <2>1, <1>2 DEF ReAdd
    <3>2. QED BY <3>1, <1>0, <1>1, <1>2 DEF WorkType
  <2>2. CASE b.txs # <<>>
    <3>1. /\ pool' = re_add(pool, Head(b.txs), state, chain)
          /\ work' = [work EXCEPT !.blocks[1].txs = Tail(b.txs)]
      BY <2>2, <1>2 DEF ReAdd
    <3>2. Head(b.txs) \in Entry /\ Tail(b.txs) \in Seq(Entry)
      BY <2>2, <1>3, HeadTailProperties
    <3>3. Sound(pool')
      BY <3>1, <3>2, <1>1, ReAddSound
    <3> DEFINE c == [b EXCEPT !.txs = Tail(b.txs)]
               blocks == [work.blocks EXCEPT ![1] = c]
    <3>4. c \in TrackedBlock
      BY <1>3, <3>2 DEF TrackedBlock, Block
    <3>5. blocks \in Seq(TrackedBlock)
      <4> HIDE DEF c
      <4>1. QED BY <1>1, <1>2, <3>4, ExceptSeq
    <3>6. work' = [work EXCEPT !.blocks = blocks]
      BY <3>1
    <3> HIDE DEF blocks
    <3>7. QED BY <3>3, <3>5, <3>6, <1>0, <1>1 DEF WorkType
  <2>3. QED BY <2>1, <2>2
<1>5. Typed'
  BY <1>0, <1>4 DEF PoolInv, Typed
<1>6. QED BY <1>4, <1>5 DEF PoolInv, Evaluating

LEMMA FinishStep == ASSUME PoolInv, FinishReorg PROVE PoolInv'
<1>0. /\ pool' = prune_invalid(pool, state, chain) /\ work' = NoWork
      /\ UNCHANGED <<state, chain, branch, spent, active_burns, scene>>
  BY DEF FinishReorg
<1>1. state \in TrackedState /\ Sound(pool)
  BY DEF PoolInv, Typed
<1>2. work' \in WorkType /\ work'.phase = "quiet"
  BY <1>0, <1>1, NoWorkType DEF NoWork
<1>3. Sound(pool') /\ Minable(pool', state')
  BY <1>0, <1>1, PruneInvalidMinable
<1>4. Typed'
  BY <1>0, <1>2 DEF PoolInv, Typed
<1>5. QED BY <1>2, <1>3, <1>4 DEF PoolInv, Evaluating

LEMMA RestartStep == ASSUME PoolInv, Restart PROVE PoolInv'
<1>0. /\ state' = deserialize_state(state) /\ pool' = EmptyPool /\ active_burns' = {}
      /\ work' = NoWork' /\ UNCHANGED <<chain, branch, spent, scene>>
  BY DEF Restart
<1>1. state \in State /\ Tracked(state)
  BY DEF PoolInv, Typed, TrackedState
<1>2. state' \in TrackedState
  <2>1. /\ Dated(state) = state.commitments
        /\ \A c \in state.commitments : state.commitment_heights[c] <= state.height
                                          /\ state.height - state.commitment_heights[c] <= TTL
    BY <1>1 DEF Tracked
  <2>2. QED BY <1>0, <1>1, <2>1, ReloadTracked DEF TrackedState
<1>3. work' \in WorkType /\ work'.phase = "quiet"
  BY <1>0, <1>2, NoWorkType DEF NoWork
<1>4. Typed'
  BY <1>0, <1>2, <1>3 DEF PoolInv, Typed
<1>5. Sound(pool') /\ Minable(pool', state')
  BY <1>0, EmptySound DEF Minable
<1>6. QED BY <1>3, <1>4, <1>5 DEF PoolInv, Evaluating

LEMMA PoolStep == ASSUME PoolInv, [Next]_vars PROVE PoolInv'
<1>1. CASE UNCHANGED vars
  BY <1>1 DEF vars, PoolInv, Typed, Evaluating
<1>2. scene.txs \subseteq Tx
  BY StartAssumption DEF PoolInv, Typed
<1>3. CASE Next
  <2>1. CASE \E pow \in Broadcast : SubmitCommit(pow) \/ IncludeCommit(pow)
    BY <2>1, SubmitCommitStep, IncludeCommitStep
  <2>2. CASE \E tx \in scene.txs : \E size \in TxSizes(tx) :
               SubmitReveal(tx, size) \/ IncludeReveal(tx, size)
    BY <1>2, <2>2, SubmitRevealStep, IncludeRevealStep
  <2>3. CASE \E tx \in scene.txs, k \in Key : PunishReuse(tx, k)
    BY <1>2, <2>3, PunishStep
  <2>4. CASE \E fork \in 0..Len(chain) : Receive(fork)
    BY <2>4, ReceiveStep
  <2>5. CASE \E records \in BOOLEAN : NewBlock(records)
    BY <2>5, NewBlockStep
  <2>6. QED BY <1>3, <2>1, <2>2, <2>3, <2>4, <2>5, SealStep, ExtensionStep, ReorgStep,
               ReAddStep, FinishStep, RestartStep DEF Next
<1>4. QED BY <1>1, <1>3

LEMMA PoolInvariant == Spec => []PoolInv
BY PoolInit, PoolStep, PTL DEF Spec
-----------------------------------------------------------------------------
(***************************************************************************)
(* The theorems.                                                           *)
(***************************************************************************)
LEMMA PoolInvType == ASSUME PoolInv PROVE TypeOK
<1>1. /\ state \in State /\ chain \in Seq(Block) /\ branch \in 0..MaxReorgs
      /\ spent \in [Key -> Tx \cup {NoTx}] /\ active_burns \subseteq Key
  BY TrackedBlocks DEF PoolInv, Typed, TrackedState
<1>2. pool \in MempoolType
  BY DEF PoolInv, Sound
<1>3. work \in [phase : {"quiet", "evaluate", "restore"}, fork : Nat, before : State,
                state : State, blocks : Seq(Block), txs : Seq(Entry)]
  <2>1. work \in WorkType
    BY DEF PoolInv, Typed
  <2>2. work.blocks \in Seq(Block)
    BY <2>1, TrackedBlocks DEF WorkType
  <2>3. QED BY <2>1, <2>2 DEF WorkType, TrackedState
<1>4. QED BY <1>1, <1>2, <1>3 DEF TypeOK

\* The pool's fields have their types, its indexes describe the same
\* transactions and its byte counter is exact after any mix of submission,
\* replacement, eviction, pruning, restoring and restart (mempool.rs).
THEOREM PoolCorrect == Spec => []PoolConsistent
<1>1. PoolInv => PoolConsistent
  BY PoolInvType DEF PoolInv, Sound, PoolConsistent
<1>2. QED BY <1>1, PoolInvariant, PTL

\* Between events, every pending reveal can still be mined: its coins exist
\* and its commitment is alive on this chain (prune_on_new_block,
\* prune_invalid).
THEOREM MinableCorrect == Spec => []RevealsMinable
<1>1. PoolInv => RevealsMinable
  BY DEF PoolInv, RevealsMinable, Quiet, Minable
<1>2. QED BY <1>1, PoolInvariant, PTL

\* The weakest commit exists when the pool of commits is full.
LEMMA WeakestCommit ==
    ASSUME NEW p, Sound(p), p.commits # {}
    PROVE  \E e \in p.commits_by_pow : \A f \in p.commits_by_pow : ~Before(f, e)
<1> DEFINE index == p.commits_by_pow
           bits == {e[1] : e \in index}
<1>1. /\ index \in SUBSET (Nat \X Tx) /\ index # {}
  <2>1. /\ p.commits_by_pow \in SUBSET (Nat \X Tx)
        /\ p.commits_by_pow = {<<pow.bits, pow.tx>> : pow \in p.commits}
    BY DEF Sound, MempoolType, IndexesAgree
  <2>2. PICK pow \in p.commits : TRUE
    OBVIOUS
  <2>3. <<pow.bits, pow.tx>> \in p.commits_by_pow
    BY <2>1
  <2>4. QED BY <2>1, <2>3
<1>2. \A e \in index : e[1] \in Nat /\ e[2] \in Tx /\ TxRank[e[2]] \in Nat
  BY <1>1, PoolAssumption
<1> HIDE DEF index
<1>3. bits \in SUBSET Nat /\ bits # {}
  BY <1>1, <1>2
<1>4. PICK m \in bits : \A x \in bits : ~(<<x, m>> \in OpToRel(<, Nat))
  <2> HIDE DEF bits
  <2>1. QED BY <1>3, NatLessThanWellFounded, WFMin
<1>5. \A x \in bits : ~(x < m)
  BY <1>3, <1>4 DEF OpToRel
<1> DEFINE ranks == {TxRank[e[2]] : e \in {f \in index : f[1] = m}}
<1>6. ranks \in SUBSET Nat /\ ranks # {}
  BY <1>2, <1>4
<1>7. PICK r \in ranks : \A x \in ranks : ~(<<x, r>> \in OpToRel(<, Nat))
  <2> HIDE DEF ranks
  <2>1. QED BY <1>6, NatLessThanWellFounded, WFMin
<1>8. \A x \in ranks : ~(x < r)
  BY <1>6, <1>7 DEF OpToRel
<1>9. PICK e \in index : e[1] = m /\ TxRank[e[2]] = r
  BY <1>7
<1>10. ASSUME NEW f \in index PROVE ~Before(f, e)
  <2>1. ~(f[1] < e[1])
    BY <1>5, <1>9
  <2>2. f[1] = e[1] => ~(TxRank[f[2]] < TxRank[e[2]])
    BY <1>8, <1>9
  <2>3. QED BY <2>1, <2>2 DEF Before
<1>11. QED BY <1>9, <1>10 DEF index

\* A commit that comes into a full pool costs one that was there.
LEMMA CommitsBounded ==
    ASSUME NEW p, Sound(p), NEW pow \in Pow, NEW q \in add_commit(p, pow)
    PROVE  Cardinality(q.commits) <= Max({MAX_PENDING_COMMITS, Cardinality(p.commits)})
<1> DEFINE gone == {e[2] : e \in CommitVictims(p)}
           left == {x \in p.commits : x.tx \notin gone}
           n == Cardinality(p.commits)
<1>0. Sound(q) /\ q.commits = left \cup {pow} /\ pow \notin p.commits
  BY AddCommitSound
<1>1. IsFiniteSet(p.commits) /\ n \in Nat /\ MAX_PENDING_COMMITS \in Nat
      /\ MAX_PENDING_COMMITS >= 1
  BY FS_CardinalityType, PoolAssumption DEF Sound
<1>2. left \subseteq p.commits /\ pow \notin left
  BY <1>0
<1>3. IsFiniteSet(left) /\ Cardinality(left) \in Nat /\ Cardinality(left) <= n
  BY <1>1, <1>2, FS_Subset, FS_CardinalityType
<1>4. Cardinality(q.commits) = Cardinality(left) + 1
  BY <1>0, <1>2, <1>3, FS_AddElement
<1>m. \A a, b \in Nat : Max({a, b}) \in Nat /\ Max({a, b}) >= a /\ Max({a, b}) >= b
  <2> SUFFICES ASSUME NEW a \in Nat, NEW b \in Nat
               PROVE  Max({a, b}) \in Nat /\ Max({a, b}) >= a /\ Max({a, b}) >= b
    OBVIOUS
  <2>1. \E x \in {a, b} : \A y \in {a, b} : x >= y
    OBVIOUS
  <2>2. Max({a, b}) \in {a, b} /\ \A y \in {a, b} : Max({a, b}) >= y
    BY <2>1 DEF Max
  <2>3. QED BY <2>2
<1>5. CASE n < MAX_PENDING_COMMITS
  <2>1. Cardinality(left) + 1 <= MAX_PENDING_COMMITS
    BY <1>1, <1>3, <1>5
  <2> HIDE DEF n, left
  <2>2. QED BY <1>1, <1>3, <1>4, <1>m, <2>1 DEF n
<1>6. CASE ~(n < MAX_PENDING_COMMITS)
  <2>1. p.commits # {}
    BY <1>1, <1>6, FS_EmptySet
  <2>2. CommitVictims(p) # {} /\ CommitVictims(p) \subseteq p.commits_by_pow
    BY <1>6, <2>1, WeakestCommit DEF CommitVictims
  <2>3. PICK e \in CommitVictims(p) : e \in p.commits_by_pow
    BY <2>2
  <2>4. PICK x \in p.commits : e = <<x.bits, x.tx>>
    BY <2>3 DEF Sound, IndexesAgree
  <2>5. x.tx \in gone
    BY <2>3, <2>4
  <2>6. x \in p.commits \ left
    BY <2>4, <2>5
  <2>7. Cardinality(left) # n
    <3> HIDE DEF left
    <3>1. left \subseteq p.commits \ {x}
      BY <1>2, <2>6
    <3>2. IsFiniteSet(p.commits \ {x}) /\ Cardinality(p.commits \ {x}) = n - 1
      BY <1>1, <2>4, FS_RemoveElement
    <3>3. Cardinality(left) <= n - 1
      BY <3>1, <3>2, FS_Subset
    <3>4. QED BY <1>1, <1>3, <3>3
  <2>8. Cardinality(left) + 1 <= n
    BY <1>1, <1>3, <2>7
  <2> HIDE DEF n, left
  <2>9. QED BY <1>1, <1>3, <1>4, <1>m, <2>8 DEF n
<1>7. QED BY <1>5, <1>6

\* Submitting a reveal brings the pool within its limits and costs it only
\* reveals that pay less per byte.
LEMMA RevealBounded ==
    ASSUME PoolInv, NEW tx \in Tx, NEW size \in TxSizes(tx), SubmitReveal(tx, size)
    PROVE  /\ Cardinality(Pending(pool')) <= MAX_MEMPOOL_REVEALS
           /\ pool'.current_reveal_bytes <= MAX_MEMPOOL_BYTES
           /\ \A out \in Pending(pool) \ Pending(pool') :
                 compute_fee_rate(fee(tx), size) > Rate(pool, out)
<1>1. validate_reveal(tx, state) /\ pool' \in add_reveal(pool, tx, size) /\ Sound(pool)
  BY DEF SubmitReveal, PoolInv
<1>2. Inputs(tx) # {}
  BY <1>1, ValidSpends
<1>3. PICK gone \in SUBSET Pending(pool) :
         /\ Pending(pool') = (Pending(pool) \ gone) \cup {tx} /\ tx \notin Pending(pool) \ gone
         /\ pool'.current_reveal_bytes
              = (pool.current_reveal_bytes - SizeOf(pool, gone)) + size
         /\ pool.current_reveal_bytes - SizeOf(pool, gone) \in Nat
         /\ Fits(pool, gone, size)
         /\ Outbids(compute_fee_rate(fee(tx), size), pool, gone)
  BY <1>1, <1>2, AddRevealSound
<1>4. IsFiniteSet(Pending(pool) \ gone)
  BY PendingFinite, FS_Subset
<1>5. Cardinality(Pending(pool')) = Cardinality(Pending(pool) \ gone) + 1
  BY <1>3, <1>4, FS_AddElement
<1>6. Cardinality(Pending(pool')) <= MAX_MEMPOOL_REVEALS
  BY <1>3, <1>5 DEF Fits
<1>7. pool'.current_reveal_bytes <= MAX_MEMPOOL_BYTES
  <2>1. pool.current_reveal_bytes \in Nat /\ SizeOf(pool, gone) \in Nat
    <3>1. IsFiniteSet(gone) /\ \A x \in gone : pool.reveals[x] \in Nat
      BY <1>1, PendingFinite, FS_Subset DEF Sound, MempoolType
    <3>2. QED BY <1>1, <3>1, SumNat DEF Sound, MempoolType, SizeOf
  <2>2. saturating_sub(pool.current_reveal_bytes, SizeOf(pool, gone))
          = pool.current_reveal_bytes - SizeOf(pool, gone)
    BY <1>3, <2>1 DEF saturating_sub
  <2>3. QED BY <1>3, <2>2 DEF Fits
<1>8. \A out \in Pending(pool) \ Pending(pool') : out \in gone
  BY <1>3
<1>9. QED BY <1>3, <1>6, <1>7, <1>8 DEF Outbids

\* Submitting never overfills the pool, and what it evicts pays less per
\* byte than what it brings in (Mempool::add).
THEOREM SubmissionCorrect == Spec => SubmissionPaysOff
<1>1. ASSUME PoolInv PROVE KeepsBounds
  <2>1. ASSUME NEW tx \in Tx, NEW size \in TxSizes(tx), SubmitReveal(tx, size)
        PROVE  /\ Cardinality(Pending(pool')) <= MAX_MEMPOOL_REVEALS
               /\ pool'.current_reveal_bytes <= MAX_MEMPOOL_BYTES
    BY <1>1, <2>1, RevealBounded
  <2>2. ASSUME NEW pow \in Pow, SubmitCommit(pow)
        PROVE  Cardinality(pool'.commits)
                 <= Max({MAX_PENDING_COMMITS, Cardinality(pool.commits)})
    BY <1>1, <2>2, CommitsBounded DEF SubmitCommit, PoolInv
  <2>3. QED BY <2>1, <2>2 DEF KeepsBounds
<1>2. ASSUME PoolInv PROVE PaysOff
  BY <1>2, RevealBounded DEF PaysOff
<1>3. PoolInv => [KeepsBounds /\ PaysOff]_vars
  BY <1>1, <1>2
<1>4. QED BY <1>3, PoolInvariant, PTL DEF SubmissionPaysOff
=============================================================================
