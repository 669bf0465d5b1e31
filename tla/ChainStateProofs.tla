-------------------------- MODULE ChainStateProofs --------------------------
(***************************************************************************)
(* Lemmas about the operators of ChainState, for every value of its        *)
(* constants: what each function of apply_batch does to the commitments,   *)
(* to the coins' total value and to the coin tree's cache.                 *)
(***************************************************************************)
EXTENDS ChainState, SumProofs, TLAPS

\* What every State along the way satisfies: commitments and their heights
\* agree, every height is within the TTL window, and the expirations index
\* lists every live commitment under its height.  The last part is what the
\* index-based collector relies on.
Tracked(s) ==
    /\ Dated(s) = s.commitments
    /\ \A c \in s.commitments :
          /\ s.commitment_heights[c] <= s.height
          /\ s.height - s.commitment_heights[c] <= TTL
          /\ <<s.commitment_heights[c], c>> \in s.expirations

\* The coin cache is in the mode of the State's height.
CacheUniform(s) == s.coins_cache = Rebuilt(ModeAt(s.height), s.coins)
-----------------------------------------------------------------------------
\* Dropping commitments keeps a State well typed and tracked.
LEMMA DropType ==
    ASSUME NEW s \in State, NEW gone \in SUBSET Tx, NEW m \in {"v1", "v2"}
    PROVE  /\ DropCommitments(s, gone, m) \in State
           /\ DropCommitments(s, gone, m).height = s.height
           /\ DropCommitments(s, gone, m).expirations = s.expirations
           /\ DropCommitments(s, gone, m).coins = s.coins
           /\ DropCommitments(s, gone, m).commitments = s.commitments \ gone
           /\ \A c \in Tx : DropCommitments(s, gone, m).commitment_heights[c]
                = IF c \in gone THEN None ELSE s.commitment_heights[c]
BY DEF DropCommitments, State, Rehash, CacheMode, None

LEMMA DropTracked ==
    ASSUME NEW s \in State, NEW gone \in SUBSET Tx, NEW m \in {"v1", "v2"}, Tracked(s)
    PROVE  Tracked(DropCommitments(s, gone, m))
<1> DEFINE d == DropCommitments(s, gone, m)
<1>1. /\ d \in State /\ d.height = s.height /\ d.expirations = s.expirations
      /\ d.commitments = s.commitments \ gone
      /\ \A c \in Tx : d.commitment_heights[c]
                = IF c \in gone THEN None ELSE s.commitment_heights[c]
  BY DropType
<1> HIDE DEF d
<1>2. Dated(d) = d.commitments
  BY <1>1 DEF Tracked, Dated, State
<1>3. \A c \in d.commitments : c \in Tx /\ c \in s.commitments /\ c \notin gone
  BY <1>1 DEF State
<1>4. Tracked(d)
  BY <1>1, <1>2, <1>3 DEF Tracked
<1> QED BY <1>4 DEF d

\* Committing: the new entry is dated now and indexed under that date.
LEMMA CommitTracked ==
    ASSUME NEW s \in State, NEW pow, pow.tx \in Tx, Tracked(s)
    PROVE  LET r == apply_commit(s, pow)
           IN  /\ r.state \in State /\ Tracked(r.state)
               /\ r.state.height = s.height /\ r.ok \in BOOLEAN
<1> DEFINE r == apply_commit(s, pow)
<1>p. pow.tx \in Tx
  OBVIOUS
<1>1. CASE r = Err(s)
  BY <1>1 DEF Err
<1>2. CASE r # Err(s)
  <2> DEFINE now == s.commitments \cup {pow.tx}
             heights == [s.commitment_heights EXCEPT ![pow.tx] = s.height]
             index == s.expirations \cup {<<s.height, pow.tx>>}
             cache == Rehash(s.commitments_cache, ModeAt(s.height), now)
             n == [s EXCEPT !.commitments = now, !.commitment_heights = heights,
                            !.expirations = index, !.commitments_cache = cache]
  <2>1. r = Ok(n)
    BY <1>2 DEF apply_commit
  <2>a. /\ now \in SUBSET Tx /\ cache \in CacheMode
        /\ heights \in [Tx -> Nat \cup {None}] /\ index \in SUBSET (Nat \X Tx)
    BY <1>p DEF State, Rehash, ModeAt, CacheMode
  <2>f. /\ n \in State /\ n.height = s.height /\ n.commitments = now
        /\ n.expirations = index /\ n.commitment_heights = heights
    <3> HIDE DEF now, heights, index, cache
    <3> QED BY <2>a DEF State
  <2>2. /\ n \in State /\ n.height = s.height /\ n.commitments = now
        /\ n.expirations = s.expirations \cup {<<s.height, pow.tx>>}
        /\ n.commitment_heights = [s.commitment_heights EXCEPT ![pow.tx] = s.height]
    BY <2>f
  <2>t. s.commitment_heights \in [Tx -> Nat \cup {None}] /\ s.height \in Nat /\ TTL \in Nat
    BY EraAssumption DEF State
  <2> HIDE DEF n
  <2>3. /\ n.commitment_heights[pow.tx] = s.height
        /\ \A c \in Tx \ {pow.tx} : n.commitment_heights[c] = s.commitment_heights[c]
    BY <1>p, <2>2, <2>t
  <2>4. Dated(n) = n.commitments
    BY <1>p, <2>2, <2>3, <2>t DEF Dated, Tracked, None
  <2>5. Tracked(n)
    <3> SUFFICES ASSUME NEW c \in n.commitments
                 PROVE  /\ n.commitment_heights[c] <= n.height
                        /\ n.height - n.commitment_heights[c] <= TTL
                        /\ <<n.commitment_heights[c], c>> \in n.expirations
      BY <2>4 DEF Tracked
    <3>1. CASE c = pow.tx
      BY <3>1, <2>2, <2>3, <2>t
    <3>2. CASE c # pow.tx
      <4>1. c \in s.commitments /\ c \in Tx
        BY <3>2, <2>2 DEF State
      <4>2. QED BY <4>1, <3>2, <2>2, <2>3 DEF Tracked
    <3>3. QED BY <3>1, <3>2
  <2>6. QED BY <2>1, <2>2, <2>5 DEF Ok
<1>3. QED BY <1>1, <1>2

\* A reveal: whatever it returns, the State it leaves is tracked.
LEMMA ConsumeTracked ==
    ASSUME NEW s \in State, NEW tx \in Tx, Tracked(s)
    PROVE  /\ Consume(s, tx) \in State /\ Tracked(Consume(s, tx))
           /\ Consume(s, tx).height = s.height
<1>1. ModeAt(s.height) \in {"v1", "v2"}
  BY DEF ModeAt
<1>2. QED BY <1>1, DropType, DropTracked DEF Consume

LEMMA SpendTracked ==
    ASSUME NEW s \in State, NEW tx \in Tx, Tracked(s)
    PROVE  LET r == SpendAndCreate(s, tx)
           IN  /\ r.state \in State /\ Tracked(r.state)
               /\ r.state.height = s.height /\ r.ok \in BOOLEAN
               /\ r.state.commitments = s.commitments
               /\ r.state.commitment_heights = s.commitment_heights
               /\ r.state.expirations = s.expirations
<1> DEFINE r == SpendAndCreate(s, tx)
<1>1. PICK made \in SUBSET Coin, mode \in CacheMode :
        r.state = [s EXCEPT !.coins = made, !.coins_cache = mode] /\ r.ok \in BOOLEAN
  <2> DEFINE left == s.coins \ Range(TxIn[tx])
             Clash(i) == \/ TxOut[tx][i] \in left
                         \/ \E j \in 1..(i - 1) : TxOut[tx][j] = TxOut[tx][i]
             clashes == {i \in DOMAIN TxOut[tx] : Clash(i)}
             new == {TxOut[tx][i] : i \in {k \in DOMAIN TxOut[tx] :
                                            \A b \in clashes : k < b}}
             cache == Rehash(Rehash(s.coins_cache, ModeAt(s.height), left),
                             ModeAt(s.height), left \cup new)
             after == [s EXCEPT !.coins = left \cup new, !.coins_cache = cache]
  <2>1. r = IF clashes = {} THEN Ok(after) ELSE Err(after)
    BY DEF SpendAndCreate
  <2>2. \A i \in DOMAIN TxOut[tx] : TxOut[tx][i] \in Coin
    BY TxAssumption
  <2>3. left \cup new \in SUBSET Coin
    <3> HIDE DEF Clash
    <3> QED BY <2>2 DEF State
  <2>4. cache \in CacheMode
    BY DEF Rehash, ModeAt, CacheMode
  <2> HIDE DEF left, new, clashes, cache, r
  <2>5. r.state = after /\ r.ok \in BOOLEAN
    BY <2>1 DEF Ok, Err
  <2>6. QED BY <2>3, <2>4, <2>5
<1> HIDE DEF r
<1>2. /\ r.state \in State /\ r.state.height = s.height
      /\ r.state.commitments = s.commitments
      /\ r.state.commitment_heights = s.commitment_heights
      /\ r.state.expirations = s.expirations
  BY <1>1 DEF State
<1>3. Tracked(r.state)
  BY <1>2 DEF Tracked, Dated
<1>4. QED BY <1>1, <1>2, <1>3 DEF r

LEMMA RevealTracked ==
    ASSUME NEW s \in State, NEW tx \in Tx, Tracked(s)
    PROVE  LET r == apply_transaction_no_sig_check(s, tx)
           IN  /\ r.state \in State /\ Tracked(r.state)
               /\ r.state.height = s.height /\ r.ok \in BOOLEAN
<1>1. /\ Consume(s, tx) \in State /\ Tracked(Consume(s, tx))
      /\ Consume(s, tx).height = s.height
  BY ConsumeTracked
<1>2. LET r == SpendAndCreate(Consume(s, tx), tx)
      IN  /\ r.state \in State /\ Tracked(r.state)
          /\ r.state.height = s.height /\ r.ok \in BOOLEAN
  BY <1>1, SpendTracked
<1>3. CASE ~WellFormed(tx) \/ ~CommitmentLive(s, tx)
  BY <1>3 DEF apply_transaction_no_sig_check, Err
<1>4. CASE WellFormed(tx) /\ CommitmentLive(s, tx) /\ ~InputsExist(s, tx)
  BY <1>1, <1>4 DEF apply_transaction_no_sig_check, Err
<1>5. CASE WellFormed(tx) /\ CommitmentLive(s, tx) /\ InputsExist(s, tx)
  BY <1>2, <1>5 DEF apply_transaction_no_sig_check
<1>6. QED BY <1>3, <1>4, <1>5

LEMMA AdvanceFields ==
    ASSUME NEW s \in State
    PROVE  LET a == AdvanceHeight(s)
           IN  /\ a \in State /\ a.height = s.height + 1
               /\ a.commitments = s.commitments
               /\ a.commitment_heights = s.commitment_heights
               /\ a.expirations = s.expirations /\ a.coins = s.coins
<1>1. Rebuilt("v2", s.coins) \in CacheMode /\ Rebuilt("v2", s.commitments) \in CacheMode
  BY DEF Rebuilt, CacheMode
<1>2. CASE s.height + 1 = V2Act
  <2> DEFINE c1 == Rebuilt("v2", s.coins)
             c2 == Rebuilt("v2", s.commitments)
  <2>1. AdvanceHeight(s) = [s EXCEPT !.height = s.height + 1, !.coins_cache = c1,
                                     !.commitments_cache = c2]
    BY <1>2 DEF AdvanceHeight
  <2>2. c1 \in CacheMode /\ c2 \in CacheMode
    BY <1>1
  <2>3. s.height + 1 \in Nat
    BY DEF State
  <2> DEFINE h == s.height + 1
             n == [s EXCEPT !.height = h, !.coins_cache = c1, !.commitments_cache = c2]
  <2> HIDE DEF c1, c2, h
  <2>4. /\ n \in State /\ n.height = h /\ n.commitments = s.commitments
        /\ n.commitment_heights = s.commitment_heights
        /\ n.expirations = s.expirations /\ n.coins = s.coins
    BY <2>2, <2>3 DEF State, h
  <2>5. QED BY <2>1, <2>4 DEF h
<1>3. CASE s.height + 1 # V2Act
  BY <1>3 DEF AdvanceHeight, State
<1>4. QED BY <1>2, <1>3

\* Collection: the scan removes what is too old; the index lists everything
\* that is exactly one block too old, and by Tracked nothing is older.
LEMMA EndBlockTracked ==
    ASSUME NEW s \in State, Tracked(s)
    PROVE  /\ EndBlock(s) \in State /\ Tracked(EndBlock(s))
           /\ EndBlock(s).height = s.height + 1
<1> DEFINE a == AdvanceHeight(s)
           m == ModeAt(s.height)
<1>m. m \in {"v1", "v2"}
  BY DEF ModeAt
<1>a. /\ a \in State /\ a.height = s.height + 1
      /\ a.commitments = s.commitments
      /\ a.commitment_heights = s.commitment_heights
      /\ a.expirations = s.expirations
  BY AdvanceFields
<1>n. /\ TTL \in Nat /\ s.height \in Nat /\ V2Act \in Nat \ {0}
      /\ s.commitments \in SUBSET Tx
      /\ s.commitment_heights \in [Tx -> Nat \cup {None}]
      /\ s.expirations \in SUBSET (Nat \X Tx)
  BY EraAssumption DEF State
<1>d. /\ Dated(a) = a.commitments
      /\ \A c \in a.commitments :
            /\ a.commitment_heights[c] \in Nat
            /\ a.commitment_heights[c] <= s.height
            /\ s.height - a.commitment_heights[c] <= TTL
            /\ <<a.commitment_heights[c], c>> \in a.expirations
  <2>1. Dated(a) = Dated(s)
    BY <1>a DEF Dated
  <2>2. \A c \in s.commitments : s.commitment_heights[c] \in Nat
    BY <1>n DEF Tracked, Dated
  <2>3. QED BY <2>1, <2>2, <1>a DEF Tracked
<1>e. EndBlock(s) = CollectExpired(a, m)
  BY DEF EndBlock
<1> HIDE DEF a, m
<1>1. CASE a.height < V2Act + TTL
  <2> DEFINE gone == ExpiredByScan(a)
             d == DropCommitments(a, gone, m)
  <2>1. gone \in SUBSET Tx
    BY DEF ExpiredByScan, Dated
  <2>2. EndBlock(s) = d
    BY <1>1, <1>e DEF CollectExpired
  <2>3. /\ d \in State /\ d.height = a.height /\ d.expirations = a.expirations
        /\ d.commitments = a.commitments \ gone
        /\ \A c \in Tx : d.commitment_heights[c]
              = IF c \in gone THEN None ELSE a.commitment_heights[c]
    BY <2>1, <1>a, <1>m, DropType
  <2>4. \A c \in d.commitments :
            /\ c \in Tx /\ c \in a.commitments
            /\ d.commitment_heights[c] = a.commitment_heights[c]
            /\ saturating_sub(a.height, a.commitment_heights[c]) <= TTL
    <3> SUFFICES ASSUME NEW c \in d.commitments
                 PROVE  /\ c \in Tx /\ c \in a.commitments
                        /\ d.commitment_heights[c] = a.commitment_heights[c]
                        /\ saturating_sub(a.height, a.commitment_heights[c]) <= TTL
      OBVIOUS
    <3>1. c \in a.commitments /\ c \notin gone /\ c \in Tx
      BY <2>3, <1>a, <1>n
    <3>2. ~(saturating_sub(a.height, a.commitment_heights[c]) > TTL)
      BY <3>1, <1>d DEF ExpiredByScan
    <3>0. a.commitment_heights[c] \in Nat /\ a.height \in Nat
      <4> HIDE DEF d, gone
      <4>1. a.commitment_heights[c] \in Nat
        BY <3>1, <1>d
      <4>2. a.height \in Nat
        BY <1>a DEF State
      <4>3. QED BY <4>1, <4>2
    <3>3. saturating_sub(a.height, a.commitment_heights[c]) \in Int
      <4> DEFINE h == a.commitment_heights[c]
      <4> HIDE DEF h, d, gone
      <4> QED BY <3>0 DEF saturating_sub, h
    <3>4. d.commitment_heights[c] = a.commitment_heights[c]
      BY <3>1, <2>3
    <3> HIDE DEF d, gone
    <3>5. QED BY <3>1, <3>2, <3>3, <3>4, <1>n
  <2>5. Dated(d) = d.commitments
    BY <2>3, <1>d, <1>a, <1>n DEF Dated
  <2> HIDE DEF d, gone
  <2>6. Tracked(d)
    BY <2>3, <2>4, <2>5, <1>d, <1>a, <1>n DEF Tracked, saturating_sub
  <2>7. QED BY <2>2, <2>3, <2>6, <1>a
<1>2. CASE ~(a.height < V2Act + TTL)
  <2> DEFINE old == ExpiredHeight(a)
             gone == ExpiredByIndex(a)
             d == DropCommitments(a, gone, m)
             rest == {x \in a.expirations : x[1] # old}
             n == [d EXCEPT !.expirations = rest]
  <2>0. old = s.height - TTL /\ old \in Nat
    BY <1>2, <1>a, <1>n DEF ExpiredHeight, saturating_sub
  <2>1. gone \in SUBSET Tx /\ \A c \in Tx : c \in gone <=> <<old, c>> \in a.expirations
    BY DEF ExpiredByIndex
  <2>2. EndBlock(s) = n
    BY <1>2, <1>e DEF CollectExpired
  <2>3. /\ d \in State /\ d.height = a.height
        /\ d.commitments = a.commitments \ gone
        /\ \A c \in Tx : d.commitment_heights[c]
              = IF c \in gone THEN None ELSE a.commitment_heights[c]
    BY <2>1, <1>a, <1>m, DropType
  <2>4. rest \in SUBSET (Nat \X Tx)
    BY <1>a, <1>n
  <2>5. /\ n \in State /\ n.height = a.height /\ n.expirations = rest
        /\ n.commitments = d.commitments /\ n.commitment_heights = d.commitment_heights
    <3> HIDE DEF d, rest
    <3> QED BY <2>3, <2>4 DEF State
  <2> HIDE DEF n, d, gone, old
  <2>6. Dated(n) = n.commitments
    BY <2>5, <2>3, <1>d, <1>a, <1>n DEF Dated
  <2>7. Tracked(n)
    <3> SUFFICES ASSUME NEW c \in n.commitments
                 PROVE  /\ n.commitment_heights[c] <= n.height
                        /\ n.height - n.commitment_heights[c] <= TTL
                        /\ <<n.commitment_heights[c], c>> \in n.expirations
      BY <2>6 DEF Tracked
    <3>1. /\ c \in a.commitments /\ c \notin gone /\ c \in Tx
          /\ n.commitment_heights[c] = a.commitment_heights[c]
      BY <2>3, <2>5, <1>a, <1>n
    <3>2. a.commitment_heights[c] # old
      BY <3>1, <2>1, <1>d
    <3>3. <<n.commitment_heights[c], c>> \in rest
      BY <3>1, <3>2, <1>d
    <3>4. QED BY <3>1, <3>2, <3>3, <2>0, <2>5, <1>d, <1>a, <1>n
  <2>8. QED BY <2>2, <2>5, <2>7, <1>a
<1>3. QED BY <1>1, <1>2

LEMMA CoinbaseTracked ==
    ASSUME NEW s \in State, NEW coinbase \in SUBSET Coin, Tracked(s)
    PROVE  LET a == AddCoinbase(s, coinbase)
           IN  /\ a \in State /\ Tracked(a) /\ a.height = s.height
<1> DEFINE all == s.coins \cup coinbase
           cache == Rehash(s.coins_cache, ModeAt(s.height), all)
           a == AddCoinbase(s, coinbase)
<1>1. a = [s EXCEPT !.coins = all, !.coins_cache = cache]
  BY DEF AddCoinbase
<1>2. all \in SUBSET Coin /\ cache \in CacheMode
  BY DEF State, Rehash, ModeAt, CacheMode
<1> HIDE DEF all, cache
<1>3. /\ a \in State /\ a.height = s.height /\ a.commitments = s.commitments
      /\ a.commitment_heights = s.commitment_heights /\ a.expirations = s.expirations
  BY <1>1, <1>2 DEF State
<1> HIDE DEF a
<1>4. Tracked(a)
  BY <1>3 DEF Tracked, Dated
<1>5. QED BY <1>3, <1>4 DEF a

\* Reloading rebuilds the index from commitment_heights.
LEMMA ReloadTracked ==
    ASSUME NEW s \in State, Dated(s) = s.commitments,
           \A c \in s.commitments : s.commitment_heights[c] <= s.height
                                      /\ s.height - s.commitment_heights[c] <= TTL
    PROVE  LET r == deserialize_state(s)
           IN  r \in State /\ Tracked(r) /\ r.height = s.height
<1> DEFINE index == IndexOf(s)
           c1 == Rebuilt(ModeAt(s.height), s.coins)
           c2 == Rebuilt(ModeAt(s.height), s.commitments)
           r == deserialize_state(s)
<1>1. r = [s EXCEPT !.expirations = index, !.coins_cache = c1, !.commitments_cache = c2]
  BY DEF deserialize_state
<1>2. c1 \in CacheMode /\ c2 \in CacheMode
  BY DEF Rebuilt, ModeAt, CacheMode
<1>3. index \in SUBSET (Nat \X Tx)
  BY DEF IndexOf, Dated, State
<1>4. \A c \in s.commitments : <<s.commitment_heights[c], c>> \in index
  BY DEF IndexOf
<1> HIDE DEF index, c1, c2
<1>5. /\ r \in State /\ r.height = s.height /\ r.commitments = s.commitments
      /\ r.commitment_heights = s.commitment_heights /\ r.expirations = index
  BY <1>1, <1>2, <1>3 DEF State
<1> HIDE DEF r
<1>6. Tracked(r)
  BY <1>4, <1>5 DEF Tracked, Dated
<1>7. QED BY <1>5, <1>6 DEF r
\* What a transaction takes, gives and burns are natural numbers.
LEMMA SeqSum ==
    ASSUME NEW seq \in Seq(Nat)
    PROVE  SumSeq(seq) \in Nat
<1>1. DOMAIN seq = 1..Len(seq) /\ Len(seq) \in Nat /\ \A i \in DOMAIN seq : seq[i] \in Nat
  OBVIOUS
<1>2. IsFiniteSet(DOMAIN seq)
  BY <1>1, FS_Interval
<1>3. QED BY <1>1, <1>2, SumNat DEF SumSeq

LEMMA WorthType ==
    ASSUME NEW seq \in Seq(Coin)
    PROVE  Worth(seq) \in Seq(Nat) /\ DOMAIN Worth(seq) = DOMAIN seq
BY CoinAssumption DEF Worth

LEMMA SumsNat ==
    ASSUME NEW tx \in Tx
    PROVE  /\ InputSum(tx) \in Nat /\ OutputSum(tx) \in Nat
           /\ SumSeq(Worth(TxOut[tx])) \in Nat /\ SumSeq(TxBurn[tx]) \in Nat
<1>1. TxIn[tx] \in Seq(Coin) /\ TxOut[tx] \in Seq(Coin) /\ TxBurn[tx] \in Seq(Nat)
  BY TxAssumption
<1>2. SumSeq(Worth(TxIn[tx])) \in Nat /\ SumSeq(Worth(TxOut[tx])) \in Nat
  BY <1>1, WorthType, SeqSum
<1>3. SumSeq(TxBurn[tx]) \in Nat
  BY <1>1, SeqSum
<1>4. QED BY <1>2, <1>3 DEF InputSum, OutputSum
-----------------------------------------------------------------------------
LEMMA RehashUniform ==
    ASSUME NEW m \in {"v1", "v2"}, NEW X, NEW Y
    PROVE  Rehash(Rebuilt(m, X), m, Y) = Rebuilt(m, Y)
BY DEF Rehash, Rebuilt

LEMMA ValuesNat ==
    ASSUME NEW set \in SUBSET Coin
    PROVE  IsFiniteSet(set) /\ SumValues(set) \in Nat /\ \A c \in set : Value[c] \in Int
<1>1. IsFiniteSet(set) /\ \A c \in set : Value[c] \in Nat
  BY CoinAssumption, FS_Subset
<1>2. QED BY <1>1, SumNat DEF SumValues

\* A commit moves no coin.
LEMMA CommitCoins ==
    ASSUME NEW s \in State, NEW pow
    PROVE  LET r == apply_commit(s, pow)
           IN  /\ r.state.coins = s.coins /\ r.state.coins_cache = s.coins_cache
               /\ r.state.height = s.height
<1> DEFINE r == apply_commit(s, pow)
<1>1. CASE r = Err(s)
  BY <1>1 DEF Err
<1>2. CASE r # Err(s)
  <2> DEFINE now == s.commitments \cup {pow.tx}
             heights == [s.commitment_heights EXCEPT ![pow.tx] = s.height]
             index == s.expirations \cup {<<s.height, pow.tx>>}
             cache == Rehash(s.commitments_cache, ModeAt(s.height), now)
             n == [s EXCEPT !.commitments = now, !.commitment_heights = heights,
                            !.expirations = index, !.commitments_cache = cache]
  <2>1. r = Ok(n)
    BY <1>2 DEF apply_commit
  <2> HIDE DEF now, heights, index, cache, r
  <2>2. n.coins = s.coins /\ n.coins_cache = s.coins_cache /\ n.height = s.height
    BY DEF State
  <2> HIDE DEF n
  <2>3. QED BY <2>1, <2>2 DEF Ok, r
<1>3. QED BY <1>1, <1>2

LEMMA DropCoins ==
    ASSUME NEW s \in State, NEW gone, NEW m
    PROVE  LET d == DropCommitments(s, gone, m)
           IN  d.coins = s.coins /\ d.coins_cache = s.coins_cache /\ d.height = s.height
BY DEF DropCommitments, State

LEMMA ConsumeCoins ==
    ASSUME NEW s \in State, NEW tx \in Tx
    PROVE  LET n == Consume(s, tx)
           IN  n.coins = s.coins /\ n.coins_cache = s.coins_cache /\ n.height = s.height
BY DropCoins DEF Consume

\* The coins a sequence of distinct coins names are worth what the sequence
\* is worth.
LEMMA RangeWorth ==
    ASSUME NEW seq \in Seq(Coin),
           \A i, j \in DOMAIN seq : seq[i] = seq[j] => i = j
    PROVE  SumValues({seq[i] : i \in DOMAIN seq}) = SumSeq(Worth(seq))
<1>1. IsFiniteSet(DOMAIN seq) /\ \A i \in DOMAIN seq : seq[i] \in Coin
  BY FS_Interval
<1>2. \A i \in DOMAIN seq : Value[seq[i]] \in Int /\ Worth(seq)[i] = Value[seq[i]]
  BY <1>1, CoinAssumption DEF Worth
<1>3. DOMAIN Worth(seq) = DOMAIN seq
  BY DEF Worth
<1>4. SumOf(Worth(seq), DOMAIN seq) = SumOf(Value, {seq[i] : i \in DOMAIN seq})
  <2> DEFINE g == Worth(seq)
             D == DOMAIN seq
             M == {seq[i] : i \in D}
  <2>1. /\ IsFiniteSet(D) /\ \A i, j \in D : seq[i] = seq[j] => i = j
        /\ \A i \in D : Value[seq[i]] \in Int /\ g[i] = Value[seq[i]]
    BY <1>1, <1>2
  <2>2. M = {seq[i] : i \in D}
    OBVIOUS
  <2> HIDE DEF g, D, M
  <2>3. SumOf(g, D) = SumOf(Value, M)
    BY <2>1, <2>2, SumReindex
  <2>4. QED BY <2>3 DEF g, D, M
<1>5. QED BY <1>3, <1>4 DEF SumValues, SumSeq

\* Spending and creating keeps the cache in one mode; without a clash the
\* coins lose the inputs' worth and gain the outputs'.
LEMMA SpendCoins ==
    ASSUME NEW s \in State, NEW tx \in Tx, CacheUniform(s)
    PROVE  LET r == SpendAndCreate(s, tx)
           IN  /\ r.state.height = s.height /\ CacheUniform(r.state)
               /\ (r.ok /\ WellFormed(tx) /\ InputsExist(s, tx)) =>
                    SumValues(r.state.coins) + InputSum(tx)
                      = SumValues(s.coins) + SumSeq(Worth(TxOut[tx]))
<1> DEFINE ins     == Range(TxIn[tx])
           left    == s.coins \ ins
           Clash(i) == \/ TxOut[tx][i] \in left
                       \/ \E j \in 1..(i - 1) : TxOut[tx][j] = TxOut[tx][i]
           clashes == {i \in DOMAIN TxOut[tx] : Clash(i)}
           made    == {TxOut[tx][i] : i \in {k \in DOMAIN TxOut[tx] :
                                               \A b \in clashes : k < b}}
           m       == ModeAt(s.height)
           cache   == Rehash(Rehash(s.coins_cache, m, left), m, left \cup made)
           after   == [s EXCEPT !.coins = left \cup made, !.coins_cache = cache]
           r       == SpendAndCreate(s, tx)
<1>1. r = IF clashes = {} THEN Ok(after) ELSE Err(after)
  BY DEF SpendAndCreate
<1>2. TxIn[tx] \in Seq(Coin) /\ TxOut[tx] \in Seq(Coin)
  BY TxAssumption
<1>3. cache = Rebuilt(m, left \cup made)
  <2>1. m \in {"v1", "v2"} /\ s.coins_cache = Rebuilt(m, s.coins)
    BY DEF ModeAt, CacheUniform
  <2> HIDE DEF m, left, made
  <2>2. QED BY <2>1, RehashUniform
<1>4. after.height = s.height /\ after.coins = left \cup made /\ after.coins_cache = cache
  <2> HIDE DEF left, made, cache
  <2>1. QED BY DEF State
<1>5. r.state.height = s.height /\ CacheUniform(r.state)
  <2>1. r.state = after
    <3> HIDE DEF after, clashes
    <3>1. QED BY <1>1 DEF Ok, Err
  <2> HIDE DEF after, r, left, made, cache
  <2>2. QED BY <1>3, <1>4, <2>1 DEF CacheUniform
<1>6. ASSUME r.ok, WellFormed(tx), InputsExist(s, tx)
      PROVE  SumValues(r.state.coins) + InputSum(tx)
               = SumValues(s.coins) + SumSeq(Worth(TxOut[tx]))
  <2>1. clashes = {} /\ r.state = after
    <3> HIDE DEF after, clashes, r
    <3>1. QED BY <1>1, <1>6 DEF Ok, Err
  <2>2. \A i \in DOMAIN TxOut[tx] : ~Clash(i)
    BY <2>1
  <2>3. made = {TxOut[tx][i] : i \in DOMAIN TxOut[tx]}
    <3> HIDE DEF clashes
    <3>1. QED BY <2>1
  <2>4. \A i, j \in DOMAIN TxOut[tx] : TxOut[tx][i] = TxOut[tx][j] => i = j
    <3>1. ASSUME NEW i \in DOMAIN TxOut[tx], NEW j \in DOMAIN TxOut[tx],
                 i < j, TxOut[tx][i] = TxOut[tx][j]
          PROVE  FALSE
      <4>1. i \in Nat /\ j \in Nat /\ 1 <= i
        BY <1>2
      <4>2. i \in 1..(j - 1)
        BY <4>1, <3>1
      <4>3. QED BY <4>2, <3>1, <2>2
    <3>2. \A i, j \in DOMAIN TxOut[tx] : i < j \/ j < i \/ i = j
      BY <1>2
    <3>3. QED BY <3>1, <3>2
  <2>5. left \intersect made = {}
    <3>1. ASSUME NEW c \in left, c \in made PROVE FALSE
      <4>1. PICK i \in DOMAIN TxOut[tx] : c = TxOut[tx][i]
        BY <3>1, <2>3
      <4>2. QED BY <4>1, <3>1, <2>2
    <3>2. QED BY <3>1
  <2>6. ins = {TxIn[tx][i] : i \in DOMAIN TxIn[tx]} /\ ins \subseteq s.coins
    BY <1>6 DEF Range, InputsExist
  <2>7. \A i, j \in DOMAIN TxIn[tx] : TxIn[tx][i] = TxIn[tx][j] => i = j
    BY <1>6 DEF WellFormed, IsInjective
  <2>8. SumValues(ins) = InputSum(tx)
    BY <1>2, <2>6, <2>7, RangeWorth DEF InputSum
  <2>9. SumValues(made) = SumSeq(Worth(TxOut[tx]))
    BY <1>2, <2>3, <2>4, RangeWorth
  <2>10. s.coins \in SUBSET Coin /\ left \in SUBSET Coin /\ made \in SUBSET Coin
    <3>1. \A i \in DOMAIN TxOut[tx] : TxOut[tx][i] \in Coin
      BY <1>2
    <3>2. s.coins \in SUBSET Coin
      BY DEF State
    <3>3. QED BY <2>3, <3>1, <3>2
  <2>11. r.state.coins = left \cup made
    BY <2>1, <1>4
  <2> HIDE DEF ins, made, clashes, Clash, after, r, cache, m
  <2>12. SumValues(left) + SumValues(ins) = SumValues(s.coins)
    <3>1. IsFiniteSet(s.coins) /\ \A c \in s.coins : Value[c] \in Int
      BY <2>10, ValuesNat
    <3>2. ins \in SUBSET s.coins
      BY <2>6
    <3>3. QED BY <3>1, <3>2, SumRemove DEF SumValues
  <2> HIDE DEF left
  <2>13. SumValues(left \cup made) = SumValues(left) + SumValues(made)
    <3>1. IsFiniteSet(left) /\ IsFiniteSet(made) /\ \A c \in left \cup made : Value[c] \in Int
      BY <2>10, ValuesNat
    <3>2. QED BY <3>1, <2>5, SumUnion DEF SumValues
  <2>14. SumValues(left) \in Nat /\ SumValues(made) \in Nat /\ InputSum(tx) \in Nat
    BY <2>10, ValuesNat, SumsNat
  <2>15. SumValues(r.state.coins) = SumValues(left) + SumSeq(Worth(TxOut[tx]))
    BY ONLY <2>9, <2>11, <2>13
  <2>16. SumValues(left) + InputSum(tx) = SumValues(s.coins)
    BY ONLY <2>8, <2>12
  <2>17. SumSeq(Worth(TxOut[tx])) \in Nat
    BY SumsNat
  <2>18. \A a, i, o, x, y \in Int : x = a + o /\ a + i = y => x + i = y + o
    OBVIOUS
  <2>19. SumValues(r.state.coins) \in Int /\ SumValues(s.coins) \in Int
    BY ONLY <2>14, <2>15, <2>16, <2>17, \A a, b \in Nat : a + b \in Int
  <2>20. QED BY ONLY <2>14, <2>15, <2>16, <2>17, <2>18, <2>19
<1>7. QED BY <1>5, <1>6

\* A reveal that is accepted turns its inputs into outputs, fee and burn.
LEMMA RevealCoins ==
    ASSUME NEW s \in State, NEW tx \in Tx, Tracked(s), CacheUniform(s)
    PROVE  LET r == apply_transaction_no_sig_check(s, tx)
           IN  /\ r.state.height = s.height /\ CacheUniform(r.state)
               /\ r.ok => SumValues(r.state.coins) + (fee(tx) + SumSeq(TxBurn[tx]))
                            = SumValues(s.coins)
<1> DEFINE n == Consume(s, tx)
           r == apply_transaction_no_sig_check(s, tx)
<1>1. n \in State /\ n.coins = s.coins /\ n.coins_cache = s.coins_cache /\ n.height = s.height
  BY ConsumeTracked, ConsumeCoins
<1>2. CacheUniform(n)
  <2> HIDE DEF n
  <2>1. QED BY <1>1 DEF CacheUniform
<1>3. CASE ~WellFormed(tx) \/ ~CommitmentLive(s, tx)
  BY <1>3 DEF apply_transaction_no_sig_check, Err
<1>4. CASE WellFormed(tx) /\ CommitmentLive(s, tx) /\ ~InputsExist(s, tx)
  <2>1. r = Err(n)
    BY <1>4 DEF apply_transaction_no_sig_check
  <2> HIDE DEF n, r
  <2>2. QED BY <1>1, <1>2, <2>1 DEF Err, n, r
<1>5. CASE WellFormed(tx) /\ CommitmentLive(s, tx) /\ InputsExist(s, tx)
  <2>1. r = SpendAndCreate(n, tx)
    BY <1>5 DEF apply_transaction_no_sig_check
  <2>2. InputsExist(n, tx)
    BY <1>1, <1>5 DEF InputsExist
  <2> HIDE DEF n, r
  <2>3. /\ r.state.height = n.height /\ CacheUniform(r.state)
        /\ r.ok => SumValues(r.state.coins) + InputSum(tx)
                      = SumValues(n.coins) + SumSeq(Worth(TxOut[tx]))
    BY <1>1, <1>2, <1>5, <2>1, <2>2, SpendCoins
  <2>4. ASSUME r.ok
        PROVE  SumValues(r.state.coins) + (fee(tx) + SumSeq(TxBurn[tx])) = SumValues(s.coins)
    <3> DEFINE ins == InputSum(tx)
               outs == SumSeq(Worth(TxOut[tx]))
               gone == SumSeq(TxBurn[tx])
               x == SumValues(r.state.coins)
               y == SumValues(s.coins)
    <3>1. ins \in Nat /\ outs \in Nat /\ gone \in Nat
      BY SumsNat
    <3>2. ins > outs + gone
      BY <1>5 DEF WellFormed, OutputSum
    <3>3. fee(tx) = IF ins > outs + gone THEN ins - (outs + gone) ELSE 0
      BY DEF fee, saturating_sub, OutputSum
    <3>4. x + ins = y + outs
      BY <2>3, <2>4, <1>1
    <3>5. x \in Nat /\ y \in Nat
      <4>1. r.state \in State
        BY RevealTracked DEF r
      <4>2. r.state.coins \in SUBSET Coin /\ s.coins \in SUBSET Coin
        BY <4>1 DEF State
      <4>3. QED BY <4>2, ValuesNat
    <3> HIDE DEF ins, outs, gone, x, y
    <3>6. fee(tx) = ins - (outs + gone)
      BY <3>2, <3>3
    <3>7. x + ((ins - (outs + gone)) + gone) = y
      BY <3>1, <3>4, <3>5
    <3>8. QED BY <3>6, <3>7 DEF x, y, gone
  <2>5. QED BY <2>3, <2>4, <1>1 DEF r
<1>6. QED BY <1>3, <1>4, <1>5

\* Collecting commitments touches no coin.
LEMMA CollectCoins ==
    ASSUME NEW a \in State
    PROVE  LET b == AdvanceHeight(a)
               n == EndBlock(a)
           IN  n.height = b.height /\ n.coins = b.coins /\ n.coins_cache = b.coins_cache
<1> DEFINE b == AdvanceHeight(a)
           n == EndBlock(a)
<1>1. b \in State
  BY AdvanceFields
<1> DEFINE m == ModeAt(a.height)
           rest == {e \in b.expirations : e[1] # ExpiredHeight(b)}
<1>2. n = IF b.height < V2Act + TTL THEN DropCommitments(b, ExpiredByScan(b), m)
          ELSE [DropCommitments(b, ExpiredByIndex(b), m) EXCEPT !.expirations = rest]
  BY DEF EndBlock, CollectExpired
<1> HIDE DEF b, rest, m, n
<1>g. SUFFICES n.height = b.height /\ n.coins = b.coins /\ n.coins_cache = b.coins_cache
  BY DEF b, n
<1>3. CASE b.height < V2Act + TTL
  BY <1>1, <1>2, <1>3, DropCoins
<1>4. CASE ~(b.height < V2Act + TTL)
  <2> DEFINE d == DropCommitments(b, ExpiredByIndex(b), m)
  <2>1. d.height = b.height /\ d.coins = b.coins /\ d.coins_cache = b.coins_cache
    BY <1>1, DropCoins
  <2>2. n = [d EXCEPT !.expirations = rest]
    BY <1>2, <1>4
  <2>3. d \in State
    <3>1. m \in {"v1", "v2"} /\ ExpiredByIndex(b) \in SUBSET Tx
      BY DEF m, ModeAt, ExpiredByIndex
    <3>2. QED BY <3>1, <1>1, DropType
  <2> HIDE DEF d
  <2>4. n.height = d.height /\ n.coins = d.coins /\ n.coins_cache = d.coins_cache
    BY <2>2, <2>3 DEF State
  <2>5. QED BY <2>1, <2>4
<1>5. QED BY <1>3, <1>4

LEMMA EndKeeps == ASSUME NEW s \in State PROVE EndBlock(s).coins = s.coins
BY CollectCoins, AdvanceFields

\* A reveal removes no coin but its inputs.
LEMMA RevealKeeps ==
    ASSUME NEW s \in State, NEW tx \in Tx
    PROVE  LET r == apply_transaction_no_sig_check(s, tx)
           IN  s.coins \ Range(TxIn[tx]) \subseteq r.state.coins
<1> DEFINE n == Consume(s, tx)
           r == apply_transaction_no_sig_check(s, tx)
<1>1. n.coins = s.coins /\ n \in State
  <2>1. ModeAt(s.height) \in {"v1", "v2"} /\ {tx} \in SUBSET Tx
    BY DEF ModeAt
  <2>2. QED BY <2>1, DropType, ConsumeCoins DEF Consume
<1>2. CASE r = Err(s) \/ r = Err(n)
  BY <1>1, <1>2 DEF Err
<1>3. CASE r = SpendAndCreate(n, tx)
  <2> DEFINE left    == n.coins \ Range(TxIn[tx])
             Clash(i) == \/ TxOut[tx][i] \in left
                         \/ \E j \in 1..(i - 1) : TxOut[tx][j] = TxOut[tx][i]
             clashes == {i \in DOMAIN TxOut[tx] : Clash(i)}
             made    == {TxOut[tx][i] : i \in {k \in DOMAIN TxOut[tx] :
                                                 \A b \in clashes : k < b}}
             cache   == Rehash(Rehash(n.coins_cache, ModeAt(n.height), left),
                               ModeAt(n.height), left \cup made)
             after   == [n EXCEPT !.coins = left \cup made, !.coins_cache = cache]
  <2> HIDE DEF n, r
  <2>1. r = IF clashes = {} THEN Ok(after) ELSE Err(after)
    BY <1>3 DEF SpendAndCreate
  <2> HIDE DEF clashes, made, cache
  <2>2. r.state = after
    BY <2>1 DEF Ok, Err
  <2>3. after.coins = left \cup made
    BY <1>1 DEF State
  <2>4. left = s.coins \ Range(TxIn[tx])
    BY <1>1
  <2> HIDE DEF after, left
  <2>5. QED BY <2>2, <2>3, <2>4 DEF r
<1>4. QED BY <1>2, <1>3 DEF apply_transaction_no_sig_check

\* The end of a block: the coinbase is new, the height moves on, and the
\* whole coin tree is rehashed when that crosses the V2 boundary.
LEMMA EndCoins ==
    ASSUME NEW s \in State, NEW coinbase \in SUBSET Coin, CacheUniform(s), Tracked(s),
           coinbase \cap s.coins = {}
    PROVE  LET n == EndBlock(AddCoinbase(s, coinbase))
           IN  /\ n.height = s.height + 1 /\ CacheUniform(n)
               /\ SumValues(n.coins) = SumValues(s.coins) + SumValues(coinbase)
<1> DEFINE all == s.coins \cup coinbase
           cache == Rehash(s.coins_cache, ModeAt(s.height), all)
           a == AddCoinbase(s, coinbase)
           b == AdvanceHeight(a)
           n == EndBlock(a)
<1>h. s.height \in Nat /\ V2Act \in Nat
  BY EraAssumption DEF State
<1>1. a \in State /\ a.height = s.height
  BY CoinbaseTracked
<1>2. a.coins = all /\ a.coins_cache = Rebuilt(ModeAt(s.height), all)
  <2>1. a = [s EXCEPT !.coins = all, !.coins_cache = cache]
    BY DEF AddCoinbase
  <2>2. cache = Rebuilt(ModeAt(s.height), all)
    <3>1. ModeAt(s.height) \in {"v1", "v2"} /\ s.coins_cache = Rebuilt(ModeAt(s.height), s.coins)
      BY DEF ModeAt, CacheUniform
    <3> HIDE DEF all
    <3>2. QED BY <3>1, RehashUniform
  <2> HIDE DEF all, cache
  <2>3. a.coins = all /\ a.coins_cache = cache
    BY <2>1 DEF State
  <2>4. QED BY <2>2, <2>3
<1> HIDE DEF all, cache, a
<1>3. /\ b \in State /\ b.height = s.height + 1 /\ b.coins = all
      /\ b.coins_cache = Rebuilt(ModeAt(s.height + 1), all)
  <2>1. b \in State
    BY <1>1, AdvanceFields
  <2>2. CASE s.height + 1 = V2Act
    <3>1. b.height = s.height + 1 /\ b.coins = a.coins /\ b.coins_cache = Rebuilt("v2", a.coins)
      BY <1>1, <2>2 DEF AdvanceHeight, State
    <3>2. ModeAt(s.height + 1) = "v2"
      BY <2>2, <1>h DEF ModeAt, is_v2_at
    <3> HIDE DEF b
    <3>3. QED BY <1>2, <2>1, <3>1, <3>2
  <2>3. CASE s.height + 1 # V2Act
    <3>1. b.height = s.height + 1 /\ b.coins = a.coins /\ b.coins_cache = a.coins_cache
      BY <1>1, <2>3 DEF AdvanceHeight, State
    <3>2. ModeAt(s.height + 1) = ModeAt(s.height)
      BY <2>3, <1>h DEF ModeAt, is_v2_at
    <3> HIDE DEF b
    <3>3. QED BY <1>2, <2>1, <3>1, <3>2
  <2>4. QED BY <2>2, <2>3
<1>4. n.height = b.height /\ n.coins = b.coins /\ n.coins_cache = b.coins_cache
  BY <1>1, CollectCoins
<1> HIDE DEF b, n
<1>5. CacheUniform(n)
  BY <1>3, <1>4 DEF CacheUniform
<1>6. SumValues(all) = SumValues(s.coins) + SumValues(coinbase)
  <2>1. s.coins \in SUBSET Coin
    BY DEF State
  <2>2. /\ IsFiniteSet(s.coins) /\ IsFiniteSet(coinbase)
        /\ \A c \in s.coins \cup coinbase : Value[c] \in Int
    BY <2>1, ValuesNat
  <2>3. s.coins \intersect coinbase = {}
    OBVIOUS
  <2>4. SumOf(Value, s.coins \cup coinbase) = SumOf(Value, s.coins) + SumOf(Value, coinbase)
    BY <2>2, <2>3, SumUnion
  <2>5. QED BY <2>4 DEF all, SumValues
<1>7. QED BY <1>3, <1>4, <1>5, <1>6 DEF a, n

LEMMA ReloadCoins ==
    ASSUME NEW s \in State
    PROVE  LET r == deserialize_state(s)
           IN  r.coins = s.coins /\ r.height = s.height /\ CacheUniform(r)
<1> DEFINE index == IndexOf(s)
           c1 == Rebuilt(ModeAt(s.height), s.coins)
           c2 == Rebuilt(ModeAt(s.height), s.commitments)
           r == deserialize_state(s)
<1>1. r = [s EXCEPT !.expirations = index, !.coins_cache = c1, !.commitments_cache = c2]
  BY DEF deserialize_state
<1> HIDE DEF index, c1, c2
<1>2. r.coins = s.coins /\ r.height = s.height /\ r.coins_cache = c1
  BY <1>1 DEF State
<1> HIDE DEF r
<1>3. QED BY <1>2 DEF CacheUniform, c1, r
=============================================================================
