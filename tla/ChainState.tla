---------------------------- MODULE ChainState ----------------------------
(***************************************************************************)
(* The consensus state of a node (`State` in src/core/types.rs) and the    *)
(* functions that change it: the transaction rules of                      *)
(* src/core/transaction.rs, the end of `apply_batch_internal` in           *)
(* src/core/state.rs, and the reload of a stored state in src/storage.rs.  *)
(* No variables here: Ledger steps through a block with these operators,   *)
(* Mempool validates pending transactions and applies blocks with them.    *)
(*                                                                         *)
(* A coin, an address, a key is a model value; hashes are injective, so a  *)
(* commitment is named by the Reveal or Consolidate it commits to.  The    *)
(* hash chain (mirstat, header_hash, chain_mmr), the timestamp and the     *)
(* accumulated work identify and order blocks; they are not read by the    *)
(* rules below and are left to the modules about chains.                   *)
(***************************************************************************)
EXTENDS Integers, FiniteSets, Sequences, FiniteSetsExt, Functions, Sums

CONSTANTS
    Tx,             \* the Reveals and Consolidates that may ever be broadcast
    Coin,           \* coin ids
    Key,            \* one-time keys: WOTS addresses and MSS leaves
    Address,        \* predicate addresses
    Value,          \* Value[c]: denomination of coin c
    Owner,          \* Owner[c]: address of coin c
    StateThread,    \* the zero-value Confidential coins
    TxKind,         \* TxKind[t]: "Reveal" or "Consolidate"
    TxIn,           \* TxIn[t]: sequence of coins spent
    TxOut,          \* TxOut[t]: sequence of coins created
    TxBurn,         \* TxBurn[t]: values of the DataBurn outputs, in order
    TxKeys,         \* TxKeys[t]: the one-time keys its witnesses use
    TxUnlock        \* TxUnlock[t]: first height at which its scripts succeed

CONSTANTS
    V2Act, ReplayFix, V4Act,        \* activation heights
    TTL, PowWindow,                 \* COMMITMENT_TTL, COMMIT_POW_WINDOW
    InitialReward, BlocksPerYear, MaxHalvings,
    MaxTxInputs, MaxTxOutputs, MaxConsolidateInputs,
    U64Max                          \* largest representable value

\* Heights 100000, 110000, 163675 and windows of 1000 blocks in the code.
ASSUME EraAssumption ==
    /\ V2Act \in Nat \ {0} /\ ReplayFix \in Nat /\ V4Act \in Nat
    /\ TTL \in Nat /\ PowWindow \in Nat
    /\ V2Act + TTL <= ReplayFix

\* The window in which a proof of work is accepted ends before the
\* commitment it paid for is collected (both are 1000 blocks).
ASSUME WindowAssumption == PowWindow <= TTL + 1

ASSUME TxAssumption ==
    /\ TxIn \in [Tx -> Seq(Coin)] /\ TxOut \in [Tx -> Seq(Coin)]
    /\ TxBurn \in [Tx -> Seq(Nat)] /\ TxKeys \in [Tx -> SUBSET Key]
    /\ Owner \in [Coin -> Address]

\* Coin ids are 32 bytes, denominations are unsigned.
ASSUME CoinAssumption == IsFiniteSet(Coin) /\ Value \in [Coin -> Nat]
-----------------------------------------------------------------------------
saturating_sub(a, b) == IF a > b THEN a - b ELSE 0

is_v2_at(h) == h >= V2Act

\* The hashing mode a Merkle cache is in: "none" when the tree is empty,
\* "mixed" when nodes computed under both rules sit in one cache.
CacheMode == {"none", "v1", "v2", "mixed"}

ModeAt(h) == IF is_v2_at(h) THEN "v2" ELSE "v1"

\* insert / remove of UtxoAccumulator re-hash one path under mode m: the
\* rest of the cache keeps the mode it had.  An emptied tree caches nothing.
Rehash(mode, m, set) ==
    IF set = {} THEN "none" ELSE IF mode \in {"none", m} THEN m ELSE "mixed"

\* rebuild_tree recomputes every node under mode m.
Rebuilt(m, set) == IF set = {} THEN "none" ELSE m

\* No entry in commitment_heights.
None == -1

State ==
    [coins : SUBSET Coin,
     commitments : SUBSET Tx,
     commitment_heights : [Tx -> Nat \cup {None}],
     expirations : SUBSET (Nat \X Tx),     \* <<height, commitment>> entries
     burned_wots : SUBSET Key,
     height : Nat,
     coins_cache : CacheMode,
     commitments_cache : CacheMode]

\* The keys of commitment_heights.
Dated(s) == {c \in Tx : s.commitment_heights[c] # None}

\* The result of a fallible function on &mut State: whether it returned Ok,
\* and the State it left behind either way.
Ok(s)  == [ok |-> TRUE,  state |-> s]
Err(s) == [ok |-> FALSE, state |-> s]

block_reward(h) ==
    InitialReward \div 2^(Min({h \div BlocksPerYear, MaxHalvings}))

SumValues(set) == SumOf(Value, set)
SumSeq(seq)    == SumOf(seq, DOMAIN seq)

\* The denominations of a sequence of coins.
Worth(seq)     == [i \in DOMAIN seq |-> Value[seq[i]]]

InputSum(tx)   == SumSeq(Worth(TxIn[tx]))
\* Fault: burnt value is forgotten, so it is paid out again as a fee.
OutputSum_ignores_burns(tx) == SumSeq(Worth(TxOut[tx]))

OutputSum(tx)  == SumSeq(Worth(TxOut[tx])) + SumSeq(TxBurn[tx])

\* Fault: the operands of the subtraction are swapped and it wraps.
fee_swapped(tx) == OutputSum(tx) - InputSum(tx)

\* Transaction::fee: what the inputs leave over, for the miner.
fee(tx) == saturating_sub(InputSum(tx), OutputSum(tx))

IsPowerOfTwo(v) == \E i \in 0..30 : v = 2^i
-----------------------------------------------------------------------------
(***************************************************************************)
(* A commit carries a proof of work pow = [tx, t, fmt]: the commitment it  *)
(* pays for, the height it was mined for (v1, v2) or the block it is       *)
(* anchored to (v3), and the preimage format.  A v1 nonce has no height in *)
(* its upper half, so the later rules read it as target_height 0.          *)
(***************************************************************************)
PowFormat == {"v1", "v2", "v3"}

\* Fault: the V2 rule (up to one block ahead) is kept for anchored proofs.
evaluate_commit_pow_future_anchor(pow, h) ==
    pow.t # 0 /\ saturating_sub(h, pow.t) <= PowWindow /\ pow.t <= h + 1

evaluate_commit_pow(pow, h) ==
    LET fresh == saturating_sub(h, pow.t) <= PowWindow
    IN  IF h >= ReplayFix
        THEN pow.fmt = "v3" /\ pow.t # 0 /\ fresh /\ pow.t < h
        ELSE IF is_v2_at(h)
        THEN pow.fmt = "v2" /\ pow.t # 0 /\ fresh /\ pow.t <= h + 1
        ELSE \/ pow.fmt = "v2" /\ fresh /\ pow.t <= h + 1
             \/ pow.fmt = "v1" /\ fresh /\ pow.t <= h

\* apply_transaction on a Commit.
apply_commit(s, pow) ==
    IF ~evaluate_commit_pow(pow, s.height) \/ pow.tx \in s.commitments
    THEN Err(s)
    ELSE LET now == s.commitments \cup {pow.tx}
         IN  Ok([s EXCEPT
                !.commitments = now,
                !.commitment_heights = [@ EXCEPT ![pow.tx] = s.height],
                !.expirations = @ \cup {<<s.height, pow.tx>>},
                !.commitments_cache = Rehash(@, ModeAt(s.height), now)])

\* Removing keys from commitments and commitment_heights, under mode m.
DropCommitments(s, gone, m) ==
    [s EXCEPT
        !.commitments = @ \ gone,
        !.commitment_heights =
            [c \in Tx |-> IF c \in gone THEN None ELSE s.commitment_heights[c]],
        !.commitments_cache =
            IF gone \cap s.commitments = {} THEN @
            ELSE Rehash(@, m, s.commitments \ gone)]
-----------------------------------------------------------------------------
(***************************************************************************)
(* The checks on a Reveal or Consolidate that read no state.               *)
(***************************************************************************)
WellFormed(tx) ==
    /\ IF TxKind[tx] = "Consolidate"
       THEN /\ Len(TxIn[tx]) \in 2..MaxConsolidateInputs
            /\ \A i \in DOMAIN TxIn[tx] : Owner[TxIn[tx][i]] = Owner[TxIn[tx][1]]
       ELSE Len(TxIn[tx]) \in 1..MaxTxInputs
    /\ Len(TxOut[tx]) + Len(TxBurn[tx]) \in 1..MaxTxOutputs
    /\ IsInjective(TxIn[tx])
    /\ \A i \in DOMAIN TxIn[tx] : TxIn[tx][i] \in StateThread => Value[TxIn[tx][i]] = 0
    /\ \A i \in DOMAIN TxOut[tx] :
          LET v == Value[TxOut[tx][i]]
          IN  IF v = 0 THEN TxOut[tx][i] \in StateThread ELSE IsPowerOfTwo(v)
    /\ \A i \in DOMAIN TxBurn[tx] : TxBurn[tx][i] = 0 \/ IsPowerOfTwo(TxBurn[tx][i])
    /\ InputSum(tx) <= U64Max /\ OutputSum(tx) <= U64Max
    /\ InputSum(tx) > OutputSum(tx)

CommitmentLive(s, tx) ==
    /\ tx \in s.commitments
    /\ s.commitment_heights[tx] # None =>
         saturating_sub(s.height, s.commitment_heights[tx]) <= TTL

\* Fault: the activation check is lost and a reveal always deletes.
Consume_always(s, tx) == DropCommitments(s, {tx}, ModeAt(s.height))

\* The effect of a reveal on its commitment: deleted before the replay fix,
\* left to the collector afterwards.  `expirations` keeps its entry.
Consume(s, tx) ==
    IF s.height < ReplayFix THEN DropCommitments(s, {tx}, ModeAt(s.height)) ELSE s

\* Remove the inputs, then insert the outputs one by one; the first that is
\* already there ends the transaction with an error, the earlier ones stay.
SpendAndCreate(s, tx) ==
    LET left    == s.coins \ Range(TxIn[tx])
        Clash(i) == \/ TxOut[tx][i] \in left
                    \/ \E j \in 1..(i - 1) : TxOut[tx][j] = TxOut[tx][i]
        clashes == {i \in DOMAIN TxOut[tx] : Clash(i)}
        made    == {TxOut[tx][i] : i \in {k \in DOMAIN TxOut[tx] :
                                            \A b \in clashes : k < b}}
        after   == [s EXCEPT
                      !.coins = left \cup made,
                      !.coins_cache = Rehash(Rehash(@, ModeAt(s.height), left),
                                             ModeAt(s.height), left \cup made)]
    IN  IF clashes = {} THEN Ok(after) ELSE Err(after)

InputsExist(s, tx) == Range(TxIn[tx]) \subseteq s.coins

\* apply_transaction_no_sig_check: the form apply_batch uses, after it has
\* verified the signatures of the whole block.
apply_transaction_no_sig_check(s, tx) ==
    IF ~WellFormed(tx) \/ ~CommitmentLive(s, tx) THEN Err(s)
    ELSE IF ~InputsExist(s, tx) THEN Err(Consume(s, tx))
    ELSE SpendAndCreate(Consume(s, tx), tx)

\* apply_transaction: the form block templates use.  From V4 on it also
\* records the one-time keys.
apply_transaction(s, tx) ==
    IF \/ ~WellFormed(tx) \/ ~CommitmentLive(s, tx)
       \/ ~InputsExist(s, tx) \/ s.height < TxUnlock[tx]
    THEN Err(s)
    ELSE LET used == IF s.height >= V4Act
                     THEN [s EXCEPT !.burned_wots = @ \cup TxKeys[tx]] ELSE s
         IN  SpendAndCreate(Consume(used, tx), tx)
-----------------------------------------------------------------------------
(***************************************************************************)
(* The end of apply_batch_internal: coinbase, height, cache rebuild at the *)
(* V2 boundary, collection of expired commitments.                         *)
(***************************************************************************)
CoinbaseOK(s, coinbase, fees) ==
    /\ \A c \in coinbase : Value[c] # 0 /\ IsPowerOfTwo(Value[c])
    /\ SumValues(coinbase) = block_reward(s.height) + fees

AddCoinbase(s, coinbase) ==
    [s EXCEPT !.coins = @ \cup coinbase,
              !.coins_cache = Rehash(@, ModeAt(s.height), s.coins \cup coinbase)]

\* Fault: only the commitment tree is rebuilt at the boundary.
AdvanceHeight_one_rebuild(s) ==
    [s EXCEPT !.height = @ + 1,
              !.commitments_cache =
                  IF s.height + 1 = V2Act THEN Rebuilt("v2", s.commitments) ELSE @]

\* s is the state before the height is incremented.
AdvanceHeight(s) ==
    LET h == s.height + 1
    IN  IF h = V2Act
        THEN [s EXCEPT !.height = h,
                       !.coins_cache = Rebuilt("v2", s.coins),
                       !.commitments_cache = Rebuilt("v2", s.commitments)]
        ELSE [s EXCEPT !.height = h]

\* The commitments the collector removes at height s.height: a scan of
\* commitment_heights until V2Act + TTL, the expirations index from then on.
ExpiredByScan(s) ==
    {c \in Dated(s) :
        saturating_sub(s.height, s.commitment_heights[c]) > TTL}

\* Fault: off by one, the bucket that expires is never looked at.
ExpiredHeight_late(s) == saturating_sub(s.height, TTL + 2)

ExpiredHeight(s) == saturating_sub(s.height, TTL + 1)

ExpiredByIndex(s) == {c \in Tx : <<ExpiredHeight(s), c>> \in s.expirations}

\* m is the mode captured when the block began.
CollectExpired(s, m) ==
    IF s.height < V2Act + TTL
    THEN DropCommitments(s, ExpiredByScan(s), m)
    ELSE [DropCommitments(s, ExpiredByIndex(s), m)
            EXCEPT !.expirations = {e \in s.expirations : e[1] # ExpiredHeight(s)}]

EndBlock(s) == CollectExpired(AdvanceHeight(s), ModeAt(s.height))

\* deserialize_state: the caches and the index are not stored; the caches
\* are rebuilt for the stored height, the index from commitment_heights.
IndexOf(s) ==
    {<<s.commitment_heights[c], c>> : c \in Dated(s)}

deserialize_state(s) ==
    [s EXCEPT !.expirations = IndexOf(s),
              !.coins_cache = Rebuilt(ModeAt(s.height), s.coins),
              !.commitments_cache = Rebuilt(ModeAt(s.height), s.commitments)]
=============================================================================
