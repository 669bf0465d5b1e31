------------------------------- MODULE Ledger -------------------------------
(***************************************************************************)
(* One node applying blocks.  `apply_batch_internal` (src/core/state.rs)   *)
(* runs as a sequence of steps, one per transaction, on a State the caller *)
(* cloned; an error at any step makes the caller drop the clone            *)
(* (handle_new_batch, process_linear_extension, try_apply_orphans in       *)
(* src/node.rs).  Between blocks the process may stop and reload the State *)
(* it stored.                                                              *)
(*                                                                         *)
(* The block's content is chosen step by step.  The checks apply_batch     *)
(* makes on the whole block before it changes anything (parent, target,    *)
(* timestamp, order, counts, signatures) are guards: a block that fails    *)
(* one leaves no trace.                                                    *)
(***************************************************************************)
EXTENDS ChainState

CONSTANTS
    StartHeight,         \* height of the State the node starts from
    StartCoins,          \* its coins
    Coinbases(_),        \* Coinbases(h): coinbase sets proposed at height h
    MaxBatchCommits, MaxBatchReveals, MaxBatchInputs, MaxBatchOutputs,
    MaxHeight            \* bound: no block is begun at this height

ASSUME StartAssumption ==
    /\ MaxHeight \in Nat /\ StartHeight \in 0..MaxHeight
    /\ StartCoins \subseteq Coin
    /\ \A h \in 0..MaxHeight : Coinbases(h) \subseteq SUBSET Coin

\* Rewards are unsigned: a right shift of the initial one.
ASSUME RewardAssumption == \A h \in 0..MaxHeight : block_reward(h) \in Nat

VARIABLES
    state,      \* the State apply_batch is working on
    block,      \* how far it has got
    included,   \* history: anchored proofs of work in accepted blocks
    burnt       \* history: value destroyed by DataBurn outputs so far

vars == <<state, block, included, burnt>>

Pow == [tx : Tx, t : 0..(MaxHeight + 1), fmt : PowFormat]

Phase == {"idle", "body", "failed"}

\* Block accounting when no block is being applied.
NoBlock(s) ==
    [phase |-> "idle", before |-> s, commits |-> {}, pows |-> {}, reveals |-> 0,
     inputs |-> 0, outputs |-> 0, fees |-> 0, burn |-> 0, consolidated |-> {}]

\* A node starts from a State it has just loaded: live commitments of any age
\* the collector allows, caches and index rebuilt.
Loaded(ages) ==
    deserialize_state(
        [coins |-> StartCoins,
         commitments |-> {c \in Tx : ages[c] # None}, commitment_heights |-> ages,
         expirations |-> {}, burned_wots |-> {}, height |-> StartHeight,
         coins_cache |-> "none", commitments_cache |-> "none"])

Init ==
    /\ \E ages \in [Tx -> {None} \cup (saturating_sub(StartHeight, TTL)..(StartHeight - 1))] :
         state = Loaded(ages)
    /\ block = NoBlock(state)
    /\ included = {}
    /\ burnt = 0
-----------------------------------------------------------------------------
BeginBlock ==
    /\ block.phase = "idle"
    /\ state.height < MaxHeight
    /\ block' = [NoBlock(state) EXCEPT !.phase = "body"]
    /\ UNCHANGED <<state, included, burnt>>

\* Adopt the result r of one step, or stop the block.
Proceed(r, next) ==
    /\ state' = r.state
    /\ block' = IF r.ok THEN next ELSE [block EXCEPT !.phase = "failed"]

ApplyCommit(pow) ==
    /\ block.phase = "body"
    /\ block.reveals = 0                       \* commits come first
    /\ Cardinality(block.commits) < MaxBatchCommits
    /\ Proceed(apply_commit(state, pow),
               [block EXCEPT
                    !.commits = @ \cup {pow.tx},
                    !.pows = IF pow.fmt = "v3" THEN @ \cup {pow} ELSE @])
    /\ UNCHANGED <<included, burnt>>

\* verify_transaction_sigs, on the state before the block.
SigsVerify(tx) ==
    /\ tx \in block.before.commitments \cup block.commits
    /\ state.height >= TxUnlock[tx]

\* A Consolidate counts as one input, and there is one per address.
InputCount(tx) == IF TxKind[tx] = "Consolidate" THEN 1 ELSE Len(TxIn[tx])
ConsolidatedAddress(tx) ==
    IF TxKind[tx] = "Consolidate" /\ TxIn[tx] # <<>> THEN {Owner[TxIn[tx][1]]} ELSE {}

ApplyReveal(tx) ==
    /\ block.phase = "body"
    /\ block.reveals < MaxBatchReveals
    /\ block.inputs + InputCount(tx) <= MaxBatchInputs
    /\ block.outputs + Len(TxOut[tx]) + Len(TxBurn[tx]) <= MaxBatchOutputs
    /\ ConsolidatedAddress(tx) \cap block.consolidated = {}
    /\ SigsVerify(tx)
    /\ Proceed(apply_transaction_no_sig_check(state, tx),
               [block EXCEPT
                    !.reveals = @ + 1,
                    !.inputs = @ + InputCount(tx),
                    !.outputs = @ + Len(TxOut[tx]) + Len(TxBurn[tx]),
                    !.fees = @ + fee(tx),
                    !.burn = @ + SumSeq(TxBurn[tx]),
                    !.consolidated = @ \cup ConsolidatedAddress(tx)])
    /\ UNCHANGED <<included, burnt>>

\* Coinbase, height, rebuild at the V2 boundary, collection.  After an error
\* the clone is dropped, coinbase coins already inserted included.
FinishBlock(coinbase) ==
    /\ block.phase = "body"
    /\ IF CoinbaseOK(state, coinbase, block.fees) /\ coinbase \cap state.coins = {}
       THEN /\ state' = EndBlock(AddCoinbase(state, coinbase))
            /\ block' = NoBlock(state')
            /\ included' = included \cup block.pows
            /\ burnt' = burnt + block.burn
       ELSE /\ block' = [block EXCEPT !.phase = "failed"]
            /\ UNCHANGED <<state, included, burnt>>

\* apply_batch returned an error: the caller's own State was never touched.
RejectBlock ==
    /\ block.phase = "failed"
    /\ state' = block.before
    /\ block' = NoBlock(block.before)
    /\ UNCHANGED <<included, burnt>>

\* The process stops between blocks and reloads the State it saved.
Restart ==
    /\ block.phase = "idle"
    /\ state' = deserialize_state(state)
    /\ block' = NoBlock(state')
    /\ UNCHANGED <<included, burnt>>

Next ==
    \/ BeginBlock
    \/ \E pow \in Pow : ApplyCommit(pow)
    \/ \E tx \in Tx : ApplyReveal(tx)
    \/ \E coinbase \in Coinbases(state.height) : FinishBlock(coinbase)
    \/ RejectBlock
    \/ Restart

Spec == Init /\ [][Next]_vars
-----------------------------------------------------------------------------
(***************************************************************************)
(* Properties.                                                             *)
(***************************************************************************)
Idle == block.phase = "idle"

\* What each block may add to the supply.
Rewards == [h \in 0..MaxHeight |-> block_reward(h)]

BlockType ==
    [phase : Phase, before : State, commits : SUBSET Tx, pows : SUBSET Pow,
     reveals : Nat, inputs : Nat, outputs : Nat, fees : Nat, burn : Nat,
     consolidated : SUBSET Address]

\* State and block accounting have the types the code declares.
TypeOK ==
    /\ state \in State
    /\ block \in BlockType
    /\ included \subseteq Pow
    /\ burnt \in Nat

\* Every commitment a node keeps was made at most COMMITMENT_TTL blocks ago,
\* whichever collector (scan or index) was in force while it aged, across
\* the switch between them, rejected blocks and restarts.
NoCommitmentOutlivesTTL ==
    /\ Dated(state) = state.commitments
    /\ \A c \in state.commitments :
          /\ state.commitment_heights[c] <= state.height
          /\ state.height - state.commitment_heights[c] <= TTL

\* Nothing but the block reward adds to the money supply: coins in existence
\* and value burnt sum to what was there at the start and the rewards since.
Supply ==
    Idle => SumValues(state.coins) + burnt
              = SumValues(StartCoins)
                  + SumOf(Rewards, StartHeight..(state.height - 1))

\* Collection is deterministic: the next block removes the same commitments
\* whether the node has been running for long (its index grew commit by
\* commit) or has just reloaded (its index was rebuilt).
SameCollectionAfterRestart ==
    Idle => EndBlock(state).commitments = EndBlock(deserialize_state(state)).commitments

\* The coin tree's cache is all in the mode of the current height.
CoinsCacheConsistent ==
    Idle => state.coins_cache = Rebuilt(ModeAt(state.height), state.coins)

\* So is the commitment tree's.
CommitmentsCacheConsistent ==
    Idle => state.commitments_cache = Rebuilt(ModeAt(state.height), state.commitments)

\* For a node that loaded its State at or after the replay fix, a restart
\* changes nothing consensus depends on, now or in any later block: the
\* collector's index is exact and both caches are in the current mode.
RestartTransparentAfterFix ==
    (Idle /\ StartHeight >= ReplayFix) =>
        state = deserialize_state(state)

\* After the replay fix a proof of work buys one inclusion: as long as one
\* that is already on chain would still be accepted, the commitment it paid
\* for is still there and a second copy is a duplicate.
PowIsSingleUse ==
    (Idle /\ StartHeight >= ReplayFix) =>
        \A pow \in included :
            evaluate_commit_pow(pow, state.height) => pow.tx \in state.commitments

\* The contract of apply_transaction_no_sig_check: an error leaves the two
\* accumulators as they were.
TxAtomic ==
    [][(block.phase = "body" /\ block'.phase = "failed") =>
          /\ state'.coins = state.coins
          /\ state'.commitments = state.commitments]_vars
=============================================================================
