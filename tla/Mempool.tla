------------------------------ MODULE Mempool ------------------------------
(***************************************************************************)
(* The pool of pending transactions (src/mempool.rs) of one node, with the *)
(* events of src/node.rs that change it: a transaction is submitted, a     *)
(* block arrives or is mined, a sync extends the chain, a heavier branch   *)
(* replaces its end, the process restarts.                                 *)
(*                                                                         *)
(* The event loop owns the node (&mut self, also across awaits), so a      *)
(* transaction is validated and added against one State; but a block or a  *)
(* branch is applied transaction by transaction here, and the abandoned    *)
(* transactions are restored one by one, with nothing else in between.     *)
(* Heights are past the replay fix: every proof of work is anchored to a   *)
(* block, named by its height and the branch it belongs to.                *)
(***************************************************************************)
EXTENDS ChainState

CONSTANTS
    NoTx,                   \* no entry in a map to transactions
    TxSizes(_),             \* serialized sizes (the witness is not in the id)
    TxRank,                 \* byte order of transaction ids
    PowBits,                \* leading zero bits a submitter may reach
    RequiredPow(_),         \* calculate_required_pow, by pending commits
    MAX_MEMPOOL_REVEALS, MAX_MEMPOOL_BYTES, MAX_PENDING_COMMITS,
    MIN_FEE_PER_KB, FEE_RATE_SCALE,
    StartHeight, StartCoins,    \* the State the node starts from
    MaxHeight, MaxReorgs, MaxBlockTxs, PowAnchors,  \* bounds
    Scenes                  \* [ages, txs, bits, blockTxs]: commitments at the start, what is broadcast

ASSUME StartAssumption ==
    /\ StartHeight \in Nat /\ StartHeight >= ReplayFix /\ MaxHeight \in Nat
    /\ StartCoins \subseteq Coin
    /\ \A s \in Scenes :
          /\ s.ages \in [Tx -> {None} \cup (saturating_sub(StartHeight, TTL)..(StartHeight - 1))]
          /\ s.txs \subseteq Tx /\ s.bits \subseteq PowBits /\ s.blockTxs \in 1..MaxBlockTxs

ASSUME PoolAssumption ==
    /\ NoTx \notin Tx
    /\ TxRank \in [Tx -> Nat] /\ IsInjective(TxRank)
    /\ PowBits \subseteq Nat
    /\ \A tx \in Tx : TxSizes(tx) \subseteq Nat \ {0}
    /\ FEE_RATE_SCALE \in Nat /\ MIN_FEE_PER_KB \in Nat
    /\ MaxReorgs \in Nat /\ PowAnchors \subseteq Nat
    /\ IsFiniteSet(Tx)                         \* ids are 32 bytes
    /\ MAX_MEMPOOL_REVEALS \in Nat /\ MAX_MEMPOOL_BYTES \in Nat
    /\ MAX_PENDING_COMMITS \in Nat \ {0}

VARIABLES
    state,          \* the node's State
    chain,          \* blocks since StartHeight: State before, branch, entries
    branch,         \* number of reorgs so far: the branch of the tip
    pool,           \* the Mempool
    spent,          \* SPENT_ADDRESSES_TABLE: key -> transaction that used it
    active_burns,   \* keys under punishment for reuse
    work,           \* the block or branch being applied, the txs to restore
    scene           \* what this behaviour starts from and may broadcast

vars == <<state, chain, branch, pool, spent, active_burns, work, scene>>

Pow ==
    [tx : Tx, t : PowAnchors, fmt : {"v3"}, bits : PowBits, branch : 0..MaxReorgs]

Entry == [kind : {"commit"}, pow : Pow] \cup [kind : {"reveal"}, tx : Tx, size : Nat \ {0}]

Block == [before : State, branch : 0..MaxReorgs, txs : Seq(Entry)]

MempoolType ==
    [commits : SUBSET Pow, commits_by_pow : SUBSET (Nat \X Tx),
     reveals : [Tx -> Nat],                    \* size, 0 when absent
     reveals_by_fee : SUBSET (Nat \X Tx),
     txs_by_input : [Coin -> Tx \cup {NoTx}],
     current_reveal_bytes : Nat]

EmptyPool ==
    [commits |-> {}, commits_by_pow |-> {}, reveals |-> [tx \in Tx |-> 0],
     reveals_by_fee |-> {}, txs_by_input |-> [c \in Coin |-> NoTx],
     current_reveal_bytes |-> 0]

NoWork ==
    [phase |-> "quiet", fork |-> 0, before |-> state, state |-> state,
     blocks |-> <<>>, txs |-> <<>>]
-----------------------------------------------------------------------------
(***************************************************************************)
(* The pool.                                                               *)
(***************************************************************************)
Pending(p) == {tx \in Tx : p.reveals[tx] # 0}

Inputs(tx) == Range(TxIn[tx])

compute_fee_rate(f, size) == IF size = 0 THEN 0 ELSE (f * FEE_RATE_SCALE) \div size

Rate(p, tx) == compute_fee_rate(fee(tx), p.reveals[tx])

SizeOf(p, txs) == SumOf(p.reveals, txs)

\* Order of a BTreeSet of <<priority, id>>.
Before(a, b) == a[1] < b[1] \/ (a[1] = b[1] /\ TxRank[a[2]] < TxRank[b[2]])

\* remove_reveal_internal, for each of a set of ids.
remove_reveals(p, txs) ==
    LET gone == txs \cap Pending(p)
    IN  [p EXCEPT
            !.reveals = [tx \in Tx |-> IF tx \in gone THEN 0 ELSE @[tx]],
            !.reveals_by_fee = @ \ {<<Rate(p, tx), tx>> : tx \in gone},
            !.txs_by_input = [c \in Coin |->
                IF \E tx \in gone : c \in Inputs(tx) THEN NoTx ELSE @[c]],
            !.current_reveal_bytes = saturating_sub(@, SizeOf(p, gone))]

insert_reveal(p, tx, size) ==
    [p EXCEPT
        !.reveals[tx] = size,
        !.reveals_by_fee = @ \cup {<<compute_fee_rate(fee(tx), size), tx>>},
        !.txs_by_input = [c \in Coin |-> IF c \in Inputs(tx) THEN tx ELSE @[c]],
        !.current_reveal_bytes = @ + size]

remove_commits(p, txs) ==
    [p EXCEPT !.commits = {pow \in @ : pow.tx \notin txs},
              !.commits_by_pow = {e \in @ : e[2] \notin txs}]

insert_commit(p, pow) ==
    [p EXCEPT !.commits = {q \in @ : q.tx # pow.tx} \cup {pow},
              !.commits_by_pow = @ \cup {<<pow.bits, pow.tx>>}]

HasCommit(p, tx) == \E pow \in p.commits : pow.tx = tx

required_commit_pow(p) == RequiredPow(Cardinality(p.commits))

\* The weakest commit, when the pool of commits is full.
CommitVictims(p) ==
    IF Cardinality(p.commits) < MAX_PENDING_COMMITS THEN {}
    ELSE {e \in p.commits_by_pow : \A f \in p.commits_by_pow : ~Before(f, e)}

\* Mempool::add on a Commit: the pools it may become (none: an error).
add_commit(p, pow) ==
    {q \in {insert_commit(remove_commits(p, {e[2] : e \in CommitVictims(p)}), pow)} :
        /\ pow.bits >= required_commit_pow(p)
        /\ ~HasCommit(p, pow.tx)
        /\ \A e \in CommitVictims(p) : pow.bits > e[1]}

\* Pending reveals that spend an input of tx.
Conflicts(p, tx) == {p.txs_by_input[c] : c \in Inputs(tx)} \ {NoTx}

\* Fault: the incoming transaction is not counted.
Fits_without_newcomer(p, gone, size) ==
    /\ Cardinality(Pending(p) \ gone) <= MAX_MEMPOOL_REVEALS
    /\ saturating_sub(p.current_reveal_bytes, SizeOf(p, gone)) + size <= MAX_MEMPOOL_BYTES

Fits(p, gone, size) ==
    /\ Cardinality(Pending(p) \ gone) + 1 <= MAX_MEMPOOL_REVEALS
    /\ saturating_sub(p.current_reveal_bytes, SizeOf(p, gone)) + size <= MAX_MEMPOOL_BYTES

\* The sets of entries the eviction loop can have passed over: prefixes of
\* the fee order, without the conflicts already marked.
Cheapest(p, conflicts) ==
    LET others == {e \in p.reveals_by_fee : e[2] \notin conflicts}
    IN  {low \in SUBSET others : \A e \in low, f \in others \ low : Before(e, f)}

Outbids(rate, p, txs) == \A tx \in txs : rate > Rate(p, tx)

\* The reveals add evicts: the conflicts and the shortest prefix that makes
\* room.  No such set, or a victim that pays as much: an error.
Victims(p, tx, size) ==
    LET conflicts == Conflicts(p, tx)
        Gone(low) == conflicts \cup {e[2] : e \in low}
        enough    == {low \in Cheapest(p, conflicts) : Fits(p, Gone(low), size)}
    IN  {Gone(low) : low \in {l \in enough : \A k \in enough : l \subseteq k}}

\* Mempool::add on a Reveal or Consolidate.
add_reveal(p, tx, size) ==
    {insert_reveal(remove_reveals(p, gone), tx, size) :
        gone \in {g \in Victims(p, tx, size) :
            /\ \A k \in TxKeys[tx] : spent[k] \in {NoTx, tx}
            /\ fee(tx) * FEE_RATE_SCALE >= MIN_FEE_PER_KB * size
            /\ Outbids(compute_fee_rate(fee(tx), size), p, g)}}

\* Dead for the pool's purposes: past its TTL or not recorded any more.
CommitmentDead(s, tx) ==
    \/ s.commitment_heights[tx] = None
    \/ saturating_sub(s.height, s.commitment_heights[tx]) > TTL

SpentBy(txs)    == UNION {Inputs(e.tx) : e \in {x \in Range(txs) : x.kind = "reveal"}}
KeysBy(txs)     == UNION {TxKeys[e.tx] : e \in {x \in Range(txs) : x.kind = "reveal"}}
MinedCommits(txs) == {e.pow.tx : e \in {x \in Range(txs) : x.kind = "commit"}}

\* Fault: the pass over commitments is missing.
prune_on_new_block_no_ttl(p, s, txs) ==
    LET spends == {p.txs_by_input[c] : c \in SpentBy(txs)} \ {NoTx}
        reused == {tx \in Pending(p) : TxKeys[tx] \cap KeysBy(txs) # {}}
    IN  remove_commits(remove_reveals(p, spends \cup reused), MinedCommits(txs))

prune_on_new_block(p, s, txs) ==
    LET spends == {p.txs_by_input[c] : c \in SpentBy(txs)} \ {NoTx}
        reused == {tx \in Pending(p) : TxKeys[tx] \cap KeysBy(txs) # {}}
        dead   == {tx \in Pending(p) : CommitmentDead(s, tx)}
    IN  remove_commits(remove_reveals(p, spends \cup reused \cup dead), MinedCommits(txs))
-----------------------------------------------------------------------------
(***************************************************************************)
(* The chain the pool lives on.                                            *)
(***************************************************************************)
BranchAt(blocks, h) ==
    IF h < StartHeight THEN 0 ELSE blocks[h - StartHeight + 1].branch

\* evaluate_commit_pow: the anchor is looked up in the chain's own MMR.
PowValid(pow, s, blocks) ==
    /\ evaluate_commit_pow(pow, s.height)
    /\ pow.branch = BranchAt(blocks, pow.t)

\* validate_transaction; a Consolidate of one coin passes here.
validate_commit(pow, s, blocks) == PowValid(pow, s, blocks) /\ pow.tx \notin s.commitments

validate_reveal(tx, s) ==
    /\ WellFormed(tx) \/ (TxKind[tx] = "Consolidate" /\ Len(TxIn[tx]) = 1)
    /\ CommitmentLive(s, tx)
    /\ InputsExist(s, tx)
    /\ s.height >= TxUnlock[tx]

prune_invalid(p, s, blocks) ==
    remove_reveals(
        remove_commits(p, {pow.tx : pow \in {q \in p.commits : ~PowValid(q, s, blocks)}}),
        {tx \in Pending(p) :
            ~InputsExist(s, tx) \/ tx \notin s.commitments \/ CommitmentDead(s, tx)})

\* Fault: the byte counter is not increased.
re_add_forgets_bytes(p, e, s, blocks) ==
    IF e.kind = "commit"
    THEN IF validate_commit(e.pow, s, blocks) /\ ~HasCommit(p, e.pow.tx)
         THEN insert_commit(p, e.pow) ELSE p
    ELSE IF validate_reveal(e.tx, s) /\ Conflicts(p, e.tx) = {}
         THEN [insert_reveal(p, e.tx, e.size)
                 EXCEPT !.current_reveal_bytes = p.current_reveal_bytes] ELSE p

\* re_add of one abandoned transaction: no fee, PoW or capacity check.
re_add(p, e, s, blocks) ==
    IF e.kind = "commit"
    THEN IF validate_commit(e.pow, s, blocks) /\ ~HasCommit(p, e.pow.tx)
         THEN insert_commit(p, e.pow) ELSE p
    ELSE IF validate_reveal(e.tx, s) /\ Conflicts(p, e.tx) = {}
         THEN insert_reveal(p, e.tx, e.size) ELSE p

\* Where the reveals of a list of blocks use key k: <<block, position>>.
Uses(blocks, k) ==
    {u \in (DOMAIN blocks) \X (1..MaxBlockTxs) :
        /\ u[2] \in DOMAIN blocks[u[1]].txs
        /\ blocks[u[1]].txs[u[2]].kind = "reveal"
        /\ k \in TxKeys[blocks[u[1]].txs[u[2]].tx]}

\* burn_batch_addresses, block after block: the last use is the one kept.
burn_batch_addresses(table, blocks) ==
    [k \in Key |->
        IF Uses(blocks, k) = {} THEN table[k]
        ELSE LET last == CHOOSE u \in Uses(blocks, k) : \A v \in Uses(blocks, k) :
                             v[1] < u[1] \/ (v[1] = u[1] /\ v[2] <= u[2])
             IN  blocks[last[1]].txs[last[2]].tx]

unburn_batch_addresses(table, blocks) ==
    [k \in Key |-> IF Uses(blocks, k) = {} THEN table[k] ELSE NoTx]
-----------------------------------------------------------------------------
Quiet == work.phase = "quiet"

Init ==
    /\ scene \in Scenes
    /\ state = deserialize_state(
            [coins |-> StartCoins, commitment_heights |-> scene.ages,
             commitments |-> {c \in Tx : scene.ages[c] # None},
             expirations |-> {}, burned_wots |-> {}, height |-> StartHeight,
             coins_cache |-> "none", commitments_cache |-> "none"])
    /\ chain = <<>>
    /\ branch = 0
    /\ pool = EmptyPool
    /\ spent = [k \in Key |-> NoTx]
    /\ active_burns = {}
    /\ work = NoWork

(***************************************************************************)
(* handle_new_transaction.  A rejected transaction changes nothing, except *)
(* that a key seen signing two transactions is put under punishment.       *)
(***************************************************************************)
SubmitCommit(pow) ==
    /\ Quiet
    /\ validate_commit(pow, state, chain)
    /\ pool' \in add_commit(pool, pow)
    /\ UNCHANGED <<state, chain, branch, spent, active_burns, work, scene>>

\* A pending reveal, or one recorded on chain, that used key k before tx.
KeyReused(tx, k) ==
    \/ \E other \in Pending(pool) \ {tx} : k \in TxKeys[other]
    \/ k \in state.burned_wots /\ spent[k] \notin {NoTx, tx}

SubmitReveal(tx, size) ==
    /\ Quiet
    /\ validate_reveal(tx, state)
    /\ TxKeys[tx] \cap active_burns = {}
    /\ \A k \in TxKeys[tx] : ~KeyReused(tx, k)
    /\ pool' \in add_reveal(pool, tx, size)
    /\ UNCHANGED <<state, chain, branch, spent, active_burns, work, scene>>

PunishReuse(tx, k) ==
    /\ Quiet
    /\ validate_reveal(tx, state)
    /\ k \in TxKeys[tx] \ active_burns
    /\ KeyReused(tx, k)
    /\ active_burns' = active_burns \cup {k}
    /\ UNCHANGED <<state, chain, branch, pool, spent, work, scene>>

(***************************************************************************)
(* A block, or a branch of several, is applied to a clone of the State at  *)
(* its fork point; one that fails is dropped and leaves no trace.          *)
(***************************************************************************)
StateAt(fork) == IF fork = Len(chain) THEN state ELSE chain[fork + 1].before

Candidate == SubSeq(chain, 1, work.fork) \o work.blocks

Receive(fork) ==
    /\ Quiet
    /\ fork = Len(chain) \/ branch < MaxReorgs
    /\ StateAt(fork).height < MaxHeight
    /\ work' = [NoWork EXCEPT !.phase = "evaluate", !.fork = fork,
                              !.before = StateAt(fork), !.state = StateAt(fork)]
    /\ UNCHANGED <<state, chain, branch, pool, spent, active_burns, scene>>

Include(e, r) ==
    /\ Len(work.txs) < scene.blockTxs /\ work.state.height < MaxHeight
    /\ r.ok
    /\ work' = [work EXCEPT !.state = r.state, !.txs = Append(@, e)]
    /\ UNCHANGED <<state, chain, branch, pool, spent, active_burns, scene>>

IncludeCommit(pow) ==
    /\ work.phase = "evaluate"
    /\ \A i \in DOMAIN work.txs : work.txs[i].kind = "commit"
    /\ PowValid(pow, work.state, Candidate)
    /\ Include([kind |-> "commit", pow |-> pow], apply_commit(work.state, pow))

IncludeReveal(tx, size) ==
    /\ work.phase = "evaluate"
    /\ work.state.height >= TxUnlock[tx]
    /\ Include([kind |-> "reveal", tx |-> tx, size |-> size],
               apply_transaction_no_sig_check(work.state, tx))

\* The coins of the reward are left to Ledger.
SealBlock ==
    /\ work.phase = "evaluate"
    /\ work.state.height < MaxHeight
    /\ LET s == EndBlock(work.state)
           sealed == [before |-> work.before, txs |-> work.txs,
                      branch |-> IF work.fork = Len(chain) THEN branch ELSE branch + 1]
       IN  work' = [work EXCEPT !.before = s, !.state = s, !.txs = <<>>,
                                !.blocks = Append(@, sealed)]
    /\ UNCHANGED <<state, chain, branch, pool, spent, active_burns, scene>>

\* Everything evaluated so far becomes the chain.
Adopt ==
    /\ work.phase = "evaluate" /\ work.txs = <<>> /\ work.blocks # <<>>
    /\ state' = work.state
    /\ chain' = Candidate

\* One block on the tip: handle_new_batch (which records no spent keys),
\* handle_mined_batch and try_apply_orphans (which do).
NewBlock(records) ==
    /\ Adopt /\ work.fork = Len(chain) /\ Len(work.blocks) = 1
    /\ spent' = IF records THEN burn_batch_addresses(spent, work.blocks) ELSE spent
    /\ pool' = prune_on_new_block(pool, state', work.blocks[1].txs)
    /\ work' = NoWork'
    /\ UNCHANGED <<branch, active_burns, scene>>

\* process_linear_extension.
LinearExtension ==
    /\ Adopt /\ work.fork = Len(chain)
    /\ spent' = burn_batch_addresses(spent, work.blocks)
    /\ pool' = prune_invalid(pool, state', chain')
    /\ work' = NoWork'
    /\ UNCHANGED <<branch, active_burns, scene>>

\* perform_reorg, up to re_add: the blocks left behind are in work.blocks.
Reorg ==
    /\ Adopt /\ work.fork < Len(chain)
    /\ LET abandoned == SubSeq(chain, work.fork + 1, Len(chain))
       IN  /\ spent' = burn_batch_addresses(unburn_batch_addresses(spent, abandoned), work.blocks)
           /\ work' = [NoWork' EXCEPT !.phase = "restore", !.blocks = abandoned]
    /\ branch' = branch + 1
    /\ UNCHANGED <<pool, active_burns, scene>>

ReAdd ==
    /\ work.phase = "restore" /\ work.blocks # <<>>
    /\ LET txs == Head(work.blocks).txs
       IN  IF txs = <<>>
           THEN /\ work' = [work EXCEPT !.blocks = Tail(@)]
                /\ UNCHANGED pool
           ELSE /\ pool' = re_add(pool, Head(txs), state, chain)
                /\ work' = [work EXCEPT !.blocks[1].txs = Tail(@)]
    /\ UNCHANGED <<state, chain, branch, spent, active_burns, scene>>

FinishReorg ==
    /\ work.phase = "restore" /\ work.blocks = <<>>
    /\ pool' = prune_invalid(pool, state, chain)
    /\ work' = NoWork
    /\ UNCHANGED <<state, chain, branch, spent, active_burns, scene>>

\* The pool and the list of keys under punishment are not stored.
Restart ==
    /\ Quiet
    /\ state' = deserialize_state(state)
    /\ pool' = EmptyPool
    /\ active_burns' = {}
    /\ work' = NoWork'
    /\ UNCHANGED <<chain, branch, spent, scene>>

\* Commits anybody broadcasts.
Broadcast == {pow \in Pow : pow.tx \in scene.txs /\ pow.bits \in scene.bits}

Next ==
    \/ \E pow \in Broadcast : SubmitCommit(pow) \/ IncludeCommit(pow)
    \/ \E tx \in scene.txs : \E size \in TxSizes(tx) : SubmitReveal(tx, size) \/ IncludeReveal(tx, size)
    \/ \E tx \in scene.txs, k \in Key : PunishReuse(tx, k)
    \/ \E fork \in 0..Len(chain) : Receive(fork)
    \/ SealBlock
    \/ \E records \in BOOLEAN : NewBlock(records)
    \/ LinearExtension
    \/ Reorg
    \/ ReAdd
    \/ FinishReorg
    \/ Restart

Spec == Init /\ [][Next]_vars
-----------------------------------------------------------------------------
(***************************************************************************)
(* Properties.                                                             *)
(***************************************************************************)
\* Chain, pool and tables have the types the code declares.
TypeOK ==
    /\ state \in State /\ chain \in Seq(Block) /\ branch \in 0..MaxReorgs
    /\ pool \in MempoolType
    /\ spent \in [Key -> Tx \cup {NoTx}] /\ active_burns \subseteq Key
    /\ work \in [phase : {"quiet", "evaluate", "restore"}, fork : Nat, before : State,
                 state : State, blocks : Seq(Block), txs : Seq(Entry)]

\* The four indexes of the pool describe the same transactions, through
\* replacement, eviction, pruning by block, restoring and pruning after a
\* reorg.  Because an input leads to one transaction, no two pending reveals
\* spend the same coin.
IndexesAgree(p) ==
    /\ \A x, y \in p.commits : x.tx = y.tx => x = y
    /\ p.commits_by_pow = {<<pow.bits, pow.tx>> : pow \in p.commits}
    /\ p.reveals_by_fee = {<<Rate(p, tx), tx>> : tx \in Pending(p)}
    /\ \A tx \in Pending(p), c \in Coin : c \in Inputs(tx) <=> p.txs_by_input[c] = tx
    /\ \A c \in Coin : p.txs_by_input[c] \in Pending(p) \cup {NoTx}

\* The byte counter that bounds the pool's memory is the sum of the sizes.
BytesExact(p) == p.current_reveal_bytes = SizeOf(p, Pending(p))

\* The pool is consistent: its fields have their types, its indexes describe
\* the same transactions and its byte counter is exact, after any mix of
\* add, re_add, eviction and the two prunes (mempool.rs).
PoolConsistent == TypeOK /\ IndexesAgree(pool) /\ BytesExact(pool)

\* Between events, every pending reveal can still be mined: its coins exist
\* and its commitment is on this chain and alive, whatever blocks, syncs and
\* reorgs the node went through since it was admitted.
RevealsMinable ==
    Quiet => \A tx \in Pending(pool) : InputsExist(state, tx) /\ CommitmentLive(state, tx)

\* Submitting a reveal brings the pool of reveals within its limits, also
\* after a reorg overfilled it, and submitting a commit never makes an
\* overfull pool of commits larger.
KeepsBounds ==
    /\ (\E tx \in Tx : \E size \in TxSizes(tx) : SubmitReveal(tx, size)) =>
         /\ Cardinality(Pending(pool')) <= MAX_MEMPOOL_REVEALS
         /\ pool'.current_reveal_bytes <= MAX_MEMPOOL_BYTES
    /\ (\E pow \in Pow : SubmitCommit(pow)) =>
         Cardinality(pool'.commits)
           <= Max({MAX_PENDING_COMMITS, Cardinality(pool.commits)})

\* A submission never costs the pool a reveal that pays as much per byte as
\* the one that came in.
PaysOff ==
    \A tx \in Tx : \A size \in TxSizes(tx) : SubmitReveal(tx, size) =>
        \A out \in Pending(pool) \ Pending(pool') :
            compute_fee_rate(fee(tx), size) > Rate(pool, out)

\* What a submission may never do to the pool (Mempool::add).
SubmissionPaysOff == [][KeepsBounds /\ PaysOff]_vars

\* Documentation of Mempool::add, replacement rule 2: a replacement pays a
\* strictly higher absolute fee than everything it conflicts with.
ReplacementPaysMore ==
    [][\A tx \in Tx : (\E size \in TxSizes(tx) : SubmitReveal(tx, size)) =>
          fee(tx) > SumOf([t \in Tx |-> fee(t)], Conflicts(pool, tx)) \/ Conflicts(pool, tx) = {}]_vars

\* Documentation of re_add: after a reorg, the trailing prune_invalid brings
\* the pools back within their limits.
BoundsAfterReorg ==
    Quiet => /\ Cardinality(Pending(pool)) <= MAX_MEMPOOL_REVEALS
             /\ Cardinality(pool.commits) <= MAX_PENDING_COMMITS

\* Documentation of prune_invalid: what is no longer valid is removed; a
\* pending commit whose commitment is on chain can never be mined again.
PendingCommitsApplicable ==
    Quiet => \A pow \in pool.commits : pow.tx \notin state.commitments
=============================================================================
